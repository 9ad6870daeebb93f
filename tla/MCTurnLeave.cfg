SPECIFICATION FairClockSpec
CONSTANTS
  ana = ana
  bea = bea
  cyd = cyd
  bot1 = bot1
  NoName = NoName
  NoCard = NoCard
  NoInput = NoInput
  Human = {ana, bea}
  BotName = {bot1}
  Card <- AllCards
  Colour <- TwoColours
  Games <- LeaveGames
  MayLeave = {ana}
  MayJoin = {}
  MayCallUno = {bea}
  Modes = {"kPlayInstantly", "kWaitUntilTurnEnd"}
  ModesDuring = {"kPlayInstantly"}
  MayDrop = {ana}
  MaxInterruptions = 1
INVARIANTS
  ClockTypeOK
  ClockRuns
  LoopForAbsent
PROPERTIES
  NobodyRobbed
  QuestionAnswered
  HandlerReturns
  GameGoesOn
