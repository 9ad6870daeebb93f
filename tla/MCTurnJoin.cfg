SPECIFICATION FairClockSpec
CONSTANTS
  ana = ana
  bea = bea
  cyd = cyd
  bot1 = bot1
  NoName = NoName
  NoCard = NoCard
  NoInput = NoInput
  Human = {ana, bea, cyd}
  BotName = {bot1}
  Card <- AllCards
  Colour <- TwoColours
  Games <- JoinGames
  MayLeave = {}
  MayJoin = {cyd}
  MayCallUno = {}
  Modes = {"kPlayInstantly", "kWaitUntilTurnEnd"}
  ModesDuring = {}
  MayDrop = {cyd}
  MaxInterruptions = 1
PROPERTIES
  QuestionAnswered
