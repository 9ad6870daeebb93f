SPECIFICATION FairClockSpec
CONSTANTS
  ana = ana
  bea = bea
  cyd = cyd
  bot1 = bot1
  NoName = NoName
  NoCard = NoCard
  NoInput = NoInput
  Human = {ana, bea}
  BotName = {bot1}
  Card <- AllCards
  Colour <- TwoColours
  Games <- LeaveGames
  MayLeave = {}
  MayJoin = {}
  MayCallUno = {}
  Modes = {"kPlayInstantly"}
  ModesDuring = {}
  MayDrop = {ana}
  MaxInterruptions = 1
INVARIANTS
  NothingPlaysOn
