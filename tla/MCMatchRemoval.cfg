SPECIFICATION Spec
CONSTANTS
  ana = ana
  bea = bea
  cyd = cyd
  bot1 = bot1
  bot2 = bot2
  NoName = NoName
  NoCard = NoCard
  NoInput = NoInput
  Human = {ana, bea, cyd}
  BotName = {bot1}
  Card <- AllCards
  Colour <- TwoColours
  Games <- RemovalGames
  MayLeave = {ana, bea, cyd}
  MayJoin = {}
  MayCallUno = {}
PROPERTIES
  RemovalKeepsTurn
