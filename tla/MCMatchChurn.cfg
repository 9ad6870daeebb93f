SPECIFICATION Spec
CONSTANTS
  ana = ana
  bea = bea
  cyd = cyd
  bot1 = bot1
  bot2 = bot2
  NoName = NoName
  NoCard = NoCard
  NoInput = NoInput
  Human = {ana, bea, cyd}
  BotName = {bot1, bot2}
  Card <- AllCards
  Colour <- TwoColours
  Games <- ChurnGames
  MayLeave = {ana, bot1}
  MayJoin = {ana, cyd}
  MayCallUno = {}
INVARIANTS
  QuestionAtHead
