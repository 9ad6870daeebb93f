SPECIFICATION Spec
CONSTANTS
  ana = ana
  bea = bea
  cyd = cyd
  bot1 = bot1
  bot2 = bot2
  NoName = NoName
  NoCard = NoCard
  NoInput = NoInput
  Human = {ana, bea}
  BotName = {bot1}
  Card <- AllCards
  Colour <- TwoColours
  Games <- ClosedGames
  MayLeave = {}
  MayJoin = {}
  MayCallUno = {ana}
INVARIANTS
  TypeOK
  CardConservation
  QuestionAtHead
  UnoFlagHonest
  PenaltyBacked
  LastCardWins
  NestedPlayAccepted
  EffectQueueBounded
PROPERTIES
  TurnHandedOver
  JumpInStealsTurn
