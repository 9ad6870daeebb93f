SPECIFICATION Spec
CONSTANTS
  ana = ana
  bea = bea
  cyd = cyd
  bot1 = bot1
  bot2 = bot2
  bot3 = bot3
  s1 = s1
  s2 = s2
  s3 = s3
  NoSocket = NoSocket
  NoLobby = NoLobby
  User = {ana, bea, cyd}
  BotName = {bot1, bot2, bot3}
  MaxMembers = 3
  MaxBots = 1
  MaxLobbies = 1
  Requests <- AllWishes
  MayBeKicked = {ana, bea, cyd, bot1, bot2, bot3}
  MaxCreated = 1
  Socket = {s1, s2}
SYMMETRY Alike
INVARIANTS
  LobbyTypeOK
  RoomFits
  SeatsMirrored
PROPERTIES
  HostPassedOn
