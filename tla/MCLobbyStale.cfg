SPECIFICATION FairSpec
CONSTANTS
  ana = ana
  bea = bea
  cyd = cyd
  bot1 = bot1
  bot2 = bot2
  bot3 = bot3
  s1 = s1
  s2 = s2
  s3 = s3
  NoSocket = NoSocket
  NoLobby = NoLobby
  User = {ana, bea}
  BotName = {bot1, bot2}
  MaxMembers = 2
  MaxBots = 1
  MaxLobbies = 1
  Requests <- NoWishes
  MayBeKicked = {ana, bea, bot1, bot2}
  MaxCreated = 1
  Socket = {s1, s2, s3}
INVARIANTS
  LiveSockets
