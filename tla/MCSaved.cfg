SPECIFICATION Spec
CONSTANTS
  ana = ana
  bea = bea
  cyd = cyd
  room1 = room1
  room2 = room2
  m1 = m1
  m2 = m2
  NoMatch = NoMatch
  NoRoom = NoRoom
  NoSave = NoSave
  User = {ana, bea}
  Bot = Bot
  Room = {room1, room2}
  MatchId = {m1}
  Mods = {"plain"}
  Settings <- AllSettings
SYMMETRY Alike
INVARIANTS
  SavedTypeOK
  WonIsGone
  RecentSavesKept
PROPERTIES
  WholeSaves
