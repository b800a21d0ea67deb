SPECIFICATION Spec
CONSTANTS
  o = o  p = p  None = None
  Client = {o, p}
  Owners = {o}
  Silenced = {}
  CanWhisper = TRUE
  MaxStatements = 2
  MaxMessages = 3
  s1 = s1  s2 = s2  s3 = s3
  Song = {s1, s2, s3}
  Stop = Stop
  Lists <- SongLists
  Length <- Lengths
  Silence = Silence
  MaxChance = 2
  hub1 = hub1  a1 = a1  a2 = a2  a3 = a3  file1 = file1
  Listener = {p}
  Area = {a1, a2}
  Hub = hub1
  File = {file1}
  Songs <- SongsOf
  AddedSongs = {s2}
  Header = Header
  Server = Server
  ServerLists <- ServerFiles
  Unsaved = Unsaved
  Used = {hub1, a1}
  Location = {a1, a2, a3}
  First <- FirstAreas
  Walker = {o}
  GMs = {o}
  MaxAreas = 3
  MaxLinks = 3
  ic = ic  cc = cc
  Guard = {ic, cc}
  TimesPerInterval <- Times
  IntervalLength <- Intervals
  MuteLength <- Mutes
  MaxTime = 6
  Profile = {"default", "second"}
  Password = {"x", "y"}
  peer1 = peer1  peer2 = peer2
  Peer = {peer1, peer2}
  AddressOf <- Addresses
  DeviceOf <- Devices
  Never = Never
  Durations = {3}
  Window = 2
  MaxId = 2
  LastTime = 4
  p1 = p1  p2 = p2  p3 = p3
  Player = {p1, p2, p3}
  Script = Script
  PlayerLimit = 3
  SingleCm = TRUE
  LockingAllowed = FALSE
  CanCm = TRUE
  v1 = v1  v2 = v2  v3 = v3
  w1 = w1  w2 = w2
  Viewer = {v1, v2, v3}
  World = {w1, w2}
  Lobby = w1
INVARIANT WhispersArePrivate
CHECK_DEADLOCK FALSE
