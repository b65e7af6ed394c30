CONSTANTS
  \* Two requests of any kind at once, one failing call and one write of another user.
  d = d
  f = f
  g = g
  e = e
  z = z
  v1 = v1
  v2 = v2
  v3 = v3
  x = x
  Dir = Dir
  Cut = Cut
  Part = Part
  Workers = {w1, w2}
  Nobody = Nobody
  Requests <- AllRequests
  Segments = {d, e, f, g, z}
  Tree <- SmallTree
  Foreign <- Theirs
  ForeignPaths <- TwoPlaces
  Faults <- AllFaults
  MaxFaults = 1
  MaxForeign = 1
  \* Two dials to a host or its address; two keys of one algorithm and one of another.
  host = host
  addr = addr
  ed1 = ed1
  ed2 = ed2
  rsa = rsa
  Names = {host, addr}
  HostKeys = {ed1, ed2, rsa}
  NoKey = NoKey
  Dials = {d1, d2}
  OperatorLines <- SomeLines
  RemoteOf <- ToAddr
  AlgorithmOf <- KeyType
  \* Two uploads of two chunks and a temporary file, where four chunks fit.
  u1 = u1
  u2 = u2
  kept = kept
  Uploads = {u1, u2, kept}
  Temps = {t1}
  Owners = {o1, o2}
  Kept = {kept}
  NoRoot = NoRoot
  UploadSize = 2
  TempSize = 1
  StagingMax = 4
  SessionMax = 3
  MaxRestarts = 1
  \* Two tabs and other programs that write their file.
  Tabs = {tab1, tab2}
  NoText = NoText
  NoVersion = NoVersion
  MaxWrites = 3
SPECIFICATION BackendSpec
SYMMETRY Symmetry
INVARIANTS
  BackendTypeOK
  RROneTransfer
  RRNoClobber
  KHTrustIsGiven
  KHOnePin
PROPERTIES
  RROkIsWhole
  RRLiveClientKept
  KHKeyedByStore
  KHNeverForgets
  SDRoom
  SDSpares
  EDLossOnlyInWindow
\* Requests, upload ids and writes run out: the system may stop.
CHECK_DEADLOCK FALSE
