\* MP2MP transit node: two upstream neighbours may both send U-mappings.
CONSTANTS
  n1 = n1
  n2 = n2
  n3 = n3
  f1 = f1
  f2 = f2
  p1 = p1
  a1 = a1
  a2 = a2
  a3 = a3
  NoNbr = NoNbr
  None = None
  Nbr = {n1, n2}
  Fec = {f1}
  PwFec = {}
  PwPeer <- MCPwPeerNone
  Addr = {a1, a3}
  Owner <- MCOwner
  PeerLabel = {20}
  MaxLabel = 17
  Role = "switch"
  MapTypes = {"mp2mp_up", "mp2mp_down"}
  ReleaseOnlyAcks = TRUE
  MaxExt = 1
SPECIFICATION Spec
INVARIANT ListsCoherent
