\* One IPv4 FEC, ordinary mappings only, and the garbage collector.
CONSTANTS
  n1 = n1
  n2 = n2
  n3 = n3
  f1 = f1
  f2 = f2
  p1 = p1
  a1 = a1
  a2 = a2
  a3 = a3
  NoNbr = NoNbr
  None = None
  Nbr = {n1, n2}
  Fec = {f1}
  PwFec = {}
  PwPeer <- MCPwPeerNone
  Addr = {a1}
  Owner <- MCOwner
  PeerLabel = {20}
  MaxLabel = 17
  Role = "switch"
  MapTypes = {"prefix"}
  ReleaseOnlyAcks = TRUE
  MaxExt = 2
SPECIFICATION Spec
INVARIANT ExtAccounted
