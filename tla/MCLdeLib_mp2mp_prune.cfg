\* MP2MP transit node with two children (n2, n3) below the upstream
\* neighbour n1 (route via a1).
CONSTANTS
  n1 = n1
  n2 = n2
  n3 = n3
  f1 = f1
  f2 = f2
  p1 = p1
  a1 = a1
  a2 = a2
  a3 = a3
  NoNbr = NoNbr
  None = None
  Nbr = {n1, n2, n3}
  Fec = {f1}
  PwFec = {}
  PwPeer <- MCPwPeerNone
  Addr = {a1}
  Owner <- MCOwner
  PeerLabel = {20}
  MaxLabel = 17
  Role = "switch"
  MapTypes = {"mp2mp_down"}
  ReleaseOnlyAcks = TRUE
  MaxExt = 1
SPECIFICATION Spec
PROPERTY UpstreamWithdrawJustified
