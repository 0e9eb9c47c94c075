\* Ordinary (prefix) label distribution: one IPv4 FEC, two neighbours,
\* multipath through n1.
CONSTANTS
  n1 = n1
  n2 = n2
  n3 = n3
  f1 = f1
  f2 = f2
  p1 = p1
  a1 = a1
  a2 = a2
  a3 = a3
  Nbr = {n1, n2}
  Fec = {f1}
  PwFec = {}
  PwPeer <- MCPwPeerNone
  Addr = {a1, a2, a3}
  Owner <- MCOwner
  NoNbr = NoNbr
  None = None
  PeerLabel = {20, 21}
  MaxLabel = 18
  Role = "switch"
  MapTypes = {"prefix"}
  ReleaseOnlyAcks = FALSE
  MaxExt = 1
SPECIFICATION Spec
INVARIANTS TypeOK FibSync RemoteBacked AdvertisedIsCurrent
PROPERTIES RetentionApplied LibRefined
