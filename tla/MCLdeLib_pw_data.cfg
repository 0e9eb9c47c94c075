\* A pseudowire p1 to n2 (its route via a3, owned by n2) beside the
\* IPv4 FEC f1; n2 may send its pwid mapping before the pw is configured.
CONSTANTS
  n1 = n1
  n2 = n2
  n3 = n3
  f1 = f1
  f2 = f2
  p1 = p1
  a1 = a1
  a2 = a2
  a3 = a3
  NoNbr = NoNbr
  None = None
  Nbr = {n1, n2}
  Fec = {f1, p1}
  PwFec = {p1}
  PwPeer <- MCPwPeer
  Addr = {a1, a3}
  Owner <- MCOwner
  PeerLabel = {20}
  MaxLabel = 18
  Role = "switch"
  MapTypes = {"prefix"}
  ReleaseOnlyAcks = TRUE
  MaxExt = 2
SPECIFICATION Spec
INVARIANT PwDataIsPw
