\* src/ldpd: an IPv4 FEC f1 (a1 via n1, a3 via n2) and a pseudowire p1 to n2.
CONSTANTS
  n1 = n1
  n2 = n2
  n3 = n3
  f1 = f1
  f2 = f2
  p1 = p1
  a1 = a1
  a2 = a2
  a3 = a3
  NoNbr = NoNbr
  None = None
  PwFec = {p1}
  PwPeer <- MCPwPeer
  Fec = {f1, p1}
  Nbr = {n1, n2}
  Addr = {a1, a3}
  Owner <- MCOwner
  PeerLabel = {20, 21}
  MaxLabel = 17
  Role = "switch"
  ReleaseOnlyAcks = FALSE
SPECIFICATION Spec
INVARIANTS TypeOK
