\* Every map type on f1 and a pseudowire p1 to n2: ordinary and MP2MP
\* mappings share the FEC tree and the neighbours' trees.
CONSTANTS
  n1 = n1
  n2 = n2
  n3 = n3
  f1 = f1
  f2 = f2
  p1 = p1
  a1 = a1
  a2 = a2
  a3 = a3
  NoNbr = NoNbr
  None = None
  Nbr = {n1, n2}
  Fec = {f1, p1}
  PwFec = {p1}
  PwPeer <- MCPwPeer
  Addr = {a1, a3}
  Owner <- MCOwner
  PeerLabel = {20}
  MaxLabel = 17
  Role = "switch"
  MapTypes = {"prefix", "mp2mp_up", "mp2mp_down"}
  ReleaseOnlyAcks = TRUE
  MaxExt = 1
SPECIFICATION Spec
INVARIANTS FibSync LspLabelsReal MappingHasLabel
