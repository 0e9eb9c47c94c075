\* A root, a switch and two leaves that may join before the switch has its route.
CONSTANTS
  Root = Root
  Switch = Switch
  Leaf = {l1, l2}
  F = F
  Direct = Direct
  NoNbr = NoNbr
  None = None
  MaxLabel = 18
  MaxExt = 2
  JoinAfterRoute = FALSE
SPECIFICATION FairSpec
PROPERTIES JoinAnswered
