\* A root, a switch and two leaves: one leaves, the other joins while the
\* root's release of the withdrawn D-mapping is still on its way.
CONSTANTS
  Root = Root
  Switch = Switch
  Leaf = {l1, l2}
  F = F
  Direct = Direct
  NoNbr = NoNbr
  None = None
  MaxLabel = 18
  MaxExt = 2
  JoinAfterRoute = TRUE
SPECIFICATION Spec
INVARIANT PeerViewsAgree
