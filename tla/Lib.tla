-------------------------------- MODULE Lib --------------------------------
(***************************************************************************)
(* What the label distribution procedures promise for IP FECs (spec 4.3,   *)
(* 8): downstream unsolicited, independent control, liberal retention.     *)
(* Per FEC: the nexthops of its routes and its local label; per neighbour  *)
(* and FEC: the label retained from that neighbour and the label in use on *)
(* the nexthops through it; and the kernel LSP table, which always follows *)
(* the other four.  Nexthops, trees, lists, requests, releases and the     *)
(* garbage collector are below this level.                                 *)
(***************************************************************************)
CONSTANTS
  Fec,        \* IP FECs
  Nbr,        \* neighbours
  Addr,       \* nexthop addresses
  Owner,      \* Addr -> Nbr \cup {NoNbr}: the neighbour a nexthop belongs to
  NoNbr,
  None,       \* no LSP
  PeerLabel,  \* labels the neighbours advertise
  Label,      \* local labels the allocator hands out
  Egress,     \* local labels of directly connected FECs: no LSP is installed
  NoLabel

VARIABLES
  route,      \* Fec -> SUBSET Addr
  local,      \* Fec -> Label \cup Egress \cup {NoLabel}
  retained,   \* Nbr -> Fec -> PeerLabel \cup {NoLabel}: the mapping kept
  inuse,      \* Nbr -> Fec -> PeerLabel \cup {NoLabel}: the label forwarded with
  fib         \* Fec \X Addr -> <<local, remote>> or None

vars == <<route, local, retained, inuse, fib>>

\* The nexthops of f's routes that go through n.
Via(r, f, n) == {a \in r[f] : Owner[a] = n}

\* The LSP the kernel holds for nexthop a of f.
Lsp(r, l, u, f, a) ==
  IF a \in r[f] /\ Owner[a] # NoNbr /\ u[Owner[a]][f] # NoLabel /\ l[f] \in Label
  THEN <<l[f], u[Owner[a]][f]>> ELSE None

\* The kernel table after a step that leaves route, local and inuse
\* with the primed values.
FibFollows == fib' = [k \in Fec \X Addr |-> Lsp(route', local', inuse', k[1], k[2])]

Init ==
  /\ route = [f \in Fec |-> {}]
  /\ local = [f \in Fec |-> NoLabel]
  /\ retained = [n \in Nbr |-> [f \in Fec |-> NoLabel]]
  /\ inuse = retained
  /\ fib = [k \in Fec \X Addr |-> None]

\* A route adds nexthop a to f.  The first one binds a label no other FEC
\* holds (an egress label if connected) and advertises it; the nexthop
\* takes the label its neighbour already sent, if any.
AddRoute(f, a, l) ==
  /\ a \notin route[f]
  /\ local[f] = NoLabel => l \in Egress \cup (Label \ {local[g] : g \in Fec})
  /\ route' = [route EXCEPT ![f] = @ \cup {a}]
  /\ local' = [local EXCEPT ![f] = IF @ = NoLabel THEN l ELSE @]
  /\ inuse' = IF Owner[a] = NoNbr THEN inuse
              ELSE [inuse EXCEPT ![Owner[a]][f] = retained[Owner[a]][f]]
  /\ UNCHANGED retained
  /\ FibFollows

\* A route loses nexthop a; with the last one f loses its label.
DelRoute(f, a) ==
  /\ a \in route[f]
  /\ route' = [route EXCEPT ![f] = @ \ {a}]
  /\ local' = [local EXCEPT ![f] = IF route'[f] = {} THEN NoLabel ELSE @]
  /\ inuse' = IF Owner[a] = NoNbr \/ Via(route', f, Owner[a]) # {} THEN inuse
              ELSE [inuse EXCEPT ![Owner[a]][f] = NoLabel]
  /\ UNCHANGED retained
  /\ FibFollows

\* n maps f to l: the mapping is retained, and used on every nexthop of
\* f through n (multipath).
Learn(n, f, l) ==
  /\ retained' = [retained EXCEPT ![n][f] = l]
  /\ inuse' = [inuse EXCEPT ![n][f] = IF Via(route, f, n) # {} THEN l ELSE NoLabel]
  /\ UNCHANGED <<route, local>>
  /\ FibFollows

\* n withdraws the FECs in G: none of their labels from n stays in use,
\* and the mappings of those in F (the label matches) are forgotten.
Withdraw(n, G, F) ==
  /\ F \subseteq G
  /\ inuse' = [inuse EXCEPT ![n] = [g \in Fec |-> IF g \in G THEN NoLabel ELSE @[g]]]
  /\ retained' = [retained EXCEPT ![n] = [g \in Fec |-> IF g \in F THEN NoLabel ELSE @[g]]]
  /\ UNCHANGED <<route, local>>
  /\ FibFollows

Next ==
  \/ \E f \in Fec, a \in Addr, l \in Label \cup Egress : AddRoute(f, a, l)
  \/ \E f \in Fec, a \in Addr : DelRoute(f, a)
  \/ \E n \in Nbr, f \in Fec, l \in PeerLabel : Learn(n, f, l)
  \/ \E n \in Nbr, G \in {{f} : f \in Fec} \cup {Fec} : \E F \in SUBSET G : Withdraw(n, G, F)

Spec == Init /\ [][Next]_vars
=============================================================================
