----------------------------- MODULE Mp2mpTree -----------------------------
(***************************************************************************)
(* An MP2MP tree: the LDEs of a root, a transit switch and leaves         *)
(* attached to the switch, joined by LDP sessions.  Each LSR runs the      *)
(* handlers of LdeLib on its own state, with its role (rtr_id ROOT, LEAF  *)
(* or another); what a handler sends (its outbox) is appended, in order,  *)
(* to the FIFO channel of the session to that neighbour.  How a leaf      *)
(* joins and leaves (lde_mp2mp_make_leaf_node) is not in the sources: it  *)
(* sends a D-mapping with its local label to its nexthop toward the root, *)
(* and withdraws it to leave.  The route toward the root is installed     *)
(* once on each LSR and never removed: route flaps are checked on one     *)
(* node in LdeLib.                                                        *)
(* The gc timer is left out: once the switch has its route, no node here *)
(* is ever without a nexthop and a received mapping, so it sweeps nothing. *)
(***************************************************************************)
EXTENDS Integers, Sequences, FiniteSets, Functions, TLC

CONSTANTS
  Root,           \* the LSR with rtr_id ROOT (lde.h)
  Switch,         \* a transit LSR (rtr_id SWITCH)
  Leaf,           \* leaf LSRs, attached to Switch
  F,              \* the MP2MP FEC: a prefix of the root
  Direct,         \* the nexthop address of a connected route
  NoNbr, None,
  MaxLabel,       \* bound on lde_assign_label
  MaxExt,         \* bound on leaked fec_mp2mp_ext blocks
  JoinAfterRoute  \* TRUE: a leaf joins only once Switch has its route

ASSUME JoinAfterRoute \in BOOLEAN

Lsr == {Root, Switch} \cup Leaf
Peers(x) == IF x = Root THEN {Switch} ELSE IF x = Switch THEN {Root} \cup Leaf ELSE {Switch}
Link == {k \in Lsr \X Lsr : k[2] \in Peers(k[1])}

\* A nexthop is named by the neighbour it goes through.
Addr == Lsr \cup {Direct}
OwnerAt(x) == [a \in Addr |-> IF a \in Peers(x) THEN a ELSE NoNbr]

\* The route toward the root that zebra hands each LSR: connected on the
\* root, through the root on the switch, through the switch on a leaf.
RouteNh == [x \in Lsr |-> IF x = Root THEN Direct ELSE IF x = Switch THEN Root ELSE Switch]

VARIABLES
  lde,    \* Lsr -> the LDE state of LdeNbr, plus an empty outbox
  chan,   \* Link -> Seq(message): the session from k[1] to k[2]
  phase   \* Leaf -> "idle", "joined" or "left"

vars == <<lde, chan, phase>>

L(x) == INSTANCE LdeLib WITH
          Nbr <- Peers(x), Fec <- {F}, PwFec <- {}, PwPeer <- [p \in {} |-> NoNbr],
          Owner <- OwnerAt(x),
          PeerLabel <- {3} \cup (17 .. MaxLabel),
          Role <- IF x = Root THEN "root" ELSE IF x \in Leaf THEN "leaf" ELSE "switch",
          MapTypes <- {"prefix", "mp2mp_up", "mp2mp_down"}, ReleaseOnlyAcks <- TRUE,
          ft <- lde[x].ft, nbr <- lde[x].nbr, fib <- lde[x].fib,
          lbl <- lde[x].lbl, ext <- lde[x].ext

NO_LABEL == L(Root)!NO_LABEL
Msg(kind, type, label) == L(Root)!Msg(kind, F, type, label)
-----------------------------------------------------------------------------
\* Every LSR starts with an empty FEC tree and sessions with no labels.
Init ==
  /\ lde = [x \in Lsr |->
             [ft |-> [f \in {} |-> 0],
              nbr |-> [n \in Peers(x) |-> [recv |-> [f \in {} |-> 0], sent |-> [f \in {} |-> 0],
                                           rreq |-> {}, wdraw |-> [f \in {} |-> 0]]],
              fib |-> [k \in {F} \X Addr |-> None],
              lbl |-> L(x)!MPLS_LABEL_RESERVED_MAX, ext |-> 0,
              out |-> [n \in Peers(x) |-> <<>>]]]
  /\ chan = [k \in Link |-> <<>>]
  /\ phase = [l \in Leaf |-> "idle"]

\* x finished a handler in state s2, the channels being c after it took
\* its input: the outbox goes, in order, onto x's sessions.
Bounded(s2) == s2.lbl <= MaxLabel /\ s2.ext <= MaxExt

Commit(x, s2, c) ==
  /\ Bounded(s2)
  /\ lde' = [lde EXCEPT ![x] = [s2 EXCEPT !.out = [n \in DOMAIN @ |-> <<>>]]]
  /\ chan' = [k \in Link |-> IF k[1] = x THEN c[k] \o s2.out[k[2]] ELSE c[k]]

\* lde_dispatch_imsg: a label message from neighbour n goes to its handler.
\* No LSR here sends a wildcard: only withdraws received as wildcards are
\* answered with a wildcard release.
Handle(x, n, m) ==
  CASE m.kind = "map" ->
         L(x)!lde_check_mapping(lde[x], n, [fec |-> m.fec, type |-> m.type, label |-> m.label], TRUE)
    [] m.kind = "wd" ->
         L(x)!lde_check_withdraw(lde[x], n, [fec |-> m.fec, type |-> m.type, label |-> m.label,
                                            pwid |-> TRUE])
    [] OTHER ->
         L(x)!lde_check_release(lde[x], n, [fec |-> m.fec, type |-> m.type, label |-> m.label,
                                           pwid |-> TRUE])

\* zebra redistributes the route toward the root (lde_kernel_insert).
KernelInsert(x) ==
  /\ Commit(x, L(x)!lde_kernel_insert(lde[x], F, RouteNh[x], x = Root, TRUE), chan)
  /\ UNCHANGED phase

\* The session delivers the oldest message from n to the LSR x.
Deliver(n, x) ==
  /\ chan[<<n, x>>] # <<>>
  /\ Commit(x, Handle(x, n, Head(chan[<<n, x>>])), [chan EXCEPT ![<<n, x>>] = Tail(@)])
  /\ UNCHANGED phase

\* A leaf joins the tree once it has its route: a D-mapping with its local
\* label to its nexthop toward the root.
Join(l) ==
  /\ phase[l] = "idle"
  /\ F \in DOMAIN lde[l].ft /\ L(l)!lde_mp2mp_get_nexthop(lde[l], F) = Switch
  /\ JoinAfterRoute => F \in DOMAIN lde[Switch].ft /\ Root \in DOMAIN lde[Switch].ft[F].nh
  /\ Commit(l, L(l)!lde_send_labelmapping(lde[l], Switch, F, "mp2mp_down"), chan)
  /\ phase' = [phase EXCEPT ![l] = "joined"]

\* A leaf leaves the tree: it withdraws the D-mapping it sent.
Leave(l) ==
  /\ phase[l] = "joined"
  /\ Commit(l, L(l)!WithdrawUpstream(lde[l], F, L(l)!SentTo(lde[l], F, {"mp2mp_down"})), chan)
  /\ phase' = [phase EXCEPT ![l] = "left"]

Next ==
  \/ \E x \in Lsr : KernelInsert(x)
  \/ \E k \in Link : Deliver(k[1], k[2])
  \/ \E l \in Leaf : Join(l) \/ Leave(l)

Spec == Init /\ [][Next]_vars

\* The session from k[1] to k[2] can deliver its oldest message.
Deliverable(k) ==
  /\ chan[k] # <<>>
  /\ Bounded(Handle(k[2], k[1], Head(chan[k])))

\* The sessions run over TCP and the LDE reads them in its event loop, so
\* messages keep being handled while any can be: weak fairness of delivery,
\* with ENABLED <<\E k : Deliver(k[1], k[2])>>_vars written out as some
\* Deliverable(k) (a delivery always consumes its message).  As the LSRs and leaves send
\* finitely many messages, every channel drains.  The IGP converges, so
\* zebra eventually redistributes to every LSR its route toward the root:
\* weak fairness of KernelInsert(x) while x has no nexthop toward the root, written out the
\* same way with RouteDue(x).  The leaves get no fairness.
RouteDue(x) ==
  /\ F \in DOMAIN lde[x].ft => RouteNh[x] \notin DOMAIN lde[x].ft[F].nh
  /\ Bounded(L(x)!lde_kernel_insert(lde[x], F, RouteNh[x], x = Root, TRUE))

FairSpec ==
  /\ Spec
  /\ <>[](\E k \in Link : Deliverable(k)) => []<><<\E k \in Link : Deliver(k[1], k[2])>>_vars
  /\ \A x \in Lsr : <>[]RouteDue(x) => []<><<KernelInsert(x)>>_vars

-----------------------------------------------------------------------------
(* Properties.                                                            *)
(***************************************************************************)
MsgOK == [kind : {"map", "wd", "rel"}, fec : {F, "wcard"},
          type : {"prefix", "mp2mp_up", "mp2mp_down", "wcard"},
          label : {3, NO_LABEL} \cup (17 .. MaxLabel)]

TypeOK ==
  /\ \A x \in Lsr : L(x)!TypeOK /\ \A n \in Peers(x) : lde[x].out[n] = <<>>
  /\ \A k \in Link : chan[k] \in Seq(MsgOK)
  /\ phase \in [Leaf -> {"idle", "joined", "left"}]

\* x holds a mapping for F it advertised to y and has not withdrawn.
Advertised(x, y) ==
  F \in DOMAIN lde[x].nbr[y].sent /\ F \notin DOMAIN lde[x].nbr[y].wdraw

\* Once the two sessions between x and y are empty, y retains a mapping
\* from x exactly when x holds one as advertised and not withdrawn, and
\* both record the same map type and label.
ViewsAgree(x, y) ==
  chan[<<x, y>>] = <<>> /\ chan[<<y, x>>] = <<>> =>
    /\ F \in DOMAIN lde[y].nbr[x].recv <=> Advertised(x, y)
    /\ F \in DOMAIN lde[y].nbr[x].recv => lde[y].nbr[x].recv[F] = lde[x].nbr[y].sent[F]

\* PeerViewsAgree: every pair of neighbouring LSRs agrees, once their
\* sessions are empty, on the mappings one has sent the other.  Every
\* mapping and withdraw that lde_check_mapping, lde_check_withdraw,
\* lde_kernel_insert and a leaf's join and leave send must be recorded in
\* sent_map / sent_wdraw, and every withdraw's release (LWd.2, LMp.10a)
\* must clear exactly the records it names (lde_check_release).
PeerViewsAgree == \A k \in Link : ViewsAgree(k[1], k[2])

\* LeafViewsAgree: the same on the sessions between the switch and its
\* leaves, where the switch's FEC.1 prefix mapping is overwritten by its
\* U-mapping under the same FEC key, and a leaf's D-mapping is withdrawn
\* (LWd.2-4 on the switch) and released (LRl.3-6 on the leaf) but never
\* re-sent.
LeafViewsAgree == \A l \in Leaf : ViewsAgree(l, Switch) /\ ViewsAgree(Switch, l)

\* JoinAnswered: a leaf that joined the tree and stays in it is eventually
\* given a U-mapping: its D-mapping is forwarded toward the root
\* (lde_check_mapping), the root answers (lde_mp2mp_process_u_mapping)
\* and every switch on the way answers its children in turn.
HoldsUp(l) ==
  F \in DOMAIN lde[l].nbr[Switch].recv /\ lde[l].nbr[Switch].recv[F].type = "mp2mp_up"

JoinAnswered == \A l \in Leaf : phase[l] = "joined" ~> (HoldsUp(l) \/ phase[l] = "left")
=============================================================================
