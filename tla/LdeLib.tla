------------------------------ MODULE LdeLib ------------------------------
(***************************************************************************)
(* The handlers of lde_lib.c (quagga-ldpd, with the MP2MP extension) for   *)
(* one LSR.  Kernel route events and the label messages of the            *)
(* neighbours are the inputs; each is one action that runs the whole      *)
(* handler.  The neighbours are arbitrary LDP peers: they may send any     *)
(* message for any FEC at any time, from small sets of labels.            *)
(***************************************************************************)
EXTENDS LdeNbr

CONSTANTS
  MapTypes,        \* the map types the peers use for IPv4 FECs
  ReleaseOnlyAcks, \* TRUE: peers release a label only after our withdraw
  MaxExt           \* bound on fec_mp2mp_ext blocks allocated and not freed

ASSUME MapTypes \subseteq {"prefix", "mp2mp_up", "mp2mp_down"}
ASSUME ReleaseOnlyAcks \in BOOLEAN

IpFec == Fec \ PwFec

\* The nexthops of f that belong to neighbour ln (lde_address_find).
NhOf(s, f, ln) == {a \in DOMAIN s.ft[f].nh : Owner[a] = ln}

\* Map one label to every nexthop in A and program the kernel (LMp.15).
SetRemote(s, f, A, label) ==
  LET s1 == [s EXCEPT !.ft[f].nh = [a \in DOMAIN @ |-> IF a \in A THEN label ELSE @[a]]]
  IN lde_send_change_klabel(s1, f, A)

\* Mutant: the remote label is cleared without a kr_delete.
ClearRemote_nokr(s, f, A) ==
  [s EXCEPT !.ft[f].nh = [a \in DOMAIN @ |-> IF a \in A THEN NO_LABEL ELSE @[a]]]

\* Remove the label from forwarding use on the nexthops in A (LMp.10a, LWd.1).
ClearRemote(s, f, A) ==
  LET s1 == lde_send_delete_klabel(s, f, A)
  IN [s1 EXCEPT !.ft[f].nh = [a \in DOMAIN @ |-> IF a \in A THEN NO_LABEL ELSE @[a]]]

-----------------------------------------------------------------------------
(* lde_check_mapping.  `nego` is the verdict of l2vpn_pw_negotiate on a    *)
(* configured pseudowire (it accepts when fn->data is NULL).               *)
(***************************************************************************)
\* Mutant: the ROOT test never matches (rtr_id compared in host order), so
\* the root records a D-mapping but never answers it.
CheckMappingMp2mp_noroot(s, ln, f, m) ==
  LET s1 == RecordRecvMap(s, ln, f, m) IN
  IF m.type = "mp2mp_down"
  THEN LET lnp == lde_mp2mp_get_nexthop(s1, f)
       IN IF lnp # NoNbr THEN lde_send_labelmapping(s1, lnp, f, "mp2mp_down") ELSE s1
  ELSE IF Role = "leaf" THEN s1 ELSE lde_mp2mp_process_u_mapping(s1, f)

CheckMappingMp2mp(s, ln, f, m) ==
  LET s1 == RecordRecvMap(s, ln, f, m) IN
  IF m.type = "mp2mp_down"
  THEN LET s2  == IF Role = "root" THEN lde_mp2mp_process_u_mapping(s1, f) ELSE s1
           lnp == lde_mp2mp_get_nexthop(s2, f)
       IN IF lnp # NoNbr THEN lde_send_labelmapping(s2, lnp, f, "mp2mp_down") ELSE s2
  ELSE IF Role = "leaf" THEN s1 ELSE lde_mp2mp_process_u_mapping(s1, f)

CheckMappingPlain(s, ln, f, m) ==
  LET old == IF f \in DOMAIN s.nbr[ln].recv THEN s.nbr[ln].recv[f].label ELSE NO_LABEL
      \* LMp.10 / 10a: a new label replaces the old one: release it and
      \* stop forwarding with it (no request is ever pending)
      s1 == IF f \in DOMAIN s.nbr[ln].recv /\ old # m.label
            THEN ClearRemote(Send(s, ln :> Msg("rel", f, s.nbr[ln].recv[f].type, old)),
                             f, NhOf(s, f, ln))
            ELSE s
      \* LMp.11 - 15: every matching nexthop takes the label (multipath)
      tgt == IF f \in PwFec
             THEN IF s1.ft[f].data = "none" THEN {} ELSE DOMAIN s1.ft[f].nh
             ELSE NhOf(s1, f, ln)
      s2 == SetRemote(s1, f, tgt, m.label)
  IN RecordRecvMap(s2, ln, f, m)   \* LMp.13 / LMp.16

lde_check_mapping(s, ln, m, nego) ==
  LET f  == m.fec
      s1 == IF f \notin DOMAIN s.ft THEN fec_mp2mp_add(s, f)
            ELSE IF s.ft[f].data = "none" /\ IsMp2mp(m.type)
                 THEN [s EXCEPT !.ft[f].data = "mp2mp", !.ext = @ + 1]
                 ELSE s
  IN IF m.type = "pwid" /\ s1.ft[f].data # "none" /\ ~nego THEN s1
     ELSE IF IsMp2mp(m.type) THEN CheckMappingMp2mp(s1, ln, f, m)
     ELSE CheckMappingPlain(s1, ln, f, m)

-----------------------------------------------------------------------------
(* lde_kernel_insert and lde_kernel_remove.                                *)
(***************************************************************************)
\* Mutant: FEC.2 / FEC.5 dropped; a retained mapping is not applied.
lde_kernel_insert_noretain(s, f, a, connected, nego) ==
  LET s0 == IF f \in DOMAIN s.ft THEN s ELSE fec_add(s, f)
      s1 == IF s0.ft[f].local = NO_LABEL
            THEN SendLabelmappingAll(
                   [s0 EXCEPT !.ft[f].local = IF connected THEN egress_label
                                              ELSE lde_assign_label(s0),
                              !.lbl = IF connected THEN @ ELSE @ + 1], f)
            ELSE s0
  IN IF a \in DOMAIN s0.ft[f].nh THEN s0
     ELSE lde_send_change_klabel(fec_nh_add(s1, f, a), f, {a})

\* Mutant: the FEC.1 test dropped; every new nexthop binds a new label.
lde_kernel_insert_relabel(s, f, a, connected, nego) ==
  LET s0 == IF f \in DOMAIN s.ft THEN s ELSE fec_add(s, f)
      s2 == SendLabelmappingAll(
              [s0 EXCEPT !.ft[f].local = IF connected THEN egress_label
                                         ELSE lde_assign_label(s0),
                         !.lbl = IF connected THEN @ ELSE @ + 1], f)
      s3 == lde_send_change_klabel(fec_nh_add(s2, f, a), f, {a})
      ln == IF f \in PwFec THEN PwPeer[f] ELSE Owner[a]
  IN IF a \in DOMAIN s0.ft[f].nh THEN s0
     ELSE IF ln # NoNbr /\ f \in DOMAIN s3.nbr[ln].recv
     THEN lde_check_mapping(s3, ln, [fec |-> f] @@ s3.nbr[ln].recv[f], nego)
     ELSE s3

lde_kernel_insert(s, f, a, connected, nego) ==
  LET s0 == IF f \in DOMAIN s.ft THEN s ELSE fec_add(s, f)
      s1 == IF f \in PwFec THEN [s0 EXCEPT !.ft[f].data = "pw"] ELSE s0
      \* FEC.1: first nexthop: allocate the local label and advertise it
      s2 == IF s1.ft[f].local = NO_LABEL
            THEN SendLabelmappingAll(
                   [s1 EXCEPT !.ft[f].local = IF connected THEN egress_label
                                              ELSE lde_assign_label(s1),
                              !.lbl = IF connected THEN @ ELSE @ + 1], f)
            ELSE s1
      s3 == lde_send_change_klabel(fec_nh_add(s2, f, a), f, {a})
      ln == IF f \in PwFec THEN PwPeer[f] ELSE Owner[a]
  IN IF a \in DOMAIN s0.ft[f].nh THEN s0
     \* FEC.2 / FEC.5: a mapping that arrived before the route
     ELSE IF ln # NoNbr /\ f \in DOMAIN s3.nbr[ln].recv
     THEN lde_check_mapping(s3, ln, [fec |-> f] @@ s3.nbr[ln].recv[f], nego)
     ELSE s3

\* Mutant: the local label is dropped with any nexthop, not only the last.
lde_kernel_remove_early(s, f, a) ==
  IF f \notin DOMAIN s.ft \/ a \notin DOMAIN s.ft[f].nh THEN s
  ELSE LET s1 == fec_nh_del(lde_send_delete_klabel(s, f, {a}), f, a)
           s2 == lde_send_labelwithdraw_all(s1, f)
       IN [s2 EXCEPT !.ft[f].local = NO_LABEL]

\* Mutant: the LSP of the removed nexthop is left in the kernel.
lde_kernel_remove_nokr(s, f, a) ==
  IF f \notin DOMAIN s.ft \/ a \notin DOMAIN s.ft[f].nh THEN s
  ELSE LET s1 == fec_nh_del(s, f, a)
       IN IF DOMAIN s1.ft[f].nh # {} THEN s1
          ELSE [lde_send_labelwithdraw_all(s1, f) EXCEPT !.ft[f].local = NO_LABEL]

\* Mutant: the last nexthop goes without lde_send_labelwithdraw_all.
lde_kernel_remove_nowd(s, f, a) ==
  IF f \notin DOMAIN s.ft \/ a \notin DOMAIN s.ft[f].nh THEN s
  ELSE LET s1 == fec_nh_del(lde_send_delete_klabel(s, f, {a}), f, a)
       IN IF DOMAIN s1.ft[f].nh # {} THEN s1
          ELSE [s1 EXCEPT !.ft[f].local = NO_LABEL]

lde_kernel_remove(s, f, a) ==
  IF f \notin DOMAIN s.ft THEN s
  ELSE IF a \notin DOMAIN s.ft[f].nh THEN s
  ELSE LET s1 == fec_nh_del(lde_send_delete_klabel(s, f, {a}), f, a)
       IN IF DOMAIN s1.ft[f].nh # {} THEN s1
          ELSE LET s2 == lde_send_labelwithdraw_all(s1, f)
               IN [s2 EXCEPT !.ft[f].local = NO_LABEL,
                             !.ft[f].data = IF f \in PwFec THEN "none" ELSE @]

-----------------------------------------------------------------------------
(* lde_check_request: no route, loop, duplicate, else answer (LRq.1-9).    *)
(***************************************************************************)
\* Mutant: LRq.2 dropped; a request for a FEC without a route is answered.
lde_check_request_noroute(s, ln, f) ==
  IF f \notin DOMAIN s.ft THEN s
  ELSE IF f \in IpFec /\ NhOf(s, f, ln) # {} THEN s
  ELSE IF f \in s.nbr[ln].rreq THEN s
  ELSE lde_send_labelmapping([s EXCEPT !.nbr[ln].rreq = @ \cup {f}],
                             ln, f, PlainType(f))

lde_check_request(s, ln, f) ==
  IF f \notin DOMAIN s.ft \/ DOMAIN s.ft[f].nh = {} THEN s
  ELSE IF f \in IpFec /\ NhOf(s, f, ln) # {} THEN s
  ELSE IF f \in s.nbr[ln].rreq THEN s
  ELSE lde_send_labelmapping([s EXCEPT !.nbr[ln].rreq = @ \cup {f}],
                             ln, f, PlainType(f))

-----------------------------------------------------------------------------
(* lde_check_release and lde_check_release_wcard (LRl.1-6).                *)
(***************************************************************************)
\* Mutant: LRl.6 dropped; the release ends the withdraw but the record of
\* the mapping sent stays.
ReleaseFec_nolrl6(s, ln, f, label) ==
  LET w == s.nbr[ln].wdraw
  IN IF f \in DOMAIN w /\ (label = NO_LABEL \/ (w[f] # NO_LABEL /\ label = w[f]))
     THEN lde_wdraw_del(s, ln, f) ELSE s

ReleaseFec(s, ln, f, label) ==
  LET w  == s.nbr[ln].wdraw
      s1 == IF f \in DOMAIN w /\ (label = NO_LABEL \/ (w[f] # NO_LABEL /\ label = w[f]))
            THEN lde_wdraw_del(s, ln, f) ELSE s
      me == s1.nbr[ln].sent
  IN IF f \in DOMAIN me /\ (label = NO_LABEL \/ label = me[f].label)
     THEN lde_map_del_sent(s1, ln, f) ELSE s1

lde_check_release(s, ln, m) ==
  IF m.type = "pwid" /\ ~m.pwid THEN s      \* TODO group wildcard
  ELSE IF m.fec \notin DOMAIN s.ft THEN s
  ELSE ReleaseFec(s, ln, m.fec, m.label)

RECURSIVE ReleaseEach(_, _, _, _)
ReleaseEach(s, ln, F, label) ==
  IF F = {} THEN s
  ELSE LET f == CHOOSE x \in F : TRUE
       IN ReleaseEach(ReleaseFec(s, ln, f, label), ln, F \ {f}, label)

lde_check_release_wcard(s, ln, label) == ReleaseEach(s, ln, DOMAIN s.ft, label)

-----------------------------------------------------------------------------
(* lde_check_withdraw: the MP2MP pruning, then LWd.1 - LWd.4.             *)
(***************************************************************************)

\* The neighbours whose sent mapping pme of fn->upstream has a type in T.
SentTo(s, f, T) == {n \in Nbr : f \in DOMAIN s.nbr[n].sent /\ s.nbr[n].sent[f].type \in T}

\* lde_send_labelwithdraw(pme->nexthop, fn, pme->map.label, ...) for the
\* sent mapping of every neighbour in P.
WithdrawUpstream(s, f, P) ==
  LET W == {n \in P : Announces(s, n, f)} IN
  Send([s EXCEPT !.nbr = [n \in Nbr |->
          IF n \in W THEN [s.nbr[n] EXCEPT !.wdraw = (f :> s.nbr[n].sent[f].label) @@ @]
          ELSE s.nbr[n]]],
       [n \in W |-> Msg("wd", f, s.nbr[n].sent[f].type, s.nbr[n].sent[f].label)])

WithdrawMp2mpDown(s, ln, f, label) ==
  LET s1 == lde_map_del_recv(s, ln, f,
              {d \in s.ft[f].down : d.type = "mp2mp_down" /\ d.label = label /\ d.nbr = ln})
      rootUp == IF Role = "root" THEN SentTo(s1, f, {"mp2mp_up"}) \cap {ln} ELSE {}
  IN WithdrawUpstream(s1, f, SentTo(s1, f, {"mp2mp_down"}) \cup rootUp)

WithdrawMp2mpUp(s, ln, f, label) ==
  LET is_del_map == ~\E p \in Upstream(s, f) : p.type = "mp2mp_down" /\ p.nbr = ln
      s1 == IF is_del_map
            THEN lde_map_del_recv(s, ln, f,
                   {d \in s.ft[f].down : d.type = "mp2mp_up" /\ d.label = label})
            ELSE s
      is_send_withdraw == ~\E d \in s1.ft[f].down : d.type = "mp2mp_down"
  IN IF is_send_withdraw
     THEN WithdrawUpstream(s1, f, SentTo(s1, f, {"mp2mp_up"}))
     ELSE s1

\* Mutant: LWd.1 dropped; the record goes but the nexthops keep the label.
WithdrawFec_nolwd1(s, ln, f, label, pwUsable) ==
  LET me == s.nbr[ln].recv
  IN IF f \in DOMAIN me /\ (label = NO_LABEL \/ label = me[f].label)
     THEN lde_map_del_recv(s, ln, f, {DRec(ln, me[f])})
     ELSE s

\* LWd.1 - LWd.4 for FEC f; pwUsable is the nexthop test of a pseudowire FEC.
WithdrawFec(s, ln, f, label, pwUsable) ==
  LET A  == IF f \in PwFec THEN IF pwUsable THEN DOMAIN s.ft[f].nh ELSE {}
            ELSE NhOf(s, f, ln)
      s1 == ClearRemote(s, f, A)
      me == s1.nbr[ln].recv
  IN IF f \in DOMAIN me /\ (label = NO_LABEL \/ label = me[f].label)
     THEN lde_map_del_recv(s1, ln, f, {DRec(ln, me[f])})
     ELSE s1

lde_check_withdraw(s, ln, m) ==
  IF m.type = "pwid" /\ ~m.pwid THEN s      \* TODO group wildcard
  ELSE LET f  == m.fec
           s0 == IF f \notin DOMAIN s.ft THEN fec_mp2mp_add(s, f) ELSE s
           s1 == CASE m.type = "mp2mp_down" -> WithdrawMp2mpDown(s0, ln, f, m.label)
                   [] m.type = "mp2mp_up"   -> WithdrawMp2mpUp(s0, ln, f, m.label)
                   [] OTHER                 -> s0
           \* LWd.2: every withdraw is acknowledged with a release
           s2 == Send(s1, ln :> Msg("rel", f, m.type, m.label))
       IN WithdrawFec(s2, ln, f, m.label, s2.ft[f].data # "none")

RECURSIVE WithdrawEach(_, _, _, _)
WithdrawEach(s, ln, F, label) ==
  IF F = {} THEN s
  ELSE LET f == CHOOSE x \in F : TRUE
       IN WithdrawEach(WithdrawFec(s, ln, f, label, f \in PwFec /\ PwPeer[f] = ln),
                       ln, F \ {f}, label)

lde_check_withdraw_wcard(s, ln, label) ==
  WithdrawEach(Send(s, ln :> Msg("rel", "wcard", "wcard", label)), ln, DOMAIN s.ft, label)

-----------------------------------------------------------------------------
(* lde_gc_timer: free every node with no nexthop and empty lists.  The    *)
(* node is freed with free(fn): fn->data is not released.                 *)
(***************************************************************************)
Garbage(s) == {f \in DOMAIN s.ft : DOMAIN s.ft[f].nh = {} /\ s.ft[f].down = {}
                                   /\ Upstream(s, f) = {}}

lde_gc_timer(s) == [s EXCEPT !.ft = Restrict(@, DOMAIN @ \ Garbage(s))]

-----------------------------------------------------------------------------
(* The event loop: one input, one whole handler.                          *)
(***************************************************************************)
\* FECs a message from n can name: lde_map2fec puts ln->id in a pwid FEC.
FecsFrom(n) == IpFec \cup {f \in PwFec : PwPeer[f] = n}
TypesOf(f) == IF f \in PwFec THEN {"pwid"} ELSE MapTypes
LocalLabel == {MPLS_LABEL_IMPLNULL} \cup (MPLS_LABEL_RESERVED_MAX + 1 .. MaxLabel)
PwIdFlag(f) == IF f \in PwFec THEN BOOLEAN ELSE {TRUE}
Nego(f) == IF f \in PwFec THEN BOOLEAN ELSE {TRUE}

\* Take the step to s2, within the bounds of the label allocator and of
\* the heap accounting.
Apply(s2) ==
  /\ s2.lbl <= MaxLabel
  /\ s2.ext <= MaxExt
  /\ ft' = s2.ft /\ nbr' = s2.nbr /\ fib' = s2.fib /\ lbl' = s2.lbl /\ ext' = s2.ext

Init ==
  /\ ft = [f \in {} |-> 0]
  /\ nbr = [n \in Nbr |-> [recv |-> [f \in {} |-> 0], sent |-> [f \in {} |-> 0],
                           rreq |-> {}, wdraw |-> [f \in {} |-> 0]]]
  /\ fib = [k \in IpFec \X Addr |-> None]
  /\ lbl = MPLS_LABEL_RESERVED_MAX
  /\ ext = 0

KernelInsert ==
  \E f \in Fec, a \in Addr, connected \in BOOLEAN :
    \E nego \in Nego(f) :
      /\ f \in PwFec => Owner[a] = PwPeer[f] /\ ~connected
      /\ Apply(lde_kernel_insert(State, f, a, connected, nego))

KernelRemove ==
  \E f \in Fec, a \in Addr : Apply(lde_kernel_remove(State, f, a))

RecvMapping ==
  \E n \in Nbr : \E f \in FecsFrom(n), label \in PeerLabel :
    \E t \in TypesOf(f), nego \in Nego(f) :
      Apply(lde_check_mapping(State, n, [fec |-> f, type |-> t, label |-> label], nego))

RecvRequest ==
  \E n \in Nbr : \E f \in FecsFrom(n) : Apply(lde_check_request(State, n, f))

RecvRelease ==
  \E n \in Nbr : \E f \in FecsFrom(n), label \in LocalLabel \cup {NO_LABEL} :
    \E pwid \in PwIdFlag(f) :
      /\ ReleaseOnlyAcks => f \in DOMAIN nbr[n].wdraw
      /\ Apply(lde_check_release(State, n,
                 [fec |-> f, type |-> PlainType(f), label |-> label, pwid |-> pwid]))

RecvReleaseWcard ==
  \E n \in Nbr, label \in LocalLabel \cup {NO_LABEL} :
    /\ ~ReleaseOnlyAcks
    /\ Apply(lde_check_release_wcard(State, n, label))

RecvWithdraw ==
  \E n \in Nbr : \E f \in FecsFrom(n), label \in PeerLabel \cup {NO_LABEL} :
    \E t \in TypesOf(f), pwid \in PwIdFlag(f) :
      Apply(lde_check_withdraw(State, n,
              [fec |-> f, type |-> t, label |-> label, pwid |-> pwid]))

RecvWithdrawWcard ==
  \E n \in Nbr, label \in PeerLabel \cup {NO_LABEL} :
    Apply(lde_check_withdraw_wcard(State, n, label))

GcTimer == Apply(lde_gc_timer(State))

Next ==
  \/ KernelInsert \/ KernelRemove
  \/ RecvMapping \/ RecvRequest
  \/ RecvRelease \/ RecvReleaseWcard
  \/ RecvWithdraw \/ RecvWithdrawWcard
  \/ GcTimer

Spec == Init /\ [][Next]_vars

-----------------------------------------------------------------------------
(* Properties.                                                            *)
(***************************************************************************)
Rec == [type : MapType, label : PeerLabel \cup LocalLabel \cup {NO_LABEL}]
\* x is a function from part of S into T.
IsPFn(x, S, T) == DOMAIN x \subseteq S /\ Range(x) \subseteq T

TypeOK ==
  /\ DOMAIN ft \subseteq Fec
  /\ \A f \in DOMAIN ft :
       /\ ft[f].local \in LocalLabel \cup {NO_LABEL}
       /\ IsPFn(ft[f].nh, Addr, PeerLabel \cup {NO_LABEL})
       /\ ft[f].down \subseteq [nbr : Nbr, type : MapType, label : PeerLabel]
       /\ ft[f].data \in DataKind
  /\ \A n \in Nbr :
       /\ IsPFn(nbr[n].recv, Fec, Rec)
       /\ IsPFn(nbr[n].sent, Fec, Rec)
       /\ nbr[n].rreq \subseteq Fec
       /\ IsPFn(nbr[n].wdraw, Fec, LocalLabel \cup {NO_LABEL})
  /\ fib \in [IpFec \X Addr -> ((LocalLabel \cup {NO_LABEL}) \X PeerLabel) \cup {None}]
  /\ lbl \in MPLS_LABEL_RESERVED_MAX .. MaxLabel
  /\ ext \in 0 .. MaxExt

\* What the kernel should hold for <<f, a>>: the LSP of the FEC's local
\* label to the remote label of that nexthop, when kr_change installs it.
IdealFib(k) ==
  LET f == k[1]  a == k[2] IN
  IF f \in DOMAIN ft /\ a \in DOMAIN ft[f].nh
     /\ KrInstallable(ft[f].local, ft[f].nh[a])
  THEN <<ft[f].local, ft[f].nh[a]>> ELSE None

\* FibSync: the kernel's label table is exactly the one the LIB implies.
\* Every handler that changes a nexthop's remote label or a FEC's local
\* label must send the matching kr_change / kr_delete, in the right order
\* (lde_kernel_insert, lde_kernel_remove, lde_check_mapping,
\* lde_check_withdraw and its wildcard).  A missing delete leaves a stale
\* LSP forwarding with a label the peer has withdrawn.
FibSync == \A k \in DOMAIN fib : fib[k] = IdealFib(k)

\* RemoteBacked: a remote label in use on a nexthop of an IPv4 FEC is the
\* label of the ordinary mapping we retain from the neighbour owning that
\* nexthop (lde_check_mapping, lde_check_withdraw, lde_kernel_insert).
RemoteBacked ==
  \A f \in DOMAIN ft \cap IpFec : \A a \in DOMAIN ft[f].nh :
    ft[f].nh[a] # NO_LABEL =>
      /\ Owner[a] # NoNbr
      /\ f \in DOMAIN nbr[Owner[a]].recv
      /\ nbr[Owner[a]].recv[f] = [type |-> "prefix", label |-> ft[f].nh[a]]

\* AdvertisedIsCurrent: a mapping we advertised to a neighbour and have
\* not withdrawn carries the FEC's current local label.  When the last
\* nexthop goes (lde_kernel_remove) every holder must get a withdraw
\* before the label is cleared, and a release may only drop the records
\* it names (lde_check_release).
AdvertisedIsCurrent ==
  \A n \in Nbr : \A f \in DOMAIN nbr[n].sent :
    f \notin DOMAIN nbr[n].wdraw =>
      f \in DOMAIN ft /\ nbr[n].sent[f].label = ft[f].local

\* RetentionApplied (liberal retention, FEC.2 / FEC.5): when a route adds
\* nexthop a to f and its neighbour already sent an ordinary mapping for
\* f, the nexthop leaves the step with that neighbour's label.
NewNh(f, a) ==
  /\ f \in DOMAIN ft' /\ a \in DOMAIN ft'[f].nh
  /\ ~(f \in DOMAIN ft /\ a \in DOMAIN ft[f].nh)
RetentionApplied ==
  [][\A f \in IpFec, a \in Addr :
       NewNh(f, a) /\ Owner[a] # NoNbr /\ f \in DOMAIN nbr'[Owner[a]].recv
       /\ nbr'[Owner[a]].recv[f].type = "prefix"
       => ft'[f].nh[a] = nbr'[Owner[a]].recv[f].label]_vars

\* LspLabelsReal: every LSP handed to the kernel has a real incoming
\* label.  kr_change only skips local labels below 16, so NO_LABEL
\* (UINT32_MAX) reaches zebra if a nexthop gets a remote label while the
\* FEC has no local label (lde_check_mapping LMp.15, lde_kernel_insert).
LspLabelsReal == \A k \in DOMAIN fib : fib[k] # None => fib[k][1] # NO_LABEL

\* MappingHasLabel: every mapping we sent and have not withdrawn carries
\* a real label: a request is only answered (lde_check_request, LRq.9)
\* and a FEC only advertised (FEC.1, MP2MP forwarding) once the FEC has
\* a local label.
MappingHasLabel ==
  \A n \in Nbr : \A f \in DOMAIN nbr[n].sent :
    f \notin DOMAIN nbr[n].wdraw => nbr[n].sent[f].label # NO_LABEL

\* ListsCoherent: fn->downstream holds exactly the mappings the neighbours'
\* recv_map trees hold for f.  lde_map_del unlinks a record from both, so
\* the two views can only diverge if a handler deletes the record of one
\* neighbour through another neighbour's tree (lde_check_withdraw, the
\* MP2MP U-withdraw branch).
ListsCoherent ==
  \A f \in DOMAIN ft :
    ft[f].down = {DRec(n, nbr[n].recv[f]) : n \in {x \in Nbr : f \in DOMAIN nbr[x].recv}}

\* UpstreamWithdrawJustified (MP2MP, spec 4.4): the D-mapping sent toward
\* the root is withdrawn, while f keeps a path toward the root, only when
\* no child's D-mapping remains to justify it (lde_check_withdraw).
UpstreamWithdrawJustified ==
  [][\A p \in Nbr, f \in IpFec :
       /\ f \in DOMAIN nbr[p].sent /\ nbr[p].sent[f].type = "mp2mp_down"
       /\ f \notin DOMAIN nbr[p].wdraw /\ f \in DOMAIN nbr'[p].wdraw
       /\ f \in DOMAIN ft' /\ DOMAIN ft'[f].nh # {}
       => ~\E c \in Nbr \ {p} : f \in DOMAIN nbr'[c].recv
                          /\ nbr'[c].recv[f].type = "mp2mp_down"]_vars

\* PwDataIsPw: fn->data of a pseudowire FEC is never a fec_mp2mp_ext;
\* l2vpn_pw_negotiate and LMp.15 cast it to struct l2vpn_pw.
PwDataIsPw == \A f \in DOMAIN ft \cap PwFec : ft[f].data # "mp2mp"

\* ExtAccounted: every fec_mp2mp_ext allocated and not freed hangs off a
\* node of the FEC tree (none leaked by lde_gc_timer or lde_kernel_insert).
ExtAccounted == ext = Cardinality({f \in DOMAIN ft : ft[f].data = "mp2mp"})

-----------------------------------------------------------------------------
(* Refinement of Lib, the LIB/FIB the procedures promise for IP FECs.      *)
(* A neighbour's label in use on f is the remote label of f's nexthops     *)
(* through it; Lib has one such label per neighbour and FEC, so the        *)
(* mapping is only faithful if all those nexthops agree.                   *)
(***************************************************************************)
RouteOf(f) == IF f \in DOMAIN ft THEN DOMAIN ft[f].nh ELSE {}
LocalOf(f) == IF f \in DOMAIN ft THEN ft[f].local ELSE NO_LABEL
RetainedOf(n, f) ==
  IF f \in DOMAIN nbr[n].recv /\ nbr[n].recv[f].type = "prefix"
  THEN nbr[n].recv[f].label ELSE NO_LABEL
InuseOf(n, f) ==
  IF f \in DOMAIN ft /\ NhOf(State, f, n) # {}
  THEN ft[f].nh[CHOOSE a \in NhOf(State, f, n) : TRUE] ELSE NO_LABEL

LIB == INSTANCE Lib WITH
         Fec <- IpFec, Label <- MPLS_LABEL_RESERVED_MAX + 1 .. MaxLabel,
         Egress <- {egress_label}, NoLabel <- NO_LABEL,
         route <- [f \in IpFec |-> RouteOf(f)],
         local <- [f \in IpFec |-> LocalOf(f)],
         retained <- [n \in Nbr |-> [f \in IpFec |-> RetainedOf(n, f)]],
         inuse <- [n \in Nbr |-> [f \in IpFec |-> InuseOf(n, f)]]

\* LibRefined: every step of the handlers is a step of Lib.  A route's
\* first nexthop binds a fresh label that stays until the last nexthop
\* goes (lde_kernel_insert FEC.1, lde_kernel_remove); every nexthop
\* through a neighbour forwards with that neighbour's retained label or
\* none (LMp.10 - LMp.15, FEC.5, LWd.1 - LWd.4 and the wildcard), and the
\* kernel table is the one those bindings imply after every handler.
LibRefined == LIB!Spec

=============================================================================
