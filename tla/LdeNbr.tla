------------------------------ MODULE LdeNbr ------------------------------
(***************************************************************************)
(* State of the label distribution engine (LDE) of one LSR, and the       *)
(* helpers its handlers call: the FEC tree `ft` (lde_lib.c), the           *)
(* per-neighbour label state (struct lde_nbr, lde.h), the kernel FIB fed   *)
(* by kr_change / kr_delete (ldp_zebra.c) and the label allocator.         *)
(*                                                                         *)
(* A handler of the C code runs to completion and may call another         *)
(* handler (lde_kernel_insert calls lde_check_mapping), so every helper    *)
(* here is a state transformer: it takes a state record s with the fields *)
(* ft, nbr, fib, lbl, ext and returns the state after the call.            *)
(*                                                                         *)
(* The helpers of lde.c (lde_map_add, lde_send_labelmapping, ...) are not  *)
(* part of the sources; they are written from the spec's description.     *)
(***************************************************************************)
EXTENDS Integers, FiniteSets, Sequences, Functions, TLC

CONSTANTS
  Nbr,        \* LDP neighbours with an established session (struct lde_nbr)
  Fec,        \* FECs (IPv4 prefixes and pseudowires), as model values
  PwFec,      \* the FECs of type FEC_TYPE_PWID
  PwPeer,     \* PwFec -> Nbr: the pwid FEC's lsr_id, the remote end
  Addr,       \* nexthop addresses (af, address, priority)
  Owner,      \* Addr -> Nbr \cup {NoNbr}: lde_nbr_find_by_addr
  NoNbr,      \* the NULL neighbour
  None,       \* absent FIB entry
  PeerLabel,  \* labels the neighbours advertise
  MaxLabel,   \* bound on lde_assign_label
  Role        \* "root", "switch" or "leaf": ldeconf->rtr_id vs ROOT/LEAF

ASSUME PwFec \subseteq Fec
ASSUME PwPeer \in [PwFec -> Nbr]
ASSUME Owner \in [Addr -> Nbr \cup {NoNbr}]
ASSUME Role \in {"root", "switch", "leaf"}

\* Label values of mpls.h / ldpd.h.  NO_LABEL is UINT32_MAX in the code;
\* it is only compared for equality and against MPLS_LABEL_RESERVED_MAX,
\* so any value above every real label behaves the same.
MPLS_LABEL_IMPLNULL == 3
MPLS_LABEL_RESERVED_MAX == 16
NO_LABEL == 1048576

\* The map types of a label message (MAP_TYPE_*).
MapType == {"prefix", "pwid", "mp2mp_up", "mp2mp_down"}
IsMp2mp(t) == t \in {"mp2mp_up", "mp2mp_down"}

\* What fn->data points to: nothing, the fec_mp2mp_ext block allocated by
\* this file, or the l2vpn_pw handed over by lde_kernel_insert.
DataKind == {"none", "mp2mp", "pw"}

VARIABLES
  ft,    \* the FEC tree: FEC -> fec_node [local, nh, down, data]
  nbr,   \* Nbr -> [recv, sent, rreq, wdraw] (recv_map, sent_map, recv_req, sent_wdraw)
  fib,   \* kernel LSP/FTN table: <<fec, nexthop>> -> <<in label, out label>> or None
  lbl,   \* the static counter of lde_assign_label
  ext    \* fec_mp2mp_ext blocks allocated and not freed (heap accounting)

vars == <<ft, nbr, fib, lbl, ext>>
State == [ft |-> ft, nbr |-> nbr, fib |-> fib, lbl |-> lbl, ext |-> ext]
-----------------------------------------------------------------------------
EmptyFn == [x \in {} |-> NO_LABEL]

\* A record of the fn->downstream list: a received lde_map and its sender.
DRec(n, m) == [nbr |-> n, type |-> m.type, label |-> m.label]

\* fn->upstream: the sent mappings of every neighbour for FEC f.
Upstream(s, f) == {DRec(n, s.nbr[n].sent[f]) : n \in {x \in Nbr : f \in DOMAIN s.nbr[x].sent}}

\* fec_add: a new fec_node with no label, no nexthops and empty lists.
fec_add(s, f) ==
  [s EXCEPT !.ft = @ @@ (f :> [local |-> NO_LABEL, nh |-> EmptyFn,
                               down |-> {}, data |-> "none"])]

\* fec_mp2mp_add: fec_add, then calloc a fec_mp2mp_ext into fn->data.
fec_mp2mp_add(s, f) ==
  LET s1 == fec_add(s, f) IN
  [s1 EXCEPT !.ft[f].data = "mp2mp", !.ext = @ + 1]

\* Mutant: the calloc'ed fec_nh keeps remote_label 0 (assignment dropped).
fec_nh_add_calloc(s, f, a) == [s EXCEPT !.ft[f].nh = @ @@ (a :> 0)]

\* fec_nh_add: the new nexthop has no remote label yet.
fec_nh_add(s, f, a) == [s EXCEPT !.ft[f].nh = @ @@ (a :> NO_LABEL)]

fec_nh_del(s, f, a) ==
  [s EXCEPT !.ft[f].nh = Restrict(@, DOMAIN @ \ {a})]

\* Mutant: a post-incremented counter hands out the reserved label 16 first.
lde_assign_label_postinc(s) == s.lbl

\* lde_assign_label: a static counter, incremented before use.
lde_assign_label(s) == s.lbl + 1

\* Mutant: the F_LDPD_AF_EXPNULL test dropped; IPv4 explicit null (0)
\* is returned although the configuration asks for implicit null.
egress_label_noflag == 0

\* egress_label: implicit null unless explicit null is configured.
egress_label == MPLS_LABEL_IMPLNULL

-----------------------------------------------------------------------------
(* Kernel side.  lde_send_change_klabel / lde_send_delete_klabel build a   *)
(* kroute from (fn->local_label, fnh->remote_label) for each nexthop in A; *)
(* kr_change / kr_delete skip a reserved local label or a missing remote   *)
(* label.  For a pseudowire the parent calls kmpw_set, which is a stub.    *)
(***************************************************************************)
KrInstallable(local, remote) ==
  local >= MPLS_LABEL_RESERVED_MAX /\ remote # NO_LABEL

lde_send_change_klabel(s, f, A) ==
  IF f \in PwFec THEN s
  ELSE [s EXCEPT !.fib =
          [k \in DOMAIN s.fib |->
             IF k[1] = f /\ k[2] \in A
                /\ KrInstallable(s.ft[f].local, s.ft[f].nh[k[2]])
             THEN <<s.ft[f].local, s.ft[f].nh[k[2]]>>
             ELSE s.fib[k]]]

lde_send_delete_klabel(s, f, A) ==
  IF f \in PwFec THEN s
  ELSE [s EXCEPT !.fib =
          [k \in DOMAIN s.fib |->
             IF k[1] = f /\ k[2] \in A
                /\ KrInstallable(s.ft[f].local, s.ft[f].nh[k[2]])
             THEN None
             ELSE s.fib[k]]]

-----------------------------------------------------------------------------
(* Neighbour label state (lde.c).                                          *)
(***************************************************************************)

\* A label message as the session process gets it from lde_imsg_compose:
\* mapping, withdraw or release, of FEC f (or "wcard"), with the map type
\* and label of struct map.
Msg(kind, f, type, label) == [kind |-> kind, fec |-> f, type |-> type, label |-> label]

\* The messages a handler sends, in the order it sends them: ms maps some
\* neighbours to one message each, appended to their outbox.  Only a state
\* whose peers are modelled carries an outbox (field out); for the others
\* the peers are arbitrary and a sent message changes nothing.
Send(s, ms) ==
  IF "out" \notin DOMAIN s THEN s
  ELSE [s EXCEPT !.out = [n \in DOMAIN @ |->
                            IF n \in DOMAIN ms THEN Append(@[n], ms[n]) ELSE @[n]]]

\* lde_map_add + `me->map = *map`: insert the received mapping of n for f,
\* or overwrite the record found in n's recv_map.  The lde_map is also the
\* element of fn->downstream, so overwriting it updates the list, if the
\* record is still in it.
RecordRecvMap(s, n, f, m) ==
  LET new == [type |-> m.type, label |-> m.label]
      old == IF f \in DOMAIN s.nbr[n].recv THEN {DRec(n, s.nbr[n].recv[f])} ELSE {}
      dn  == s.ft[f].down
  IN [s EXCEPT !.nbr[n].recv = (f :> new) @@ @,
               !.ft[f].down = IF old = {} THEN dn \cup {DRec(n, new)}
                              ELSE IF old \subseteq dn THEN (dn \ old) \cup {DRec(n, new)}
                              ELSE dn]

\* lde_map_del(ln, me, 0) for every me in M: fec_remove(&ln->recv_map, me),
\* LIST_REMOVE(me) and free.  A record of another neighbour is not in ln's
\* tree: RB_REMOVE on ln's tree does not take it out of its owner's tree,
\* which keeps the freed record.
\* Mutant: the record leaves its owner's recv_map but not fn->downstream.
lde_map_del_recv_nounlink(s, ln, f, M) ==
  [s EXCEPT !.nbr[ln].recv = IF \E me \in M : me.nbr = ln
                             THEN Restrict(@, DOMAIN @ \ {f}) ELSE @]

lde_map_del_recv(s, ln, f, M) ==
  [s EXCEPT !.ft[f].down = @ \ M,
            !.nbr[ln].recv = IF \E me \in M : me.nbr = ln
                             THEN Restrict(@, DOMAIN @ \ {f}) ELSE @]

lde_map_del_sent(s, ln, f) ==
  [s EXCEPT !.nbr[ln].sent = Restrict(@, DOMAIN @ \ {f})]

lde_wdraw_del(s, ln, f) ==
  [s EXCEPT !.nbr[ln].wdraw = Restrict(@, DOMAIN @ \ {f})]

\* Does lde_send_labelmapping / _labelwithdraw talk to n about f?  A
\* pseudowire FEC is only sent to the remote end of a configured pw.
Announces(s, n, f) ==
  f \in PwFec => s.ft[f].data # "none" /\ PwPeer[f] = n

\* lde_send_labelmapping: SL.6/7 drop a pending received request, SL.5
\* record the sent mapping with the FEC's local label.
lde_send_labelmapping(s, n, f, type) ==
  IF ~Announces(s, n, f) THEN s
  ELSE Send([s EXCEPT !.nbr[n].rreq = @ \ {f},
                      !.nbr[n].sent = (f :> [type |-> type, label |-> s.ft[f].local]) @@ @],
            n :> Msg("map", f, type, s.ft[f].local))

\* The map type an ordinary advertisement of f carries.
PlainType(f) == IF f \in PwFec THEN "pwid" ELSE "prefix"

\* FEC.1 / fec_snap: advertise f to every neighbour.
SendLabelmappingAll(s, f) ==
  LET P == {n \in Nbr : Announces(s, n, f)} IN
  Send([s EXCEPT !.nbr = [n \in Nbr |->
          IF n \in P
          THEN [s.nbr[n] EXCEPT !.rreq = @ \ {f},
                  !.sent = (f :> [type |-> PlainType(f), label |-> s.ft[f].local]) @@ @]
          ELSE s.nbr[n]]],
       [n \in P |-> Msg("map", f, PlainType(f), s.ft[f].local)])

\* lde_send_labelwithdraw: SWd.2 records the withdrawn label.
lde_send_labelwithdraw(s, n, f, label) ==
  IF ~Announces(s, n, f) THEN s
  ELSE Send([s EXCEPT !.nbr[n].wdraw = (f :> label) @@ @],
            n :> Msg("wd", f, PlainType(f), label))

\* lde_send_labelwithdraw_all: withdraw the local label from every
\* neighbour that was sent a mapping for f.
lde_send_labelwithdraw_all(s, f) ==
  LET P == {n \in Nbr : f \in DOMAIN s.nbr[n].sent /\ Announces(s, n, f)} IN
  Send([s EXCEPT !.nbr = [n \in Nbr |->
          IF n \in P THEN [s.nbr[n] EXCEPT !.wdraw = (f :> s.ft[f].local) @@ @]
          ELSE s.nbr[n]]],
       [n \in P |-> Msg("wd", f, PlainType(f), s.ft[f].local)])

-----------------------------------------------------------------------------
(* MP2MP helpers of lde.c.                                                 *)
(***************************************************************************)

\* lde_mp2mp_get_nexthop: the neighbour owning a nexthop of f, toward the
\* root, or NULL.
lde_mp2mp_get_nexthop(s, f) ==
  LET up == {a \in DOMAIN s.ft[f].nh : Owner[a] # NoNbr}
  IN IF up = {} THEN NoNbr ELSE Owner[CHOOSE a \in up : TRUE]

\* lde_mp2mp_process_u_mapping: bind one local label for f (allocating it
\* if f has none) and answer every received D-mapping with a U-mapping
\* carrying that shared label.
lde_mp2mp_process_u_mapping(s, f) ==
  LET s1 == IF s.ft[f].local = NO_LABEL
            THEN [s EXCEPT !.ft[f].local = lde_assign_label(s), !.lbl = @ + 1]
            ELSE s
      kids == {n \in Nbr : f \in DOMAIN s1.nbr[n].recv
                           /\ s1.nbr[n].recv[f].type = "mp2mp_down"}
  IN Send([s1 EXCEPT !.nbr = [n \in Nbr |->
            IF n \in kids
            THEN [s1.nbr[n] EXCEPT !.rreq = @ \ {f},
                    !.sent = (f :> [type |-> "mp2mp_up", label |-> s1.ft[f].local]) @@ @]
            ELSE s1.nbr[n]]],
          [n \in kids |-> Msg("map", f, "mp2mp_up", s1.ft[f].local)])

=============================================================================
