----------------------------- MODULE LdeLibOld -----------------------------
(***************************************************************************)
(* The older LDE of src/ldpd/lde_lib.c, without the MP2MP extension.      *)
(* The handlers that are the same as in the quagga-ldpd copy are taken    *)
(* from LdeLib; the ones that differ are written here from this file:     *)
(*   - lde_kernel_insert: the FEC.1 label assignment and advertisement   *)
(*     are commented out, and the IPv4 case of the neighbour lookup has  *)
(*     no break, so it falls through to lde_nbr_find_by_lsrid;           *)
(*   - lde_check_mapping / lde_check_withdraw create an unknown FEC with  *)
(*     fec_add (no fec_mp2mp_ext);                                        *)
(*   - lde_check_withdraw_wcard has its LWd.1 nexthop loop commented out. *)
(***************************************************************************)
EXTENDS LdeNbr

CONSTANT ReleaseOnlyAcks   \* TRUE: peers release a label only after our withdraw

\* The quagga-ldpd handlers, with the map types this version knows.
New == INSTANCE LdeLib WITH MapTypes <- {"prefix"}, MaxExt <- 0

\* lde_check_mapping: fec_add for an unknown FEC, then the ordinary
\* LMp procedure (the MP2MP branch does not exist here).
lde_check_mapping(s, ln, m, nego) ==
  LET f  == m.fec
      s1 == IF f \notin DOMAIN s.ft THEN fec_add(s, f) ELSE s
  IN IF m.type = "pwid" /\ s1.ft[f].data # "none" /\ ~nego THEN s1
     ELSE New!CheckMappingPlain(s1, ln, f, m)

\* lde_kernel_insert without FEC.1: the FEC keeps NO_LABEL.  For an IPv4
\* FEC the missing break makes ln = lde_nbr_find_by_lsrid(fec.u.pwid.lsr_id),
\* bytes of the union an IPv4 FEC never sets: lsr is the neighbour, if
\* any, whose LSR-ID those bytes happen to equal.
lde_kernel_insert(s, f, a, nego, lsr) ==
  LET s0 == IF f \in DOMAIN s.ft THEN s ELSE fec_add(s, f)
      s1 == IF f \in PwFec THEN [s0 EXCEPT !.ft[f].data = "pw"] ELSE s0
      s3 == lde_send_change_klabel(fec_nh_add(s1, f, a), f, {a})
      ln == IF f \in PwFec THEN PwPeer[f] ELSE lsr
  IN IF a \in DOMAIN s0.ft[f].nh THEN s0
     ELSE IF ln # NoNbr /\ f \in DOMAIN s3.nbr[ln].recv
     THEN lde_check_mapping(s3, ln, [fec |-> f] @@ s3.nbr[ln].recv[f], nego)
     ELSE s3

lde_kernel_remove(s, f, a) == New!lde_kernel_remove(s, f, a)
lde_check_request(s, ln, f) == New!lde_check_request(s, ln, f)
lde_check_release(s, ln, m) == New!lde_check_release(s, ln, m)
lde_check_release_wcard(s, ln, label) == New!lde_check_release_wcard(s, ln, label)

\* lde_check_withdraw: fec_add for an unknown FEC, then LWd.1 - LWd.4.
lde_check_withdraw(s, ln, m) ==
  IF m.type = "pwid" /\ ~m.pwid THEN s
  ELSE LET f  == m.fec
           s1 == IF f \notin DOMAIN s.ft THEN fec_add(s, f) ELSE s
       IN New!WithdrawFec(s1, ln, f, m.label, s1.ft[f].data # "none")

\* lde_check_withdraw_wcard: only LWd.3 / LWd.4 are left for each FEC.
RECURSIVE ForgetEach(_, _, _, _)
ForgetEach(s, ln, F, label) ==
  IF F = {} THEN s
  ELSE LET f  == CHOOSE x \in F : TRUE
           me == s.nbr[ln].recv
           s1 == IF f \in DOMAIN me /\ (label = NO_LABEL \/ label = me[f].label)
                 THEN lde_map_del_recv(s, ln, f, {DRec(ln, me[f])}) ELSE s
       IN ForgetEach(s1, ln, F \ {f}, label)

lde_check_withdraw_wcard(s, ln, label) == ForgetEach(s, ln, DOMAIN s.ft, label)

lde_gc_timer(s) == New!lde_gc_timer(s)

-----------------------------------------------------------------------------
Init == New!Init

KernelInsert ==
  \E f \in Fec, a \in Addr, lsr \in Nbr \cup {NoNbr} :
    \E nego \in New!Nego(f) :
      /\ f \in PwFec => Owner[a] = PwPeer[f]
      /\ New!Apply(lde_kernel_insert(State, f, a, nego, lsr))

KernelRemove ==
  \E f \in Fec, a \in Addr : New!Apply(lde_kernel_remove(State, f, a))

RecvMapping ==
  \E n \in Nbr : \E f \in New!FecsFrom(n), label \in PeerLabel :
    \E nego \in New!Nego(f) :
      New!Apply(lde_check_mapping(State, n,
                  [fec |-> f, type |-> PlainType(f), label |-> label], nego))

RecvRequest ==
  \E n \in Nbr : \E f \in New!FecsFrom(n) : New!Apply(lde_check_request(State, n, f))

RecvRelease ==
  \E n \in Nbr : \E f \in New!FecsFrom(n), label \in New!LocalLabel \cup {NO_LABEL} :
    \E pwid \in New!PwIdFlag(f) :
      /\ ReleaseOnlyAcks => f \in DOMAIN nbr[n].wdraw
      /\ New!Apply(lde_check_release(State, n,
           [fec |-> f, type |-> PlainType(f), label |-> label, pwid |-> pwid]))

RecvReleaseWcard ==
  \E n \in Nbr, label \in New!LocalLabel \cup {NO_LABEL} :
    /\ ~ReleaseOnlyAcks
    /\ New!Apply(lde_check_release_wcard(State, n, label))

RecvWithdraw ==
  \E n \in Nbr : \E f \in New!FecsFrom(n), label \in PeerLabel \cup {NO_LABEL} :
    \E pwid \in New!PwIdFlag(f) :
      New!Apply(lde_check_withdraw(State, n,
        [fec |-> f, type |-> PlainType(f), label |-> label, pwid |-> pwid]))

RecvWithdrawWcard ==
  \E n \in Nbr, label \in PeerLabel \cup {NO_LABEL} :
    New!Apply(lde_check_withdraw_wcard(State, n, label))

GcTimer == New!Apply(lde_gc_timer(State))

Next ==
  \/ KernelInsert \/ KernelRemove
  \/ RecvMapping \/ RecvRequest
  \/ RecvRelease \/ RecvReleaseWcard
  \/ RecvWithdraw \/ RecvWithdrawWcard
  \/ GcTimer

Spec == Init /\ [][Next]_vars

-----------------------------------------------------------------------------
(* Properties, as stated in LdeLib, of this version's handlers.           *)
(***************************************************************************)
\* TypeOK: the state keeps the shapes of lde.h.
TypeOK == New!TypeOK

\* ListsCoherent: fn->downstream holds exactly the mappings kept in the
\* neighbours' recv_map trees; every deletion (lde_check_withdraw and its
\* wildcard, LMp.10 replacement) goes through the owner's tree.
ListsCoherent == New!ListsCoherent

\* RetentionApplied: a route's new nexthop takes the label its neighbour
\* already sent (FEC.2 / FEC.5 in lde_kernel_insert).
RetentionApplied == New!RetentionApplied

\* RemoteBacked: a remote label in use on a nexthop is the retained
\* mapping of that nexthop's neighbour, also after a wildcard withdraw
\* (lde_check_withdraw_wcard, whose LWd.1 loop is commented out here).
RemoteBacked == New!RemoteBacked

\* LspLabelsReal: no LSP with the incoming label NO_LABEL reaches the
\* kernel (kr_change after lde_check_mapping LMp.15, FEC.1 commented out).
LspLabelsReal == New!LspLabelsReal

\* MappingHasLabel: a label mapping sent to a neighbour (lde_check_request
\* answering LRq.9) carries a label.
MappingHasLabel == New!MappingHasLabel
=============================================================================
