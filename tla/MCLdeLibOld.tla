----------------------------- MODULE MCLdeLibOld -----------------------------
(* Model values and bounds for checking LdeLibOld (src/ldpd) with TLC.                   *)
EXTENDS LdeLibOld

CONSTANTS n1, n2, n3, f1, f2, p1, a1, a2, a3

\* a1 and a2 are two nexthops (multipath) through n1, a3 goes through n2.
MCOwner == [a \in Addr |-> IF a = a3 THEN n2 ELSE n1]
MCPwPeer == (p1 :> n2)
MCPwPeerNone == [p \in {} |-> n1]
=============================================================================
