----------------------------- MODULE FecCompare -----------------------------
(***************************************************************************)
(* fec_compare (lde_lib.c), the order of every fec_tree: the global FEC    *)
(* tree ft and each neighbour's recv_map, sent_map, recv_req and           *)
(* sent_wdraw.  RB_FIND, RB_INSERT and RB_REMOVE are only correct if it is *)
(* a strict total order on FECs, and it returns 0 exactly for the FECs the *)
(* LDE must treat as one.                                                  *)
(*                                                                         *)
(* A struct fec is a record with the fields of its union member.  An      *)
(* address is the sequence of its bytes in network order (struct in_addr, *)
(* struct in6_addr), shortened to AddrLen / V6Len bytes.  The state is    *)
(* the pair <<a, b>> of FECs being compared; every pair is reachable, so  *)
(* the invariants check fec_compare on all bounded inputs.                *)
(***************************************************************************)
EXTENDS Integers, Sequences, SequencesExt

CONSTANTS
  Byte,       \* byte values used in addresses
  AddrLen,    \* bytes of an IPv4 address / LSR-ID
  V6Len,      \* bytes of an IPv6 address
  PrefixLen,  \* prefix lengths (uint8_t)
  PwType,     \* pseudowire types (uint16_t)
  PwId        \* pseudowire ids (uint32_t)

ASSUME Byte \subseteq 0..255 /\ AddrLen \in Nat \ {0} /\ V6Len \in Nat \ {0}

VARIABLES a, b
vars == <<a, b>>

\* enum fec_type (lde.h).
FEC_TYPE_IPV4 == 0
FEC_TYPE_IPV6 == 1
FEC_TYPE_PWID == 2

Bytes(n) == [1 .. n -> Byte]

\* struct fec, one set per member of the union.
FecIpv4 == [type : {FEC_TYPE_IPV4}, prefix : Bytes(AddrLen), prefixlen : PrefixLen]
FecIpv6 == [type : {FEC_TYPE_IPV6}, prefix : Bytes(V6Len), prefixlen : PrefixLen]
FecPwid == [type : {FEC_TYPE_PWID}, pwtype : PwType, pwid : PwId, lsr_id : Bytes(AddrLen)]
AllFec == FecIpv4 \cup FecIpv6 \cup FecPwid

-----------------------------------------------------------------------------
\* The three-way comparison of two integers, as the `if (x < y) return
\* (-1); if (x > y) return (1);` pairs of fec_compare write it.
Cmp(x, y) == IF x < y THEN -1 ELSE IF x > y THEN 1 ELSE 0

\* Mutant: the address loaded as the raw s_addr of a little-endian host,
\* without ntohl: the last byte in memory is the most significant.
RawLoad(bytes) == FoldRight(LAMBDA x, acc : acc * 256 + x, bytes, 0)

\* ntohl(x.s_addr): the value of the address bytes read in network order.
ntohl(bytes) == FoldLeft(LAMBDA acc, x : acc * 256 + x, 0, bytes)

\* memcmp: the sign of the first differing byte, compared as unsigned.
RECURSIVE memcmp(_, _)
memcmp(x, y) ==
  IF x = <<>> THEN 0
  ELSE IF Head(x) # Head(y) THEN Cmp(Head(x), Head(y))
  ELSE memcmp(Tail(x), Tail(y))

\* The first non-zero result of a chain of field comparisons.
FirstDiff(chain) ==
  LET i == SelectInSeq(chain, LAMBDA r : r # 0) IN IF i = 0 THEN 0 ELSE chain[i]

\* fec_compare: type first, then the fields of the member, in order.
fec_compare(x, y) ==
  IF x.type # y.type THEN Cmp(x.type, y.type)
  ELSE CASE x.type = FEC_TYPE_IPV4 ->
              FirstDiff(<<Cmp(ntohl(x.prefix), ntohl(y.prefix)),
                          Cmp(x.prefixlen, y.prefixlen)>>)
         [] x.type = FEC_TYPE_IPV6 ->
              FirstDiff(<<memcmp(x.prefix, y.prefix), Cmp(x.prefixlen, y.prefixlen)>>)
         [] OTHER ->
              FirstDiff(<<Cmp(x.pwtype, y.pwtype), Cmp(x.pwid, y.pwid),
                          Cmp(ntohl(x.lsr_id), ntohl(y.lsr_id))>>)

-----------------------------------------------------------------------------
(* The reference: the lexicographic order of a FEC's key, most           *)
(* significant field first, with addresses as unsigned big-endian numbers. *)
(***************************************************************************)
RECURSIVE Number(_)
Number(bytes) == IF bytes = <<>> THEN 0
                 ELSE bytes[1] * 256 ^ (Len(bytes) - 1) + Number(Tail(bytes))
Key(f) ==
  CASE f.type = FEC_TYPE_IPV4 -> <<f.type, Number(f.prefix), f.prefixlen, 0>>
    [] f.type = FEC_TYPE_IPV6 -> <<f.type, Number(f.prefix), f.prefixlen, 0>>
    [] OTHER                  -> <<f.type, f.pwtype, f.pwid, Number(f.lsr_id)>>
KeyLess(x, y) ==
  \E i \in 1..4 : Key(x)[i] < Key(y)[i] /\ \A j \in 1..(i - 1) : Key(x)[j] = Key(y)[j]
RefCompare(x, y) ==
  IF KeyLess(x, y) THEN -1 ELSE IF KeyLess(y, x) THEN 1 ELSE 0

-----------------------------------------------------------------------------
Init == a \in AllFec /\ b \in AllFec
\* Compare the next pair: b and a new FEC.
Next == \E x \in AllFec : a' = b /\ b' = x
Spec == Init /\ [][Next]_vars

\* CompareMatchesRef: fec_compare orders FECs by type, then by address as
\* a number (ntohl of the IPv4 prefix and of the LSR-ID, memcmp of the
\* IPv6 prefix), then by prefix length or pw type and id.  The reference
\* is a strict total order, so this also shows that fec_find (RB_FIND)
\* finds exactly the FEC inserted and fec_insert never merges two
\* different FECs, e.g. one prefix with two lengths.
CompareMatchesRef == fec_compare(a, b) = RefCompare(a, b)
=============================================================================
