# TLA+ model of the LDP label distribution engine with the MP2MP extension

This directory models the label distribution engine (LDE) of `ldpd` as it
is extended for multipoint-to-multipoint (MP2MP) LSPs in
`src/quagga-ldpd/ldpd/lde_lib.c`. It also models the kernel side of
`src/quagga-ldpd/ldpd/ldp_zebra.c`. The modules are checked with TLC.

## 1. The system

| Part | Source | State | Operations |
|---|---|---|---|
| FEC tree | `lde_lib.c` 51-137, 405-474; `lde.h` 36-60 | `ft`: the `fec_node`s, each with `local_label`, nexthops (`fec_nh` with `remote_label`), the `downstream` and `upstream` lists, and `data` | `fec_add`, `fec_mp2mp_add`, `fec_nh_add/del`, `fec_find/insert/remove`, `fec_compare` |
| Neighbour label state | `lde.h` 65-107; helpers in `lde.c` (not in the sources) | per `lde_nbr`: `recv_map`, `sent_map`, `recv_req`, `sent_wdraw` | `lde_map_add/del`, `lde_send_labelmapping`, `lde_send_labelwithdraw(_all)`, `lde_wdraw_del` |
| LDE procedures | `lde_lib.c` 496-981 | both of the above | route events `lde_kernel_insert/remove`; received messages `lde_check_mapping`, `_request`, `_release`, `_release_wcard`, `_withdraw`, `_withdraw_wcard` |
| MP2MP extension | `lde_lib.c` 591-604, 623-643, 857-905; `lde.h` 27-31, 119-136 | `fn->data` holds a `fec_mp2mp_ext`; U and D mappings share the lists and trees above | the U/D branches of mapping and withdraw; `lde_mp2mp_process_u_mapping`, `lde_mp2mp_get_nexthop` (in `lde.c`) |
| Garbage collector | `lde_lib.c` 987-1026 | — | `lde_gc_timer` frees nodes that have no nexthop and empty lists |
| Kernel interface | `ldp_zebra.c` 199-234, 432-528 | the kernel LSP table | `kr_change`, `kr_delete`; route add/delete become `IMSG_NETWORK_ADD/DEL` |
| Old LDE variant | `src/ldpd/lde_lib.c` | as above, without MP2MP | the same procedures; FEC.1 is commented out, the neighbour lookup of `lde_kernel_insert` falls through, LWd.1 of the wildcard withdraw is commented out |
| mp2mp daemon stub, rpcproto | `src/quagga-mp2mp/...` | none | flag parsing; a protobuf code generator |

How the parts interact:
- Zebra route events call `lde_kernel_insert` and `lde_kernel_remove`.
- The first nexthop of a FEC gives it a local label. The label is advertised to every neighbour (FEC.1), and any mapping retained from that nexthop's neighbour is applied (FEC.5, a nested call of `lde_check_mapping`).
- Label messages from neighbours update the neighbour trees and the FEC lists. They program the kernel through `lde_send_change_klabel` and `lde_send_delete_klabel`, which reach `kr_change` and `kr_delete`.
- On an MP2MP node:
  - D-mappings come from children and are forwarded to the neighbour toward the root.
  - U-mappings are answered with the node's shared label to every child.
  - Withdraws prune both directions.
- The gc timer may fire between any two events.

The LDE is a single thread, so each handler runs to completion. What makes it hard is the order of events:
- route events and messages of several neighbours, in any order;
- a mapping that arrives before or after its route;
- MP2MP and ordinary mappings that share one FEC key;
- records shared between the per-neighbour trees and the per-FEC lists;
- heap blocks handed between owners.

## 2. Modules

- **`LdeNbr.tla`** holds the state and the helpers.
  - VARIABLES: `ft` (the FEC tree), `nbr` (the `lde_nbr` trees), `fib` (the kernel LSPs installed by `kr_change`), `lbl` (the counter of `lde_assign_label`) and `ext` (`fec_mp2mp_ext` blocks that are allocated and not freed).
  - Every helper is a state transformer `s -> s'` over the record `State`, because the C handlers call one another (`lde_kernel_insert` calls `lde_check_mapping`).
  - The `lde.c` helpers are written from the spec and marked `spec_modelled` in `PROJECT.json`.
- **`LdeLib.tla`** holds one operator per handler of `lde_lib.c`, each translating the whole handler with its early returns. It also has one action per input of the event loop:
  - `KernelInsert` and `KernelRemove` for zebra routes;
  - `RecvMapping`, `RecvRequest`, `RecvRelease`, `RecvReleaseWcard`, `RecvWithdraw` and `RecvWithdrawWcard` for neighbour messages;
  - `GcTimer`.
  
  Each action applies the handler's result through `Apply`. `Apply` also enforces the two bounds.
- **`MCLdeLib.tla`** declares the model values (neighbours `n1 n2 n3`, FECs `f1 f2 p1`, addresses `a1 a2 a3`) and the `Owner` and `PwPeer` maps for the configurations.
- **`LdeLibOld.tla`** models `src/ldpd/lde_lib.c`. `New == INSTANCE LdeLib` supplies the handlers that are the same in both trees (`lde_kernel_remove`, `lde_check_request`, both releases, `lde_gc_timer`, and the LWd / LMp cores). The ones that differ are written from the old file:
  - `lde_kernel_insert` has no FEC.1, and for an IP FEC its neighbour lookup falls through into `lde_nbr_find_by_lsrid(fn->fec.u.pwid.lsr_id)`. Those union bytes are never set for an IP FEC, so the result is a nondeterministic choice `lsr \in Nbr \cup {NoNbr}`;
  - `lde_check_mapping` and `lde_check_withdraw` create an unknown FEC with `fec_add`;
  - `lde_check_withdraw_wcard` keeps only LWd.3/4 (`ForgetEach`).

  `MCLdeLibOld.tla` gives it the same model values.
- **`FecCompare.tla`** models `fec_compare`, the order of every `fec_tree`, over the bytes of `struct fec`. `ntohl` is the big-endian fold of the address bytes, `memcmp` the recursive bytewise comparison, and `FirstDiff` the chain of `if (<) return -1; if (>) return 1;` tests. The reference `RefCompare` is the lexicographic order of a key tuple with addresses read as numbers. The state is a pair of FECs, and every pair is reachable.
- **`Lib.tla`** is the abstract LIB/FIB of the spec (4.3, 8) for IP FECs:
  - per FEC: its route nexthops and local label;
  - per neighbour and FEC: the retained label and the label in use;
  - the kernel table, which every step sets from the other four.

  Its actions are `AddRoute`, `DelRoute`, `Learn` and `Withdraw`. `LdeLib` maps onto it in `LIB == INSTANCE Lib WITH ...`. The label in use for `(n, f)` is read from the nexthops of `f` through `n`, so the mapping is only faithful if all of them agree (multipath).

- **`Mp2mpTree.tla`** composes LDE instances into an MP2MP tree: a root (`rtr_id == ROOT`), a transit switch and leaves (`rtr_id == LEAF`) attached to the switch. Every node, leaves included, runs the code's handlers.
  - Each LSR `x` runs the `LdeLib` handlers on its own state `lde[x]`, through `L(x) == INSTANCE LdeLib WITH ...`.
  - The `LdeNbr` send helpers (`lde_send_labelmapping`, `..._labelwithdraw`, the release answers of LWd.2 and LMp.10a) append `Msg` records to an outbox `out`, when the state has one. The single-node modules have no outbox and are unchanged.
  - `Commit` moves a handler's outbox, in order, onto the FIFO channel `chan[<<x, n>>]` of each session. This models the LDP session over TCP.
  - Actions: `KernelInsert` (zebra's route toward the root, through `ldp_zebra_read_route`, on any node), `Deliver(n, x)` (`lde_dispatch_imsg` into `lde_check_mapping`, `..._withdraw` or `..._release` on `x`), `Join` and `Leave`.
  - A leaf's receiving side is the code: a U-mapping is recorded and stops there (lde_lib.c:626-638, the `LEAF` test), and its withdraws and releases go through the same handlers as on any LSR.
  - Only a leaf's decision to join or leave is outside the sources (`lde_mp2mp_make_leaf_node` is declared in `lde.h` but not defined). It is modelled from the spec: once the leaf has its route, `Join` sends a D-mapping with its local label to its nexthop toward the root (`lde_send_labelmapping`). `Leave` withdraws that D-mapping (`lde_send_labelwithdraw` on each sent D record).
  - Each LSR's route is installed once and never removed, so route flaps are checked only on the single node. The gc timer is left out: once the switch has its route, no node in the tree is ever without both a nexthop and a mapping, so the timer would sweep nothing.

  `MCMp2mpTree.tla` only extends it, and its configurations set the model values.

Abstractions:
- FECs, neighbours and addresses are model values.
- Labels are small integers. `NO_LABEL` is larger than every label, which is all the code ever compares it to.
- `lde_address_find` is the `Owner` map, which gives the neighbour that owns each nexthop address.
- `l2vpn_pw_negotiate` and `l2vpn_pw_ok` are nondeterministic verdicts (`Nego`).
- `sent_req` is never filled by any code path (the code requests nothing: Request Never), so LMp.1 and LMp.2 are dropped.
- Notifications and label releases that we send change no state of this node, so they are left out.
- Each neighbour stands for an arbitrary peer. It may send any message for any FEC, with labels from `PeerLabel`.
- `ReleaseOnlyAcks` limits releases to FECs we withdrew. It is used to keep the larger configurations small.

## 3. Runs

| Run | cfg | Expect | What it shows |
|---|---|---|---|
| unicast | `MCLdeLib_unicast.cfg` | pass | Setup: 2 neighbours, 3 addresses (n1 owns a1 and a2, giving multipath), prefix mappings only, labels 17-18. `FibSync`: the kernel table equals the one the LIB implies. `RemoteBacked`: every remote label in use is a retained mapping of the nexthop's owner. `AdvertisedIsCurrent`: every unwithdrawn advertisement carries the current local label. `RetentionApplied`: a mapping retained before the route is applied when the route appears. `LibRefined`: the handlers implement `Lib`. About 56k states, under 2 minutes. |
| mixed | `MCLdeLib_mixed.cfg` | pass | Prefix, U, D and pwid mappings on one node. The kernel table still follows the LIB (`FibSync`). No LSP gets in-label NO_LABEL (`LspLabelsReal`), and no unwithdrawn mapping we sent lacks a label (`MappingHasLabel`). About 145k states. |
| mp2mp_coherent | `..._mp2mp_coherent.cfg` | violation | `ListsCoherent`. A U-withdraw from n2 unlinks n1's U-mapping with the same label (lde_lib.c:887). It is removed from `fn->downstream` and freed, but stays in n1's `recv_map`. |
| mp2mp_prune | `..._mp2mp_prune.cfg` | violation | `UpstreamWithdrawJustified`. n3's D-withdraw withdraws the D-mapping sent toward the root while n2 still has one. The code's own TODO (line 869) says this should not happen. |
| pw_data | `..._pw_data.cfg` | violation | `PwDataIsPw`. A pwid mapping for an unknown pw creates the node through `fec_mp2mp_add`, so `fn->data` is a `fec_mp2mp_ext` that is later cast to `l2vpn_pw`. |
| gc_leak | `..._gc_leak.cfg` | violation | `ExtAccounted`. `lde_gc_timer` calls `free(fn)` but does not free `fn->data`. |
| mp2mp_shared | `..._mp2mp_shared.cfg` | violation | `RemoteBacked`, with MP2MP types present. n1 maps the routed f1 with label 20, then sends a U-mapping with label 21. The MP2MP branch overwrites the retained record (lde_lib.c:626) and returns before LMp.10, so the nexthop and the kernel LSP stay on 20. |
| old_lib | `MCLdeLibOld_lib.cfg` | pass | The `src/ldpd` handlers, with an IPv4 FEC and a pseudowire, keep the shapes of `lde.h` (`TypeOK`). That variant has no MP2MP branch, so every deletion goes through the owner's tree and `ListsCoherent` holds by construction; the deeper properties fail there for code that is commented out (below). About 24k states. |
| tree_join | `MCMp2mpTree_join.cfg` | pass | Setup: root, switch, leaves `l1 l2`, labels 17-18. `TypeOK`. `LeafViewsAgree`: once the sessions between the switch and a leaf are empty, each side retains exactly the mapping the other records as sent and not withdrawn. This covers the switch's FEC.1 prefix mapping overwritten by its U-mapping under the same key, and the leaf's D-mapping withdrawn (LWd.2-4 on the switch) and released (LRl.3-6 on the leaf). `JoinAnswered` under `FairSpec`: a leaf that joins once the switch has its route, and stays, eventually holds a U-mapping; its mutant, a root that never recognises its own rtr_id and so never answers a D-mapping, breaks it. The D-mapping is forwarded to the root, the root answers, and the switch answers its children. About 83k states, 25 s. |
| tree_forward | `MCMp2mpTree_forward.cfg` | violation | `JoinAnswered`, the tree of `tree_join` with `JoinAfterRoute = FALSE`: leaves may join before the switch has its route. The trace: `l2` joins and its D-mapping reaches the switch while the switch has no nexthop toward the root, so the MP2MP branch of `lde_check_mapping` stores it and forwards nothing (`lde_mp2mp_get_nexthop` finds no neighbour). Then zebra gives the switch its route. `lde_kernel_insert` re-runs `lde_check_mapping` only for the mapping retained from the root (FEC.5, lde_lib.c:547), a prefix mapping, and the D-mapping is never sent upstream. Every message is delivered and every route installed, and `l2` never gets a U-mapping. |
| tree_release | `MCMp2mpTree_release.cfg` | violation | `PeerViewsAgree`: once both sessions between the root and the switch are empty, the root retains exactly the mapping the switch records as sent and not withdrawn. The trace: `l1` joins and leaves, so the switch withdraws its D-mapping (label 17) from the root. `l2` joins before the root's release comes back, and the switch re-sends D with label 17. The late release then matches the new `sent_map` record (LRl.6, lde_lib.c:803) and deletes it. The root keeps the mapping, so when `l2` leaves the switch withdraws nothing, and the branch is never pruned. On the leaf sessions, where nothing is re-sent, the same agreement holds (`LeafViewsAgree` in `tree_join`): the race needs a re-advertisement crossing a release. |
| fec_compare | `FecCompare.cfg` | pass | `CompareMatchesRef`: `fec_compare` equals the reference order for all pairs of FECs. Setup: bytes {0, 1, 255}, 2-byte addresses, two prefix lengths, pw types and pw ids. Since the reference is a strict total order, so is `fec_compare`, and a function keyed by FEC is a faithful model of the trees. |

The old tree also has FEC.1 and the LWd.1 loop of `lde_check_withdraw_wcard` commented out. `MappingHasLabel`, `LspLabelsReal` and `RemoteBacked` (each as the only `INVARIANT`, in place of the `PROPERTY` line) fail on that variant under the constants given below for `old_retention`: a request is answered with NO_LABEL, an LSP is installed with in-label UINT32_MAX, and a wildcard withdraw leaves the label in use. Those lines are commented out in the source itself, so these have no run of their own; the same properties hold and are checked on the quagga copy.

Retired runs. The project keeps 12 runs, so two earlier violation runs were retired to make room for the tree, and the single-node `mp2mp_forward` (a transit node that never forwards a D-mapping received before its route) gave way to `tree_forward`, which shows the same line as a leaf left waiting. Both are reproduced by writing a cfg that declares the model values `n1 .. a3` as the other cfgs do, with `SPECIFICATION Spec` and the property as the only check:
- **old_retention.** Use `MCLdeLibOld` with `NoNbr = NoNbr`, `None = None`, `PwFec = {}`, `PwPeer <- MCPwPeerNone`, `Fec = {f1}`, `Nbr = {n1, n2}`, `Addr = {a1}`, `Owner <- MCOwner`, `PeerLabel = {20}`, `MaxLabel = 17`, `Role = "switch"`, `ReleaseOnlyAcks = TRUE`, and `PROPERTY RetentionApplied`. It is violated. In `src/ldpd` an IPv4 route's nexthop does not take its neighbour's retained label: the missing `break` (src/ldpd/lde_lib.c:456) makes FEC.5 look the neighbour up by union bytes the FEC never set.
- **mp2mp_relabel.** Use `MCLdeLib` with the constants of `MCLdeLib_mixed.cfg`, `MaxExt = 2`, `MaxLabel = 18`, `ReleaseOnlyAcks = FALSE` and `INVARIANT AdvertisedIsCurrent`. It is violated. A U-mapping gives an unrouted FEC a new local label (lde_lib.c:515). The route's arrival then skips FEC.1, and the later withdraw names the new label to prefix neighbours that hold the old one.

Bounds:
- `MaxLabel` caps the label allocator. It allows one or two fresh labels, enough to re-label a FEC after a route flap.
- `MaxExt` caps the leaked `fec_mp2mp_ext` blocks. Without it the leak alone makes the state space infinite.
- Two neighbours are enough for every two-party interaction: the same label from two peers, and a child and a parent. Three are used where a parent and two children are needed.
- `FecCompare`: the byte values 0, 1 and 255 give both orders at every position and the high bit that a signed comparison or a wrong byte order would get wrong. Two bytes per address are enough to tell most- from least-significant. Two values per remaining field make every field decide some comparison.
- `LibRefined` is checked on the unicast configuration. It has one FEC, so the freshness of a bound label (`AddRoute`) is only tested against relabelling of the same FEC.
- Tree: two leaves are the fewest that can make the switch withdraw and re-send its D-mapping, which the release race needs. `MaxLabel = 18` lets each LSR allocate two labels from its own counter. The root binds the egress label 3 (its route is connected), and the switch and the leaves bind 17, so the switch's D-mapping and the leaves' carry the same label, as they would on a real tree.
- Every pass run fires every action. Every mutant listed in `PROJECT.json` is caught under its run's configuration.

Fairness: the single-node runs check safety only (`SPECIFICATION Spec`).

Fairness of the tree: `tree_join` uses weak fairness of delivery (`\E k : Deliver(k[1], k[2])`). An LDP session is a TCP connection, and the LDE reads every message it receives from its event loop, so a message that can be handled is not postponed forever. `FairSpec` states this weak fairness explicitly, with its `ENABLED` replaced by the equivalent `\E k : Deliverable(k)`: a message waits, and handling it stays within the bounds. This avoids having TLC evaluate `ENABLED` through the nested handlers. Routes get weak fairness while an LSR has no nexthop toward the root (`RouteDue(x)`, written out the same way): the IGP converges, and zebra then redistributes the route to the LDE. Without it a leaf could wait forever only because its switch never learns a route. The leaves' joins and leaves get no fairness. `JoinAfterRoute = TRUE` (`tree_join`) makes a leaf join only after the switch has its route; with `JoinAfterRoute = FALSE` (`tree_forward`) `JoinAnswered` fails at lde_lib.c:547.

## 4. Plan for the following work

In order:
1. **Tree pruning and route changes.** Add `KernelRemove` and a second switch to `Mp2mpTree`, and state as a liveness property that a tree whose leaves have all left is eventually pruned. This is blocked as long as the release race above (lde_lib.c:803) and the TODO at line 869 stand, because the property would fail for those reasons first.
2. **Neighbour sessions.** A neighbour that comes up gets `fec_snap` (lde_lib.c 358-372): a mapping for every FEC with a local label. `lde_nbr_new` and `lde_nbr_del` are in `lde.c`, which is not in the sources, and the spec does not describe the teardown.
3. **Larger refinement instance.** `LibRefined` with two FECs, so that label freshness and the wildcard withdraw and release are exercised across FECs. Measured: with two FECs and two neighbours, TLC does not finish within 10 minutes (over 500k distinct states). With one neighbour and one address it finishes at about 9.5k states, but it needs a run of its own, and the project keeps 12.

## 5. Not modelled

- **Zebra I/O.** The encoding of the zebra messages, interface and address events, and the kernel pseudowire calls (`kmpw_set` is a TODO stub).
- **Shutdown.** `fec_tree_clear` and `fec_free` run at shutdown (`fec_free` frees a pw's `l2vpn_pw`; this is listed as a hazard).
- **Unconfigured timer fields.** The MP2MP hold and switch-delay timers are TODOs in `lde.h`.
- **Dumps.** `rt_dump` and the old tree's copies of the dump and snapshot code only send messages.
- **Outside label distribution.** `src/quagga-mp2mp`, the flag stub and the protobuf generator, has nothing to do with label distribution.
