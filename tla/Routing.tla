------------------------------ MODULE Routing -------------------------------
(***************************************************************************)
(* routing.c: the ring buffer of recently seen (src, msg_id) pairs, its    *)
(* initialisation by main(), and the gate of lora_in_task that consults    *)
(* it.  A header is the pair <<src, msg_id>>; dst, ttl and key_id play no  *)
(* part in duplicate detection.                                            *)
(*                                                                         *)
(* The RX thread (priority 3) starts before main() (priority 5) and        *)
(* preempts it, so a packet may be handled between two assignments of      *)
(* ts_routing_init; EarlyRx says whether the environment sends one before  *)
(* the initialisation is over.  The RX thread is never preempted by main,  *)
(* so one packet's passage through the gate is a single step.              *)
(***************************************************************************)
EXTENDS Naturals, Sequences

CONSTANTS
    Node,       \* node ids, 0 included: config.c allows it and memset leaves it
    MsgId,      \* message ids, 0 included: the counter starts there
    Self,       \* the node id that main() passes to ts_routing_init
    CacheSize,  \* TS_ROUTING_SEEN_CACHE_SIZE
    CountMod,   \* seen_count is a uint32_t: it counts modulo 2^32
    MaxMarks,   \* bound: headers accepted between two restarts
    EarlyRx     \* do packets arrive before ts_routing_init has returned?

ASSUME NodeAssumption == Node \subseteq Nat /\ 0 \in Node /\ Self \in Node
ASSUME MsgIdAssumption == MsgId \subseteq Nat /\ 0 \in MsgId
ASSUME SizeAssumption == CacheSize \in Nat \ {0} /\ CountMod \in Nat \ {0}
ASSUME BoundAssumption == MaxMarks \in Nat
ASSUME EarlyRxAssumption == EarlyRx \in BOOLEAN

Header == Node \X MsgId
Slot == 0 .. CacheSize - 1

VARIABLES
    self_node_id,
    seen_cache,
    seen_write_idx,
    seen_count,
    phase,      \* where main() stands in ts_routing_init
    verdict,    \* the gate's last decision on a packet from another node
    marked      \* history: the headers marked since the restart, in order

vars == <<self_node_id, seen_cache, seen_write_idx, seen_count, phase,
          verdict, marked>>
ring == <<seen_cache, seen_write_idx, seen_count>>

Zeroed == [i \in Slot |-> <<0, 0>>]
NoVerdict == [hdr |-> <<>>, fresh |-> FALSE]

-----------------------------------------------------------------------------
\* Faults: the scan stops one slot short of a full cache; it always covers
\* the whole cache, zeroed slots included.
Entries_StopsShort == IF seen_count < CacheSize THEN seen_count ELSE CacheSize - 1
Entries_WholeCache == CacheSize

\* How many slots ts_routing_is_duplicate scans.
Entries == IF seen_count < CacheSize THEN seen_count ELSE CacheSize

\* Fault: only the message id is compared.
ts_routing_is_duplicate_IdOnly(h) ==
    \E i \in Slot : i < Entries /\ seen_cache[i][2] = h[2]

ts_routing_is_duplicate(h) == \E i \in Slot : i < Entries /\ seen_cache[i] = h

\* Fault: the write index runs past the end before it wraps.
ts_routing_mark_seen_LateWrap(h) ==
    /\ seen_cache' = [seen_cache EXCEPT ![seen_write_idx] = h]
    /\ seen_write_idx' = (seen_write_idx + 1) % (CacheSize + 1)
    /\ seen_count' = (seen_count + 1) % CountMod
    /\ marked' = Append(marked, h)

ts_routing_mark_seen(h) ==
    /\ seen_cache' = [seen_cache EXCEPT ![seen_write_idx] = h]
    /\ seen_write_idx' = (seen_write_idx + 1) % CacheSize
    /\ seen_count' = (seen_count + 1) % CountMod
    /\ marked' = Append(marked, h)

-----------------------------------------------------------------------------
\* Static storage after a reset.
Init ==
    /\ self_node_id = 0
    /\ seen_cache = Zeroed
    /\ seen_write_idx = 0
    /\ seen_count = 0
    /\ phase = "boot"
    /\ verdict = NoVerdict
    /\ marked = <<>>

\* ts_routing_init, one action per group of assignments.  The history keeps
\* its headers until the last step: only the memset forgets them.
InitNodeId ==
    /\ phase = "boot"
    /\ self_node_id' = Self
    /\ phase' = "node_id"
    /\ UNCHANGED <<ring, verdict, marked>>

InitWriteIdx ==
    /\ phase = "node_id"
    /\ seen_write_idx' = 0
    /\ phase' = "write_idx"
    /\ UNCHANGED <<self_node_id, seen_cache, seen_count, verdict, marked>>

InitCount ==
    /\ phase = "write_idx"
    /\ seen_count' = 0
    /\ phase' = "count"
    /\ UNCHANGED <<self_node_id, seen_cache, seen_write_idx, verdict, marked>>

InitCache ==
    /\ phase = "count"
    /\ seen_cache' = Zeroed
    /\ phase' = "running"
    /\ verdict' = NoVerdict
    /\ marked' = <<>>
    /\ UNCHANGED <<self_node_id, seen_write_idx, seen_count>>

\* The gate of lora_in_task for an authentic, decoded packet with header h.
RxEnabled == phase = "running" \/ EarlyRx

DropOwn(h) ==
    /\ RxEnabled
    /\ h[1] = self_node_id
    /\ UNCHANGED vars

DropDuplicate(h) ==
    /\ RxEnabled
    /\ h[1] # self_node_id
    /\ ts_routing_is_duplicate(h)
    /\ verdict' = [hdr |-> h, fresh |-> FALSE]
    /\ UNCHANGED <<self_node_id, ring, phase, marked>>

AcceptFresh(h) ==
    /\ RxEnabled
    /\ Len(marked) < MaxMarks
    /\ h[1] # self_node_id
    /\ ~ts_routing_is_duplicate(h)
    /\ ts_routing_mark_seen(h)
    /\ verdict' = [hdr |-> h, fresh |-> TRUE]
    /\ UNCHANGED <<self_node_id, phase>>

\* A reset loses all of RAM.
Restart ==
    /\ self_node_id' = 0
    /\ seen_cache' = Zeroed
    /\ seen_write_idx' = 0
    /\ seen_count' = 0
    /\ phase' = "boot"
    /\ verdict' = NoVerdict
    /\ marked' = <<>>

Rx(h) == DropOwn(h) \/ DropDuplicate(h) \/ AcceptFresh(h)

Next ==
    \/ InitNodeId \/ InitWriteIdx \/ InitCount \/ InitCache
    \/ \E h \in Header : Rx(h)
    \/ Restart

Spec == Init /\ [][Next]_vars

-----------------------------------------------------------------------------
(***************************************************************************)
(* Properties                                                              *)
(***************************************************************************)

\* Every static variable of routing.c stays within its C type and range.
TypeOK ==
    /\ self_node_id \in Node
    /\ seen_cache \in [Slot -> Header]
    /\ seen_write_idx \in Slot
    /\ seen_count \in 0 .. CountMod - 1
    /\ phase \in {"boot", "node_id", "write_idx", "count", "running"}
    /\ verdict \in {NoVerdict} \union [hdr : Header, fresh : BOOLEAN]
    /\ marked \in Seq(Header)

\* A header is accepted again only after at least CacheSize other headers
\* were accepted in between: the flood never re-enters a node within the
\* window (ts_routing_is_duplicate before ts_routing_mark_seen).
NoRepeatWithinWindow ==
    \A i, j \in DOMAIN marked :
        i < j /\ marked[i] = marked[j] => j - i > CacheSize

\* A packet refused as a duplicate really was accepted before, and recently:
\* the zeroed slots of a cache that is not full yet never pass for
\* message 0 of node 0.
RefusedWasAccepted ==
    verdict.hdr # <<>> /\ ~verdict.fresh =>
        \E i \in DOMAIN marked :
            i + CacheSize > Len(marked) /\ marked[i] = verdict.hdr

\* routing.h says of ts_routing_is_duplicate: "true if the (src, msg_id) pair
\* is in the seen cache".  In an initialised node the header accepted last is
\* in the cache, so hearing it again must be a duplicate.
JustMarkedIsDuplicate ==
    phase = "running" /\ verdict.hdr # <<>> /\ verdict.fresh => ts_routing_is_duplicate(verdict.hdr)

-----------------------------------------------------------------------------
(***************************************************************************)
(* The ring read from its oldest entry to its newest implements the        *)
(* abstract window.                                                        *)
(***************************************************************************)
Oldest == IF seen_count < CacheSize THEN 0 ELSE seen_write_idx

RingAt(k) == seen_cache[IF k < CacheSize THEN k ELSE k - CacheSize]

Window == [i \in 1 .. Entries |-> RingAt(Oldest + i - 1)]

Abstract == INSTANCE SeenWindow WITH W <- CacheSize, window <- Window

\* Oldest to newest, the ring is the tail of the headers accepted since the
\* restart, and the write index and the counter agree on where it ends: what
\* ts_routing_mark_seen and ts_routing_is_duplicate silently rely on.
RingIsTailOfMarked ==
    /\ phase # "running" => marked = <<>> /\ seen_write_idx = 0
    /\ seen_count = Len(marked)
    /\ seen_count < CacheSize => seen_write_idx = seen_count
    /\ \A i \in 1 .. Entries : Window[i] = marked[Len(marked) - Entries + i]

\* The ring buffer refuses and accepts exactly what the window of the last
\* CacheSize accepted headers would, across restarts.
ImplementsSeenWindow == Abstract!Spec
=============================================================================
