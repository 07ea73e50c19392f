---------------------------- MODULE RoutingTable ----------------------------
(***************************************************************************)
(* routing_table.c: the table of neighbours, filled by the RX thread for   *)
(* every fresh packet and aged by a periodic work item.  Both read the     *)
(* clock BEFORE they take table_mutex, so each works with a time that may  *)
(* be old by the time it has the table.  The work item shares the system   *)
(* work queue with the handlers of contention.c and with the sensor, each  *)
(* of which may block for 200 ms in a publish: a run may come late, or be  *)
(* lost because the one before it is still queued.                         *)
(*                                                                         *)
(* An entry keeps node_id, direct and last_seen; rssi and snr are written  *)
(* together with last_seen and nothing in the table depends on them.       *)
(***************************************************************************)
EXTENDS Integers, FiniteSets

CONSTANTS
    Node,           \* the node ids that are heard
    TableSize,      \* TS_ROUTING_TABLE_SIZE
    StaleAfter,     \* routing_table_stale_timeout_s
    AgeInterval,    \* routing_table_age_interval_s
    Backlog,        \* seconds that a work item waits behind the others, at most
    Word,           \* uptimes are uint32_t: differences wrap modulo 2^32
    MaxClock        \* bound: seconds of uptime

ASSUME SizeAssumption == TableSize \in Nat \ {0}
ASSUME TimeAssumption ==
    /\ StaleAfter \in Nat \ {0} /\ AgeInterval \in Nat \ {0}
    /\ Backlog \in Nat
    /\ MaxClock \in Nat /\ Word \in Nat /\ MaxClock < Word

Slot == 1 .. TableSize
Time == 0 .. MaxClock

VARIABLES
    table,      \* the entries
    clock,      \* k_uptime_seconds()
    rx,         \* the RX thread: where it stands, and what it has read
    queued,     \* is routing_table_age_work queued?  If so, when it was submitted
    wq,         \* the aging handler: where it stands, and the time it has read
    nextAge,    \* when routing_table_age_timer expires next
    phase,      \* "boot" until main() has called ts_routing_table_init
    heard       \* history: when each node was last heard; -1 for never

vars == <<table, clock, rx, queued, wq, nextAge, phase, heard>>

Free == [occupied |-> FALSE, node_id |-> 0, direct |-> FALSE, last_seen |-> 0]
RxIdle == [pc |-> "idle"]
WqIdle == [pc |-> "idle"]

Occupied(s) == table[s].occupied
Known == {table[s].node_id : s \in {u \in Slot : Occupied(u)}}

-----------------------------------------------------------------------------
(* Scheduling: the work queue thread is cooperative and has the highest     *)
(* priority, then RX, then main().  While another handler blocks on it, the *)
(* queued run waits and the other threads go on.                            *)

RxHoldsMutex == rx.pc = "locked"
AgeMayRun == wq.pc = "lock" /\ ~RxHoldsMutex
RxMayRun == ~AgeMayRun
MainMayRun == ~AgeMayRun /\ rx = RxIdle

\* Seconds pass.  An update takes less than a second, an aging run, too, once
\* it has started; it starts when the items queued before it are done.
Tick ==
    /\ clock < MaxClock
    /\ rx.pc # "idle" => rx.now = clock
    /\ wq.pc # "idle" => wq.now = clock
    /\ \A t \in queued : clock < t + Backlog
    /\ phase = "running" => clock < nextAge
    /\ clock' = clock + 1
    /\ UNCHANGED <<table, rx, queued, wq, nextAge, phase, heard>>

-----------------------------------------------------------------------------
(* Finding a slot                                                           *)

find_by_node_id(n) == {s \in Slot : Occupied(s) /\ table[s].node_id = n}

\* s is the slot among S that the loops, from the first slot up, come to first.
IsFirst(s, S) == s \in S /\ \A u \in S : s <= u

find_free_slot == {s \in Slot : ~Occupied(s)}

\* Fault: the newest entry makes room.
find_oldest_Newest ==
    {s \in Slot : Occupied(s) /\ \A u \in Slot : Occupied(u) =>
                                    table[u].last_seen <= table[s].last_seen}

find_oldest ==
    {s \in Slot : Occupied(s) /\ \A u \in Slot : Occupied(u) =>
                                    table[s].last_seen <= table[u].last_seen}

-----------------------------------------------------------------------------
(* main()                                                                   *)

Init ==
    /\ table = [s \in Slot |-> Free]
    /\ clock = 0
    /\ rx = RxIdle
    /\ queued = {}
    /\ wq = WqIdle
    /\ nextAge = 0
    /\ phase = "boot"
    /\ heard = [n \in Node |-> -1]

\* ts_routing_table_init, after which main() starts the aging timer.
ts_routing_table_init ==
    /\ phase = "boot"
    /\ MainMayRun
    /\ table' = [s \in Slot |-> Free]
    /\ nextAge' = clock + AgeInterval
    /\ phase' = "running"
    /\ heard' = [n \in Node |-> -1]
    /\ UNCHANGED <<clock, rx, queued, wq>>

-----------------------------------------------------------------------------
(* ts_routing_table_update, on the RX thread                                *)

\* It reads the clock and compares the packet's ttl with its own ...
UpdateReads(n, is_direct) ==
    /\ rx = RxIdle
    /\ RxMayRun
    /\ rx' = [pc |-> "read", node |-> n, direct |-> is_direct, now |-> clock]
    /\ UNCHANGED <<table, clock, queued, wq, nextAge, phase, heard>>

UpdateLocks ==
    /\ rx.pc = "read"
    /\ RxMayRun
    /\ rx' = [rx EXCEPT !.pc = "locked"]
    /\ UNCHANGED <<table, clock, queued, wq, nextAge, phase, heard>>

UpdateKnown ==
    /\ rx.pc = "locked"
    /\ RxMayRun
    /\ \E s \in Slot :
        /\ IsFirst(s, find_by_node_id(rx.node))
        /\ table' = [table EXCEPT ![s].last_seen = rx.now,
                                  ![s].direct = @ \/ rx.direct]
    /\ heard' = [heard EXCEPT ![rx.node] = rx.now]
    /\ rx' = RxIdle
    /\ UNCHANGED <<clock, queued, wq, nextAge, phase>>

\* Fault: a known node is given another slot.
UpdateNew_NoLookup ==
    /\ rx.pc = "locked"
    /\ RxMayRun
    /\ \E s \in Slot :
        /\ IsFirst(s, IF find_free_slot # {} THEN find_free_slot ELSE find_oldest)
        /\ table' = [table EXCEPT ![s] = [occupied |-> TRUE, node_id |-> rx.node,
                                          direct |-> rx.direct, last_seen |-> rx.now]]
    /\ heard' = [heard EXCEPT ![rx.node] = rx.now]
    /\ rx' = RxIdle
    /\ UNCHANGED <<clock, queued, wq, nextAge, phase>>

\* A new node takes a free slot or, in a full table, the oldest entry's.
UpdateNew ==
    /\ rx.pc = "locked"
    /\ RxMayRun
    /\ find_by_node_id(rx.node) = {}
    /\ \E s \in Slot :
        /\ IsFirst(s, IF find_free_slot # {} THEN find_free_slot ELSE find_oldest)
        /\ table' = [table EXCEPT ![s] = [occupied |-> TRUE, node_id |-> rx.node,
                                          direct |-> rx.direct, last_seen |-> rx.now]]
    /\ heard' = [heard EXCEPT ![rx.node] = rx.now]
    /\ rx' = RxIdle
    /\ UNCHANGED <<clock, queued, wq, nextAge, phase>>

-----------------------------------------------------------------------------
(* Aging                                                                    *)

\* routing_table_age_timer_handler, in the timer interrupt.  Submitting an item
\* that is still queued does nothing; one that is running is queued again.
AgeTimer ==
    /\ phase = "running"
    /\ clock = nextAge
    /\ queued' = IF queued = {} THEN {clock} ELSE queued
    /\ nextAge' = clock + AgeInterval
    /\ UNCHANGED <<table, clock, rx, wq, phase, heard>>

\* Fault: the handler reads milliseconds.
AgeReads_Millis ==
    /\ wq = WqIdle
    /\ queued # {}
    /\ queued' = {}
    /\ wq' = [pc |-> "lock", now |-> clock * 1000]
    /\ UNCHANGED <<table, clock, rx, nextAge, phase, heard>>

\* The item's turn has come: ts_routing_table_age_seconds reads the clock ...
AgeReads ==
    /\ wq = WqIdle
    /\ queued # {}
    /\ queued' = {}
    /\ wq' = [pc |-> "lock", now |-> clock]
    /\ UNCHANGED <<table, clock, rx, nextAge, phase, heard>>

\* Faults: entries go a second early; or only when the whole table is stale.
Stale_Early(s) == Occupied(s) /\ (wq.now - table[s].last_seen) % Word >= StaleAfter - 1
Stale_Together(s) ==
    \A u \in Slot : Occupied(u) =>
        (wq.now - table[u].last_seen) % Word >= StaleAfter

Stale(s) == Occupied(s) /\ (wq.now - table[s].last_seen) % Word >= StaleAfter

\* ... and removes the stale entries under the mutex.
AgeRemoves ==
    /\ wq.pc = "lock"
    /\ ~RxHoldsMutex
    /\ table' = [s \in Slot |-> IF Stale(s) THEN [table[s] EXCEPT !.occupied = FALSE]
                                            ELSE table[s]]
    /\ wq' = WqIdle
    /\ UNCHANGED <<clock, rx, queued, nextAge, phase, heard>>

Next ==
    \/ Tick
    \/ ts_routing_table_init
    \/ \E n \in Node, is_direct \in BOOLEAN : UpdateReads(n, is_direct)
    \/ UpdateLocks \/ UpdateKnown \/ UpdateNew
    \/ AgeTimer \/ AgeReads \/ AgeRemoves

Spec == Init /\ [][Next]_vars

-----------------------------------------------------------------------------
(***************************************************************************)
(* Properties                                                              *)
(***************************************************************************)

\* The entries, the clock and both threads of the neighbour table keep their types.
TypeOK ==
    /\ table \in [Slot -> [occupied : BOOLEAN, node_id : Node \union {0},
                           direct : BOOLEAN, last_seen : Time]]
    /\ clock \in Time
    /\ rx \in {RxIdle} \union [pc : {"read", "locked"}, node : Node,
                               direct : BOOLEAN, now : Time]
    /\ queued = {} \/ \E t \in Time : queued = {t}
    /\ wq \in {WqIdle} \union [pc : {"lock"}, now : Time]
    /\ nextAge \in 0 .. MaxClock + AgeInterval
    /\ phase \in {"boot", "running"}
    /\ heard \in [Node -> {-1} \union Time]

\* A node has at most one entry, and it carries the time the node was heard
\* last: aging and eviction never leave a second, older entry behind.
OneCurrentEntryPerNode ==
    \A s \in Slot : Occupied(s) =>
        /\ table[s].last_seen = heard[table[s].node_id]
        /\ \A u \in Slot : Occupied(u) /\ table[u].node_id = table[s].node_id => u = s

\* Aging never removes a node that was heard less than StaleAfter seconds
\* ago, although it compares with a time read before it had the mutex and
\* the difference is unsigned.
AgingKeepsFresh ==
    [][AgeRemoves => \A n \in Known \ Known' : clock - heard[n] >= StaleAfter]_vars

\* A node makes room for another only when the table is full and no known
\* node has been silent for longer.
EvictsLongestSilent ==
    [][UpdateNew =>
        \A m \in Known \ Known' :
            /\ Cardinality(Known) = TableSize
            /\ \A o \in Known : heard[m] <= heard[o]]_vars

\* A silent node stays in the table for at most StaleAfter plus one aging
\* interval plus the time a run waits in the shared work queue, although runs
\* are lost while an earlier one is queued: the run that finds the node one
\* second too young is followed by one that removes it.  With a timeout of one
\* second it may stay a second longer, because an update that read the clock
\* before an aging run can write after it.
Grace == IF StaleAfter = 1 THEN 2 ELSE StaleAfter
SilentNodesLeave ==
    phase = "running" =>
        \A s \in Slot : Occupied(s) =>
            clock - table[s].last_seen <= Grace + AgeInterval + Backlog
=============================================================================
