------------------------- MODULE RoutingTableProofs -------------------------
(***************************************************************************)
(* Proofs about RoutingTable, for every table size, set of nodes, timeout, *)
(* aging interval and backlog of the work queue, as long as the uptime     *)
(* does not wrap.                                                          *)
(***************************************************************************)
EXTENDS RoutingTable, FiniteSetTheorems, TLAPS

\* An occupied slot belongs to a node that was heard, not in the future.
EntriesAreHeard ==
    \A s \in Slot : Occupied(s) => table[s].node_id \in Node /\ table[s].last_seen <= clock

\* What RX works with is at most a second old, and never younger than what an
\* aging run that waits for the mutex works with: the unsigned difference
\* cannot wrap.  A queued run is not overdue, and a timer that has expired since
\* the run under way read the clock has queued the next.
TimesAreCurrent ==
    /\ rx # RxIdle => rx.now <= clock /\ clock <= rx.now + 1
    /\ \A t \in queued : phase = "running" /\ t <= clock /\ clock <= t + Backlog
    /\ wq # WqIdle =>
           /\ phase = "running"
           /\ wq.now <= clock /\ clock <= wq.now + 1
           /\ queued = {} => nextAge <= wq.now + AgeInterval
           /\ rx # RxIdle => rx.now <= wq.now
           /\ \A s \in Slot : Occupied(s) => table[s].last_seen <= wq.now

\* Some run comes in time for the entry of slot s: the one of the timer's next
\* expiry, the one that is queued, or the one that has read the clock.
WillAge(s) ==
    \/ nextAge - table[s].last_seen <= Grace + AgeInterval - 1
    \/ \E t \in queued : t - table[s].last_seen <= Grace + AgeInterval - 1
    \/ /\ wq # WqIdle
       /\ wq.now - table[s].last_seen <= Grace + AgeInterval - 1 + Backlog

\* The timer's schedule, and a run in time for every entry.
Schedule ==
    phase = "running" =>
        /\ clock <= nextAge /\ nextAge <= clock + AgeInterval
        /\ \A s \in Slot : Occupied(s) => WillAge(s)

\* The inductive invariant.
Inv ==
    /\ TypeOK
    /\ EntriesAreHeard
    /\ OneCurrentEntryPerNode
    /\ TimesAreCurrent
    /\ Schedule

-----------------------------------------------------------------------------
\* The two threads' records, read off their types.
LEMMA RxShape ==
    ASSUME TypeOK
    PROVE  /\ rx # RxIdle <=> rx.pc \in {"read", "locked"}
           /\ rx = RxIdle <=> rx.pc = "idle"
           /\ rx # RxIdle => /\ rx \in [pc : {"read", "locked"}, node : Node,
                                        direct : BOOLEAN, now : Time]
                             /\ rx.node \in Node /\ rx.now \in Time /\ rx.direct \in BOOLEAN
  BY DEF TypeOK, RxIdle

\* The same for the aging handler, which has read the clock once it waits for the
\* mutex.
LEMMA WqShape ==
    ASSUME TypeOK
    PROVE  /\ wq = WqIdle <=> wq.pc = "idle"
           /\ wq # WqIdle <=> wq.pc = "lock"
           /\ wq # WqIdle => wq.now \in Time
           /\ \A t \in queued : t \in Time
  BY DEF TypeOK, WqIdle

\* Below the word size, the unsigned difference is the difference.
LEMMA NoWrap ==
    ASSUME NEW a \in Time, NEW b \in Time, b <= a
    PROVE  (a - b) % Word = a - b
  <1>1. a - b \in 0 .. Word - 1 /\ Word \in Nat \ {0}
    BY TimeAssumption DEF Time
  <1> QED
    BY <1>1

\* Times and intervals are numbers.
LEMMA Numbers ==
    ASSUME TypeOK
    PROVE  /\ clock \in Nat /\ clock <= MaxClock /\ nextAge \in Nat
           /\ Grace \in Nat /\ Grace >= 2 /\ Grace >= StaleAfter
           /\ Backlog \in Nat
           /\ AgeInterval \in Nat /\ AgeInterval >= 1 /\ StaleAfter \in Nat /\ StaleAfter >= 1
           /\ \A s \in Slot : table[s].last_seen \in Nat /\ table[s].last_seen <= MaxClock
           /\ \A s \in Slot : table[s].last_seen \in Time
  BY TimeAssumption DEF TypeOK, Time, Grace

-----------------------------------------------------------------------------
\* Writing one slot with what RX has read, on behalf of a node that has no other
\* entry, keeps the invariant: both outcomes of ts_routing_table_update.
LEMMA WriteKeepsInv ==
    ASSUME Inv, rx.pc = "locked", NEW s \in Slot, NEW d \in BOOLEAN,
           \A u \in Slot : Occupied(u) /\ table[u].node_id = rx.node => u = s,
           table' = [table EXCEPT ![s] = [occupied |-> TRUE, node_id |-> rx.node,
                                          direct |-> d, last_seen |-> rx.now]],
           heard' = [heard EXCEPT ![rx.node] = rx.now],
           rx' = RxIdle,
           UNCHANGED <<clock, queued, wq, nextAge, phase>>
    PROVE  Inv'
  <1>0. TypeOK
    BY DEF Inv
  <1>1. rx # RxIdle /\ rx.node \in Node /\ rx.now \in Time
    BY <1>0, RxShape
  <1>2. rx.now <= clock /\ clock <= rx.now + 1
    BY <1>1 DEF Inv, TimesAreCurrent
  <1>3. /\ table' \in [Slot -> [occupied : BOOLEAN, node_id : Node \union {0},
                                direct : BOOLEAN, last_seen : Time]]
        /\ heard' \in [Node -> {-1} \union Time]
    BY <1>1 DEF Inv, TypeOK
  <1>4. /\ table'[s].occupied /\ table'[s].node_id = rx.node /\ table'[s].last_seen = rx.now
        /\ \A u \in Slot : u # s => table'[u] = table[u]
        /\ heard'[rx.node] = rx.now
        /\ \A n \in Node : n # rx.node => heard'[n] = heard[n]
    BY <1>1 DEF Inv, TypeOK
  <1>5. TypeOK'
    BY <1>3 DEF Inv, TypeOK
  <1>6. EntriesAreHeard'
    BY <1>1, <1>2, <1>4 DEF Inv, EntriesAreHeard, Occupied
  <1>7. OneCurrentEntryPerNode'
    <2> SUFFICES ASSUME NEW u \in Slot, table'[u].occupied
                 PROVE  /\ table'[u].last_seen = heard'[table'[u].node_id]
                        /\ \A v \in Slot : table'[v].occupied
                               /\ table'[v].node_id = table'[u].node_id => v = u
      BY DEF OneCurrentEntryPerNode, Occupied
    <2>1. CASE u = s
      BY <1>4, <2>1 DEF Inv, EntriesAreHeard, OneCurrentEntryPerNode, Occupied
    <2>2. CASE u # s
      BY <1>4, <2>2 DEF Inv, EntriesAreHeard, OneCurrentEntryPerNode, Occupied
    <2> QED
      BY <2>1, <2>2
  <1>8. TimesAreCurrent'
    BY <1>1, <1>4 DEF Inv, TimesAreCurrent, Occupied
  <1>9. Schedule'
    <2> SUFFICES ASSUME phase = "running", NEW u \in Slot, table'[u].occupied
                 PROVE  WillAge(u)'
      BY DEF Inv, Schedule, Occupied
    <2>1. CASE u # s
      BY <1>4, <2>1 DEF Inv, Schedule, Occupied, WillAge
    <2>2. CASE u = s
      <3>1. nextAge <= clock + AgeInterval
        BY DEF Inv, Schedule
      <3>2. nextAge' - table'[u].last_seen <= Grace + AgeInterval - 1
        BY <1>0, <1>1, <1>2, <1>4, <2>2, <3>1, Numbers DEF Time
      <3> QED
        BY <3>2 DEF WillAge, Grace
    <2> QED
      BY <2>1, <2>2
  <1> QED
    BY <1>5, <1>6, <1>7, <1>8, <1>9 DEF Inv

\* A known node's entry is refreshed.
LEMMA UpdateKnownKeepsInv == ASSUME Inv, UpdateKnown PROVE Inv'
  <1>1. PICK s \in Slot :
           /\ IsFirst(s, find_by_node_id(rx.node))
           /\ table' = [table EXCEPT ![s].last_seen = rx.now,
                                     ![s].direct = @ \/ rx.direct]
    BY DEF UpdateKnown
  <1>2. Occupied(s) /\ table[s].node_id = rx.node
    BY <1>1 DEF IsFirst, find_by_node_id
  <1>3. \A u \in Slot : Occupied(u) /\ table[u].node_id = rx.node => u = s
    BY <1>2 DEF Inv, OneCurrentEntryPerNode
  <1> DEFINE d == table[s].direct \/ rx.direct
  <1>4. table' = [table EXCEPT ![s] = [occupied |-> TRUE, node_id |-> rx.node,
                                       direct |-> d, last_seen |-> rx.now]]
    <2> DEFINE new == [occupied |-> TRUE, node_id |-> rx.node,
                       direct |-> d, last_seen |-> rx.now]
    <2>1. table[s] \in [occupied : BOOLEAN, node_id : Node \union {0},
                        direct : BOOLEAN, last_seen : Time]
      BY DEF Inv, TypeOK
    <2>2. table'[s] = new
      BY <1>1, <1>2, <2>1 DEF Inv, TypeOK, Occupied
    <2>3. /\ \A u \in Slot : u # s => table'[u] = table[u]
          /\ table' = [u \in Slot |-> table'[u]] /\ table = [u \in Slot |-> table[u]]
      BY <1>1 DEF Inv, TypeOK
    <2> HIDE DEF new
    <2>4. table' = [table EXCEPT ![s] = new]
      BY <2>2, <2>3
    <2> QED
      BY <2>4 DEF new
  <1>5. d \in BOOLEAN
    OBVIOUS
  <1> QED
    BY <1>3, <1>4, <1>5, WriteKeepsInv DEF UpdateKnown

\* A new node takes a slot of its own.
LEMMA UpdateNewKeepsInv == ASSUME Inv, UpdateNew PROVE Inv'
  <1>1. PICK s \in Slot :
           table' = [table EXCEPT ![s] = [occupied |-> TRUE, node_id |-> rx.node,
                                          direct |-> rx.direct, last_seen |-> rx.now]]
    BY DEF UpdateNew
  <1>2. \A u \in Slot : ~(Occupied(u) /\ table[u].node_id = rx.node)
    BY DEF UpdateNew, find_by_node_id
  <1>3. rx.direct \in BOOLEAN
    BY RxShape DEF Inv, UpdateNew
  <1> QED
    BY <1>1, <1>2, <1>3, WriteKeepsInv DEF UpdateNew

\* An entry goes exactly if it was last written StaleAfter seconds before the
\* time that the aging run has read.
LEMMA StaleIsOld ==
    ASSUME Inv, wq.pc = "lock", NEW s \in Slot, Occupied(s)
    PROVE  Stale(s) <=> wq.now - table[s].last_seen >= StaleAfter
  <1>1. wq # WqIdle /\ wq.now \in Time /\ table[s].last_seen \in Time
    BY WqShape, Numbers DEF Inv
  <1>2. table[s].last_seen <= wq.now
    BY <1>1 DEF Inv, TimesAreCurrent
  <1> QED
    BY <1>1, <1>2, NoWrap DEF Stale

\* What an aging run leaves is young enough to wait for the next expiry.
LEMMA AgeRemovesKeepsInv == ASSUME Inv, AgeRemoves PROVE Inv'
  <1>0. TypeOK /\ wq.pc = "lock" /\ wq # WqIdle /\ wq' = WqIdle
        /\ UNCHANGED <<clock, rx, queued, nextAge, phase, heard>>
    BY WqShape DEF Inv, AgeRemoves
  <1>1. \A s \in Slot : table'[s] = IF Stale(s) THEN [table[s] EXCEPT !.occupied = FALSE]
                                                ELSE table[s]
    BY DEF AgeRemoves
  <1>2. \A s \in Slot : /\ table'[s].node_id = table[s].node_id
                        /\ table'[s].last_seen = table[s].last_seen
                        /\ table'[s].occupied <=> Occupied(s) /\ ~Stale(s)
    BY <1>1 DEF Inv, TypeOK, Occupied, Stale
  <1>3. TypeOK'
    <2>1. table' \in [Slot -> [occupied : BOOLEAN, node_id : Node \union {0},
                               direct : BOOLEAN, last_seen : Time]]
      BY <1>0 DEF TypeOK, AgeRemoves
    <2> QED
      BY <1>0, <2>1 DEF TypeOK
  <1>4. EntriesAreHeard' /\ OneCurrentEntryPerNode'
    BY <1>0, <1>2 DEF Inv, EntriesAreHeard, OneCurrentEntryPerNode, Occupied
  <1>5. TimesAreCurrent'
    BY <1>0 DEF Inv, TimesAreCurrent, WqIdle
  <1>6. Schedule'
    <2> SUFFICES ASSUME NEW s \in Slot, Occupied(s), ~Stale(s)
                 PROVE  \/ nextAge - table[s].last_seen <= Grace + AgeInterval - 1
                        \/ \E t \in queued :
                              t - table[s].last_seen <= Grace + AgeInterval - 1
      BY <1>0, <1>2 DEF Inv, Schedule, Occupied, WillAge, Grace
    <2>0. wq.now \in Nat /\ table[s].last_seen \in Nat /\ StaleAfter \in Nat
      BY <1>0, WqShape, Numbers DEF Time
    <2>1. wq.now - table[s].last_seen < StaleAfter
      BY <1>0, <2>0, StaleIsOld
    <2>2. CASE queued = {}
      <3>1. nextAge <= wq.now + AgeInterval
        BY <1>0, <2>2 DEF Inv, TimesAreCurrent
      <3> QED
        BY <1>0, <2>0, <2>1, <3>1, Numbers
    <2>3. CASE queued # {}
      <3>1. PICK t \in queued : t \in Nat /\ t <= clock /\ clock <= wq.now + 1
        BY <1>0, <2>3, WqShape DEF Inv, TimesAreCurrent, Time
      <3>2. t - table[s].last_seen <= Grace + AgeInterval - 1
        BY <1>0, <2>0, <2>1, <3>1, Numbers
      <3> QED
        BY <3>2
    <2> QED
      BY <2>2, <2>3
  <1> QED
    BY <1>3, <1>4, <1>5, <1>6 DEF Inv

-----------------------------------------------------------------------------
\* The zeroed table of the boot satisfies it.
LEMMA InvInit == Init => Inv
  <1> SUFFICES ASSUME Init PROVE Inv
    OBVIOUS
  <1> USE TimeAssumption DEF Init
  <1>1. TypeOK
    BY DEF TypeOK, Free, Time
  <1>2. \A s \in Slot : ~Occupied(s)
    BY DEF Occupied, Free
  <1>3. EntriesAreHeard /\ OneCurrentEntryPerNode
    BY <1>2 DEF EntriesAreHeard, OneCurrentEntryPerNode
  <1>4. TimesAreCurrent /\ Schedule
    BY DEF TimesAreCurrent, Schedule
  <1> QED
    BY <1>1, <1>3, <1>4 DEF Inv

\* Every step of RX, of the aging handler, of main() and of the clock keeps the
\* invariant.
LEMMA InvNext == Inv /\ [Next]_vars => Inv'
  <1> SUFFICES ASSUME Inv, [Next]_vars PROVE Inv'
    OBVIOUS
  <1>0. TypeOK
    BY DEF Inv
  <1>1. CASE Tick
    <2>0. /\ clock' = clock + 1 /\ clock < MaxClock
          /\ UNCHANGED <<table, rx, queued, wq, nextAge, phase, heard>>
      BY <1>1 DEF Tick
    <2>1. /\ rx # RxIdle => rx.now = clock
          /\ wq # WqIdle => wq.now = clock
          /\ \A t \in queued : clock < t + Backlog
          /\ phase = "running" => clock < nextAge
      BY <1>0, <1>1, RxShape, WqShape DEF Tick
    <2>2. TypeOK'
      BY <2>0, TimeAssumption DEF Inv, TypeOK, Time
    <2>3. EntriesAreHeard'
      BY <1>0, <2>0, Numbers DEF Inv, EntriesAreHeard, Occupied
    <2>4. OneCurrentEntryPerNode'
      BY <2>0 DEF Inv, OneCurrentEntryPerNode, Occupied
    <2>5. TimesAreCurrent'
      <3>1. \A t \in queued : t <= clock' /\ clock' <= t + Backlog
        <4> SUFFICES ASSUME NEW t \in queued PROVE t <= clock' /\ clock' <= t + Backlog
          OBVIOUS
        <4>1. t \in Nat /\ t <= clock
          BY <1>0, WqShape DEF Inv, TimesAreCurrent, Time
        <4> QED
          BY <1>0, <2>0, <2>1, <4>1, Numbers
      <3> QED
        BY <1>0, <2>0, <2>1, <3>1, Numbers, WqShape DEF Inv, TimesAreCurrent, Occupied, Time
    <2>6. Schedule'
      BY <1>0, <2>0, <2>1, Numbers DEF Inv, Schedule, Occupied, WillAge, Grace
    <2> QED
      BY <2>2, <2>3, <2>4, <2>5, <2>6 DEF Inv
  <1>2. CASE ts_routing_table_init
    <2>0. /\ phase = "boot" /\ rx = RxIdle
          /\ table' = [s \in Slot |-> Free] /\ nextAge' = clock + AgeInterval
          /\ phase' = "running" /\ heard' = [n \in Node |-> -1]
          /\ UNCHANGED <<clock, rx, queued, wq>>
      BY <1>2 DEF ts_routing_table_init, MainMayRun
    <2>1. wq = WqIdle /\ queued = {}
      BY <2>0 DEF Inv, TimesAreCurrent
    <2>2. TypeOK'
      BY <1>0, <2>0, TimeAssumption DEF TypeOK, Free, Time
    <2>3. \A s \in Slot : ~table'[s].occupied
      BY <2>0 DEF Free
    <2>4. EntriesAreHeard' /\ OneCurrentEntryPerNode'
      BY <2>3 DEF EntriesAreHeard, OneCurrentEntryPerNode, Occupied
    <2>5. TimesAreCurrent'
      BY <2>0, <2>1 DEF TimesAreCurrent, WqIdle
    <2>6. Schedule'
      BY <1>0, <2>0, <2>3, Numbers DEF Schedule, Occupied
    <2> QED
      BY <2>2, <2>4, <2>5, <2>6 DEF Inv
  <1>3. ASSUME NEW n \in Node, NEW is_direct \in BOOLEAN, UpdateReads(n, is_direct)
        PROVE  Inv'
    <2>0. /\ rx = RxIdle /\ wq = WqIdle
          /\ rx' = [pc |-> "read", node |-> n, direct |-> is_direct, now |-> clock]
          /\ UNCHANGED <<table, clock, queued, wq, nextAge, phase, heard>>
      BY <1>0, <1>3, WqShape DEF UpdateReads, RxMayRun, AgeMayRun, RxHoldsMutex, RxIdle
    <2>1. TypeOK'
      BY <1>0, <2>0 DEF TypeOK
    <2>2. EntriesAreHeard' /\ OneCurrentEntryPerNode' /\ Schedule'
      BY <2>0 DEF Inv, EntriesAreHeard, OneCurrentEntryPerNode, Schedule, Occupied, WillAge,
                    Grace
    <2>3. TimesAreCurrent'
      BY <1>0, <2>0, Numbers DEF Inv, TimesAreCurrent, Occupied
    <2> QED
      BY <2>1, <2>2, <2>3 DEF Inv
  <1>4. CASE UpdateLocks
    <2>0. /\ rx.pc = "read" /\ rx # RxIdle /\ rx' = [rx EXCEPT !.pc = "locked"]
          /\ UNCHANGED <<table, clock, queued, wq, nextAge, phase, heard>>
      BY <1>0, <1>4, RxShape DEF UpdateLocks
    <2>1. /\ rx' \in [pc : {"read", "locked"}, node : Node, direct : BOOLEAN, now : Time]
          /\ rx'.now = rx.now
      BY <1>0, <2>0, RxShape
    <2>2. TypeOK'
      BY <1>0, <2>0, <2>1 DEF TypeOK
    <2>3. EntriesAreHeard' /\ OneCurrentEntryPerNode' /\ Schedule'
      BY <2>0 DEF Inv, EntriesAreHeard, OneCurrentEntryPerNode, Schedule, Occupied, WillAge,
                    Grace
    <2>4. TimesAreCurrent'
      BY <2>0, <2>1 DEF Inv, TimesAreCurrent, Occupied
    <2> QED
      BY <2>2, <2>3, <2>4 DEF Inv
  <1>5. CASE UpdateKnown
    BY <1>5, UpdateKnownKeepsInv
  <1>6. CASE UpdateNew
    BY <1>6, UpdateNewKeepsInv
  <1>7. CASE AgeTimer
    <2>0. /\ phase = "running" /\ clock = nextAge
          /\ queued' = IF queued = {} THEN {clock} ELSE queued
          /\ nextAge' = clock + AgeInterval
          /\ UNCHANGED <<table, clock, rx, wq, phase, heard>>
      BY <1>7 DEF AgeTimer
    <2>1. queued' # {} /\ \A t \in queued' : t \in Nat /\ t <= clock /\ clock <= t + Backlog
      BY <1>0, <2>0, Numbers, WqShape DEF Inv, TimesAreCurrent, Time
    <2>2. TypeOK'
      <3>1. clock \in Time /\ (queued' = {} \/ \E t \in Time : queued' = {t})
        BY <1>0, <2>0 DEF TypeOK
      <3>2. nextAge' \in 0 .. MaxClock + AgeInterval
        BY <2>0, <3>1, TimeAssumption DEF Time
      <3> QED
        BY <1>0, <2>0, <3>1, <3>2 DEF TypeOK
    <2>3. EntriesAreHeard' /\ OneCurrentEntryPerNode'
      BY <2>0 DEF Inv, EntriesAreHeard, OneCurrentEntryPerNode, Occupied
    <2>4. TimesAreCurrent'
      BY <2>0, <2>1 DEF Inv, TimesAreCurrent, Occupied
    <2>5. Schedule'
      <3> SUFFICES ASSUME NEW s \in Slot, Occupied(s) PROVE WillAge(s)'
        BY <1>0, <2>0, Numbers DEF Schedule, Occupied
      <3>1. WillAge(s)
        BY <2>0 DEF Inv, Schedule
      <3>2. CASE nextAge - table[s].last_seen <= Grace + AgeInterval - 1
        <4>1. PICK t \in queued' : t \in Nat /\ t <= nextAge
          BY <2>0, <2>1
        <4>2. t - table[s].last_seen <= Grace + AgeInterval - 1
          BY <1>0, <3>2, <4>1, Numbers
        <4> QED
          BY <2>0, <4>1, <4>2 DEF WillAge, Grace
      <3>3. CASE \E t \in queued : t - table[s].last_seen <= Grace + AgeInterval - 1
        BY <2>0, <3>3 DEF WillAge, Grace
      <3>4. CASE /\ wq # WqIdle
                 /\ wq.now - table[s].last_seen <= Grace + AgeInterval - 1 + Backlog
        BY <2>0, <3>4 DEF WillAge, Grace
      <3> QED
        BY <3>1, <3>2, <3>3, <3>4 DEF WillAge
    <2> QED
      BY <2>2, <2>3, <2>4, <2>5 DEF Inv
  <1>8. CASE AgeReads
    <2>0. /\ wq = WqIdle /\ queued # {} /\ queued' = {}
          /\ wq' = [pc |-> "lock", now |-> clock]
          /\ UNCHANGED <<table, clock, rx, nextAge, phase, heard>>
      BY <1>8 DEF AgeReads
    <2>1. wq' # WqIdle /\ wq'.now = clock /\ phase = "running"
      BY <2>0 DEF WqIdle, Inv, TimesAreCurrent
    <2>2. TypeOK'
      BY <1>0, <2>0 DEF TypeOK
    <2>3. EntriesAreHeard' /\ OneCurrentEntryPerNode'
      BY <2>0 DEF Inv, EntriesAreHeard, OneCurrentEntryPerNode, Occupied
    <2>4. TimesAreCurrent'
      BY <1>0, <2>0, <2>1, Numbers
         DEF Inv, TimesAreCurrent, Schedule, EntriesAreHeard, Occupied
    <2>5. Schedule'
      <3> SUFFICES ASSUME NEW s \in Slot, Occupied(s) PROVE WillAge(s)'
        BY <2>0, <2>1 DEF Inv, Schedule, Occupied
      <3>1. WillAge(s)
        BY <2>1 DEF Inv, Schedule
      <3>2. CASE nextAge - table[s].last_seen <= Grace + AgeInterval - 1
        BY <2>0, <3>2 DEF WillAge, Grace
      <3>3. CASE \E t \in queued : t - table[s].last_seen <= Grace + AgeInterval - 1
        <4>1. PICK t \in queued : t - table[s].last_seen <= Grace + AgeInterval - 1
          BY <3>3
        <4>2. t \in Nat /\ clock <= t + Backlog
          BY <1>0, WqShape DEF Inv, TimesAreCurrent, Time
        <4>3. wq'.now - table'[s].last_seen <= Grace + AgeInterval - 1 + Backlog
          BY <1>0, <2>0, <2>1, <4>1, <4>2, Numbers
        <4> QED
          BY <2>1, <4>3 DEF WillAge, Grace
      <3> QED
        BY <2>0, <3>1, <3>2, <3>3 DEF WillAge
    <2> QED
      BY <2>2, <2>3, <2>4, <2>5 DEF Inv
  <1>9. CASE AgeRemoves
    BY <1>9, AgeRemovesKeepsInv
  <1>10. CASE UNCHANGED vars
    BY <1>10 DEF vars, Inv, TypeOK, EntriesAreHeard, OneCurrentEntryPerNode,
                 TimesAreCurrent, Schedule, Occupied, WillAge, Grace
  <1> QED
    BY <1>1, <1>2, <1>3, <1>4, <1>5, <1>6, <1>7, <1>8, <1>9, <1>10 DEF Next

\* So it holds throughout.
LEMMA InvHolds == Spec => []Inv
  BY InvInit, InvNext, PTL DEF Spec

-----------------------------------------------------------------------------
\* Type correctness of the table, the clock and both threads.
THEOREM TypeCorrect == Spec => []TypeOK
  <1>1. Inv => TypeOK
    BY DEF Inv
  <1> QED
    BY <1>1, InvHolds, PTL

\* A node never has two entries, and the one it has carries the time of its
\* latest ts_routing_table_update, whatever aging and eviction do in between.
THEOREM OneEntryPerNode == Spec => []OneCurrentEntryPerNode
  <1>1. Inv => OneCurrentEntryPerNode
    BY DEF Inv
  <1> QED
    BY <1>1, InvHolds, PTL

\* ts_routing_table_age_seconds, submitted every AgeInterval seconds to a queue in
\* which it waits for at most Backlog seconds and sometimes in vain, removes a
\* silent node after at most its timeout, one interval and the backlog.
THEOREM SilentLeave == Spec => []SilentNodesLeave
  <1>1. Inv => SilentNodesLeave
    <2> SUFFICES ASSUME Inv, phase = "running", NEW s \in Slot, Occupied(s)
                 PROVE  clock - table[s].last_seen <= Grace + AgeInterval + Backlog
      BY DEF SilentNodesLeave
    <2>0. TypeOK /\ WillAge(s)
      BY DEF Inv, Schedule
    <2>1. CASE nextAge - table[s].last_seen <= Grace + AgeInterval - 1
      BY <2>0, <2>1, Numbers DEF Inv, Schedule
    <2>2. CASE \E t \in queued : t - table[s].last_seen <= Grace + AgeInterval - 1
      <3>1. PICK t \in queued : t - table[s].last_seen <= Grace + AgeInterval - 1
        BY <2>2
      <3>2. t \in Nat /\ clock <= t + Backlog
        BY <2>0, WqShape DEF Inv, TimesAreCurrent, Time
      <3> QED
        BY <2>0, <3>1, <3>2, Numbers
    <2>3. CASE /\ wq # WqIdle
               /\ wq.now - table[s].last_seen <= Grace + AgeInterval - 1 + Backlog
      <3>1. clock <= wq.now + 1 /\ wq.now \in Nat
        BY <2>0, <2>3, WqShape DEF Inv, TimesAreCurrent, Time
      <3> QED
        BY <2>0, <2>3, <3>1, Numbers
    <2> QED
      BY <2>0, <2>1, <2>2, <2>3 DEF WillAge
  <1> QED
    BY <1>1, InvHolds, PTL

\* ts_routing_table_age_seconds removes only nodes that have been silent for the
\* whole timeout: reading the clock before taking the mutex does no harm.
THEOREM AgingSparesFresh == Spec => AgingKeepsFresh
  <1>1. Inv /\ [Next]_vars
          => [AgeRemoves => \A n \in Known \ Known' : clock - heard[n] >= StaleAfter]_vars
    <2> SUFFICES ASSUME Inv, AgeRemoves, NEW n \in Known, n \notin Known'
                 PROVE  clock - heard[n] >= StaleAfter
      OBVIOUS
    <2>1. PICK s \in Slot : Occupied(s) /\ table[s].node_id = n
      BY DEF Known
    <2>2. Stale(s)
      <3>1. SUFFICES ASSUME ~Stale(s) PROVE FALSE
        OBVIOUS
      <3>2. table'[s] = table[s]
        BY <3>1 DEF AgeRemoves
      <3>3. Occupied(s)'
        BY <2>1, <3>2 DEF Occupied
      <3> QED
        BY <2>1, <3>2, <3>3 DEF Known
    <2>3. wq.pc = "lock" /\ wq.now \in Nat /\ wq.now <= clock
      BY WqShape DEF AgeRemoves, Inv, TimesAreCurrent, Time
    <2>4. wq.now - table[s].last_seen >= StaleAfter
      BY <2>1, <2>2, <2>3, StaleIsOld
    <2>5. heard[n] = table[s].last_seen
      BY <2>1 DEF Inv, OneCurrentEntryPerNode
    <2> QED
      BY <2>3, <2>4, <2>5, Numbers DEF Inv
  <1> QED
    BY <1>1, InvHolds, PTL DEF Spec, AgingKeepsFresh

\* A full table holds as many nodes as it has slots.
LEMMA FullTable ==
    ASSUME Inv, find_free_slot = {}
    PROVE  Cardinality(Known) = TableSize
  <1> DEFINE f == [s \in Slot |-> table[s].node_id]
  <1>1. \A s \in Slot : Occupied(s)
    BY DEF find_free_slot
  <1>2. f \in Bijection(Slot, Known)
    <2>1. f \in [Slot -> Known]
      BY <1>1 DEF Known
    <2>2. \A s, u \in Slot : f[s] = f[u] => s = u
      BY <1>1 DEF Inv, OneCurrentEntryPerNode
    <2>3. \A n \in Known : \E s \in Slot : f[s] = n
      BY DEF Known
    <2> QED
      BY <2>1, <2>2, <2>3 DEF Bijection, Injection, Surjection, IsInjective
  <1>3. IsFiniteSet(Slot) /\ Cardinality(Slot) = TableSize
    BY SizeAssumption, FS_Interval DEF Slot
  <1> QED
    BY <1>2, <1>3, FS_Bijection DEF ExistsBijection

\* ts_routing_table_update evicts only from a full table, and then a node that no
\* other has been silent for longer than.
THEOREM EvictsOldest == Spec => EvictsLongestSilent
  <1>1. Inv /\ [Next]_vars
          => [UpdateNew => \A m \in Known \ Known' :
                              /\ Cardinality(Known) = TableSize
                              /\ \A o \in Known : heard[m] <= heard[o]]_vars
    <2> SUFFICES ASSUME Inv, UpdateNew, NEW m \in Known, m \notin Known'
                 PROVE  /\ Cardinality(Known) = TableSize
                        /\ \A o \in Known : heard[m] <= heard[o]
      OBVIOUS
    <2>1. PICK s \in Slot :
             /\ IsFirst(s, IF find_free_slot # {} THEN find_free_slot ELSE find_oldest)
             /\ table' = [table EXCEPT ![s] = [occupied |-> TRUE, node_id |-> rx.node,
                                               direct |-> rx.direct, last_seen |-> rx.now]]
      BY DEF UpdateNew
    <2>2. PICK u \in Slot : Occupied(u) /\ table[u].node_id = m
      BY DEF Known
    <2>3. u = s
      <3>1. SUFFICES ASSUME u # s PROVE FALSE
        OBVIOUS
      <3>2. table'[u] = table[u]
        BY <2>1, <3>1 DEF Inv, TypeOK
      <3> QED
        BY <2>2, <3>2 DEF Known, Occupied
    <2>4. find_free_slot = {} /\ s \in find_oldest
      BY <2>1, <2>2, <2>3 DEF IsFirst, find_free_slot
    <2>5. ASSUME NEW o \in Known PROVE heard[m] <= heard[o]
      <3>1. PICK v \in Slot : Occupied(v) /\ table[v].node_id = o
        BY DEF Known
      <3>2. table[s].last_seen <= table[v].last_seen
        BY <2>4, <3>1 DEF find_oldest
      <3> QED
        BY <2>2, <2>3, <3>1, <3>2 DEF Inv, OneCurrentEntryPerNode
    <2> QED
      BY <2>4, <2>5, FullTable
  <1> QED
    BY <1>1, InvHolds, PTL DEF Spec, EvictsLongestSilent
=============================================================================
