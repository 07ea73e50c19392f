----------------------------- MODULE Contention -----------------------------
(***************************************************************************)
(* contention.c: the pool of delayed forwards.  The RX thread schedules a  *)
(* forward into a free slot and cancels it when it hears a duplicate; the  *)
(* slot's delayable work item expires in the timer interrupt, is queued    *)
(* on the system work queue and its handler claims and publishes the       *)
(* message.  pool_mutex orders the two threads.                            *)
(*                                                                         *)
(* The kernel's part (work items, the queue, thread priorities) is not in  *)
(* the repository; it is modelled as contention.c uses it.  A call of      *)
(* ts_contention_schedule is identified by its ticket, its position in the *)
(* sequence of calls, which lets the properties tell a message from the    *)
(* next one that reuses its slot.                                          *)
(***************************************************************************)
EXTENDS Integers, Sequences, FiniteSets

CONSTANTS
    PoolSize,       \* TS_CONTENTION_POOL_SIZE
    Key,            \* the (src, msg_id) pairs of the messages
    DelayConfig,    \* the configurations, as far as the delay depends on them
    Rssi,           \* the signal strengths a packet may have, in dBm
    MaxTickets      \* bound: calls of ts_contention_schedule

ASSUME PoolAssumption == PoolSize \in Nat \ {0}
ASSUME TicketAssumption == MaxTickets \in Nat
\* config_keys allows delays up to 60000 ms and thresholds from -150 to 0 dBm.
ASSUME DelayAssumption ==
    /\ Rssi \subseteq Int
    /\ \A cfg \in DelayConfig :
          /\ cfg.contention_delay_min_ms \in Nat
          /\ cfg.contention_delay_max_ms \in Nat
          /\ cfg.contention_rssi_weak \in Int
          /\ cfg.contention_rssi_strong \in Int

Slot == 1 .. PoolSize
Ticket == 1 .. MaxTickets

\* The busy flags of a k_work_delayable.
Flag == {"DELAYED", "QUEUED", "RUNNING", "CANCELING"}

VARIABLES
    occupied,   \* pool[s].occupied
    key,        \* pool[s].src and pool[s].msg_id
    msg,        \* pool[s].msg: the ticket of the message in the slot
    flags,      \* pool[s].work: its busy flags
    timer,      \* pool[s].work: the ticket its delay was last started for
    queue,      \* the system work queue: the slots whose work is queued
    wq,         \* the work queue thread: where it stands, slot and message
    rx,         \* the RX thread: where it stands, and the slot it works on
    tickets,    \* how many calls of ts_contention_schedule found a slot
    claims,     \* history: how often the handler claimed each ticket
    due,        \* history: the tickets whose own delay has expired
    cancelled   \* history: the tickets that were cancelled

vars == <<occupied, key, msg, flags, timer, queue, wq, rx, tickets, claims,
          due, cancelled>>
pool == <<occupied, key, msg>>
history == <<claims, due, cancelled>>

NoSlot == 0
Idle == [pc |-> "idle", slot |-> NoSlot]

\* RX holds pool_mutex inside schedule and cancel.  The handler's critical
\* section runs on a cooperative thread and never waits: it is one action.
RxHoldsMutex == rx.pc \in {"arm", "cancel", "free"}

\* The work queue thread has a cooperative priority and RX a preemptible one:
\* RX runs only while that thread has nothing to do, waits for pool_mutex, or
\* is blocked in a publish.
RxMayRun ==
    \/ wq.pc = "idle" /\ queue = <<>>
    \/ wq.pc = "start" /\ RxHoldsMutex
    \/ wq.pc \in {"publish", "other"}

\* The first slot of the pool that satisfies a condition, as the loops of
\* find_free_slot and find_slot_by_msg find it.
find_free_slot(s) ==
    ~occupied[s] /\ \A u \in Slot : ~occupied[u] => s <= u

Holds(s, k) == occupied[s] /\ key[s] = k

find_slot_by_msg(s, k) ==
    Holds(s, k) /\ \A u \in Slot : Holds(u, k) => s <= u

\* Fault: the thresholds are swapped.
ts_contention_rssi_to_delay_ms_Swapped(cfg, rssi) ==
    LET offset == cfg.contention_rssi_strong - rssi
        range == cfg.contention_rssi_strong - cfg.contention_rssi_weak
    IN  IF rssi <= cfg.contention_rssi_weak THEN cfg.contention_delay_min_ms
        ELSE IF rssi >= cfg.contention_rssi_strong THEN cfg.contention_delay_max_ms
        ELSE (offset * cfg.contention_delay_max_ms) \div range

\* range is positive where it divides, and the product is below 2^32.
ts_contention_rssi_to_delay_ms(cfg, rssi) ==
    LET offset == rssi - cfg.contention_rssi_weak
        range == cfg.contention_rssi_strong - cfg.contention_rssi_weak
    IN  IF rssi <= cfg.contention_rssi_weak THEN cfg.contention_delay_min_ms
        ELSE IF rssi >= cfg.contention_rssi_strong THEN cfg.contention_delay_max_ms
        ELSE (offset * cfg.contention_delay_max_ms) \div range

-----------------------------------------------------------------------------
(* The kernel's work items (external).                                      *)

Submit(s) ==
    IF flags[s] \intersect {"CANCELING", "QUEUED"} # {}
    THEN /\ flags' = [flags EXCEPT ![s] = @ \ {"DELAYED"}]
         /\ UNCHANGED queue
    ELSE /\ flags' = [flags EXCEPT ![s] = (@ \ {"DELAYED"}) \union {"QUEUED"}]
         /\ queue' = Append(queue, s)

\* k_work_schedule: without effect unless the work is idle or running.
k_work_schedule(s, delay) ==
    IF flags[s] \ {"RUNNING"} # {} THEN UNCHANGED <<flags, timer, queue, due>>
    ELSE /\ timer' = [timer EXCEPT ![s] = msg[s]]
         /\ IF delay = 0
            THEN Submit(s) /\ due' = due \union {msg[s]}
            ELSE /\ flags' = [flags EXCEPT ![s] = @ \union {"DELAYED"}]
                 /\ UNCHANGED <<queue, due>>

\* The queue q without its element at position p.
Without(q, p) == [i \in 1 .. Len(q) - 1 |-> q[IF i < p THEN i ELSE i + 1]]

\* k_work_cancel_delayable: stops the delay, leaves the queue, and marks a
\* work whose handler is running as being cancelled.
k_work_cancel_delayable(s) ==
    LET left == flags[s] \ {"DELAYED", "QUEUED"} IN
    /\ flags' = [flags EXCEPT ![s] =
                    IF left = {} THEN {} ELSE left \union {"CANCELING"}]
    /\ IF \E p \in DOMAIN queue : queue[p] = s
       THEN \E p \in DOMAIN queue : queue[p] = s /\ queue' = Without(queue, p)
       ELSE UNCHANGED queue

\* The timer interrupt: the delay of slot s is over.
TimerExpire(s) ==
    /\ "DELAYED" \in flags[s]
    /\ Submit(s)
    /\ due' = due \union {timer[s]}
    /\ UNCHANGED <<pool, timer, wq, rx, tickets, claims, cancelled>>

\* The work queue thread takes the next work item and calls its handler.
WqStart ==
    /\ wq.pc = "idle"
    /\ queue # <<>>
    /\ flags' = [flags EXCEPT ![Head(queue)] = (@ \ {"QUEUED"}) \union {"RUNNING"}]
    /\ queue' = Tail(queue)
    /\ wq' = [pc |-> "start", slot |-> Head(queue)]
    /\ UNCHANGED <<pool, timer, rx, tickets, history>>

\* The handlers of other modules (sensor reading, table aging) share the
\* thread and may block in it.
WqOther ==
    /\ wq.pc = "idle"
    /\ wq' = [pc |-> "other", slot |-> NoSlot]
    /\ UNCHANGED <<pool, flags, timer, queue, rx, tickets, history>>

WqOtherDone ==
    /\ wq.pc = "other"
    /\ wq' = Idle
    /\ UNCHANGED <<pool, flags, timer, queue, rx, tickets, history>>

\* The handler returned.
HandlerDone(s) ==
    /\ flags' = [flags EXCEPT ![s] = @ \ {"RUNNING", "CANCELING"}]
    /\ wq' = Idle

-----------------------------------------------------------------------------
(* ts_contention_work_handler                                               *)

\* The slot was cancelled after its work had started.
HandlerFindsFree ==
    /\ wq.pc = "start"
    /\ ~RxHoldsMutex
    /\ ~occupied[wq.slot]
    /\ HandlerDone(wq.slot)
    /\ UNCHANGED <<pool, timer, queue, rx, tickets, history>>

\* Fault: the handler forgets to release the slot.
HandlerClaims_KeepsSlot ==
    /\ wq.pc = "start"
    /\ ~RxHoldsMutex
    /\ occupied[wq.slot]
    /\ claims' = [claims EXCEPT ![msg[wq.slot]] = @ + 1]
    /\ wq' = [wq EXCEPT !.pc = "publish"]
    /\ UNCHANGED <<pool, flags, timer, queue, rx, tickets, due, cancelled>>

\* Copy-then-release: the message leaves the slot under the mutex.
HandlerClaims ==
    /\ wq.pc = "start"
    /\ ~RxHoldsMutex
    /\ occupied[wq.slot]
    /\ occupied' = [occupied EXCEPT ![wq.slot] = FALSE]
    /\ claims' = [claims EXCEPT ![msg[wq.slot]] = @ + 1]
    /\ wq' = [wq EXCEPT !.pc = "publish"]
    /\ UNCHANGED <<key, msg, flags, timer, queue, rx, tickets, due, cancelled>>

\* Fault: a publish that failed puts its message back for another attempt.
HandlerPublishes_Retries ==
    /\ wq.pc = "publish"
    /\ occupied' = [occupied EXCEPT ![wq.slot] = TRUE]
    /\ flags' = [flags EXCEPT ![wq.slot] = {"QUEUED"}]
    /\ queue' = Append(queue, wq.slot)
    /\ wq' = Idle
    /\ UNCHANGED <<key, msg, timer, rx, tickets, history>>

\* zbus_chan_pub returned, with or without success: nothing is retried.
HandlerPublishes ==
    /\ wq.pc = "publish"
    /\ HandlerDone(wq.slot)
    /\ UNCHANGED <<pool, timer, queue, rx, tickets, history>>

-----------------------------------------------------------------------------
(* The RX thread                                                            *)

\* ts_contention_init, once, before the first packet; pool is static storage.
ts_contention_init ==
    /\ rx.pc = "boot"
    /\ RxMayRun
    /\ occupied' = [s \in Slot |-> FALSE]
    /\ flags' = [s \in Slot |-> {}]
    /\ rx' = Idle
    /\ UNCHANGED <<key, msg, timer, queue, wq, tickets, history>>

\* Fault: the slot is taken but the message is not copied into it.
ScheduleFill_StaleMsg(k) ==
    /\ rx.pc = "idle"
    /\ RxMayRun
    /\ tickets < MaxTickets
    /\ \E s \in Slot :
        /\ find_free_slot(s)
        /\ occupied' = [occupied EXCEPT ![s] = TRUE]
        /\ key' = [key EXCEPT ![s] = k]
        /\ rx' = [pc |-> "arm", slot |-> s]
    /\ tickets' = tickets + 1
    /\ UNCHANGED <<msg, flags, timer, queue, wq, history>>

\* ts_contention_schedule up to the call of k_work_schedule.
ScheduleFill(k) ==
    /\ rx.pc = "idle"
    /\ RxMayRun
    /\ tickets < MaxTickets
    /\ \E s \in Slot :
        /\ find_free_slot(s)
        /\ occupied' = [occupied EXCEPT ![s] = TRUE]
        /\ key' = [key EXCEPT ![s] = k]
        /\ msg' = [msg EXCEPT ![s] = tickets + 1]
        /\ rx' = [pc |-> "arm", slot |-> s]
    /\ tickets' = tickets + 1
    /\ UNCHANGED <<flags, timer, queue, wq, history>>

\* Its pool is full: -ENOMEM, and the forward is dropped.
ScheduleFull ==
    /\ rx.pc = "idle"
    /\ RxMayRun
    /\ \A s \in Slot : occupied[s]
    /\ UNCHANGED vars

\* k_work_schedule with the delay of the signal strength, and the unlock.
ScheduleArm(cfg, rssi) ==
    /\ rx.pc = "arm"
    /\ RxMayRun
    /\ k_work_schedule(rx.slot, ts_contention_rssi_to_delay_ms(cfg, rssi))
    /\ rx' = Idle
    /\ UNCHANGED <<pool, wq, tickets, claims, cancelled>>

\* Fault: the slot is freed before its work is cancelled.
CancelFind_FreesFirst(k) ==
    /\ rx.pc = "idle"
    /\ RxMayRun
    /\ \E s \in Slot :
        /\ find_slot_by_msg(s, k)
        /\ occupied' = [occupied EXCEPT ![s] = FALSE]
        /\ rx' = [pc |-> "cancel", slot |-> s]
    /\ UNCHANGED <<key, msg, flags, timer, queue, wq, tickets, history>>

\* ts_contention_cancel up to the call of k_work_cancel_delayable.
CancelFind(k) ==
    /\ rx.pc = "idle"
    /\ RxMayRun
    /\ \E s \in Slot :
        /\ find_slot_by_msg(s, k)
        /\ rx' = [pc |-> "cancel", slot |-> s]
    /\ UNCHANGED <<pool, flags, timer, queue, wq, tickets, history>>

\* No forward of that message is pending: -ENOENT.
CancelMiss(k) ==
    /\ rx.pc = "idle"
    /\ RxMayRun
    /\ \A s \in Slot : ~Holds(s, k)
    /\ UNCHANGED vars

\* Fault: the work item is not cancelled.
CancelWork_KeepsWork ==
    /\ rx.pc = "cancel"
    /\ RxMayRun
    /\ rx' = [rx EXCEPT !.pc = "free"]
    /\ UNCHANGED <<pool, flags, timer, queue, wq, tickets, history>>

CancelWork ==
    /\ rx.pc = "cancel"
    /\ RxMayRun
    /\ k_work_cancel_delayable(rx.slot)
    /\ rx' = [rx EXCEPT !.pc = "free"]
    /\ UNCHANGED <<pool, timer, wq, tickets, history>>

\* Fault: the slot is not freed.
CancelFree_KeepsSlot ==
    /\ rx.pc = "free"
    /\ RxMayRun
    /\ cancelled' = cancelled \union {msg[rx.slot]}
    /\ rx' = Idle
    /\ UNCHANGED <<pool, flags, timer, queue, wq, tickets, claims, due>>

CancelFree ==
    /\ rx.pc = "free"
    /\ RxMayRun
    /\ occupied' = [occupied EXCEPT ![rx.slot] = FALSE]
    /\ cancelled' = cancelled \union {msg[rx.slot]}
    /\ rx' = Idle
    /\ UNCHANGED <<key, msg, flags, timer, queue, wq, tickets, claims, due>>

-----------------------------------------------------------------------------
Init ==
    /\ occupied = [s \in Slot |-> FALSE]
    /\ key = [s \in Slot |-> 0]
    /\ msg = [s \in Slot |-> 0]
    /\ flags = [s \in Slot |-> {}]
    /\ timer = [s \in Slot |-> 0]
    /\ queue = <<>>
    /\ wq = Idle
    /\ rx = [pc |-> "boot", slot |-> NoSlot]
    /\ tickets = 0
    /\ claims = [t \in Ticket |-> 0]
    /\ due = {}
    /\ cancelled = {}

Wq == \/ WqStart \/ WqOther \/ WqOtherDone
      \/ HandlerFindsFree \/ HandlerClaims \/ HandlerPublishes

Rx == \/ ts_contention_init
      \/ \E k \in Key : ScheduleFill(k) \/ CancelFind(k) \/ CancelMiss(k)
      \/ ScheduleFull
      \/ \E cfg \in DelayConfig, rssi \in Rssi : ScheduleArm(cfg, rssi)
      \/ CancelWork \/ CancelFree

Next == Wq \/ Rx \/ \E s \in Slot : TimerExpire(s)

\* A started delay expires; the work queue thread, which has the highest
\* thread priority, runs its queue in turn and its publishes time out; RX
\* leaves its critical sections.  Nothing is assumed about new packets.
Fairness ==
    /\ \A s \in Slot : WF_vars(TimerExpire(s))
    /\ WF_vars(WqOtherDone)
    /\ SF_vars(WqStart)
    /\ WF_vars(HandlerFindsFree \/ HandlerClaims \/ HandlerPublishes)
    /\ WF_vars(\E cfg \in DelayConfig, rssi \in Rssi : ScheduleArm(cfg, rssi))
    /\ WF_vars(CancelWork \/ CancelFree)

Spec == Init /\ [][Next]_vars /\ Fairness

-----------------------------------------------------------------------------
(***************************************************************************)
(* Properties                                                              *)
(***************************************************************************)

\* The pool, its work items, the work queue and both threads keep their types.
TypeOK ==
    /\ occupied \in [Slot -> BOOLEAN]
    /\ key \in [Slot -> Key \union {0}]
    /\ msg \in [Slot -> Ticket \union {0}]
    /\ flags \in [Slot -> SUBSET Flag]
    /\ timer \in [Slot -> Ticket \union {0}]
    /\ queue \in Seq(Slot)
    /\ wq \in [pc : {"idle", "start", "publish", "other"}, slot : Slot \union {NoSlot}]
    /\ rx \in [pc : {"boot", "idle", "arm", "cancel", "free"},
               slot : Slot \union {NoSlot}]
    /\ tickets \in 0 .. MaxTickets
    /\ claims \in [Ticket -> Nat]
    /\ due \subseteq Ticket
    /\ cancelled \subseteq Ticket

\* A message is handed to the radio at most once per ts_contention_schedule,
\* although its slot is refilled while the handler of an earlier message is
\* still running on the same work item.
ClaimedAtMostOnce == \A t \in Ticket : claims[t] <= 1

\* Once ts_contention_cancel has returned 0, that message is never forwarded,
\* even if its work had already expired or its handler had already started.
CancelledNeverClaimed == \A t \in Ticket : t \in cancelled => claims[t] = 0

\* No message is forwarded before its own delay has run out: neither a stale
\* timer nor a stale queue entry of the slot's previous message fires for it.
ClaimedOnlyWhenDue == \A t \in Ticket : claims[t] > 0 => t \in due

\* Why the three above hold.  Each busy flag of a slot is about the message now
\* in it, and a free slot has nothing left that could fire for its next one,
\* which schedule relies on when it reuses a slot without a look at its work.
\* A queued work item is queued once, is no longer delayed, and its message is
\* due; a running delay was started for that message; the slot whose handler
\* starts has neither.  The RX thread works on an occupied slot, whose flags are
\* clear before it is armed and before it is freed.  No two slots hold one
\* message, and a message in a slot was neither claimed nor cancelled.
Starting(s) == wq.pc = "start" /\ wq.slot = s
FreeSlotIsQuiet ==
    \A s \in Slot : ~occupied[s] => flags[s] \intersect {"DELAYED", "QUEUED"} = {}
QueueMatchesFlags ==
    /\ \A i \in DOMAIN queue : "QUEUED" \in flags[queue[i]]
    /\ \A i, j \in DOMAIN queue : queue[i] = queue[j] => i = j
FlagsMatchMessage ==
    \A s \in Slot :
        /\ "QUEUED" \in flags[s] => "DELAYED" \notin flags[s] /\ msg[s] \in due
        /\ "DELAYED" \in flags[s] => timer[s] = msg[s]
        /\ Starting(s) => flags[s] \intersect {"DELAYED", "QUEUED"} = {}
        /\ Starting(s) /\ occupied[s] => msg[s] \in due
MessagesAreLive ==
    /\ \A s \in Slot : occupied[s] =>
          /\ msg[s] \in 1 .. tickets
          /\ claims[msg[s]] = 0
          /\ msg[s] \notin cancelled
    /\ \A s, u \in Slot : occupied[s] /\ occupied[u] /\ msg[s] = msg[u] => s = u
    /\ \A t \in Ticket : t > tickets => claims[t] = 0 /\ t \notin cancelled
ThreadsHoldSlots ==
    /\ wq.pc \in {"start", "publish"} => wq.slot \in Slot
    /\ RxHoldsMutex => rx.slot \in Slot /\ occupied[rx.slot]
    /\ rx.pc \in {"arm", "free"} =>
          flags[rx.slot] \intersect {"DELAYED", "QUEUED"} = {}
    /\ rx.pc = "arm" => ~Starting(rx.slot)
    /\ rx.pc = "boot" => \A s \in Slot : flags[s] = {} /\ ~occupied[s]
SlotDiscipline ==
    /\ FreeSlotIsQuiet
    /\ QueueMatchesFlags
    /\ FlagsMatchMessage
    /\ MessagesAreLive
    /\ ThreadsHoldSlots

Delay(cfg, r) == ts_contention_rssi_to_delay_ms(cfg, r)

\* contention.h: "Weaker signal results in shorter delay (forward sooner)."
\* Whenever RX arms a slot, no packet's delay is longer than that of a packet
\* that came in stronger, or than the configured maximum, at both thresholds and
\* with thresholds that are equal or reversed, provided that
\* contention_delay_min_ms keeps its default of 0: the ramp between the
\* thresholds starts at 0 whatever the minimum is.
WeakestForwardsFirst ==
    rx.pc = "arm" =>
        \A cfg \in DelayConfig, r, w \in Rssi :
            cfg.contention_delay_min_ms = 0 /\ w <= r =>
                /\ Delay(cfg, w) <= Delay(cfg, r)
                /\ Delay(cfg, r) \in 0 .. cfg.contention_delay_max_ms

\* The pool is a bounded set of pending forwards, each of which leaves once,
\* forwarded or cancelled: what the slots, the work items and the two threads
\* do in their many steps is one step of ForwardPool or none.
Pending == {[ticket |-> msg[s], key |-> key[s]] : s \in {u \in Slot : occupied[u]}}
Abstract == INSTANCE ForwardPool WITH
    pending <- Pending, forwarded <- {t \in Ticket : claims[t] > 0}
ImplementsForwardPool == Abstract!Spec

\* An occupied slot whose delay runs or whose work is queued is emptied, by
\* its handler or by a cancel.
Armed(s) == flags[s] \intersect {"DELAYED", "QUEUED"} # {}
ArmedSlotIsEmptied ==
    \A s \in Slot : occupied[s] /\ Armed(s) ~> ~occupied[s]

\* contention.c, in ts_contention_cancel: "If the work is still pending (not
\* yet started), plain cancel is sufficient."  Then the slot's work can be
\* scheduled again, and every occupied slot outside the critical sections has
\* a running delay, a queued work item or a handler about to claim it.
OccupiedSlotIsArmed ==
    \A s \in Slot : occupied[s] /\ ~RxHoldsMutex =>
        Armed(s) \/ (wq.pc = "start" /\ wq.slot = s)
=============================================================================
