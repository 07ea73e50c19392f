-------------------------- MODULE ContentionProofs --------------------------
(***************************************************************************)
(* The safety of the contention pool for every pool size, every set of     *)
(* keys and any number of scheduled forwards; the order of its delays; and *)
(* that it implements ForwardPool.                                         *)
(***************************************************************************)
EXTENDS Contention, SequenceTheorems, FiniteSetTheorems, TLAPS

\* The inductive invariant: what a handler may claim is decided by the flags
\* of its slot, so the history properties rest on SlotDiscipline.
Claimed == ClaimedAtMostOnce /\ CancelledNeverClaimed /\ ClaimedOnlyWhenDue
Inv == TypeOK /\ SlotDiscipline /\ Claimed

-----------------------------------------------------------------------------
\* Submitting a work item appends its slot to the queue at most once: an item
\* that is already queued keeps its place.
LEMMA SubmitType ==
    ASSUME TypeOK, NEW s \in Slot, Submit(s)
    PROVE  flags' \in [Slot -> SUBSET Flag] /\ queue' \in Seq(Slot)
<1>1. CASE flags[s] \intersect {"CANCELING", "QUEUED"} # {}
    BY <1>1 DEF TypeOK, Submit, Flag
<1>2. CASE flags[s] \intersect {"CANCELING", "QUEUED"} = {}
    <2>1. queue \in Seq(Slot)
        BY DEF TypeOK
    <2>2. queue' = Append(queue, s)
        BY <1>2 DEF Submit
    <2>3. queue' \in Seq(Slot)
        BY <2>1, <2>2
    <2>4. flags' = [flags EXCEPT ![s] = (@ \ {"DELAYED"}) \union {"QUEUED"}]
        BY <1>2 DEF Submit
    <2>5. flags \in [Slot -> SUBSET Flag]
        BY DEF TypeOK
    <2>6. (flags[s] \ {"DELAYED"}) \union {"QUEUED"} \in SUBSET Flag
        BY <2>5 DEF Flag
    <2>7. QED
        BY <2>3, <2>4, <2>5, <2>6
<1>3. QED
    BY <1>1, <1>2

\* After a submission the queue still holds each queued slot once.
LEMMA SubmitQueue ==
    ASSUME TypeOK, QueueMatchesFlags, NEW s \in Slot, Submit(s)
    PROVE  QueueMatchesFlags'
<1>0. queue \in Seq(Slot) /\ flags \in [Slot -> SUBSET Flag]
    BY DEF TypeOK
<1>1. CASE flags[s] \intersect {"CANCELING", "QUEUED"} # {}
    BY <1>0, <1>1 DEF QueueMatchesFlags, Submit
<1>2. CASE flags[s] \intersect {"CANCELING", "QUEUED"} = {}
    <2>1. /\ queue' = Append(queue, s)
          /\ flags' = [flags EXCEPT ![s] = (@ \ {"DELAYED"}) \union {"QUEUED"}]
          /\ "QUEUED" \notin flags[s]
        BY <1>2 DEF Submit
    <2>2. /\ Len(queue') = Len(queue) + 1
          /\ DOMAIN queue' = 1 .. Len(queue) + 1
          /\ DOMAIN queue = 1 .. Len(queue)
          /\ Len(queue) \in Nat
          /\ \A i \in 1 .. Len(queue) : queue'[i] = queue[i] /\ queue[i] \in Slot
          /\ queue'[Len(queue) + 1] = s
        BY <1>0, <2>1
    <2>3. \A i \in DOMAIN queue' : i \in DOMAIN queue \/ i = Len(queue) + 1
        BY <2>2
    <2>4. \A i \in DOMAIN queue : queue[i] # s
        BY <2>1 DEF QueueMatchesFlags
    <2>5. \A i \in DOMAIN queue' : "QUEUED" \in flags'[queue'[i]]
        BY <1>0, <2>1, <2>2, <2>3, <2>4 DEF QueueMatchesFlags
    <2>6. \A i, j \in DOMAIN queue' : queue'[i] = queue'[j] => i = j
        BY <2>2, <2>3, <2>4 DEF QueueMatchesFlags
    <2>7. QED
        BY <2>5, <2>6 DEF QueueMatchesFlags
<1>3. QED
    BY <1>1, <1>2

\* What a submission does to the flags the invariant speaks about.
LEMMA SubmitFlags ==
    ASSUME TypeOK, NEW s \in Slot, Submit(s)
    PROVE  /\ \A u \in Slot : u # s => flags'[u] = flags[u]
           /\ "DELAYED" \notin flags'[s]
BY DEF TypeOK, Submit

\* The queue without one of its elements is again a queue of slots, each once.
LEMMA WithoutQueue ==
    ASSUME NEW q \in Seq(Slot), NEW p \in DOMAIN q,
           \A i, j \in DOMAIN q : q[i] = q[j] => i = j
    PROVE  /\ Without(q, p) \in Seq(Slot)
           /\ \A i \in DOMAIN Without(q, p) :
                \E j \in DOMAIN q : j # p /\ Without(q, p)[i] = q[j]
           /\ \A i, j \in DOMAIN Without(q, p) :
                Without(q, p)[i] = Without(q, p)[j] => i = j
<1> DEFINE n == Len(q) - 1
           w == Without(q, p)
<1>1. Len(q) \in Nat /\ DOMAIN q = 1 .. Len(q) /\ p \in 1 .. Len(q) /\ n \in Nat
    BY LenProperties
<1>2. w = [i \in 1 .. n |-> q[IF i < p THEN i ELSE i + 1]]
    BY DEF Without
<1>3. \A i \in 1 .. n :
        /\ (IF i < p THEN i ELSE i + 1) \in DOMAIN q
        /\ (IF i < p THEN i ELSE i + 1) # p
    BY <1>1
<1>4. \A i \in 1 .. n : w[i] \in Slot
    BY <1>1, <1>2, <1>3, ElementOfSeq
<1>5. w \in Seq(Slot)
    BY <1>1, <1>2, <1>4, IsASeq
<1>6. \A i \in 1 .. n : \E j \in DOMAIN q : j # p /\ w[i] = q[j]
    BY <1>2, <1>3
<1>7. \A i, j \in 1 .. n : w[i] = w[j] => i = j
    <2> SUFFICES ASSUME NEW i \in 1 .. n, NEW j \in 1 .. n, w[i] = w[j]
                 PROVE  i = j
        OBVIOUS
    <2>1. (IF i < p THEN i ELSE i + 1) = (IF j < p THEN j ELSE j + 1)
        BY <1>2, <1>3
    <2>2. QED
        BY <1>1, <2>1
<1>8. DOMAIN w = 1 .. n
    BY <1>2
<1>9. QED
    BY <1>5, <1>6, <1>7, <1>8

-----------------------------------------------------------------------------
(* The work queue thread *)

\* The invariant once every part of it is known to hold after the step.
LEMMA InvParts ==
    ASSUME TypeOK', FreeSlotIsQuiet', QueueMatchesFlags', FlagsMatchMessage',
           MessagesAreLive', ThreadsHoldSlots', Claimed'
    PROVE  Inv'
BY DEF Inv, SlotDiscipline

\* The thread starts the oldest queued work item, whose message is due.
LEMMA WqStartInv ==
    ASSUME Inv, WqStart
    PROVE  Inv'
<1> DEFINE h == Head(queue)
<1>1. /\ queue \in Seq(Slot) /\ queue # <<>> /\ 1 \in DOMAIN queue
      /\ h = queue[1] /\ h \in Slot
    BY DEF Inv, TypeOK, WqStart
<1>2. /\ flags \in [Slot -> SUBSET Flag]
      /\ flags' = [flags EXCEPT ![h] = (@ \ {"QUEUED"}) \union {"RUNNING"}]
      /\ wq' = [pc |-> "start", slot |-> h]
      /\ "QUEUED" \in flags[h]
    BY <1>1 DEF Inv, TypeOK, SlotDiscipline, QueueMatchesFlags, WqStart
<1>3. "DELAYED" \notin flags[h] /\ msg[h] \in due
    BY <1>1, <1>2 DEF Inv, SlotDiscipline, FlagsMatchMessage
<1>4. TypeOK'
    BY <1>1, <1>2 DEF Inv, TypeOK, Flag, NoSlot, WqStart, pool, history
<1>5. FreeSlotIsQuiet'
    BY <1>1, <1>2 DEF Inv, SlotDiscipline, FreeSlotIsQuiet, WqStart, pool
<1>6. QueueMatchesFlags'
    BY DEF Inv, SlotDiscipline, TypeOK, QueueMatchesFlags, WqStart
<1>7. FlagsMatchMessage'
    BY <1>1, <1>2, <1>3
       DEF Inv, SlotDiscipline, FlagsMatchMessage, Starting, WqStart, pool, history
<1>8. MessagesAreLive'
    BY DEF Inv, SlotDiscipline, MessagesAreLive, WqStart, pool, history
<1>9. ThreadsHoldSlots'
    <2>1. rx' = rx /\ occupied' = occupied
        BY DEF WqStart, pool
    <2>2. ASSUME RxHoldsMutex, rx.pc \in {"arm", "free"}
          PROVE  /\ rx.slot # h
                 /\ flags'[rx.slot] \intersect {"DELAYED", "QUEUED"} = {}
        BY <1>1, <1>2, <2>2 DEF Inv, SlotDiscipline, ThreadsHoldSlots
    <2>3. rx.pc # "boot"
        BY <1>1, <1>2 DEF Inv, SlotDiscipline, ThreadsHoldSlots
    <2>4. QED
        BY <1>1, <1>2, <2>1, <2>2, <2>3
           DEF Inv, SlotDiscipline, ThreadsHoldSlots, RxHoldsMutex, Starting
<1>10. Claimed'
    BY DEF Inv, Claimed, ClaimedAtMostOnce, CancelledNeverClaimed,
           ClaimedOnlyWhenDue, WqStart, history
<1>11. QED
    BY <1>4, <1>5, <1>6, <1>7, <1>8, <1>9, <1>10, InvParts

\* The thread runs another module's handler: no slot is touched.
LEMMA WqOtherInv ==
    ASSUME Inv, WqOther \/ WqOtherDone
    PROVE  Inv'
<1>1. /\ wq'.pc \in {"idle", "other"} /\ wq' \in [pc : {"idle", "other"}, slot : {NoSlot}]
      /\ UNCHANGED <<pool, flags, timer, queue, rx, tickets, history>>
    BY DEF WqOther, WqOtherDone, Idle
<1>2. TypeOK'
    BY <1>1 DEF Inv, TypeOK, pool, history
<1>3. FreeSlotIsQuiet' /\ QueueMatchesFlags' /\ MessagesAreLive'
    BY <1>1 DEF Inv, SlotDiscipline, FreeSlotIsQuiet, QueueMatchesFlags,
                MessagesAreLive, pool, history
<1>4. FlagsMatchMessage'
    BY <1>1 DEF Inv, SlotDiscipline, FlagsMatchMessage, Starting, pool, history
<1>5. ThreadsHoldSlots'
    BY <1>1 DEF Inv, SlotDiscipline, ThreadsHoldSlots, RxHoldsMutex, Starting, pool
<1>6. Claimed'
    BY <1>1 DEF Inv, Claimed, ClaimedAtMostOnce, CancelledNeverClaimed,
                ClaimedOnlyWhenDue, history
<1>7. QED
    BY <1>2, <1>3, <1>4, <1>5, <1>6, InvParts

\* The handler returns, having found its slot free or having published: only
\* the flags RUNNING and CANCELING of its slot change.
LEMMA HandlerDoneInv ==
    ASSUME Inv, HandlerFindsFree \/ HandlerPublishes
    PROVE  Inv'
<1>1. /\ wq' = Idle /\ wq.slot \in Slot
      /\ flags' = [flags EXCEPT ![wq.slot] = @ \ {"RUNNING", "CANCELING"}]
      /\ UNCHANGED <<pool, timer, queue, rx, tickets, history>>
    BY DEF Inv, SlotDiscipline, ThreadsHoldSlots, HandlerFindsFree,
           HandlerPublishes, HandlerDone
<1>2. /\ wq'.pc = "idle" /\ wq' \in [pc : {"idle"}, slot : {NoSlot}]
    BY <1>1 DEF Idle
<1>3. /\ flags \in [Slot -> SUBSET Flag] /\ flags' \in [Slot -> SUBSET Flag]
      /\ \A s \in Slot : /\ flags'[s] \subseteq flags[s]
                         /\ "QUEUED" \in flags[s] <=> "QUEUED" \in flags'[s]
                         /\ "DELAYED" \in flags[s] <=> "DELAYED" \in flags'[s]
    BY <1>1 DEF Inv, TypeOK
<1>4. TypeOK'
    BY <1>1, <1>2, <1>3 DEF Inv, TypeOK, pool, history
<1>5. FreeSlotIsQuiet'
    BY <1>1, <1>3 DEF Inv, SlotDiscipline, FreeSlotIsQuiet, pool
<1>6. QueueMatchesFlags'
    BY <1>1, <1>3, ElementOfSeq DEF Inv, SlotDiscipline, TypeOK, QueueMatchesFlags
<1>7. FlagsMatchMessage'
    BY <1>1, <1>2, <1>3
       DEF Inv, SlotDiscipline, FlagsMatchMessage, Starting, pool, history
<1>8. MessagesAreLive'
    BY <1>1 DEF Inv, SlotDiscipline, MessagesAreLive, pool, history
<1>9. ThreadsHoldSlots'
    BY <1>1, <1>2, <1>3
       DEF Inv, SlotDiscipline, ThreadsHoldSlots, RxHoldsMutex, Starting, pool
<1>10. Claimed'
    BY <1>1 DEF Inv, Claimed, ClaimedAtMostOnce, CancelledNeverClaimed,
                ClaimedOnlyWhenDue, history
<1>11. QED
    BY <1>4, <1>5, <1>6, <1>7, <1>8, <1>9, <1>10, InvParts

\* The handler claims a message that was never claimed or cancelled and is due.
LEMMA HandlerClaimsInv ==
    ASSUME Inv, HandlerClaims
    PROVE  Inv'
<1> DEFINE s == wq.slot
           m == msg[wq.slot]
<1>1. /\ s \in Slot /\ occupied[s] /\ wq.pc = "start" /\ ~RxHoldsMutex
      /\ occupied' = [occupied EXCEPT ![s] = FALSE]
      /\ claims' = [claims EXCEPT ![m] = @ + 1]
      /\ wq' = [wq EXCEPT !.pc = "publish"]
      /\ UNCHANGED <<key, msg, flags, timer, queue, rx, tickets, due, cancelled>>
    BY DEF Inv, SlotDiscipline, ThreadsHoldSlots, HandlerClaims
<1>2. /\ m \in 1 .. tickets /\ claims[m] = 0 /\ m \notin cancelled
      /\ m \in due /\ flags[s] \intersect {"DELAYED", "QUEUED"} = {}
    BY <1>1 DEF Inv, SlotDiscipline, MessagesAreLive, FlagsMatchMessage, Starting
<1>3. /\ m \in Ticket /\ tickets \in 0 .. MaxTickets /\ claims \in [Ticket -> Nat]
      /\ occupied \in [Slot -> BOOLEAN]
      /\ wq \in [pc : {"idle", "start", "publish", "other"}, slot : Slot \union {NoSlot}]
    BY <1>2, TicketAssumption DEF Inv, TypeOK, Ticket
<1>4. /\ claims' \in [Ticket -> Nat] /\ claims'[m] = 1
      /\ \A t \in Ticket : t # m => claims'[t] = claims[t]
    BY <1>1, <1>2, <1>3
<1>5. /\ wq' \in [pc : {"publish"}, slot : Slot \union {NoSlot}]
      /\ wq'.pc = "publish" /\ wq'.slot = s
    BY <1>1, <1>3
<1>6. occupied' \in [Slot -> BOOLEAN] /\ \A u \in Slot : occupied'[u] => occupied[u] /\ u # s
    BY <1>1, <1>3
<1>7. TypeOK'
    BY <1>1, <1>4, <1>5, <1>6 DEF Inv, TypeOK
<1>8. FreeSlotIsQuiet'
    BY <1>1, <1>2, <1>3 DEF Inv, SlotDiscipline, FreeSlotIsQuiet
<1>9. QueueMatchesFlags'
    BY <1>1 DEF Inv, SlotDiscipline, QueueMatchesFlags
<1>10. FlagsMatchMessage'
    BY <1>1, <1>5 DEF Inv, SlotDiscipline, FlagsMatchMessage, Starting
<1>11. MessagesAreLive'
    <2>1. \A u \in Slot : occupied'[u] => msg[u] \in Ticket /\ msg[u] # m
        BY <1>1, <1>3, <1>6, TicketAssumption
           DEF Inv, SlotDiscipline, MessagesAreLive, Ticket
    <2>2. \A t \in Ticket : t > tickets => t # m
        BY <1>2, <1>3 DEF Ticket
    <2>3. QED
        BY <1>1, <1>4, <1>6, <2>1, <2>2 DEF Inv, SlotDiscipline, MessagesAreLive
<1>12. ThreadsHoldSlots'
    BY <1>1, <1>5 DEF Inv, SlotDiscipline, ThreadsHoldSlots, RxHoldsMutex, Starting
<1>13. Claimed'
    BY <1>1, <1>2, <1>4 DEF Inv, Claimed, ClaimedAtMostOnce, CancelledNeverClaimed,
                            ClaimedOnlyWhenDue
<1>14. QED
    BY <1>7, <1>8, <1>9, <1>10, <1>11, <1>12, <1>13, InvParts

-----------------------------------------------------------------------------
(* The RX thread and the timer interrupt *)

\* ts_contention_init frees every slot while no work item is busy.
LEMMA InitPoolInv ==
    ASSUME Inv, ts_contention_init
    PROVE  Inv'
<1>1. /\ rx.pc = "boot" /\ rx' = Idle
      /\ occupied' = [s \in Slot |-> FALSE]
      /\ flags' = [s \in Slot |-> {}]
      /\ UNCHANGED <<key, msg, timer, queue, wq, tickets, history>>
    BY DEF ts_contention_init
<1>2. rx'.pc = "idle" /\ rx' \in [pc : {"idle"}, slot : {NoSlot}]
    BY <1>1 DEF Idle
<1>3. \A i \in DOMAIN queue : FALSE
    <2>1. \A s \in Slot : flags[s] = {}
        BY <1>1 DEF Inv, SlotDiscipline, ThreadsHoldSlots
    <2>2. \A i \in DOMAIN queue : queue[i] \in Slot
        BY DEF Inv, TypeOK
    <2>3. QED
        BY <2>1, <2>2 DEF Inv, SlotDiscipline, QueueMatchesFlags
<1>4. TypeOK'
    BY <1>1, <1>2 DEF Inv, TypeOK, history
<1>5. FreeSlotIsQuiet' /\ QueueMatchesFlags'
    BY <1>1, <1>3 DEF FreeSlotIsQuiet, QueueMatchesFlags
<1>6. FlagsMatchMessage'
    BY <1>1 DEF FlagsMatchMessage
<1>7. MessagesAreLive'
    BY <1>1 DEF Inv, SlotDiscipline, MessagesAreLive, history
<1>8. ThreadsHoldSlots'
    BY <1>1, <1>2 DEF Inv, SlotDiscipline, ThreadsHoldSlots, RxHoldsMutex
<1>9. Claimed'
    BY <1>1 DEF Inv, Claimed, ClaimedAtMostOnce, CancelledNeverClaimed,
                ClaimedOnlyWhenDue, history
<1>10. QED
    BY <1>4, <1>5, <1>6, <1>7, <1>8, <1>9, InvParts

\* A new message goes into a quiet slot, at which no handler is starting: RX
\* would not run otherwise.
LEMMA ScheduleFillInv ==
    ASSUME Inv, NEW k \in Key, ScheduleFill(k)
    PROVE  Inv'
<1>1. PICK s \in Slot :
        /\ ~occupied[s]
        /\ occupied' = [occupied EXCEPT ![s] = TRUE]
        /\ key' = [key EXCEPT ![s] = k]
        /\ msg' = [msg EXCEPT ![s] = tickets + 1]
        /\ rx' = [pc |-> "arm", slot |-> s]
    BY DEF ScheduleFill, find_free_slot
<1>2. /\ rx.pc = "idle" /\ RxMayRun /\ tickets < MaxTickets /\ tickets' = tickets + 1
      /\ UNCHANGED <<flags, timer, queue, wq, history>>
    BY DEF ScheduleFill
<1>3. wq.pc # "start"
    BY <1>2 DEF RxMayRun, RxHoldsMutex
<1>4. /\ occupied \in [Slot -> BOOLEAN] /\ msg \in [Slot -> Ticket \union {0}]
      /\ key \in [Slot -> Key \union {0}] /\ tickets \in Nat /\ MaxTickets \in Nat
      /\ claims \in [Ticket -> Nat] /\ cancelled \subseteq Ticket
    BY TicketAssumption DEF Inv, TypeOK
<1>5. tickets' \in 0 .. MaxTickets /\ tickets + 1 \in Ticket
    BY <1>2, <1>4 DEF Ticket
<1>6. /\ occupied' \in [Slot -> BOOLEAN] /\ occupied'[s] /\ msg'[s] = tickets + 1
      /\ \A u \in Slot : u # s => occupied'[u] = occupied[u] /\ msg'[u] = msg[u]
    BY <1>1, <1>4
<1>7. /\ msg' \in [Slot -> Ticket \union {0}] /\ key' \in [Slot -> Key \union {0}]
    BY <1>1, <1>4, <1>5
<1>8. flags[s] \intersect {"DELAYED", "QUEUED"} = {}
    BY <1>1 DEF Inv, SlotDiscipline, FreeSlotIsQuiet
<1>9. TypeOK'
    BY <1>1, <1>2, <1>5, <1>6, <1>7 DEF Inv, TypeOK, history
<1>10. FreeSlotIsQuiet'
    BY <1>2, <1>6 DEF Inv, SlotDiscipline, FreeSlotIsQuiet
<1>11. QueueMatchesFlags'
    BY <1>2 DEF Inv, SlotDiscipline, QueueMatchesFlags
<1>12. FlagsMatchMessage'
    BY <1>2, <1>3, <1>6, <1>8
       DEF Inv, SlotDiscipline, FlagsMatchMessage, Starting, history
<1>13. MessagesAreLive'
    <2>1. \A u \in Slot : occupied'[u] =>
            /\ msg'[u] \in 1 .. tickets'
            /\ claims'[msg'[u]] = 0
            /\ msg'[u] \notin cancelled'
        <3> SUFFICES ASSUME NEW u \in Slot, occupied'[u]
                     PROVE  /\ msg'[u] \in 1 .. tickets'
                            /\ claims'[msg'[u]] = 0
                            /\ msg'[u] \notin cancelled'
            OBVIOUS
        <3>1. CASE u = s
            BY <1>2, <1>4, <1>5, <1>6, <3>1
               DEF Inv, SlotDiscipline, MessagesAreLive, history
        <3>2. CASE u # s
            BY <1>2, <1>4, <1>6, <3>2
               DEF Inv, SlotDiscipline, MessagesAreLive, history
        <3>3. QED
            BY <3>1, <3>2
    <2>2. \A u \in Slot : u # s /\ occupied'[u] => msg'[u] \in 1 .. tickets
        BY <1>6 DEF Inv, SlotDiscipline, MessagesAreLive
    <2>3. \A u, v \in Slot :
            occupied'[u] /\ occupied'[v] /\ msg'[u] = msg'[v] => u = v
        BY <1>4, <1>6, <2>2 DEF Inv, SlotDiscipline, MessagesAreLive
    <2>4. \A t \in Ticket : t > tickets' => claims'[t] = 0 /\ t \notin cancelled'
        BY <1>2, <1>4 DEF Inv, SlotDiscipline, MessagesAreLive, Ticket, history
    <2>5. QED
        BY <2>1, <2>3, <2>4 DEF MessagesAreLive
<1>14. ThreadsHoldSlots'
    BY <1>1, <1>2, <1>3, <1>6, <1>8
       DEF Inv, SlotDiscipline, ThreadsHoldSlots, RxHoldsMutex, Starting
<1>15. Claimed'
    BY <1>2 DEF Inv, Claimed, ClaimedAtMostOnce, CancelledNeverClaimed,
                ClaimedOnlyWhenDue, history
<1>16. QED
    BY <1>9, <1>10, <1>11, <1>12, <1>13, <1>14, <1>15, InvParts

\* A cancel that found its slot changes nothing yet.
LEMMA CancelFindInv ==
    ASSUME Inv, NEW k \in Key, CancelFind(k)
    PROVE  Inv'
<1>1. PICK s \in Slot : occupied[s] /\ rx' = [pc |-> "cancel", slot |-> s]
    BY DEF CancelFind, find_slot_by_msg, Holds
<1>2. UNCHANGED <<pool, flags, timer, queue, wq, tickets, history>>
    BY DEF CancelFind
<1>3. TypeOK'
    BY <1>1, <1>2 DEF Inv, TypeOK, pool, history
<1>4. FreeSlotIsQuiet' /\ QueueMatchesFlags' /\ MessagesAreLive'
    BY <1>2 DEF Inv, SlotDiscipline, FreeSlotIsQuiet, QueueMatchesFlags,
                MessagesAreLive, pool, history
<1>5. FlagsMatchMessage'
    BY <1>2 DEF Inv, SlotDiscipline, FlagsMatchMessage, Starting, pool, history
<1>6. ThreadsHoldSlots'
    BY <1>1, <1>2 DEF Inv, SlotDiscipline, ThreadsHoldSlots, RxHoldsMutex, pool
<1>7. Claimed'
    BY <1>2 DEF Inv, Claimed, ClaimedAtMostOnce, CancelledNeverClaimed,
                ClaimedOnlyWhenDue, history
<1>8. QED
    BY <1>3, <1>4, <1>5, <1>6, <1>7, InvParts

\* The cancelled message leaves a slot whose work is no longer pending.
LEMMA CancelFreeInv ==
    ASSUME Inv, CancelFree
    PROVE  Inv'
<1> DEFINE s == rx.slot
           m == msg[rx.slot]
<1>1. /\ rx.pc = "free" /\ rx' = Idle
      /\ occupied' = [occupied EXCEPT ![s] = FALSE]
      /\ cancelled' = cancelled \union {m}
      /\ UNCHANGED <<key, msg, flags, timer, queue, wq, tickets, claims, due>>
    BY DEF CancelFree
<1>2. /\ s \in Slot /\ occupied[s]
      /\ flags[s] \intersect {"DELAYED", "QUEUED"} = {}
    BY <1>1 DEF Inv, SlotDiscipline, ThreadsHoldSlots, RxHoldsMutex
<1>3. m \in 1 .. tickets /\ claims[m] = 0
    BY <1>2 DEF Inv, SlotDiscipline, MessagesAreLive
<1>4. m \in Ticket /\ tickets \in Nat
    BY <1>3, TicketAssumption DEF Inv, TypeOK, Ticket
<1>5. occupied \in [Slot -> BOOLEAN]
    BY DEF Inv, TypeOK
<1>6. /\ occupied' \in [Slot -> BOOLEAN] /\ ~occupied'[s]
      /\ \A u \in Slot : occupied'[u] => occupied[u] /\ u # s
      /\ \A u \in Slot : u # s => occupied'[u] = occupied[u]
    BY <1>1, <1>2, <1>5
<1>7. rx'.pc = "idle" /\ rx' \in [pc : {"idle"}, slot : {NoSlot}]
    BY <1>1 DEF Idle
<1>8. TypeOK'
    BY <1>1, <1>4, <1>6, <1>7 DEF Inv, TypeOK
<1>9. FreeSlotIsQuiet'
    BY <1>1, <1>2, <1>6 DEF Inv, SlotDiscipline, FreeSlotIsQuiet
<1>10. QueueMatchesFlags'
    BY <1>1 DEF Inv, SlotDiscipline, QueueMatchesFlags
<1>11. FlagsMatchMessage'
    BY <1>1, <1>6 DEF Inv, SlotDiscipline, FlagsMatchMessage, Starting
<1>12. MessagesAreLive'
    <2>1. \A u \in Slot : occupied'[u] => msg[u] # m
        BY <1>2, <1>6 DEF Inv, SlotDiscipline, MessagesAreLive
    <2>2. \A t \in Ticket : t > tickets => t # m
        BY <1>3, <1>4 DEF Ticket
    <2>3. QED
        BY <1>1, <1>6, <2>1, <2>2 DEF Inv, SlotDiscipline, MessagesAreLive
<1>13. ThreadsHoldSlots'
    BY <1>1, <1>7 DEF Inv, SlotDiscipline, ThreadsHoldSlots, RxHoldsMutex
<1>14. Claimed'
    BY <1>1, <1>3 DEF Inv, Claimed, ClaimedAtMostOnce, CancelledNeverClaimed,
                      ClaimedOnlyWhenDue
<1>15. QED
    BY <1>8, <1>9, <1>10, <1>11, <1>12, <1>13, <1>14, InvParts

\* RX leaves its critical section and changes nothing else.
LEMMA RxLeavesInv ==
    ASSUME Inv, rx' = Idle,
           UNCHANGED <<pool, flags, timer, queue, wq, tickets, history>>
    PROVE  Inv'
<1>1. rx'.pc = "idle" /\ rx' \in [pc : {"idle"}, slot : {NoSlot}]
    BY DEF Idle
<1>2. TypeOK'
    BY <1>1 DEF Inv, TypeOK, pool, history
<1>3. FreeSlotIsQuiet' /\ QueueMatchesFlags' /\ MessagesAreLive'
    BY DEF Inv, SlotDiscipline, FreeSlotIsQuiet, QueueMatchesFlags,
           MessagesAreLive, pool, history
<1>4. FlagsMatchMessage'
    BY DEF Inv, SlotDiscipline, FlagsMatchMessage, Starting, pool, history
<1>5. ThreadsHoldSlots'
    BY <1>1 DEF Inv, SlotDiscipline, ThreadsHoldSlots, RxHoldsMutex
<1>6. Claimed'
    BY DEF Inv, Claimed, ClaimedAtMostOnce, CancelledNeverClaimed,
           ClaimedOnlyWhenDue, history
<1>7. QED
    BY <1>2, <1>3, <1>4, <1>5, <1>6, InvParts

\* The work item of an occupied slot is submitted when its message is due.
LEMMA SubmitInv ==
    ASSUME Inv, NEW s \in Slot, Submit(s), occupied[s], ~Starting(s),
           due' = due \union {msg[s]},
           timer' = timer \/ timer' = [timer EXCEPT ![s] = msg[s]],
           rx' = Idle \/ (rx' = rx /\ ~(rx.pc \in {"arm", "free"} /\ rx.slot = s)),
           rx.pc # "boot",
           UNCHANGED <<pool, wq, tickets, claims, cancelled>>
    PROVE  Inv'
<1>1. flags' \in [Slot -> SUBSET Flag] /\ queue' \in Seq(Slot)
    BY SubmitType DEF Inv
<1>2. /\ \A u \in Slot : u # s => flags'[u] = flags[u]
      /\ "DELAYED" \notin flags'[s]
    BY SubmitFlags DEF Inv
<1>3. msg[s] \in 1 .. tickets
    BY DEF Inv, SlotDiscipline, MessagesAreLive
<1>4. msg[s] \in Ticket
    BY <1>3, TicketAssumption DEF Inv, TypeOK, Ticket
<1>5. /\ timer' \in [Slot -> Ticket \union {0}]
      /\ \A u \in Slot : u # s => timer'[u] = timer[u]
    BY <1>4 DEF Inv, TypeOK
<1>6. rx' = Idle => rx'.pc = "idle" /\ rx' \in [pc : {"idle"}, slot : {NoSlot}]
    BY DEF Idle
<1>7. TypeOK'
    BY <1>1, <1>4, <1>5, <1>6 DEF Inv, TypeOK, pool
<1>8. FreeSlotIsQuiet'
    BY <1>2 DEF Inv, SlotDiscipline, FreeSlotIsQuiet, pool
<1>9. QueueMatchesFlags'
    BY SubmitQueue DEF Inv, SlotDiscipline
<1>10. FlagsMatchMessage'
    BY <1>2, <1>5 DEF Inv, SlotDiscipline, FlagsMatchMessage, Starting, pool
<1>11. MessagesAreLive'
    BY DEF Inv, SlotDiscipline, MessagesAreLive, pool
<1>12. ThreadsHoldSlots'
    <2>1. CASE rx' = Idle
        BY <1>6, <2>1 DEF Inv, SlotDiscipline, ThreadsHoldSlots, RxHoldsMutex
    <2>2. CASE rx' = rx /\ ~(rx.pc \in {"arm", "free"} /\ rx.slot = s)
        BY <1>2, <2>2 DEF Inv, SlotDiscipline, ThreadsHoldSlots, RxHoldsMutex,
                          Starting, pool
    <2>3. QED
        BY <2>1, <2>2
<1>13. Claimed'
    BY DEF Inv, Claimed, ClaimedAtMostOnce, CancelledNeverClaimed,
           ClaimedOnlyWhenDue
<1>14. QED
    BY <1>7, <1>8, <1>9, <1>10, <1>11, <1>12, <1>13, InvParts

\* The delay that expires was started for the message now in the slot.
LEMMA TimerExpireInv ==
    ASSUME Inv, NEW s \in Slot, TimerExpire(s)
    PROVE  Inv'
<1>1. /\ "DELAYED" \in flags[s] /\ Submit(s) /\ due' = due \union {timer[s]}
      /\ UNCHANGED <<pool, timer, wq, rx, tickets, claims, cancelled>>
    BY DEF TimerExpire
<1>2. occupied[s]
    BY <1>1 DEF Inv, SlotDiscipline, FreeSlotIsQuiet
<1>3. timer[s] = msg[s] /\ ~Starting(s)
    BY <1>1 DEF Inv, SlotDiscipline, FlagsMatchMessage
<1>4. rx.pc # "boot" /\ ~(rx.pc \in {"arm", "free"} /\ rx.slot = s)
    BY <1>1 DEF Inv, SlotDiscipline, ThreadsHoldSlots
<1>5. QED
    BY <1>1, <1>2, <1>3, <1>4, SubmitInv

\* Arming: the slot's work is idle, running or being cancelled.
LEMMA ScheduleArmInv ==
    ASSUME Inv, NEW cfg \in DelayConfig, NEW rssi \in Rssi, ScheduleArm(cfg, rssi)
    PROVE  Inv'
<1> DEFINE s == rx.slot
           delay == ts_contention_rssi_to_delay_ms(cfg, rssi)
<1>1. /\ rx.pc = "arm" /\ rx' = Idle /\ k_work_schedule(s, delay)
      /\ UNCHANGED <<pool, wq, tickets, claims, cancelled>>
    BY DEF ScheduleArm
<1>2. /\ s \in Slot /\ occupied[s] /\ ~Starting(s)
    BY <1>1 DEF Inv, SlotDiscipline, ThreadsHoldSlots, RxHoldsMutex
<1>3. CASE flags[s] \ {"RUNNING"} # {}
    <2>1. UNCHANGED <<flags, timer, queue, due>>
        BY <1>1, <1>3 DEF k_work_schedule
    <2>2. QED
        BY <1>1, <2>1, RxLeavesInv DEF history
<1>4. CASE flags[s] \ {"RUNNING"} = {} /\ delay = 0
    <2>1. /\ timer' = [timer EXCEPT ![s] = msg[s]]
          /\ Submit(s) /\ due' = due \union {msg[s]}
        BY <1>1, <1>4 DEF k_work_schedule
    <2>2. QED
        BY <1>1, <1>2, <2>1, SubmitInv
<1>5. CASE flags[s] \ {"RUNNING"} = {} /\ delay # 0
    <2>1. /\ timer' = [timer EXCEPT ![s] = msg[s]]
          /\ flags' = [flags EXCEPT ![s] = @ \union {"DELAYED"}]
          /\ UNCHANGED <<queue, due>>
        BY <1>1, <1>5 DEF k_work_schedule
    <2>2. /\ flags \in [Slot -> SUBSET Flag] /\ timer \in [Slot -> Ticket \union {0}]
          /\ msg[s] \in Ticket \union {0}
        BY <1>2 DEF Inv, TypeOK
    <2>3. flags[s] \union {"DELAYED"} \in SUBSET Flag
        BY <1>2, <2>2 DEF Flag
    <2>4. /\ flags' \in [Slot -> SUBSET Flag] /\ timer' \in [Slot -> Ticket \union {0}]
          /\ timer'[s] = msg[s] /\ "QUEUED" \notin flags'[s]
          /\ \A u \in Slot : u # s => flags'[u] = flags[u] /\ timer'[u] = timer[u]
          /\ \A u \in Slot : "QUEUED" \in flags'[u] <=> "QUEUED" \in flags[u]
        BY <1>2, <1>5, <2>1, <2>2, <2>3
    <2>5. rx'.pc = "idle" /\ rx' \in [pc : {"idle"}, slot : {NoSlot}]
        BY <1>1 DEF Idle
    <2>6. TypeOK'
        BY <1>1, <2>1, <2>4, <2>5 DEF Inv, TypeOK, pool
    <2>7. FreeSlotIsQuiet'
        BY <1>1, <1>2, <2>4 DEF Inv, SlotDiscipline, FreeSlotIsQuiet, pool
    <2>8. QueueMatchesFlags'
        BY <2>1, <2>4 DEF Inv, SlotDiscipline, QueueMatchesFlags, TypeOK
    <2>9. FlagsMatchMessage'
        BY <1>1, <1>2, <2>1, <2>4
           DEF Inv, SlotDiscipline, FlagsMatchMessage, Starting, pool
    <2>10. MessagesAreLive'
        BY <1>1 DEF Inv, SlotDiscipline, MessagesAreLive, pool
    <2>11. ThreadsHoldSlots'
        BY <1>1, <2>5 DEF Inv, SlotDiscipline, ThreadsHoldSlots, RxHoldsMutex
    <2>12. Claimed'
        BY <1>1, <2>1 DEF Inv, Claimed, ClaimedAtMostOnce, CancelledNeverClaimed,
                          ClaimedOnlyWhenDue
    <2>13. QED
        BY <2>6, <2>7, <2>8, <2>9, <2>10, <2>11, <2>12, InvParts
<1>6. QED
    BY <1>3, <1>4, <1>5

\* The cancelled work item is neither delayed nor queued any more.
LEMMA CancelWorkInv ==
    ASSUME Inv, CancelWork
    PROVE  Inv'
<1> DEFINE s == rx.slot
           left == flags[s] \ {"DELAYED", "QUEUED"}
<1>1. /\ rx.pc = "cancel" /\ rx' = [rx EXCEPT !.pc = "free"]
      /\ k_work_cancel_delayable(s)
      /\ UNCHANGED <<pool, timer, wq, tickets, history>>
    BY DEF CancelWork
<1>2. s \in Slot /\ occupied[s]
    BY <1>1 DEF Inv, SlotDiscipline, ThreadsHoldSlots, RxHoldsMutex
<1>3. /\ flags \in [Slot -> SUBSET Flag] /\ queue \in Seq(Slot)
      /\ rx \in [pc : {"boot", "idle", "arm", "cancel", "free"},
                 slot : Slot \union {NoSlot}]
    BY DEF Inv, TypeOK
<1>4. rx' \in [pc : {"free"}, slot : Slot] /\ rx'.pc = "free" /\ rx'.slot = s
    BY <1>1, <1>2, <1>3
<1>5. flags' = [flags EXCEPT ![s] = IF left = {} THEN {} ELSE left \union {"CANCELING"}]
    BY <1>1 DEF k_work_cancel_delayable
<1>6. (IF left = {} THEN {} ELSE left \union {"CANCELING"}) \in SUBSET Flag
    BY <1>2, <1>3 DEF Flag
<1>7. /\ flags' \in [Slot -> SUBSET Flag]
      /\ flags'[s] \intersect {"DELAYED", "QUEUED"} = {}
      /\ \A u \in Slot : u # s => flags'[u] = flags[u]
    BY <1>2, <1>3, <1>5, <1>6
<1>8. queue' \in Seq(Slot) /\ QueueMatchesFlags'
    <2>1. /\ \A i \in DOMAIN queue : queue[i] \in Slot /\ "QUEUED" \in flags[queue[i]]
          /\ \A i, j \in DOMAIN queue : queue[i] = queue[j] => i = j
        BY <1>3 DEF Inv, SlotDiscipline, QueueMatchesFlags
    <2>2. CASE \E p \in DOMAIN queue : queue[p] = s
        <3>1. PICK p \in DOMAIN queue : queue[p] = s /\ queue' = Without(queue, p)
            BY <1>1, <2>2 DEF k_work_cancel_delayable
        <3>2. /\ queue' \in Seq(Slot)
              /\ \A i \in DOMAIN queue' :
                    \E j \in DOMAIN queue : j # p /\ queue'[i] = queue[j]
              /\ \A i, j \in DOMAIN queue' : queue'[i] = queue'[j] => i = j
            BY <1>3, <2>1, <3>1, WithoutQueue
        <3>3. \A j \in DOMAIN queue : j # p => queue[j] # s
            BY <2>1, <3>1
        <3>4. \A i \in DOMAIN queue' : "QUEUED" \in flags'[queue'[i]]
            BY <1>7, <2>1, <3>2, <3>3
        <3>5. QED
            BY <3>2, <3>4 DEF QueueMatchesFlags
    <2>3. CASE ~ \E p \in DOMAIN queue : queue[p] = s
        <3>1. queue' = queue
            BY <1>1, <2>3 DEF k_work_cancel_delayable
        <3>2. QED
            BY <1>3, <1>7, <2>1, <2>3, <3>1 DEF QueueMatchesFlags
    <2>4. QED
        BY <2>2, <2>3
<1>9. TypeOK'
    BY <1>1, <1>4, <1>7, <1>8 DEF Inv, TypeOK, pool, history
<1>10. FreeSlotIsQuiet'
    BY <1>1, <1>2, <1>7 DEF Inv, SlotDiscipline, FreeSlotIsQuiet, pool
<1>11. FlagsMatchMessage'
    BY <1>1, <1>7 DEF Inv, SlotDiscipline, FlagsMatchMessage, Starting, pool, history
<1>12. MessagesAreLive'
    BY <1>1 DEF Inv, SlotDiscipline, MessagesAreLive, pool, history
<1>13. ThreadsHoldSlots'
    BY <1>1, <1>2, <1>4, <1>7
       DEF Inv, SlotDiscipline, ThreadsHoldSlots, RxHoldsMutex, pool
<1>14. Claimed'
    BY <1>1 DEF Inv, Claimed, ClaimedAtMostOnce, CancelledNeverClaimed,
                ClaimedOnlyWhenDue, history
<1>15. QED
    BY <1>8, <1>9, <1>10, <1>11, <1>12, <1>13, <1>14, InvParts

-----------------------------------------------------------------------------
\* The pool at power-on satisfies the invariant.
LEMMA InvInit == Init => Inv
<1> SUFFICES ASSUME Init PROVE Inv
    OBVIOUS
<1>1. TypeOK
    BY TicketAssumption DEF Init, TypeOK, Idle, NoSlot
<1>2. FreeSlotIsQuiet /\ QueueMatchesFlags /\ FlagsMatchMessage
    BY DEF Init, FreeSlotIsQuiet, QueueMatchesFlags, FlagsMatchMessage, Starting, Idle
<1>3. MessagesAreLive
    BY DEF Init, MessagesAreLive
<1>4. ThreadsHoldSlots
    BY DEF Init, ThreadsHoldSlots, RxHoldsMutex, Idle
<1>5. Claimed
    BY DEF Init, Claimed, ClaimedAtMostOnce, CancelledNeverClaimed, ClaimedOnlyWhenDue
<1>6. QED
    BY <1>1, <1>2, <1>3, <1>4, <1>5 DEF Inv, SlotDiscipline

\* Every step of contention.c, of the timer and of the work queue keeps it.
LEMMA InvNext == Inv /\ [Next]_vars => Inv'
<1> SUFFICES ASSUME Inv, [Next]_vars PROVE Inv'
    OBVIOUS
<1>1. CASE UNCHANGED vars
    BY <1>1 DEF vars, pool, history, Inv, SlotDiscipline, TypeOK, FreeSlotIsQuiet,
                QueueMatchesFlags, FlagsMatchMessage, Starting, MessagesAreLive,
                ThreadsHoldSlots, RxHoldsMutex, Claimed, ClaimedAtMostOnce,
                CancelledNeverClaimed, ClaimedOnlyWhenDue
<1>2. CASE Wq
    BY <1>2, WqStartInv, WqOtherInv, HandlerDoneInv, HandlerClaimsInv DEF Wq
<1>3. CASE Rx
    <2>1. CASE ScheduleFull \/ \E k \in Key : CancelMiss(k)
        <3>1. UNCHANGED vars
            BY <2>1 DEF ScheduleFull, CancelMiss
        <3>2. QED
            BY <1>1, <3>1
    <2>2. QED
        BY <1>3, <2>1, InitPoolInv, ScheduleFillInv, CancelFindInv, ScheduleArmInv,
           CancelWorkInv, CancelFreeInv DEF Rx
<1>4. CASE \E s \in Slot : TimerExpire(s)
    BY <1>4, TimerExpireInv
<1>5. QED
    BY <1>1, <1>2, <1>3, <1>4 DEF Next

\* The variables of contention.c keep their types, whatever the pool size.
THEOREM TypeCorrect == Spec => []TypeOK
<1>1. Inv => TypeOK
    BY DEF Inv
<1>2. QED
    BY <1>1, InvInit, InvNext, PTL DEF Spec

\* Each busy flag of a work item is about the message now in its slot, and a
\* free slot is quiet: what ts_contention_schedule relies on when it reuses a
\* slot without looking at its work item.
THEOREM SlotsAreDisciplined == Spec => []SlotDiscipline
<1>1. Inv => SlotDiscipline
    BY DEF Inv
<1>2. QED
    BY <1>1, InvInit, InvNext, PTL DEF Spec

\* ts_contention_work_handler publishes a scheduled forward at most once, for
\* every pool size and any number of messages that reuse its slot.
THEOREM ForwardedOnce == Spec => []ClaimedAtMostOnce
<1>1. Inv => ClaimedAtMostOnce
    BY DEF Inv, Claimed
<1>2. QED
    BY <1>1, InvInit, InvNext, PTL DEF Spec

\* Once ts_contention_cancel returned 0, no interleaving of the timer, the work
\* queue and the RX thread makes the handler publish that message.
THEOREM CancelIsFinal == Spec => []CancelledNeverClaimed
<1>1. Inv => CancelledNeverClaimed
    BY DEF Inv, Claimed
<1>2. QED
    BY <1>1, InvInit, InvNext, PTL DEF Spec

\* The handler never publishes a message whose own delay has not expired, so no
\* timer or queue entry of a slot's previous message fires for the next one.
THEOREM NeverEarly == Spec => []ClaimedOnlyWhenDue
<1>1. Inv => ClaimedOnlyWhenDue
    BY DEF Inv, Claimed
<1>2. QED
    BY <1>1, InvInit, InvNext, PTL DEF Spec

-----------------------------------------------------------------------------
(* The stranded slot *)

\* An occupied slot that nothing will empty: its delay is not running, its work
\* is not queued, no handler is about to claim it, and RX is neither arming nor
\* freeing it.  ContentionOrphan.cfg shows that the code reaches one.
Stranded(s) ==
    /\ occupied[s]
    /\ ~Armed(s)
    /\ ~Starting(s)
    /\ ~(rx.pc \in {"arm", "free"} /\ rx.slot = s)

\* A work item that is being cancelled is neither delayed nor queued, so a
\* submission by the timer is never refused.
CancellingIsQuiet == \A s \in Slot : "CANCELING" \in flags[s] => ~Armed(s)

\* The step that strands slot s.
ArmsCancelling(s) == rx.pc = "arm" /\ rx.slot = s /\ "CANCELING" \in flags[s]

\* What arming, cancelling and the timer make of the flags of their slot.
LEMMA ArmFlags ==
    ASSUME Inv, CancellingIsQuiet, NEW cfg \in DelayConfig, NEW rssi \in Rssi,
           ScheduleArm(cfg, rssi)
    PROVE  /\ rx.slot \in Slot /\ UNCHANGED <<pool, wq>> /\ rx' = Idle
           /\ \A u \in Slot : u # rx.slot => flags'[u] = flags[u]
           /\ "CANCELING" \in flags[rx.slot] => flags' = flags
           /\ "CANCELING" \notin flags[rx.slot] =>
                 /\ flags'[rx.slot] \intersect {"DELAYED", "QUEUED"} # {}
                 /\ "CANCELING" \notin flags'[rx.slot]
<1> DEFINE s == rx.slot
           delay == ts_contention_rssi_to_delay_ms(cfg, rssi)
<1>1. /\ s \in Slot /\ flags \in [Slot -> SUBSET Flag]
      /\ flags[s] \intersect {"DELAYED", "QUEUED"} = {}
    BY DEF Inv, TypeOK, SlotDiscipline, ThreadsHoldSlots, RxHoldsMutex, ScheduleArm
<1>2. k_work_schedule(s, delay) /\ UNCHANGED <<pool, wq>> /\ rx' = Idle
    BY DEF ScheduleArm
<1> HIDE DEF s, delay
<1>3. CASE "CANCELING" \in flags[s]
    <2>1. flags[s] \ {"RUNNING"} # {}
        BY <1>3
    <2>2. flags' = flags
        BY <1>2, <2>1 DEF k_work_schedule
    <2>3. QED
        BY <1>1, <1>2, <1>3, <2>2 DEF s
<1>4. CASE "CANCELING" \notin flags[s]
    <2>1. flags[s] \ {"RUNNING"} = {}
        BY <1>1, <1>4 DEF Flag
    <2>2. CASE delay = 0
        <3>1. flags' = [flags EXCEPT ![s] = (@ \ {"DELAYED"}) \union {"QUEUED"}]
            BY <1>1, <1>2, <1>4, <2>1, <2>2 DEF k_work_schedule, Submit
        <3>2. /\ \A u \in Slot : u # s => flags'[u] = flags[u]
              /\ "QUEUED" \in flags'[s] /\ "CANCELING" \notin flags'[s]
            BY <1>1, <1>4, <3>1
        <3>3. QED
            BY <1>1, <1>2, <1>4, <3>2 DEF s
    <2>3. CASE delay # 0
        <3>1. flags' = [flags EXCEPT ![s] = @ \union {"DELAYED"}]
            BY <1>2, <2>1, <2>3 DEF k_work_schedule
        <3>2. /\ \A u \in Slot : u # s => flags'[u] = flags[u]
              /\ "DELAYED" \in flags'[s] /\ "CANCELING" \notin flags'[s]
            BY <1>1, <1>4, <3>1
        <3>3. QED
            BY <1>1, <1>2, <1>4, <3>2 DEF s
    <2>4. QED
        BY <2>2, <2>3
<1>5. QED
    BY <1>3, <1>4

LEMMA CancelFlags ==
    ASSUME Inv, CancelWork
    PROVE  /\ rx.slot \in Slot /\ UNCHANGED <<pool, wq>>
           /\ rx'.pc = "free" /\ rx'.slot = rx.slot
           /\ \A u \in Slot : u # rx.slot => flags'[u] = flags[u]
           /\ flags'[rx.slot] \intersect {"DELAYED", "QUEUED"} = {}
<1> DEFINE s == rx.slot
           left == flags[s] \ {"DELAYED", "QUEUED"}
<1>1. /\ s \in Slot /\ flags \in [Slot -> SUBSET Flag]
      /\ rx \in [pc : {"boot", "idle", "arm", "cancel", "free"},
                 slot : Slot \union {NoSlot}]
    BY DEF Inv, TypeOK, SlotDiscipline, ThreadsHoldSlots, RxHoldsMutex, CancelWork
<1>2. /\ UNCHANGED <<pool, wq>> /\ rx' = [rx EXCEPT !.pc = "free"]
      /\ flags' = [flags EXCEPT ![s] = IF left = {} THEN {} ELSE left \union {"CANCELING"}]
    BY DEF CancelWork, k_work_cancel_delayable
<1>3. rx'.pc = "free" /\ rx'.slot = s
    BY <1>1, <1>2
<1>4. flags'[s] \intersect {"DELAYED", "QUEUED"} = {}
    BY <1>1, <1>2
<1>5. \A u \in Slot : u # s => flags'[u] = flags[u]
    BY <1>1, <1>2
<1>6. QED
    BY <1>1, <1>2, <1>3, <1>4, <1>5

LEMMA TimerFlags ==
    ASSUME Inv, CancellingIsQuiet, NEW s \in Slot, TimerExpire(s)
    PROVE  /\ UNCHANGED <<pool, wq, rx>>
           /\ \A u \in Slot : u # s => flags'[u] = flags[u]
           /\ Armed(s)' /\ "CANCELING" \notin flags'[s]
<1>1. flags \in [Slot -> SUBSET Flag] /\ "DELAYED" \in flags[s]
    BY DEF Inv, TypeOK, TimerExpire
<1>2. "CANCELING" \notin flags[s] /\ "QUEUED" \notin flags[s]
    BY <1>1 DEF Inv, SlotDiscipline, FlagsMatchMessage, CancellingIsQuiet, Armed
<1>3. flags[s] \intersect {"CANCELING", "QUEUED"} = {}
    BY <1>2
<1>4. flags' = [flags EXCEPT ![s] = (@ \ {"DELAYED"}) \union {"QUEUED"}]
    BY <1>3 DEF TimerExpire, Submit
<1>5. QED
    BY <1>1, <1>2, <1>4 DEF TimerExpire, Armed

\* Arming a slot whose work is being cancelled is the one way to strand it.
LEMMA StrandingStep ==
    ASSUME Inv, CancellingIsQuiet, [Next]_vars
    PROVE  /\ CancellingIsQuiet'
           /\ \A s \in Slot : Stranded(s)' => Stranded(s) \/ ArmsCancelling(s)
<1> DEFINE Goal == /\ CancellingIsQuiet'
                   /\ \A s \in Slot : Stranded(s)' => Stranded(s) \/ ArmsCancelling(s)
<1> SUFFICES Goal
    OBVIOUS
<1>0. flags \in [Slot -> SUBSET Flag] /\ occupied \in [Slot -> BOOLEAN]
    BY DEF Inv, TypeOK
<1>1. CASE UNCHANGED vars
    BY <1>1 DEF vars, CancellingIsQuiet, Stranded, Armed, Starting
<1>2. CASE WqStart
    <2> DEFINE h == Head(queue)
    <2>1. /\ queue \in Seq(Slot) /\ queue # <<>> /\ 1 \in DOMAIN queue /\ h = queue[1]
        BY <1>2 DEF Inv, TypeOK, WqStart
    <2>2. h \in Slot /\ "QUEUED" \in flags[h]
        BY <2>1 DEF Inv, SlotDiscipline, QueueMatchesFlags
    <2>3. /\ flags' = [flags EXCEPT ![h] = (@ \ {"QUEUED"}) \union {"RUNNING"}]
          /\ wq.pc = "idle" /\ wq' = [pc |-> "start", slot |-> h]
          /\ UNCHANGED <<pool, rx>>
        BY <1>2 DEF WqStart
    <2> HIDE DEF h
    <2>4. /\ "CANCELING" \notin flags'[h] /\ wq'.pc = "start" /\ wq'.slot = h
          /\ \A u \in Slot : u # h => flags'[u] = flags[u]
        BY <1>0, <2>2, <2>3 DEF CancellingIsQuiet, Armed
    <2>5. QED
        BY <2>3, <2>4 DEF CancellingIsQuiet, Stranded, Armed, Starting, pool
<1>3. CASE WqOther \/ WqOtherDone
    BY <1>3 DEF WqOther, WqOtherDone, CancellingIsQuiet, Stranded, Armed, Starting, pool
<1>4. CASE HandlerFindsFree \/ HandlerPublishes
    <2>1. /\ wq.slot \in Slot /\ wq' = Idle /\ UNCHANGED <<pool, rx>>
          /\ flags' = [flags EXCEPT ![wq.slot] = @ \ {"RUNNING", "CANCELING"}]
          /\ wq.pc = "start" => ~occupied[wq.slot]
        BY <1>4 DEF HandlerFindsFree, HandlerPublishes, HandlerDone, Inv, SlotDiscipline,
                    ThreadsHoldSlots
    <2>2. \A u \in Slot :
            /\ flags'[u] \intersect {"DELAYED", "QUEUED"}
                  = flags[u] \intersect {"DELAYED", "QUEUED"}
            /\ "CANCELING" \in flags'[u] => "CANCELING" \in flags[u]
        BY <1>0, <2>1
    <2>3. QED
        BY <2>1, <2>2 DEF CancellingIsQuiet, Stranded, Armed, Starting, pool
<1>5. CASE HandlerClaims
    <2>1. /\ wq.slot \in Slot /\ wq.pc = "start" /\ UNCHANGED <<flags, rx>>
          /\ occupied' = [occupied EXCEPT ![wq.slot] = FALSE]
        BY <1>5 DEF HandlerClaims, Inv, SlotDiscipline, ThreadsHoldSlots
    <2>2. \A u \in Slot : occupied'[u] => occupied[u] /\ u # wq.slot
        BY <1>0, <2>1
    <2>3. QED
        BY <2>1, <2>2 DEF CancellingIsQuiet, Stranded, Armed, Starting
<1>6. CASE ts_contention_init
    BY <1>6 DEF ts_contention_init, CancellingIsQuiet, Stranded
<1>7. ASSUME NEW k \in Key, ScheduleFill(k) PROVE Goal
    <2>1. PICK s \in Slot : /\ occupied' = [occupied EXCEPT ![s] = TRUE]
                            /\ rx' = [pc |-> "arm", slot |-> s]
        BY <1>7 DEF ScheduleFill
    <2>2. rx.pc = "idle" /\ UNCHANGED <<flags, wq>>
        BY <1>7 DEF ScheduleFill
    <2>3. \A u \in Slot : u # s => occupied'[u] = occupied[u]
        BY <1>0, <2>1
    <2>4. QED
        BY <2>1, <2>2, <2>3 DEF CancellingIsQuiet, Stranded, Armed, Starting
<1>8. ASSUME NEW k \in Key, CancelFind(k) PROVE Goal
    <2>1. rx.pc = "idle" /\ UNCHANGED <<pool, flags, wq>>
        BY <1>8 DEF CancelFind
    <2>2. QED
        BY <2>1 DEF CancellingIsQuiet, Stranded, Armed, Starting, pool
<1>9. ASSUME NEW cfg \in DelayConfig, NEW rssi \in Rssi, ScheduleArm(cfg, rssi)
      PROVE  Goal
    <2>1. rx.pc = "arm"
        BY <1>9 DEF ScheduleArm
    <2>2. CASE "CANCELING" \in flags[rx.slot]
        <3>1. flags' = flags /\ UNCHANGED <<pool, wq>> /\ rx' = Idle
            BY <1>9, <2>2, ArmFlags
        <3>2. QED
            BY <2>1, <2>2, <3>1
               DEF CancellingIsQuiet, Stranded, ArmsCancelling, Armed, Starting, pool
    <2>3. CASE "CANCELING" \notin flags[rx.slot]
        <3>1. /\ rx.slot \in Slot /\ UNCHANGED <<pool, wq>> /\ rx' = Idle
              /\ \A u \in Slot : u # rx.slot => flags'[u] = flags[u]
              /\ flags'[rx.slot] \intersect {"DELAYED", "QUEUED"} # {}
              /\ "CANCELING" \notin flags'[rx.slot]
            BY <1>9, <2>3, ArmFlags
        <3>2. QED
            BY <3>1 DEF CancellingIsQuiet, Stranded, Armed, Starting, pool
    <2>4. QED
        BY <2>2, <2>3
<1>10. CASE CancelWork
    <2>1. /\ rx.slot \in Slot /\ UNCHANGED <<pool, wq>>
          /\ rx'.pc = "free" /\ rx'.slot = rx.slot /\ rx.pc = "cancel"
          /\ \A u \in Slot : u # rx.slot => flags'[u] = flags[u]
          /\ flags'[rx.slot] \intersect {"DELAYED", "QUEUED"} = {}
        BY <1>10, CancelFlags DEF CancelWork
    <2>2. QED
        BY <2>1 DEF CancellingIsQuiet, Stranded, Armed, Starting, pool
<1>11. CASE CancelFree
    <2>1. /\ rx.slot \in Slot /\ rx.pc = "free" /\ UNCHANGED <<flags, wq>>
          /\ occupied' = [occupied EXCEPT ![rx.slot] = FALSE]
        BY <1>11 DEF CancelFree, Inv, SlotDiscipline, ThreadsHoldSlots, RxHoldsMutex
    <2>2. \A u \in Slot : occupied'[u] => occupied[u] /\ u # rx.slot
        BY <1>0, <2>1
    <2>3. QED
        BY <2>1, <2>2 DEF CancellingIsQuiet, Stranded, Armed, Starting
<1>12. ASSUME NEW s \in Slot, TimerExpire(s) PROVE Goal
    <2>1. /\ UNCHANGED <<pool, wq, rx>>
          /\ \A u \in Slot : u # s => flags'[u] = flags[u]
          /\ flags'[s] \intersect {"DELAYED", "QUEUED"} # {} /\ "CANCELING" \notin flags'[s]
        BY <1>12, TimerFlags DEF Armed
    <2>2. QED
        BY <2>1 DEF CancellingIsQuiet, Stranded, Armed, Starting, pool
<1>13. ASSUME ScheduleFull \/ \E k \in Key : CancelMiss(k) PROVE Goal
    BY <1>1, <1>13 DEF ScheduleFull, CancelMiss
<1>14. QED
    BY <1>1, <1>2, <1>3, <1>4, <1>5, <1>6, <1>7, <1>8, <1>9, <1>10, <1>11, <1>12, <1>13
       DEF Next, Wq, Rx

\* A forward is lost in the pool in one way only: ts_contention_schedule reuses a
\* slot whose cancelled handler has not returned, and k_work_schedule refuses
\* without a word.  No race of the timer, the work queue and the RX thread
\* strands a slot otherwise.
THEOREM OnlyRearmingStrands ==
    Spec => [][\A s \in Slot : Stranded(s)' => Stranded(s) \/ ArmsCancelling(s)]_vars
<1>1. Init => CancellingIsQuiet
    BY DEF Init, CancellingIsQuiet
<1>2. Inv /\ CancellingIsQuiet /\ [Next]_vars => CancellingIsQuiet'
    BY StrandingStep
<1>3. Inv /\ CancellingIsQuiet /\ [Next]_vars =>
        [\A s \in Slot : Stranded(s)' => Stranded(s) \/ ArmsCancelling(s)]_vars
    BY StrandingStep
<1>4. QED
    BY <1>1, <1>2, <1>3, InvInit, InvNext, PTL DEF Spec

\* The comment in ts_contention_cancel is right where it speaks about work that
\* has "not yet started": as long as RX arms no slot whose work is still being
\* cancelled, every occupied slot outside the critical sections has a running
\* delay, a queued work item or a handler about to claim it.
THEOREM ArmedUnlessRearmed ==
    Spec /\ [](\A s \in Slot : ~ArmsCancelling(s)) => []OccupiedSlotIsArmed
<1> DEFINE NoneStranded == \A s \in Slot : ~Stranded(s)
           NeverRearms == \A s \in Slot : ~ArmsCancelling(s)
<1>1. Init => CancellingIsQuiet /\ NoneStranded
    BY DEF Init, CancellingIsQuiet, Stranded
<1>2. /\ Inv /\ CancellingIsQuiet /\ [Next]_vars => CancellingIsQuiet'
      /\ Inv /\ CancellingIsQuiet /\ NoneStranded /\ NeverRearms /\ [Next]_vars =>
            NoneStranded'
    BY StrandingStep
<1>3. NoneStranded => OccupiedSlotIsArmed
    BY DEF Stranded, OccupiedSlotIsArmed, RxHoldsMutex, Starting
<1>4. QED
    BY <1>1, <1>2, <1>3, InvInit, InvNext, PTL DEF Spec

-----------------------------------------------------------------------------
(* The delay *)

\* A quotient and its divisor bound the dividend.
LEMMA Quotient ==
    ASSUME NEW a \in Nat, NEW c \in Nat, c > 0
    PROVE  a \div c \in Nat /\ c * (a \div c) <= a /\ a < c * (a \div c) + c
BY Z3

\* Division by a positive number keeps the order, and undoes a product.
LEMMA DivisionKeepsOrder ==
    ASSUME NEW a \in Nat, NEW b \in Nat, a <= b, NEW c \in Nat, c > 0
    PROVE  a \div c <= b \div c
<1> DEFINE p == a \div c
           q == b \div c
<1>1. p \in Nat /\ q \in Nat /\ c * p <= a /\ b < c * q + c
    BY Quotient
<1> HIDE DEF p, q
<1>2. ASSUME p > q PROVE FALSE
    <2>1. c * p >= c * (q + 1)
        BY <1>1, <1>2
    <2>2. c * (q + 1) = c * q + c
        BY <1>1
    <2>3. QED
        BY <1>1, <2>1, <2>2
<1>3. QED
    BY <1>1, <1>2 DEF p, q

\* The ramp between the thresholds: offsets in order get delays in order, and
\* none exceeds the maximum.
LEMMA Ramp ==
    ASSUME NEW o \in Nat, NEW u \in Nat, NEW range \in Nat, NEW max \in Nat,
           o <= u, u < range
    PROVE  /\ (o * max) \div range \in Nat
           /\ (o * max) \div range <= (u * max) \div range
           /\ (u * max) \div range <= max
<1>1. o * max \in Nat /\ u * max \in Nat /\ range * max \in Nat /\ range > 0
    OBVIOUS
<1>2. o * max <= u * max /\ u * max <= range * max
    OBVIOUS
<1>3. (o * max) \div range \in Nat
    BY <1>1, Quotient
<1>4. (o * max) \div range <= (u * max) \div range
    BY <1>1, <1>2, DivisionKeepsOrder
<1>5. (u * max) \div range <= (range * max) \div range
    BY <1>1, <1>2, DivisionKeepsOrder
<1>6. (range * max) \div range = max
    BY <1>1
<1>7. QED
    BY <1>3, <1>4, <1>5, <1>6

\* For every configuration that ts_config_set accepts with a minimum of 0, and
\* all signal strengths: a weaker packet is never forwarded after a stronger
\* one, and none waits longer than contention_delay_max_ms.
THEOREM DelayFollowsSignal == Spec => []WeakestForwardsFirst
<1>1. ASSUME NEW cfg \in DelayConfig, NEW r \in Rssi, NEW w \in Rssi,
             cfg.contention_delay_min_ms = 0, w <= r
      PROVE  /\ Delay(cfg, w) <= Delay(cfg, r)
             /\ Delay(cfg, r) \in 0 .. cfg.contention_delay_max_ms
    <2> DEFINE weak == cfg.contention_rssi_weak
               strong == cfg.contention_rssi_strong
               max == cfg.contention_delay_max_ms
               ramp(x) == ((x - weak) * max) \div (strong - weak)
    <2>1. /\ weak \in Int /\ strong \in Int /\ max \in Nat
          /\ r \in Int /\ w \in Int
        BY DelayAssumption
    <2>2. ASSUME NEW x \in Rssi
          PROVE  /\ x <= weak => Delay(cfg, x) = 0
                 /\ ~(x <= weak) /\ x >= strong => Delay(cfg, x) = max
                 /\ ~(x <= weak) /\ ~(x >= strong) => Delay(cfg, x) = ramp(x)
        BY <1>1 DEF Delay, ts_contention_rssi_to_delay_ms
    <2> HIDE DEF weak, strong, max
    <2>3. ASSUME NEW x \in Int, NEW y \in Int, ~(x <= weak), x <= y, ~(y >= strong)
          PROVE  ramp(x) \in Nat /\ ramp(x) <= ramp(y) /\ ramp(y) <= max
        <3>1. /\ x - weak \in Nat /\ y - weak \in Nat /\ strong - weak \in Nat
              /\ x - weak <= y - weak /\ y - weak < strong - weak
            BY <2>1, <2>3
        <3>2. QED
            BY <2>1, <3>1, Ramp
    <2>4. ASSUME NEW x \in Int, ~(x <= weak), ~(x >= strong)
          PROVE  ramp(x) \in Nat /\ ramp(x) <= max
        BY <2>3, <2>4
    <2> HIDE DEF ramp
    <2>5. CASE r <= weak
        <3>1. w <= weak
            BY <1>1, <2>1, <2>5
        <3>2. Delay(cfg, w) = 0 /\ Delay(cfg, r) = 0
            BY <2>2, <2>5, <3>1
        <3>3. QED
            BY <2>1, <3>2 DEF max
    <2>6. CASE ~(r <= weak) /\ r >= strong
        <3>1. Delay(cfg, r) = max
            BY <2>2, <2>6
        <3>2. Delay(cfg, w) \in Nat /\ Delay(cfg, w) <= max
            BY <2>1, <2>2, <2>4
        <3>3. QED
            BY <2>1, <3>1, <3>2 DEF max
    <2>7. CASE ~(r <= weak) /\ ~(r >= strong)
        <3>1. Delay(cfg, r) = ramp(r) /\ ramp(r) \in Nat /\ ramp(r) <= max
            BY <2>1, <2>2, <2>4, <2>7
        <3>2. w <= weak => Delay(cfg, w) = 0
            BY <2>2
        <3>3. ~(w <= weak) => Delay(cfg, w) = ramp(w) /\ ramp(w) <= ramp(r)
            <4>1. ~(w >= strong)
                BY <1>1, <2>1, <2>7
            <4>2. QED
                BY <1>1, <2>1, <2>2, <2>3, <2>7, <4>1
        <3>4. QED
            BY <2>1, <3>1, <3>2, <3>3 DEF max
    <2>8. QED
        BY <2>5, <2>6, <2>7
<1>2. WeakestForwardsFirst
    BY <1>1 DEF WeakestForwardsFirst
<1>3. QED
    BY <1>2, PTL

\* Why DelayFollowsSignal asks for a minimum of 0.  The ramp starts at 0 and not at
\* contention_delay_min_ms: in every configuration, a packet between the thresholds
\* whose share of the maximum is below the minimum is forwarded before a packet at
\* the weak threshold, although contention.h says "Weaker signal results in shorter
\* delay (forward sooner)".
THEOREM RampStartsBelowMinimum ==
    ASSUME NEW cfg \in DelayConfig, NEW r \in Int,
           cfg.contention_rssi_weak < r, r < cfg.contention_rssi_strong,
           (r - cfg.contention_rssi_weak) * cfg.contention_delay_max_ms
             < (cfg.contention_rssi_strong - cfg.contention_rssi_weak)
                 * cfg.contention_delay_min_ms
    PROVE  Delay(cfg, r) < Delay(cfg, cfg.contention_rssi_weak)
<1> DEFINE a == (r - cfg.contention_rssi_weak) * cfg.contention_delay_max_ms
           range == cfg.contention_rssi_strong - cfg.contention_rssi_weak
           min == cfg.contention_delay_min_ms
<1>1. Delay(cfg, r) = a \div range /\ Delay(cfg, cfg.contention_rssi_weak) = min
    BY DelayAssumption DEF Delay, ts_contention_rssi_to_delay_ms
<1>2. a \in Nat /\ range \in Nat /\ range > 0 /\ min \in Nat /\ a < range * min
    BY DelayAssumption
<1> DEFINE q == a \div range
<1>3. q \in Nat /\ range * q <= a
    BY <1>2, Quotient
<1> HIDE DEF a, range, min, q
<1>4. ASSUME q >= min PROVE FALSE
    <2>1. range * q >= range * min
        BY <1>2, <1>3, <1>4
    <2>2. range * q \in Nat /\ range * min \in Nat
        BY <1>2, <1>3
    <2>3. QED
        BY <1>2, <1>3, <2>1, <2>2
<1>5. QED
    BY <1>1, <1>2, <1>3, <1>4 DEF q

-----------------------------------------------------------------------------
(* The pool implements ForwardPool *)

\* While a slot is free, fewer than PoolSize forwards are pending.
LEMMA FreeSlotLeavesRoom ==
    ASSUME NEW s \in Slot, ~occupied[s]
    PROVE  Cardinality(Pending) < PoolSize
<1> DEFINE taken == {u \in Slot : occupied[u]}
           entry == [u \in taken |-> [ticket |-> msg[u], key |-> key[u]]]
<1>1. /\ IsFiniteSet(Slot) /\ Cardinality(Slot) = PoolSize
    BY PoolAssumption, FS_Interval DEF Slot
<1>2. IsFiniteSet(Slot \ {s}) /\ Cardinality(Slot \ {s}) = PoolSize - 1
    BY <1>1, FS_RemoveElement
<1>3. taken \subseteq Slot \ {s}
    OBVIOUS
<1>4. IsFiniteSet(taken) /\ Cardinality(taken) <= PoolSize - 1
    BY <1>2, <1>3, FS_Subset
<1>5. entry \in Surjection(taken, Pending)
    BY DEF Pending, Surjection
<1>6. IsFiniteSet(Pending) /\ Cardinality(Pending) <= Cardinality(taken)
    BY <1>4, <1>5, FS_Surjection
<1>7. Cardinality(taken) \in Nat /\ Cardinality(Pending) \in Nat
    BY <1>4, <1>6, FS_CardinalityType
<1>8. QED
    BY <1>4, <1>6, <1>7, PoolAssumption

\* A slot that is emptied, with all else in the pool unchanged, takes its
\* message and no other out of the pending ones: no two slots hold one message.
LEMMA EmptiedSlot ==
    ASSUME Inv, NEW s \in Slot, occupied[s],
           occupied' = [occupied EXCEPT ![s] = FALSE], UNCHANGED <<key, msg>>
    PROVE  LET p == [ticket |-> msg[s], key |-> key[s]]
           IN  p \in Pending /\ Pending' = Pending \ {p}
<1> DEFINE entry(u) == [ticket |-> msg[u], key |-> key[u]]
<1>1. occupied \in [Slot -> BOOLEAN]
    BY DEF Inv, TypeOK
<1>2. \A u \in Slot : occupied'[u] <=> occupied[u] /\ u # s
    BY <1>1
<1>3. \A u \in Slot : occupied[u] /\ entry(u) = entry(s) => u = s
    BY DEF Inv, SlotDiscipline, MessagesAreLive
<1>4. Pending = {entry(u) : u \in {v \in Slot : occupied[v]}}
    BY DEF Pending
<1>5. Pending' = {entry(u) : u \in {v \in Slot : occupied'[v]}}
    BY DEF Pending
<1> HIDE DEF entry
<1>6. entry(s) \in Pending /\ Pending' = Pending \ {entry(s)}
    BY <1>2, <1>3, <1>4, <1>5
<1>7. QED
    BY <1>6 DEF entry

\* Every step of the two threads and of the timer is one step of ForwardPool,
\* or none.
LEMMA StepRefines ==
    ASSUME Inv, [Next]_vars
    PROVE  [Abstract!Next]_(Abstract!vars)
<1> DEFINE out == {t \in Ticket : claims[t] > 0}
<1>1. ASSUME UNCHANGED <<pool, tickets, claims, cancelled>>
      PROVE  UNCHANGED Abstract!vars
    BY <1>1 DEF Abstract!vars, Pending, pool
<1>2. ASSUME NEW k \in Key, ScheduleFill(k)
      PROVE  Abstract!Next
    <2>1. PICK s \in Slot :
            /\ ~occupied[s]
            /\ occupied' = [occupied EXCEPT ![s] = TRUE]
            /\ key' = [key EXCEPT ![s] = k]
            /\ msg' = [msg EXCEPT ![s] = tickets + 1]
        BY <1>2 DEF ScheduleFill, find_free_slot
    <2>2. /\ occupied \in [Slot -> BOOLEAN] /\ DOMAIN key = Slot /\ DOMAIN msg = Slot
        BY DEF Inv, TypeOK
    <2>3. /\ \A u \in Slot : occupied'[u] <=> occupied[u] \/ u = s
          /\ \A u \in Slot : u # s => key'[u] = key[u] /\ msg'[u] = msg[u]
          /\ key'[s] = k /\ msg'[s] = tickets + 1
        BY <2>1, <2>2
    <2>4. Pending' = Pending \union {[ticket |-> tickets + 1, key |-> k]}
        <3> DEFINE entry(u) == [ticket |-> msg[u], key |-> key[u]]
                   next(u) == [ticket |-> msg'[u], key |-> key'[u]]
                   new == [ticket |-> tickets + 1, key |-> k]
        <3>1. Pending = {entry(u) : u \in {v \in Slot : occupied[v]}}
            BY DEF Pending
        <3>2. Pending' = {next(u) : u \in {v \in Slot : occupied'[v]}}
            BY DEF Pending
        <3>3. next(s) = new /\ \A u \in Slot : u # s => next(u) = entry(u)
            BY <2>3
        <3> HIDE DEF entry, next, new
        <3>4. Pending' = Pending \union {new}
            BY <2>1, <2>3, <3>1, <3>2, <3>3
        <3>5. QED
            BY <3>4 DEF new
    <2>5. Cardinality(Pending) < PoolSize
        BY <2>1, FreeSlotLeavesRoom
    <2>6. tickets' = tickets + 1 /\ claims' = claims /\ cancelled' = cancelled
        BY <1>2 DEF ScheduleFill, history
    <2>7. out' = out
        BY <2>6
    <2>8. Abstract!Schedule(k)
        BY <2>4, <2>5, <2>6, <2>7 DEF Abstract!Schedule, Abstract!Cardinality, Cardinality
    <2>9. QED
        BY <2>8 DEF Abstract!Next, Abstract!Schedule
<1>3. ASSUME HandlerClaims
      PROVE  Abstract!Next
    <2> DEFINE s == wq.slot
               p == [ticket |-> msg[s], key |-> key[s]]
    <2>1. s \in Slot /\ occupied[s]
        BY <1>3 DEF HandlerClaims, Inv, SlotDiscipline, ThreadsHoldSlots
    <2>2. p \in Pending /\ Pending' = Pending \ {p}
        BY <1>3, <2>1, EmptiedSlot DEF HandlerClaims
    <2>3. /\ msg[s] \in Ticket /\ claims[msg[s]] = 0 /\ claims \in [Ticket -> Nat]
          /\ claims' = [claims EXCEPT ![msg[s]] = @ + 1]
        BY <1>3, <2>1, TicketAssumption
           DEF HandlerClaims, Inv, TypeOK, SlotDiscipline, MessagesAreLive, Ticket
    <2>4. out' = out \union {msg[s]}
        BY <2>3
    <2>5. tickets' = tickets /\ cancelled' = cancelled /\ p.ticket = msg[s]
        BY <1>3 DEF HandlerClaims
    <2> HIDE DEF p
    <2>6. Abstract!Forward(p)
        BY <2>2, <2>4, <2>5 DEF Abstract!Forward
    <2>7. QED
        BY <2>2, <2>6 DEF Abstract!Next, Abstract!Forward
<1>4. ASSUME CancelFree
      PROVE  Abstract!Next
    <2> DEFINE s == rx.slot
               p == [ticket |-> msg[s], key |-> key[s]]
    <2>1. s \in Slot /\ occupied[s]
        BY <1>4 DEF CancelFree, Inv, SlotDiscipline, ThreadsHoldSlots, RxHoldsMutex
    <2>2. p \in Pending /\ Pending' = Pending \ {p}
        BY <1>4, <2>1, EmptiedSlot DEF CancelFree
    <2>3. Abstract!Cancel(p)
        BY <1>4, <2>2 DEF Abstract!Cancel, CancelFree
    <2>4. QED
        BY <2>2, <2>3 DEF Abstract!Next
<1>5. ASSUME ts_contention_init
      PROVE  UNCHANGED Abstract!vars
    <2>1. occupied' = occupied
        BY <1>5 DEF ts_contention_init, Inv, TypeOK, SlotDiscipline, ThreadsHoldSlots
    <2>2. QED
        BY <1>1, <1>5, <2>1 DEF ts_contention_init, pool, history
<1>6. CASE Wq
    <2>1. CASE WqStart \/ WqOther \/ WqOtherDone \/ HandlerFindsFree \/ HandlerPublishes
        BY <1>1, <2>1 DEF WqStart, WqOther, WqOtherDone, HandlerFindsFree,
                          HandlerPublishes, history
    <2>2. QED
        BY <1>3, <1>6, <2>1 DEF Wq
<1>7. CASE Rx
    <2>1. ASSUME NEW k \in Key, CancelFind(k) \/ CancelMiss(k)
          PROVE  UNCHANGED Abstract!vars
        BY <1>1, <2>1 DEF CancelFind, CancelMiss, vars, pool, history
    <2>2. ASSUME NEW cfg \in DelayConfig, NEW rssi \in Rssi, ScheduleArm(cfg, rssi)
          PROVE  UNCHANGED Abstract!vars
        BY <1>1, <2>2 DEF ScheduleArm
    <2>3. ASSUME ScheduleFull \/ CancelWork
          PROVE  UNCHANGED Abstract!vars
        BY <1>1, <2>3 DEF ScheduleFull, CancelWork, vars, pool, history
    <2>4. QED
        BY <1>2, <1>4, <1>5, <1>7, <2>1, <2>2, <2>3 DEF Rx
<1>8. CASE \E s \in Slot : TimerExpire(s)
    BY <1>1, <1>8 DEF TimerExpire
<1>9. CASE UNCHANGED vars
    BY <1>1, <1>9 DEF vars, pool, history
<1>10. QED
    BY <1>6, <1>7, <1>8, <1>9 DEF Next

\* contention.c implements the abstract pool, for every pool size: whatever the
\* threads and the timer do, at most PoolSize forwards are pending and each one
\* leaves once, published or cancelled.
THEOREM Refinement == Spec => ImplementsForwardPool
<1>1. Init => Abstract!Init
    <2> SUFFICES ASSUME Init PROVE Abstract!Init
        OBVIOUS
    <2>1. Pending = {}
        BY DEF Init, Pending
    <2>2. {t \in Ticket : claims[t] > 0} = {}
        BY DEF Init
    <2>3. QED
        BY <2>1, <2>2 DEF Init, Abstract!Init
<1>2. QED
    BY <1>1, InvInit, InvNext, StepRefines, PTL DEF Spec, ImplementsForwardPool, Abstract!Spec
=============================================================================
