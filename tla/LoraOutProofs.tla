---------------------------- MODULE LoraOutProofs ---------------------------
(***************************************************************************)
(* Proofs about LoraOut, for every depth of the notification queue and any *)
(* number of messages.  None of them needs the threads' priorities: they   *)
(* hold for every interleaving of the producers with lora_out_task.        *)
(***************************************************************************)
EXTENDS LoraOut, FiniteSetTheorems, SequenceTheorems, TLAPS

\* Where a thread can stand: only the radio threads wait for lora_ready_sem,
\* only producers publish, only TX reads.
Places ==
    /\ \A p \in Producer :
           pc[p] \in {"boot", "regive", "idle", "lock", "put", "unlock"}
    /\ pc["tx"] \in {"boot", "regive", "wait", "read", "copy", "send"}

\* The channel's semaphore: whoever writes, notifies or copies holds it.
Mutex ==
    /\ \A p \in Producer : pc[p] \in {"put", "unlock"} <=> sem = p
    /\ pc["tx"] = "copy" <=> sem = "tx"

\* TX has consumed a notification and not yet taken the message it stands for.
Owed == IF pc["tx"] \in {"read", "copy"} THEN 1 ELSE 0

\* Every notification, waiting, consumed or turned into a transmission, was put
\* in the queue by a publish of its own, and all of those were of messages
\* written so far; a message is acknowledged only by the notification.
Paid ==
    /\ acked \subseteq 1 .. chan
    /\ \A p \in Producer : pc[p] = "put" => chan > 0 /\ chan \notin acked
    /\ Len(taken) + notes + Owed <= Cardinality(acked)

\* The inductive invariant.
Inv ==
    /\ TypeOK
    /\ Places
    /\ Mutex
    /\ Paid
    /\ TakenInOrder
    /\ NewestNotStranded

-----------------------------------------------------------------------------
\* The finite set of acknowledged messages has a size.
LEMMA AckedIsFinite ==
    ASSUME Inv
    PROVE  IsFiniteSet(acked) /\ Cardinality(acked) \in Nat
  <1>1. IsFiniteSet(1 .. chan) /\ acked \subseteq 1 .. chan
    BY FS_Interval DEF Inv, TypeOK, Paid
  <1> QED
    BY <1>1, FS_Subset, FS_CardinalityType

\* Whoever consumed a notification or finds one finds a message in the channel.
LEMMA NoteMeansMessage ==
    ASSUME Inv, notes + Owed > 0
    PROVE  chan > 0
  <1>1. Cardinality(acked) > 0
    BY AckedIsFinite DEF Inv, TypeOK, Paid, Owed
  <1>2. acked # {}
    BY <1>1, FS_EmptySet
  <1>3. PICK a \in acked : a \in 1 .. chan
    BY <1>2 DEF Inv, Paid
  <1> QED
    BY <1>3 DEF Inv, TypeOK

\* An acknowledgement that is new makes the set one larger.
LEMMA AckCounts ==
    ASSUME Inv, chan \notin acked
    PROVE  Cardinality(acked \union {chan}) = Cardinality(acked) + 1
  BY AckedIsFinite, FS_AddElement

-----------------------------------------------------------------------------
\* What TxCopy appends is the newest message, so the order is kept.
LEMMA TakenGrows ==
    ASSUME Inv, chan > 0, taken' = Append(taken, chan), chan' = chan
    PROVE  TakenInOrder' /\ Len(taken') = Len(taken) + 1 /\ taken' \in Seq(0 .. MaxMsgs)
           /\ \E i \in DOMAIN taken' : taken'[i] = chan
  <1>1. taken \in Seq(0 .. MaxMsgs) /\ chan \in 0 .. MaxMsgs /\ Len(taken) \in Nat
    BY DEF Inv, TypeOK
  <1>2. /\ taken' \in Seq(0 .. MaxMsgs)
        /\ Len(taken') = Len(taken) + 1
        /\ DOMAIN taken' = 1 .. Len(taken) + 1
        /\ DOMAIN taken = 1 .. Len(taken)
        /\ \A i \in DOMAIN taken : taken'[i] = taken[i]
        /\ taken'[Len(taken) + 1] = chan
    BY <1>1
  <1>3. ASSUME NEW i \in DOMAIN taken' PROVE taken'[i] \in 1 .. chan
    BY <1>1, <1>2, MsgsAssumption DEF Inv, TakenInOrder
  <1>4. ASSUME NEW i \in DOMAIN taken', NEW j \in DOMAIN taken', i < j
        PROVE  taken'[i] <= taken'[j]
    <2>1. i \in DOMAIN taken
      BY <1>1, <1>2, <1>4
    <2>2. CASE j \in DOMAIN taken
      BY <1>2, <1>4, <2>1, <2>2 DEF Inv, TakenInOrder
    <2>3. CASE j = Len(taken) + 1
      BY <1>1, <1>2, <2>1, <2>3 DEF Inv, TakenInOrder
    <2> QED
      BY <1>1, <1>2, <2>2, <2>3
  <1>5. TakenInOrder'
    BY <1>3, <1>4 DEF TakenInOrder
  <1> QED
    BY <1>1, <1>2, <1>5

\* A step that only moves one thread between places where it neither holds the
\* channel nor owes a read keeps the invariant, whatever it does to the ready
\* semaphore.
LEMMA MoveKeepsInv ==
    ASSUME Inv, NEW t \in Thread, NEW l, Goto(t, l),
           lora_ready' \in {0, 1},
           UNCHANGED <<sem, chan, notes, copy, history>>,
           pc[t] \notin {"put", "unlock", "read", "copy"},
           l \in IF t = "tx" THEN {"boot", "regive", "wait", "send"}
                            ELSE {"boot", "regive", "idle", "lock"}
    PROVE  Inv'
  <1> USE DEF Goto, Producer, Thread, history
  <1>1. /\ pc' \in [Thread -> {"boot", "regive", "idle", "lock", "put", "unlock",
                              "wait", "read", "copy", "send"}]
        /\ pc'[t] = l
        /\ \A u \in Thread : u # t => pc'[u] = pc[u]
    BY DEF Inv, TypeOK
  <1>2. TypeOK'
    BY <1>1 DEF Inv, TypeOK
  <1>3. Places' /\ Mutex'
    BY <1>1 DEF Inv, Places, Mutex
  <1>4. Paid'
    BY <1>1 DEF Inv, Paid, Owed
  <1>5. TakenInOrder'
    BY DEF Inv, TakenInOrder
  <1>6. NewestNotStranded'
    BY <1>1 DEF Inv, NewestNotStranded, Unread
  <1> QED
    BY <1>2, <1>3, <1>4, <1>5, <1>6 DEF Inv

\* A producer's part of zbus_chan_pub keeps the invariant.
LEMMA PublishKeepsInv ==
    ASSUME Inv, NEW p \in Producer, Publish(p) \/ PubStep(p)
    PROVE  Inv'
  <1> USE DEF Goto, Step, Producer, Thread, history
  <1>0. /\ pc \in [Thread -> {"boot", "regive", "idle", "lock", "put", "unlock",
                              "wait", "read", "copy", "send"}]
        /\ p \in Thread /\ p # "tx" /\ p # "none"
    BY DEF Inv, TypeOK
  <1>1. CASE Publish(p)
    BY <1>0, <1>1, MoveKeepsInv DEF Publish, Inv, TypeOK
  <1>2. CASE PubLock(p)
    <2>1. /\ pc' = [pc EXCEPT ![p] = "put"] /\ sem' = p /\ sem = "none"
          /\ chan' = chan + 1 /\ chan < MaxMsgs
          /\ UNCHANGED <<lora_ready, notes, copy, history>>
      BY <1>2 DEF PubLock
    <2>2. TypeOK'
      BY <1>0, <2>1, MsgsAssumption DEF Inv, TypeOK
    <2>3. Places' /\ Mutex'
      BY <1>0, <2>1 DEF Inv, Places, Mutex
    <2>4. acked' \subseteq 1 .. chan' /\ chan' \notin acked' /\ chan' > 0
      BY <2>1 DEF Inv, TypeOK, Paid
    <2>5. Paid'
      BY <1>0, <2>1, <2>4 DEF Inv, Paid, Owed
    <2>6. TakenInOrder'
      BY <2>1 DEF Inv, TypeOK, TakenInOrder
    <2>7. NewestNotStranded'
      BY <1>0, <2>1 DEF NewestNotStranded
    <2> QED
      BY <2>2, <2>3, <2>5, <2>6, <2>7 DEF Inv
  <1>3. CASE PubLockTimeout(p)
    BY <1>0, <1>3, MoveKeepsInv DEF PubLockTimeout, Inv, TypeOK
  <1>4. CASE PubNotify(p)
    <2>1. /\ pc[p] = "put" /\ pc' = [pc EXCEPT ![p] = "unlock"]
          /\ notes < Depth /\ notes' = notes + 1 /\ acked' = acked \union {chan}
          /\ UNCHANGED <<lora_ready, sem, chan, copy, taken, missed>>
      BY <1>4 DEF PubNotify
    <2>2. chan > 0 /\ chan \notin acked
      BY <2>1 DEF Inv, Paid
    <2>3. TypeOK'
      BY <1>0, <2>1, <2>2, DepthAssumption DEF Inv, TypeOK
    <2>4. Places' /\ Mutex'
      BY <1>0, <2>1 DEF Inv, Places, Mutex
    <2>5. \A q \in Producer : pc'[q] # "put"
      BY <1>0, <2>1 DEF Inv, Mutex
    <2>6. Len(taken') + notes' + Owed' <= Cardinality(acked')
      <3>1. Owed' = Owed /\ Owed \in {0, 1} /\ Len(taken) \in Nat /\ notes \in Nat
        BY <1>0, <2>1 DEF Owed, Inv, TypeOK
      <3>2. Cardinality(acked') = Cardinality(acked) + 1
        BY <2>1, <2>2, AckCounts
      <3> QED
        BY <2>1, <3>1, <3>2, AckedIsFinite DEF Inv, Paid
    <2>7. acked' \subseteq 1 .. chan'
      BY <2>1, <2>2 DEF Inv, TypeOK, Paid
    <2>8. TakenInOrder'
      BY <2>1 DEF Inv, TakenInOrder
    <2>9. NewestNotStranded'
      BY <2>1 DEF NewestNotStranded, Inv, TypeOK
    <2> QED
      BY <2>3, <2>4, <2>5, <2>6, <2>7, <2>8, <2>9 DEF Inv, Paid
  <1>5. CASE PubNotifyTimeout(p)
    <2>1. /\ pc[p] = "put" /\ pc' = [pc EXCEPT ![p] = "unlock"] /\ notes = Depth
          /\ UNCHANGED <<lora_ready, sem, chan, notes, copy, history>>
      BY <1>5 DEF PubNotifyTimeout
    <2>2. TypeOK' /\ Places' /\ Mutex'
      BY <1>0, <2>1 DEF Inv, TypeOK, Places, Mutex
    <2>3. Paid'
      BY <1>0, <2>1 DEF Inv, Paid, Owed
    <2>4. TakenInOrder'
      BY <2>1 DEF Inv, TakenInOrder
    <2>5. NewestNotStranded'
      BY <2>1, DepthAssumption DEF NewestNotStranded
    <2> QED
      BY <2>2, <2>3, <2>4, <2>5 DEF Inv
  <1>6. CASE PubUnlock(p)
    <2>1. /\ pc[p] = "unlock" /\ pc' = [pc EXCEPT ![p] = "idle"] /\ sem' = "none"
          /\ UNCHANGED <<lora_ready, chan, notes, copy, history>>
      BY <1>6 DEF PubUnlock
    <2>2. TypeOK' /\ Places' /\ Mutex'
      BY <1>0, <2>1 DEF Inv, TypeOK, Places, Mutex
    <2>3. Paid'
      BY <1>0, <2>1 DEF Inv, Paid, Owed
    <2>4. TakenInOrder'
      BY <2>1 DEF Inv, TakenInOrder
    <2>5. NewestNotStranded'
      BY <1>0, <2>1 DEF Inv, NewestNotStranded, Unread
    <2> QED
      BY <2>2, <2>3, <2>4, <2>5 DEF Inv
  <1> QED
    BY <1>1, <1>2, <1>3, <1>4, <1>5, <1>6 DEF PubStep

\* A step of lora_out_task keeps the invariant.
LEMMA TxKeepsInv == ASSUME Inv, Tx PROVE Inv'
  <1> USE DEF Goto, Step, Producer, Thread, history
  <1>0. /\ pc \in [Thread -> {"boot", "regive", "idle", "lock", "put", "unlock",
                              "wait", "read", "copy", "send"}]
        /\ Len(taken) \in Nat /\ notes \in Nat /\ Cardinality(acked) \in Nat
    BY AckedIsFinite DEF Inv, TypeOK
  <1>1. CASE TxWait
    <2>1. /\ pc["tx"] = "wait" /\ pc' = [pc EXCEPT !["tx"] = "read"]
          /\ notes > 0 /\ notes' = notes - 1
          /\ UNCHANGED <<lora_ready, sem, chan, copy, history>>
      BY <1>1 DEF TxWait
    <2>2. TypeOK' /\ Places' /\ Mutex'
      BY <1>0, <2>1, DepthAssumption DEF Inv, TypeOK, Places, Mutex
    <2>3. Paid'
      BY <1>0, <2>1 DEF Inv, Paid, Owed
    <2>4. TakenInOrder'
      BY <2>1 DEF Inv, TakenInOrder
    <2>5. NewestNotStranded'
      BY <1>0, <2>1 DEF NewestNotStranded
    <2> QED
      BY <2>2, <2>3, <2>4, <2>5 DEF Inv
  <1>2. CASE TxRead
    <2>1. /\ pc["tx"] = "read" /\ pc' = [pc EXCEPT !["tx"] = "copy"]
          /\ sem = "none" /\ sem' = "tx"
          /\ UNCHANGED <<lora_ready, chan, notes, copy, history>>
      BY <1>2 DEF TxRead
    <2>2. TypeOK' /\ Places' /\ Mutex'
      BY <1>0, <2>1 DEF Inv, TypeOK, Places, Mutex
    <2>3. Paid'
      BY <1>0, <2>1 DEF Inv, Paid, Owed
    <2>4. TakenInOrder'
      BY <2>1 DEF Inv, TakenInOrder
    <2>5. NewestNotStranded'
      BY <1>0, <2>1 DEF NewestNotStranded
    <2> QED
      BY <2>2, <2>3, <2>4, <2>5 DEF Inv
  <1>3. CASE TxReadTimeout
    <2>1. /\ pc["tx"] = "read" /\ pc' = [pc EXCEPT !["tx"] = "wait"]
          /\ missed' = missed \union {chan}
          /\ UNCHANGED <<lora_ready, sem, chan, notes, copy, taken, acked>>
      BY <1>3 DEF TxReadTimeout
    <2>2. chan > 0
      BY <1>0, <2>1, NoteMeansMessage DEF Owed
    <2>3. TypeOK' /\ Places' /\ Mutex'
      BY <1>0, <2>1, <2>2 DEF Inv, TypeOK, Places, Mutex
    <2>4. Paid'
      BY <1>0, <2>1 DEF Inv, Paid, Owed
    <2>5. TakenInOrder'
      BY <2>1 DEF Inv, TakenInOrder
    <2>6. NewestNotStranded'
      BY <2>1 DEF NewestNotStranded
    <2> QED
      BY <2>3, <2>4, <2>5, <2>6 DEF Inv
  <1>4. CASE TxCopy
    <2>1. /\ pc["tx"] = "copy" /\ pc' = [pc EXCEPT !["tx"] = "send"]
          /\ sem' = "none" /\ copy' = chan /\ taken' = Append(taken, chan)
          /\ UNCHANGED <<lora_ready, chan, notes, acked, missed>>
      BY <1>4 DEF TxCopy
    <2>2. chan > 0
      BY <1>0, <2>1, NoteMeansMessage DEF Owed
    <2>3. /\ TakenInOrder' /\ Len(taken') = Len(taken) + 1
          /\ taken' \in Seq(0 .. MaxMsgs)
          /\ \E i \in DOMAIN taken' : taken'[i] = chan
      BY <2>1, <2>2, TakenGrows
    <2>4. TypeOK' /\ Places' /\ Mutex'
      BY <1>0, <2>1, <2>3 DEF Inv, TypeOK, Places, Mutex
    <2>5. Paid'
      BY <1>0, <2>1, <2>3 DEF Inv, Paid, Owed
    <2>6. NewestNotStranded'
      BY <2>1, <2>3 DEF NewestNotStranded, Unread
    <2> QED
      BY <2>3, <2>4, <2>5, <2>6 DEF Inv
  <1>5. CASE TxSend
    BY <1>0, <1>5, MoveKeepsInv DEF TxSend, Inv, TypeOK
  <1> QED
    BY <1>1, <1>2, <1>3, <1>4, <1>5 DEF Tx

-----------------------------------------------------------------------------
\* The invariant holds at first and every step keeps it.
LEMMA InvHolds == Spec => []Inv
  <1> USE DEF Producer, Thread
  <1>1. Init => Inv
    <2> SUFFICES ASSUME Init PROVE Inv
      OBVIOUS
    <2> USE MsgsAssumption, DepthAssumption DEF Init
    <2>1. TypeOK /\ Places /\ Mutex
      BY DEF TypeOK, Places, Mutex
    <2>2. Cardinality({}) = 0
      BY FS_EmptySet
    <2>3. Paid
      BY <2>2 DEF Paid, Owed
    <2>4. TakenInOrder /\ NewestNotStranded
      BY DEF TakenInOrder, NewestNotStranded, Unread
    <2> QED
      BY <2>1, <2>3, <2>4 DEF Inv
  <1>2. Inv /\ [Next]_vars => Inv'
    <2> SUFFICES ASSUME Inv, [Next]_vars PROVE Inv'
      OBVIOUS
    <2>1. ASSUME NEW t \in {"rx", "tx"}, TakeReady(t) PROVE Inv'
      BY <2>1, MoveKeepsInv DEF TakeReady, Step, Inv, TypeOK
    <2>2. ASSUME NEW t \in {"rx", "tx"}, GiveReady(t) PROVE Inv'
      BY <2>2, MoveKeepsInv DEF GiveReady, Step, Started
    <2>3. ASSUME NEW p \in Producer, Publish(p) \/ PubStep(p) PROVE Inv'
      BY <2>3, PublishKeepsInv
    <2>4. CASE Tx
      BY <2>4, TxKeepsInv
    <2>5. CASE UNCHANGED vars
      BY <2>5 DEF vars, Inv, TypeOK, Places, Mutex, Paid, Owed, TakenInOrder,
                  NewestNotStranded, Unread
    <2> QED
      BY <2>1, <2>2, <2>3, <2>4, <2>5 DEF Next, SensorFails
  <1> QED
    BY <1>1, <1>2, PTL DEF Spec

\* Type correctness: lora_ready_sem stays binary, the notification queue within
\* its depth, and a read that gave up was of a message, never of the empty
\* channel.
THEOREM TypeCorrect == Spec => []TypeOK
  <1>1. Inv => TypeOK
    BY DEF Inv
  <1> QED
    BY <1>1, InvHolds, PTL

\* One thread at a time is inside the channel: the producers write and notify,
\* and TX copies, only while they hold its semaphore.
THEOREM ChannelIsExclusive == Spec => []Mutex
  <1>1. Inv => Mutex
    BY DEF Inv
  <1> QED
    BY <1>1, InvHolds, PTL

\* lora_out_task transmits messages in the order of their publication and
\* nothing that was not published, in every interleaving.
THEOREM SentInOrder == Spec => []TakenInOrder
  <1>1. Inv => TakenInOrder
    BY DEF Inv
  <1> QED
    BY <1>1, InvHolds, PTL

\* lora_out_task transmits at most as often as zbus_chan_pub succeeded: neither a
\* failed publish nor an overwritten message multiplies packets on the air.
THEOREM SentAtMostAsPublished == Spec => []OneTransmissionPerPublish
  <1>1. Inv => OneTransmissionPerPublish
    <2> SUFFICES ASSUME Inv PROVE OneTransmissionPerPublish
      OBVIOUS
    <2>1. /\ Len(taken) \in Nat /\ notes \in Nat /\ Owed \in {0, 1}
          /\ Cardinality(acked) \in Nat
      BY AckedIsFinite DEF Inv, TypeOK, Owed
    <2> QED
      BY <2>1 DEF Inv, Paid, OneTransmissionPerPublish
  <1> QED
    BY <1>1, InvHolds, PTL

\* The newest message in ts_lora_out_chan is never forgotten there, even if its
\* own publish failed on a full queue: TX still has a notification to consume,
\* unless a read of it gave up.
THEOREM NewestStaysReachable == Spec => []NewestNotStranded
  <1>1. Inv => NewestNotStranded
    BY DEF Inv
  <1> QED
    BY <1>1, InvHolds, PTL

-----------------------------------------------------------------------------
\* lora_ready_sem is one token: available, or in the hands of the radio thread
\* that has taken it and not yet given it back; or lora_init failed, and then no
\* radio thread ever gets past it.
Regiving(t) == pc[t] = "regive"
TokenKept ==
    /\ ~(Regiving("rx") /\ Regiving("tx"))
    /\ lora_ready = 1 => ~Regiving("rx") /\ ~Regiving("tx")
    /\ lora_ready = 0 => \/ Regiving("rx") \/ Regiving("tx")
                         \/ pc["rx"] = "boot" /\ pc["tx"] = "boot"

\* The radio threads never lock each other out at boot: once either has got past
\* lora_ready_sem, the semaphore is available to the other or about to be given
\* back.  What BothThreadsStart needs beside fairness, for every interleaving.
THEOREM ReadyIsPassedOn == Spec => []TokenKept
  <1> USE DEF Producer, Thread
  <1>1. Init => TokenKept
    BY DEF Init, TokenKept, Regiving
  <1>2. Inv /\ TokenKept /\ [Next]_vars => TokenKept'
    <2> SUFFICES ASSUME Inv, TokenKept, [Next]_vars PROVE TokenKept'
      OBVIOUS
    <2>0. DOMAIN pc = Thread /\ lora_ready \in {0, 1} /\ Places
      BY DEF Inv, TypeOK
    <2>1. ASSUME NEW t \in {"rx", "tx"}, TakeReady(t) PROVE TokenKept'
      BY <2>0, <2>1 DEF TakeReady, Step, Goto, TokenKept, Regiving
    <2>2. ASSUME NEW t \in {"rx", "tx"}, GiveReady(t) PROVE TokenKept'
      BY <2>0, <2>2 DEF GiveReady, Started, Step, Goto, TokenKept, Regiving
    <2>3. ASSUME NEW t \in Thread, NEW l, Goto(t, l), UNCHANGED lora_ready,
                 pc[t] \notin {"boot", "regive"}, l \notin {"boot", "regive"}
          PROVE  TokenKept'
      BY <2>0, <2>3 DEF Goto, TokenKept, Regiving
    <2>4. ASSUME NEW p \in Producer, Publish(p) \/ PubStep(p) PROVE TokenKept'
      BY <2>3, <2>4 DEF Publish, PubStep, PubLock, PubLockTimeout, PubNotify,
                        PubNotifyTimeout, PubUnlock, Step
    <2>5. CASE Tx
      BY <2>3, <2>5 DEF Tx, TxWait, TxRead, TxReadTimeout, TxCopy, TxSend, Step
    <2>6. CASE UNCHANGED vars
      BY <2>6 DEF vars, TokenKept, Regiving
    <2> QED
      BY <2>1, <2>2, <2>4, <2>5, <2>6 DEF Next, SensorFails
  <1> QED
    BY <1>1, <1>2, InvHolds, PTL DEF Spec
=============================================================================
