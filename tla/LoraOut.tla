------------------------------- MODULE LoraOut ------------------------------
(***************************************************************************)
(* The way of a message to the radio: main() (heartbeats), the system work *)
(* queue (sensor readings, contention forwards) and the RX thread (config  *)
(* acks) publish on ts_lora_out_chan; lora_out_task waits for a            *)
(* notification, reads the channel and transmits.                          *)
(*                                                                         *)
(* The channel holds ONE message, guarded by a semaphore, and its          *)
(* subscriber a queue of notifications; both belong to zbus, which is not  *)
(* in the repository and is modelled as the code uses it.  A message is    *)
(* its position in the order in which messages were written to the         *)
(* channel, so the channel's content is the number of the latest one.      *)
(***************************************************************************)
EXTENDS Naturals, Sequences, FiniteSets

CONSTANTS
    Depth,      \* the depth of ts_lora_out_sub's notification queue
    MaxMsgs     \* bound: messages written to the channel

ASSUME DepthAssumption == Depth \in Nat \ {0}
ASSUME MsgsAssumption == MaxMsgs \in Nat

Producer == {"wq", "rx", "main"}
Thread == Producer \union {"tx"}

\* The work queue is cooperative, RX and TX have priority 3, main() has 5.
Above(t) == CASE t = "wq" -> {}
              [] t \in {"rx", "tx"} -> {"wq"}
              [] t = "main" -> {"wq", "rx", "tx"}

VARIABLES
    pc,         \* where each thread stands
    lora_ready, \* lora_ready_sem
    sem,        \* who holds the channel: a thread, or "none"
    chan,       \* the message in the channel; 0 at first
    notes,      \* notifications waiting in ts_lora_out_sub
    copy,       \* the message that TX has read
    taken,      \* history: the messages TX has read, in order
    acked,      \* history: the messages whose publish returned 0
    missed      \* history: the messages whose read timed out

vars == <<pc, lora_ready, sem, chan, notes, copy, taken, acked, missed>>
history == <<taken, acked, missed>>

Goto(t, l) == pc' = [pc EXCEPT ![t] = l]

\* Can thread t take its next step, if the processor is given to it?
Ready(t) ==
    \/ pc[t] = "boot" /\ lora_ready > 0
    \/ pc[t] \in {"regive", "unlock", "copy"}
    \/ pc[t] \in {"lock", "read"} /\ sem = "none"
    \/ pc[t] = "put" /\ notes < Depth
    \/ pc[t] = "wait" /\ notes > 0

\* Preemptive priorities on one processor.  A thread that idles or waits for
\* the radio is woken by an interrupt, at any time.
MayRun(t) == \A u \in Above(t) : ~Ready(u)

Step(t, l) == pc[t] = l /\ MayRun(t)

-----------------------------------------------------------------------------
(* lora_ready_sem: both radio threads take it and give it back.             *)

\* lora_init succeeds, or fails and never gives the semaphore.
Init ==
    /\ pc = [t \in Thread |-> IF t \in {"rx", "tx"} THEN "boot" ELSE "idle"]
    /\ lora_ready \in {0, 1}
    /\ sem = "none"
    /\ chan = 0
    /\ notes = 0
    /\ copy = 0
    /\ taken = <<>>
    /\ acked = {}
    /\ missed = {}

TakeReady(t) ==
    /\ Step(t, "boot")
    /\ lora_ready > 0
    /\ lora_ready' = lora_ready - 1
    /\ Goto(t, "regive")
    /\ UNCHANGED <<sem, chan, notes, copy, history>>

Started(t) == IF t = "tx" THEN "wait" ELSE "idle"

\* Fault: the semaphore is not given back.
GiveReady_Forgotten(t) ==
    /\ Step(t, "regive")
    /\ Goto(t, Started(t))
    /\ UNCHANGED <<lora_ready, sem, chan, notes, copy, history>>

GiveReady(t) ==
    /\ Step(t, "regive")
    /\ lora_ready' = 1
    /\ Goto(t, Started(t))
    /\ UNCHANGED <<sem, chan, notes, copy, history>>

-----------------------------------------------------------------------------
(* Publishing (zbus_chan_pub as the producers use it).                      *)

\* A producer has prepared a message and calls zbus_chan_pub.
Publish(p) ==
    /\ Step(p, "idle")
    /\ chan < MaxMsgs
    /\ Goto(p, "lock")
    /\ UNCHANGED <<lora_ready, sem, chan, notes, copy, history>>

\* The sensor backend failed: the handler returns and nothing is published.
SensorFails ==
    /\ Step("wq", "idle")
    /\ UNCHANGED vars

\* The channel is locked and its message overwritten.
PubLock(p) ==
    /\ Step(p, "lock")
    /\ sem = "none"
    /\ chan < MaxMsgs
    /\ sem' = p
    /\ chan' = chan + 1
    /\ Goto(p, "put")
    /\ UNCHANGED <<lora_ready, notes, copy, history>>

PubLockTimeout(p) ==
    /\ Step(p, "lock")
    /\ sem # "none" \/ chan = MaxMsgs
    /\ Goto(p, "idle")
    /\ UNCHANGED <<lora_ready, sem, chan, notes, copy, history>>

\* The subscriber is notified while the channel stays locked.
PubNotify(p) ==
    /\ Step(p, "put")
    /\ notes < Depth
    /\ notes' = notes + 1
    /\ acked' = acked \union {chan}
    /\ Goto(p, "unlock")
    /\ UNCHANGED <<lora_ready, sem, chan, copy, taken, missed>>

\* Its queue stays full: the publish fails, but the message is in the channel.
PubNotifyTimeout(p) ==
    /\ Step(p, "put")
    /\ notes = Depth
    /\ Goto(p, "unlock")
    /\ UNCHANGED <<lora_ready, sem, chan, notes, copy, history>>

PubUnlock(p) ==
    /\ Step(p, "unlock")
    /\ sem' = "none"
    /\ Goto(p, "idle")
    /\ UNCHANGED <<lora_ready, chan, notes, copy, history>>

-----------------------------------------------------------------------------
(* lora_out_task                                                            *)

\* Fault: the task goes on although zbus_sub_wait returned nothing.
TxWait_IgnoresError ==
    /\ Step("tx", "wait")
    /\ notes' = notes - 1
    /\ Goto("tx", "read")
    /\ UNCHANGED <<lora_ready, sem, chan, copy, history>>

\* zbus_sub_wait returns a notification.
TxWait ==
    /\ Step("tx", "wait")
    /\ notes > 0
    /\ notes' = notes - 1
    /\ Goto("tx", "read")
    /\ UNCHANGED <<lora_ready, sem, chan, copy, history>>

\* zbus_chan_read locks the channel ...
TxRead ==
    /\ Step("tx", "read")
    /\ sem = "none"
    /\ sem' = "tx"
    /\ Goto("tx", "copy")
    /\ UNCHANGED <<lora_ready, chan, notes, copy, history>>

\* Fault: after a failed read the task goes on and sends the old copy.
TxReadTimeout_SendsStale ==
    /\ Step("tx", "read")
    /\ sem # "none"
    /\ taken' = Append(taken, copy)
    /\ Goto("tx", "send")
    /\ UNCHANGED <<lora_ready, sem, chan, notes, copy, acked, missed>>

\* ... or gives up after 1 ms: the notification is gone.
TxReadTimeout ==
    /\ Step("tx", "read")
    /\ sem # "none"
    /\ missed' = missed \union {chan}
    /\ Goto("tx", "wait")
    /\ UNCHANGED <<lora_ready, sem, chan, notes, copy, taken, acked>>

\* Fault: the copy is still there from the last time and is not refreshed.
TxCopy_KeepsOld ==
    /\ Step("tx", "copy")
    /\ sem' = "none"
    /\ copy' = IF copy = 0 THEN chan ELSE copy
    /\ taken' = Append(taken, copy')
    /\ Goto("tx", "send")
    /\ UNCHANGED <<lora_ready, chan, notes, acked, missed>>

TxCopy ==
    /\ Step("tx", "copy")
    /\ sem' = "none"
    /\ copy' = chan
    /\ taken' = Append(taken, chan)
    /\ Goto("tx", "send")
    /\ UNCHANGED <<lora_ready, chan, notes, acked, missed>>

\* Fault: a transmission is repeated without a notification.
TxSend_Again ==
    /\ Step("tx", "send")
    /\ Goto("tx", "read")
    /\ UNCHANGED <<lora_ready, sem, chan, notes, copy, history>>

\* Fault: a failed transmission ends the task.
TxSend_Ends ==
    /\ Step("tx", "send")
    /\ \E l \in {"wait", "idle"} : Goto("tx", l)
    /\ UNCHANGED <<lora_ready, sem, chan, notes, copy, history>>

\* Encoding, signing and sending are over, with or without success: the task
\* waits for the next notification either way.
TxSend ==
    /\ Step("tx", "send")
    /\ Goto("tx", "wait")
    /\ UNCHANGED <<lora_ready, sem, chan, notes, copy, history>>

Tx == TxWait \/ TxRead \/ TxReadTimeout \/ TxCopy \/ TxSend

PubStep(p) ==
    \/ PubLock(p) \/ PubLockTimeout(p)
    \/ PubNotify(p) \/ PubNotifyTimeout(p)
    \/ PubUnlock(p)

Next ==
    \/ \E t \in {"rx", "tx"} : TakeReady(t) \/ GiveReady(t)
    \/ \E p \in Producer : Publish(p) \/ PubStep(p)
    \/ SensorFails
    \/ Tx

\* Every thread that can run forever does run; nobody has to publish.
Fairness ==
    /\ \A t \in {"rx", "tx"} : WF_vars(TakeReady(t)) /\ WF_vars(GiveReady(t))
    /\ \A p \in Producer : WF_vars(PubStep(p))
    /\ WF_vars(Tx)

Spec == Init /\ [][Next]_vars /\ Fairness

-----------------------------------------------------------------------------
(***************************************************************************)
(* Properties                                                              *)
(***************************************************************************)

\* lora_ready_sem stays binary, the notification queue within its depth, and what
\* is acknowledged or missed is a message that was written, never the empty channel.
TypeOK ==
    /\ pc \in [Thread -> {"boot", "regive", "idle", "lock", "put", "unlock",
                          "wait", "read", "copy", "send"}]
    /\ lora_ready \in {0, 1}
    /\ sem \in Thread \union {"none"}
    /\ chan \in 0 .. MaxMsgs
    /\ notes \in 0 .. Depth
    /\ copy \in 0 .. MaxMsgs
    /\ taken \in Seq(0 .. MaxMsgs)
    /\ acked \subseteq 1 .. MaxMsgs
    /\ missed \subseteq 1 .. MaxMsgs

\* TX transmits messages in the order in which they were published: never an
\* older one after a newer one, never anything that was not published.
TakenInOrder ==
    /\ \A i \in DOMAIN taken : taken[i] \in 1 .. chan
    /\ \A i, j \in DOMAIN taken : i < j => taken[i] <= taken[j]

\* Every transmission is paid for by a successful publish of its own: failed
\* publishes and overwritten messages never multiply packets on the air.
OneTransmissionPerPublish == Len(taken) + notes <= Cardinality(acked)

\* The newest message is never stranded in the channel: as long as TX has not
\* read it, a notification is on its way or waiting, or TX is about to read.
\* The one exception is a read that gave up.
Unread == chan > 0 /\ \A i \in DOMAIN taken : taken[i] # chan
NewestNotStranded ==
    Unread => \/ notes > 0
              \/ pc["tx"] \in {"read", "copy"}
              \/ \E p \in Producer : pc[p] = "put"
              \/ chan \in missed

\* If the radio was configured, both radio threads start: each gives
\* lora_ready_sem back to the other.
BothThreadsStart ==
    lora_ready = 1 ~> \A t \in {"rx", "tx"} : pc[t] \notin {"boot", "regive"}

\* Once TX runs, the newest message is eventually read, replaced or missed.
NewestIsTaken ==
    \A m \in 1 .. MaxMsgs :
        chan = m /\ pc["tx"] \notin {"boot", "regive"} ~>
            \/ \E i \in DOMAIN taken : taken[i] = m
            \/ chan # m
            \/ m \in missed
=============================================================================
