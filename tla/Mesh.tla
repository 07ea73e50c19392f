-------------------------------- MODULE Mesh --------------------------------
(***************************************************************************)
(* Several nodes flooding messages: lora_in_task from the duplicate gate   *)
(* to the scheduled forward, message numbering, and the way back to the    *)
(* radio.  It composes what the other modules establish about one node:    *)
(*   - the seen cache is the window of the last CacheSize accepted headers *)
(*     (SeenWindow, implemented by Routing);                               *)
(*   - a pending forward is published once unless it is cancelled first    *)
(*     (ForwardPool, implemented by Contention);                           *)
(*   - the outgoing channel holds one message and up to Depth              *)
(*     notifications: a publish overwrites, TX sends what it finds         *)
(*     (LoraOut).                                                          *)
(* The medium is external: a transmission is heard by any of the sender's  *)
(* neighbours, and a radio holds one packet until RX has handled it.  A    *)
(* packet that fails authentication, decoding or the key id check is       *)
(* dropped before it changes anything, like one that was not heard.        *)
(*   RX, TX and the work queue run before main: from ts_auth_init on, RX   *)
(* accepts and schedules packets for a node that takes itself for node 0,  *)
(* until ts_routing_init gives it its id and clears the cache.  (A packet  *)
(* handled between two assignments of ts_routing_init is in Routing.)      *)
(***************************************************************************)
EXTENDS Naturals, Sequences, FiniteSets, Bags

CONSTANTS
    Node,           \* node ids
    Link,           \* the pairs of nodes in radio range, in both directions
    Source,         \* the nodes whose sensors and heartbeats produce messages
    Managed,        \* pairs of a node that sends config sets and its target (external)
    Ttl,            \* routing_ttl, the same in every node
    CacheSize,      \* TS_ROUTING_SEEN_CACHE_SIZE
    PoolSize,       \* TS_CONTENTION_POOL_SIZE
    Depth,          \* the depth of ts_lora_out_sub's notification queue
    MaxMsgs,        \* bound: messages numbered by a node between restarts
    Booting,        \* bound: the nodes that are still booting at first
    Resetting       \* bound: the nodes that restart, each of them once

Broadcast == 65535      \* TS_ROUTING_BROADCAST_ADDR

ASSUME LinkAssumption ==
    /\ Link \subseteq Node \X Node
    /\ \A l \in Link : <<l[2], l[1]>> \in Link
\* No node has the id that a node takes itself for while it boots.
ASSUME NodeAssumption == Node \subseteq 1 .. Broadcast - 1
ASSUME RoleAssumption == Source \subseteq Node /\ Managed \subseteq Node \X Node
ASSUME SizeAssumption ==
    /\ Ttl \in 1 .. 255
    /\ CacheSize \in Nat \ {0} /\ PoolSize \in Nat \ {0} /\ Depth \in Nat \ {0}
ASSUME BoundAssumption == MaxMsgs \in Nat /\ Booting \subseteq Node /\ Resetting \subseteq Node

\* Telemetry and node status are treated alike: they are broadcast.  Two fields
\* are history, which no node can see: life, the incarnation of the sender; and
\* early, in a forward: it was accepted before this node's ts_routing_init.
Type == {"data", "set", "ack"}
Message == {m \in [src : Node, dst : Node \union {Broadcast}, msg_id : 0 .. MaxMsgs - 1,
                   ttl : 1 .. Ttl, type : Type, life : {0, 1}, early : BOOLEAN] :
                m.type = "data" <=> m.dst = Broadcast}

\* No message: an empty channel, radio or handler.
None == [type |-> "none"]

\* One message, whatever its ttl, and when its node accepted it.
Ident == [src : Node, msg_id : 0 .. MaxMsgs - 1, life : {0, 1}, early : BOOLEAN]
ident(m) == [src |-> m.src, msg_id |-> m.msg_id, life |-> m.life, early |-> m.early]

Slot == 1 .. PoolSize

VARIABLES
    self,       \* self_node_id; 0 until ts_routing_init
    next_msg_id,
    seen,       \* the seen cache, oldest first
    direct,     \* the nodes marked direct in the neighbour table at some time
    pool,       \* the slots of the pending forwards
    claimed,    \* the forward that the work handler has taken out of the pool
    chan,       \* the message in the outgoing channel
    notes,      \* the notifications waiting for TX
    woken,      \* TX has taken a notification and has not read the channel
    heard,      \* the packet in the radio
    life,       \* history: how often each node has restarted
    delivered,  \* history: the bag of messages delivered since the restart
    forwarded   \* history: the bag of messages forwarded since the restart

node == <<self, next_msg_id>>
table == <<seen, direct>>
out == <<chan, notes, woken>>
history == <<life, delivered, forwarded>>
vars == <<node, table, pool, claimed, out, heard, history>>

Header(m) == <<m.src, m.msg_id>>
Once(m) == SetToBag({ident(m)})

-----------------------------------------------------------------------------
(* routing.c                                                                *)

\* The header of a new message; the counter advances.
prepare_header(n, dst, type) ==
    [src |-> self[n], dst |-> dst, msg_id |-> next_msg_id[n], ttl |-> Ttl,
     type |-> type, life |-> life[n], early |-> FALSE]

is_for_us(n, m) == m.dst \in {self[n], Broadcast}

is_duplicate(n, m) == \E i \in DOMAIN seen[n] : seen[n][i] = Header(m)

\* Fault: only messages that will be forwarded are remembered.
mark_seen_OnlyForwarded(n, m) ==
    IF m.ttl = 1 THEN seen[n]
    ELSE Append(IF Len(seen[n]) < CacheSize THEN seen[n] ELSE Tail(seen[n]), Header(m))

mark_seen(n, m) ==
    Append(IF Len(seen[n]) < CacheSize THEN seen[n] ELSE Tail(seen[n]), Header(m))

\* Fault: a relay's packet counts as direct, too.
is_direct_Relayed(m) == m.ttl + 1 >= Ttl

is_direct(m) == m.ttl = Ttl

-----------------------------------------------------------------------------
(* The outgoing channel, its producers and TX                               *)

\* The message overwrites the channel and TX is notified.  While TX's queue is
\* full the publish fails, with the channel written or not.
Publish(n, m) ==
    /\ \/ /\ chan' = [chan EXCEPT ![n] = m]
          /\ notes' = [notes EXCEPT ![n] = IF @ < Depth THEN @ + 1 ELSE @]
       \/ notes[n] = Depth /\ UNCHANGED <<chan, notes>>
    /\ UNCHANGED woken

\* A booted node takes the next number.
Number(n) ==
    /\ self[n] = n /\ next_msg_id[n] < MaxMsgs
    /\ next_msg_id' = [next_msg_id EXCEPT ![n] = @ + 1]

Originate(n, dst, type) ==
    /\ Number(n)
    /\ Publish(n, prepare_header(n, dst, type))
    /\ UNCHANGED <<self, table, pool, claimed, heard, history>>

\* The periodic sensor reading or a heartbeat.
Produce(n) == n \in Source /\ Originate(n, Broadcast, "data")

\* The sensor cannot be read: the message's number is used up all the same.
SensorFails(n) ==
    /\ n \in Source /\ Number(n)
    /\ UNCHANGED <<self, table, pool, claimed, out, heard, history>>

\* A config set is sent to one node.
SendSet(n, dst) == <<n, dst>> \in Managed /\ Originate(n, dst, "set")

Neighbours(n) == {u \in Node : <<n, u>> \in Link}

TxWake(n) ==
    /\ ~woken[n] /\ notes[n] > 0
    /\ notes' = [notes EXCEPT ![n] = @ - 1]
    /\ woken' = [woken EXCEPT ![n] = TRUE]
    /\ UNCHANGED <<node, table, pool, claimed, chan, heard, history>>

\* Fault: TX goes round again without waiting for a notification.
TxSend_NoWait(n) ==
    /\ woken[n]
    /\ \E R \in SUBSET {u \in Neighbours(n) : heard[u] = None} :
            heard' = [u \in Node |-> IF u \in R THEN chan[n] ELSE heard[u]]
    /\ UNCHANGED <<node, table, pool, claimed, out, history>>

\* TX sends what is in the channel by now; any of the neighbours whose radio is
\* free hear it.  Nobody does when reading, encoding or sending fails.
TxSend(n) ==
    /\ woken[n]
    /\ woken' = [woken EXCEPT ![n] = FALSE]
    /\ \E R \in SUBSET {u \in Neighbours(n) : heard[u] = None} :
            heard' = [u \in Node |-> IF u \in R THEN chan[n] ELSE heard[u]]
    /\ UNCHANGED <<node, table, pool, claimed, chan, notes, history>>

Tx(n) == TxWake(n) \/ TxSend(n)

-----------------------------------------------------------------------------
(* lora_in_task                                                             *)

Handled(n) == heard' = [heard EXCEPT ![n] = None]

\* The first slot of a set; slots are searched in order.
First(S, s) == s \in S /\ \A t \in S : s <= t

\* The pending forward of this header, if there is one, is cancelled.
Cancel(n, m) ==
    LET S == {s \in Slot : pool[n][s] # None /\ Header(pool[n][s]) = Header(m)}
    IN  \/ S = {} /\ UNCHANGED pool
        \/ \E s \in S : First(S, s) /\ pool' = [pool EXCEPT ![n][s] = None]

DropOwn(n) ==
    /\ heard[n] # None
    /\ heard[n].src = self[n]
    /\ Handled(n)
    /\ UNCHANGED <<node, table, pool, claimed, out, history>>

\* Fault: the header is forgotten together with its forward.
DropDuplicate_Forgets(n) ==
    /\ heard[n] # None
    /\ heard[n].src # self[n]
    /\ is_duplicate(n, heard[n])
    /\ seen' = [seen EXCEPT ![n] = SelectSeq(@, LAMBDA h : h # Header(heard[n]))]
    /\ Cancel(n, heard[n])
    /\ Handled(n)
    /\ UNCHANGED <<node, direct, claimed, out, history>>

\* A duplicate cancels the pending forward of its message.
DropDuplicate(n) ==
    /\ heard[n] # None
    /\ heard[n].src # self[n]
    /\ is_duplicate(n, heard[n])
    /\ Cancel(n, heard[n])
    /\ Handled(n)
    /\ UNCHANGED <<node, table, claimed, out, history>>

\* The message as its node accepts it.
Kept(n, m) == [m EXCEPT !.early = self[n] # n]

\* What every fresh packet does: it is marked, and its source enters the table.
Fresh(n, m) ==
    /\ m # None
    /\ m.src # self[n]
    /\ ~is_duplicate(n, m)
    /\ seen' = [seen EXCEPT ![n] = mark_seen(n, m)]
    /\ direct' = [direct EXCEPT ![n] = IF is_direct(m) THEN @ \union {m.src} ELSE @]
    /\ delivered' = [delivered EXCEPT ![n] = IF is_for_us(n, m) THEN @ (+) Once(Kept(n, m)) ELSE @]
    /\ Handled(n)

\* A config set for this node is applied and acknowledged, and goes no further.
ReceiveSet(n) ==
    /\ heard[n] # None
    /\ is_for_us(n, heard[n]) /\ heard[n].type = "set"
    /\ Number(n)
    /\ Fresh(n, heard[n])
    /\ Publish(n, prepare_header(n, heard[n].src, "ack"))
    /\ UNCHANGED <<self, pool, claimed, life, forwarded>>

\* A forward takes the first free slot; it is dropped if there is none.
Schedule(n, m) ==
    LET S == {s \in Slot : pool[n][s] = None}
    IN  \/ S = {} /\ UNCHANGED pool
        \/ \E s \in S : First(S, s) /\ pool' = [pool EXCEPT ![n][s] = Kept(n, m)]

\* Faults: the forward keeps its ttl; a ttl that reaches 0 is forwarded.
Forward_KeepsTtl(n, m) ==
    \/ m.type = "data" /\ m.ttl > 1 /\ Schedule(n, m)
    \/ ~(m.type = "data" /\ m.ttl > 1) /\ UNCHANGED pool
Forward_LastHop(n, m) ==
    \/ m.type = "data" /\ Schedule(n, [m EXCEPT !.ttl = @ - 1])
    \/ m.type # "data" /\ UNCHANGED pool

\* Fault: what is not for this node is forwarded whatever its type.
Forward_AnyType(n, m) ==
    LET flooded == m.type = "data" \/ ~is_for_us(n, m)
    IN  \/ flooded /\ m.ttl > 1 /\ Schedule(n, [m EXCEPT !.ttl = @ - 1])
        \/ ~(flooded /\ m.ttl > 1) /\ UNCHANGED pool

\* Config messages are never forwarded, the others while their ttl lasts.
Forward(n, m) ==
    \/ m.type = "data" /\ m.ttl > 1 /\ Schedule(n, [m EXCEPT !.ttl = @ - 1])
    \/ ~(m.type = "data" /\ m.ttl > 1) /\ UNCHANGED pool

ReceiveOther(n) ==
    /\ heard[n] # None
    /\ ~(is_for_us(n, heard[n]) /\ heard[n].type = "set")
    /\ Fresh(n, heard[n])
    /\ Forward(n, heard[n])
    /\ UNCHANGED <<node, claimed, out, life, forwarded>>

Receive(n) == DropOwn(n) \/ DropDuplicate(n) \/ ReceiveSet(n) \/ ReceiveOther(n)

\* The delay of a pending forward is over: the work handler takes it.
Claim(n) ==
    /\ claimed[n] = None
    /\ \E s \in Slot :
            /\ pool[n][s] # None
            /\ pool' = [pool EXCEPT ![n][s] = None]
            /\ claimed' = [claimed EXCEPT ![n] = pool[n][s]]
    /\ UNCHANGED <<node, table, out, heard, history>>

\* The handler publishes its copy, without the lock.
Rebroadcast(n) ==
    /\ claimed[n] # None
    /\ Publish(n, [claimed[n] EXCEPT !.early = FALSE])
    /\ claimed' = [claimed EXCEPT ![n] = None]
    /\ forwarded' = [forwarded EXCEPT ![n] = @ (+) Once(claimed[n])]
    /\ UNCHANGED <<node, table, pool, heard, life, delivered>>

Expire(n) == Claim(n) \/ Rebroadcast(n)

\* main calls ts_routing_init and ts_routing_table_init.  Forwards that are
\* pending, claimed or published by then stay where they are.
ts_routing_init(n) ==
    /\ self[n] = 0
    /\ self' = [self EXCEPT ![n] = n]
    /\ next_msg_id' = [next_msg_id EXCEPT ![n] = 0]
    /\ seen' = [seen EXCEPT ![n] = <<>>]
    /\ direct' = [direct EXCEPT ![n] = {}]
    /\ UNCHANGED <<pool, claimed, out, heard, history>>

-----------------------------------------------------------------------------
Init ==
    /\ self = [n \in Node |-> IF n \in Booting THEN 0 ELSE n]
    /\ next_msg_id = [n \in Node |-> 0]
    /\ seen = [n \in Node |-> <<>>]
    /\ direct = [n \in Node |-> {}]
    /\ pool = [n \in Node |-> [s \in Slot |-> None]]
    /\ claimed = [n \in Node |-> None]
    /\ chan = [n \in Node |-> None]
    /\ notes = [n \in Node |-> 0]
    /\ woken = [n \in Node |-> FALSE]
    /\ heard = [n \in Node |-> None]
    /\ life = [n \in Node |-> 0]
    /\ delivered = [n \in Node |-> EmptyBag]
    /\ forwarded = [n \in Node |-> EmptyBag]

\* A reset loses all of RAM, and the node boots again.
Restart(n) ==
    /\ n \in Resetting /\ life[n] = 0
    /\ life' = [life EXCEPT ![n] = 1]
    /\ self' = [self EXCEPT ![n] = 0]
    /\ next_msg_id' = [next_msg_id EXCEPT ![n] = 0]
    /\ seen' = [seen EXCEPT ![n] = <<>>]
    /\ direct' = [direct EXCEPT ![n] = {}]
    /\ pool' = [pool EXCEPT ![n] = [s \in Slot |-> None]]
    /\ claimed' = [claimed EXCEPT ![n] = None]
    /\ chan' = [chan EXCEPT ![n] = None]
    /\ notes' = [notes EXCEPT ![n] = 0]
    /\ woken' = [woken EXCEPT ![n] = FALSE]
    /\ heard' = [heard EXCEPT ![n] = None]
    /\ delivered' = [delivered EXCEPT ![n] = EmptyBag]
    /\ forwarded' = [forwarded EXCEPT ![n] = EmptyBag]

Next ==
    \E n \in Node :
        \/ ts_routing_init(n) \/ Produce(n) \/ SensorFails(n)
        \/ \E dst \in Node : SendSet(n, dst)
        \/ Tx(n) \/ Receive(n) \/ Expire(n) \/ Restart(n)

\* The threads of every node run, and a handler that has taken its forward
\* publishes it.  Nothing has to be produced or heard, a node need not finish
\* booting, and a pending forward need not be claimed: Contention shows how a
\* slot loses its work item.
Fairness ==
    \A n \in Node : WF_vars(Tx(n)) /\ WF_vars(Receive(n)) /\ WF_vars(Rebroadcast(n))

Spec == Init /\ [][Next]_vars /\ Fairness

-----------------------------------------------------------------------------
(***************************************************************************)
(* Properties                                                              *)
(***************************************************************************)

\* No packet with a ttl of 0 or above its sender's default is ever published.
TypeOK ==
    /\ \A n \in Node : self[n] \in {0, n}
    /\ next_msg_id \in [Node -> 0 .. MaxMsgs]
    /\ \A n \in Node : seen[n] \in Seq(Node \X (0 .. MaxMsgs - 1))
    /\ direct \in [Node -> SUBSET Node]
    /\ \A n \in Node : pool[n] \in [Slot -> Message \union {None}]
    /\ \A n \in Node : {claimed[n], chan[n], heard[n]} \subseteq Message \union {None}
    /\ notes \in [Node -> 0 .. Depth] /\ woken \in [Node -> BOOLEAN]
    /\ life \in [Node -> {0, 1}]
    /\ \A n \in Node : \A B \in {delivered[n], forwarded[n]} :
            IsABag(B) /\ BagToSet(B) \subseteq Ident

\* The nodes at most k hops away from n: a walk of k steps, some of them idle,
\* leads to each.
Within ==
    [n \in Node |-> [k \in 0 .. Ttl |->
        {u \in Node : \E w \in [0 .. k -> Node] :
            /\ w[0] = n /\ w[k] = u
            /\ \A i \in 0 .. k - 1 : w[i + 1] \in Neighbours(w[i]) \union {w[i]}}]]

\* TUTORIAL.md: "A TTL of 5 means a message can traverse at most 5 hops".
\* Whatever is relayed, lost, repeated or renumbered, a packet that a node
\* hears has used up one unit of its ttl for each hop but the last.
FloodStaysWithinTtl ==
    \A n \in Node : heard[n] # None =>
        n \in Within[heard[n].src][Ttl - heard[n].ttl + 1]

\* A node marked direct in the neighbour table really is in radio range: with
\* one ttl for the whole mesh, only the source itself sends it undiminished.
DirectMeansNeighbour == \A n \in Node : direct[n] \subseteq Neighbours(n)

\* lora_in_task: "Config messages are point-to-point, not flooded", and PLAN.md:
\* "not flooded via contention".  A config set or its ack is never heard beyond
\* the radio range of the node that made it: no node in between passes it on,
\* whoever it is for and whoever has restarted.  The other half of what PLAN.md
\* says, "push a key-value pair to any node ID over the mesh", is therefore not so
\* for a node out of its sender's range; nor is README.md's "remote config push
\* over LoRa mesh".
ConfigStaysInRange ==
    \A n \in Node : heard[n] # None /\ heard[n].type \in {"set", "ack"} =>
        n \in Neighbours(heard[n].src)

\* A node delivers a message, or applies a config set, at most once while it
\* boots and at most once from then to its next restart, although it hears it
\* from several relays and TX may send it twice.  The cache must hold every
\* header in circulation.
DeliveredAtMostOnce ==
    \A n \in Node : \A i \in BagToSet(delivered[n]) : delivered[n][i] = 1

\* A node forwards a message at most once while it boots and at most once from
\* then to its next restart.  It never forwards its own: the flood does not feed
\* itself.  One exception is as the code has it, against lora_in_task's "drop own
\* messages that returned via other nodes": a message that the node sent before
\* its restart and hears again before ts_routing_init has told it who it is.
ForwardedAtMostOnce ==
    \A n \in Node : \A i \in BagToSet(forwarded[n]) :
        /\ forwarded[n][i] = 1
        /\ i.src = n => i.early /\ i.life < life[n]

\* Every flood dies out: eventually, when nobody produces any more, no packet is
\* in the air, in a channel or in the hands of a handler, for good.  A forward
\* may stay in its slot for ever.
FloodDies ==
    <>[](\A n \in Node : claimed[n] = None /\ notes[n] = 0 /\ ~woken[n]
                         /\ (heard[n] = None \/ (heard[n].type = "set" /\ next_msg_id[n] = MaxMsgs)))

\* contention.h: "If a duplicate arrives while a forward is pending, the
\* forward is cancelled (another node already forwarded)."  A message whose
\* forward is cancelled has been forwarded by another node.
CancelledWasForwarded ==
    [][\A n \in Node : DropDuplicate(n) =>
        \A s \in Slot : pool[n][s] # pool'[n][s] =>
            \E u \in Node \ {n} : \E i \in BagToSet(forwarded[u]) :
                [i EXCEPT !.early = FALSE] = [ident(pool[n][s]) EXCEPT !.early = FALSE]]_vars
=============================================================================
