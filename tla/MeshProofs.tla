----------------------------- MODULE MeshProofs -----------------------------
(***************************************************************************)
(* Proofs about Mesh, for every topology, ttl, pool and queue, whatever    *)
(* is lost and whoever boots or restarts.  At most once is proved for a    *)
(* node until its cache fills up, and for good if the cache holds every    *)
(* header in circulation (Roomy).                                          *)
(***************************************************************************)
EXTENDS Mesh, FiniteSetTheorems, TLAPS

HeaderId == Node \X (0 .. MaxMsgs - 1)
Packet == Message \union {None}

\* Every variable is a function on the nodes.
Shapes ==
    /\ self \in [Node -> 0 .. Broadcast] /\ \A n \in Node : self[n] \in {0, n}
    /\ next_msg_id \in [Node -> 0 .. MaxMsgs]
    /\ seen \in [Node -> Seq(HeaderId)]
    /\ direct \in [Node -> SUBSET Node]
    /\ pool \in [Node -> [Slot -> Packet]]
    /\ claimed \in [Node -> Packet] /\ chan \in [Node -> Packet]
    /\ heard \in [Node -> Packet]
    /\ notes \in [Node -> 0 .. Depth] /\ woken \in [Node -> BOOLEAN]
    /\ life \in [Node -> {0, 1}]

\* The histories are bags of messages, one for each node.
BagOk(B) == IsABag(B) /\ BagToSet(B) \subseteq Ident
Histories ==
    /\ delivered = [n \in Node |-> delivered[n]] /\ forwarded = [n \in Node |-> forwarded[n]]
    /\ \A n \in Node : BagOk(delivered[n]) /\ BagOk(forwarded[n])

\* What a message that node n keeps for forwarding has been through: it is
\* flooded, has lost one unit of ttl for every hop to n, and at least one.
Relayed(n, m) == m.type = "data" /\ m.ttl < Ttl /\ n \in Within[m.src][Ttl - m.ttl]

\* What node n sends: its own messages undiminished, others' only if flooded.
Sendable(n, m) ==
    /\ n \in Within[m.src][Ttl - m.ttl]
    /\ m.ttl = Ttl \/ m.type # "data" => m.src = n

\* What node n hears has come one hop further.
Audible(n, m) ==
    /\ n \in Within[m.src][Ttl - m.ttl + 1]
    /\ m.ttl = Ttl \/ m.type # "data" => n \in Neighbours(m.src)

Travel ==
    \A n \in Node :
        /\ \A s \in Slot : pool[n][s] # None => Relayed(n, pool[n][s])
        /\ claimed[n] # None => Relayed(n, claimed[n])
        /\ chan[n] # None => Sendable(n, chan[n])
        /\ heard[n] # None => Audible(n, heard[n])

\* The inductive invariant that needs no hypothesis.
Inv == Shapes /\ Histories /\ Travel /\ DirectMeansNeighbour

-----------------------------------------------------------------------------
\* The nodes that number messages, and the headers that can be in circulation.
Origin == Source \union {p[1] : p \in Managed} \union {p[2] : p \in Managed}
Circulating == Origin \X (0 .. MaxMsgs - 1)

\* The seen cache holds every header in circulation.
Roomy == Cardinality(Circulating) <= CacheSize

\* Every message anywhere was made by one of them, and a config set on behalf of
\* its manager.
Genuine(m) == m.src \in Origin /\ (m.type = "set" => <<m.src, m.dst>> \in Managed)
AllGenuine ==
    \A n \in Node :
        /\ \A s \in Slot : pool[n][s] # None => Genuine(pool[n][s])
        /\ \A m \in {claimed[n], chan[n], heard[n]} : m # None => Genuine(m)

\* What a node accepts is early while it has not got its id.
Unnamed(n) == self[n] # n
Marks ==
    \A n \in Node : Unnamed(n) =>
        /\ \A s \in Slot : pool[n][s] # None => pool[n][s].early
        /\ claimed[n] # None => claimed[n].early
        /\ \A i \in DOMAIN delivered[n] : i.early
        /\ \A i \in DOMAIN forwarded[n] : i.early

\* A cache s has accepted header h since it was last cleared.
Accepted(s, h) == \E i \in DOMAIN s : s[i] = h
HeaderOf(i) == <<i.src, i.msg_id>>

\* A cache s that has forgotten nothing since it was last cleared: it is not full
\* yet, or never has to evict.
Intact(s) == Roomy \/ Len(s) < CacheSize

\* Such a cache has no header twice, and none from elsewhere.
CacheIsExact ==
    \A n \in Node : Intact(seen[n]) =>
        /\ \A i, j \in DOMAIN seen[n] : seen[n][i] = seen[n][j] => i = j
        /\ \A i \in DOMAIN seen[n] : seen[n][i] \in Circulating

\* And it has what became of every message accepted since then.
Known ==
    \A n \in Node : Intact(seen[n]) =>
        /\ \A s \in Slot : pool[n][s] # None /\ pool[n][s].early = Unnamed(n) =>
               Accepted(seen[n], Header(pool[n][s]))
        /\ claimed[n] # None /\ claimed[n].early = Unnamed(n) =>
               Accepted(seen[n], Header(claimed[n]))
        /\ \A i \in DOMAIN delivered[n] \union DOMAIN forwarded[n] :
               i.early = Unnamed(n) => Accepted(seen[n], HeaderOf(i))

\* Nothing was forgotten while node n accepted messages marked e.
Trusted(n, e) == Roomy \/ (e = Unnamed(n) /\ Intact(seen[n]))

\* Then what was delivered was delivered once.
DeliveredOnce ==
    \A n \in Node : \A i \in DOMAIN delivered[n] :
        Trusted(n, i.early) => delivered[n][i] = 1

\* And the forward of a message is in one place: pending, claimed or done.
Ledger(e, P, c, F) ==
    /\ \A s, t \in Slot :
           P[s] # None /\ P[s].early = e /\ P[t] # None /\ P[t].early = e
             /\ Header(P[s]) = Header(P[t]) => s = t
    /\ c # None /\ c.early = e =>
           \A s \in Slot : P[s] # None /\ P[s].early = e => Header(P[s]) # Header(c)
    /\ \A i \in DOMAIN F : i.early = e =>
           /\ F[i] = 1
           /\ \A s \in Slot : P[s] # None /\ P[s].early = e => Header(P[s]) # HeaderOf(i)
           /\ c # None /\ c.early = e => Header(c) # HeaderOf(i)
ForwardedOnce ==
    \A n \in Node : \A e \in BOOLEAN :
        Trusted(n, e) => Ledger(e, pool[n], claimed[n], forwarded[n])

\* The inductive invariant for what happens at most once.
OnceInv == AllGenuine /\ Marks /\ CacheIsExact /\ Known /\ DeliveredOnce /\ ForwardedOnce

-----------------------------------------------------------------------------
(* Hops                                                                     *)

\* Every node is at no distance from itself.
LEMMA WithinItself == \A n \in Node : n \in Within[n][0]
  <1> SUFFICES ASSUME NEW n \in Node PROVE n \in Within[n][0]
    OBVIOUS
  <1> DEFINE w == [i \in 0 .. 0 |-> n]
  <1>1. w \in [0 .. 0 -> Node] /\ w[0] = n
    OBVIOUS
  <1>2. 0 \in 0 .. Ttl /\ \A i \in 0 .. 0 - 1 : FALSE
    BY SizeAssumption
  <1> HIDE DEF w
  <1> QED
    BY <1>1, <1>2 DEF Within

\* One hop more leads to the neighbours.
LEMMA WithinNext ==
    ASSUME NEW s \in Node, NEW k \in 0 .. Ttl - 1, NEW x \in Within[s][k],
           NEW y \in Neighbours(x)
    PROVE  y \in Within[s][k + 1]
  <1>0. k \in Nat /\ k \in 0 .. Ttl /\ k + 1 \in 0 .. Ttl /\ y \in Node
    BY SizeAssumption DEF Neighbours
  <1>1. PICK w \in [0 .. k -> Node] :
           /\ w[0] = s /\ w[k] = x
           /\ \A i \in 0 .. k - 1 : w[i + 1] \in Neighbours(w[i]) \union {w[i]}
    BY <1>0 DEF Within
  <1> DEFINE v == [i \in 0 .. k + 1 |-> IF i <= k THEN w[i] ELSE y]
  <1>2. v \in [0 .. k + 1 -> Node]
    BY <1>0
  <1>3. v[0] = s /\ v[k + 1] = y
    BY <1>0, <1>1
  <1>4. ASSUME NEW i \in 0 .. (k + 1) - 1
        PROVE  v[i + 1] \in Neighbours(v[i]) \union {v[i]}
    <2>1. CASE i = k
      <3>1. v[i] = x /\ v[i + 1] = y
        BY <1>0, <1>1, <2>1
      <3> QED
        BY <3>1
    <2>2. CASE i < k
      <3>1. v[i] = w[i] /\ v[i + 1] = w[i + 1] /\ i \in 0 .. k - 1
        BY <1>0, <2>2
      <3> QED
        BY <1>1, <3>1
    <2> QED
      BY <1>0, <2>1, <2>2
  <1> HIDE DEF v
  <1> QED
    BY <1>0, <1>2, <1>3, <1>4 DEF Within

-----------------------------------------------------------------------------
(* Messages and bags                                                        *)

\* A message, read off its type, and why no message is none.
LEMMA MessageShape ==
    ASSUME NEW m \in Message
    PROVE  /\ m # None
           /\ m.src \in Node /\ m.dst \in Node \union {Broadcast}
           /\ m.msg_id \in 0 .. MaxMsgs - 1 /\ m.ttl \in 1 .. Ttl /\ m.type \in Type
           /\ m.life \in {0, 1} /\ m.early \in BOOLEAN
           /\ m.type = "data" <=> m.dst = Broadcast
           /\ Ttl - m.ttl \in 0 .. Ttl - 1 /\ Ttl - m.ttl + 1 \in 0 .. Ttl
           /\ Header(m) \in HeaderId /\ ident(m) \in Ident
           /\ HeaderOf(ident(m)) = Header(m)
  <1>1. m.type \in Type /\ m.ttl \in 1 .. Ttl
    BY DEF Message
  <1>2. m # None
    BY <1>1 DEF Type, None
  <1> QED
    BY <1>1, <1>2, SizeAssumption DEF Message, Header, HeaderId, ident, Ident, HeaderOf

\* No node is 0, and none is the broadcast address.
LEMMA NotANode ==
    /\ 0 \notin Node /\ Broadcast \notin Node
    /\ Node \subseteq 0 .. Broadcast /\ 0 \in 0 .. Broadcast
  <1>1. Broadcast \in Nat
    BY DEF Broadcast
  <1>2. Node \subseteq 1 .. Broadcast - 1
    BY NodeAssumption
  <1> QED
    BY <1>1, <1>2

\* Whether a message was early changes nothing else about it.
LEMMA Marked ==
    ASSUME NEW m \in Message, NEW e \in BOOLEAN
    PROVE  /\ [m EXCEPT !.early = e] \in Message
           /\ LET o == [m EXCEPT !.early = e]
              IN  /\ o.src = m.src /\ o.dst = m.dst /\ o.msg_id = m.msg_id /\ o.ttl = m.ttl
                  /\ o.type = m.type /\ o.life = m.life /\ o.early = e
                  /\ Header(o) = Header(m)
  BY DEF Message, Header

LEMMA KeptIsMarked ==
    ASSUME NEW n \in Node, NEW m \in Message
    PROVE  LET o == Kept(n, m)
           IN  /\ o \in Message
               /\ o.src = m.src /\ o.dst = m.dst /\ o.msg_id = m.msg_id /\ o.ttl = m.ttl
               /\ o.type = m.type /\ o.life = m.life /\ o.early = (self[n] # n)
               /\ Header(o) = Header(m)
  <1>1. CASE self[n] = n
    <2>1. Kept(n, m) = [m EXCEPT !.early = FALSE]
      BY <1>1 DEF Kept
    <2> QED
      BY <1>1, <2>1, Marked
  <1>2. CASE self[n] # n
    <2>1. Kept(n, m) = [m EXCEPT !.early = TRUE]
      BY <1>2 DEF Kept
    <2> QED
      BY <1>2, <2>1, Marked
  <1> QED
    BY <1>1, <1>2

\* A new message of a booted node is well formed and starts at its source.
LEMMA Prepared ==
    ASSUME Inv, NEW n \in Node, NEW dst \in Node \union {Broadcast}, NEW type \in Type,
           Number(n), type = "data" <=> dst = Broadcast
    PROVE  LET m == prepare_header(n, dst, type)
           IN  /\ m \in Message /\ Sendable(n, m)
               /\ m.src = n /\ m.dst = dst /\ m.type = type /\ m.life = life[n]
  <1> DEFINE m == prepare_header(n, dst, type)
  <1>1. /\ m.src = n /\ m.ttl = Ttl /\ m.type = type /\ m.dst = dst
        /\ m.msg_id = next_msg_id[n] /\ m.life = life[n]
    BY DEF prepare_header, Number
  <1>2. next_msg_id[n] \in 0 .. MaxMsgs - 1 /\ life[n] \in {0, 1} /\ Ttl \in 1 .. Ttl
    BY BoundAssumption, SizeAssumption DEF Inv, Shapes, Number
  <1>3. m \in Message
    BY <1>2 DEF prepare_header, Message, Number
  <1>4. Ttl - Ttl = 0
    BY SizeAssumption
  <1> HIDE DEF m
  <1>5. Sendable(n, m)
    BY <1>1, <1>4, WithinItself DEF Sendable
  <1> QED
    BY <1>1, <1>3, <1>5 DEF m

\* A forward is well formed and has used up one more unit of its ttl.
LEMMA Diminished ==
    ASSUME NEW n \in Node, NEW m \in Message, Audible(n, m), m.type = "data", m.ttl > 1
    PROVE  /\ [m EXCEPT !.ttl = @ - 1] \in Message
           /\ Relayed(n, [m EXCEPT !.ttl = @ - 1])
           /\ Header([m EXCEPT !.ttl = @ - 1]) = Header(m)
           /\ [m EXCEPT !.ttl = @ - 1].src = m.src
           /\ [m EXCEPT !.ttl = @ - 1].type = "data"
           /\ [m EXCEPT !.ttl = @ - 1].life = m.life
  <1> DEFINE o == [m EXCEPT !.ttl = @ - 1]
  <1>1. /\ o.src = m.src /\ o.type = m.type /\ o.ttl = m.ttl - 1 /\ o.msg_id = m.msg_id
        /\ o.life = m.life
        /\ m.ttl \in 1 .. Ttl
    BY DEF Message
  <1>2. o.ttl \in 1 .. Ttl /\ o.ttl < Ttl /\ Ttl - o.ttl = Ttl - m.ttl + 1
    BY <1>1, SizeAssumption
  <1>3. o \in Message
    BY <1>2 DEF Message
  <1> HIDE DEF o
  <1>4. Relayed(n, o)
    BY <1>1, <1>2 DEF Relayed, Audible
  <1> QED
    BY <1>1, <1>3, <1>4 DEF o, Header

\* Adding one message to a bag of messages.
LEMMA AddOnce ==
    ASSUME NEW B, BagOk(B), NEW m \in Message
    PROVE  /\ BagOk(B (+) Once(m))
           /\ DOMAIN (B (+) Once(m)) = DOMAIN B \union {ident(m)}
           /\ \A i \in DOMAIN B : i # ident(m) => (B (+) Once(m))[i] = B[i]
           /\ ident(m) \notin DOMAIN B => (B (+) Once(m))[ident(m)] = 1
  <1> DEFINE i == ident(m)
             C == B (+) Once(m)
  <1>1. C = [e \in DOMAIN B \union {i} |-> (IF e \in DOMAIN B THEN B[e] ELSE 0)
                                           + (IF e \in {i} THEN 1 ELSE 0)]
    BY DEF (+), Once, SetToBag
  <1>2. \A e \in DOMAIN B : B[e] \in Nat /\ B[e] > 0
    BY DEF BagOk, IsABag
  <1>3. i \in Ident
    BY MessageShape
  <1> HIDE DEF i, C
  <1>4. DOMAIN C = DOMAIN B \union {i}
    BY <1>1
  <1>5. /\ \A e \in DOMAIN B : e # i => C[e] = B[e]
        /\ i \notin DOMAIN B => C[i] = 1
        /\ i \in DOMAIN B => C[i] = B[i] + 1
    BY <1>1, <1>2
  <1>6. \A e \in DOMAIN C : C[e] \in {k \in Nat : k > 0}
    BY <1>2, <1>4, <1>5
  <1>7. IsABag(C)
    BY <1>1, <1>4, <1>6 DEF IsABag
  <1>8. BagToSet(C) \subseteq Ident
    BY <1>3, <1>4 DEF BagOk, BagToSet
  <1> QED
    BY <1>4, <1>5, <1>7, <1>8 DEF BagOk, i, C

-----------------------------------------------------------------------------
(* The steps                                                                *)

\* What may be published leaves what may be sent in the channel.
LEMMA PublishKeeps ==
    ASSUME Inv, NEW n \in Node, NEW m \in Message, Sendable(n, m), Publish(n, m)
    PROVE  /\ chan' \in [Node -> Packet] /\ notes' \in [Node -> 0 .. Depth]
           /\ woken' \in [Node -> BOOLEAN]
           /\ \A u \in Node : chan'[u] # None => Sendable(u, chan'[u])
           /\ \A u \in Node : chan'[u] = chan[u] \/ chan'[u] = m
  <1>1. CASE UNCHANGED <<chan, notes>>
    BY <1>1 DEF Inv, Shapes, Travel, Publish
  <1>2. CASE /\ chan' = [chan EXCEPT ![n] = m]
             /\ notes' = [notes EXCEPT ![n] = IF @ < Depth THEN @ + 1 ELSE @]
    <2>1. chan' \in [Node -> Packet] /\ \A u \in Node : chan'[u] = IF u = n THEN m ELSE chan[u]
      BY <1>2 DEF Inv, Shapes, Packet
    <2>2. notes' \in [Node -> 0 .. Depth]
      BY <1>2, SizeAssumption DEF Inv, Shapes
    <2> QED
      BY <2>1, <2>2 DEF Inv, Shapes, Travel, Publish
  <1> QED
    BY <1>1, <1>2 DEF Publish

\* Making a message: sensor readings, heartbeats and config sets.
LEMMA OriginateKeepsInv ==
    ASSUME Inv, NEW n \in Node, NEW dst \in Node \union {Broadcast}, NEW type \in Type,
           type = "data" <=> dst = Broadcast, Originate(n, dst, type)
    PROVE  Inv'
  <1>1. /\ Number(n) /\ Publish(n, prepare_header(n, dst, type))
        /\ UNCHANGED <<self, seen, direct, pool, claimed, heard, life, delivered, forwarded>>
    BY DEF Originate, table, history
  <1>2. /\ chan' \in [Node -> Packet] /\ notes' \in [Node -> 0 .. Depth]
        /\ woken' \in [Node -> BOOLEAN]
        /\ \A u \in Node : chan'[u] # None => Sendable(u, chan'[u])
    BY <1>1, Prepared, PublishKeeps
  <1>3. next_msg_id' \in [Node -> 0 .. MaxMsgs]
    BY <1>1, BoundAssumption DEF Inv, Shapes, Number
  <1>4. Shapes'
    BY <1>1, <1>2, <1>3 DEF Inv, Shapes
  <1>5. Travel'
    BY <1>1, <1>2 DEF Inv, Travel
  <1> QED
    BY <1>1, <1>4, <1>5 DEF Inv, Histories, DirectMeansNeighbour

\* TX: what a node may send, its neighbours may hear.
LEMMA TxKeepsInv == ASSUME Inv, NEW n \in Node, Tx(n) PROVE Inv'
  <1>1. CASE TxWake(n)
    <2>1. /\ notes[n] > 0 /\ notes' = [notes EXCEPT ![n] = @ - 1]
          /\ woken' = [woken EXCEPT ![n] = TRUE]
          /\ UNCHANGED <<self, next_msg_id, seen, direct, pool, claimed, chan, heard, life,
                        delivered, forwarded>>
      BY <1>1 DEF TxWake, node, table, history
    <2>2. notes' \in [Node -> 0 .. Depth] /\ woken' \in [Node -> BOOLEAN]
      BY <2>1, SizeAssumption DEF Inv, Shapes
    <2> QED
      BY <2>1, <2>2 DEF Inv, Shapes, Histories, Travel, DirectMeansNeighbour
  <1>2. CASE TxSend(n)
    <2>1. PICK R \in SUBSET {u \in Neighbours(n) : heard[u] = None} :
             heard' = [u \in Node |-> IF u \in R THEN chan[n] ELSE heard[u]]
      BY <1>2 DEF TxSend
    <2>2. /\ woken' = [woken EXCEPT ![n] = FALSE]
          /\ UNCHANGED <<self, next_msg_id, seen, direct, pool, claimed, chan, notes, life,
                        delivered, forwarded>>
      BY <1>2 DEF TxSend, node, table, history
    <2>3. ASSUME NEW u \in Node, heard'[u] # None PROVE Audible(u, heard'[u])
      <3>1. CASE u \in R
        <4> DEFINE m == chan[n]
        <4>1. m \in Message /\ heard'[u] = m /\ Sendable(n, m) /\ u \in Neighbours(n)
          BY <2>1, <2>3, <3>1 DEF Inv, Shapes, Packet, Travel
        <4> HIDE DEF m
        <4>2. m.src \in Node /\ Ttl - m.ttl \in 0 .. Ttl - 1
          BY <4>1, MessageShape
        <4>3. u \in Within[m.src][Ttl - m.ttl + 1]
          BY <4>1, <4>2, WithinNext DEF Sendable
        <4> QED
          BY <4>1, <4>3 DEF Sendable, Audible
      <3>2. CASE u \notin R
        BY <2>1, <2>3, <3>2 DEF Inv, Travel
      <3> QED
        BY <3>1, <3>2
    <2>4. heard' \in [Node -> Packet] /\ woken' \in [Node -> BOOLEAN]
      BY <2>1, <2>2 DEF Inv, Shapes
    <2>5. Shapes'
      BY <2>2, <2>4 DEF Inv, Shapes
    <2>6. Travel'
      BY <2>2, <2>3 DEF Inv, Travel
    <2> QED
      BY <2>2, <2>5, <2>6 DEF Inv, Histories, DirectMeansNeighbour
  <1> QED
    BY <1>1, <1>2 DEF Tx

\* The radio is emptied.
LEMMA HandledKeeps ==
    ASSUME Inv, NEW n \in Node, Handled(n)
    PROVE  /\ heard' \in [Node -> Packet]
           /\ \A u \in Node : heard'[u] # None => heard'[u] = heard[u] /\ Audible(u, heard'[u])
  BY DEF Inv, Shapes, Packet, Travel, Handled

\* What a fresh packet does to the cache, the table and the deliveries.
LEMMA FreshKeeps ==
    ASSUME Inv, NEW n \in Node, Fresh(n, heard[n])
    PROVE  /\ heard[n] \in Message /\ Audible(n, heard[n])
           /\ seen' \in [Node -> Seq(HeaderId)]
           /\ direct' \in [Node -> SUBSET Node] /\ DirectMeansNeighbour'
           /\ delivered' = [u \in Node |-> delivered'[u]]
           /\ \A u \in Node : BagOk(delivered'[u])
           /\ \A u \in Node : u # n => seen'[u] = seen[u] /\ delivered'[u] = delivered[u]
           /\ seen'[n] = mark_seen(n, heard[n])
           /\ delivered'[n] = IF is_for_us(n, heard[n])
                              THEN delivered[n] (+) Once(Kept(n, heard[n])) ELSE delivered[n]
           /\ Kept(n, heard[n]) \in Message
           /\ Kept(n, heard[n]).early = (self[n] # n)
           /\ Header(Kept(n, heard[n])) = Header(heard[n])
  <1> DEFINE m == heard[n]
             k == Kept(n, m)
  <1>1. m \in Message /\ Audible(n, m)
    BY DEF Fresh, Inv, Shapes, Packet, Travel
  <1> HIDE DEF m
  <1>2. m.src \in Node /\ Header(m) \in HeaderId
    BY <1>1, MessageShape
  <1>3. /\ seen' = [seen EXCEPT ![n] = mark_seen(n, m)]
        /\ direct' = [direct EXCEPT ![n] = IF is_direct(m) THEN @ \union {m.src} ELSE @]
        /\ delivered' = [delivered EXCEPT ![n] = IF is_for_us(n, m) THEN @ (+) Once(k) ELSE @]
    BY DEF Fresh, m
  <1>9. k \in Message /\ k.early = (self[n] # n) /\ Header(k) = Header(m)
    BY <1>1, KeptIsMarked
  <1> HIDE DEF k
  <1>4. mark_seen(n, m) \in Seq(HeaderId)
    <2>1. seen[n] \in Seq(HeaderId)
      BY DEF Inv, Shapes
    <2>2. CASE Len(seen[n]) < CacheSize
      BY <1>2, <2>1, <2>2 DEF mark_seen
    <2>3. CASE ~(Len(seen[n]) < CacheSize)
      <3>1. seen[n] # <<>>
        BY <2>1, <2>3, SizeAssumption
      <3>2. Tail(seen[n]) \in Seq(HeaderId)
        BY <2>1, <3>1
      <3> QED
        BY <1>2, <2>3, <3>2 DEF mark_seen
    <2> QED
      BY <2>2, <2>3
  <1>5. /\ seen' \in [Node -> Seq(HeaderId)]
        /\ \A u \in Node : u # n => seen'[u] = seen[u]
        /\ seen'[n] = mark_seen(n, m)
    BY <1>3, <1>4 DEF Inv, Shapes
  <1>6. direct' \in [Node -> SUBSET Node] /\ DirectMeansNeighbour'
    <2>1. is_direct(m) => m.src \in Neighbours(n)
      BY <1>1, <1>2, LinkAssumption DEF is_direct, Audible, Neighbours
    <2> QED
      BY <1>2, <1>3, <2>1 DEF Inv, Shapes, DirectMeansNeighbour
  <1>7. /\ delivered' = [u \in Node |-> delivered'[u]]
        /\ \A u \in Node : u # n => delivered'[u] = delivered[u]
        /\ delivered'[n] = IF is_for_us(n, m) THEN delivered[n] (+) Once(k) ELSE delivered[n]
    BY <1>3 DEF Inv, Histories
  <1>8. \A u \in Node : BagOk(delivered'[u])
    <2>1. \A u \in Node : BagOk(delivered[u])
      BY DEF Inv, Histories
    <2>2. BagOk(delivered[n] (+) Once(k))
      BY <1>9, <2>1, AddOnce
    <2> QED
      BY <1>7, <2>1, <2>2
  <1> QED
    BY <1>1, <1>5, <1>6, <1>7, <1>8, <1>9 DEF m, k

\* At most one slot is emptied by a cancel.
LEMMA CancelKeeps ==
    ASSUME Inv, NEW n \in Node, NEW m, Cancel(n, m)
    PROVE  /\ pool' \in [Node -> [Slot -> Packet]]
           /\ \A u \in Node : \A s \in Slot : pool'[u][s] # None => pool'[u][s] = pool[u][s]
  <1>1. CASE UNCHANGED pool
    BY <1>1 DEF Inv, Shapes
  <1>2. CASE \E s \in Slot : pool' = [pool EXCEPT ![n][s] = None]
    BY <1>2 DEF Inv, Shapes, Packet
  <1> QED
    BY <1>1, <1>2 DEF Cancel

\* What Forward adds to the pool, if anything, is the packet just heard.
Added(n, m, o) ==
    /\ o \in Message /\ Relayed(n, o)
    /\ Header(o) = Header(m) /\ o.src = m.src /\ o.type = "data" /\ o.life = m.life
    /\ o.early = (self[n] # n)
LEMMA ForwardKeeps ==
    ASSUME Inv, NEW n \in Node, NEW m \in Message, Audible(n, m), Forward(n, m)
    PROVE  /\ pool' \in [Node -> [Slot -> Packet]]
           /\ \A u \in Node : u # n => pool'[u] = pool[u]
           /\ \/ pool' = pool
              \/ \E s \in Slot : /\ pool[n][s] = None /\ Added(n, m, pool'[n][s])
                                 /\ \A t \in Slot : t # s => pool'[n][t] = pool[n][t]
  <1>1. CASE UNCHANGED pool
    BY <1>1 DEF Inv, Shapes
  <1>2. CASE m.type = "data" /\ m.ttl > 1 /\ Schedule(n, [m EXCEPT !.ttl = @ - 1])
    <2> DEFINE d == [m EXCEPT !.ttl = @ - 1]
               o == Kept(n, d)
    <2>1. d \in Message /\ Relayed(n, d) /\ Header(d) = Header(m)
          /\ d.src = m.src /\ d.type = "data" /\ d.life = m.life
      BY <1>2, Diminished
    <2> HIDE DEF d
    <2>2. Added(n, m, o)
      <3>1. /\ o \in Message /\ o.src = d.src /\ o.ttl = d.ttl /\ o.type = d.type
            /\ o.life = d.life /\ o.early = (self[n] # n) /\ Header(o) = Header(d)
        BY <2>1, KeptIsMarked
      <3> HIDE DEF o
      <3> QED
        BY <2>1, <3>1 DEF Added, Relayed
    <2>3. UNCHANGED pool \/ \E s \in Slot : /\ pool[n][s] = None
                                            /\ pool' = [pool EXCEPT ![n][s] = o]
      BY <1>2 DEF Schedule, d
    <2> HIDE DEF o
    <2>4. ASSUME NEW s \in Slot, pool[n][s] = None, pool' = [pool EXCEPT ![n][s] = o]
          PROVE  /\ pool' \in [Node -> [Slot -> Packet]]
                 /\ \A u \in Node : u # n => pool'[u] = pool[u]
                 /\ pool'[n][s] = o /\ \A t \in Slot : t # s => pool'[n][t] = pool[n][t]
      BY <2>2, <2>4 DEF Inv, Shapes, Packet, Added
    <2> QED
      BY <1>1, <2>2, <2>3, <2>4
  <1> QED
    BY <1>1, <1>2 DEF Forward

\* lora_in_task: every outcome of a received packet.
LEMMA ReceiveKeepsInv == ASSUME Inv, NEW n \in Node, Receive(n) PROVE Inv'
  <1>0. Handled(n) => /\ heard' \in [Node -> Packet]
                      /\ \A u \in Node : heard'[u] # None => Audible(u, heard'[u])
    BY HandledKeeps
  <1>1. CASE DropOwn(n)
    <2>1. Handled(n) /\ UNCHANGED <<self, next_msg_id, seen, direct, pool, claimed, chan, notes,
                                   woken, life, delivered, forwarded>>
      BY <1>1 DEF DropOwn, node, table, out, history
    <2> QED
      BY <1>0, <2>1 DEF Inv, Shapes, Histories, Travel, DirectMeansNeighbour
  <1>2. CASE DropDuplicate(n)
    <2>1. /\ Handled(n) /\ Cancel(n, heard[n])
          /\ UNCHANGED <<self, next_msg_id, seen, direct, claimed, chan, notes,
                        woken, life, delivered, forwarded>>
      BY <1>2 DEF DropDuplicate, node, table, out, history
    <2>2. /\ pool' \in [Node -> [Slot -> Packet]]
          /\ \A u \in Node : \A s \in Slot : pool'[u][s] # None => pool'[u][s] = pool[u][s]
      BY <2>1, CancelKeeps
    <2>3. Shapes'
      BY <1>0, <2>1, <2>2 DEF Inv, Shapes
    <2>4. Travel'
      BY <1>0, <2>1, <2>2 DEF Inv, Travel
    <2> QED
      BY <2>1, <2>3, <2>4 DEF Inv, Histories, DirectMeansNeighbour
  <1>3. CASE ReceiveSet(n)
    <2>1. /\ Fresh(n, heard[n]) /\ Handled(n) /\ Number(n)
          /\ Publish(n, prepare_header(n, heard[n].src, "ack"))
          /\ UNCHANGED <<self, pool, claimed, life, forwarded>>
      BY <1>3 DEF ReceiveSet, Fresh
    <2>2. /\ heard[n] \in Message
          /\ seen' \in [Node -> Seq(HeaderId)]
          /\ direct' \in [Node -> SUBSET Node] /\ DirectMeansNeighbour'
          /\ delivered' = [u \in Node |-> delivered'[u]]
          /\ \A u \in Node : BagOk(delivered'[u])
      BY <2>1, FreshKeeps
    <2>3. /\ prepare_header(n, heard[n].src, "ack") \in Message
          /\ Sendable(n, prepare_header(n, heard[n].src, "ack"))
      <3>1. heard[n].src \in Node /\ "ack" \in Type
        BY <2>2, MessageShape DEF Type
      <3> QED
        BY <2>1, <3>1, Prepared, NotANode
    <2>4. /\ chan' \in [Node -> Packet] /\ notes' \in [Node -> 0 .. Depth]
          /\ woken' \in [Node -> BOOLEAN]
          /\ \A u \in Node : chan'[u] # None => Sendable(u, chan'[u])
      BY <2>1, <2>3, PublishKeeps
    <2>5. next_msg_id' \in [Node -> 0 .. MaxMsgs]
      BY <2>1, BoundAssumption DEF Inv, Shapes, Number
    <2>6. Shapes'
      BY <1>0, <2>1, <2>2, <2>4, <2>5 DEF Inv, Shapes
    <2>7. Travel'
      BY <1>0, <2>1, <2>4 DEF Inv, Travel
    <2>8. Histories'
      BY <2>1, <2>2 DEF Inv, Histories
    <2> QED
      BY <2>2, <2>6, <2>7, <2>8 DEF Inv
  <1>4. CASE ReceiveOther(n)
    <2>1. /\ Fresh(n, heard[n]) /\ Handled(n)
          /\ Forward(n, heard[n])
          /\ UNCHANGED <<self, next_msg_id, claimed, chan, notes, woken, life, forwarded>>
      BY <1>4 DEF ReceiveOther, Fresh, node, out
    <2>2. /\ heard[n] \in Message /\ Audible(n, heard[n])
          /\ seen' \in [Node -> Seq(HeaderId)]
          /\ direct' \in [Node -> SUBSET Node] /\ DirectMeansNeighbour'
          /\ delivered' = [u \in Node |-> delivered'[u]]
          /\ \A u \in Node : BagOk(delivered'[u])
      BY <2>1, FreshKeeps
    <2>3. /\ pool' \in [Node -> [Slot -> Packet]]
          /\ \A u \in Node : u # n => pool'[u] = pool[u]
          /\ \A s \in Slot : pool'[n][s] = pool[n][s] \/ Relayed(n, pool'[n][s])
      BY <2>1, <2>2, ForwardKeeps DEF Added
    <2>4. \A u \in Node : \A s \in Slot : pool'[u][s] # None => Relayed(u, pool'[u][s])
      BY <2>3 DEF Inv, Travel
    <2>5. Shapes'
      BY <1>0, <2>1, <2>2, <2>3 DEF Inv, Shapes
    <2>6. Travel'
      BY <1>0, <2>1, <2>4 DEF Inv, Travel
    <2>7. Histories'
      BY <2>1, <2>2 DEF Inv, Histories
    <2> QED
      BY <2>2, <2>5, <2>6, <2>7 DEF Inv
  <1> QED
    BY <1>1, <1>2, <1>3, <1>4 DEF Receive

\* The work handler: a pending forward is taken, then published.
LEMMA ExpireKeepsInv == ASSUME Inv, NEW n \in Node, Expire(n) PROVE Inv'
  <1>1. CASE Claim(n)
    <2>1. PICK s \in Slot : /\ pool[n][s] # None
                            /\ pool' = [pool EXCEPT ![n][s] = None]
                            /\ claimed' = [claimed EXCEPT ![n] = pool[n][s]]
      BY <1>1 DEF Claim
    <2>2. UNCHANGED <<self, next_msg_id, seen, direct, chan, notes, woken, heard, life,
                      delivered, forwarded>>
      BY <1>1 DEF Claim, node, table, out, history
    <2>3. /\ pool' \in [Node -> [Slot -> Packet]] /\ claimed' \in [Node -> Packet]
          /\ \A u \in Node : \A t \in Slot : pool'[u][t] # None => pool'[u][t] = pool[u][t]
          /\ \A u \in Node : claimed'[u] = IF u = n THEN pool[n][s] ELSE claimed[u]
      BY <2>1 DEF Inv, Shapes, Packet
    <2>4. Shapes'
      BY <2>2, <2>3 DEF Inv, Shapes
    <2>5. Travel'
      BY <2>1, <2>2, <2>3 DEF Inv, Travel
    <2> QED
      BY <2>2, <2>4, <2>5 DEF Inv, Histories, DirectMeansNeighbour
  <1>2. CASE Rebroadcast(n)
    <2> DEFINE m == claimed[n]
               o == [m EXCEPT !.early = FALSE]
    <2>1. /\ m \in Message /\ Relayed(n, m)
          /\ Publish(n, o) /\ claimed' = [claimed EXCEPT ![n] = None]
          /\ forwarded' = [forwarded EXCEPT ![n] = @ (+) Once(m)]
          /\ UNCHANGED <<self, next_msg_id, seen, direct, pool, heard, life, delivered>>
      BY <1>2 DEF Rebroadcast, node, table, Inv, Shapes, Packet, Travel
    <2> HIDE DEF m
    <2>2. o \in Message /\ Sendable(n, o)
      <3>1. o \in Message /\ o.src = m.src /\ o.ttl = m.ttl /\ o.type = m.type
        BY <2>1, Marked
      <3> HIDE DEF o
      <3> QED
        BY <2>1, <3>1, MessageShape DEF Relayed, Sendable
    <2> HIDE DEF o
    <2>3. /\ chan' \in [Node -> Packet] /\ notes' \in [Node -> 0 .. Depth]
          /\ woken' \in [Node -> BOOLEAN]
          /\ \A u \in Node : chan'[u] # None => Sendable(u, chan'[u])
      BY <2>1, <2>2, PublishKeeps
    <2>4. /\ claimed' \in [Node -> Packet]
          /\ \A u \in Node : claimed'[u] # None => claimed'[u] = claimed[u]
      BY <2>1 DEF Inv, Shapes, Packet
    <2>5. Shapes'
      BY <2>1, <2>3, <2>4 DEF Inv, Shapes
    <2>6. Travel'
      BY <2>1, <2>3, <2>4 DEF Inv, Travel
    <2>7. Histories'
      <3>1. \A u \in Node : BagOk(forwarded[u])
        BY DEF Inv, Histories
      <3>2. BagOk(forwarded[n] (+) Once(m))
        BY <2>1, <3>1, AddOnce
      <3> QED
        BY <2>1, <3>1, <3>2 DEF Inv, Histories
    <2> QED
      BY <2>1, <2>5, <2>6, <2>7 DEF Inv, DirectMeansNeighbour
  <1> QED
    BY <1>1, <1>2 DEF Expire

\* The empty bag is a bag of messages.
LEMMA EmptyIsBag == BagOk(EmptyBag) /\ DOMAIN EmptyBag = {}
  BY DEF BagOk, EmptyBag, SetToBag, IsABag, BagToSet

\* A restart leaves nothing behind in its node.
LEMMA RestartKeepsInv == ASSUME Inv, NEW n \in Node, Restart(n) PROVE Inv'
  <1>1. 0 \in 0 .. MaxMsgs /\ 0 \in 0 .. Depth
    BY BoundAssumption, SizeAssumption
  <1>2. /\ life' \in [Node -> {0, 1}] /\ next_msg_id' \in [Node -> 0 .. MaxMsgs]
        /\ seen' \in [Node -> Seq(HeaderId)] /\ direct' \in [Node -> SUBSET Node]
        /\ notes' \in [Node -> 0 .. Depth] /\ woken' \in [Node -> BOOLEAN]
    BY <1>1 DEF Restart, Inv, Shapes
  <1>3. /\ claimed' \in [Node -> Packet] /\ chan' \in [Node -> Packet]
        /\ heard' \in [Node -> Packet]
        /\ \A u \in Node : /\ claimed'[u] # None => claimed'[u] = claimed[u]
                           /\ chan'[u] # None => chan'[u] = chan[u]
                           /\ heard'[u] # None => heard'[u] = heard[u]
    BY DEF Restart, Inv, Shapes, Packet
  <1>4. /\ pool' \in [Node -> [Slot -> Packet]]
        /\ \A u \in Node : \A s \in Slot : pool'[u][s] # None => pool'[u][s] = pool[u][s]
        /\ \A u \in Node : direct'[u] \subseteq direct[u]
    BY DEF Restart, Inv, Shapes, Packet
  <1>8. self' \in [Node -> 0 .. Broadcast] /\ \A u \in Node : self'[u] \in {0, u}
    BY NotANode DEF Restart, Inv, Shapes
  <1>5. Travel'
    BY <1>3, <1>4 DEF Inv, Travel
  <1>6. Histories'
    <2>1. /\ delivered' = [delivered EXCEPT ![n] = EmptyBag]
          /\ forwarded' = [forwarded EXCEPT ![n] = EmptyBag]
      BY DEF Restart
    <2>2. \A u \in Node : /\ delivered'[u] = IF u = n THEN EmptyBag ELSE delivered[u]
                          /\ forwarded'[u] = IF u = n THEN EmptyBag ELSE forwarded[u]
      BY <2>1 DEF Inv, Histories
    <2>3. /\ delivered' = [u \in Node |-> delivered'[u]]
          /\ forwarded' = [u \in Node |-> forwarded'[u]]
      BY <2>1 DEF Inv, Histories
    <2> QED
      BY <2>2, <2>3, EmptyIsBag DEF Inv, Histories
  <1>7. DirectMeansNeighbour'
    BY <1>4 DEF Inv, DirectMeansNeighbour
  <1> QED
    BY <1>2, <1>3, <1>4, <1>5, <1>6, <1>7, <1>8 DEF Inv, Shapes

\* The boot clears the cache and the table, and nothing else.
LEMMA BootKeepsInv == ASSUME Inv, NEW n \in Node, ts_routing_init(n) PROVE Inv'
  <1>1. UNCHANGED <<pool, claimed, chan, notes, woken, heard, life, delivered, forwarded>>
    BY DEF ts_routing_init, out, history
  <1>2. self' \in [Node -> 0 .. Broadcast] /\ \A u \in Node : self'[u] \in {0, u}
    BY NotANode DEF ts_routing_init, Inv, Shapes
  <1>3. /\ next_msg_id' \in [Node -> 0 .. MaxMsgs] /\ seen' \in [Node -> Seq(HeaderId)]
        /\ direct' \in [Node -> SUBSET Node]
        /\ \A u \in Node : direct'[u] \subseteq direct[u]
    BY BoundAssumption DEF ts_routing_init, Inv, Shapes
  <1> QED
    BY <1>1, <1>2, <1>3 DEF Inv, Shapes, Histories, Travel, DirectMeansNeighbour

-----------------------------------------------------------------------------
\* The invariant holds at first.
LEMMA InvInit == Init => Inv
  <1> SUFFICES ASSUME Init PROVE Inv
    OBVIOUS
  <1>1. 0 \in 0 .. MaxMsgs /\ 0 \in 0 .. Depth
    BY BoundAssumption, SizeAssumption
  <1>2. self \in [Node -> 0 .. Broadcast] /\ \A n \in Node : self[n] \in {0, n}
    BY NotANode DEF Init
  <1>3. Shapes
    BY <1>1, <1>2 DEF Init, Shapes, Packet
  <1>4. Histories
    BY EmptyIsBag DEF Init, Histories
  <1>5. Travel /\ DirectMeansNeighbour
    BY DEF Init, Travel, DirectMeansNeighbour
  <1> QED
    BY <1>3, <1>4, <1>5 DEF Inv

\* Every step of every node keeps it.
LEMMA InvNext == Inv /\ [Next]_vars => Inv'
  <1> SUFFICES ASSUME Inv, [Next]_vars PROVE Inv'
    OBVIOUS
  <1>1. ASSUME NEW n \in Node, Produce(n) PROVE Inv'
    BY <1>1, OriginateKeepsInv DEF Produce, Type
  <1>2. ASSUME NEW n \in Node, SensorFails(n) PROVE Inv'
    <2>1. /\ Number(n)
          /\ UNCHANGED <<self, seen, direct, pool, claimed, chan, notes, woken, heard, life,
                        delivered, forwarded>>
      BY <1>2 DEF SensorFails, table, out, history
    <2>2. next_msg_id' \in [Node -> 0 .. MaxMsgs]
      BY <2>1, BoundAssumption DEF Inv, Shapes, Number
    <2> QED
      BY <2>1, <2>2 DEF Inv, Shapes, Histories, Travel, DirectMeansNeighbour
  <1>3. ASSUME NEW n \in Node, NEW dst \in Node, SendSet(n, dst) PROVE Inv'
    BY <1>3, OriginateKeepsInv, NotANode DEF SendSet, Type
  <1>4. ASSUME NEW n \in Node,
               Tx(n) \/ Receive(n) \/ Expire(n) \/ ts_routing_init(n) \/ Restart(n)
        PROVE  Inv'
    BY <1>4, TxKeepsInv, ReceiveKeepsInv, ExpireKeepsInv, BootKeepsInv, RestartKeepsInv
  <1>5. CASE UNCHANGED vars
    BY <1>5 DEF vars, node, table, out, history, Inv, Shapes, Histories, Travel,
                DirectMeansNeighbour
  <1> QED
    BY <1>1, <1>2, <1>3, <1>4, <1>5 DEF Next

\* So it holds throughout.
LEMMA InvHolds == Spec => []Inv
  BY InvInit, InvNext, PTL DEF Spec

\* Type correctness: in particular no node ever publishes or hears a ttl of 0.
THEOREM TypeCorrect == Spec => []TypeOK
  <1>1. Inv => TypeOK
    BY DEF Inv, Shapes, Histories, BagOk, Packet, HeaderId, TypeOK
  <1> QED
    BY <1>1, InvHolds, PTL

\* The ttl that lora_in_task decrements bounds the flood: in every topology, a
\* packet is heard at most as many hops from its source as it has lost units of
\* ttl, plus one.
THEOREM FloodIsBounded == Spec => []FloodStaysWithinTtl
  <1>1. Inv => FloodStaysWithinTtl
    BY DEF Inv, Travel, Audible, FloodStaysWithinTtl
  <1> QED
    BY <1>1, InvHolds, PTL

\* ts_routing_table_update marks only neighbours direct: only the source itself
\* sends a packet whose ttl is still the default.
THEOREM DirectIsTrue == Spec => []DirectMeansNeighbour
  <1>1. Inv => DirectMeansNeighbour
    BY DEF Inv
  <1> QED
    BY <1>1, InvHolds, PTL

\* Config sets and acks are heard only in the radio range of their maker: no relay
\* of lora_in_task passes them on.
THEOREM ConfigIsLocal == Spec => []ConfigStaysInRange
  <1>1. Inv => ConfigStaysInRange
    BY DEF Inv, Travel, Audible, ConfigStaysInRange
  <1> QED
    BY <1>1, InvHolds, PTL

-----------------------------------------------------------------------------
(* A node's own messages                                                    *)

\* A message was sent in a life its source has reached, and not before the
\* source's ts_routing_init in that life.
Dated(m) == m.life <= life[m.src] /\ (m.life = life[m.src] => self[m.src] = m.src)
AllDated ==
    \A n \in Node :
        /\ \A s \in Slot : pool[n][s] # None => Dated(pool[n][s])
        /\ \A m \in {claimed[n], chan[n], heard[n]} : m # None => Dated(m)

\* What a node holds for forwarding, is about to publish as a forward or has
\* forwarded is never its own, unless the node accepted it before its
\* ts_routing_init; and then it is from before the node's restart.
Stray(n, x) == x.src = n => x.early /\ x.life < life[n]
OwnIsFromEarlierLife ==
    \A n \in Node :
        /\ \A s \in Slot : pool[n][s] # None => Stray(n, pool[n][s])
        /\ claimed[n] # None => Stray(n, claimed[n])
        /\ \A i \in BagToSet(forwarded[n]) : Stray(n, i)

OwnInv == AllDated /\ OwnIsFromEarlierLife

\* A new message is of its sender's present life, and the sender has booted.
LEMMA PreparedIsDated ==
    ASSUME Inv, NEW n \in Node, NEW dst \in Node \union {Broadcast}, NEW type \in Type,
           Number(n), type = "data" <=> dst = Broadcast
    PROVE  Dated(prepare_header(n, dst, type))
  <1> DEFINE m == prepare_header(n, dst, type)
  <1>1. m.src = n /\ m.life = life[n] /\ self[n] = n /\ life[n] \in {0, 1}
    BY DEF prepare_header, Number, Inv, Shapes
  <1> HIDE DEF m
  <1> QED
    BY <1>1 DEF Dated, m

\* Messages stay as they are while no node boots or restarts: TX, and what is
\* published and dropped.
LEMMA CopiesKeepOwn ==
    ASSUME Inv, OwnInv, UNCHANGED <<self, life, claimed, forwarded>>,
           \A u \in Node : \A s \in Slot : pool'[u][s] # None => pool'[u][s] = pool[u][s],
           \A u \in Node : chan'[u] # None => Dated(chan'[u]),
           \A u \in Node : heard'[u] # None => Dated(heard'[u])
    PROVE  OwnInv'
  <1>1. AllDated'
    BY DEF OwnInv, AllDated, Dated
  <1>2. OwnIsFromEarlierLife'
    BY DEF OwnInv, OwnIsFromEarlierLife, Stray
  <1> QED
    BY <1>1, <1>2 DEF OwnInv

\* What a node publishes, it leaves in its channel.
LEMMA PublishIsDated ==
    ASSUME Inv, OwnInv, NEW n \in Node, NEW m \in Message, Sendable(n, m), Dated(m),
           Publish(n, m)
    PROVE  \A u \in Node : chan'[u] # None => Dated(chan'[u])
  BY PublishKeeps DEF OwnInv, AllDated

\* Making a message.
LEMMA OriginateKeepsOwn ==
    ASSUME Inv, OwnInv, NEW n \in Node, NEW dst \in Node \union {Broadcast}, NEW type \in Type,
           type = "data" <=> dst = Broadcast, Originate(n, dst, type)
    PROVE  OwnInv'
  <1>1. /\ Number(n) /\ Publish(n, prepare_header(n, dst, type))
        /\ UNCHANGED <<self, pool, claimed, heard, life, forwarded>>
    BY DEF Originate, table, history
  <1>2. \A u \in Node : chan'[u] # None => Dated(chan'[u])
    BY <1>1, Prepared, PreparedIsDated, PublishIsDated
  <1>3. \A u \in Node : heard[u] # None => Dated(heard[u])
    BY DEF OwnInv, AllDated
  <1> QED
    BY <1>1, <1>2, <1>3, CopiesKeepOwn

\* TX and the packets that RX drops or answers.
LEMMA TxKeepsOwn == ASSUME Inv, OwnInv, NEW n \in Node, Tx(n) PROVE OwnInv'
  <1>0. \A u \in Node : /\ chan[u] # None => Dated(chan[u])
                        /\ heard[u] # None => Dated(heard[u])
    BY DEF OwnInv, AllDated
  <1>1. UNCHANGED <<self, pool, claimed, chan, life, forwarded>>
    BY DEF Tx, TxWake, TxSend, node, history
  <1>2. \A u \in Node : heard'[u] \in {heard[u], chan[n]}
    BY DEF Tx, TxWake, TxSend
  <1> QED
    BY <1>0, <1>1, <1>2, CopiesKeepOwn
LEMMA DropKeepsOwn ==
    ASSUME Inv, OwnInv, NEW n \in Node, DropOwn(n) \/ DropDuplicate(n)
    PROVE  OwnInv'
  <1>0. \A u \in Node : /\ chan[u] # None => Dated(chan[u])
                        /\ heard[u] # None => Dated(heard[u])
    BY DEF OwnInv, AllDated
  <1>1. Handled(n) /\ UNCHANGED <<self, claimed, chan, life, forwarded>>
    BY DEF DropOwn, DropDuplicate, node, out, history
  <1>2. \A u \in Node : \A s \in Slot : pool'[u][s] # None => pool'[u][s] = pool[u][s]
    BY CancelKeeps DEF DropOwn, DropDuplicate
  <1> QED
    BY <1>0, <1>1, <1>2, HandledKeeps, CopiesKeepOwn
LEMMA ReceiveSetKeepsOwn == ASSUME Inv, OwnInv, NEW n \in Node, ReceiveSet(n) PROVE OwnInv'
  <1> DEFINE m == prepare_header(n, heard[n].src, "ack")
  <1>1. /\ Fresh(n, heard[n]) /\ Handled(n) /\ Number(n) /\ Publish(n, m)
        /\ UNCHANGED <<self, pool, claimed, life, forwarded>>
    BY DEF ReceiveSet, Fresh
  <1>2. m \in Message /\ Sendable(n, m) /\ Dated(m)
    <2>1. heard[n].src \in Node /\ "ack" \in Type
      BY <1>1, FreshKeeps, MessageShape DEF Type
    <2> QED
      BY <1>1, <2>1, Prepared, PreparedIsDated, NotANode
  <1> HIDE DEF m
  <1>3. \A u \in Node : chan'[u] # None => Dated(chan'[u])
    BY <1>1, <1>2, PublishIsDated
  <1>4. \A u \in Node : heard'[u] # None => Dated(heard'[u])
    BY <1>1, HandledKeeps DEF OwnInv, AllDated
  <1> QED
    BY <1>1, <1>3, <1>4, CopiesKeepOwn

\* A node that keeps a message of its own has not got its id yet, so it has sent
\* nothing in this life.
LEMMA ReceiveOtherKeepsOwn == ASSUME Inv, OwnInv, NEW n \in Node, ReceiveOther(n) PROVE OwnInv'
  <1> DEFINE m == heard[n]
  <1>1. /\ Fresh(n, m) /\ Handled(n) /\ Forward(n, m)
        /\ UNCHANGED <<self, claimed, chan, life, forwarded>>
    BY DEF ReceiveOther, Fresh, node, out
  <1>2. m \in Message /\ Audible(n, m) /\ m # None /\ m.src # self[n] /\ Dated(m)
    BY <1>1, FreshKeeps DEF Fresh, OwnInv, AllDated
  <1>3. \A u \in Node : heard'[u] # None => Dated(heard'[u])
    BY <1>1, HandledKeeps DEF OwnInv, AllDated
  <1> HIDE DEF m
  <1>4. ASSUME NEW o, Added(n, m, o) PROVE Dated(o) /\ Stray(n, o)
    <2>1. o.src = m.src /\ o.life = m.life /\ o.early = (self[n] # n)
      BY <1>4 DEF Added
    <2>2. Dated(o)
      BY <1>2, <2>1 DEF Dated
    <2>3. m.life \in {0, 1} /\ life[n] \in {0, 1}
      BY <1>2, MessageShape DEF Inv, Shapes
    <2>4. ASSUME m.src = n PROVE self[n] # n /\ m.life < life[n]
      BY <1>2, <2>3, <2>4 DEF Dated
    <2> QED
      BY <2>1, <2>2, <2>4 DEF Stray
  <1>5. \A u \in Node : \A s \in Slot :
            pool'[u][s] = pool[u][s] \/ (Dated(pool'[u][s]) /\ Stray(u, pool'[u][s]))
    BY <1>1, <1>2, <1>4, ForwardKeeps
  <1>6. \A u \in Node : \A s \in Slot :
            pool'[u][s] # None => Dated(pool'[u][s]) /\ Stray(u, pool'[u][s])
    BY <1>5 DEF OwnInv, AllDated, OwnIsFromEarlierLife
  <1>7. AllDated'
    BY <1>1, <1>3, <1>6 DEF OwnInv, AllDated, Dated
  <1>8. OwnIsFromEarlierLife'
    BY <1>1, <1>6 DEF OwnInv, OwnIsFromEarlierLife, Stray
  <1> QED
    BY <1>7, <1>8 DEF OwnInv

\* The work handler.
LEMMA ExpireKeepsOwn == ASSUME Inv, OwnInv, NEW n \in Node, Expire(n) PROVE OwnInv'
  <1>0. /\ \A u \in Node : \A s \in Slot : pool[u][s] # None =>
               Dated(pool[u][s]) /\ Stray(u, pool[u][s])
        /\ \A u \in Node : claimed[u] # None => Dated(claimed[u]) /\ Stray(u, claimed[u])
        /\ \A u \in Node : /\ chan[u] # None => Dated(chan[u])
                           /\ heard[u] # None => Dated(heard[u])
        /\ \A u \in Node : \A i \in BagToSet(forwarded[u]) : Stray(u, i)
    BY DEF OwnInv, AllDated, OwnIsFromEarlierLife
  <1>1. CASE Claim(n)
    <2>1. PICK s \in Slot : /\ pool[n][s] # None
                            /\ pool' = [pool EXCEPT ![n][s] = None]
                            /\ claimed' = [claimed EXCEPT ![n] = pool[n][s]]
      BY <1>1 DEF Claim
    <2>2. UNCHANGED <<self, chan, heard, life, forwarded>>
      BY <1>1 DEF Claim, node, out, history
    <2>3. /\ \A u \in Node : \A t \in Slot : pool'[u][t] # None => pool'[u][t] = pool[u][t]
          /\ \A u \in Node : claimed'[u] = IF u = n THEN pool[n][s] ELSE claimed[u]
      BY <2>1 DEF Inv, Shapes, Packet
    <2>4. AllDated'
      BY <1>0, <2>1, <2>2, <2>3 DEF AllDated, Dated
    <2>5. OwnIsFromEarlierLife'
      BY <1>0, <2>1, <2>2, <2>3 DEF OwnIsFromEarlierLife, Stray
    <2> QED
      BY <2>4, <2>5 DEF OwnInv
  <1>2. CASE Rebroadcast(n)
    <2> DEFINE m == claimed[n]
               o == [m EXCEPT !.early = FALSE]
    <2>1. /\ m \in Message /\ Relayed(n, m) /\ Dated(m) /\ Stray(n, m) /\ Publish(n, o)
          /\ UNCHANGED <<self, pool, heard, life>>
      BY <1>0, <1>2 DEF Rebroadcast, node, Inv, Shapes, Packet, Travel
    <2>2. /\ \A u \in Node : claimed'[u] = IF u = n THEN None ELSE claimed[u]
          /\ \A u \in Node : forwarded'[u] =
                 IF u = n THEN forwarded[n] (+) Once(m) ELSE forwarded[u]
          /\ BagOk(forwarded[n])
      BY <1>2 DEF Rebroadcast, Inv, Shapes, Histories
    <2> HIDE DEF m
    <2>3. o \in Message /\ Sendable(n, o) /\ Dated(o)
      <3>1. /\ o \in Message /\ o.src = m.src /\ o.ttl = m.ttl /\ o.type = m.type
            /\ o.life = m.life
        BY <2>1, Marked
      <3> HIDE DEF o
      <3> QED
        BY <2>1, <3>1, MessageShape DEF Relayed, Sendable, Dated
    <2> HIDE DEF o
    <2>4. \A u \in Node : chan'[u] # None => Dated(chan'[u])
      BY <2>1, <2>3, PublishIsDated
    <2>5. AllDated'
      BY <1>0, <2>1, <2>2, <2>4 DEF AllDated, Dated
    <2>6. DOMAIN (forwarded[n] (+) Once(m)) = DOMAIN forwarded[n] \union {ident(m)}
      BY <2>1, <2>2, AddOnce
    <2>7. Stray(n, ident(m))
      <3>1. ident(m).src = m.src /\ ident(m).early = m.early /\ ident(m).life = m.life
        BY DEF ident
      <3> QED
        BY <2>1, <3>1 DEF Stray
    <2>8. \A u \in Node : \A i \in BagToSet(forwarded'[u]) : Stray(u, i)
      BY <1>0, <2>2, <2>6, <2>7 DEF BagToSet
    <2>9. OwnIsFromEarlierLife'
      BY <1>0, <2>1, <2>2, <2>8 DEF OwnIsFromEarlierLife, Stray
    <2> QED
      BY <2>5, <2>9 DEF OwnInv
  <1> QED
    BY <1>1, <1>2 DEF Expire

\* The end of the boot only makes messages of the present life possible.
LEMMA BootKeepsOwn == ASSUME Inv, OwnInv, NEW n \in Node, ts_routing_init(n) PROVE OwnInv'
  <1>1. UNCHANGED <<pool, claimed, chan, heard, life, forwarded>>
    BY DEF ts_routing_init, out, history
  <1>2. \A u \in Node : self[u] = u => self'[u] = u
    BY DEF ts_routing_init, Inv, Shapes
  <1>3. ASSUME NEW m \in Message, Dated(m) PROVE Dated(m)'
    BY <1>1, <1>2, <1>3, MessageShape DEF Dated
  <1>4. /\ \A u \in Node : \A s \in Slot : pool[u][s] # None => pool[u][s] \in Message
        /\ \A u \in Node : \A m \in {claimed[u], chan[u], heard[u]} : m # None => m \in Message
    BY DEF Inv, Shapes, Packet
  <1>5. AllDated'
    BY <1>1, <1>3, <1>4 DEF OwnInv, AllDated
  <1>6. OwnIsFromEarlierLife'
    BY <1>1 DEF OwnInv, OwnIsFromEarlierLife, Stray
  <1> QED
    BY <1>5, <1>6 DEF OwnInv

\* After a restart all that a node has sent is from an earlier life.
LEMMA RestartKeepsOwn == ASSUME Inv, OwnInv, NEW n \in Node, Restart(n) PROVE OwnInv'
  <1>1. /\ \A u \in Node : life'[u] = IF u = n THEN 1 ELSE life[u]
        /\ \A u \in Node : self'[u] = IF u = n THEN 0 ELSE self[u]
        /\ life[n] = 0
    BY DEF Restart, Inv, Shapes
  <1>2. /\ \A u \in Node : \A s \in Slot :
               pool'[u][s] # None => u # n /\ pool'[u][s] = pool[u][s]
        /\ \A u \in Node : /\ claimed'[u] # None => u # n /\ claimed'[u] = claimed[u]
                           /\ chan'[u] # None => chan'[u] = chan[u]
                           /\ heard'[u] # None => heard'[u] = heard[u]
    BY DEF Restart, Inv, Shapes
  <1>3. \A u \in Node : forwarded'[u] = IF u = n THEN EmptyBag ELSE forwarded[u]
    BY DEF Restart, Inv, Histories
  <1>4. ASSUME NEW m \in Message, Dated(m) PROVE Dated(m)'
    <2>1. m.src \in Node /\ m.life \in {0, 1}
      BY MessageShape
    <2>2. CASE m.src = n
      BY <1>1, <1>4, <2>1, <2>2 DEF Dated
    <2>3. CASE m.src # n
      BY <1>1, <1>4, <2>1, <2>3 DEF Dated
    <2> QED
      BY <2>2, <2>3
  <1>5. /\ \A u \in Node : \A s \in Slot : pool[u][s] # None => pool[u][s] \in Message
        /\ \A u \in Node : \A m \in {claimed[u], chan[u], heard[u]} : m # None => m \in Message
    BY DEF Inv, Shapes, Packet
  <1>6. AllDated'
    BY <1>2, <1>4, <1>5 DEF OwnInv, AllDated
  <1>7. OwnIsFromEarlierLife'
    <2>1. BagToSet(EmptyBag) = {}
      BY EmptyIsBag DEF BagToSet
    <2>2. \A u \in Node : u # n => life'[u] = life[u] /\ forwarded'[u] = forwarded[u]
      BY <1>1, <1>3
    <2> QED
      BY <1>2, <1>3, <2>1, <2>2 DEF OwnInv, OwnIsFromEarlierLife, Stray
  <1> QED
    BY <1>6, <1>7 DEF OwnInv

\* Every step keeps this invariant.
LEMMA OwnNext == Inv /\ OwnInv /\ [Next]_vars => OwnInv'
  <1> SUFFICES ASSUME Inv, OwnInv, [Next]_vars PROVE OwnInv'
    OBVIOUS
  <1>1. ASSUME NEW n \in Node, Produce(n) PROVE OwnInv'
    BY <1>1, OriginateKeepsOwn DEF Produce, Type
  <1>2. ASSUME NEW n \in Node, NEW dst \in Node, SendSet(n, dst) PROVE OwnInv'
    BY <1>2, OriginateKeepsOwn, NotANode DEF SendSet, Type
  <1>3. ASSUME NEW n \in Node,
               Tx(n) \/ Receive(n) \/ Expire(n) \/ ts_routing_init(n) \/ Restart(n)
        PROVE  OwnInv'
    BY <1>3, TxKeepsOwn, DropKeepsOwn, ReceiveSetKeepsOwn, ReceiveOtherKeepsOwn,
       ExpireKeepsOwn, BootKeepsOwn, RestartKeepsOwn DEF Receive
  <1>4. ASSUME UNCHANGED <<self, pool, claimed, chan, heard, life, forwarded>> PROVE OwnInv'
    BY <1>4 DEF OwnInv, AllDated, Dated, OwnIsFromEarlierLife, Stray
  <1>5. ASSUME NEW n \in Node, SensorFails(n) PROVE OwnInv'
    BY <1>4, <1>5 DEF SensorFails, out, history
  <1>6. CASE UNCHANGED vars
    BY <1>4, <1>6 DEF vars, node, out, history
  <1> QED
    BY <1>1, <1>2, <1>3, <1>5, <1>6 DEF Next

\* So it holds throughout.
LEMMA OwnHolds == Spec => []OwnInv
  <1>1. Init => OwnInv
    BY EmptyIsBag DEF Init, OwnInv, AllDated, OwnIsFromEarlierLife, BagToSet
  <1> QED
    BY <1>1, OwnNext, InvHolds, PTL DEF Spec

\* However small the seen cache is and however much it has forgotten, a node that
\* ts_routing_init has given its id takes up no message of its own, because
\* lora_in_task looks at the source before the cache.  The one way for its own
\* message into the pool is the boot, in which self_node_id is still 0, and then
\* the message is from before the restart.
THEOREM OwnComesFromEarlierLife == Spec => []OwnIsFromEarlierLife
  <1>1. OwnInv => OwnIsFromEarlierLife
    BY DEF OwnInv
  <1> QED
    BY <1>1, OwnHolds, PTL

-----------------------------------------------------------------------------
(* At most once                                                             *)

\* Only nodes number messages, so finitely many headers circulate.
LEMMA CirculatingIsFinite ==
    Origin \subseteq Node /\ IsFiniteSet(Circulating) /\ Cardinality(Circulating) \in Nat
  <1>1. Origin \subseteq Node
    BY RoleAssumption DEF Origin
  <1>2. IsFiniteSet(Origin)
    <2>1. Broadcast \in Int
      BY DEF Broadcast
    <2>2. IsFiniteSet(0 .. Broadcast)
      BY <2>1, FS_Interval
    <2>3. Origin \in SUBSET (0 .. Broadcast)
      BY <1>1, NotANode
    <2> QED
      BY <2>2, <2>3, FS_Subset
  <1>3. IsFiniteSet(0 .. MaxMsgs - 1)
    BY FS_Interval, BoundAssumption
  <1>4. IsFiniteSet(Circulating)
    BY <1>2, <1>3, FS_Product DEF Circulating
  <1> QED
    BY <1>1, <1>4, FS_CardinalityType

\* A header that was not accepted yet finds room: the cache evicts nothing.
LEMMA RoomForNew ==
    ASSUME Inv, CacheIsExact, NEW n \in Node, Intact(seen[n]),
           NEW h \in Circulating, ~Accepted(seen[n], h)
    PROVE  Len(seen[n]) < CacheSize
  <1> SUFFICES ASSUME Roomy PROVE Len(seen[n]) < CacheSize
    BY DEF Intact
  <1> DEFINE f == seen[n]
             S == 1 .. Len(f)
             T == Circulating \ {h}
  <1>1. f \in Seq(HeaderId) /\ Len(f) \in Nat /\ DOMAIN f = S
    BY DEF Inv, Shapes
  <1>2. f \in [S -> T]
    BY <1>1 DEF CacheIsExact, Accepted
  <1>3. f \in Injection(S, T)
    <2>1. \A i, j \in S : f[i] = f[j] => i = j
      BY <1>1 DEF CacheIsExact
    <2> HIDE DEF f, S, T
    <2> QED
      BY <1>2, <2>1 DEF Injection, IsInjective
  <1>4. IsFiniteSet(T) /\ Cardinality(T) = Cardinality(Circulating) - 1
    BY CirculatingIsFinite, FS_RemoveElement
  <1>5. Cardinality(S) = Len(f)
    BY <1>1, FS_Interval
  <1> HIDE DEF S, T
  <1>6. Cardinality(S) <= Cardinality(T)
    BY <1>3, <1>4, FS_Injection
  <1> QED
    BY <1>1, <1>4, <1>5, <1>6, CirculatingIsFinite, SizeAssumption DEF Roomy

\* Accepting a packet adds its header, and only that, to what was accepted.
LEMMA FreshIsAccepted ==
    ASSUME Inv, OnceInv, NEW n \in Node, Fresh(n, heard[n])
    PROVE  /\ heard[n] \in Message /\ Genuine(heard[n])
           /\ ~Accepted(seen[n], Header(heard[n]))
           /\ \A u \in Node : Intact(seen'[u]) => Intact(seen[u]) /\ \A h :
                  Accepted(seen'[u], h) <=>
                      Accepted(seen[u], h) \/ (u = n /\ h = Header(heard[n]))
           /\ CacheIsExact'
  <1> DEFINE m == heard[n]
  <1>1. m \in Message /\ m # None /\ Genuine(m) /\ ~Accepted(seen[n], Header(m))
    BY FreshKeeps DEF Fresh, is_duplicate, Accepted, OnceInv, AllGenuine
  <1>2. Header(m) \in Circulating
    BY <1>1, MessageShape DEF Genuine, Circulating, Header
  <1> HIDE DEF m
  <1>3. /\ seen' \in [Node -> Seq(HeaderId)] /\ seen[n] \in Seq(HeaderId)
        /\ \A u \in Node : u # n => seen'[u] = seen[u]
        /\ seen'[n] = Append(IF Len(seen[n]) < CacheSize THEN seen[n] ELSE Tail(seen[n]),
                             Header(m))
        /\ Header(m) \in HeaderId
    BY <1>1, MessageShape, FreshKeeps DEF mark_seen, m, Inv, Shapes
  <1>4. ASSUME NEW u \in Node, Intact(seen'[u])
        PROVE  Intact(seen[u]) /\ (u = n => seen'[n] = Append(seen[n], Header(m)))
    <2>1. CASE u # n
      BY <1>3, <1>4, <2>1
    <2>2. CASE u = n /\ Len(seen[n]) < CacheSize
      BY <1>3, <2>2 DEF Intact
    <2>3. CASE u = n /\ ~(Len(seen[n]) < CacheSize)
      <3>1. seen'[n] = Append(Tail(seen[n]), Header(m)) /\ Len(seen[n]) > 0
        BY <1>3, <2>3, SizeAssumption
      <3>2. Len(seen'[n]) = Len(seen[n])
        <4> DEFINE t == Tail(seen[n])
        <4>1. t \in Seq(HeaderId) /\ Len(t) = Len(seen[n]) - 1 /\ Len(seen[n]) \in Nat
          BY <1>3, <3>1
        <4> HIDE DEF t
        <4>2. Len(Append(t, Header(m))) = Len(t) + 1
          BY <1>3, <4>1
        <4> QED
          BY <3>1, <4>1, <4>2 DEF t
      <3>3. Roomy
        BY <1>4, <2>3, <3>2 DEF Intact
      <3> QED
        BY <1>1, <1>2, <2>3, <3>3, RoomForNew DEF OnceInv, Intact
    <2> QED
      BY <2>1, <2>2, <2>3
  <1>5. ASSUME Intact(seen'[n])
        PROVE  /\ DOMAIN seen[n] = 1 .. Len(seen[n]) /\ DOMAIN seen'[n] = 1 .. Len(seen[n]) + 1
               /\ Len(seen[n]) \in Nat
               /\ \A i \in DOMAIN seen[n] : seen'[n][i] = seen[n][i]
               /\ seen'[n][Len(seen[n]) + 1] = Header(m)
    <2>1. seen'[n] = Append(seen[n], Header(m))
      BY <1>4, <1>5
    <2> QED
      BY <1>3, <2>1
  <1>6. ASSUME NEW u \in Node, Intact(seen'[u]), NEW h
        PROVE  Accepted(seen'[u], h) <=> Accepted(seen[u], h) \/ (u = n /\ h = Header(m))
    <2>1. CASE u # n
      BY <1>3, <2>1 DEF Accepted
    <2>2. CASE u = n
      <3>1. (\E i \in DOMAIN seen'[n] : seen'[n][i] = h)
              <=> (\E i \in DOMAIN seen[n] : seen[n][i] = h) \/ h = Header(m)
        BY <1>5, <1>6, <2>2
      <3> QED
        BY <2>2, <3>1 DEF Accepted
    <2> QED
      BY <2>1, <2>2
  <1>7. CacheIsExact'
    <2> SUFFICES ASSUME NEW u \in Node, Intact(seen'[u])
                 PROVE  /\ \A i, j \in DOMAIN seen'[u] : seen'[u][i] = seen'[u][j] => i = j
                        /\ \A i \in DOMAIN seen'[u] : seen'[u][i] \in Circulating
      BY DEF CacheIsExact, Intact
    <2>1. /\ \A i, j \in DOMAIN seen[u] : seen[u][i] = seen[u][j] => i = j
          /\ \A i \in DOMAIN seen[u] : seen[u][i] \in Circulating
      BY <1>4 DEF OnceInv, CacheIsExact
    <2>2. CASE u # n
      BY <1>3, <2>1, <2>2
    <2>3. CASE u = n
      <3>1. \A i \in DOMAIN seen[n] : seen[n][i] # Header(m)
        BY <1>1 DEF Accepted
      <3>2. /\ DOMAIN seen[n] = 1 .. Len(seen[n]) /\ DOMAIN seen'[n] = 1 .. Len(seen[n]) + 1
            /\ Len(seen[n]) \in Nat
            /\ \A i \in DOMAIN seen[n] : seen'[n][i] = seen[n][i]
            /\ seen'[n][Len(seen[n]) + 1] = Header(m)
        BY <1>5, <2>3
      <3>3. \A i \in DOMAIN seen'[n] : i \in DOMAIN seen[n] \/ i = Len(seen[n]) + 1
        BY <3>2
      <3>4. \A i, j \in DOMAIN seen'[n] : seen'[n][i] = seen'[n][j] => i = j
        BY <2>1, <2>3, <3>1, <3>2, <3>3
      <3>5. \A i \in DOMAIN seen'[n] : seen'[n][i] \in Circulating
        BY <1>2, <2>1, <2>3, <3>2, <3>3
      <3> QED
        BY <2>3, <3>4, <3>5
    <2> QED
      BY <2>2, <2>3
  <1> QED
    BY <1>1, <1>4, <1>6, <1>7 DEF m

\* A fresh message is delivered for the first time since the cache was cleared.
LEMMA FreshDeliversOnce ==
    ASSUME Inv, OnceInv, NEW n \in Node, Fresh(n, heard[n]), UNCHANGED self
    PROVE  /\ DeliveredOnce'
           /\ \A u \in Node : \A i \in DOMAIN delivered'[u] :
                  \/ i \in DOMAIN delivered[u]
                  \/ /\ i.early = Unnamed(u)
                     /\ Intact(seen'[u]) => Accepted(seen'[u], HeaderOf(i))
  <1> DEFINE m == heard[n]
             k == Kept(n, m)
             j == ident(k)
             B == delivered[n] (+) Once(k)
  <1>1. /\ m \in Message /\ ~Accepted(seen[n], Header(m))
        /\ \A u \in Node : Intact(seen'[u]) => Intact(seen[u]) /\ \A h :
               Accepted(seen'[u], h) <=> Accepted(seen[u], h) \/ (u = n /\ h = Header(m))
    BY FreshIsAccepted
  <1>2. /\ \A u \in Node : u # n => delivered'[u] = delivered[u]
        /\ delivered'[n] = B \/ delivered'[n] = delivered[n]
        /\ k \in Message /\ k.early = Unnamed(n) /\ Header(k) = Header(m)
    BY FreshKeeps DEF Unnamed
  <1> HIDE DEF m, k
  <1>3. HeaderOf(j) = Header(m) /\ j.early = Unnamed(n)
    BY <1>2, MessageShape DEF ident
  <1>4. Intact(seen[n]) => j \notin DOMAIN delivered[n]
    BY <1>1, <1>3 DEF OnceInv, Known
  <1>5. /\ DOMAIN B = DOMAIN delivered[n] \union {j}
        /\ \A i \in DOMAIN delivered[n] : i # j => B[i] = delivered[n][i]
        /\ j \notin DOMAIN delivered[n] => B[j] = 1
    <2>1. BagOk(delivered[n])
      BY DEF Inv, Histories
    <2> QED
      BY <1>2, <2>1, AddOnce
  <1> HIDE DEF j, B
  <1>6. \A u \in Node : \A i \in DOMAIN delivered'[u] :
            \/ i \in DOMAIN delivered[u] /\ delivered'[u][i] = delivered[u][i]
            \/ u = n /\ i = j /\ (j \notin DOMAIN delivered[n] => delivered'[n][i] = 1)
    BY <1>2, <1>5
  <1>7. \A u \in Node : Unnamed(u)' = Unnamed(u)
    BY DEF Unnamed
  <1>8. ASSUME NEW u \in Node, NEW i \in DOMAIN delivered'[u], Trusted(u, i.early)'
        PROVE  delivered'[u][i] = 1
    <2>1. Trusted(u, i.early)
      <3>1. Roomy \/ (i.early = Unnamed(u) /\ Intact(seen'[u]))
        BY <1>7, <1>8 DEF Trusted, Intact
      <3> QED
        BY <1>1, <3>1 DEF Trusted
    <2>2. CASE i \in DOMAIN delivered[u] /\ delivered'[u][i] = delivered[u][i]
      BY <2>1, <2>2 DEF OnceInv, DeliveredOnce
    <2>3. CASE u = n /\ i = j /\ (j \notin DOMAIN delivered[n] => delivered'[n][i] = 1)
      <3>1. Intact(seen[n])
        BY <2>1, <2>3 DEF Trusted, Intact
      <3> QED
        BY <1>4, <2>3, <3>1
    <2> QED
      BY <1>6, <2>2, <2>3
  <1>9. DeliveredOnce'
    BY <1>8 DEF DeliveredOnce
  <1>10. ASSUME NEW u \in Node, NEW i \in DOMAIN delivered'[u]
         PROVE  \/ i \in DOMAIN delivered[u]
                \/ /\ i.early = Unnamed(u)
                   /\ Intact(seen'[u]) => Accepted(seen'[u], HeaderOf(i))
    BY <1>1, <1>3, <1>6
  <1> QED
    BY <1>9, <1>10

\* What happened stays known while it does not change and the caches forget
\* nothing, whatever is dropped or accepted without being forwarded.
LEMMA AcceptKeeps ==
    ASSUME OnceInv, UNCHANGED <<self, claimed, forwarded>>,
           \A u \in Node : \A s \in Slot : pool'[u][s] # None => pool'[u][s] = pool[u][s],
           \A u \in Node : Intact(seen'[u]) => Intact(seen[u]) /\ \A h :
               Accepted(seen[u], h) => Accepted(seen'[u], h),
           \A u \in Node : \A i \in DOMAIN delivered'[u] :
               \/ i \in DOMAIN delivered[u]
               \/ /\ i.early = Unnamed(u)
                  /\ Intact(seen'[u]) => Accepted(seen'[u], HeaderOf(i))
    PROVE  Marks' /\ Known' /\ ForwardedOnce'
  <1>0. \A u \in Node : Unnamed(u)' = Unnamed(u)
    BY DEF Unnamed
  <1>1. Marks'
    BY <1>0 DEF OnceInv, Marks
  <1>2. Known'
    <2> SUFFICES ASSUME NEW u \in Node, Intact(seen'[u])
                 PROVE  /\ \A s \in Slot : pool'[u][s] # None /\ pool'[u][s].early = Unnamed(u) =>
                               Accepted(seen'[u], Header(pool'[u][s]))
                        /\ claimed[u] # None /\ claimed[u].early = Unnamed(u) =>
                               Accepted(seen'[u], Header(claimed[u]))
                        /\ \A i \in DOMAIN delivered'[u] \union DOMAIN forwarded[u] :
                               i.early = Unnamed(u) => Accepted(seen'[u], HeaderOf(i))
      BY <1>0 DEF Known, Intact
    <2>1. Intact(seen[u]) /\ \A h : Accepted(seen[u], h) => Accepted(seen'[u], h)
      OBVIOUS
    <2>2. /\ \A s \in Slot : pool[u][s] # None /\ pool[u][s].early = Unnamed(u) =>
                 Accepted(seen[u], Header(pool[u][s]))
          /\ claimed[u] # None /\ claimed[u].early = Unnamed(u) =>
                 Accepted(seen[u], Header(claimed[u]))
          /\ \A i \in DOMAIN delivered[u] \union DOMAIN forwarded[u] :
                 i.early = Unnamed(u) => Accepted(seen[u], HeaderOf(i))
      BY <2>1 DEF OnceInv, Known
    <2> QED
      BY <2>1, <2>2
  <1>3. ForwardedOnce'
    <2> SUFFICES ASSUME NEW u \in Node, NEW e \in BOOLEAN, Trusted(u, e)'
                 PROVE  Ledger(e, pool'[u], claimed[u], forwarded[u])
      BY DEF ForwardedOnce
    <2>1. Trusted(u, e)
      <3>1. Roomy \/ (e = Unnamed(u) /\ Intact(seen'[u]))
        BY <1>0 DEF Trusted, Intact
      <3> QED
        BY <3>1 DEF Trusted
    <2>2. Ledger(e, pool[u], claimed[u], forwarded[u])
      BY <2>1 DEF OnceInv, ForwardedOnce
    <2> QED
      BY <2>2 DEF Ledger
  <1> QED
    BY <1>1, <1>2, <1>3

\* In particular when neither the caches nor the deliveries change.
LEMMA SameKeeps ==
    ASSUME OnceInv, UNCHANGED <<self, seen, claimed, delivered, forwarded>>,
           \A u \in Node : \A s \in Slot : pool'[u][s] # None => pool'[u][s] = pool[u][s],
           AllGenuine'
    PROVE  OnceInv'
  <1>0. \A u \in Node : Unnamed(u)' = Unnamed(u)
    BY DEF Unnamed
  <1>1. Marks' /\ Known' /\ ForwardedOnce'
    BY AcceptKeeps
  <1>2. CacheIsExact'
    BY DEF OnceInv, CacheIsExact, Intact
  <1>3. DeliveredOnce'
    BY <1>0 DEF OnceInv, DeliveredOnce, Trusted, Intact
  <1> QED
    BY <1>1, <1>2, <1>3 DEF OnceInv

\* Publishing a genuine message leaves genuine messages everywhere.
LEMMA PublishIsGenuine ==
    ASSUME Inv, OnceInv, NEW n \in Node, NEW m \in Message, Genuine(m), Sendable(n, m),
           Publish(n, m), NEW u \in Node, chan'[u] # None
    PROVE  Genuine(chan'[u])
  BY PublishKeeps DEF OnceInv, AllGenuine

\* Emptying a radio does, too.
LEMMA HandledIsGenuine ==
    ASSUME Inv, OnceInv, NEW n \in Node, Handled(n), NEW u \in Node, heard'[u] # None
    PROVE  Genuine(heard'[u])
  BY HandledKeeps DEF OnceInv, AllGenuine

\* Making a message changes nothing that was accepted.
LEMMA OriginateKeepsOnce ==
    ASSUME Inv, OnceInv, NEW n \in Origin, NEW dst \in Node \union {Broadcast},
           NEW type \in Type, type = "set" => <<n, dst>> \in Managed,
           type = "data" <=> dst = Broadcast, Originate(n, dst, type)
    PROVE  OnceInv'
  <1> DEFINE m == prepare_header(n, dst, type)
  <1>1. /\ Number(n) /\ Publish(n, m)
        /\ UNCHANGED <<self, seen, pool, claimed, heard, delivered, forwarded>>
    BY DEF Originate, table, history
  <1>2. n \in Node
    BY CirculatingIsFinite
  <1>3. m \in Message /\ Sendable(n, m) /\ Genuine(m)
    BY <1>1, <1>2, Prepared DEF Genuine
  <1> HIDE DEF m
  <1>4. AllGenuine'
    BY <1>1, <1>2, <1>3, PublishIsGenuine DEF OnceInv, AllGenuine
  <1> QED
    BY <1>1, <1>4, SameKeeps

\* TX copies packets; it accepts, delivers and forwards nothing.
LEMMA TxKeepsOnce == ASSUME Inv, OnceInv, NEW n \in Node, Tx(n) PROVE OnceInv'
  <1>1. UNCHANGED <<self, seen, pool, claimed, chan, delivered, forwarded>>
    BY DEF Tx, TxWake, TxSend, node, table, history
  <1>2. \A u \in Node : heard'[u] \in {heard[u], chan[n]}
    BY DEF Tx, TxWake, TxSend
  <1>3. AllGenuine'
    BY <1>1, <1>2 DEF OnceInv, AllGenuine
  <1> QED
    BY <1>1, <1>3, SameKeeps

\* A packet that is dropped takes at most a pending forward with it.
LEMMA DropKeepsOnce ==
    ASSUME Inv, OnceInv, NEW n \in Node, DropOwn(n) \/ DropDuplicate(n)
    PROVE  OnceInv'
  <1>1. Handled(n) /\ UNCHANGED <<self, seen, claimed, chan, delivered, forwarded>>
    BY DEF DropOwn, DropDuplicate, node, table, out, history
  <1>2. \A u \in Node : \A s \in Slot : pool'[u][s] # None => pool'[u][s] = pool[u][s]
    BY CancelKeeps DEF DropOwn, DropDuplicate
  <1>3. AllGenuine'
    BY <1>1, <1>2, HandledIsGenuine DEF OnceInv, AllGenuine
  <1> QED
    BY <1>1, <1>2, <1>3, SameKeeps

\* A config set for this node is delivered and acknowledged; the node that
\* acknowledges it is managed, so the ack is in circulation, too.
LEMMA ReceiveSetKeepsOnce ==
    ASSUME Inv, OnceInv, NEW n \in Node, ReceiveSet(n)
    PROVE  OnceInv'
  <1> DEFINE m == prepare_header(n, heard[n].src, "ack")
  <1>1. /\ Fresh(n, heard[n]) /\ Handled(n) /\ Number(n)
        /\ is_for_us(n, heard[n]) /\ heard[n].type = "set"
        /\ Publish(n, m) /\ UNCHANGED <<self, pool, claimed, forwarded>>
    BY DEF ReceiveSet, Fresh
  <1>2. /\ heard[n] \in Message /\ Genuine(heard[n]) /\ CacheIsExact'
        /\ \A u \in Node : Intact(seen'[u]) => Intact(seen[u]) /\ \A h :
               Accepted(seen[u], h) => Accepted(seen'[u], h)
    BY <1>1, FreshIsAccepted
  <1>3. n \in Origin
    <2>1. <<heard[n].src, heard[n].dst>> \in Managed
      BY <1>1, <1>2 DEF Genuine
    <2>2. heard[n].dst \in Node /\ self[n] = n
      BY <1>1, <2>1, RoleAssumption DEF Number
    <2>3. heard[n].dst = n
      BY <1>1, <2>2, NotANode DEF is_for_us
    <2> QED
      BY <2>1, <2>3 DEF Origin
  <1>4. m \in Message /\ Sendable(n, m) /\ Genuine(m)
    <2>1. heard[n].src \in Node /\ "ack" \in Type
      BY <1>2, MessageShape DEF Type
    <2> QED
      BY <1>1, <1>3, <2>1, Prepared, NotANode DEF Genuine
  <1> HIDE DEF m
  <1>5. AllGenuine'
    BY <1>1, <1>4, PublishIsGenuine, HandledIsGenuine DEF OnceInv, AllGenuine
  <1>6. /\ DeliveredOnce'
        /\ \A u \in Node : \A i \in DOMAIN delivered'[u] :
               \/ i \in DOMAIN delivered[u]
               \/ /\ i.early = Unnamed(u)
                  /\ Intact(seen'[u]) => Accepted(seen'[u], HeaderOf(i))
    BY <1>1, FreshDeliversOnce
  <1>7. Marks' /\ Known' /\ ForwardedOnce'
    BY <1>1, <1>2, <1>6, AcceptKeeps
  <1> QED
    BY <1>2, <1>5, <1>6, <1>7 DEF OnceInv

\* The forward of a fresh message is the first of its header in this node since the
\* cache was cleared.
LEMMA ReceiveOtherKeepsOnce ==
    ASSUME Inv, OnceInv, NEW n \in Node, ReceiveOther(n)
    PROVE  OnceInv'
  <1> DEFINE m == heard[n]
  <1>1. /\ Fresh(n, m) /\ Handled(n) /\ Forward(n, m)
        /\ UNCHANGED <<self, claimed, chan, forwarded>>
    BY DEF ReceiveOther, Fresh, node, out
  <1>2. /\ m \in Message /\ Audible(n, m) /\ Genuine(m) /\ CacheIsExact'
        /\ ~Accepted(seen[n], Header(m))
        /\ \A u \in Node : Intact(seen'[u]) => Intact(seen[u]) /\ \A h :
               Accepted(seen[u], h) => Accepted(seen'[u], h)
        /\ Intact(seen'[n]) => Accepted(seen'[n], Header(m))
    BY <1>1, FreshIsAccepted, FreshKeeps
  <1>3. /\ DeliveredOnce'
        /\ \A u \in Node : \A i \in DOMAIN delivered'[u] :
               \/ i \in DOMAIN delivered[u]
               \/ /\ i.early = Unnamed(u)
                  /\ Intact(seen'[u]) => Accepted(seen'[u], HeaderOf(i))
    BY <1>1, FreshDeliversOnce
  <1>4. \A u \in Node : heard'[u] # None => Genuine(heard'[u])
    BY <1>1, HandledIsGenuine
  <1>5. \A u \in Node : Unnamed(u)' = Unnamed(u)
    BY <1>1 DEF Unnamed
  <1> HIDE DEF m
  <1>6. /\ \A u \in Node : u # n => pool'[u] = pool[u]
        /\ \/ pool' = pool
           \/ \E s \in Slot : /\ pool[n][s] = None /\ Added(n, m, pool'[n][s])
                              /\ \A t \in Slot : t # s => pool'[n][t] = pool[n][t]
    BY <1>1, <1>2, ForwardKeeps
  <1>7. CASE pool' = pool
    <2>1. Marks' /\ Known' /\ ForwardedOnce'
      BY <1>1, <1>2, <1>3, <1>7, AcceptKeeps
    <2>2. AllGenuine'
      BY <1>1, <1>4, <1>7 DEF OnceInv, AllGenuine
    <2> QED
      BY <1>2, <1>3, <2>1, <2>2 DEF OnceInv
  <1>8. ASSUME NEW s \in Slot, pool[n][s] = None, Added(n, m, pool'[n][s]),
               \A t \in Slot : t # s => pool'[n][t] = pool[n][t]
        PROVE  OnceInv'
    <2> DEFINE o == pool'[n][s]
    <2>1. /\ o \in Message /\ o.src = m.src /\ o.type = "data" /\ Header(o) = Header(m)
          /\ o.early = Unnamed(n)
      BY <1>8 DEF Added, Unnamed
    <2>2. Genuine(o)
      BY <1>2, <2>1 DEF Genuine
    <2> HIDE DEF o
    <2>3. \A u \in Node : \A t \in Slot :
              pool'[u][t] = IF u = n /\ t = s THEN o ELSE pool[u][t]
      BY <1>6, <1>8 DEF o
    <2>4. AllGenuine'
      BY <1>1, <1>4, <2>2, <2>3 DEF OnceInv, AllGenuine
    <2>5. Marks'
      <3> SUFFICES ASSUME NEW u \in Node, Unnamed(u)
                   PROVE  /\ \A t \in Slot : pool'[u][t] # None => pool'[u][t].early
                          /\ claimed[u] # None => claimed[u].early
                          /\ \A i \in DOMAIN delivered'[u] : i.early
                          /\ \A i \in DOMAIN forwarded[u] : i.early
        BY <1>1, <1>5 DEF Marks
      <3>1. /\ \A t \in Slot : pool[u][t] # None => pool[u][t].early
            /\ claimed[u] # None => claimed[u].early
            /\ \A i \in DOMAIN delivered[u] : i.early
            /\ \A i \in DOMAIN forwarded[u] : i.early
        BY DEF OnceInv, Marks
      <3>2. u = n => o.early
        BY <2>1
      <3>3. \A i \in DOMAIN delivered'[u] : i.early
        BY <1>3, <3>1
      <3> QED
        BY <2>3, <3>1, <3>2, <3>3
    <2>6. Known'
      <3> SUFFICES ASSUME NEW u \in Node, Intact(seen'[u])
                   PROVE  /\ \A t \in Slot : pool'[u][t] # None /\ pool'[u][t].early = Unnamed(u) =>
                                 Accepted(seen'[u], Header(pool'[u][t]))
                          /\ claimed[u] # None /\ claimed[u].early = Unnamed(u) =>
                                 Accepted(seen'[u], Header(claimed[u]))
                          /\ \A i \in DOMAIN delivered'[u] \union DOMAIN forwarded[u] :
                                 i.early = Unnamed(u) => Accepted(seen'[u], HeaderOf(i))
        BY <1>1, <1>5 DEF Known, Intact
      <3>1. Intact(seen[u]) /\ \A h : Accepted(seen[u], h) => Accepted(seen'[u], h)
        BY <1>2
      <3>2. /\ \A t \in Slot : pool[u][t] # None /\ pool[u][t].early = Unnamed(u) =>
                   Accepted(seen[u], Header(pool[u][t]))
            /\ claimed[u] # None /\ claimed[u].early = Unnamed(u) =>
                   Accepted(seen[u], Header(claimed[u]))
            /\ \A i \in DOMAIN delivered[u] \union DOMAIN forwarded[u] :
                   i.early = Unnamed(u) => Accepted(seen[u], HeaderOf(i))
        BY <3>1 DEF OnceInv, Known
      <3>3. u = n => Accepted(seen'[u], Header(o))
        BY <1>2, <2>1
      <3>4. \A i \in DOMAIN delivered'[u] \union DOMAIN forwarded[u] :
                i.early = Unnamed(u) => Accepted(seen'[u], HeaderOf(i))
        BY <1>3, <3>1, <3>2
      <3> QED
        BY <2>3, <3>1, <3>2, <3>3, <3>4
    <2>7. ForwardedOnce'
      <3> SUFFICES ASSUME NEW u \in Node, NEW e \in BOOLEAN, Trusted(u, e)'
                   PROVE  Ledger(e, pool'[u], claimed[u], forwarded[u])
        BY <1>1 DEF ForwardedOnce
      <3>1. Roomy \/ (e = Unnamed(u) /\ Intact(seen[u]))
        <4>1. Roomy \/ (e = Unnamed(u) /\ Intact(seen'[u]))
          BY <1>5 DEF Trusted, Intact
        <4> QED
          BY <1>2, <4>1
      <3>2. Ledger(e, pool[u], claimed[u], forwarded[u])
        BY <3>1 DEF OnceInv, ForwardedOnce, Trusted
      <3>3. CASE u # n \/ e # Unnamed(n)
        <4>1. \A t \in Slot : pool'[u][t] # None /\ pool'[u][t].early = e =>
                  pool'[u][t] = pool[u][t]
          BY <2>1, <2>3, <3>3
        <4> QED
          BY <3>2, <4>1 DEF Ledger
      <3>4. CASE u = n /\ e = Unnamed(n)
        <4>1. Intact(seen[n])
          BY <3>1, <3>4 DEF Intact
        <4>2. /\ \A t \in Slot : pool[n][t] # None /\ pool[n][t].early = e =>
                     Header(pool[n][t]) # Header(o)
              /\ claimed[n] # None /\ claimed[n].early = e => Header(claimed[n]) # Header(o)
              /\ \A i \in DOMAIN forwarded[n] : i.early = e => HeaderOf(i) # Header(o)
          BY <1>2, <2>1, <3>4, <4>1 DEF OnceInv, Known
        <4>3. \A t \in Slot : pool'[n][t] = IF t = s THEN o ELSE pool[n][t]
          BY <2>3
        <4>4. Ledger(e, pool'[n], claimed[n], forwarded[n])
          BY <3>2, <3>4, <4>2, <4>3 DEF Ledger
        <4> QED
          BY <3>4, <4>4
      <3> QED
        BY <3>3, <3>4
    <2> QED
      BY <1>2, <1>3, <2>4, <2>5, <2>6, <2>7 DEF OnceInv
  <1> QED
    BY <1>6, <1>7, <1>8

\* The work handler moves a forward from pending to claimed to done.
LEMMA ExpireKeepsOnce == ASSUME Inv, OnceInv, NEW n \in Node, Expire(n) PROVE OnceInv'
  <1>0. UNCHANGED <<self, seen, heard, delivered>> /\ \A u \in Node : Unnamed(u)' = Unnamed(u)
    BY DEF Expire, Claim, Rebroadcast, node, table, history, Unnamed
  <1>1. /\ CacheIsExact' /\ DeliveredOnce'
        /\ \A u \in Node : \A e \in BOOLEAN : Trusted(u, e)' => Trusted(u, e)
    BY <1>0 DEF OnceInv, CacheIsExact, DeliveredOnce, Trusted, Intact
  <1>2. \A u \in Node : \A e \in BOOLEAN :
            Trusted(u, e) => Ledger(e, pool[u], claimed[u], forwarded[u])
    BY DEF OnceInv, ForwardedOnce
  <1>3. CASE Claim(n)
    <2>1. PICK s \in Slot : /\ pool[n][s] # None
                            /\ pool' = [pool EXCEPT ![n][s] = None]
                            /\ claimed' = [claimed EXCEPT ![n] = pool[n][s]]
      BY <1>3 DEF Claim
    <2>2. claimed[n] = None /\ UNCHANGED <<chan, forwarded>>
      BY <1>3 DEF Claim, out, history
    <2>3. /\ \A u \in Node : \A t \in Slot :
                 pool'[u][t] = IF u = n /\ t = s THEN None ELSE pool[u][t]
          /\ \A u \in Node : claimed'[u] = IF u = n THEN pool[n][s] ELSE claimed[u]
      BY <2>1 DEF Inv, Shapes
    <2>4. AllGenuine'
      BY <1>0, <2>1, <2>2, <2>3 DEF OnceInv, AllGenuine
    <2>5. Marks'
      BY <1>0, <2>1, <2>2, <2>3 DEF OnceInv, Marks
    <2>6. Known'
      BY <1>0, <2>1, <2>2, <2>3 DEF OnceInv, Known, Intact
    <2>7. ForwardedOnce'
      <3> SUFFICES ASSUME NEW u \in Node, NEW e \in BOOLEAN, Trusted(u, e)
                   PROVE  Ledger(e, pool'[u], claimed'[u], forwarded[u])
        BY <1>1, <2>2 DEF ForwardedOnce
      <3>1. Ledger(e, pool[u], claimed[u], forwarded[u])
        BY <1>2
      <3>2. CASE u # n
        BY <2>3, <3>1, <3>2 DEF Ledger
      <3>3. CASE u = n
        <4>1. /\ \A t \in Slot : pool'[n][t] = IF t = s THEN None ELSE pool[n][t]
              /\ claimed'[n] = pool[n][s]
          BY <2>3
        <4>2. Ledger(e, pool'[n], claimed'[n], forwarded[n])
          BY <2>1, <3>1, <3>3, <4>1 DEF Ledger
        <4> QED
          BY <3>3, <4>2
      <3> QED
        BY <3>2, <3>3
    <2> QED
      BY <1>1, <2>4, <2>5, <2>6, <2>7 DEF OnceInv
  <1>4. CASE Rebroadcast(n)
    <2> DEFINE m == claimed[n]
               o == [m EXCEPT !.early = FALSE]
               B == forwarded[n] (+) Once(m)
    <2>1. /\ m \in Message /\ m # None /\ Relayed(n, m) /\ Genuine(m) /\ Publish(n, o)
          /\ UNCHANGED pool
      BY <1>4 DEF Rebroadcast, Inv, Shapes, Packet, Travel, OnceInv, AllGenuine
    <2>2. /\ \A u \in Node : claimed'[u] = IF u = n THEN None ELSE claimed[u]
          /\ \A u \in Node : forwarded'[u] = IF u = n THEN B ELSE forwarded[u]
          /\ BagOk(forwarded[n])
      BY <1>4 DEF Rebroadcast, Inv, Shapes, Histories
    <2>3. claimed[n] = m
      OBVIOUS
    <2> HIDE DEF m
    <2>4. o \in Message /\ Sendable(n, o) /\ Genuine(o)
      <3>1. /\ o \in Message /\ o.src = m.src /\ o.dst = m.dst /\ o.ttl = m.ttl
            /\ o.type = m.type
        BY <2>1, Marked
      <3> HIDE DEF o
      <3> QED
        BY <2>1, <3>1, MessageShape DEF Relayed, Sendable, Genuine
    <2> HIDE DEF o
    <2>5. /\ ident(m).early = m.early /\ HeaderOf(ident(m)) = Header(m)
          /\ m.early \in BOOLEAN
      BY <2>1, MessageShape DEF ident
    <2>6. /\ DOMAIN B = DOMAIN forwarded[n] \union {ident(m)}
          /\ \A i \in DOMAIN forwarded[n] : i # ident(m) => B[i] = forwarded[n][i]
          /\ ident(m) \notin DOMAIN forwarded[n] => B[ident(m)] = 1
      BY <2>1, <2>2, AddOnce
    <2> HIDE DEF B
    <2>7. AllGenuine'
      BY <1>0, <2>1, <2>2, <2>4, PublishIsGenuine DEF OnceInv, AllGenuine
    <2>8. Marks'
      <3>1. Unnamed(n) => m.early
        BY <2>1, <2>3 DEF OnceInv, Marks
      <3>2. \A u \in Node : Unnamed(u) => \A i \in DOMAIN forwarded'[u] : i.early
        BY <2>2, <2>5, <2>6, <3>1 DEF OnceInv, Marks
      <3> QED
        BY <1>0, <2>1, <2>2, <3>2 DEF OnceInv, Marks
    <2>9. Known'
      <3> SUFFICES ASSUME NEW u \in Node, Intact(seen[u])
                   PROVE  /\ \A t \in Slot : pool[u][t] # None /\ pool[u][t].early = Unnamed(u) =>
                                 Accepted(seen[u], Header(pool[u][t]))
                          /\ claimed'[u] # None /\ claimed'[u].early = Unnamed(u) =>
                                 Accepted(seen[u], Header(claimed'[u]))
                          /\ \A i \in DOMAIN delivered[u] \union DOMAIN forwarded'[u] :
                                 i.early = Unnamed(u) => Accepted(seen[u], HeaderOf(i))
        BY <1>0, <2>1 DEF Known, Intact
      <3>1. /\ \A t \in Slot : pool[u][t] # None /\ pool[u][t].early = Unnamed(u) =>
                   Accepted(seen[u], Header(pool[u][t]))
            /\ claimed[u] # None /\ claimed[u].early = Unnamed(u) =>
                   Accepted(seen[u], Header(claimed[u]))
            /\ \A i \in DOMAIN delivered[u] \union DOMAIN forwarded[u] :
                   i.early = Unnamed(u) => Accepted(seen[u], HeaderOf(i))
        BY DEF OnceInv, Known
      <3>2. u = n /\ ident(m).early = Unnamed(u) => Accepted(seen[u], HeaderOf(ident(m)))
        BY <2>1, <2>3, <2>5, <3>1
      <3>3. \A i \in DOMAIN forwarded'[u] : i \in DOMAIN forwarded[u] \/ (u = n /\ i = ident(m))
        BY <2>2, <2>6
      <3> QED
        BY <2>2, <3>1, <3>2, <3>3
    <2>10. ForwardedOnce'
      <3> SUFFICES ASSUME NEW u \in Node, NEW e \in BOOLEAN, Trusted(u, e)
                   PROVE  Ledger(e, pool[u], claimed'[u], forwarded'[u])
        BY <1>1, <2>1 DEF ForwardedOnce
      <3>1. Ledger(e, pool[u], claimed[u], forwarded[u])
        BY <1>2
      <3>2. CASE u # n
        BY <2>2, <3>1, <3>2
      <3>3. CASE u = n
        <4>1. claimed'[n] = None /\ forwarded'[n] = B
          BY <2>2
        <4>2. m.early = e => ident(m) \notin DOMAIN forwarded[n]
          BY <2>1, <2>3, <2>5, <3>1, <3>3 DEF Ledger
        <4>3. Ledger(e, pool[n], m, forwarded[n])
          BY <2>3, <3>1, <3>3
        <4>4. \A i \in DOMAIN B : i.early = e =>
                 /\ B[i] = 1
                 /\ \A t \in Slot : pool[n][t] # None /\ pool[n][t].early = e =>
                        Header(pool[n][t]) # HeaderOf(i)
          BY <2>1, <2>5, <2>6, <4>2, <4>3 DEF Ledger
        <4>5. Ledger(e, pool[n], None, B)
          BY <4>3, <4>4 DEF Ledger
        <4> QED
          BY <3>3, <4>1, <4>5
      <3> QED
        BY <3>2, <3>3
    <2> QED
      BY <1>1, <2>7, <2>8, <2>9, <2>10 DEF OnceInv
  <1> QED
    BY <1>3, <1>4 DEF Expire

\* The end of the boot clears the cache; all that was accepted so far is early, and
\* nothing else will be.
LEMMA BootKeepsOnce == ASSUME Inv, OnceInv, NEW n \in Node, ts_routing_init(n) PROVE OnceInv'
  <1>1. /\ UNCHANGED <<pool, claimed, chan, heard, delivered, forwarded>>
        /\ self[n] = 0
    BY DEF ts_routing_init, out, history
  <1>2. \A u \in Node : /\ seen'[u] = IF u = n THEN <<>> ELSE seen[u]
                        /\ self'[u] = IF u = n THEN n ELSE self[u]
    BY DEF ts_routing_init, Inv, Shapes
  <1>3. /\ Unnamed(n) /\ ~Unnamed(n)' /\ \A u \in Node : u # n => Unnamed(u)' = Unnamed(u)
        /\ Unnamed(n)' \in BOOLEAN
    BY <1>1, <1>2, NotANode DEF Unnamed
  <1>4. /\ \A s \in Slot : pool[n][s] # None => pool[n][s].early # Unnamed(n)'
        /\ claimed[n] # None => claimed[n].early # Unnamed(n)'
        /\ \A i \in DOMAIN delivered[n] \union DOMAIN forwarded[n] : i.early # Unnamed(n)'
    BY <1>3 DEF OnceInv, Marks
  <1>5. AllGenuine'
    BY <1>1 DEF OnceInv, AllGenuine
  <1>6. Marks'
    BY <1>1, <1>3 DEF OnceInv, Marks
  <1>7. CacheIsExact'
    BY <1>2 DEF OnceInv, CacheIsExact, Intact
  <1>8. Known'
    BY <1>1, <1>2, <1>3, <1>4 DEF OnceInv, Known, Intact
  <1>9. ASSUME NEW u \in Node, NEW e, Trusted(u, e)'
        PROVE  Trusted(u, e) \/ (u = n /\ e = Unnamed(n)')
    BY <1>2, <1>3, <1>9 DEF Trusted, Intact
  <1>10. DeliveredOnce'
    BY <1>1, <1>4, <1>9 DEF OnceInv, DeliveredOnce
  <1>11. ForwardedOnce'
    <2> SUFFICES ASSUME NEW u \in Node, NEW e \in BOOLEAN, Trusted(u, e)'
                 PROVE  Ledger(e, pool[u], claimed[u], forwarded[u])
      BY <1>1 DEF ForwardedOnce
    <2>1. CASE Trusted(u, e)
      BY <2>1 DEF OnceInv, ForwardedOnce
    <2>2. CASE u = n /\ e = Unnamed(n)'
      BY <1>4, <2>2 DEF Ledger
    <2> QED
      BY <1>9, <2>1, <2>2
  <1> QED
    BY <1>5, <1>6, <1>7, <1>8, <1>10, <1>11 DEF OnceInv

\* A restart forgets the headers a node accepted together with what it did with
\* them.
LEMMA RestartKeepsOnce == ASSUME Inv, OnceInv, NEW n \in Node, Restart(n) PROVE OnceInv'
  <1>1. /\ \A u \in Node : /\ claimed'[u] = IF u = n THEN None ELSE claimed[u]
                           /\ chan'[u] = IF u = n THEN None ELSE chan[u]
                           /\ heard'[u] = IF u = n THEN None ELSE heard[u]
        /\ \A u \in Node : u # n => pool'[u] = pool[u]
        /\ \A s \in Slot : pool'[n][s] = None
    BY DEF Restart, Inv, Shapes
  <1>2. \A u \in Node : /\ seen'[u] = IF u = n THEN <<>> ELSE seen[u]
                        /\ delivered'[u] = IF u = n THEN EmptyBag ELSE delivered[u]
                        /\ forwarded'[u] = IF u = n THEN EmptyBag ELSE forwarded[u]
                        /\ u # n => self'[u] = self[u]
    BY DEF Restart, Inv, Shapes, Histories
  <1>3. DOMAIN EmptyBag = {} /\ \A u \in Node : u # n => Unnamed(u)' = Unnamed(u)
    BY <1>2, EmptyIsBag DEF Unnamed
  <1>4. AllGenuine'
    BY <1>1 DEF OnceInv, AllGenuine
  <1>5. Marks'
    BY <1>1, <1>2, <1>3 DEF OnceInv, Marks
  <1>6. CacheIsExact'
    BY <1>2 DEF OnceInv, CacheIsExact, Intact
  <1>7. Known'
    BY <1>1, <1>2, <1>3 DEF OnceInv, Known, Intact
  <1>8. \A u \in Node : \A e : u # n /\ Trusted(u, e)' => Trusted(u, e)
    BY <1>2, <1>3 DEF Trusted, Intact
  <1>9. DeliveredOnce'
    BY <1>2, <1>3, <1>8 DEF OnceInv, DeliveredOnce
  <1>10. ForwardedOnce'
    <2> SUFFICES ASSUME NEW u \in Node, NEW e \in BOOLEAN, Trusted(u, e)'
                 PROVE  Ledger(e, pool'[u], claimed'[u], forwarded'[u])
      BY DEF ForwardedOnce
    <2>1. CASE u # n
      BY <1>1, <1>2, <1>8, <2>1 DEF OnceInv, ForwardedOnce
    <2>2. CASE u = n
      BY <1>1, <1>2, <1>3, <2>2 DEF Ledger
    <2> QED
      BY <2>1, <2>2
  <1> QED
    BY <1>4, <1>5, <1>6, <1>7, <1>9, <1>10 DEF OnceInv

\* Every step keeps this invariant.
LEMMA OnceNext == Inv /\ OnceInv /\ [Next]_vars => OnceInv'
  <1> SUFFICES ASSUME Inv, OnceInv, [Next]_vars PROVE OnceInv'
    OBVIOUS
  <1>1. ASSUME NEW n \in Node, Produce(n) PROVE OnceInv'
    BY <1>1, OriginateKeepsOnce DEF Produce, Origin, Type
  <1>2. ASSUME NEW n \in Node, NEW dst \in Node, SendSet(n, dst) PROVE OnceInv'
    <2>1. <<n, dst>> \in Managed /\ Originate(n, dst, "set") /\ dst # Broadcast
      BY <1>2, NotANode DEF SendSet
    <2>2. n \in Origin
      BY <2>1 DEF Origin
    <2> QED
      BY <2>1, <2>2, OriginateKeepsOnce DEF Type
  <1>3. ASSUME NEW n \in Node,
               Tx(n) \/ Receive(n) \/ Expire(n) \/ ts_routing_init(n) \/ Restart(n)
        PROVE  OnceInv'
    BY <1>3, TxKeepsOnce, DropKeepsOnce, ReceiveSetKeepsOnce, ReceiveOtherKeepsOnce,
       ExpireKeepsOnce, BootKeepsOnce, RestartKeepsOnce DEF Receive
  <1>4. ASSUME UNCHANGED <<self, seen, pool, claimed, chan, heard, delivered, forwarded>>
        PROVE  OnceInv'
    <2>1. AllGenuine'
      BY <1>4 DEF OnceInv, AllGenuine
    <2> QED
      BY <1>4, <2>1, SameKeeps
  <1>5. ASSUME NEW n \in Node, SensorFails(n) PROVE OnceInv'
    BY <1>4, <1>5 DEF SensorFails, table, out, history
  <1>6. CASE UNCHANGED vars
    BY <1>4, <1>6 DEF vars, node, table, out, history
  <1> QED
    BY <1>1, <1>2, <1>3, <1>5, <1>6 DEF Next

\* So it holds throughout, beside the other one.
LEMMA OnceHolds == Spec => []OnceInv
  <1>1. Init => OnceInv
    BY EmptyIsBag DEF Init, OnceInv, AllGenuine, Marks, CacheIsExact, Known, DeliveredOnce,
                      ForwardedOnce, Ledger
  <1>2. Inv /\ OnceInv /\ [Next]_vars => OnceInv'
    BY OnceNext
  <1> QED
    BY <1>1, <1>2, InvHolds, PTL DEF Spec

\* With a seen cache that holds every header in circulation, is_duplicate and
\* mark_seen deliver each message, and apply each config set, at most once while
\* the receiver boots and at most once from then to its next restart: however many
\* relays repeat it, whatever TX repeats, and whoever else boots or restarts.
THEOREM AtMostOneDelivery == ASSUME Roomy PROVE Spec => []DeliveredAtMostOnce
  <1>1. OnceInv => DeliveredAtMostOnce
    BY DEF OnceInv, DeliveredOnce, Trusted, DeliveredAtMostOnce, BagToSet
  <1> QED
    BY <1>1, OnceHolds, PTL

\* With the same cache the flood does not feed itself: a node publishes the forward
\* of a message at most once while it boots and at most once from then to its next
\* restart, and of its own messages only those of an earlier life that it accepts
\* while it boots.
THEOREM AtMostOneForward == ASSUME Roomy PROVE Spec => []ForwardedAtMostOnce
  <1>1. Inv /\ OwnInv /\ OnceInv => ForwardedAtMostOnce
    <2> SUFFICES ASSUME Inv, OwnInv, OnceInv, NEW n \in Node, NEW i \in BagToSet(forwarded[n])
                 PROVE  forwarded[n][i] = 1 /\ (i.src = n => i.early /\ i.life < life[n])
      BY DEF ForwardedAtMostOnce
    <2>1. i \in Ident /\ i \in DOMAIN forwarded[n]
      BY DEF Inv, Histories, BagOk, BagToSet
    <2>2. i.early \in BOOLEAN
      BY <2>1 DEF Ident
    <2>3. Ledger(i.early, pool[n], claimed[n], forwarded[n])
      BY <2>2 DEF OnceInv, ForwardedOnce, Trusted
    <2>4. forwarded[n][i] = 1
      BY <2>1, <2>3 DEF Ledger
    <2> QED
      BY <2>4 DEF OwnInv, OwnIsFromEarlierLife, Stray
  <1> QED
    BY <1>1, InvHolds, OwnHolds, OnceHolds, PTL

\* A node whose seen cache has not filled up since it was cleared has delivered and
\* forwarded every message it accepted since then at most once.
OnceWhileNotFull ==
    \A n \in Node : Len(seen[n]) < CacheSize =>
        /\ \A i \in BagToSet(delivered[n]) : i.early = (self[n] # n) => delivered[n][i] = 1
        /\ \A i \in BagToSet(forwarded[n]) : i.early = (self[n] # n) => forwarded[n][i] = 1

\* Whatever the size of the cache and however many headers are in circulation,
\* is_duplicate and mark_seen let nothing through twice before the ring is full, 32
\* fresh headers with TS_ROUTING_SEEN_CACHE_SIZE.
THEOREM OnceUntilFull == Spec => []OnceWhileNotFull
  <1>1. Inv /\ OnceInv => OnceWhileNotFull
    <2> SUFFICES ASSUME Inv, OnceInv, NEW n \in Node, Len(seen[n]) < CacheSize
                 PROVE  /\ \A i \in BagToSet(delivered[n]) :
                               i.early = (self[n] # n) => delivered[n][i] = 1
                        /\ \A i \in BagToSet(forwarded[n]) :
                               i.early = (self[n] # n) => forwarded[n][i] = 1
      BY DEF OnceWhileNotFull
    <2>1. Unnamed(n) \in BOOLEAN /\ Trusted(n, Unnamed(n)) /\ Unnamed(n) = (self[n] # n)
      BY DEF Unnamed, Trusted, Intact
    <2>2. Ledger(Unnamed(n), pool[n], claimed[n], forwarded[n])
      BY <2>1 DEF OnceInv, ForwardedOnce
    <2>3. \A i \in BagToSet(forwarded[n]) : i.early = Unnamed(n) => forwarded[n][i] = 1
      BY <2>2 DEF Ledger, BagToSet
    <2>4. \A i \in BagToSet(delivered[n]) : i.early = Unnamed(n) => delivered[n][i] = 1
      BY <2>1 DEF OnceInv, DeliveredOnce, BagToSet
    <2> QED
      BY <2>1, <2>3, <2>4
  <1> QED
    BY <1>1, InvHolds, OnceHolds, PTL
=============================================================================
