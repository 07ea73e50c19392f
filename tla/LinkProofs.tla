----------------------------- MODULE LinkProofs -----------------------------
(***************************************************************************)
(* Proofs about Link, for any nodes, topology, firmware images and inputs: *)
(* a message is the same wherever it travels, the keys and key ids keep    *)
(* the epochs apart, and no message outgrows a buffer on its way.          *)
(***************************************************************************)
EXTENDS Link, CodecProofs

-----------------------------------------------------------------------------
(* Messages                                                                 *)

RouteOk(r) ==
    /\ DOMAIN r = Names(RouteFields) /\ r = [x \in DOMAIN r |-> r[x]]
    /\ r.src \in Nat /\ r.src < 65536 /\ r.dst \in Nat /\ r.dst < 65536
    /\ r.ttl \in 1 .. Ttl /\ r.key_id \in Nat /\ r.key_id < 256

\* A message as the producers and the decoder make it.
MsgOk(m) ==
    /\ m = [type |-> m.type, route |-> m.route, data |-> m.data]
    /\ m.type \in DOMAIN DataFields
    /\ RouteOk(m.route)
    /\ DOMAIN m.data = Names(DataFields[m.type]) /\ m.data = [x \in DOMAIN m.data |-> m.data[x]]
    /\ KeyFits(m.data)

\* The codec's results apply to such messages.
LEMMA MsgIsShaped == ASSUME NEW m, MsgOk(m) PROVE Shaped(m)
  <1> DEFINE r == m.route
  <1>1. \A i \in DOMAIN RouteFields : Holds(RouteFields[i], r[RouteFields[i].name])
    <2>1. /\ Holds(RouteFields[1], r["src"]) /\ RouteFields[1].name = "src"
          /\ Holds(RouteFields[2], r["dst"]) /\ RouteFields[2].name = "dst"
          /\ Holds(RouteFields[3], r["msg_id"]) /\ RouteFields[3].name = "msg_id"
          /\ Holds(RouteFields[4], r["ttl"]) /\ RouteFields[4].name = "ttl"
          /\ Holds(RouteFields[5], r["key_id"]) /\ RouteFields[5].name = "key_id"
      BY SizeAssumption DEF MsgOk, RouteOk, RouteFields, Field, Holds
    <2>2. \A i \in 1 .. 5 : i \in {1, 2, 3, 4, 5}
      OBVIOUS
    <2> QED
      BY <2>1, <2>2, Tables
  <1> QED
    BY <1>1 DEF MsgOk, RouteOk, Shaped

\* A type that this firmware does not know is refused.
LEMMA UnknownTypeRefused ==
    ASSUME NEW type, type \notin DOMAIN DataFields, NEW route, NEW data
    PROVE  ~WellFormed(Envelope(type, route, <<>>, data))
  <1>1. IsSeq(<<>>)
    <2>1. <<>> \in Seq({})
      OBVIOUS
    <2> QED
      BY <2>1 DEF IsSeq
  <1> DEFINE w == Envelope(type, route, <<>>, data)
  <1>2. w[3].number = type
    <2>1. w[3] = Number(type)
      BY <1>1, EnvelopeItems
    <2> HIDE DEF w
    <2> QED
      BY <2>1 DEF Number
  <1> HIDE DEF w
  <1> QED
    BY <1>2 DEF WellFormed, w

\* What a relay sends on is a message with one unit of ttl less.
LEMMA Diminished ==
    ASSUME NEW m, MsgOk(m), m.route.ttl > 1, NEW o, o = [m EXCEPT !.route.ttl = @ - 1]
    PROVE  /\ MsgOk(o)
           /\ o.type = m.type /\ o.data = m.data /\ o.route.ttl = m.route.ttl - 1
           /\ o.route.src = m.route.src /\ o.route.dst = m.route.dst
           /\ o.route.msg_id = m.route.msg_id
  <1>1. m = [type |-> m.type, route |-> m.route, data |-> m.data] /\ RouteOk(m.route)
    BY DEF MsgOk
  <1> DEFINE r == m.route
             q == [r EXCEPT !["ttl"] = @ - 1]
  <1>2. o = [type |-> m.type, route |-> q, data |-> m.data]
    BY <1>1
  <1>3. DOMAIN r = {"src", "dst", "msg_id", "ttl", "key_id"}
    BY <1>1, Tables DEF RouteOk
  <1>4. /\ DOMAIN q = DOMAIN r /\ q = [x \in DOMAIN q |-> q[x]]
        /\ q["ttl"] = r["ttl"] - 1 /\ q["src"] = r["src"] /\ q["dst"] = r["dst"]
        /\ q["msg_id"] = r["msg_id"] /\ q["key_id"] = r["key_id"]
    BY <1>3
  <1> HIDE DEF q, r
  <1>5. RouteOk(q)
    BY <1>1, <1>4, SizeAssumption DEF RouteOk, r
  <1> QED
    BY <1>2, <1>4, <1>5 DEF MsgOk, r

\* What TX encodes is the message under TX's key id.
LEMMA StampedIs ==
    ASSUME NEW m, MsgOk(m), NEW id \in Nat, id < 256, NEW o, o = [m EXCEPT !.route.key_id = id]
    PROVE  /\ MsgOk(o)
           /\ o.type = m.type /\ o.data = m.data /\ o.route.ttl = m.route.ttl
           /\ o.route.src = m.route.src /\ o.route.dst = m.route.dst
           /\ o.route.msg_id = m.route.msg_id /\ o.route.key_id = id
  <1>1. m = [type |-> m.type, route |-> m.route, data |-> m.data] /\ RouteOk(m.route)
    BY DEF MsgOk
  <1> DEFINE r == m.route
             q == [r EXCEPT !["key_id"] = id]
  <1>2. o = [type |-> m.type, route |-> q, data |-> m.data]
    BY <1>1
  <1>3. DOMAIN r = {"src", "dst", "msg_id", "ttl", "key_id"}
    BY <1>1, Tables DEF RouteOk
  <1>4. /\ DOMAIN q = DOMAIN r /\ q = [x \in DOMAIN q |-> q[x]]
        /\ q["ttl"] = r["ttl"] /\ q["src"] = r["src"] /\ q["dst"] = r["dst"]
        /\ q["msg_id"] = r["msg_id"] /\ q["key_id"] = id
    BY <1>3
  <1> HIDE DEF q, r
  <1>5. RouteOk(q)
    BY <1>1, <1>4 DEF RouteOk, r
  <1> QED
    BY <1>2, <1>4, <1>5 DEF MsgOk, r

-----------------------------------------------------------------------------
(* The invariant                                                            *)

\* The message m was originated under this key and key id.
TracedIn(S, m, k, id) == \E s \in S : SameMessage(m, s.msg) /\ s.key = k /\ s.key_id = id

\* A packet that would pass the gates of some node: what it decodes to was
\* originated under the key that signed it and the key id that it carries.
\* Everything else in the air, damaged, cut or unknown, passes nowhere.
PacketOk(S, p) ==
    p.len > TS_AUTH_TAG_SIZE /\ p.tag = ts_auth_sign(p.tag.key, p.wire) /\ WellFormed(p.wire) =>
        /\ MsgOk(cbor_deserialize(p.wire))
        /\ TracedIn(S, cbor_deserialize(p.wire), p.tag.key, cbor_deserialize(p.wire).route.key_id)

Per(f) == DOMAIN f = Node /\ f = [n \in Node |-> f[n]]

Shapes ==
    /\ Per(image) /\ Per(key) /\ Per(out) /\ Per(radio) /\ Per(handled)
    /\ main \in [Node -> {"auth", "config", "routing", "running", "ended"}]
    /\ self \in [Node -> Node \union {0}]
    /\ next_msg_id \in [Node -> Nat]
    /\ sends \in 0 .. MaxSends

\* The state of a node's boot; a key in use is never none.
NodeOk(img, n, mn, k, slf) ==
    /\ img \in Image \union {Flashed[n]}
    /\ mn = "auth" => k = NoKey
    /\ mn \in {"config", "routing", "running"} => k = network_key(img.hex) /\ k # NoKey
    /\ mn = "running" => slf = n
Booted == \A n \in Node : NodeOk(image[n], n, main[n], key[n], self[n])

Bounds ==
    \A n \in Node :
        /\ next_msg_id[n] <= FirstId + sends
        /\ IsSeq(radio[n]) /\ Len(radio[n]) <= QueueDepth

\* Wherever a message is, it can be traced to its origin; what a node has in hand,
\* to an origin of the node's own epoch.
Travel ==
    \A n \in Node :
        /\ out[n] # None =>
              /\ key[n] # NoKey /\ MsgOk(out[n])
              /\ TracedIn(sent, out[n], key[n], image[n].key_id % 256)
        /\ handled[n] # None =>
              /\ key[n] # NoKey
              /\ TracedIn(sent, handled[n].msg, key[n], image[n].key_id % 256)
        /\ \A i \in DOMAIN radio[n] : PacketOk(sent, radio[n][i])

SentOk ==
    \A s \in sent : /\ s.msg.route.ttl = Ttl
                    /\ s.reading # None => Reports(s.msg.data, s.reading)

Inv == Shapes /\ Booted /\ Bounds /\ Travel /\ SentOk /\ OwnNeverHandled

-----------------------------------------------------------------------------
(* The pieces of the steps                                                  *)

\* Originating more loses no origin.
LEMMA MoreSent ==
    ASSUME NEW S, NEW T, S \subseteq T
    PROVE  /\ \A m, k, id : TracedIn(S, m, k, id) => TracedIn(T, m, k, id)
           /\ \A p : PacketOk(S, p) => PacketOk(T, p)
  <1>1. \A m, k, id : TracedIn(S, m, k, id) => TracedIn(T, m, k, id)
    BY DEF TracedIn
  <1> QED
    BY <1>1 DEF PacketOk

\* Node ids fit their 16 bits.
LEMMA IdsFit ==
    /\ \A n \in Node \union {0, Broadcast} : n \in Nat /\ n < 65536
    /\ \A n \in Node : n # 0
  <1>1. Broadcast \in Nat /\ Broadcast < 65536
    BY DEF Broadcast
  <1> QED
    BY <1>1, NodeAssumption

\* Key ids fit their 8 bits.
LEMMA KeyIdFits ==
    ASSUME Booted, NEW n \in Node
    PROVE  image[n].key_id % 256 \in Nat /\ image[n].key_id % 256 < 256
  <1>1. image[n].key_id \in Nat
    BY ImageAssumption DEF Booted, NodeOk
  <1> QED
    BY <1>1

\* A message that a producer makes is well formed, and traced to itself.
LEMMA OriginateIs ==
    ASSUME Inv, NEW n \in Node, key[n] # NoKey,
           NEW type \in DOMAIN DataFields, NEW dst \in Nat, dst < 65536, NEW data,
           DOMAIN data = Names(DataFields[type]), data = [x \in DOMAIN data |-> data[x]], KeyFits(data),
           NEW reading, reading # None => Reports(data, reading),
           Originate(n, type, dst, data, reading)
    PROVE  /\ sends \in Nat /\ sends' = sends + 1 /\ sends' \in 0 .. MaxSends
           /\ next_msg_id' \in [Node -> Nat]
           /\ \A u \in Node : next_msg_id'[u] <= FirstId + sends'
           /\ Per(out') /\ sent \subseteq sent' /\ SentOk'
           /\ \A u \in Node : out'[u] # None =>
                 \/ out'[u] = out[u]
                 \/ u = n /\ MsgOk(out'[n]) /\ TracedIn(sent', out'[n], key[n], image[n].key_id % 256)
  <1> DEFINE route == prepare_header(n, dst)
             msg == [type |-> type, route |-> route, data |-> data]
             s == [msg |-> msg, reading |-> reading, key |-> key[n],
                   key_id |-> ts_auth_get_key_id(n)]
  <1>1. /\ sends < MaxSends /\ sends' = sends + 1
        /\ next_msg_id' = [next_msg_id EXCEPT ![n] = @ + 1]
        /\ out' = [out EXCEPT ![n] = msg] /\ sent' = sent \union {s}
    BY DEF Originate
  <1>2. /\ route.src = self[n] /\ route.dst = dst /\ route.msg_id = next_msg_id[n]
        /\ route.ttl = Ttl /\ route.key_id = 0
        /\ DOMAIN route = {"src", "dst", "msg_id", "ttl", "key_id"}
        /\ route = [x \in DOMAIN route |-> route[x]]
    BY DEF prepare_header
  <1>3. self[n] \in Nat /\ self[n] < 65536
    BY IdsFit DEF Inv, Shapes
  <1> HIDE DEF route
  <1>4. RouteOk(route)
    BY <1>2, <1>3, Tables, SizeAssumption DEF RouteOk
  <1>5. /\ msg.type = type /\ msg.route = route /\ msg.data = data
        /\ s.msg = msg /\ s.reading = reading /\ s.key = key[n]
        /\ s.key_id = image[n].key_id % 256
    BY DEF ts_auth_get_key_id
  <1>6. MsgOk(msg)
    BY <1>4 DEF MsgOk
  <1> HIDE DEF msg, s
  <1>7. SameMessage(msg, s.msg)
    BY <1>2, <1>5, SizeAssumption DEF SameMessage
  <1>8. TracedIn(sent', msg, key[n], image[n].key_id % 256)
    BY <1>1, <1>5, <1>7 DEF TracedIn
  <1>9. SentOk'
    BY <1>1, <1>2, <1>5 DEF Inv, SentOk
  <1>10. Per(out') /\ \A u \in Node : out'[u] = IF u = n THEN msg ELSE out[u]
    <2>1. Per(out)
      BY DEF Inv, Shapes
    <2> QED
      BY <1>1, <2>1 DEF Per
  <1>11. /\ sends \in Nat /\ sends' \in 0 .. MaxSends
         /\ next_msg_id' \in [Node -> Nat]
    BY <1>1, BoundAssumption DEF Inv, Shapes
  <1>12. \A u \in Node : next_msg_id'[u] <= FirstId + sends'
    BY <1>1, <1>11, BoundAssumption DEF Inv, Shapes, Bounds
  <1> QED
    BY <1>1, <1>6, <1>8, <1>9, <1>10, <1>11, <1>12

\* An arrival at some radios.
LEMMA ReceiveIs ==
    ASSUME Inv, NEW R, NEW p, PacketOk(sent, p), Receive(R, p)
    PROVE  /\ Per(radio')
           /\ \A u \in Node : /\ IsSeq(radio'[u]) /\ Len(radio'[u]) <= QueueDepth
                              /\ \A i \in DOMAIN radio'[u] : PacketOk(sent, radio'[u][i])
  <1>1. radio' = [u \in Node |-> IF u \in R /\ Len(radio[u]) < QueueDepth
                                 THEN Append(radio[u], p) ELSE radio[u]]
    BY DEF Receive
  <1>2. Per(radio')
    BY <1>1 DEF Per
  <1>3. ASSUME NEW u \in Node
        PROVE  /\ IsSeq(radio'[u]) /\ Len(radio'[u]) <= QueueDepth
               /\ \A i \in DOMAIN radio'[u] : PacketOk(sent, radio'[u][i])
    <2>1. /\ IsSeq(radio[u]) /\ Len(radio[u]) <= QueueDepth
          /\ \A i \in DOMAIN radio[u] : PacketOk(sent, radio[u][i])
      BY DEF Inv, Bounds, Travel
    <2>2. CASE radio'[u] = radio[u]
      BY <2>1, <2>2
    <2>3. CASE radio'[u] = Append(radio[u], p) /\ Len(radio[u]) < QueueDepth
      <3> DEFINE q == Append(radio[u], p)
      <3>1. /\ IsSeq(q) /\ Len(radio[u]) \in Nat /\ Len(q) = Len(radio[u]) + 1
            /\ \A i \in DOMAIN q : (i \in DOMAIN radio[u] /\ q[i] = radio[u][i]) \/ q[i] = p
        BY <2>1, AppendItems
      <3> HIDE DEF q
      <3>2. IsSeq(q) /\ Len(q) <= QueueDepth /\ \A i \in DOMAIN q : PacketOk(sent, q[i])
        BY <2>1, <2>3, <3>1, SizeAssumption
      <3> QED
        BY <2>3, <3>2 DEF q
    <2> QED
      BY <1>1, <2>2, <2>3
  <1> QED
    BY <1>2, <1>3

\* RX takes a packet.
LEMMA TakesIs ==
    ASSUME Inv, NEW n \in Node, Takes(n)
    PROVE  /\ Per(radio') /\ PacketOk(sent, Received(n))
           /\ \A u \in Node : /\ IsSeq(radio'[u]) /\ Len(radio'[u]) <= QueueDepth
                              /\ \A i \in DOMAIN radio'[u] : PacketOk(sent, radio'[u][i])
  <1>1. radio[n] # <<>> /\ radio' = [radio EXCEPT ![n] = Tail(radio[n])]
    BY DEF Takes
  <1>2. Per(radio') /\ \A u \in Node : radio'[u] = IF u = n THEN Tail(radio[n]) ELSE radio[u]
    BY <1>1 DEF Inv, Shapes, Per
  <1>3. \A u \in Node : /\ IsSeq(radio[u]) /\ Len(radio[u]) <= QueueDepth
                        /\ \A i \in DOMAIN radio[u] : PacketOk(sent, radio[u][i])
    BY DEF Inv, Bounds, Travel
  <1> DEFINE q == Tail(radio[n])
  <1>4. /\ IsSeq(q) /\ Len(q) \in Nat /\ Len(q) <= Len(radio[n])
        /\ \A i \in DOMAIN q : i + 1 \in DOMAIN radio[n] /\ q[i] = radio[n][i + 1]
        /\ 1 \in DOMAIN radio[n] /\ Received(n) = radio[n][1]
    BY <1>1, <1>3, TailItems DEF Received
  <1>5. Len(radio[n]) \in Nat
    <2>1. PICK S : radio[n] \in Seq(S)
      BY <1>3 DEF IsSeq
    <2> QED
      BY <2>1
  <1> HIDE DEF q
  <1>6. IsSeq(q) /\ Len(q) <= QueueDepth /\ \A i \in DOMAIN q : PacketOk(sent, q[i])
    BY <1>3, <1>4, <1>5, SizeAssumption
  <1> QED
    BY <1>2, <1>3, <1>4, <1>6 DEF q

\* What passes the gates of lora_in_task was originated under the node's own key
\* and key id.
LEMMA AcceptedIs ==
    ASSUME Inv, NEW n \in Node, Takes(n), Accepted(n)
    PROVE  /\ key[n] # NoKey /\ MsgOk(Decoded(n)) /\ Decoded(n).route.src # self[n]
           /\ TracedIn(sent, Decoded(n), key[n], image[n].key_id % 256)
  <1> DEFINE p == Received(n)
  <1>1. /\ key[n] # NoKey /\ p.len > TS_AUTH_TAG_SIZE /\ p.tag = ts_auth_sign(key[n], p.wire)
        /\ WellFormed(p.wire)
        /\ Decoded(n).route.key_id = image[n].key_id % 256 /\ Decoded(n).route.src # self[n]
    BY DEF Accepted, Authentic, ts_auth_verify, ts_auth_get_key_id
  <1>2. p.tag.key = key[n]
    BY <1>1 DEF ts_auth_sign
  <1>3. PacketOk(sent, p)
    BY TakesIs
  <1> QED
    BY <1>1, <1>2, <1>3 DEF PacketOk, Decoded

-----------------------------------------------------------------------------
(* The steps                                                                *)

\* main(): a key appears only in a node that has nothing in hand.
LEMMA BootKeepsInv == ASSUME Inv, NEW n \in Node, Boot(n) PROVE Inv'
  <1>0. UNCHANGED <<image, out, radio, sends, sent, handled>>
    BY DEF Boot, AuthInit, BootFails, ConfigInit, RoutingInit
  <1>1. SentOk' /\ OwnNeverHandled'
    BY <1>0 DEF Inv, SentOk, OwnNeverHandled
  <1>2. /\ main' \in [Node -> {"auth", "config", "routing", "running", "ended"}]
        /\ self' \in [Node -> Node \union {0}] /\ next_msg_id' \in [Node -> Nat]
        /\ \A u \in Node : next_msg_id'[u] \in {next_msg_id[u], 0}
    BY DEF Boot, AuthInit, BootFails, ConfigInit, RoutingInit, Inv, Shapes
  <1>3. Bounds'
    <2>1. \A u \in Node : next_msg_id'[u] <= FirstId + sends
      <3>1. sends \in Nat /\ FirstId \in Nat
        BY BoundAssumption DEF Inv, Shapes
      <3>2. \A u \in Node : next_msg_id[u] <= FirstId + sends
        BY DEF Inv, Bounds
      <3> QED
        BY <1>2, <3>1, <3>2
    <2> QED
      BY <1>0, <2>1 DEF Inv, Bounds
  <1>4. CASE AuthInit(n)
    <2>1. /\ main[n] = "auth" /\ network_key(image[n].hex) # NoKey
          /\ key' = [key EXCEPT ![n] = network_key(image[n].hex)]
          /\ main' = [main EXCEPT ![n] = "config"] /\ self' = self
      BY <1>4 DEF AuthInit
    <2>2. Per(key') /\ \A u \in Node : key'[u] = IF u = n THEN network_key(image[n].hex) ELSE key[u]
      <3>1. Per(key)
        BY DEF Inv, Shapes
      <3> QED
        BY <2>1, <3>1 DEF Per
    <2>3. key[n] = NoKey /\ out[n] = None /\ handled[n] = None
      BY <2>1 DEF Inv, Booted, NodeOk, Travel
    <2>4. Travel'
      BY <1>0, <2>2, <2>3 DEF Inv, Travel
    <2>5. \A u \in Node : main'[u] = IF u = n THEN "config" ELSE main[u]
      BY <2>1 DEF Inv, Shapes
    <2>6. Booted'
      BY <1>0, <2>1, <2>2, <2>5 DEF Inv, Booted, NodeOk
    <2> QED
      BY <1>0, <1>1, <1>2, <1>3, <2>2, <2>4, <2>6 DEF Inv, Shapes
  <1>5. CASE BootFails(n) \/ ConfigInit(n) \/ RoutingInit(n)
    <2>1. key' = key
      BY <1>5 DEF BootFails, ConfigInit, RoutingInit
    <2>2. Travel'
      BY <1>0, <2>1 DEF Inv, Travel
    <2>3. \A u \in Node : u # n => main'[u] = main[u] /\ self'[u] = self[u]
      BY <1>5 DEF BootFails, ConfigInit, RoutingInit, Inv, Shapes
    <2>4. \/ main'[n] = "ended"
          \/ main[n] = "config" /\ main'[n] = "routing"
          \/ main[n] = "routing" /\ main'[n] = "running" /\ self'[n] = n
      BY <1>5 DEF BootFails, ConfigInit, RoutingInit, Inv, Shapes
    <2>5. NodeOk(image[n], n, main'[n], key[n], self'[n])
      BY <2>4 DEF Inv, Booted, NodeOk
    <2>6. Booted'
      BY <1>0, <2>1, <2>3, <2>5 DEF Inv, Booted
    <2> QED
      BY <1>0, <1>1, <1>2, <1>3, <2>1, <2>2, <2>6 DEF Inv, Shapes
  <1> QED
    BY <1>4, <1>5 DEF Boot

\* A restart leaves nothing of the old epoch in the node.
LEMMA RestartKeepsInv ==
    ASSUME Inv, NEW n \in Node, NEW img \in Image, Restart(n, img) PROVE Inv'
  <1>1. /\ image' = [image EXCEPT ![n] = img] /\ main' = [main EXCEPT ![n] = "auth"]
        /\ key' = [key EXCEPT ![n] = NoKey] /\ self' = [self EXCEPT ![n] = 0]
        /\ next_msg_id' = [next_msg_id EXCEPT ![n] = 0]
        /\ out' = [out EXCEPT ![n] = None] /\ radio' = [radio EXCEPT ![n] = <<>>]
        /\ handled' = [handled EXCEPT ![n] = None] /\ UNCHANGED <<sends, sent>>
    BY DEF Restart
  <1>2. Per(image) /\ Per(key) /\ Per(out) /\ Per(radio) /\ Per(handled)
    BY DEF Inv, Shapes
  <1>3. /\ Per(image') /\ \A u \in Node : image'[u] = IF u = n THEN img ELSE image[u]
        /\ Per(key') /\ \A u \in Node : key'[u] = IF u = n THEN NoKey ELSE key[u]
    BY <1>1, <1>2 DEF Per
  <1>4. /\ Per(out') /\ \A u \in Node : out'[u] = IF u = n THEN None ELSE out[u]
        /\ Per(radio') /\ \A u \in Node : radio'[u] = IF u = n THEN <<>> ELSE radio[u]
        /\ Per(handled') /\ \A u \in Node : handled'[u] = IF u = n THEN None ELSE handled[u]
    BY <1>1, <1>2 DEF Per
  <1>5. /\ main' \in [Node -> {"auth", "config", "routing", "running", "ended"}]
        /\ self' \in [Node -> Node \union {0}] /\ next_msg_id' \in [Node -> Nat]
        /\ \A u \in Node : main'[u] = IF u = n THEN "auth" ELSE main[u]
        /\ \A u \in Node : self'[u] = IF u = n THEN 0 ELSE self[u]
        /\ \A u \in Node : next_msg_id'[u] = IF u = n THEN 0 ELSE next_msg_id[u]
    BY <1>1 DEF Inv, Shapes
  <1>6. Shapes'
    BY <1>1, <1>3, <1>4, <1>5 DEF Inv, Shapes
  <1>7. Booted'
    BY <1>3, <1>5 DEF Inv, Booted, NodeOk
  <1>8. Bounds'
    <2>1. IsSeq(<<>>) /\ Len(<<>>) = 0
      <3>1. <<>> \in Seq({})
        OBVIOUS
      <3> QED
        BY <3>1 DEF IsSeq
    <2>2. \A u \in Node : next_msg_id'[u] <= FirstId + sends'
      BY <1>1, <1>5, BoundAssumption DEF Inv, Shapes, Bounds
    <2>3. \A u \in Node : IsSeq(radio'[u]) /\ Len(radio'[u]) <= QueueDepth
      BY <1>4, <2>1, SizeAssumption DEF Inv, Bounds
    <2> QED
      BY <2>2, <2>3 DEF Bounds
  <1>9. Travel'
    <2>1. \A i \in DOMAIN <<>> : FALSE
      OBVIOUS
    <2> QED
      BY <1>1, <1>3, <1>4, <2>1 DEF Inv, Travel
  <1>10. SentOk' /\ OwnNeverHandled'
    BY <1>1, <1>4 DEF Inv, SentOk, OwnNeverHandled
  <1> QED
    BY <1>6, <1>7, <1>8, <1>9, <1>10 DEF Inv

\* An origination keeps the invariant, with whatever else RX does beside it.
LEMMA OriginateKeepsInv ==
    ASSUME Inv, NEW n \in Node, key[n] # NoKey,
           NEW type \in DOMAIN DataFields, NEW dst \in Nat, dst < 65536, NEW data,
           DOMAIN data = Names(DataFields[type]), data = [x \in DOMAIN data |-> data[x]], KeyFits(data),
           NEW reading, reading # None => Reports(data, reading),
           Originate(n, type, dst, data, reading), UNCHANGED boot,
           Per(handled') /\ OwnNeverHandled',
           \A u \in Node : handled'[u] # None =>
              \/ handled'[u] = handled[u]
              \/ /\ u = n
                 /\ TracedIn(sent, handled'[n].msg, key[n], image[n].key_id % 256),
           Per(radio'),
           \A u \in Node : /\ IsSeq(radio'[u]) /\ Len(radio'[u]) <= QueueDepth
                           /\ \A i \in DOMAIN radio'[u] : PacketOk(sent, radio'[u][i])
    PROVE  Inv'
  <1>1. UNCHANGED <<image, main, key, self>>
    BY DEF boot
  <1>2. /\ sends' \in 0 .. MaxSends
        /\ next_msg_id' \in [Node -> Nat]
        /\ \A u \in Node : next_msg_id'[u] <= FirstId + sends'
        /\ Per(out') /\ sent \subseteq sent' /\ SentOk'
        /\ \A u \in Node : out'[u] # None =>
              \/ out'[u] = out[u]
              \/ u = n /\ MsgOk(out'[n]) /\ TracedIn(sent', out'[n], key[n], image[n].key_id % 256)
    BY OriginateIs
  <1>3. /\ \A m, k, id : TracedIn(sent, m, k, id) => TracedIn(sent', m, k, id)
        /\ \A p : PacketOk(sent, p) => PacketOk(sent', p)
    <2>1. sent \subseteq sent'
      BY <1>2
    <2> QED
      BY <2>1, MoreSent
  <1>4. Shapes'
    BY <1>1, <1>2 DEF Inv, Shapes
  <1>5. Booted'
    BY <1>1 DEF Inv, Booted
  <1>6. Bounds'
    BY <1>2 DEF Bounds
  <1>7. Travel'
    <2> SUFFICES ASSUME NEW u \in Node
                 PROVE  /\ out'[u] # None =>
                              /\ key[u] # NoKey /\ MsgOk(out'[u])
                              /\ TracedIn(sent', out'[u], key[u], image[u].key_id % 256)
                        /\ handled'[u] # None =>
                              /\ key[u] # NoKey
                              /\ TracedIn(sent', handled'[u].msg, key[u], image[u].key_id % 256)
                        /\ \A i \in DOMAIN radio'[u] : PacketOk(sent', radio'[u][i])
      BY <1>1 DEF Travel
    <2>1. /\ out[u] # None =>
                /\ key[u] # NoKey /\ MsgOk(out[u])
                /\ TracedIn(sent, out[u], key[u], image[u].key_id % 256)
          /\ handled[u] # None =>
                /\ key[u] # NoKey
                /\ TracedIn(sent, handled[u].msg, key[u], image[u].key_id % 256)
      BY DEF Inv, Travel
    <2> QED
      BY <1>2, <1>3, <2>1
  <1> QED
    BY <1>2, <1>4, <1>5, <1>6, <1>7 DEF Inv

\* The names of the fields, by type.
LEMMA DataNames ==
    /\ Names(DataFields[TS_MSG_TELEMETRY]) =
          {"timestamp", "temperature", "humidity", "pressure"}
    /\ Names(DataFields[TS_MSG_NODE_STATUS]) = {"timestamp", "uptime", "status"}
    /\ Names(DataFields[TS_MSG_CONFIG_SET]) = {"key", "value"}
    /\ Names(DataFields[TS_MSG_CONFIG_ACK]) = {"key", "value", "result"}
    /\ {TS_MSG_TELEMETRY, TS_MSG_NODE_STATUS, TS_MSG_CONFIG_SET, TS_MSG_CONFIG_ACK}
          \subseteq DOMAIN DataFields
  <1> USE DEF TS_MSG_TELEMETRY, TS_MSG_NODE_STATUS, TS_MSG_CONFIG_SET, TS_MSG_CONFIG_ACK
  <1>0. /\ 1 .. 2 = {1, 2} /\ 1 .. 3 = {1, 2, 3} /\ 1 .. 4 = {1, 2, 3, 4}
    OBVIOUS
  <1>1. Names(DataFields[0]) = {"timestamp", "temperature", "humidity", "pressure"}
    <2> DEFINE F == DataFields[0]
    <2>1. F = <<Field("timestamp", "u32"), Field("temperature", "i32"),
                Field("humidity", "u32"), Field("pressure", "u32")>>
      BY DEF DataFields
    <2> HIDE DEF F
    <2>2. /\ DOMAIN F = 1 .. 4 /\ F[1].name = "timestamp" /\ F[2].name = "temperature"
          /\ F[3].name = "humidity" /\ F[4].name = "pressure"
      BY <2>1 DEF Field
    <2>3. Names(F) = {"timestamp", "temperature", "humidity", "pressure"}
      BY <1>0, <2>2 DEF Names
    <2> QED
      BY <2>3 DEF F
  <1>2. Names(DataFields[1]) = {"timestamp", "uptime", "status"}
    <2> DEFINE F == DataFields[1]
    <2>1. F = <<Field("timestamp", "u32"), Field("uptime", "u32"), Field("status", "u32")>>
      BY DEF DataFields
    <2> HIDE DEF F
    <2>2. DOMAIN F = 1 .. 3 /\ F[1].name = "timestamp" /\ F[2].name = "uptime" /\ F[3].name = "status"
      BY <2>1 DEF Field
    <2>3. Names(F) = {"timestamp", "uptime", "status"}
      BY <1>0, <2>2 DEF Names
    <2> QED
      BY <2>3 DEF F
  <1>3. Names(DataFields[2]) = {"key", "value"}
    <2> DEFINE F == DataFields[2]
    <2>1. F = <<Field("key", "text"), Field("value", "i32")>>
      BY DEF DataFields
    <2> HIDE DEF F
    <2>2. DOMAIN F = 1 .. 2 /\ F[1].name = "key" /\ F[2].name = "value"
      BY <2>1 DEF Field
    <2>3. Names(F) = {"key", "value"}
      BY <1>0, <2>2 DEF Names
    <2> QED
      BY <2>3 DEF F
  <1>4. Names(DataFields[3]) = {"key", "value", "result"}
    <2> DEFINE F == DataFields[3]
    <2>1. F = <<Field("key", "text"), Field("value", "i32"), Field("result", "i32")>>
      BY DEF DataFields
    <2> HIDE DEF F
    <2>2. DOMAIN F = 1 .. 3 /\ F[1].name = "key" /\ F[2].name = "value" /\ F[3].name = "result"
      BY <2>1 DEF Field
    <2>3. Names(F) = {"key", "value", "result"}
      BY <1>0, <2>2 DEF Names
    <2> QED
      BY <2>3 DEF F
  <1> QED
    BY <1>1, <1>2, <1>3, <1>4, Tables

\* The conversion of a sensor value loses less than one step, of either sign.
LEMMA HundredthsNear == \A v \in SensorValue : Near(Hundredths(v), 10000, v)
  <1> SUFFICES ASSUME NEW v \in SensorValue PROVE Near(Hundredths(v), 10000, v)
    OBVIOUS
  <1>1. v.val1 \in Int /\ v.val2 \in Int
    BY DEF SensorValue
  <1> DEFINE q == Quotient(v.val2, 10000)
  <1>2. q \in Int /\ -10000 < q * 10000 - v.val2 /\ q * 10000 - v.val2 < 10000
    BY <1>1 DEF Quotient
  <1> HIDE DEF q
  <1>3. (v.val1 * 100 + q) * 10000 - (v.val1 * 1000000 + v.val2) = q * 10000 - v.val2
    BY <1>1, <1>2
  <1> QED
    BY <1>2, <1>3 DEF Near, Hundredths, q

\* A telemetry message reports the reading it was made of.
LEMMA MeasuredReports ==
    ASSUME NEW r \in Reading
    PROVE  /\ Reports(Measured(r), r)
           /\ DOMAIN Measured(r) = {"timestamp", "temperature", "humidity", "pressure"}
           /\ Measured(r) = [x \in DOMAIN Measured(r) |-> Measured(r)[x]]
  <1>1. r.temperature \in SensorValue /\ r.humidity \in SensorValue /\ r.pressure \in SensorValue
    BY InputAssumption
  <1> DEFINE v == r.pressure
             q == Quotient(v.val2, 1000)
  <1>2. v.val1 \in Int /\ v.val2 \in Int
    BY <1>1 DEF SensorValue
  <1>3. q \in Int /\ -1000 < q * 1000 - v.val2 /\ q * 1000 - v.val2 < 1000
    BY <1>2 DEF Quotient
  <1>4. Measured(r).pressure = v.val1 * 1000 + q
    BY DEF Measured
  <1> HIDE DEF q
  <1>5. (v.val1 * 1000 + q) * 1000 - (v.val1 * 1000000 + v.val2) = q * 1000 - v.val2
    BY <1>2, <1>3
  <1>6. Near(Measured(r).pressure, 1000, r.pressure)
    BY <1>3, <1>4, <1>5 DEF Near
  <1>7. /\ Measured(r).temperature = Hundredths(r.temperature)
        /\ Measured(r).humidity = Hundredths(r.humidity)
    BY DEF Measured
  <1>8. Reports(Measured(r), r)
    BY <1>1, <1>6, <1>7, HundredthsNear DEF Reports
  <1> QED
    BY <1>8 DEF Measured

\* The producers.
LEMMA ProduceKeepsInv == ASSUME Inv, NEW n \in Node, Produce(n) PROVE Inv'
  <1>0. ASSUME main[n] = "running" PROVE key[n] # NoKey
    BY <1>0 DEF Inv, Booted, NodeOk
  <1>1. ASSUME NEW type \in DOMAIN DataFields, NEW dst \in Nat, dst < 65536, NEW data,
               DOMAIN data = Names(DataFields[type]), data = [x \in DOMAIN data |-> data[x]], KeyFits(data),
               NEW reading, reading # None => Reports(data, reading),
               main[n] = "running", Originate(n, type, dst, data, reading),
               UNCHANGED boot, UNCHANGED <<radio, handled>>
        PROVE  Inv'
    <2>1. key[n] # NoKey
      BY <1>0, <1>1
    <2>2. Per(handled') /\ OwnNeverHandled'
      BY <1>1 DEF Inv, Shapes, OwnNeverHandled
    <2>3. \A u \in Node : handled'[u] # None =>
              \/ handled'[u] = handled[u]
              \/ /\ u = n
                 /\ TracedIn(sent, handled'[n].msg, key[n], image[n].key_id % 256)
      BY <1>1
    <2>4. /\ Per(radio')
          /\ \A u \in Node : /\ IsSeq(radio'[u]) /\ Len(radio'[u]) <= QueueDepth
                             /\ \A i \in DOMAIN radio'[u] : PacketOk(sent, radio'[u][i])
      BY <1>1 DEF Inv, Shapes, Bounds, Travel
    <2> QED
      BY <1>1, <2>1, <2>2, <2>3, <2>4, OriginateKeepsInv
  <1>2. Broadcast \in Nat /\ Broadcast < 65536
    BY IdsFit
  <1>3. ASSUME NEW r \in Reading, TakeReading(n, r) PROVE Inv'
    <2>1. /\ main[n] = "running" /\ UNCHANGED boot /\ UNCHANGED <<radio, handled>>
          /\ Originate(n, TS_MSG_TELEMETRY, Broadcast, Measured(r), r)
      BY <1>3 DEF TakeReading
    <2>2. KeyFits(Measured(r))
      BY MeasuredReports DEF KeyFits
    <2> QED
      BY <1>1, <1>2, <2>1, <2>2, MeasuredReports, DataNames
  <1>4. CASE SensorFails(n)
    <2>1. /\ sends < MaxSends /\ sends' = sends + 1
          /\ next_msg_id' = [next_msg_id EXCEPT ![n] = @ + 1]
          /\ UNCHANGED <<image, main, key, self, out, radio, sent, handled>>
      BY <1>4 DEF SensorFails, boot
    <2>2. sends \in Nat /\ sends' \in 0 .. MaxSends /\ next_msg_id' \in [Node -> Nat]
      BY <2>1, BoundAssumption DEF Inv, Shapes
    <2>3. \A u \in Node : next_msg_id'[u] <= FirstId + sends'
      BY <2>1, <2>2, BoundAssumption DEF Inv, Shapes, Bounds
    <2>4. Shapes' /\ Bounds'
      BY <2>1, <2>2, <2>3 DEF Inv, Shapes, Bounds
    <2> QED
      BY <2>1, <2>4 DEF Inv, Booted, Travel, SentOk, OwnNeverHandled
  <1>5. CASE Heartbeat(n)
    <2> DEFINE data == [timestamp |-> Uptime, uptime |-> Uptime, status |-> 0]
    <2>1. /\ main[n] = "running" /\ UNCHANGED boot /\ UNCHANGED <<radio, handled>>
          /\ Originate(n, TS_MSG_NODE_STATUS, Broadcast, data, None)
      BY <1>5 DEF Heartbeat
    <2>2. /\ DOMAIN data = {"timestamp", "uptime", "status"}
          /\ data = [x \in DOMAIN data |-> data[x]]
      OBVIOUS
    <2> HIDE DEF data
    <2>3. KeyFits(data)
      BY <2>2 DEF KeyFits
    <2> QED
      BY <1>1, <1>2, <2>1, <2>2, <2>3, DataNames
  <1>6. ASSUME NEW set \in Remote, SendSet(n, set) PROVE Inv'
    <2> DEFINE data == set.data
    <2>1. /\ main[n] = "running" /\ UNCHANGED boot /\ UNCHANGED <<radio, handled>>
          /\ Originate(n, TS_MSG_CONFIG_SET, set.dst, data, None)
      BY <1>6 DEF SendSet
    <2>2. /\ set.dst \in Node \union {Broadcast} /\ data \in [key : STRING, value : Int]
          /\ KeyFits(data)
      BY InputAssumption DEF KeyFits
    <2>3. set.dst \in Nat /\ set.dst < 65536
      BY <2>2, IdsFit
    <2> HIDE DEF data
    <2>4. DOMAIN data = {"key", "value"} /\ data = [x \in DOMAIN data |-> data[x]]
      BY <2>2
    <2> QED
      BY <1>1, <2>1, <2>2, <2>3, <2>4, DataNames
  <1> QED
    BY <1>3, <1>4, <1>5, <1>6 DEF Produce

\* What TX sends decodes to the message in the channel, under TX's key and key id.
LEMMA TransmissionIs ==
    ASSUME Inv, NEW n \in Node, out[n] # None, NEW packet \in Transmission(n)
    PROVE  /\ packet = Packet(key[n], packet.wire)
           /\ MsgOk(cbor_deserialize(packet.wire))
           /\ TracedIn(sent, cbor_deserialize(packet.wire), key[n],
                       cbor_deserialize(packet.wire).route.key_id)
  <1> DEFINE m == out[n]
             id == image[n].key_id % 256
             o == Stamped(n, m)
             w == Encoded(n, m)
  <1>1. w # NoWire /\ packet = Packet(key[n], w)
    BY DEF Transmission
  <1>2. packet.wire = w
    BY <1>1 DEF Packet
  <1>3. MsgOk(m) /\ TracedIn(sent, m, key[n], id)
    BY DEF Inv, Travel
  <1>4. id \in Nat /\ id < 256
    BY KeyIdFits DEF Inv
  <1>5. o = [m EXCEPT !.route.key_id = id]
    BY DEF Stamped, ts_auth_get_key_id
  <1>6. w = Wire(o)
    <2>1. w = IF o.type \in DOMAIN DataFields
                    /\ ByteSize(Wire(o)) <= ZBOR_ENCODE_BUFFER_SIZE - TS_AUTH_TAG_SIZE
              THEN Wire(o) ELSE NoWire
      BY DEF Encoded, cbor_serialize, Wire
    <2> QED
      BY <1>1, <2>1
  <1> HIDE DEF m, id, o, w
  <1>7. /\ MsgOk(o)
        /\ o.type = m.type /\ o.data = m.data /\ o.route.ttl = m.route.ttl
        /\ o.route.src = m.route.src /\ o.route.dst = m.route.dst
        /\ o.route.msg_id = m.route.msg_id /\ o.route.key_id = id
    BY <1>3, <1>4, <1>5, StampedIs
  <1>8. cbor_deserialize(packet.wire) = o
    BY <1>2, <1>6, <1>7, MsgIsShaped, DecodedIs
  <1>9. PICK s \in sent : SameMessage(m, s.msg) /\ s.key = key[n] /\ s.key_id = id
    BY <1>3 DEF TracedIn
  <1>10. SameMessage(o, s.msg)
    BY <1>7, <1>9 DEF SameMessage
  <1>11. TracedIn(sent, o, key[n], o.route.key_id)
    BY <1>7, <1>9, <1>10 DEF TracedIn
  <1> QED
    BY <1>1, <1>2, <1>7, <1>8, <1>11

\* So it may be received, and so may what is left of it when it is damaged.
LEMMA TransmissionOk ==
    ASSUME Inv, NEW n \in Node, out[n] # None, NEW packet \in Transmission(n)
    PROVE  /\ PacketOk(sent, packet)
           /\ PacketOk(sent, [packet EXCEPT !.wire[DataAt + 2] = Number(0)])
  <1> DEFINE q == [packet EXCEPT !.wire[DataAt + 2] = Number(0)]
             m == cbor_deserialize(packet.wire)
  <1>1. /\ packet = Packet(key[n], packet.wire) /\ MsgOk(m)
        /\ TracedIn(sent, m, key[n], m.route.key_id)
    BY TransmissionIs
  <1>2. packet.tag = [key |-> key[n], wire |-> packet.wire] /\ packet.tag.key = key[n]
        /\ packet.tag.wire = packet.wire
    BY <1>1 DEF Packet, ts_auth_sign
  <1>3. q.tag = packet.tag
    BY <1>1 DEF Packet
  <1> HIDE DEF q, m
  <1>4. q.tag = ts_auth_sign(q.tag.key, q.wire) => q.wire = packet.wire
    BY <1>2, <1>3 DEF ts_auth_sign
  <1>5. PacketOk(sent, packet)
    BY <1>1, <1>2 DEF PacketOk, m
  <1>6. PacketOk(sent, q)
    BY <1>1, <1>2, <1>3, <1>4 DEF PacketOk, m
  <1> QED
    BY <1>5, <1>6 DEF q

\* Steps that only take messages out of channels and change the radios.
LEMMA RadioKeepsInv ==
    ASSUME Inv, UNCHANGED <<image, main, key, self, next_msg_id, sent, handled>>,
           sends' \in 0 .. MaxSends, sends <= sends',
           Per(out'), \A u \in Node : out'[u] # None => out'[u] = out[u],
           Per(radio'),
           \A u \in Node : /\ IsSeq(radio'[u]) /\ Len(radio'[u]) <= QueueDepth
                           /\ \A i \in DOMAIN radio'[u] : PacketOk(sent, radio'[u][i])
    PROVE  Inv'
  <1>1. Shapes'
    BY DEF Inv, Shapes
  <1>2. Booted' /\ SentOk' /\ OwnNeverHandled'
    BY DEF Inv, Booted, SentOk, OwnNeverHandled
  <1>3. Bounds'
    <2>1. sends \in Nat /\ sends' \in Nat /\ FirstId \in Nat
      BY BoundAssumption DEF Inv, Shapes
    <2>2. \A u \in Node : next_msg_id[u] \in Nat /\ next_msg_id[u] <= FirstId + sends
      BY DEF Inv, Shapes, Bounds
    <2>3. \A u \in Node : next_msg_id'[u] <= FirstId + sends'
      BY <2>1, <2>2
    <2> QED
      BY <2>3 DEF Bounds
  <1>4. Travel'
    BY DEF Inv, Travel
  <1> QED
    BY <1>1, <1>2, <1>3, <1>4 DEF Inv

\* TX.
LEMMA TxKeepsInv == ASSUME Inv, NEW n \in Node, Tx(n) PROVE Inv'
  <1>1. /\ out[n] # None /\ out' = [out EXCEPT ![n] = None]
        /\ UNCHANGED <<image, main, key, self, next_msg_id, sends, sent, handled>>
    BY DEF Tx, TxFails, TxSends, boot
  <1>2. Per(out') /\ \A u \in Node : out'[u] # None => out'[u] = out[u]
    <2>1. Per(out)
      BY DEF Inv, Shapes
    <2> QED
      BY <1>1, <2>1 DEF Per
  <1>3. sends' \in 0 .. MaxSends /\ sends <= sends'
    BY <1>1, BoundAssumption DEF Inv, Shapes
  <1>4. /\ Per(radio')
        /\ \A u \in Node : /\ IsSeq(radio'[u]) /\ Len(radio'[u]) <= QueueDepth
                           /\ \A i \in DOMAIN radio'[u] : PacketOk(sent, radio'[u][i])
    <2>1. CASE TxFails(n)
      BY <2>1 DEF TxFails, Inv, Shapes, Bounds, Travel
    <2>2. CASE TxSends(n)
      <3>1. PICK packet \in Transmission(n) : Receive(Reach[n], packet)
        BY <2>2 DEF TxSends
      <3>2. PacketOk(sent, packet)
        BY <1>1, TransmissionOk
      <3> QED
        BY <3>1, <3>2, ReceiveIs
    <2> QED
      BY <2>1, <2>2 DEF Tx
  <1> QED
    BY <1>1, <1>2, <1>3, <1>4, RadioKeepsInv

\* Packets that no node sent as they are pass no gate.
LEMMA ForeignKeepsInv ==
    ASSUME Inv, NEW u \in Node, NEW n \in Node, Damaged(n, u) \/ Fragment(u) \/ LaterType(u)
    PROVE  Inv'
  <1>1. /\ sends < MaxSends /\ sends' = sends + 1
        /\ UNCHANGED <<image, main, key, self, next_msg_id, out, sent, handled>>
    BY DEF Damaged, Fragment, LaterType, boot
  <1>2. \E p : PacketOk(sent, p) /\ Receive({u}, p)
    <2>1. CASE Damaged(n, u)
      <3>1. out[n] # None
        BY <2>1 DEF Damaged
      <3>2. PICK packet \in Transmission(n) :
               Receive({u}, [packet EXCEPT !.wire[DataAt + 2] = Number(0)])
        BY <2>1 DEF Damaged
      <3> QED
        BY <3>1, <3>2, TransmissionOk
    <2>2. CASE Fragment(u)
      <3> DEFINE p == [wire |-> NoWire, tag |-> None, len |-> TS_AUTH_TAG_SIZE]
      <3>1. Receive({u}, p)
        BY <2>2 DEF Fragment
      <3>2. p.len = 8
        BY DEF TS_AUTH_TAG_SIZE
      <3> HIDE DEF p
      <3>3. PacketOk(sent, p)
        BY <3>2 DEF PacketOk, TS_AUTH_TAG_SIZE
      <3> QED
        BY <3>1, <3>3
    <2>3. CASE LaterType(u)
      <3> DEFINE route == [src |-> 1, dst |-> Broadcast, msg_id |-> 0, ttl |-> Ttl,
                           key_id |-> ts_auth_get_key_id(u)]
                 w == Envelope(TS_MSG_CONFIG_ACK + 1, route, <<>>, <<>>)
                 p == Packet(key[u], w)
      <3>1. Receive({u}, p)
        BY <2>3 DEF LaterType
      <3>2. p.wire = w
        BY DEF Packet
      <3>3. TS_MSG_CONFIG_ACK + 1 \notin DOMAIN DataFields
        BY Tables DEF TS_MSG_CONFIG_ACK
      <3> HIDE DEF route
      <3>4. ~WellFormed(w)
        BY <3>3, UnknownTypeRefused
      <3> HIDE DEF w, p
      <3>5. PacketOk(sent, p)
        BY <3>2, <3>4 DEF PacketOk
      <3> QED
        BY <3>1, <3>5
    <2> QED
      BY <2>1, <2>2, <2>3
  <1>3. /\ Per(radio')
        /\ \A x \in Node : /\ IsSeq(radio'[x]) /\ Len(radio'[x]) <= QueueDepth
                           /\ \A i \in DOMAIN radio'[x] : PacketOk(sent, radio'[x][i])
    BY <1>2, ReceiveIs
  <1>4. sends' \in 0 .. MaxSends /\ sends <= sends'
    BY <1>1, BoundAssumption DEF Inv, Shapes
  <1>5. Per(out') /\ \A x \in Node : out'[x] # None => out'[x] = out[x]
    BY <1>1 DEF Inv, Shapes
  <1> QED
    BY <1>1, <1>3, <1>4, <1>5, RadioKeepsInv

\* What a node handles is of its own epoch, and not its own once it has booted.
LEMMA HandlesIs ==
    ASSUME Inv, NEW n \in Node, Takes(n), Accepted(n), Handles(n)
    PROVE  /\ Per(handled') /\ OwnNeverHandled'
           /\ \A u \in Node : handled'[u] # None =>
                 \/ handled'[u] = handled[u]
                 \/ /\ u = n
                    /\ TracedIn(sent, handled'[n].msg, key[n], image[n].key_id % 256)
  <1> DEFINE h == [msg |-> Decoded(n), main |-> main[n]]
  <1>1. /\ TracedIn(sent, Decoded(n), key[n], image[n].key_id % 256)
        /\ Decoded(n).route.src # self[n]
    BY AcceptedIs
  <1>2. h.msg = Decoded(n) /\ h.main = main[n] /\ handled' = [handled EXCEPT ![n] = h]
    BY DEF Handles
  <1>3. h.main = "running" => h.msg.route.src # n
    BY <1>1, <1>2 DEF Inv, Booted, NodeOk
  <1> HIDE DEF h
  <1>4. Per(handled') /\ \A u \in Node : handled'[u] = IF u = n THEN h ELSE handled[u]
    <2>1. Per(handled)
      BY DEF Inv, Shapes
    <2> QED
      BY <1>2, <2>1 DEF Per
  <1>5. OwnNeverHandled'
    BY <1>3, <1>4 DEF Inv, OwnNeverHandled
  <1> QED
    BY <1>1, <1>2, <1>4, <1>5

\* lora_in_task: every outcome of a received packet.
LEMMA RxKeepsInv == ASSUME Inv, NEW n \in Node, Rx(n) PROVE Inv'
  <1>0. /\ Takes(n)
        /\ UNCHANGED <<image, main, key, self>>
    BY DEF Rx, RxDrops, RxOther, RxSet, boot
  <1>1. /\ Per(radio')
        /\ \A u \in Node : /\ IsSeq(radio'[u]) /\ Len(radio'[u]) <= QueueDepth
                           /\ \A i \in DOMAIN radio'[u] : PacketOk(sent, radio'[u][i])
    BY <1>0, TakesIs
  <1>2. CASE RxDrops(n)
    <2>1. UNCHANGED <<next_msg_id, out, sends, sent, handled>>
      BY <1>2 DEF RxDrops
    <2>2. sends' \in 0 .. MaxSends /\ sends <= sends'
      BY <2>1, BoundAssumption DEF Inv, Shapes
    <2>3. Per(out') /\ \A u \in Node : out'[u] # None => out'[u] = out[u]
      BY <2>1 DEF Inv, Shapes
    <2> QED
      BY <1>0, <1>1, <2>1, <2>2, <2>3, RadioKeepsInv
  <1>3. CASE RxOther(n)
    <2>1. /\ Accepted(n) /\ UNCHANGED <<next_msg_id, sends, sent>>
          /\ Handles(n) \/ handled' = handled
          /\ (Floods(n) /\ out' = [out EXCEPT ![n] = Forward(n)]) \/ out' = out
      BY <1>3 DEF RxOther
    <2> DEFINE id == image[n].key_id % 256
    <2>2. key[n] # NoKey /\ MsgOk(Decoded(n)) /\ TracedIn(sent, Decoded(n), key[n], id)
      BY <1>0, <2>1, AcceptedIs
    <2>3. /\ Per(handled') /\ OwnNeverHandled'
          /\ \A u \in Node : handled'[u] # None =>
                \/ handled'[u] = handled[u]
                \/ u = n /\ TracedIn(sent, handled'[n].msg, key[n], id)
      <3>1. CASE Handles(n)
        BY <1>0, <2>1, <3>1, HandlesIs
      <3>2. CASE handled' = handled
        BY <3>2 DEF Inv, Shapes, OwnNeverHandled
      <3> QED
        BY <2>1, <3>1, <3>2
    <2>4. /\ Per(out')
          /\ \A u \in Node : out'[u] # None =>
                \/ out'[u] = out[u]
                \/ u = n /\ MsgOk(out'[n]) /\ TracedIn(sent, out'[n], key[n], id)
      <3>1. CASE out' = out
        BY <3>1 DEF Inv, Shapes
      <3>2. CASE Floods(n) /\ out' = [out EXCEPT ![n] = Forward(n)]
        <4> DEFINE m == Decoded(n)
                   o == Forward(n)
        <4>1. m.route.ttl > 1 /\ o = [m EXCEPT !.route.ttl = @ - 1]
          BY <3>2 DEF Floods, Forward
        <4>2. Per(out)
          BY DEF Inv, Shapes
        <4> HIDE DEF m, o
        <4>3. Per(out') /\ \A u \in Node : out'[u] = IF u = n THEN o ELSE out[u]
          BY <3>2, <4>2 DEF Per, o
        <4>4. /\ MsgOk(o) /\ MsgOk(m)
              /\ o.type = m.type /\ o.data = m.data /\ o.route.ttl = m.route.ttl - 1
              /\ o.route.src = m.route.src /\ o.route.dst = m.route.dst
              /\ o.route.msg_id = m.route.msg_id
          BY <2>2, <4>1, Diminished DEF m
        <4>5. PICK s \in sent : SameMessage(m, s.msg) /\ s.key = key[n] /\ s.key_id = id
          BY <2>2 DEF TracedIn, m
        <4>6. o.route.ttl \in 1 .. s.msg.route.ttl
          <5>1. m.route.ttl \in 1 .. Ttl /\ s.msg.route.ttl = Ttl
            BY <4>4 DEF MsgOk, RouteOk, Inv, SentOk
          <5> QED
            BY <4>1, <4>4, <5>1, SizeAssumption
        <4>7. SameMessage(o, s.msg)
          BY <4>4, <4>5, <4>6 DEF SameMessage
        <4>8. TracedIn(sent, o, key[n], id)
          BY <4>5, <4>7 DEF TracedIn
        <4> QED
          BY <4>3, <4>4, <4>8
      <3> QED
        BY <2>1, <3>1, <3>2
    <2> HIDE DEF id
    <2>5. Shapes'
      BY <1>0, <1>1, <2>1, <2>3, <2>4 DEF Inv, Shapes
    <2>6. Booted' /\ SentOk' /\ Bounds'
      BY <1>0, <1>1, <2>1 DEF Inv, Booted, SentOk, Bounds
    <2>7. Travel'
      BY <1>0, <1>1, <2>1, <2>2, <2>3, <2>4 DEF Inv, Travel, id
    <2> QED
      BY <2>3, <2>5, <2>6, <2>7 DEF Inv
  <1>4. ASSUME NEW result \in {0, -2, -5, -22}, RxSet(n, result) PROVE Inv'
    <2> DEFINE data == [key |-> Decoded(n).data.key, value |-> Decoded(n).data.value,
                        result |-> result]
               dst == Decoded(n).route.src
    <2>1. /\ Accepted(n) /\ Handles(n) /\ UNCHANGED boot
          /\ Originate(n, TS_MSG_CONFIG_ACK, dst, data, None)
      BY <1>4 DEF RxSet
    <2>2. key[n] # NoKey /\ dst \in Nat /\ dst < 65536 /\ KeyFits(data)
      <3> DEFINE m == Decoded(n)
      <3>1. key[n] # NoKey /\ MsgOk(m) /\ m.type = TS_MSG_CONFIG_SET
        BY <1>0, <1>4, <2>1, AcceptedIs DEF RxSet, IsSet
      <3>2. data["key"] = m.data["key"]
        OBVIOUS
      <3> HIDE DEF m, data
      <3>3. KeyFits(m.data) /\ "key" \in DOMAIN m.data
        BY <3>1, DataNames DEF MsgOk
      <3>4. m.route.src \in Nat /\ m.route.src < 65536
        BY <3>1 DEF MsgOk, RouteOk
      <3> QED
        BY <3>1, <3>2, <3>3, <3>4 DEF KeyFits, m
    <2>3. /\ Per(handled') /\ OwnNeverHandled'
          /\ \A u \in Node : handled'[u] # None =>
                \/ handled'[u] = handled[u]
                \/ /\ u = n
                   /\ TracedIn(sent, handled'[n].msg, key[n], image[n].key_id % 256)
      BY <1>0, <2>1, HandlesIs
    <2>4. DOMAIN data = {"key", "value", "result"} /\ data = [x \in DOMAIN data |-> data[x]]
      OBVIOUS
    <2> HIDE DEF data, dst
    <2>5. /\ TS_MSG_CONFIG_ACK \in DOMAIN DataFields
          /\ DOMAIN data = Names(DataFields[TS_MSG_CONFIG_ACK])
          /\ data = [x \in DOMAIN data |-> data[x]]
          /\ None # None => Reports(data, None)
      BY <2>4, DataNames
    <2> QED
      BY <1>1, <2>1, <2>2, <2>3, <2>5, OriginateKeepsInv
  <1> QED
    BY <1>2, <1>3, <1>4 DEF Rx

-----------------------------------------------------------------------------
\* The invariant holds at first.
LEMMA InvInit == Init => Inv
  <1> SUFFICES ASSUME Init PROVE Inv
    OBVIOUS
  <1>1. IsSeq(<<>>) /\ Len(<<>>) = 0 /\ \A i \in DOMAIN <<>> : FALSE
    <2>1. <<>> \in Seq({})
      OBVIOUS
    <2> QED
      BY <2>1 DEF IsSeq
  <1>2. Shapes
    <2>1. Per(image)
      BY ImageAssumption DEF Init, Per
    <2> QED
      BY <2>1, BoundAssumption DEF Init, Shapes, Per
  <1>3. Booted
    BY ImageAssumption DEF Init, Booted, NodeOk
  <1>4. Bounds
    BY <1>1, BoundAssumption, SizeAssumption DEF Init, Bounds
  <1>5. Travel /\ SentOk /\ OwnNeverHandled
    BY <1>1 DEF Init, Travel, SentOk, OwnNeverHandled
  <1> QED
    BY <1>2, <1>3, <1>4, <1>5 DEF Inv

\* Every step of every node keeps it.
LEMMA InvNext == Inv /\ [Next]_vars => Inv'
  <1> SUFFICES ASSUME Inv, [Next]_vars PROVE Inv'
    OBVIOUS
  <1>1. ASSUME NEW n \in Node, Boot(n) \/ Produce(n) \/ Tx(n) \/ Rx(n) PROVE Inv'
    BY <1>1, BootKeepsInv, ProduceKeepsInv, TxKeepsInv, RxKeepsInv
  <1>2. ASSUME NEW n \in Node, NEW img \in Image, Restart(n, img) PROVE Inv'
    BY <1>2, RestartKeepsInv
  <1>3. ASSUME NEW n \in Node, NEW u \in Exposed, Damaged(n, u) PROVE Inv'
    BY <1>3, NodeAssumption, ForeignKeepsInv
  <1>4. ASSUME NEW u \in Exposed, Fragment(u) \/ LaterType(u) PROVE Inv'
    BY <1>4, NodeAssumption, ForeignKeepsInv
  <1>5. CASE UNCHANGED vars
    BY <1>5 DEF vars, Inv, Shapes, Booted, Bounds, Travel, SentOk, OwnNeverHandled
  <1> QED
    BY <1>1, <1>2, <1>3, <1>4, <1>5 DEF Next

\* So it holds throughout.
LEMMA InvHolds == Spec => []Inv
  BY InvInit, InvNext, PTL DEF Spec

\* Type correctness: in particular no node signs without the key of its image, and
\* what waits for TX is a known message with hops left.
THEOREM TypeCorrect == Spec => []TypeOK
  <1>1. Inv => TypeOK
    <2> SUFFICES ASSUME Inv PROVE TypeOK
      OBVIOUS
    <2>1. \A n \in Node : next_msg_id[n] \in 0 .. FirstId + MaxSends
      <3>1. sends \in 0 .. MaxSends /\ FirstId \in Nat /\ MaxSends \in Nat
        BY BoundAssumption DEF Inv, Shapes
      <3>2. \A n \in Node : next_msg_id[n] \in Nat /\ next_msg_id[n] <= FirstId + sends
        BY DEF Inv, Shapes, Bounds
      <3> QED
        BY <3>1, <3>2
    <2>2. \A n \in Node : out[n] # None =>
             out[n].type \in DOMAIN DataFields /\ out[n].route.ttl \in 1 .. Ttl
      <3>1. \A n \in Node : out[n] # None => MsgOk(out[n])
        BY DEF Inv, Travel
      <3>2. ASSUME NEW m, MsgOk(m) PROVE m.type \in DOMAIN DataFields /\ m.route.ttl \in 1 .. Ttl
        BY <3>2 DEF MsgOk, RouteOk
      <3> QED
        BY <3>1, <3>2
    <2>3. \A n \in Node : Len(radio[n]) <= QueueDepth
      BY DEF Inv, Bounds
    <2>4. \A n \in Node : NodeOk(image[n], n, main[n], key[n], self[n])
      BY DEF Inv, Booted
    <2>5. /\ DOMAIN image = Node
          /\ main \in [Node -> {"auth", "config", "routing", "running", "ended"}]
          /\ self \in [Node -> Node \union {0}] /\ sends \in 0 .. MaxSends
      BY DEF Inv, Shapes, Per
    <2> QED
      BY <2>1, <2>2, <2>3, <2>4, <2>5 DEF TypeOK, NodeOk
  <1> QED
    BY <1>1, InvHolds, PTL

\* Kconfig's promise for TS_KEY_ID, with any keys, key ids and topology: what
\* lora_in_task handles was originated under the key and the key id of the node
\* that handles it, although relays sign anew and are flashed in between.
THEOREM EpochsApart == Spec => []EpochsStayApart
  <1>1. Inv => EpochsStayApart
    BY DEF Inv, Travel, TracedIn, EpochsStayApart, ts_auth_get_key_id
  <1> QED
    BY <1>1, InvHolds, PTL

\* cbor.c, auth.c and lora_in_task together: what a node handles is what its source
\* originated, for any reading, config set, number of relays and restarts, and
\* telemetry is the reading to less than one step of its scale.
THEOREM HandledIsAsSent == Spec => []ArrivesAsSent
  <1>1. Inv => ArrivesAsSent
    <2> SUFFICES ASSUME Inv, NEW n \in Node, handled[n] # None
                 PROVE  \E s \in sent :
                          /\ SameMessage(handled[n].msg, s.msg)
                          /\ s.reading # None => Reports(handled[n].msg.data, s.reading)
      BY DEF ArrivesAsSent
    <2>1. PICK s \in sent : SameMessage(handled[n].msg, s.msg)
      BY DEF Inv, Travel, TracedIn
    <2>2. handled[n].msg.data = s.msg.data
      BY <2>1 DEF SameMessage
    <2> QED
      BY <2>1, <2>2 DEF Inv, SentOk
  <1> QED
    BY <1>1, InvHolds, PTL

\* The own-source gate of lora_in_task: a node that has booted never handles a
\* message of its own.
THEOREM OwnIsNeverHandled == Spec => []OwnNeverHandled
  <1>1. Inv => OwnNeverHandled
    BY DEF Inv
  <1> QED
    BY <1>1, InvHolds, PTL

\* The sizes of cbor.h, lora.c and lora_mock.c, for any message that a producer or a
\* relay puts into the channel: TX never truncates or refuses it, its tag fits
\* behind it, and the packet is one that RX has room for.
THEOREM EveryBufferFits == Spec => []FitsEveryBuffer
  <1>1. Inv => FitsEveryBuffer
    <2> SUFFICES ASSUME Inv, NEW n \in Node, out[n] # None
                 PROVE  LET w == Encoded(n, out[n]) IN
                        /\ w # NoWire
                        /\ ByteSize(w) + TS_AUTH_TAG_SIZE <= LORA_RX_BUFFER_SIZE
      BY DEF FitsEveryBuffer
    <2> DEFINE id == image[n].key_id % 256
               o == Stamped(n, out[n])
    <2>1. MsgOk(out[n])
      BY DEF Inv, Travel
    <2>2. id \in Nat /\ id < 256
      BY KeyIdFits DEF Inv
    <2>3. MsgOk(o)
      BY <2>1, <2>2, StampedIs DEF Stamped, ts_auth_get_key_id
    <2> HIDE DEF o, id
    <2>4. ByteSize(Wire(o)) \in 0 .. 212 /\ Wire(o) # NoWire /\ o.type \in DOMAIN DataFields
      BY <2>3, MsgIsShaped, WireIsShort DEF MsgOk
    <2> DEFINE size == ByteSize(Wire(o))
    <2>5. size \in 0 .. 212
      BY <2>4
    <2> HIDE DEF size
    <2>6. /\ size <= ZBOR_ENCODE_BUFFER_SIZE - TS_AUTH_TAG_SIZE
          /\ size + TS_AUTH_TAG_SIZE <= LORA_RX_BUFFER_SIZE
      BY <2>5 DEF ZBOR_ENCODE_BUFFER_SIZE, TS_AUTH_TAG_SIZE, LORA_RX_BUFFER_SIZE
    <2>7. Encoded(n, out[n]) = Wire(o)
      BY <2>4, <2>6 DEF Encoded, cbor_serialize, Wire, o, size
    <2> QED
      BY <2>4, <2>6, <2>7 DEF size
  <1> QED
    BY <1>1, InvHolds, PTL
=============================================================================
