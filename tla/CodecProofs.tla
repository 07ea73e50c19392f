----------------------------- MODULE CodecProofs ----------------------------
(***************************************************************************)
(* Proofs about Codec: what cbor_serialize writes, cbor_deserialize reads  *)
(* back, and how long it can get.                                          *)
(***************************************************************************)
EXTENDS Codec, WellFoundedInduction, TLAPS

(* Sequences of anything                                                    *)

IsSeq(s) == \E S : s \in Seq(S)

\* Where the items of a concatenation come from.
LEMMA ConcatItems ==
    ASSUME NEW s, NEW t, IsSeq(s), IsSeq(t)
    PROVE  /\ IsSeq(s \o t) /\ Len(s) \in Nat /\ Len(t) \in Nat
           /\ Len(s \o t) = Len(s) + Len(t)
           /\ \A i \in 1 .. Len(s) : (s \o t)[i] = s[i]
           /\ \A i \in 1 .. Len(t) : (s \o t)[Len(s) + i] = t[i]
  <1>1. PICK S : s \in Seq(S)
    BY DEF IsSeq
  <1>2. PICK T : t \in Seq(T)
    BY DEF IsSeq
  <1>3. s \in Seq(S \union T) /\ t \in Seq(S \union T)
    BY <1>1, <1>2
  <1>4. s \o t \in Seq(S \union T)
    BY <1>3
  <1> QED
    BY <1>3, <1>4 DEF IsSeq

\* What a queue holds after an arrival.
LEMMA AppendItems ==
    ASSUME NEW s, IsSeq(s), NEW e
    PROVE  /\ IsSeq(Append(s, e)) /\ Len(s) \in Nat /\ Len(Append(s, e)) = Len(s) + 1
           /\ \A i \in DOMAIN Append(s, e) :
                 (i \in DOMAIN s /\ Append(s, e)[i] = s[i]) \/ Append(s, e)[i] = e
  <1>1. PICK S : s \in Seq(S)
    BY DEF IsSeq
  <1>2. s \in Seq(S \union {e}) /\ e \in S \union {e}
    BY <1>1
  <1>3. Append(s, e) \in Seq(S \union {e}) /\ Len(Append(s, e)) = Len(s) + 1
    BY <1>2
  <1>4. \A i \in 1 .. Len(s) + 1 : Append(s, e)[i] = IF i <= Len(s) THEN s[i] ELSE e
    BY <1>2
  <1> QED
    BY <1>2, <1>3, <1>4 DEF IsSeq

\* What a queue holds after its head is taken.
LEMMA TailItems ==
    ASSUME NEW s, IsSeq(s), s # <<>>
    PROVE  /\ IsSeq(Tail(s)) /\ Len(Tail(s)) \in Nat /\ Len(Tail(s)) <= Len(s)
           /\ \A i \in DOMAIN Tail(s) : i + 1 \in DOMAIN s /\ Tail(s)[i] = s[i + 1]
           /\ 1 \in DOMAIN s /\ Head(s) = s[1]
  <1>1. PICK S : s \in Seq(S)
    BY DEF IsSeq
  <1>2. Tail(s) \in Seq(S)
    BY <1>1
  <1> QED
    BY <1>1, <1>2 DEF IsSeq

-----------------------------------------------------------------------------
(* The codec                                                                *)

\* The C member of the field holds the value.
Holds(f, v) ==
    /\ f.kind = "u8" => v \in Nat /\ v < 256
    /\ f.kind = "u16" => v \in Nat /\ v < 65536

\* The fields of a message's data: none is narrow.
NumberField ==
    [name : {"timestamp", "temperature", "humidity", "pressure", "uptime", "status",
             "value", "result"},
     kind : {"u32", "i32"}]
DataField == NumberField \union {Field("key", "text")}

\* A map of these fields with these values stands at this place of the wire.
MapAt(fields, values, w, at) ==
    /\ w[at] = MapStart /\ w[at + 2 * Len(fields) + 1] = MapEnd
    /\ \A i \in DOMAIN fields :
          /\ w[at + 2 * i - 1] = Text(fields[i].name)
          /\ w[at + 2 * i] = Item(fields[i], values[fields[i].name])

\* EncodeMap writes such a map.
LEMMA EncodeMapItems ==
    ASSUME NEW fields, IsSeq(fields), NEW values
    PROVE  LET m == EncodeMap(fields, values) IN
           /\ IsSeq(m) /\ Len(m) = 2 * Len(fields) + 2 /\ Len(fields) \in Nat
           /\ MapAt(fields, values, m, 1)
  <1> DEFINE pair(i) == LET f == fields[(i + 1) \div 2] IN
                        IF i % 2 = 1 THEN Text(f.name) ELSE Item(f, values[f.name])
             L == Len(fields)
             body == [i \in 1 .. 2 * L |-> pair(i)]
             front == <<MapStart>> \o body
             m == front \o <<MapEnd>>
  <1>1. L \in Nat /\ DOMAIN fields = 1 .. L
    BY DEF IsSeq
  <1>2. body \in Seq({pair(i) : i \in 1 .. 2 * L}) /\ Len(body) = 2 * L
    <2> HIDE DEF pair
    <2> QED
      BY <1>1
  <1>3. IsSeq(<<MapStart>>) /\ IsSeq(<<MapEnd>>) /\ IsSeq(body)
    <2>1. <<MapStart>> \in Seq({MapStart}) /\ <<MapEnd>> \in Seq({MapEnd})
      OBVIOUS
    <2> HIDE DEF body
    <2> QED
      BY <1>2, <2>1 DEF IsSeq
  <1>4. ASSUME NEW i \in 1 .. L
        PROVE  /\ body[2 * i - 1] = Text(fields[i].name)
               /\ body[2 * i] = Item(fields[i], values[fields[i].name])
    <2>1. /\ 2 * i \in 1 .. 2 * L /\ (2 * i + 1) \div 2 = i /\ (2 * i) % 2 # 1
          /\ 2 * i - 1 \in 1 .. 2 * L /\ ((2 * i - 1) + 1) \div 2 = i /\ (2 * i - 1) % 2 = 1
      BY <1>1
    <2> QED
      BY <2>1
  <1>5. EncodeMap(fields, values) = m
    BY DEF EncodeMap
  <1> HIDE DEF body
  <1>6. /\ IsSeq(front) /\ Len(front) = 2 * L + 1 /\ front[1] = MapStart
        /\ \A i \in 1 .. 2 * L : front[1 + i] = body[i]
    <2>1. /\ IsSeq(front) /\ Len(front) = Len(<<MapStart>>) + Len(body)
          /\ \A i \in 1 .. Len(<<MapStart>>) : front[i] = <<MapStart>>[i]
          /\ \A i \in 1 .. Len(body) : front[Len(<<MapStart>>) + i] = body[i]
      BY <1>3, ConcatItems
    <2>2. Len(<<MapStart>>) = 1 /\ <<MapStart>>[1] = MapStart
      OBVIOUS
    <2> HIDE DEF front
    <2> QED
      BY <1>1, <1>2, <2>1, <2>2
  <1> HIDE DEF front
  <1>7. /\ IsSeq(m) /\ Len(m) = 2 * L + 2 /\ m[2 * L + 2] = MapEnd
        /\ \A i \in 1 .. 2 * L + 1 : m[i] = front[i]
    <2>1. /\ IsSeq(m) /\ Len(m) = Len(front) + Len(<<MapEnd>>)
          /\ \A i \in 1 .. Len(front) : m[i] = front[i]
          /\ \A i \in 1 .. Len(<<MapEnd>>) : m[Len(front) + i] = <<MapEnd>>[i]
      <3>1. IsSeq(front) /\ IsSeq(<<MapEnd>>)
        BY <1>3, <1>6
      <3> QED
        BY <3>1, ConcatItems
    <2>2. Len(<<MapEnd>>) = 1 /\ <<MapEnd>>[1] = MapEnd
      OBVIOUS
    <2> HIDE DEF m
    <2> QED
      BY <1>1, <1>6, <2>1, <2>2
  <1> HIDE DEF m
  <1>8. ASSUME NEW i \in 1 .. L
        PROVE  /\ m[1 + 2 * i - 1] = Text(fields[i].name)
               /\ m[1 + 2 * i] = Item(fields[i], values[fields[i].name])
    <2>1. /\ 1 + 2 * i \in 1 .. 2 * L + 1 /\ 2 * i \in 1 .. 2 * L
          /\ 1 + 2 * i - 1 = 1 + (2 * i - 1) /\ 2 * i - 1 \in 1 .. 2 * L
          /\ 1 + (2 * i - 1) \in 1 .. 2 * L + 1
      BY <1>1
    <2> QED
      BY <1>4, <1>6, <1>7, <2>1
  <1>9. m[1] = MapStart /\ m[1 + 2 * L + 1] = MapEnd
    <2>1. 1 + 2 * L + 1 = 2 * L + 2 /\ 1 \in 1 .. 2 * L + 1
      BY <1>1
    <2> QED
      BY <1>6, <1>7, <2>1
  <1> QED
    BY <1>1, <1>5, <1>7, <1>8, <1>9 DEF MapAt

\* A map keeps its shape inside a longer wire.
LEMMA MapMoves ==
    ASSUME NEW fields, IsSeq(fields), NEW values, NEW m, MapAt(fields, values, m, 1),
           NEW w, NEW p \in Nat, \A i \in 1 .. 2 * Len(fields) + 2 : w[p + i] = m[i]
    PROVE  MapAt(fields, values, w, p + 1)
  <1> DEFINE L == Len(fields)
  <1>1. L \in Nat /\ DOMAIN fields = 1 .. L
    BY DEF IsSeq
  <1>2. m[1] = MapStart /\ m[1 + 2 * L + 1] = MapEnd
    BY DEF MapAt
  <1>3. w[p + 1] = MapStart /\ w[p + 1 + 2 * L + 1] = MapEnd
    <2>1. /\ 1 \in 1 .. 2 * L + 2 /\ 1 + 2 * L + 1 \in 1 .. 2 * L + 2
          /\ p + 1 + 2 * L + 1 = p + (1 + 2 * L + 1)
      BY <1>1
    <2> QED
      BY <1>2, <2>1
  <1>4. ASSUME NEW i \in 1 .. L
        PROVE  /\ w[p + 1 + 2 * i - 1] = Text(fields[i].name)
               /\ w[p + 1 + 2 * i] = Item(fields[i], values[fields[i].name])
    <2>1. /\ m[1 + 2 * i - 1] = Text(fields[i].name)
          /\ m[1 + 2 * i] = Item(fields[i], values[fields[i].name])
      BY <1>1 DEF MapAt
    <2>2. /\ p + 1 + 2 * i - 1 = p + (1 + 2 * i - 1) /\ p + 1 + 2 * i = p + (1 + 2 * i)
          /\ 1 + 2 * i - 1 \in 1 .. 2 * L + 2 /\ 1 + 2 * i \in 1 .. 2 * L + 2
      BY <1>1
    <2> QED
      BY <2>1, <2>2
  <1> QED
    BY <1>1, <1>3, <1>4 DEF MapAt

\* The tables of fields are sequences; only the route's members are narrow.
LEMMA Tables ==
    /\ IsSeq(RouteFields) /\ Len(RouteFields) = 5 /\ DOMAIN RouteFields = 1 .. 5
    /\ Names(RouteFields) = {"src", "dst", "msg_id", "ttl", "key_id"}
    /\ RouteAt = 5 /\ DataAt = 18
    /\ DOMAIN DataFields = 0 .. 3
    /\ \A t \in DOMAIN DataFields :
          /\ IsSeq(DataFields[t])
          /\ \A i \in DOMAIN DataFields[t] : DataFields[t][i] \in DataField
  <1>1. RouteFields \in Seq({RouteFields[i] : i \in 1 .. 5}) /\ Len(RouteFields) = 5
    BY DEF RouteFields
  <1>2. DOMAIN RouteFields = 1 .. 5
    BY DEF RouteFields
  <1>3. Names(RouteFields) = {"src", "dst", "msg_id", "ttl", "key_id"}
    <2>1. /\ RouteFields[1].name = "src" /\ RouteFields[2].name = "dst"
          /\ RouteFields[3].name = "msg_id" /\ RouteFields[4].name = "ttl"
          /\ RouteFields[5].name = "key_id"
      BY DEF RouteFields, Field
    <2>2. 1 .. 5 = {1, 2, 3, 4, 5}
      OBVIOUS
    <2> QED
      BY <1>2, <2>1, <2>2 DEF Names
  <1>4. DOMAIN DataFields = 0 .. 3
    BY DEF DataFields, TS_MSG_TELEMETRY, TS_MSG_CONFIG_ACK
  <1>5. ASSUME NEW t \in 0 .. 3
        PROVE  DataFields[t] \in Seq(DataField)
    <2> USE DEF TS_MSG_TELEMETRY, TS_MSG_NODE_STATUS, TS_MSG_CONFIG_SET, TS_MSG_CONFIG_ACK
    <2> USE DEF NumberField
    <2>0. /\ Field("timestamp", "u32") \in DataField /\ Field("temperature", "i32") \in DataField
          /\ Field("humidity", "u32") \in DataField /\ Field("pressure", "u32") \in DataField
          /\ Field("uptime", "u32") \in DataField /\ Field("status", "u32") \in DataField
          /\ Field("key", "text") \in DataField /\ Field("value", "i32") \in DataField
          /\ Field("result", "i32") \in DataField
      BY DEF Field, DataField
    <2>1. CASE t = 0
      <3>1. DataFields[t] = <<Field("timestamp", "u32"), Field("temperature", "i32"),
                             Field("humidity", "u32"), Field("pressure", "u32")>>
        BY <2>1 DEF DataFields
      <3> QED
        BY <2>0, <3>1
    <2>2. CASE t = 1
      <3>1. DataFields[t] = <<Field("timestamp", "u32"), Field("uptime", "u32"),
                             Field("status", "u32")>>
        BY <2>2 DEF DataFields
      <3> QED
        BY <2>0, <3>1
    <2>3. CASE t = 2
      <3>1. DataFields[t] = <<Field("key", "text"), Field("value", "i32")>>
        BY <2>3 DEF DataFields
      <3> QED
        BY <2>0, <3>1
    <2>4. CASE t = 3
      <3>1. DataFields[t] = <<Field("key", "text"), Field("value", "i32"),
                             Field("result", "i32")>>
        BY <2>4 DEF DataFields
      <3> QED
        BY <2>0, <3>1
    <2> QED
      BY <2>1, <2>2, <2>3, <2>4
  <1>6. RouteAt = 5 /\ DataAt = 18
    BY <1>1 DEF RouteAt, DataAt
  <1> QED
    BY <1>1, <1>2, <1>3, <1>4, <1>5, <1>6 DEF IsSeq

\* Every item that the encoder writes, in its place.
LEMMA EnvelopeItems ==
    ASSUME NEW fields, IsSeq(fields), NEW type, NEW route, NEW data
    PROVE  LET w == Envelope(type, route, fields, data) IN
           /\ IsSeq(w) /\ Len(w) = 20 + 2 * Len(fields) /\ Len(fields) \in Nat
           /\ w[1] = MapStart /\ w[2] = Text("type") /\ w[3] = Number(type)
           /\ w[4] = Text("route") /\ MapAt(RouteFields, route, w, 5)
           /\ w[17] = Text("data") /\ MapAt(fields, data, w, 18)
           /\ w[20 + 2 * Len(fields)] = MapEnd
  <1> DEFINE a == <<MapStart, Text("type"), Number(type), Text("route")>>
             R == EncodeMap(RouteFields, route)
             b == <<Text("data")>>
             D == EncodeMap(fields, data)
             e == <<MapEnd>>
             w1 == a \o R
             w2 == w1 \o b
             w3 == w2 \o D
             w == w3 \o e
             L == Len(fields)
  <1>1. Envelope(type, route, fields, data) = w
    BY DEF Envelope
  <1>2. /\ IsSeq(a) /\ Len(a) = 4 /\ a[1] = MapStart /\ a[2] = Text("type")
        /\ a[3] = Number(type) /\ a[4] = Text("route")
        /\ IsSeq(b) /\ Len(b) = 1 /\ b[1] = Text("data")
        /\ IsSeq(e) /\ Len(e) = 1 /\ e[1] = MapEnd
    <2>1. a \in Seq({a[i] : i \in 1 .. 4}) /\ b \in Seq({b[1]}) /\ e \in Seq({e[1]})
      OBVIOUS
    <2> QED
      BY <2>1 DEF IsSeq
  <1>3. IsSeq(R) /\ Len(R) = 12 /\ MapAt(RouteFields, route, R, 1)
    <2>1. /\ IsSeq(R) /\ Len(R) = 2 * Len(RouteFields) + 2
          /\ MapAt(RouteFields, route, R, 1)
      BY Tables, EncodeMapItems
    <2> HIDE DEF R
    <2> QED
      BY Tables, <2>1
  <1>4. /\ IsSeq(D) /\ Len(D) = 2 * L + 2 /\ L \in Nat /\ MapAt(fields, data, D, 1)
    BY EncodeMapItems
  <1> HIDE DEF a, R, b, D, e, L
  <1>5. /\ IsSeq(w1) /\ Len(w1) = 16
        /\ \A i \in 1 .. 4 : w1[i] = a[i]
        /\ \A i \in 1 .. 12 : w1[4 + i] = R[i]
    <2>1. /\ IsSeq(w1) /\ Len(w1) = Len(a) + Len(R)
          /\ \A i \in 1 .. Len(a) : w1[i] = a[i]
          /\ \A i \in 1 .. Len(R) : w1[Len(a) + i] = R[i]
      <3>1. IsSeq(a) /\ IsSeq(R)
        BY <1>2, <1>3
      <3> QED
        BY <3>1, ConcatItems
    <2> HIDE DEF w1
    <2> QED
      BY <1>2, <1>3, <2>1
  <1> HIDE DEF w1
  <1>6. /\ IsSeq(w2) /\ Len(w2) = 17 /\ w2[17] = b[1]
        /\ \A i \in 1 .. 16 : w2[i] = w1[i]
    <2>1. /\ IsSeq(w2) /\ Len(w2) = Len(w1) + Len(b)
          /\ \A i \in 1 .. Len(w1) : w2[i] = w1[i]
          /\ \A i \in 1 .. Len(b) : w2[Len(w1) + i] = b[i]
      <3>1. IsSeq(w1) /\ IsSeq(b)
        BY <1>2, <1>5
      <3> QED
        BY <3>1, ConcatItems
    <2> HIDE DEF w2
    <2> QED
      BY <1>2, <1>5, <2>1
  <1> HIDE DEF w2
  <1>7. /\ IsSeq(w3) /\ Len(w3) = 19 + 2 * L
        /\ \A i \in 1 .. 17 : w3[i] = w2[i]
        /\ \A i \in 1 .. 2 * L + 2 : w3[17 + i] = D[i]
    <2>1. /\ IsSeq(w3) /\ Len(w3) = Len(w2) + Len(D)
          /\ \A i \in 1 .. Len(w2) : w3[i] = w2[i]
          /\ \A i \in 1 .. Len(D) : w3[Len(w2) + i] = D[i]
      <3>1. IsSeq(w2) /\ IsSeq(D)
        BY <1>4, <1>6
      <3> QED
        BY <3>1, ConcatItems
    <2> HIDE DEF w3
    <2> QED
      BY <1>4, <1>6, <2>1
  <1> HIDE DEF w3
  <1>8. /\ IsSeq(w) /\ Len(w) = 20 + 2 * L /\ w[20 + 2 * L] = e[1]
        /\ \A i \in 1 .. 19 + 2 * L : w[i] = w3[i]
    <2>1. /\ IsSeq(w) /\ Len(w) = Len(w3) + Len(e)
          /\ \A i \in 1 .. Len(w3) : w[i] = w3[i]
          /\ \A i \in 1 .. Len(e) : w[Len(w3) + i] = e[i]
      <3>1. IsSeq(w3) /\ IsSeq(e)
        BY <1>2, <1>7
      <3> QED
        BY <3>1, ConcatItems
    <2>2. 19 + 2 * L + 1 = 20 + 2 * L
      BY <1>4
    <2> HIDE DEF w
    <2> QED
      BY <1>2, <1>4, <1>7, <2>1, <2>2
  <1> HIDE DEF w
  <1>9. \A i \in 1 .. 17 : w[i] = w2[i]
    <2>1. \A i \in 1 .. 17 : i \in 1 .. 19 + 2 * L
      <3>1. L \in Nat
        BY <1>4
      <3> QED
        BY <3>1
    <2>2. \A i \in 1 .. 17 : w3[i] = w2[i]
      BY <1>7
    <2>3. \A i \in 1 .. 19 + 2 * L : w[i] = w3[i]
      BY <1>8
    <2> QED
      BY <2>1, <2>2, <2>3, Zenon
  <1>10. /\ \A i \in 1 .. 4 : w[i] = a[i]
         /\ \A i \in 1 .. 12 : w[4 + i] = R[i]
         /\ w[17] = b[1]
    BY <1>5, <1>6, <1>9
  <1>11. \A i \in 1 .. 2 * L + 2 : w[17 + i] = D[i]
    <2>1. \A i \in 1 .. 2 * L + 2 : 17 + i \in 1 .. 19 + 2 * L
      <3>1. L \in Nat
        BY <1>4
      <3> QED
        BY <3>1
    <2>2. \A i \in 1 .. 2 * L + 2 : w3[17 + i] = D[i]
      BY <1>7
    <2>3. \A i \in 1 .. 19 + 2 * L : w[i] = w3[i]
      BY <1>8
    <2> QED
      BY <2>1, <2>2, <2>3, Zenon
  <1>12. MapAt(RouteFields, route, w, 5)
    <2>1. \A i \in 1 .. 2 * Len(RouteFields) + 2 : w[4 + i] = R[i]
      BY <1>10, Tables
    <2>2. MapAt(RouteFields, route, w, 4 + 1)
      BY <1>3, <2>1, MapMoves, Tables
    <2> QED
      BY <2>2
  <1>13. MapAt(fields, data, w, 18)
    <2>1. MapAt(fields, data, w, 17 + 1)
      BY <1>4, <1>11, MapMoves DEF L
    <2> QED
      BY <2>1
  <1> QED
    BY <1>1, <1>2, <1>4, <1>8, <1>10, <1>12, <1>13 DEF L

\* A map whose values the members hold is decoded to these values.
LEMMA MapRoundTrip ==
    ASSUME NEW fields, NEW values, NEW wire, NEW at,
           \A i \in DOMAIN fields :
              /\ wire[at + 2 * i] = Item(fields[i], values[fields[i].name])
              /\ Holds(fields[i], values[fields[i].name]),
           DOMAIN values = Names(fields), values = [x \in DOMAIN values |-> values[x]]
    PROVE  MapValues(fields, wire, at) = values
  <1>1. ASSUME NEW i \in DOMAIN fields
        PROVE  Member(fields[i], wire[at + 2 * i]) = values[fields[i].name]
    <2> DEFINE f == fields[i]
               v == values[f.name]
    <2>1. wire[at + 2 * i] = Item(f, v) /\ Holds(f, v)
      OBVIOUS
    <2> HIDE DEF f, v
    <2>2. CASE f.kind = "text"
      BY <2>1, <2>2 DEF Item, Member, Text, f, v
    <2>3. CASE f.kind # "text"
      <3>1. Item(f, v) = Number(v) /\ Number(v).number = v
        BY <2>3 DEF Item, Number
      <3>2. /\ f.kind = "u8" => v % 256 = v
            /\ f.kind = "u16" => v % 65536 = v
        BY <2>1 DEF Holds
      <3>3. Member(f, Number(v)) = v
        BY <2>3, <3>1, <3>2 DEF Member
      <3> QED
        BY <2>1, <3>1, <3>3 DEF f, v
    <2> QED
      BY <2>2, <2>3
  <1>2. ASSUME NEW name \in Names(fields)
        PROVE  LET i == CHOOSE i \in DOMAIN fields : fields[i].name = name
               IN  Member(fields[i], wire[at + 2 * i]) = values[name]
    <2> DEFINE i == CHOOSE i \in DOMAIN fields : fields[i].name = name
    <2>1. i \in DOMAIN fields /\ fields[i].name = name
      BY DEF Names
    <2> HIDE DEF i
    <2>2. Member(fields[i], wire[at + 2 * i]) = values[name]
      BY <1>1, <2>1
    <2> QED
      BY <2>2 DEF i
  <1>3. MapValues(fields, wire, at) = [name \in Names(fields) |-> values[name]]
    BY <1>2 DEF MapValues, Names
  <1> QED
    BY <1>3

-----------------------------------------------------------------------------
(* The round trip                                                           *)

\* A message that the C structures can hold.
Shaped(m) ==
    /\ m = [type |-> m.type, route |-> m.route, data |-> m.data]
    /\ m.type \in DOMAIN DataFields
    /\ DOMAIN m.route = Names(RouteFields) /\ m.route = [x \in DOMAIN m.route |-> m.route[x]]
    /\ DOMAIN m.data = Names(DataFields[m.type]) /\ m.data = [x \in DOMAIN m.data |-> m.data[x]]
    /\ \A i \in DOMAIN RouteFields : Holds(RouteFields[i], m.route[RouteFields[i].name])

\* The unsigned members of its data are not negative, and its key leaves room for
\* the terminating zero.
Readable(f, v) ==
    /\ f.kind = "text" => Len(v) < TS_MSG_CONFIG_KEY_MAX
    /\ f.kind = "u32" => v >= 0
Legible(m) ==
    /\ \A i \in DOMAIN DataFields[m.type] :
          LET f == DataFields[m.type][i] IN Readable(f, m.data[f.name])
    /\ m.route["msg_id"] >= 0

Wire(m) == Envelope(m.type, m.route, DataFields[m.type], m.data)

\* Whatever the decoder makes of an encoded message is that message.
LEMMA DecodedIs == ASSUME NEW m, Shaped(m) PROVE cbor_deserialize(Wire(m)) = m
  <1> DEFINE w == Wire(m)
             fields == DataFields[m.type]
  <1>1. /\ IsSeq(fields) /\ \A i \in DOMAIN fields : fields[i] \in DataField
    BY Tables DEF Shaped
  <1>2. /\ w[3] = Number(m.type)
        /\ MapAt(RouteFields, m.route, w, RouteAt) /\ MapAt(fields, m.data, w, DataAt)
    BY <1>1, EnvelopeItems, Tables DEF Wire
  <1>3. \A i \in DOMAIN fields : Holds(fields[i], m.data[fields[i].name])
    <2> HIDE DEF fields
    <2> QED
      BY <1>1 DEF DataField, NumberField, Field, Holds
  <1> HIDE DEF w, fields
  <1>4. MapValues(fields, w, DataAt) = m.data
    BY <1>2, <1>3, MapRoundTrip DEF Shaped, MapAt, fields
  <1>5. MapValues(RouteFields, w, RouteAt) = m.route
    BY <1>2, MapRoundTrip DEF Shaped, MapAt
  <1>6. w[3].number = m.type
    BY <1>2 DEF Number
  <1>7. cbor_deserialize(w) = [type |-> m.type, route |-> m.route, data |-> m.data]
    BY <1>4, <1>5, <1>6 DEF cbor_deserialize, fields
  <1> QED
    BY <1>7 DEF Shaped, w

\* An encoded map whose values are readable is read.
LEMMA MapIsRead ==
    ASSUME NEW fields, IsSeq(fields), NEW values, NEW w, NEW at \in Nat,
           MapAt(fields, values, w, at), at + 2 * Len(fields) + 1 <= Len(w),
           \A i \in DOMAIN fields :
              Decodes(fields[i], Item(fields[i], values[fields[i].name]))
    PROVE  MapDecodes(fields, w, at)
  BY DEF MapAt, MapDecodes

\* What cbor_serialize writes, cbor_deserialize accepts and turns back into the same
\* message: no type, no order of fields and no narrowing loses anything.
THEOREM RoundTrip ==
    ASSUME NEW m, Shaped(m), Legible(m)
    PROVE  WellFormed(Wire(m)) /\ cbor_deserialize(Wire(m)) = m
  <1> DEFINE w == Wire(m)
             fields == DataFields[m.type]
             L == Len(fields)
  <1>1. /\ IsSeq(fields) /\ \A i \in DOMAIN fields : fields[i] \in DataField
    BY Tables DEF Shaped
  <1>2. /\ Len(w) = 20 + 2 * L /\ L \in Nat
        /\ w[1] = MapStart /\ w[2] = Text("type") /\ w[3] = Number(m.type)
        /\ w[4] = Text("route") /\ MapAt(RouteFields, m.route, w, 5)
        /\ w[17] = Text("data") /\ MapAt(fields, m.data, w, 18)
        /\ w[20 + 2 * L] = MapEnd
    <2> HIDE DEF fields
    <2>1. w = Envelope(m.type, m.route, fields, m.data)
      BY DEF Wire, fields
    <2> HIDE DEF w
    <2> QED
      BY <1>1, <2>1, EnvelopeItems
  <1>3. ASSUME NEW i \in DOMAIN fields
        PROVE  Decodes(fields[i], Item(fields[i], m.data[fields[i].name]))
    <2> DEFINE f == fields[i]
               v == m.data[f.name]
    <2>1. f \in DataField /\ Readable(f, v)
      BY <1>1 DEF Legible
    <2> HIDE DEF f, v
    <2> QED
      BY <2>1 DEF DataField, NumberField, Field, Readable, Decodes, Item, Text, Number, f, v
  <1>4. ASSUME NEW i \in DOMAIN RouteFields
        PROVE  Decodes(RouteFields[i], Item(RouteFields[i], m.route[RouteFields[i].name]))
    <2> DEFINE f == RouteFields[i]
               v == m.route[f.name]
    <2>1. f.kind \in {"u8", "u16", "u32"} /\ (f.kind = "u32" => f.name = "msg_id")
      <3>1. i \in {1, 2, 3, 4, 5}
        BY Tables
      <3> QED
        BY <3>1 DEF RouteFields, Field
    <2>2. Holds(f, v) /\ (f.kind = "u32" => v >= 0)
      BY <2>1 DEF Shaped, Legible
    <2> HIDE DEF f, v
    <2> QED
      BY <2>1, <2>2 DEF Holds, Decodes, Item, Number, f, v
  <1> HIDE DEF w, fields
  <1>5. MapDecodes(RouteFields, w, 5)
    <2>1. IsSeq(RouteFields) /\ 5 + 2 * Len(RouteFields) + 1 <= Len(w)
      BY <1>2, Tables
    <2> QED
      BY <1>2, <1>4, <2>1, MapIsRead
  <1>6. MapDecodes(fields, w, 18)
    BY <1>1, <1>2, <1>3, MapIsRead
  <1>7. w[3].number = m.type /\ Decodes(Field("type", "u32"), w[3])
    <2>1. m.type \in 0 .. 3
      BY Tables DEF Shaped
    <2> QED
      BY <1>2, <2>1 DEF Decodes, Field, Number
  <1>8. Labels(w) = <<MapStart, Text("type"), Text("route"), Text("data")>>
    BY <1>2, Tables DEF Labels
  <1>9. /\ 18 + 2 * L + 2 <= Len(w) /\ w[18 + 2 * L + 2] = MapEnd /\ Len(w) > 18
    <2>1. 18 + 2 * L + 2 = 20 + 2 * L
      BY <1>2
    <2> QED
      BY <1>2, <2>1
  <1> HIDE DEF L
  <1>10. WellFormed(w)
    <2>1. w[3].number \in DOMAIN DataFields
      BY <1>7 DEF Shaped
    <2>2. DataFields[w[3].number] = fields
      BY <1>7 DEF fields
    <2> QED
      BY <1>5, <1>6, <1>7, <1>8, <1>9, <2>1, <2>2, Tables DEF WellFormed, L
  <1> QED
    BY <1>10, DecodedIs DEF w

-----------------------------------------------------------------------------
(* Sizes                                                                    *)

\* Induction, for sets instead of predicates: a set of numbers that misses one
\* misses a smallest one.
LEMMA SetInduction ==
    ASSUME NEW S, 0 \in S, \A n \in Nat : n \in S => n + 1 \in S
    PROVE  Nat \subseteq S
  <1> DEFINE T == Nat \ S
             R == OpToRel(<, Nat)
  <1> SUFFICES ASSUME T # {} PROVE FALSE
    OBVIOUS
  <1>1. IsWellFoundedOn(R, Nat)
    BY NatLessThanWellFounded
  <1>2. \A x, y \in Nat : <<x, y>> \in R <=> x < y
    BY DEF OpToRel
  <1> HIDE DEF R
  <1>3. PICK x \in T : \A y \in T : ~(<<y, x>> \in R)
    <2>1. T \subseteq Nat
      OBVIOUS
    <2> HIDE DEF T
    <2> QED
      BY <1>1, <2>1, WFMin
  <1>4. x \in Nat /\ x # 0 /\ x - 1 \in Nat
    BY <1>3
  <1>5. x - 1 \in S
    <2>1. <<x - 1, x>> \in R
      BY <1>2, <1>4
    <2>2. x - 1 \notin T
      BY <1>3, <2>1
    <2> QED
      BY <1>4, <2>2
  <1> QED
    BY <1>3, <1>4, <1>5

\* The recursive function upTo of ByteSize exists.
SumsTo(f, n, size) ==
    f = [i \in 0 .. n |-> IF i = 0 THEN 0 ELSE f[i - 1] + size[i]]

LEMMA SumsExist ==
    ASSUME NEW n \in Nat, NEW size
    PROVE  \E f : SumsTo(f, n, size)
  <1> DEFINE S == {k \in Nat : \E f : SumsTo(f, k, size)}
  <1>1. 0 \in S
    <2> DEFINE f == [i \in 0 .. 0 |-> 0]
    <2>1. SumsTo(f, 0, size)
      BY DEF SumsTo
    <2> QED
      BY <2>1
  <1>2. ASSUME NEW k \in Nat, k \in S PROVE k + 1 \in S
    <2>1. PICK f : SumsTo(f, k, size)
      BY <1>2
    <2> DEFINE g == [i \in 0 .. k + 1 |-> IF i <= k THEN f[i] ELSE f[k] + size[k + 1]]
    <2>2. SumsTo(g, k + 1, size)
      <3> SUFFICES ASSUME NEW i \in 0 .. k + 1
                   PROVE  g[i] = IF i = 0 THEN 0 ELSE g[i - 1] + size[i]
        BY DEF SumsTo
      <3>1. \A j \in 0 .. k : f[j] = IF j = 0 THEN 0 ELSE f[j - 1] + size[j]
        BY <2>1 DEF SumsTo
      <3>2. CASE i = 0
        BY <3>1, <3>2
      <3>3. CASE i \in 1 .. k
        BY <3>1, <3>3
      <3>4. CASE i = k + 1
        BY <3>4
      <3> QED
        BY <3>2, <3>3, <3>4
    <2> QED
      BY <2>2
  <1> HIDE DEF S
  <1>3. n \in S
    BY <1>1, <1>2, SetInduction
  <1> QED
    BY <1>3 DEF S

\* The sizes of a wire's beginnings, from none of it to all of it.
IsSize(f, w) ==
    /\ f \in [0 .. Len(w) -> Nat] /\ f[0] = 0
    /\ \A i \in 1 .. Len(w) : f[i] = f[i - 1] + ItemSize(w[i])
    /\ ByteSize(w) = f[Len(w)]

LEMMA SizeExists ==
    ASSUME NEW w, IsSeq(w), \A i \in 1 .. Len(w) : ItemSize(w[i]) \in Nat
    PROVE  \E f : IsSize(f, w)
  <1> DEFINE n == Len(w)
             size == [i \in 1 .. n |-> ItemSize(w[i])]
             Up(f) == f = [i \in 0 .. n |-> IF i = 0 THEN 0 ELSE f[i - 1] + ItemSize(w[i])]
             g == CHOOSE f : Up(f)
  <1>1. n \in Nat
    BY DEF IsSeq
  <1>2. \A f : SumsTo(f, n, size) <=> Up(f)
    <2> SUFFICES ASSUME NEW f PROVE SumsTo(f, n, size) <=> Up(f)
      OBVIOUS
    <2>1. \A i \in 0 .. n : (IF i = 0 THEN 0 ELSE f[i - 1] + size[i])
                          = (IF i = 0 THEN 0 ELSE f[i - 1] + ItemSize(w[i]))
      BY <1>1
    <2> QED
      BY <2>1 DEF SumsTo
  <1>3. PICK f : SumsTo(f, n, size)
    <2> HIDE DEF size
    <2> QED
      BY <1>1, SumsExist
  <1> HIDE DEF size
  <1>4. Up(g)
    BY <1>2, <1>3
  <1>5. ByteSize(w) = g[n]
    BY DEF ByteSize
  <1> HIDE DEF g, n
  <1>6. g[0] = 0 /\ \A i \in 1 .. n : g[i] = g[i - 1] + ItemSize(w[i])
    BY <1>1, <1>4
  <1>7. g \in [0 .. n -> Nat]
    <2> DEFINE S == {k \in Nat : k <= n => g[k] \in Nat}
    <2>1. 0 \in S
      BY <1>6
    <2>2. ASSUME NEW k \in Nat, k \in S PROVE k + 1 \in S
      <3> SUFFICES ASSUME k + 1 <= n PROVE g[k + 1] \in Nat
        OBVIOUS
      <3>1. k + 1 \in 1 .. n /\ k + 1 - 1 = k /\ g[k] \in Nat
        BY <1>1, <2>2
      <3>2. ItemSize(w[k + 1]) \in Nat
        BY <3>1 DEF n
      <3> QED
        BY <1>6, <3>1, <3>2
    <2> HIDE DEF S
    <2>3. \A k \in 0 .. n : k \in S
      BY <1>1, <2>1, <2>2, SetInduction
    <2>4. \A k \in 0 .. n : g[k] \in Nat
      BY <1>1, <2>3 DEF S
    <2>5. DOMAIN g = 0 .. n /\ g = [i \in 0 .. n |-> g[i]]
      BY <1>4
    <2> QED
      BY <2>4, <2>5
  <1> QED
    BY <1>5, <1>6, <1>7 DEF IsSize, n

\* A message has at most four fields of data; only a config message has a text,
\* its first field, and at most two others.
LEMMA DataTables ==
    ASSUME NEW t \in DOMAIN DataFields
    PROVE  LET F == DataFields[t] IN
           \/ Len(F) \in 0 .. 4 /\ \A i \in DOMAIN F : F[i] \in NumberField
           \/ /\ Len(F) \in 1 .. 3 /\ F[1] = Field("key", "text")
              /\ \A i \in 2 .. Len(F) : F[i] \in NumberField
  <1> USE DEF TS_MSG_TELEMETRY, TS_MSG_NODE_STATUS, TS_MSG_CONFIG_SET, TS_MSG_CONFIG_ACK,
              Field, NumberField
  <1>0. t \in 0 .. 3
    BY Tables
  <1>1. CASE t = 0
    <2>1. DataFields[t] = <<Field("timestamp", "u32"), Field("temperature", "i32"),
                           Field("humidity", "u32"), Field("pressure", "u32")>>
      BY <1>1 DEF DataFields
    <2> QED
      BY <2>1
  <1>2. CASE t = 1
    <2>1. DataFields[t] = <<Field("timestamp", "u32"), Field("uptime", "u32"),
                           Field("status", "u32")>>
      BY <1>2 DEF DataFields
    <2> QED
      BY <2>1
  <1>3. CASE t = 2
    <2>1. DataFields[t] = <<Field("key", "text"), Field("value", "i32")>>
      BY <1>3 DEF DataFields
    <2> QED
      BY <2>1
  <1>4. CASE t = 3
    <2>1. DataFields[t] = <<Field("key", "text"), Field("value", "i32"),
                           Field("result", "i32")>>
      BY <1>4 DEF DataFields
    <2> QED
      BY <2>1
  <1> QED
    BY <1>0, <1>1, <1>2, <1>3, <1>4

\* The bytes of an item.
LEMMA ItemBounds ==
    /\ ItemSize(MapStart) = 1 /\ ItemSize(MapEnd) = 1
    /\ \A v : ItemSize(Number(v)) \in 1 .. 5
    /\ \A s : Len(s) \in 0 .. 11 => ItemSize(Text(s)) \in 1 .. 12
    /\ \A s : Len(s) \in 0 .. 32 => ItemSize(Text(s)) \in 1 .. 34
  <1>1. \A v : HeadSize(v) \in 1 .. 5
    BY DEF HeadSize
  <1>2. \A v \in 0 .. 23 : HeadSize(v) = 1
    BY DEF HeadSize
  <1>3. \A v \in 0 .. 255 : HeadSize(v) \in 1 .. 2
    BY DEF HeadSize
  <1>4. ItemSize(MapStart) = 1 /\ ItemSize(MapEnd) = 1
    BY DEF ItemSize, MapStart, MapEnd
  <1>5. \A v : ItemSize(Number(v)) = HeadSize(v)
    BY DEF ItemSize, Number
  <1>6. \A s : ItemSize(Text(s)) = HeadSize(Len(s)) + Len(s)
    BY DEF ItemSize, Text
  <1>7. ASSUME NEW s, Len(s) \in 0 .. 11 PROVE ItemSize(Text(s)) \in 1 .. 12
    <2>1. \A n \in 0 .. 11 : HeadSize(n) + n \in 1 .. 12
      BY <1>2
    <2> QED
      BY <1>6, <1>7, <2>1
  <1>8. ASSUME NEW s, Len(s) \in 0 .. 32 PROVE ItemSize(Text(s)) \in 1 .. 34
    <2>1. \A n \in 0 .. 32 : HeadSize(n) + n \in 1 .. 34
      BY <1>3
    <2> QED
      BY <1>6, <1>8, <2>1
  <1> QED
    BY <1>1, <1>4, <1>5, <1>7, <1>8

\* k fields, each a label and a number, add at most 17 bytes each.
LEMMA PairsBound ==
    ASSUME NEW w, NEW f, IsSize(f, w), Len(w) \in Nat,
           NEW p \in Nat, NEW k \in Nat, p + 2 * k <= Len(w),
           \A j \in 1 .. k : /\ ItemSize(w[p + 2 * j - 1]) \in 1 .. 12
                             /\ ItemSize(w[p + 2 * j]) \in 1 .. 5
    PROVE  f[p + 2 * k] <= f[p] + 17 * k
  <1> DEFINE S == {j \in Nat : j <= k => f[p + 2 * j] <= f[p] + 17 * j}
  <1>1. 0 \in S
    <2>1. p \in 0 .. Len(w) /\ p + 2 * 0 = p
      OBVIOUS
    <2>2. f[p] \in Nat
      BY <2>1 DEF IsSize
    <2> QED
      BY <2>1, <2>2
  <1>2. ASSUME NEW j \in Nat, j \in S PROVE j + 1 \in S
    <2> SUFFICES ASSUME j + 1 <= k PROVE f[p + 2 * (j + 1)] <= f[p] + 17 * (j + 1)
      OBVIOUS
    <2> DEFINE q == p + 2 * j
    <2>1. /\ q \in 0 .. Len(w) /\ q + 1 \in 1 .. Len(w) /\ q + 2 \in 1 .. Len(w)
          /\ p + 2 * (j + 1) - 1 = q + 1 /\ p + 2 * (j + 1) = q + 2 /\ j + 1 \in 1 .. k
          /\ q + 1 - 1 = q /\ q + 2 - 1 = q + 1 /\ p \in 0 .. Len(w)
      OBVIOUS
    <2>2. ItemSize(w[q + 1]) \in 1 .. 12 /\ ItemSize(w[q + 2]) \in 1 .. 5
      BY <2>1
    <2>3. f[q] <= f[p] + 17 * j
      BY <1>2, <2>1
    <2> HIDE DEF q
    <2>4. f[q] \in Nat /\ f[p] \in Nat
      BY <2>1 DEF IsSize
    <2>5. f[q + 1] = f[q] + ItemSize(w[q + 1])
      <3>1. f[q + 1] = f[q + 1 - 1] + ItemSize(w[q + 1])
        BY <2>1 DEF IsSize
      <3> QED
        BY <2>1, <3>1
    <2>6. f[q + 2] = f[q + 1] + ItemSize(w[q + 2])
      <3>1. f[q + 2] = f[q + 2 - 1] + ItemSize(w[q + 2])
        BY <2>1 DEF IsSize
      <3> QED
        BY <2>1, <3>1
    <2>7. ASSUME NEW a \in Nat, NEW b \in Nat, NEW x \in 1 .. 12, NEW y \in 1 .. 5,
                 b <= a + 17 * j
          PROVE  b + x + y <= a + 17 * (j + 1)
      BY <2>7
    <2> QED
      BY <2>1, <2>2, <2>3, <2>4, <2>5, <2>6, <2>7
  <1> HIDE DEF S
  <1>3. k \in S
    BY <1>1, <1>2, SetInduction
  <1> QED
    BY <1>3 DEF S

\* Labels are short.
LEMMA LabelBounds ==
    /\ \A name \in {"type", "route", "data"} : ItemSize(Text(name)) \in 1 .. 12
    /\ \A i \in DOMAIN RouteFields : ItemSize(Text(RouteFields[i].name)) \in 1 .. 12
    /\ \A t \in DOMAIN DataFields : \A i \in DOMAIN DataFields[t] :
          ItemSize(Text(DataFields[t][i].name)) \in 1 .. 12
  <1> DEFINE All == {"type", "route", "data"} \union Names(RouteFields)
                       \union UNION {Names(DataFields[t]) : t \in DOMAIN DataFields}
  <1>1. \A name \in All : ItemSize(Text(name)) \in 1 .. 12
    BY LabelAssumption, ItemBounds
  <1>2. \A i \in DOMAIN RouteFields : RouteFields[i].name \in All
    BY DEF Names
  <1>3. \A t \in DOMAIN DataFields : \A i \in DOMAIN DataFields[t] :
            DataFields[t][i].name \in All
    BY DEF Names
  <1> QED
    BY <1>1, <1>2, <1>3

\* The values of a message are short, too: the key's characters fit its member.
KeyFits(data) == "key" \in DOMAIN data => Len(data["key"]) \in 0 .. TS_MSG_CONFIG_KEY_MAX

\* The beginning of every wire, up to the start of its data.
LEMMA FrontSize ==
    ASSUME NEW m, Shaped(m), NEW f, IsSize(f, Wire(m))
    PROVE  f[18] \in 0 .. 130
  <1> DEFINE w == Wire(m)
             fields == DataFields[m.type]
  <1>1. IsSeq(fields)
    BY Tables DEF Shaped
  <1>2. /\ Len(w) = 20 + 2 * Len(fields) /\ Len(fields) \in Nat
        /\ w[1] = MapStart /\ w[2] = Text("type") /\ w[3] = Number(m.type)
        /\ w[4] = Text("route") /\ MapAt(RouteFields, m.route, w, 5)
        /\ w[17] = Text("data") /\ MapAt(fields, m.data, w, 18)
    <2> HIDE DEF fields
    <2>1. w = Envelope(m.type, m.route, fields, m.data)
      BY DEF Wire, fields
    <2> HIDE DEF w
    <2> QED
      BY <1>1, <2>1, EnvelopeItems
  <1> HIDE DEF w, fields
  <1>3. w[5] = MapStart /\ w[16] = MapEnd /\ w[18] = MapStart
    BY <1>2, Tables DEF MapAt
  <1>4. ASSUME NEW j \in 1 .. 5
        PROVE  ItemSize(w[5 + 2 * j - 1]) \in 1 .. 12 /\ ItemSize(w[5 + 2 * j]) \in 1 .. 5
    <2>1. j \in DOMAIN RouteFields /\ RouteFields[j].kind # "text"
      <3>1. j \in {1, 2, 3, 4, 5}
        OBVIOUS
      <3> QED
        BY <3>1, Tables DEF RouteFields, Field
    <2>2. /\ w[5 + 2 * j - 1] = Text(RouteFields[j].name)
          /\ w[5 + 2 * j] = Number(m.route[RouteFields[j].name])
      BY <1>2, <2>1 DEF MapAt, Item
    <2> QED
      BY <2>1, <2>2, LabelBounds, ItemBounds
  <1>5. f[5 + 2 * 5] <= f[5] + 17 * 5
    <2>1. IsSize(f, w) /\ Len(w) \in Nat /\ 5 + 2 * 5 <= Len(w)
      BY <1>2 DEF w
    <2> QED
      BY <1>4, <2>1, PairsBound
  <1>6. \A i \in 1 .. 18 : f[i] = f[i - 1] + ItemSize(w[i]) /\ f[i] \in Nat
    <2>1. Len(w) \in Nat /\ 18 <= Len(w)
      BY <1>2
    <2> QED
      BY <2>1 DEF IsSize, w
  <1>7. f[5] <= 31
    <2>1. f[0] = 0
      BY DEF IsSize
    <2>2. /\ f[1] = f[0] + ItemSize(w[1]) /\ f[2] = f[1] + ItemSize(w[2])
          /\ f[3] = f[2] + ItemSize(w[3]) /\ f[4] = f[3] + ItemSize(w[4])
          /\ f[5] = f[4] + ItemSize(w[5])
      BY <1>6
    <2>3. /\ ItemSize(w[1]) = 1 /\ ItemSize(w[2]) \in 1 .. 12 /\ ItemSize(w[3]) \in 1 .. 5
          /\ ItemSize(w[4]) \in 1 .. 12 /\ ItemSize(w[5]) = 1
      BY <1>2, <1>3, LabelBounds, ItemBounds
    <2> QED
      BY <2>1, <2>2, <2>3
  <1>8. /\ f[16] = f[15] + ItemSize(w[16]) /\ f[17] = f[16] + ItemSize(w[17])
        /\ f[18] = f[17] + ItemSize(w[18])
    BY <1>6
  <1>9. ItemSize(w[16]) = 1 /\ ItemSize(w[17]) \in 1 .. 12 /\ ItemSize(w[18]) = 1
    BY <1>2, <1>3, LabelBounds, ItemBounds
  <1>10. f[5] \in Nat /\ f[15] \in Nat /\ f[18] \in Nat
    BY <1>6
  <1> QED
    BY <1>5, <1>7, <1>8, <1>9, <1>10

\* What a field of data adds: a label, and a number or the key.
LEMMA DataSizes ==
    ASSUME NEW m, Shaped(m), KeyFits(m.data), NEW i \in DOMAIN DataFields[m.type]
    PROVE  LET w == Wire(m) IN
           /\ ItemSize(w[18 + 2 * i - 1]) \in 1 .. 12
           /\ ItemSize(w[18 + 2 * i]) \in 1 .. 34
           /\ DataFields[m.type][i] \in NumberField => ItemSize(w[18 + 2 * i]) \in 1 .. 5
  <1> DEFINE w == Wire(m)
             fields == DataFields[m.type]
             F == fields[i]
             v == m.data[F.name]
  <1>1. IsSeq(fields) /\ F \in DataField /\ m.type \in DOMAIN DataFields
    BY Tables DEF Shaped
  <1>2. w[18 + 2 * i - 1] = Text(F.name) /\ w[18 + 2 * i] = Item(F, v)
    <2> HIDE DEF fields
    <2>1. w = Envelope(m.type, m.route, fields, m.data)
      BY DEF Wire, fields
    <2> HIDE DEF w
    <2>2. MapAt(fields, m.data, w, 18)
      BY <1>1, <2>1, EnvelopeItems
    <2> QED
      BY <2>2 DEF MapAt, fields
  <1>3. ItemSize(Text(F.name)) \in 1 .. 12
    BY <1>1, LabelBounds
  <1>4. CASE F \in NumberField
    <2>1. Item(F, v) = Number(v)
      BY <1>4 DEF Item, NumberField
    <2>2. ItemSize(Item(F, v)) \in 1 .. 5
      BY <2>1, ItemBounds
    <2>3. 1 .. 5 \subseteq 1 .. 34
      OBVIOUS
    <2> QED
      BY <1>2, <1>3, <2>2, <2>3, Zenon
  <1>5. CASE F \notin NumberField
    <2>1. F.name = "key" /\ F.kind = "text"
      BY <1>1, <1>5 DEF DataField, Field
    <2>2. Item(F, v) = Text(m.data["key"])
      BY <2>1 DEF Item
    <2>3. "key" \in DOMAIN m.data
      BY <2>1 DEF Shaped, Names
    <2>4. Len(m.data["key"]) \in 0 .. 32
      BY <2>3 DEF KeyFits, TS_MSG_CONFIG_KEY_MAX
    <2>5. ItemSize(Item(F, v)) \in 1 .. 34
      BY <2>2, <2>4, ItemBounds
    <2> QED
      BY <1>2, <1>3, <1>5, <2>5, Zenon
  <1> QED
    BY <1>4, <1>5

\* The items of a wire have sizes.
LEMMA WireHasSize ==
    ASSUME NEW m, Shaped(m), KeyFits(m.data)
    PROVE  \E f : IsSize(f, Wire(m))
  <1> DEFINE w == Wire(m)
             fields == DataFields[m.type]
             L == Len(fields)
  <1>1. IsSeq(fields)
    BY Tables DEF Shaped
  <1>2. /\ IsSeq(w) /\ Len(w) = 20 + 2 * L /\ L \in Nat
        /\ w[1] = MapStart /\ w[2] = Text("type") /\ w[3] = Number(m.type)
        /\ w[4] = Text("route") /\ MapAt(RouteFields, m.route, w, 5)
        /\ w[17] = Text("data") /\ MapAt(fields, m.data, w, 18)
        /\ w[20 + 2 * L] = MapEnd
    <2> HIDE DEF fields
    <2>1. w = Envelope(m.type, m.route, fields, m.data)
      BY DEF Wire, fields
    <2> HIDE DEF w
    <2> QED
      BY <1>1, <2>1, EnvelopeItems
  <1>3. \A i \in 1 .. L : /\ ItemSize(w[18 + 2 * i - 1]) \in Nat
                          /\ ItemSize(w[18 + 2 * i]) \in Nat
    <2>1. DOMAIN fields = 1 .. L
      BY <1>1 DEF IsSeq
    <2>2. \A i \in DOMAIN fields : /\ ItemSize(w[18 + 2 * i - 1]) \in 1 .. 12
                                   /\ ItemSize(w[18 + 2 * i]) \in 1 .. 34
      BY DataSizes
    <2>3. \A x \in 1 .. 34 : x \in Nat
      OBVIOUS
    <2>4. \A x \in 1 .. 12 : x \in Nat
      OBVIOUS
    <2> HIDE DEF w, fields, L
    <2> SUFFICES ASSUME NEW i \in 1 .. L
                 PROVE  /\ ItemSize(w[18 + 2 * i - 1]) \in Nat
                        /\ ItemSize(w[18 + 2 * i]) \in Nat
      OBVIOUS
    <2>5. /\ ItemSize(w[18 + 2 * i - 1]) \in 1 .. 12
          /\ ItemSize(w[18 + 2 * i]) \in 1 .. 34
      BY <2>1, <2>2, Zenon
    <2> QED
      BY <2>3, <2>4, <2>5, Zenon
  <1> HIDE DEF w, fields
  <1>4. w[5] = MapStart /\ w[16] = MapEnd /\ w[18] = MapStart /\ w[18 + 2 * L + 1] = MapEnd
    BY <1>2, Tables DEF MapAt, L
  <1> HIDE DEF L
  <1>5. \A j \in 1 .. 5 : /\ ItemSize(w[5 + 2 * j - 1]) \in Nat
                          /\ ItemSize(w[5 + 2 * j]) \in Nat
    <2> SUFFICES ASSUME NEW j \in 1 .. 5
                 PROVE  ItemSize(w[5 + 2 * j - 1]) \in Nat /\ ItemSize(w[5 + 2 * j]) \in Nat
      OBVIOUS
    <2>1. j \in DOMAIN RouteFields /\ RouteFields[j].kind # "text"
      <3>1. j \in {1, 2, 3, 4, 5}
        OBVIOUS
      <3> QED
        BY <3>1, Tables DEF RouteFields, Field
    <2>2. /\ w[5 + 2 * j - 1] = Text(RouteFields[j].name)
          /\ w[5 + 2 * j] = Number(m.route[RouteFields[j].name])
      BY <1>2, <2>1 DEF MapAt, Item
    <2>3. ItemSize(w[5 + 2 * j - 1]) \in 1 .. 12 /\ ItemSize(w[5 + 2 * j]) \in 1 .. 5
      BY <2>1, <2>2, LabelBounds, ItemBounds
    <2> QED
      BY <2>3
  <1>6. ASSUME NEW i \in 1 .. Len(w) PROVE ItemSize(w[i]) \in Nat
    <2>1. CASE i \in {1, 2, 3, 4, 5, 16, 17, 18, 18 + 2 * L + 1, 20 + 2 * L}
      <3>1. /\ ItemSize(w[1]) = 1 /\ ItemSize(w[2]) \in 1 .. 12 /\ ItemSize(w[3]) \in 1 .. 5
            /\ ItemSize(w[4]) \in 1 .. 12 /\ ItemSize(w[5]) = 1 /\ ItemSize(w[16]) = 1
            /\ ItemSize(w[17]) \in 1 .. 12 /\ ItemSize(w[18]) = 1
            /\ ItemSize(w[18 + 2 * L + 1]) = 1 /\ ItemSize(w[20 + 2 * L]) = 1
        BY <1>2, <1>4, LabelBounds, ItemBounds
      <3>2. \A x : x = 1 \/ x \in 1 .. 12 \/ x \in 1 .. 5 => x \in Nat
        OBVIOUS
      <3> QED
        BY <2>1, <3>1, <3>2, Zenon
    <2>2. CASE i \in 6 .. 15
      <3>1. \E j \in 1 .. 5 : i = 5 + 2 * j - 1 \/ i = 5 + 2 * j
        BY <2>2
      <3> QED
        BY <1>5, <3>1
    <2>3. CASE i \in 19 .. 18 + 2 * L
      <3> DEFINE j == (i - 17) \div 2
      <3>1. j \in 1 .. L /\ (i = 18 + 2 * j - 1 \/ i = 18 + 2 * j)
        BY <1>2, <2>3
      <3> HIDE DEF j
      <3> QED
        BY <1>3, <3>1
    <2> QED
      BY <1>2, <2>1, <2>2, <2>3
  <1>7. \E f : IsSize(f, w)
    BY <1>2, <1>6, SizeExists
  <1> QED
    BY <1>7 DEF w

\* A wire ends with the ends of two maps, a byte each.
LEMMA EndSize ==
    ASSUME NEW w, NEW f, IsSize(f, w), NEW L \in Nat, Len(w) = 20 + 2 * L,
           ItemSize(w[18 + 2 * L + 1]) = 1, ItemSize(w[20 + 2 * L]) = 1
    PROVE  ByteSize(w) = f[18 + 2 * L] + 2
  <1>1. /\ 19 + 2 * L \in 1 .. Len(w) /\ 20 + 2 * L \in 1 .. Len(w)
        /\ 18 + 2 * L \in 0 .. Len(w)
        /\ 18 + 2 * L + 1 = 19 + 2 * L
        /\ 19 + 2 * L - 1 = 18 + 2 * L /\ 20 + 2 * L - 1 = 19 + 2 * L
    OBVIOUS
  <1>2. f[19 + 2 * L] = f[18 + 2 * L] + 1
    BY <1>1 DEF IsSize
  <1>3. f[20 + 2 * L] = f[19 + 2 * L] + 1
    BY <1>1 DEF IsSize
  <1>4. ByteSize(w) = f[20 + 2 * L] /\ f[18 + 2 * L] \in Nat
    BY <1>1 DEF IsSize
  <1> QED
    BY <1>2, <1>3, <1>4

\* The end of a wire without a key: at most four numbers, and two ends of maps.
LEMMA BackSize ==
    ASSUME NEW w, NEW f, IsSize(f, w), NEW L \in Nat, Len(w) = 20 + 2 * L,
           f[18] \in 0 .. 130, L \in 0 .. 4,
           ItemSize(w[18 + 2 * L + 1]) = 1, ItemSize(w[20 + 2 * L]) = 1,
           \A i \in 1 .. L : ItemSize(w[18 + 2 * i - 1]) \in 1 .. 12,
           \A i \in 1 .. L : ItemSize(w[18 + 2 * i]) \in 1 .. 5
    PROVE  f[18 + 2 * L] \in 0 .. 210 /\ ByteSize(w) = f[18 + 2 * L] + 2
  <1>1. Len(w) \in Nat /\ 18 + 2 * L <= Len(w) /\ 18 \in Nat
    OBVIOUS
  <1>2. f[18 + 2 * L] <= f[18] + 17 * L
    BY <1>1, PairsBound
  <1>3. f[18 + 2 * L] \in Nat
    <2>1. 18 + 2 * L \in 0 .. Len(w)
      OBVIOUS
    <2> QED
      BY <2>1 DEF IsSize
  <1> DEFINE x == f[18 + 2 * L]
             y == f[18]
  <1>4. x \in Nat /\ y \in 0 .. 130 /\ x <= y + 17 * L
    BY <1>2, <1>3
  <1> HIDE DEF x, y
  <1>5. x \in 0 .. 210
    BY <1>4
  <1> USE DEF x
  <1> QED
    BY <1>5, EndSize, Zenon

\* The end of a wire whose first field of data is a key.
LEMMA KeyBackSize ==
    ASSUME NEW w, NEW f, IsSize(f, w), NEW L \in Nat, Len(w) = 20 + 2 * L,
           f[18] \in 0 .. 130, L \in 1 .. 3,
           ItemSize(w[18 + 2 * L + 1]) = 1, ItemSize(w[20 + 2 * L]) = 1,
           \A i \in 1 .. L : ItemSize(w[18 + 2 * i - 1]) \in 1 .. 12,
           \A i \in 2 .. L : ItemSize(w[18 + 2 * i]) \in 1 .. 5,
           ItemSize(w[18 + 2 * 1]) \in 1 .. 34
    PROVE  f[18 + 2 * L] \in 0 .. 210 /\ ByteSize(w) = f[18 + 2 * L] + 2
  <1>1. ItemSize(w[19]) \in 1 .. 12 /\ ItemSize(w[20]) \in 1 .. 34
    <2>1. 1 \in 1 .. L /\ 18 + 2 * 1 = 20 /\ 18 + 2 * 1 - 1 = 19
      OBVIOUS
    <2> QED
      BY <2>1
  <1>2. f[19] = f[18] + ItemSize(w[19]) /\ f[20] = f[19] + ItemSize(w[20])
    <2>1. 19 \in 1 .. Len(w) /\ 20 \in 1 .. Len(w)
      OBVIOUS
    <2> QED
      BY <2>1 DEF IsSize
  <1>3. f[20] \in 0 .. 176
    <2>1. ASSUME NEW a \in 0 .. 130, NEW b \in 1 .. 12, NEW c \in 1 .. 34
          PROVE  a + b + c \in 0 .. 176
      OBVIOUS
    <2>2. f[18] + ItemSize(w[19]) + ItemSize(w[20]) \in 0 .. 176
      BY <1>1, <2>1, Zenon
    <2> QED
      BY <1>2, <2>2
  <1>4. \A j \in 1 .. L - 1 : /\ ItemSize(w[20 + 2 * j - 1]) \in 1 .. 12
                              /\ ItemSize(w[20 + 2 * j]) \in 1 .. 5
    <2> SUFFICES ASSUME NEW j \in 1 .. L - 1
                 PROVE  /\ ItemSize(w[20 + 2 * j - 1]) \in 1 .. 12
                        /\ ItemSize(w[20 + 2 * j]) \in 1 .. 5
      OBVIOUS
    <2>1. /\ j + 1 \in 2 .. L /\ j + 1 \in 1 .. L
          /\ 20 + 2 * j - 1 = 18 + 2 * (j + 1) - 1 /\ 20 + 2 * j = 18 + 2 * (j + 1)
      OBVIOUS
    <2>2. ItemSize(w[18 + 2 * (j + 1) - 1]) \in 1 .. 12
      BY <2>1, Zenon
    <2>3. ItemSize(w[18 + 2 * (j + 1)]) \in 1 .. 5
      BY <2>1, Zenon
    <2> QED
      BY <2>1, <2>2, <2>3, Zenon
  <1>5. f[20 + 2 * (L - 1)] <= f[20] + 17 * (L - 1)
    <2>1. L - 1 \in Nat /\ 20 + 2 * (L - 1) <= Len(w) /\ Len(w) \in Nat /\ 20 \in Nat
      OBVIOUS
    <2> QED
      BY <1>4, <2>1, PairsBound
  <1>6. 20 + 2 * (L - 1) = 18 + 2 * L
    OBVIOUS
  <1>7. f[18 + 2 * L] \in Nat
    <2>1. 18 + 2 * L \in 0 .. Len(w)
      OBVIOUS
    <2> QED
      BY <2>1 DEF IsSize
  <1>8. f[18 + 2 * L] \in 0 .. 210
    <2> DEFINE x == f[18 + 2 * L]
               y == f[20]
    <2>1. x \in Nat /\ y \in 0 .. 176 /\ x <= y + 17 * (L - 1)
      BY <1>3, <1>5, <1>6, <1>7
    <2> HIDE DEF x, y
    <2>2. x \in 0 .. 210
      BY <2>1
    <2> QED
      BY <2>2 DEF x
  <1> QED
    BY <1>8, EndSize, Zenon

\* Whatever a message's values, it is encoded in at most 212 bytes.
THEOREM WireIsShort ==
    ASSUME NEW m, Shaped(m), KeyFits(m.data)
    PROVE  ByteSize(Wire(m)) \in 0 .. 212 /\ Wire(m) # NoWire
  <1> DEFINE w == Wire(m)
             fields == DataFields[m.type]
             L == Len(fields)
  <1>1. IsSeq(fields)
    BY Tables DEF Shaped
  <1>2. /\ Len(w) = 20 + 2 * L /\ L \in Nat /\ w[18 + 2 * L + 1] = MapEnd
        /\ w[20 + 2 * L] = MapEnd
    <2> HIDE DEF fields
    <2>1. w = Envelope(m.type, m.route, fields, m.data)
      BY DEF Wire, fields
    <2> HIDE DEF w
    <2>2. /\ Len(w) = 20 + 2 * L /\ L \in Nat /\ MapAt(fields, m.data, w, 18)
          /\ w[20 + 2 * L] = MapEnd
      BY <1>1, <2>1, EnvelopeItems
    <2> QED
      BY <2>2 DEF MapAt
  <1>3. w # NoWire
    BY <1>2 DEF NoWire
  <1>4. \A i \in DOMAIN fields :
           /\ ItemSize(w[18 + 2 * i - 1]) \in 1 .. 12
           /\ ItemSize(w[18 + 2 * i]) \in 1 .. 34
           /\ fields[i] \in NumberField => ItemSize(w[18 + 2 * i]) \in 1 .. 5
    BY DataSizes
  <1>5. PICK f : IsSize(f, w)
    BY WireHasSize
  <1>6. f[18] \in 0 .. 130
    BY <1>5, FrontSize
  <1>7. DOMAIN fields = 1 .. L
    BY <1>1 DEF IsSeq
  <1>8. \/ L \in 0 .. 4 /\ \A i \in DOMAIN fields : fields[i] \in NumberField
        \/ L \in 1 .. 3 /\ \A i \in 2 .. L : fields[i] \in NumberField
    BY DataTables DEF Shaped
  <1> HIDE DEF w, fields, L
  <1>9. f[18 + 2 * L] \in 0 .. 210 /\ ByteSize(w) = f[18 + 2 * L] + 2
    <2>1. ItemSize(w[18 + 2 * L + 1]) = 1 /\ ItemSize(w[20 + 2 * L]) = 1
      BY <1>2, ItemBounds
    <2>2. \A i \in 1 .. L : ItemSize(w[18 + 2 * i - 1]) \in 1 .. 12
      BY <1>4, <1>7, Zenon
    <2>3. CASE L \in 0 .. 4 /\ \A i \in DOMAIN fields : fields[i] \in NumberField
      <3>1. \A i \in 1 .. L : ItemSize(w[18 + 2 * i]) \in 1 .. 5
        BY <1>4, <1>7, <2>3, Zenon
      <3>2. L \in 0 .. 4
        BY <2>3, Zenon
      <3> QED
        BY <1>2, <1>5, <1>6, <2>1, <2>2, <3>1, <3>2, BackSize, Zenon
    <2>4. CASE L \in 1 .. 3 /\ \A i \in 2 .. L : fields[i] \in NumberField
      <3>1. \A i \in 2 .. L : i \in 1 .. L
        BY <1>2
      <3>2. \A i \in 2 .. L : ItemSize(w[18 + 2 * i]) \in 1 .. 5
        BY <1>4, <1>7, <2>4, <3>1, Zenon
      <3>3. 1 \in 1 .. L /\ 18 + 2 * 1 = 20 /\ L \in 1 .. 3
        BY <1>2, <2>4
      <3>4. ItemSize(w[18 + 2 * 1]) \in 1 .. 34
        BY <1>4, <1>7, <3>3, Zenon
      <3> QED
        BY <1>2, <1>5, <1>6, <2>1, <2>2, <3>2, <3>3, <3>4, KeyBackSize, Zenon
    <2> QED
      BY <1>8, <2>3, <2>4, Zenon
  <1>10. \A x, y : x \in 0 .. 210 /\ y = x + 2 => y \in 0 .. 212
    OBVIOUS
  <1> QED
    BY <1>3, <1>9, <1>10 DEF w
=============================================================================
