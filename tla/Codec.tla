-------------------------------- MODULE Codec --------------------------------
(***************************************************************************)
(* cbor.c: a message and its wire format.  A wire is the sequence of the   *)
(* CBOR items that the encoder writes: text, integers, and the start and   *)
(* the end of a map.  Both directions are driven by the same tables of     *)
(* fields, in the order in which cbor.c puts and expects them.             *)
(* zcbor is external: it is modelled as cbor.c uses it, without            *)
(* ZCBOR_CANONICAL, so that a map starts and ends with one byte each.      *)
(***************************************************************************)
EXTENDS Integers, Sequences

\* ts_msg_type_t
TS_MSG_TELEMETRY == 0
TS_MSG_NODE_STATUS == 1
TS_MSG_CONFIG_SET == 2
TS_MSG_CONFIG_ACK == 3

TS_MSG_CONFIG_KEY_MAX == 32

\* A message has a type, a route and data; the last two are functions from
\* the names of their fields.  The kind of a field is that of its C member.
Field(name, kind) == [name |-> name, kind |-> kind]

RouteFields ==
    <<Field("src", "u16"), Field("dst", "u16"), Field("msg_id", "u32"),
      Field("ttl", "u8"), Field("key_id", "u8")>>

DataFields ==
    [t \in TS_MSG_TELEMETRY .. TS_MSG_CONFIG_ACK |->
        CASE t = TS_MSG_TELEMETRY ->
                <<Field("timestamp", "u32"), Field("temperature", "i32"),
                  Field("humidity", "u32"), Field("pressure", "u32")>>
          [] t = TS_MSG_NODE_STATUS ->
                <<Field("timestamp", "u32"), Field("uptime", "u32"),
                  Field("status", "u32")>>
          [] t = TS_MSG_CONFIG_SET ->
                <<Field("key", "text"), Field("value", "i32")>>
          [] t = TS_MSG_CONFIG_ACK ->
                <<Field("key", "text"), Field("value", "i32"),
                  Field("result", "i32")>>]

Names(fields) == {fields[i].name : i \in DOMAIN fields}

\* No label is longer than "temperature".  (TLC evaluates this; to the provers a
\* string is a value without characters.)
ASSUME LabelAssumption ==
    \A name \in {"type", "route", "data"} \union Names(RouteFields)
                   \union UNION {Names(DataFields[t]) : t \in DOMAIN DataFields} :
        Len(name) \in 0 .. 11

Text(s) == [text |-> s]
Number(v) == [number |-> v]
MapStart == [map |-> "start"]
MapEnd == [map |-> "end"]

-----------------------------------------------------------------------------
(* Encoding                                                                 *)

\* zcbor_tstr_put_lit or zcbor_tstr_put_term, zcbor_uint32_put, zcbor_int32_put
Item(f, v) == IF f.kind = "text" THEN Text(v) ELSE Number(v)

EncodeMap(fields, values) ==
    LET pair(i) == LET f == fields[(i + 1) \div 2] IN
                   IF i % 2 = 1 THEN Text(f.name) ELSE Item(f, values[f.name])
    IN  <<MapStart>> \o [i \in 1 .. 2 * Len(fields) |-> pair(i)] \o <<MapEnd>>

Envelope(type, route, fields, data) ==
    <<MapStart, Text("type"), Number(type), Text("route")>>
        \o EncodeMap(RouteFields, route)
        \o <<Text("data")>> \o EncodeMap(fields, data) \o <<MapEnd>>

\* The bytes of a CBOR head with argument v; negative v is encoded as -1 - v.
HeadSize(v) ==
    LET arg == IF v < 0 THEN -1 - v ELSE v IN
    CASE arg < 24 -> 1 [] 24 <= arg /\ arg < 256 -> 2
      [] 256 <= arg /\ arg < 65536 -> 3 [] OTHER -> 5

ItemSize(item) ==
    CASE DOMAIN item = {"map"} -> 1
      [] DOMAIN item = {"number"} -> HeadSize(item.number)
      [] DOMAIN item = {"text"} -> HeadSize(Len(item.text)) + Len(item.text)

\* The size of a wire in bytes.
ByteSize(wire) ==
    LET upTo[i \in 0 .. Len(wire)] ==
            IF i = 0 THEN 0 ELSE upTo[i - 1] + ItemSize(wire[i])
    IN  upTo[Len(wire)]

NoWire == <<>>

\* The wire, or none when the type is unknown or the buffer is too small.
cbor_serialize(msg, bufLen) ==
    LET wire == Envelope(msg.type, msg.route, DataFields[msg.type], msg.data) IN
    IF msg.type \in DOMAIN DataFields /\ ByteSize(wire) <= bufLen
    THEN wire ELSE NoWire

-----------------------------------------------------------------------------
(* Decoding: every item must be the expected one, in its place.             *)

\* zcbor_uint32_decode refuses a negative number, and a key must leave room
\* for its terminating zero.
Decodes(f, item) ==
    IF f.kind = "text"
    THEN DOMAIN item = {"text"} /\ Len(item.text) < TS_MSG_CONFIG_KEY_MAX
    ELSE DOMAIN item = {"number"} /\ (f.kind # "i32" => item.number >= 0)

\* The value that the C member holds: src, dst, ttl and key_id are narrowed.
Member(f, item) ==
    CASE f.kind = "text" -> item.text
      [] f.kind = "u8" -> item.number % 256
      [] f.kind = "u16" -> item.number % 65536
      [] OTHER -> item.number

\* Is there a map of these fields at that position, and what does it hold?
MapDecodes(fields, wire, at) ==
    LET end == at + 2 * Len(fields) + 1 IN
    /\ end <= Len(wire) /\ wire[at] = MapStart /\ wire[end] = MapEnd
    /\ \A i \in DOMAIN fields :
          /\ wire[at + 2 * i - 1] = Text(fields[i].name)
          /\ Decodes(fields[i], wire[at + 2 * i])

MapValues(fields, wire, at) ==
    [name \in Names(fields) |->
        LET i == CHOOSE i \in DOMAIN fields : fields[i].name = name
        IN  Member(fields[i], wire[at + 2 * i])]

\* The route's map is the fifth item, the data's follows "data".
RouteAt == 5
DataAt == RouteAt + 2 * Len(RouteFields) + 3

Labels(wire) == <<wire[1], wire[2], wire[4], wire[DataAt - 1]>>

\* cbor_deserialize returns 0.
WellFormed(wire) ==
    /\ Len(wire) > DataAt
    /\ Labels(wire) = <<MapStart, Text("type"), Text("route"), Text("data")>>
    /\ Decodes(Field("type", "u32"), wire[3])
    /\ MapDecodes(RouteFields, wire, RouteAt)
    /\ wire[3].number \in DOMAIN DataFields
    /\ LET fields == DataFields[wire[3].number]
           end == DataAt + 2 * Len(fields) + 2
       IN  MapDecodes(fields, wire, DataAt) /\ end <= Len(wire) /\ wire[end] = MapEnd

cbor_deserialize(wire) ==
    [type |-> wire[3].number,
     route |-> MapValues(RouteFields, wire, RouteAt),
     data |-> MapValues(DataFields[wire[3].number], wire, DataAt)]
=============================================================================
