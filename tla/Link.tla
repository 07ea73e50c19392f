-------------------------------- MODULE Link --------------------------------
(***************************************************************************)
(* What a message goes through between its producer on one node and the    *)
(* handler of another: encoding, the key id and the authentication tag,    *)
(* the radio's driver and its queue, verification, decoding and the gates  *)
(* of lora_in_task, and the relays in between; with nodes that boot,       *)
(* restart and are flashed with another network key.                       *)
(*                                                                         *)
(* Duplicate detection and the contention pool are the subject of other    *)
(* modules.  Here any packet that passed the gates may be a duplicate, and *)
(* any forward may get lost, so that nothing below rests on them.          *)
(* The tag is an ideal MAC: the pair of the key and the wire.  The air is  *)
(* external: a transmission reaches the radios in range or is lost.        *)
(***************************************************************************)
EXTENDS Codec, FiniteSets

CONSTANTS
    Node,           \* node ids
    Reach,          \* per node, the radios that its transmissions reach
    Flashed,        \* each node's first image: CONFIG_TS_NETWORK_KEY, CONFIG_TS_KEY_ID
    Image,          \* the images that a node may be flashed with later
    Reading,        \* what the sensor driver returns: whole units, millionths
    Uptime,         \* k_uptime_seconds
    Remote,         \* the config sets of an operator: destination and data (external)
    Sensing,        \* the nodes that take readings
    Status,         \* the nodes that send heartbeats
    Operator,       \* the nodes that send config sets
    Ttl,            \* routing_ttl
    FirstId,        \* the next message number of the nodes that run already
    KeySize,        \* TS_AUTH_KEY_SIZE
    QueueDepth,     \* packets that a radio keeps for RX
    Restarting,     \* bound: the nodes that restart, each of them once
    Exposed,        \* bound: the radios that pick up damaged or foreign packets
    MaxSends        \* bound: messages originated, and damaged or foreign packets

Broadcast == 65535      \* TS_ROUTING_BROADCAST_ADDR

\* struct sensor_value: whole units and millionths (external)
SensorValue == [val1 : Int, val2 : Int]

ASSUME NodeAssumption ==
    Node \subseteq 1 .. Broadcast - 1 /\ Restarting \union Exposed \subseteq Node
ASSUME ReachAssumption == Reach \in [Node -> SUBSET Node]
ASSUME SizeAssumption ==
    Ttl \in 1 .. 255 /\ KeySize \in Nat \ {0} /\ QueueDepth \in Nat \ {0}
ASSUME BoundAssumption == FirstId \in Nat /\ MaxSends \in Nat
ASSUME InputAssumption ==
    /\ Reading \subseteq [temperature : SensorValue, humidity : SensorValue,
                          pressure : SensorValue]
    /\ Remote \subseteq [dst : Node \union {Broadcast}, data : [key : STRING, value : Int]]
    \* char key[TS_MSG_CONFIG_KEY_MAX]
    /\ \A set \in Remote : Len(set.data.key) \in 0 .. TS_MSG_CONFIG_KEY_MAX
\* A humidity and a pressure are not negative (a temperature may be).
ASSUME ReadingAssumption ==
    \A r \in Reading : \A v \in {r.humidity, r.pressure} : v.val1 >= 0 /\ v.val2 >= 0

VARIABLES
    image,      \* the firmware in each node's flash
    main,       \* how far main() has come
    key,        \* the key that auth_key_id stands for, or NoKey
    self,       \* self_node_id
    next_msg_id,
    out,        \* the message in the outgoing channel, until TX has read it
    radio,      \* the packets received and not yet handled
    sends,      \* messages originated, and damaged or foreign packets, so far
    restarted,  \* history: the nodes that have restarted
    sent,       \* history: what was originated, and under which key
    handled     \* history: the last message a node handled since its start

vars == <<image, main, key, self, next_msg_id, out, radio, sends,
          restarted, sent, handled>>
boot == <<image, main, key, self, restarted>>

None == [type |-> "none"]

-----------------------------------------------------------------------------
(* auth.c                                                                   *)

Lower == <<"0", "1", "2", "3", "4", "5", "6", "7", "8", "9",
           "a", "b", "c", "d", "e", "f">>
Upper == <<"0", "1", "2", "3", "4", "5", "6", "7", "8", "9",
           "A", "B", "C", "D", "E", "F">>

hex_char_to_nibble(c) ==
    IF \E i \in 1 .. 16 : c \in {Lower[i], Upper[i]}
    THEN (CHOOSE i \in 1 .. 16 : c \in {Lower[i], Upper[i]}) - 1
    ELSE -1

NoKey == <<>>

\* The bytes of a key string, or NoKey when it is malformed.
network_key(hex) ==
    IF Len(hex) = 2 * KeySize /\ \A i \in DOMAIN hex : hex_char_to_nibble(hex[i]) >= 0
    THEN [i \in 1 .. KeySize |-> 16 * hex_char_to_nibble(hex[2 * i - 1])
                                    + hex_char_to_nibble(hex[2 * i])]
    ELSE NoKey

ts_auth_get_key_id(n) == image[n].key_id % 256

TS_AUTH_TAG_SIZE == 8

ts_auth_sign(k, wire) == [key |-> k, wire |-> wire]

\* Without an imported key, both calls return an error.
ts_auth_verify(n, packet) ==
    key[n] # NoKey /\ packet.tag = ts_auth_sign(key[n], packet.wire)

\* The nodes that run at the start have a key.
ASSUME ImageAssumption ==
    /\ DOMAIN Flashed = Node /\ Flashed = [n \in Node |-> Flashed[n]]
    /\ \A n \in Node : network_key(Flashed[n].hex) # NoKey
    /\ \A img \in Image \union {Flashed[n] : n \in Node} : img.key_id \in Nat

-----------------------------------------------------------------------------
(* main(): the boot of a node.  RX and TX run from the start.               *)

AuthInit(n) ==
    /\ main[n] = "auth"
    /\ network_key(image[n].hex) # NoKey
    /\ key' = [key EXCEPT ![n] = network_key(image[n].hex)]
    /\ main' = [main EXCEPT ![n] = "config"]
    /\ UNCHANGED <<image, self, next_msg_id, out, radio, sends, restarted, sent, handled>>

\* The key string is malformed or the crypto library fails, or later the
\* settings cannot be loaded: main() returns.
BootFails(n) ==
    /\ main[n] \in {"auth", "config"}
    /\ main' = [main EXCEPT ![n] = "ended"]
    /\ UNCHANGED <<image, key, self, next_msg_id, out, radio, sends, restarted, sent, handled>>

ConfigInit(n) ==
    /\ main[n] = "config"
    /\ main' = [main EXCEPT ![n] = "routing"]
    /\ UNCHANGED <<image, key, self, next_msg_id, out, radio, sends, restarted, sent, handled>>

\* Fault: the id is taken before the stored configuration is loaded.
RoutingInit_DefaultId(n) ==
    /\ main[n] = "routing"
    /\ self' = [self EXCEPT ![n] = 1]
    /\ next_msg_id' = [next_msg_id EXCEPT ![n] = 0]
    /\ main' = [main EXCEPT ![n] = "running"]
    /\ UNCHANGED <<image, key, out, radio, sends, restarted, sent, handled>>

\* The node id is the stored one; producers start after this.
RoutingInit(n) ==
    /\ main[n] = "routing"
    /\ self' = [self EXCEPT ![n] = n]
    /\ next_msg_id' = [next_msg_id EXCEPT ![n] = 0]
    /\ main' = [main EXCEPT ![n] = "running"]
    /\ UNCHANGED <<image, key, out, radio, sends, restarted, sent, handled>>

\* Fault: what waits for TX survives the restart.
Restart_KeepsOut(n, img) ==
    /\ n \in Restarting \ restarted
    /\ image' = [image EXCEPT ![n] = img]
    /\ main' = [main EXCEPT ![n] = "auth"]
    /\ key' = [key EXCEPT ![n] = NoKey]
    /\ self' = [self EXCEPT ![n] = 0]
    /\ next_msg_id' = [next_msg_id EXCEPT ![n] = 0]
    /\ radio' = [radio EXCEPT ![n] = <<>>]
    /\ restarted' = restarted \union {n}
    /\ handled' = [handled EXCEPT ![n] = None]
    /\ UNCHANGED <<out, sends, sent>>

\* A restart, with the same firmware or another: RAM and the radio are cleared.
Restart(n, img) ==
    /\ n \in Restarting \ restarted
    /\ image' = [image EXCEPT ![n] = img]
    /\ main' = [main EXCEPT ![n] = "auth"]
    /\ key' = [key EXCEPT ![n] = NoKey]
    /\ self' = [self EXCEPT ![n] = 0]
    /\ next_msg_id' = [next_msg_id EXCEPT ![n] = 0]
    /\ out' = [out EXCEPT ![n] = None]
    /\ radio' = [radio EXCEPT ![n] = <<>>]
    /\ restarted' = restarted \union {n}
    /\ handled' = [handled EXCEPT ![n] = None]
    /\ UNCHANGED <<sends, sent>>

-----------------------------------------------------------------------------
(* The producers                                                            *)

\* key_id is stamped by TX; a new header has none.
prepare_header(n, dst) ==
    [src |-> self[n], dst |-> dst, msg_id |-> next_msg_id[n], ttl |-> Ttl, key_id |-> 0]

\* reading is what the message reports, for a reading of the sensor.
Originate(n, type, dst, data, reading) ==
    LET msg == [type |-> type, route |-> prepare_header(n, dst), data |-> data] IN
    /\ sends < MaxSends
    /\ sends' = sends + 1
    /\ next_msg_id' = [next_msg_id EXCEPT ![n] = @ + 1]
    /\ out' = [out EXCEPT ![n] = msg]
    /\ sent' = sent \union {[msg |-> msg, reading |-> reading, key |-> key[n],
                             key_id |-> ts_auth_get_key_id(n)]}

\* C's division by a positive constant, which rounds towards zero.
Quotient(a, b) == IF a < 0 THEN -((-a) \div b) ELSE a \div b

\* Fault: the fraction of a negative reading is added, not subtracted.
Hundredths_Unsigned(v) == v.val1 * 100 + Quotient(IF v.val2 < 0 THEN -v.val2 ELSE v.val2, 10000)

Hundredths(v) == v.val1 * 100 + Quotient(v.val2, 10000)

\* ts_sensor_backend_read.  Its casts to uint32_t change negative values only, which
\* ReadingAssumption rules out for the two quantities that are cast.
Measured(r) ==
    [timestamp |-> Uptime, temperature |-> Hundredths(r.temperature),
     humidity |-> Hundredths(r.humidity),
     pressure |-> r.pressure.val1 * 1000 + Quotient(r.pressure.val2, 1000)]

TakeReading(n, r) ==
    /\ n \in Sensing /\ main[n] = "running"
    /\ Originate(n, TS_MSG_TELEMETRY, Broadcast, Measured(r), r)
    /\ UNCHANGED <<boot, radio, handled>>

\* One of the reads fails: nothing is sent, and the number is used up.
SensorFails(n) ==
    /\ n \in Sensing /\ main[n] = "running"
    /\ sends < MaxSends
    /\ sends' = sends + 1
    /\ next_msg_id' = [next_msg_id EXCEPT ![n] = @ + 1]
    /\ UNCHANGED <<boot, out, radio, sent, handled>>

Heartbeat(n) ==
    /\ n \in Status /\ main[n] = "running"
    /\ Originate(n, TS_MSG_NODE_STATUS, Broadcast,
                 [timestamp |-> Uptime, uptime |-> Uptime, status |-> 0], None)
    /\ UNCHANGED <<boot, radio, handled>>

SendSet(n, set) ==
    /\ n \in Operator /\ main[n] = "running"
    /\ Originate(n, TS_MSG_CONFIG_SET, set.dst, set.data, None)
    /\ UNCHANGED <<boot, radio, handled>>

-----------------------------------------------------------------------------
(* lora_out_task and the driver                                             *)

\* Fault: sized for the longest message, without its tag.
ZBOR_ENCODE_BUFFER_SIZE_NoTag == 121

ZBOR_ENCODE_BUFFER_SIZE == 256
MOCK_LOOPBACK_BUF_SIZE == 256
LORA_RX_BUFFER_SIZE == 255

Stamped(n, msg) == [msg EXCEPT !.route.key_id = ts_auth_get_key_id(n)]

\* The CBOR part of the packet that TX makes of a message.
Encoded(n, msg) ==
    cbor_serialize(Stamped(n, msg), ZBOR_ENCODE_BUFFER_SIZE - TS_AUTH_TAG_SIZE)

Packet(k, wire) ==
    [wire |-> wire, tag |-> ts_auth_sign(k, wire),
     len |-> (ByteSize(wire) + TS_AUTH_TAG_SIZE) % 256]

\* What TX makes of the message in the channel: one packet, or none when it
\* cannot be encoded or the driver refuses its size.
Transmission(n) ==
    {Packet(key[n], wire) : wire \in
        {w \in {Encoded(n, out[n])} :
            /\ w # NoWire
            /\ ByteSize(w) + TS_AUTH_TAG_SIZE <= MOCK_LOOPBACK_BUF_SIZE}}

\* The radios in R put the packet into their queue, or drop it silently.
Receive(R, packet) ==
    radio' = [u \in Node |-> IF u \in R /\ Len(radio[u]) < QueueDepth
                             THEN Append(radio[u], packet) ELSE radio[u]]

TxSends(n) ==
    /\ out[n] # None
    /\ out' = [out EXCEPT ![n] = None]
    /\ key[n] # NoKey
    /\ \E packet \in Transmission(n) : Receive(Reach[n], packet)
    /\ UNCHANGED <<boot, next_msg_id, sends, sent, handled>>

\* The channel cannot be read, or encoding, signing or sending fails.
TxFails(n) ==
    /\ out[n] # None
    /\ out' = [out EXCEPT ![n] = None]
    /\ UNCHANGED <<boot, next_msg_id, radio, sends, sent, handled>>

-----------------------------------------------------------------------------
(* Packets that no node sent as they are (external)                         *)

\* A transmission is damaged on its way, but not its tag: one item is replaced.
Damaged(n, u) ==
    /\ out[n] # None /\ key[n] # NoKey /\ u \in Reach[n] /\ sends < MaxSends
    /\ \E packet \in Transmission(n) :
            Receive({u}, [packet EXCEPT !.wire[DataAt + 2] = Number(0)])
    /\ sends' = sends + 1
    /\ UNCHANGED <<boot, next_msg_id, out, sent, handled>>

\* A fragment, no longer than a tag.
Fragment(u) ==
    /\ sends < MaxSends
    /\ Receive({u}, [wire |-> NoWire, tag |-> None, len |-> TS_AUTH_TAG_SIZE])
    /\ sends' = sends + 1
    /\ UNCHANGED <<boot, next_msg_id, out, sent, handled>>

\* A message of a type that later firmware with the same key may have.
LaterType(u) ==
    /\ sends < MaxSends
    /\ key[u] # NoKey
    /\ LET route == [src |-> 1, dst |-> Broadcast, msg_id |-> 0, ttl |-> Ttl,
                     key_id |-> ts_auth_get_key_id(u)]
       IN  \E packet \in {Packet(key[u], Envelope(TS_MSG_CONFIG_ACK + 1, route, <<>>, <<>>))} :
                Receive({u}, packet)
    /\ sends' = sends + 1
    /\ UNCHANGED <<boot, next_msg_id, out, sent, handled>>

-----------------------------------------------------------------------------
(* lora_in_task, one packet at a time                                       *)

Received(n) == Head(radio[n])
Decoded(n) == cbor_deserialize(Received(n).wire)

\* lora_recv returns the packet to RX.
Takes(n) == radio[n] # <<>> /\ radio' = [radio EXCEPT ![n] = Tail(@)]

Authentic(n) == Received(n).len > TS_AUTH_TAG_SIZE /\ ts_auth_verify(n, Received(n))

\* The packet verifies, decodes, is of this key's epoch and not the node's own.
Accepted(n) ==
    /\ Authentic(n) /\ WellFormed(Received(n).wire)
    /\ Decoded(n).route.key_id = ts_auth_get_key_id(n)
    /\ Decoded(n).route.src # self[n]

\* Refused at one of these, or later as a duplicate: nothing else happens.  A
\* packet lost on the way is no different from one that is dropped here.
RxDrops(n) ==
    /\ Takes(n)
    /\ UNCHANGED <<boot, next_msg_id, out, sends, sent, handled>>

is_for_us(n, route) == route.dst \in {self[n], Broadcast}

IsSet(n) == Decoded(n).type = TS_MSG_CONFIG_SET /\ is_for_us(n, Decoded(n).route)

Handles(n) == handled' = [handled EXCEPT ![n] = [msg |-> Decoded(n), main |-> main[n]]]

\* A config set for this node: applied with some result, and acknowledged.
RxSet(n, result) ==
    /\ Takes(n) /\ Accepted(n) /\ IsSet(n)
    /\ Handles(n)
    /\ Originate(n, TS_MSG_CONFIG_ACK, Decoded(n).route.src,
                 [key |-> Decoded(n).data.key, value |-> Decoded(n).data.value,
                  result |-> result], None)
    /\ UNCHANGED boot

\* Fault: the forward keeps its ttl.
Forward_KeepsTtl(n) == Decoded(n)

\* ts_routing_decrement_ttl on the copy that is scheduled.
Forward(n) == [Decoded(n) EXCEPT !.route.ttl = @ - 1]

\* Fault: a forward without a hop left is scheduled as well.
Floods_LastHop(n) ==
    /\ Decoded(n).type \in {TS_MSG_TELEMETRY, TS_MSG_NODE_STATUS}
    /\ Decoded(n).route.ttl > 0

\* Config messages are not flooded, and a hop must be left.
Floods(n) ==
    /\ Decoded(n).type \in {TS_MSG_TELEMETRY, TS_MSG_NODE_STATUS}
    /\ Decoded(n).route.ttl > 1

\* Any other message: delivered if addressed here, and possibly forwarded.
RxOther(n) ==
    /\ Takes(n) /\ Accepted(n) /\ ~IsSet(n)
    /\ IF is_for_us(n, Decoded(n).route) THEN Handles(n) ELSE UNCHANGED handled
    /\ \/ Floods(n) /\ out' = [out EXCEPT ![n] = Forward(n)]
       \/ UNCHANGED out
    /\ UNCHANGED <<boot, next_msg_id, sends, sent>>

-----------------------------------------------------------------------------
Init ==
    /\ image = Flashed
    /\ main = [n \in Node |-> "running"]
    /\ key = [n \in Node |-> network_key(Flashed[n].hex)]
    /\ self = [n \in Node |-> n]
    /\ next_msg_id = [n \in Node |-> FirstId]
    /\ out = [n \in Node |-> None]
    /\ radio = [n \in Node |-> <<>>]
    /\ sends = 0
    /\ restarted = {}
    /\ sent = {}
    /\ handled = [n \in Node |-> None]

Boot(n) == AuthInit(n) \/ BootFails(n) \/ ConfigInit(n) \/ RoutingInit(n)

Produce(n) ==
    \/ \E r \in Reading : TakeReading(n, r)
    \/ SensorFails(n)
    \/ Heartbeat(n)
    \/ \E set \in Remote : SendSet(n, set)

Tx(n) == TxFails(n) \/ TxSends(n)
\* The results of ts_config_set: 0, -ENOENT, -EINVAL, and an error of
\* settings_save_one, for which -EIO stands.
Rx(n) == RxDrops(n) \/ RxOther(n) \/ \E result \in {0, -2, -5, -22} : RxSet(n, result)

Next ==
    \/ \E n \in Node :
        \/ Boot(n) \/ Produce(n) \/ Tx(n) \/ Rx(n)
        \/ \E img \in Image : Restart(n, img)
        \/ \E u \in Exposed : Damaged(n, u)
    \/ \E u \in Exposed : Fragment(u) \/ LaterType(u)

\* RX and TX of every node run.
Fairness == \A n \in Node : WF_vars(Tx(n)) /\ WF_vars(Rx(n))

Spec == Init /\ [][Next]_vars /\ Fairness
-----------------------------------------------------------------------------
(***************************************************************************)
(* Properties                                                              *)
(***************************************************************************)

TypeOK ==
    /\ DOMAIN image = Node /\ \A n \in Node : image[n] \in Image \union {Flashed[n]}
    /\ main \in [Node -> {"auth", "config", "routing", "running", "ended"}]
    /\ self \in [Node -> Node \union {0}]
    /\ \A n \in Node :
        /\ main[n] = "auth" => key[n] = NoKey
        /\ main[n] \in {"config", "routing", "running"} =>
                key[n] = network_key(image[n].hex)
        /\ next_msg_id[n] \in 0 .. FirstId + MaxSends
        /\ out[n] # None =>
                out[n].type \in DOMAIN DataFields /\ out[n].route.ttl \in 1 .. Ttl
        /\ Len(radio[n]) <= QueueDepth
    /\ sends \in 0 .. MaxSends

\* m is the message s wherever it is: only its ttl and key id may differ.
SameMessage(m, s) ==
    /\ m.type = s.type /\ m.data = s.data
    /\ \A f \in {"src", "dst", "msg_id"} : m.route[f] = s.route[f]
    /\ m.route.ttl \in 1 .. s.route.ttl

\* d millionths of a unit per step: |steps * d - reading| is less than a step.
Near(steps, d, v) ==
    LET error == steps * d - (v.val1 * 1000000 + v.val2) IN -d < error /\ error < d

Reports(data, r) ==
    /\ Near(data.temperature, 10000, r.temperature)
    /\ Near(data.humidity, 10000, r.humidity)
    /\ Near(data.pressure, 1000, r.pressure)

\* What a node handles is what its source originated, with the number, the
\* destination and the data it had there, and telemetry is the sensor's reading
\* to the last digit it keeps: through encoding, damage on the air, relays that
\* decode and encode again, and restarts of any of them.
ArrivesAsSent ==
    \A n \in Node : handled[n] # None =>
        \E s \in sent :
            /\ SameMessage(handled[n].msg, s.msg)
            /\ s.reading # None => Reports(handled[n].msg.data, s.reading)

\* Kconfig, TS_KEY_ID: "Nodes reject messages whose key_id does not match their
\* own."  A node handles only what was originated under the network key and the
\* key id that it has itself, although every relay signs and stamps anew with
\* its own, and relays are flashed with another key while messages travel.
EpochsStayApart ==
    \A n \in Node : handled[n] # None =>
        \E s \in sent :
            /\ SameMessage(handled[n].msg, s.msg)
            /\ s.key = key[n] /\ s.key_id = ts_auth_get_key_id(n)

\* A node that has booted never handles a message of its own that comes back,
\* from its loopback, from a relay, or from before its restart.  (RX runs
\* before ts_routing_init, with node id 0, so a booting node may.)
OwnNeverHandled ==
    \A n \in Node : handled[n] # None /\ handled[n].main = "running" =>
        handled[n].msg.route.src # n

\* Every message fits: TX's buffer with the tag behind it, the driver's, and
\* RX's, which is a byte shorter than TX's.
FitsEveryBuffer ==
    \A n \in Node : out[n] # None =>
        \A wire \in {Encoded(n, out[n])} :
            wire # NoWire /\ ByteSize(wire) + TS_AUTH_TAG_SIZE <= LORA_RX_BUFFER_SIZE

\* The ttl alone ends every flood: even if no node ever recognised a duplicate,
\* eventually nothing is received or waits for TX any more.
TtlAloneEndsFloods == <>[](\A n \in Node : radio[n] = <<>> /\ out[n] = None)
=============================================================================
