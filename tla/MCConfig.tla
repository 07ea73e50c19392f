------------------------------ MODULE MCConfig ------------------------------
(***************************************************************************)
(* The table config_keys for TLC, and the rows that the runs use: a signed *)
(* one-byte field that the radio reads, the key whose settings name fills  *)
(* full_name exactly (routing_table_age_interval_s), the one whose name    *)
(* does not fit (routing_table_stale_timeout_s) and an ordinary one.  The  *)
(* values tried are the ends of each range and their neighbours outside.   *)
(***************************************************************************)
EXTENDS Config

\* name length, field size, range, default
Row(len, size, lo, hi, def) ==
    [len |-> len, size |-> size, lo |-> lo, hi |-> hi, def |-> def]

config_keys ==
    [routing_ttl |-> Row(11, 1, 1, 255, 5),
     contention_delay_min_ms |-> Row(23, 4, 0, 60000, 0),
     contention_delay_max_ms |-> Row(23, 4, 0, 60000, 5000),
     contention_rssi_weak |-> Row(20, 2, -150, 0, -120),
     contention_rssi_strong |-> Row(22, 2, -150, 0, -30),
     routing_table_stale_timeout_s |-> Row(29, 4, 1, 86400, 300),
     node_id |-> Row(7, 2, 0, 65535, 1),
     lora_frequency |-> Row(14, 4, 150000000, 960000000, 865100000),
     lora_sf |-> Row(7, 1, 5, 12, 10),
     lora_bw |-> Row(7, 2, 7, 1600, 125),
     lora_cr |-> Row(7, 1, 1, 4, 1),
     lora_tx_power |-> Row(13, 1, -9, 22, 4),
     sensor_interval_s |-> Row(17, 4, 1, 86400, 10),
     heartbeat_interval_s |-> Row(20, 4, 1, 86400, 7),
     routing_table_age_interval_s |-> Row(28, 4, 1, 86400, 60)]

\* The table of config.c satisfies what the theorems assume: every range fits its
\* field, every default its range, and every name but one fits in full_name.
ASSUME FieldsOfTableFit ==
    \A k \in DOMAIN config_keys :
        LET r == config_keys[k] IN
        RangeFits(r.size, r.lo, r.hi) /\ r.def \in r.lo .. r.hi
ASSUME NamesOfTableFit ==
    {k \in DOMAIN config_keys : 3 + config_keys[k].len >= FullNameSize}
        = {"routing_table_stale_timeout_s"}

MCKey == {"lora_tx_power", "routing_table_age_interval_s"}
MCLongKey == {"routing_ttl", "routing_table_stale_timeout_s"}
MCRadioKey == {"lora_tx_power"}

MCNameLen == [k \in Key |-> config_keys[k].len]
MCMin == [k \in Key |-> config_keys[k].lo]
MCMax == [k \in Key |-> config_keys[k].hi]
MCSize == [k \in Key |-> config_keys[k].size]
MCDefault == [k \in Key |-> config_keys[k].def]
MCTry == [k \in Key |-> LET r == config_keys[k] IN
                        {r.lo - 1, r.lo, r.hi, r.hi + 1}]
=============================================================================
