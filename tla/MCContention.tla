---------------------------- MODULE MCContention ----------------------------
(***************************************************************************)
(* Contention for TLC: the delays of the default configuration, and of     *)
(* ones that ts_config_set accepts as well: a minimum above 0, no spread   *)
(* between the thresholds, thresholds in the wrong order, and the largest  *)
(* delay with the widest range.                                            *)
(***************************************************************************)
EXTENDS Contention

Delays(min, max, weak, strong) ==
    [contention_delay_min_ms |-> min, contention_delay_max_ms |-> max,
     contention_rssi_weak |-> weak, contention_rssi_strong |-> strong]

MCDelayConfig ==
    {Delays(0, 5000, -120, -30), Delays(2000, 5000, -120, -30),
     Delays(0, 5000, -70, -70), Delays(0, 3, -30, -120),
     Delays(0, 60000, -150, 0)}

MCRssi == {-151, -121, -120, -119, -75, -70, -31, -30, 0, 5}
=============================================================================
