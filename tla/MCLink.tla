------------------------------- MODULE MCLink -------------------------------
(***************************************************************************)
(* Link for TLC: a relay (2) between a source (1) and two more nodes, the  *)
(* last of them already on the next key.  The source also hears itself, as *)
(* with the mock driver.  The images hold one key, written in upper and    *)
(* lower case and under two key ids, and a second key.                     *)
(* The reading has a small negative temperature and the upper ends of the  *)
(* other ranges; a config set carries the longest key and value.           *)
(***************************************************************************)
EXTENDS Link

MCReach == [n \in Node |-> CASE n = 1 -> {1, 2} [] n = 2 -> {1, 3, 4}
                             [] OTHER -> {2}]

Firmware(hex, id) == [hex |-> hex, key_id |-> id]
OldKey == Firmware(<<"0", "a">>, 1)
OldKeyUpper == Firmware(<<"0", "A">>, 1)
OldKeyNewId == Firmware(<<"0", "a">>, 2)
NewKey == Firmware(<<"1", "a">>, 2)
Mistyped == Firmware(<<"1", "g">>, 2)

MCImage == {OldKey, OldKeyNewId, NewKey, Mistyped}
MCFlashed == [n \in Node |-> IF n = 4 THEN NewKey
                             ELSE IF n = 1 THEN OldKeyUpper ELSE OldKey]

Value(whole, millionths) == [val1 |-> whole, val2 |-> millionths]
MCReading ==
    {[temperature |-> Value(0, -560000), humidity |-> Value(100, 0),
      pressure |-> Value(110, 1999)]}

\* 31 characters, the longest key that decodes, and 32.
LongestKey == "contention_delay_between_max_ms"
TooLongKey == "contention_delay_between_maxi_ms"

MCRemote ==
    {[dst |-> 2, data |-> [key |-> LongestKey, value |-> -2147483647]],
     [dst |-> Broadcast, data |-> [key |-> TooLongKey, value |-> 0]]}
=============================================================================
