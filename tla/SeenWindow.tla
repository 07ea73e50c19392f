----------------------------- MODULE SeenWindow -----------------------------
(***************************************************************************)
(* What duplicate detection promises to the flooding layer: the node       *)
(* remembers the last W headers it accepted, in order, refuses exactly     *)
(* those, and accepts everything else.  A restart forgets all of them.     *)
(* Routing.tla, the ring buffer of routing.c, is shown to implement this.  *)
(***************************************************************************)
EXTENDS Naturals, Sequences

CONSTANTS
    Header,     \* the (src, msg_id) pairs a neighbour may send
    W           \* how many accepted headers are remembered

VARIABLES
    window,     \* the remembered headers, oldest first
    verdict     \* the last decision: a header and whether it was fresh

vars == <<window, verdict>>

NoVerdict == [hdr |-> <<>>, fresh |-> FALSE]

Remembered(h) == \E i \in DOMAIN window : window[i] = h

\* The window after one more header: the oldest one makes room when it is full.
Slide(h) ==
    IF Len(window) < W THEN Append(window, h)
                       ELSE [i \in 1..W |-> IF i < W THEN window[i + 1] ELSE h]

Init ==
    /\ window = <<>>
    /\ verdict = NoVerdict

Refuse(h) ==
    /\ Remembered(h)
    /\ verdict' = [hdr |-> h, fresh |-> FALSE]
    /\ UNCHANGED window

Accept(h) ==
    /\ ~Remembered(h)
    /\ verdict' = [hdr |-> h, fresh |-> TRUE]
    /\ window' = Slide(h)

Restart ==
    /\ window' = <<>>
    /\ verdict' = NoVerdict

Next ==
    \/ \E h \in Header : Refuse(h) \/ Accept(h)
    \/ Restart

Spec == Init /\ [][Next]_vars
=============================================================================
