----------------------------- MODULE ForwardPool -----------------------------
(***************************************************************************)
(* What the contention pool promises to RX: at most PoolSize forwards are  *)
(* pending; each call of ts_contention_schedule that finds room adds one,  *)
(* and each pending forward leaves in one way, forwarded or cancelled, and *)
(* only once.  Contention.tla is shown to implement this.                  *)
(***************************************************************************)
EXTENDS Naturals, FiniteSets

CONSTANTS
    Key,        \* the (src, msg_id) pairs of the messages
    PoolSize    \* how many forwards may be pending

VARIABLES
    pending,    \* the pending forwards: the call that added it, and its key
    tickets,    \* how many calls added one
    forwarded,  \* the calls whose forward went out
    cancelled   \* the calls whose forward was cancelled

vars == <<pending, tickets, forwarded, cancelled>>

Init ==
    /\ pending = {}
    /\ tickets = 0
    /\ forwarded = {}
    /\ cancelled = {}

Schedule(k) ==
    /\ Cardinality(pending) < PoolSize
    /\ pending' = pending \union {[ticket |-> tickets + 1, key |-> k]}
    /\ tickets' = tickets + 1
    /\ UNCHANGED <<forwarded, cancelled>>

Forward(p) ==
    /\ pending' = pending \ {p}
    /\ forwarded' = forwarded \union {p.ticket}
    /\ UNCHANGED <<tickets, cancelled>>

Cancel(p) ==
    /\ pending' = pending \ {p}
    /\ cancelled' = cancelled \union {p.ticket}
    /\ UNCHANGED <<tickets, forwarded>>

Next ==
    \/ \E k \in Key : Schedule(k)
    \/ \E p \in pending : Forward(p) \/ Cancel(p)

Spec == Init /\ [][Next]_vars
=============================================================================
