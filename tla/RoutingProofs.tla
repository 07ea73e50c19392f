---------------------------- MODULE RoutingProofs ---------------------------
(***************************************************************************)
(* Proofs about Routing, for every cache size, node set and bound.  They   *)
(* assume what the first run assumes: no packet is handled before          *)
(* ts_routing_init has returned (RoutingEarlyRx.cfg shows why), and        *)
(* seen_count, a 32-bit counter, does not wrap between two restarts.       *)
(***************************************************************************)
EXTENDS Routing, TLAPS

\* The environment of the theorems.
Calm == EarlyRx = FALSE /\ MaxMarks < CountMod

-----------------------------------------------------------------------------
\* Advancing the write index: the remainder is a test for the last slot.
LEMMA NextIndex ==
    \A i \in Slot : (i + 1) % CacheSize = IF i + 1 = CacheSize THEN 0 ELSE i + 1
  <1> SUFFICES ASSUME NEW i \in Slot
               PROVE (i + 1) % CacheSize = IF i + 1 = CacheSize THEN 0 ELSE i + 1
    OBVIOUS
  <1>1. CacheSize \in Nat /\ CacheSize > 0 /\ i \in Nat /\ i < CacheSize
    BY SizeAssumption DEF Slot
  <1>2. CASE i + 1 = CacheSize
    BY <1>1, <1>2
  <1>3. CASE i + 1 < CacheSize
    BY <1>1, <1>3
  <1> QED
    BY <1>1, <1>2, <1>3

\* Below its modulus, the counter just counts.
LEMMA NextCount ==
    \A n \in Nat : n + 1 < CountMod => (n + 1) % CountMod = n + 1
  BY SizeAssumption

-----------------------------------------------------------------------------
\* Type correctness: the write index of ts_routing_mark_seen never leaves the
\* cache and seen_count stays a uint32_t, even when packets arrive inside
\* ts_routing_init; it needs no assumption about the environment.
THEOREM TypeCorrect == Spec => []TypeOK
  <1> USE NodeAssumption, MsgIdAssumption, SizeAssumption
  <1>1. Zeroed \in [Slot -> Header] /\ 0 \in Slot /\ 0 \in 0 .. CountMod - 1
    BY DEF Zeroed, Header, Slot
  <1>2. Init => TypeOK
    BY <1>1 DEF Init, TypeOK
  <1>3. TypeOK /\ [Next]_vars => TypeOK'
    <2> SUFFICES ASSUME TypeOK, [Next]_vars PROVE TypeOK'
      OBVIOUS
    <2> USE DEF TypeOK
    <2>1. CASE InitNodeId
      BY <2>1 DEF InitNodeId, ring
    <2>2. CASE InitWriteIdx
      BY <1>1, <2>2 DEF InitWriteIdx
    <2>3. CASE InitCount
      BY <1>1, <2>3 DEF InitCount
    <2>4. CASE InitCache
      BY <1>1, <2>4 DEF InitCache
    <2>5. ASSUME NEW h \in Header, Rx(h) PROVE TypeOK'
      <3>1. CASE DropOwn(h)
        BY <3>1 DEF DropOwn, vars
      <3>2. CASE DropDuplicate(h)
        BY <3>2 DEF DropDuplicate, ring
      <3>3. CASE AcceptFresh(h)
        <4>1. seen_write_idx' \in Slot
          BY <3>3, NextIndex DEF AcceptFresh, ts_routing_mark_seen, Slot
        <4>2. seen_count' \in 0 .. CountMod - 1
          BY <3>3 DEF AcceptFresh, ts_routing_mark_seen
        <4>3. seen_cache' \in [Slot -> Header] /\ marked' \in Seq(Header)
          BY <3>3 DEF AcceptFresh, ts_routing_mark_seen
        <4> QED
          BY <3>3, <4>1, <4>2, <4>3 DEF AcceptFresh
      <3> QED
        BY <2>5, <3>1, <3>2, <3>3 DEF Rx
    <2>6. CASE Restart
      BY <1>1, <2>6 DEF Restart
    <2>7. CASE UNCHANGED vars
      BY <2>7 DEF vars
    <2> QED
      BY <2>1, <2>2, <2>3, <2>4, <2>5, <2>6, <2>7 DEF Next
  <1> QED
    BY <1>2, <1>3, PTL DEF Spec

-----------------------------------------------------------------------------
\* The bound of the model, which the counter's modulus exceeds.
Bounded == Len(marked) <= MaxMarks

\* The inductive invariant: the duplicate verdicts are right because the ring
\* is the tail of what was accepted.
Inv ==
    /\ TypeOK
    /\ Bounded
    /\ RingIsTailOfMarked
    /\ NoRepeatWithinWindow
    /\ RefusedWasAccepted

\* The scan of the first Entries slots finds h exactly when the window, which
\* is those slots in another order, holds h.
LEMMA ScanIsWindow ==
    ASSUME TypeOK, RingIsTailOfMarked, NEW h
    PROVE  ts_routing_is_duplicate(h) <=> \E i \in 1 .. Entries : Window[i] = h
  <1> USE SizeAssumption DEF Slot
  <1>1. /\ Entries \in Nat /\ Entries <= CacheSize /\ Oldest \in Slot
        /\ Entries < CacheSize => Oldest = 0
    BY DEF TypeOK, Entries, Oldest
  <1>2. ASSUME ts_routing_is_duplicate(h)
        PROVE  \E i \in 1 .. Entries : Window[i] = h
    <2>1. PICK k \in Slot : k < Entries /\ seen_cache[k] = h
      BY <1>2 DEF ts_routing_is_duplicate
    <2>2. CASE k >= Oldest
      <3> DEFINE i == k - Oldest + 1
      <3>1. i \in 1 .. Entries
        BY <1>1, <2>1, <2>2
      <3>2. Oldest + i - 1 = k
        BY <1>1, <2>1
      <3> QED
        BY <2>1, <3>1, <3>2 DEF Window, RingAt
    <2>3. CASE k < Oldest
      <3> DEFINE i == k + CacheSize - Oldest + 1
      <3>1. Entries = CacheSize
        BY <1>1, <2>1, <2>3
      <3>2. i \in 1 .. Entries /\ Oldest + i - 1 = k + CacheSize
        BY <1>1, <2>1, <2>3, <3>1
      <3>3. RingAt(Oldest + i - 1) = seen_cache[k]
        BY <1>1, <3>2 DEF RingAt
      <3> HIDE DEF i
      <3> QED
        BY <2>1, <3>2, <3>3 DEF Window
    <2> QED
      BY <1>1, <2>1, <2>2, <2>3
  <1>3. ASSUME NEW i \in 1 .. Entries, Window[i] = h
        PROVE  ts_routing_is_duplicate(h)
    <2> DEFINE k == IF Oldest + i - 1 < CacheSize THEN Oldest + i - 1
                                                  ELSE Oldest + i - 1 - CacheSize
    <2>3. Window[i] = RingAt(Oldest + i - 1)
      BY DEF Window
    <2>4. RingAt(Oldest + i - 1) = seen_cache[k]
      <3>1. CASE Oldest + i - 1 < CacheSize
        BY <3>1 DEF RingAt
      <3>2. CASE ~(Oldest + i - 1 < CacheSize)
        BY <1>1, <3>2 DEF RingAt
      <3> QED
        BY <3>1, <3>2
    <2>1. seen_cache[k] = h
      BY <1>3, <2>3, <2>4
    <2>2. k \in Slot /\ k < Entries
      BY <1>1
    <2> QED
      BY <2>1, <2>2 DEF ts_routing_is_duplicate
  <1> QED
    BY <1>2, <1>3

\* Marking a header slides the window by one.
LEMMA MarkSlides ==
    ASSUME Calm, Inv, NEW h \in Header, AcceptFresh(h)
    PROVE  /\ seen_count' = seen_count + 1
           /\ seen_count + 1 < CacheSize => seen_write_idx' = seen_count + 1
           /\ Window' = Abstract!Slide(h)
  <1> USE SizeAssumption, BoundAssumption DEF Slot
  <1>1. /\ seen_count \in Nat /\ seen_write_idx \in Slot
        /\ seen_count = Len(marked) /\ Len(marked) < MaxMarks
        /\ seen_count < CacheSize => seen_write_idx = seen_count
        /\ seen_cache \in [Slot -> Header]
    BY DEF Inv, TypeOK, RingIsTailOfMarked, AcceptFresh
  <1>2. seen_count' = seen_count + 1
    BY <1>1, NextCount DEF Calm, AcceptFresh, ts_routing_mark_seen
  <1>3. seen_write_idx' = IF seen_write_idx + 1 = CacheSize THEN 0 ELSE seen_write_idx + 1
    BY <1>1, NextIndex DEF AcceptFresh, ts_routing_mark_seen
  <1>4. seen_cache' = [seen_cache EXCEPT ![seen_write_idx] = h]
    BY DEF AcceptFresh, ts_routing_mark_seen
  <1>5. CASE seen_count < CacheSize
    <2>1. Entries = seen_count /\ Oldest = 0 /\ Len(Window) = seen_count
      BY <1>1, <1>5 DEF Entries, Oldest, Window
    <2>2. Entries' = seen_count + 1 /\ Oldest' = 0
      BY <1>1, <1>2, <1>3, <1>5 DEF Entries, Oldest
    <2>3. Abstract!Slide(h) = Append(Window, h)
      BY <1>5, <2>1 DEF Abstract!Slide
    <2>4. Window' = [i \in 1 .. seen_count + 1 |-> RingAt(i - 1)']
      BY <1>1, <2>2 DEF Window
    <2>5. Append(Window, h) = [i \in 1 .. seen_count + 1 |->
                                  IF i = seen_count + 1 THEN h ELSE Window[i]]
      BY <1>1, <2>1 DEF Window
    <2>6. ASSUME NEW i \in 1 .. seen_count + 1
          PROVE  RingAt(i - 1)' = IF i = seen_count + 1 THEN h ELSE Window[i]
      BY <1>1, <1>4, <1>5, <2>1 DEF RingAt, Window
    <2> QED
      BY <1>1, <1>2, <1>3, <2>3, <2>4, <2>5, <2>6
  <1>6. CASE seen_count >= CacheSize
    <2>1. Entries = CacheSize /\ Oldest = seen_write_idx /\ Len(Window) = CacheSize
      BY <1>1, <1>6 DEF Entries, Oldest, Window
    <2>2. Entries' = CacheSize /\ Oldest' = seen_write_idx'
      BY <1>1, <1>2, <1>6 DEF Entries, Oldest
    <2>3. Abstract!Slide(h) = [i \in 1 .. CacheSize |->
                                  IF i < CacheSize THEN Window[i + 1] ELSE h]
      BY <2>1 DEF Abstract!Slide
    <2>4. Window' = [i \in 1 .. CacheSize |-> RingAt(Oldest + i - 1)']
      BY <2>2 DEF Window
    <2>5. ASSUME NEW i \in 1 .. CacheSize
          PROVE  RingAt(Oldest + i - 1)' = IF i < CacheSize THEN Window[i + 1] ELSE h
      <3>1. CASE i < CacheSize
        <4>1. i + 1 \in 1 .. CacheSize
          BY <1>1, <3>1
        <4>2. Window[i + 1] = RingAt(seen_write_idx + i)
          BY <1>1, <2>1, <4>1 DEF Window
        <4>3. RingAt(Oldest + i - 1)' = RingAt(seen_write_idx + i)
          BY <1>1, <1>3, <1>4, <2>2, <3>1 DEF RingAt
        <4> QED
          BY <3>1, <4>2, <4>3
      <3>2. CASE i = CacheSize
        BY <1>1, <1>3, <1>4, <2>2, <3>2 DEF RingAt
      <3> QED
        BY <3>1, <3>2
    <2> QED
      BY <1>1, <1>2, <1>6, <2>3, <2>4, <2>5
  <1> QED
    BY <1>1, <1>2, <1>3, <1>5, <1>6

-----------------------------------------------------------------------------
\* The initialisation, restarts and refused packets leave the window alone or
\* empty it; only an accepted packet has work to do.
LEMMA InvInit == Calm /\ Init => Inv
  <1> SUFFICES ASSUME Init PROVE Bounded /\ RingIsTailOfMarked
                                 /\ NoRepeatWithinWindow /\ RefusedWasAccepted
    BY NodeAssumption, MsgIdAssumption, SizeAssumption
       DEF Init, Inv, TypeOK, Zeroed, Header, Slot
  <1>1. marked = <<>> /\ seen_count = 0 /\ seen_write_idx = 0 /\ Entries = 0
    BY SizeAssumption DEF Init, Entries
  <1> QED
    BY <1>1, BoundAssumption
       DEF Init, Bounded, RingIsTailOfMarked, NoRepeatWithinWindow,
           RefusedWasAccepted, NoVerdict

\* An empty window satisfies the invariant, whatever the cache holds.
LEMMA InvEmpty ==
    ASSUME TypeOK', marked' = <<>>, seen_count' = 0, seen_write_idx' = 0,
           verdict' = NoVerdict
    PROVE  Inv'
  <1>1. Entries' = 0
    BY SizeAssumption DEF Entries
  <1> QED
    BY <1>1, BoundAssumption
       DEF Inv, Bounded, RingIsTailOfMarked, NoRepeatWithinWindow,
           RefusedWasAccepted, NoVerdict

\* An accepted header is not in the window: it was last accepted, if ever,
\* more than CacheSize headers ago.
LEMMA AcceptKeepsInv ==
    ASSUME Calm, Inv, TypeOK', NEW h \in Header, AcceptFresh(h)
    PROVE  Inv'
  <1> USE SizeAssumption, BoundAssumption
  <1>1. /\ marked \in Seq(Header) /\ seen_count = Len(marked)
        /\ seen_count \in Nat /\ Len(marked) \in Nat /\ Len(marked) < MaxMarks
    BY DEF Inv, TypeOK, RingIsTailOfMarked, AcceptFresh
  <1>2. marked' = Append(marked, h) /\ Len(marked') = Len(marked) + 1
    BY <1>1 DEF AcceptFresh, ts_routing_mark_seen
  <1>3. /\ seen_count' = seen_count + 1
        /\ seen_count + 1 < CacheSize => seen_write_idx' = seen_count + 1
        /\ Window' = Abstract!Slide(h)
    BY MarkSlides
  <1>4. Entries = (IF seen_count < CacheSize THEN seen_count ELSE CacheSize)
        /\ Entries' = (IF seen_count + 1 < CacheSize THEN seen_count + 1 ELSE CacheSize)
        /\ Entries \in Nat /\ Len(Window) = Entries
    BY <1>1, <1>3 DEF Entries, Window
  <1>5. \A i \in 1 .. Entries : Window[i] = marked[Len(marked) - Entries + i]
    BY DEF Inv, RingIsTailOfMarked
  <1>6. Bounded'
    BY <1>1, <1>2 DEF Bounded
  <1>7. RingIsTailOfMarked'
    <2>1. phase' = "running"
      BY DEF Calm, AcceptFresh, RxEnabled
    <2>2. ASSUME NEW i \in 1 .. Entries'
          PROVE  Window'[i] = marked'[Len(marked') - Entries' + i]
      <3>1. CASE seen_count < CacheSize
        <4>2. Entries = Len(marked) /\ Entries' = Len(marked) + 1
          BY <1>1, <1>4, <3>1
        <4>6. Window' = Append(Window, h)
          BY <1>1, <1>3, <1>4, <3>1 DEF Abstract!Slide
        <4>7. Append(Window, h) = [k \in 1 .. Len(marked) + 1 |->
                                      IF k = Len(marked) + 1 THEN h ELSE Window[k]]
          BY <1>1, <4>2 DEF Window
        <4>1. Window' = [k \in 1 .. Len(marked) + 1 |->
                            IF k = Len(marked) + 1 THEN h ELSE Window[k]]
          BY <4>6, <4>7
        <4>3. i \in 1 .. Len(marked) + 1 /\ Len(marked') - Entries' + i = i
          BY <1>1, <1>2, <4>2
        <4>4. CASE i = Len(marked) + 1
          BY <1>1, <1>2, <4>1, <4>3, <4>4
        <4>5. CASE i # Len(marked) + 1
          <5>1. i \in 1 .. Entries /\ Len(marked) - Entries + i = i
            BY <1>1, <4>2, <4>3, <4>5
          <5>2. Window'[i] = Window[i] /\ marked'[i] = marked[i]
            BY <1>1, <1>2, <4>1, <4>2, <5>1
          <5> QED
            BY <1>5, <4>3, <5>1, <5>2
        <4> QED
          BY <4>4, <4>5
      <3>2. CASE seen_count >= CacheSize
        <4>1. Window' = [k \in 1 .. CacheSize |-> IF k < CacheSize THEN Window[k + 1] ELSE h]
          BY <1>1, <1>3, <1>4, <3>2 DEF Abstract!Slide
        <4>2. Entries = CacheSize /\ Entries' = CacheSize
          BY <1>1, <1>4, <3>2
        <4>3. i \in 1 .. CacheSize
              /\ Len(marked') - Entries' + i = Len(marked) + 1 - CacheSize + i
          BY <1>1, <1>2, <4>2
        <4>4. CASE i = CacheSize
          BY <1>1, <1>2, <4>1, <4>3, <4>4
        <4>5. CASE i # CacheSize
          <5>1. /\ i + 1 \in 1 .. Entries
                /\ Len(marked) - Entries + (i + 1) = Len(marked) + 1 - CacheSize + i
                /\ Len(marked) + 1 - CacheSize + i \in 1 .. Len(marked)
            BY <1>1, <3>2, <4>2, <4>3, <4>5
          <5>2. Window'[i] = Window[i + 1]
            BY <1>1, <4>1, <4>3, <4>5
          <5>3. marked'[Len(marked) + 1 - CacheSize + i] = marked[Len(marked) + 1 - CacheSize + i]
            BY <1>1, <1>2, <5>1
          <5> QED
            BY <1>5, <4>3, <5>1, <5>2, <5>3
        <4> QED
          BY <4>4, <4>5
      <3> QED
        BY <1>1, <3>1, <3>2
    <2> QED
      BY <1>1, <1>2, <1>3, <2>1, <2>2 DEF RingIsTailOfMarked
  <1>8. NoRepeatWithinWindow'
    <2>1. ASSUME NEW i \in 1 .. Len(marked), marked[i] = h
          PROVE  Len(marked) + 1 - i > CacheSize
      <3>1. ~ \E k \in 1 .. Entries : Window[k] = h
        BY ScanIsWindow DEF Inv, AcceptFresh
      <3>2. SUFFICES ASSUME Len(marked) + 1 - i <= CacheSize PROVE FALSE
        BY <1>1
      <3> DEFINE k == i - (Len(marked) - Entries)
      <3>3. k \in 1 .. Entries /\ Len(marked) - Entries + k = i
        <4>1. CASE seen_count < CacheSize
          <5>1. Entries = Len(marked)
            BY <1>1, <1>4, <4>1
          <5> QED
            BY <1>1, <5>1
        <4>2. CASE seen_count >= CacheSize
          <5>1. Entries = CacheSize
            BY <1>1, <1>4, <4>2
          <5> QED
            BY <1>1, <3>2, <5>1
        <4> QED
          BY <1>1, <4>1, <4>2
      <3> QED
        BY <1>5, <2>1, <3>1, <3>3
    <2>2. SUFFICES ASSUME NEW i \in DOMAIN marked', NEW j \in DOMAIN marked',
                          i < j, marked'[i] = marked'[j]
                   PROVE  j - i > CacheSize
      BY DEF NoRepeatWithinWindow
    <2>3. i \in 1 .. Len(marked) + 1 /\ j \in 1 .. Len(marked) + 1
      BY <1>1, <1>2
    <2>4. CASE j = Len(marked) + 1
      BY <1>1, <1>2, <2>1, <2>2, <2>3, <2>4
    <2>5. CASE j # Len(marked) + 1
      BY <1>1, <1>2, <2>2, <2>3, <2>5 DEF Inv, NoRepeatWithinWindow
    <2> QED
      BY <2>4, <2>5
  <1>9. RefusedWasAccepted'
    BY DEF RefusedWasAccepted, AcceptFresh
  <1> QED
    BY <1>6, <1>7, <1>8, <1>9 DEF Inv

\* Every step of ts_routing_init, of the gate and a restart keeps the invariant.
LEMMA InvNext == Calm /\ Inv /\ TypeOK' /\ [Next]_vars => Inv'
  <1> SUFFICES ASSUME Calm, Inv, TypeOK', [Next]_vars PROVE Inv'
    OBVIOUS
  <1>1. phase # "running" => marked = <<>> /\ seen_write_idx = 0 /\ seen_count = 0
    BY DEF Inv, RingIsTailOfMarked
  <1>2. CASE InitNodeId
    BY <1>2 DEF Inv, InitNodeId, ring, Bounded, RingIsTailOfMarked, Window, Entries,
                Oldest, RingAt, NoRepeatWithinWindow, RefusedWasAccepted
  <1>3. CASE InitWriteIdx
    <2>1. UNCHANGED <<ring, verdict, marked>> /\ phase' # "running"
      BY <1>1, <1>3 DEF InitWriteIdx, ring
    <2> QED
      BY <2>1, <1>1, <1>3 DEF InitWriteIdx, Inv, ring, Bounded, RingIsTailOfMarked, Window, Entries,
                Oldest, RingAt, NoRepeatWithinWindow, RefusedWasAccepted
  <1>4. CASE InitCount
    <2>1. UNCHANGED <<ring, verdict, marked>> /\ phase' # "running"
      BY <1>1, <1>4 DEF InitCount, ring
    <2> QED
      BY <2>1, <1>1, <1>4 DEF InitCount, Inv, ring, Bounded, RingIsTailOfMarked, Window, Entries,
                Oldest, RingAt, NoRepeatWithinWindow, RefusedWasAccepted
  <1>5. CASE InitCache
    BY <1>1, <1>5, InvEmpty DEF InitCache
  <1>6. ASSUME NEW h \in Header, Rx(h) PROVE Inv'
    <2>1. CASE DropOwn(h)
      BY <2>1 DEF DropOwn, vars, Inv, Bounded, RingIsTailOfMarked, Window, Entries,
                  Oldest, RingAt, NoRepeatWithinWindow, RefusedWasAccepted
    <2>2. CASE DropDuplicate(h)
      <3>1. UNCHANGED <<ring, phase, marked>>
        BY <2>2 DEF DropDuplicate
      <3>2. PICK i \in 1 .. Entries : Window[i] = h
        BY <2>2, ScanIsWindow DEF DropDuplicate, Inv
      <3>3. RefusedWasAccepted'
        <4> DEFINE j == Len(marked) - Entries + i
        <4>3. /\ Len(marked) \in Nat /\ CacheSize \in Nat
              /\ Entries \in Nat /\ Entries <= Len(marked) /\ Entries <= CacheSize
          BY SizeAssumption DEF Inv, TypeOK, RingIsTailOfMarked, Entries
        <4>4. marked[j] = h
          BY <3>2 DEF Inv, RingIsTailOfMarked
        <4>5. j \in 1 .. Len(marked) /\ j + CacheSize > Len(marked)
          BY <4>3
        <4>1. j \in 1 .. Len(marked) /\ j + CacheSize > Len(marked) /\ marked[j] = h
          BY <4>4, <4>5
        <4>2. verdict'.hdr = h /\ marked' = marked /\ DOMAIN marked = 1 .. Len(marked)
          BY <2>2 DEF DropDuplicate, Inv, TypeOK
        <4> QED
          BY <4>1, <4>2 DEF RefusedWasAccepted
      <3> QED
        BY <3>1, <3>3 DEF ring, Inv, Bounded, RingIsTailOfMarked, Window, Entries,
                  Oldest, RingAt, NoRepeatWithinWindow
    <2>3. CASE AcceptFresh(h)
      BY <2>3, AcceptKeepsInv
    <2> QED
      BY <1>6, <2>1, <2>2, <2>3 DEF Rx
  <1>7. CASE Restart
    BY <1>7, InvEmpty DEF Restart
  <1>8. CASE UNCHANGED vars
    BY <1>8 DEF vars, Inv, Bounded, RingIsTailOfMarked, Window, Entries,
                Oldest, RingAt, NoRepeatWithinWindow, RefusedWasAccepted
  <1> QED
    BY <1>2, <1>3, <1>4, <1>5, <1>6, <1>7, <1>8 DEF Next

\* From its initialisation on, the seen cache read in ring order is the tail of
\* the headers that ts_routing_mark_seen was given, and the two properties
\* below hold with it: the inductive invariant is an invariant.
THEOREM InvHolds == ASSUME Calm PROVE Spec => []Inv
  <1>1. Init => Inv
    BY InvInit
  <1>2. Inv /\ TypeOK' /\ [Next]_vars => Inv'
    BY InvNext
  <1> QED
    BY <1>1, <1>2, TypeCorrect, PTL DEF Spec

\* The seen cache is a ring: read from seen_write_idx on (or from slot 0 while it
\* fills up), it holds exactly the newest headers ts_routing_mark_seen was given,
\* oldest first, across restarts.
THEOREM CacheIsTail == ASSUME Calm PROVE Spec => []RingIsTailOfMarked
  <1>1. Inv => RingIsTailOfMarked
    BY DEF Inv
  <1> QED
    BY <1>1, InvHolds, PTL

\* No duplicate gets through: ts_routing_is_duplicate lets a header pass again
\* only after CacheSize others were accepted in between.
THEOREM DuplicateDetection == ASSUME Calm PROVE Spec => []NoRepeatWithinWindow
  <1>1. Inv => NoRepeatWithinWindow
    BY DEF Inv
  <1> QED
    BY <1>1, InvHolds, PTL

\* No fresh packet is refused: a header that ts_routing_is_duplicate refuses was
\* accepted within the window; a zeroed or stale slot never matches.
THEOREM RefusalIsRight == ASSUME Calm PROVE Spec => []RefusedWasAccepted
  <1>1. Inv => RefusedWasAccepted
    BY DEF Inv
  <1> QED
    BY <1>1, InvHolds, PTL

-----------------------------------------------------------------------------
\* The headers that the last CacheSize calls of ts_routing_mark_seen were given.
Recent(h) ==
    \E i \in DOMAIN marked : i + CacheSize > Len(marked) /\ marked[i] = h

\* The scan of the cache is exact: it finds the recent headers and no others.
LEMMA ScanIsRecent ==
    ASSUME Inv, NEW h
    PROVE  ts_routing_is_duplicate(h) <=> Recent(h)
  <1>1. /\ CacheSize \in Nat /\ Len(marked) \in Nat /\ DOMAIN marked = 1 .. Len(marked)
        /\ Entries = IF Len(marked) < CacheSize THEN Len(marked) ELSE CacheSize
    BY SizeAssumption DEF Inv, TypeOK, RingIsTailOfMarked, Entries
  <1>2. \A i \in 1 .. Entries : Window[i] = marked[Len(marked) - Entries + i]
    BY DEF Inv, RingIsTailOfMarked
  <1>3. ASSUME NEW i \in 1 .. Entries, Window[i] = h PROVE Recent(h)
    <2> DEFINE j == Len(marked) - Entries + i
    <2>1. /\ Len(marked) \in Nat /\ Entries \in Nat /\ CacheSize \in Nat
          /\ Entries <= Len(marked) /\ Entries <= CacheSize
      BY <1>1
    <2>2. j \in 1 .. Len(marked) /\ j + CacheSize > Len(marked)
      BY <2>1
    <2>3. marked[j] = h
      BY <1>2, <1>3
    <2> QED
      BY <1>1, <2>2, <2>3 DEF Recent
  <1>4. ASSUME NEW j \in DOMAIN marked, j + CacheSize > Len(marked), marked[j] = h
        PROVE  \E i \in 1 .. Entries : Window[i] = h
    <2> DEFINE i == j - (Len(marked) - Entries)
    <2>1. i \in 1 .. Entries /\ Len(marked) - Entries + i = j
      BY <1>1, <1>4
    <2> QED
      BY <1>2, <1>4, <2>1
  <1> QED
    BY <1>3, <1>4, ScanIsWindow DEF Inv, Recent

\* ts_routing_is_duplicate answers exactly, in every state and for every header:
\* true for those accepted among the last CacheSize, false for all others.
THEOREM DuplicateIffRecent ==
    ASSUME Calm
    PROVE  Spec => [](\A h \in Header : ts_routing_is_duplicate(h) <=> Recent(h))
  <1>1. Inv => \A h \in Header : ts_routing_is_duplicate(h) <=> Recent(h)
    BY ScanIsRecent
  <1> QED
    BY <1>1, InvHolds, PTL

\* A fresh verdict is about the header marked last.
FreshIsNewest ==
    verdict.fresh => Len(marked) > 0 /\ marked[Len(marked)] = verdict.hdr

\* What routing.h says of ts_routing_is_duplicate holds as long as no packet is
\* handled inside ts_routing_init: hearing the header accepted last again is a
\* duplicate.  RoutingEarlyRx.cfg shows how the unlocked initialisation breaks it.
THEOREM HeardAgainIsDuplicate == ASSUME Calm PROVE Spec => []JustMarkedIsDuplicate
  <1> USE SizeAssumption
  <1>1. Init => FreshIsNewest
    BY DEF Init, FreshIsNewest, NoVerdict
  <1>2. TypeOK /\ FreshIsNewest /\ [Next]_vars => FreshIsNewest'
    <2> SUFFICES ASSUME TypeOK, FreshIsNewest, [Next]_vars PROVE FreshIsNewest'
      OBVIOUS
    <2>1. CASE InitNodeId \/ InitWriteIdx \/ InitCount \/ UNCHANGED vars
      BY <2>1 DEF InitNodeId, InitWriteIdx, InitCount, vars, FreshIsNewest
    <2>2. CASE InitCache \/ Restart
      BY <2>2 DEF InitCache, Restart, FreshIsNewest, NoVerdict
    <2>3. ASSUME NEW h \in Header, DropOwn(h) \/ DropDuplicate(h) PROVE FreshIsNewest'
      BY <2>3 DEF DropOwn, DropDuplicate, vars, FreshIsNewest
    <2>4. ASSUME NEW h \in Header, AcceptFresh(h) PROVE FreshIsNewest'
      <3>1. marked \in Seq(Header) /\ marked' = Append(marked, h) /\ verdict'.hdr = h
        BY <2>4 DEF TypeOK, AcceptFresh, ts_routing_mark_seen
      <3>2. Len(marked') > 0 /\ marked'[Len(marked')] = h
        BY <3>1
      <3> QED
        BY <3>1, <3>2 DEF FreshIsNewest
    <2> QED
      BY <2>1, <2>2, <2>3, <2>4 DEF Next, Rx
  <1>3. Inv /\ FreshIsNewest => JustMarkedIsDuplicate
    <2> SUFFICES ASSUME Inv, FreshIsNewest, verdict.fresh
                 PROVE  ts_routing_is_duplicate(verdict.hdr)
      BY DEF JustMarkedIsDuplicate
    <2>1. /\ Len(marked) \in DOMAIN marked /\ Len(marked) + CacheSize > Len(marked)
          /\ marked[Len(marked)] = verdict.hdr
      BY DEF Inv, TypeOK, FreshIsNewest
    <2> QED
      BY <2>1, ScanIsRecent DEF Recent
  <1> QED
    BY <1>1, <1>2, <1>3, InvHolds, TypeCorrect, PTL DEF Spec

-----------------------------------------------------------------------------
\* The ring buffer of ts_routing_is_duplicate and ts_routing_mark_seen implements
\* the abstract window: every step maps to a step of SeenWindow or a stutter.
THEOREM Refinement == ASSUME Calm PROVE Spec => ImplementsSeenWindow
  <1> USE SizeAssumption
  <1>1. Init => Abstract!Init
    <2> SUFFICES ASSUME Init PROVE Abstract!Init
      OBVIOUS
    <2>1. Entries = 0
      BY DEF Init, Entries
    <2>2. Window = <<>>
      BY <2>1 DEF Window
    <2> QED
      BY <2>2 DEF Init, Abstract!Init, NoVerdict, Abstract!NoVerdict
  <1>2. Inv /\ Inv' /\ [Next]_vars => [Abstract!Next]_(Abstract!vars)
    <2> SUFFICES ASSUME Inv, Inv', [Next]_vars
                 PROVE  [Abstract!Next]_(Abstract!vars)
      OBVIOUS
    <2> DEFINE Same == UNCHANGED <<Window, verdict>>
    <2>0. Same => UNCHANGED Abstract!vars
      BY DEF Abstract!vars
    <2>1. ASSUME marked' = <<>> PROVE Window' = <<>>
      <3>1. Entries' = 0
        BY <2>1 DEF Inv, RingIsTailOfMarked, Entries
      <3> QED
        BY <3>1 DEF Window
    <2>2. phase # "running" => marked = <<>> /\ seen_write_idx = 0 /\ seen_count = 0
      BY DEF Inv, RingIsTailOfMarked
    <2>3. CASE InitNodeId \/ InitWriteIdx \/ InitCount
      <3>1. UNCHANGED <<ring, verdict>>
        BY <2>2, <2>3 DEF InitNodeId, InitWriteIdx, InitCount, ring
      <3> QED
        BY <2>0, <3>1 DEF ring, Window, Entries, Oldest, RingAt
    <2>4. CASE InitCache
      BY <2>1, <2>4 DEF InitCache, Abstract!Next, Abstract!Restart, NoVerdict,
                        Abstract!NoVerdict
    <2>5. ASSUME NEW h \in Header, Rx(h) PROVE [Abstract!Next]_(Abstract!vars)
      <3>1. Abstract!Remembered(h) <=> ts_routing_is_duplicate(h)
        BY ScanIsWindow DEF Inv, Abstract!Remembered, Window
      <3>2. CASE DropOwn(h)
        BY <2>0, <3>2 DEF DropOwn, vars, Window, Entries, Oldest, RingAt
      <3>3. CASE DropDuplicate(h)
        <4>1. UNCHANGED Window
          BY <3>3 DEF DropDuplicate, ring, Window, Entries, Oldest, RingAt
        <4>2. Abstract!Refuse(h)
          BY <3>1, <3>3, <4>1 DEF DropDuplicate, Abstract!Refuse
        <4> QED
          BY <4>2 DEF Abstract!Next
      <3>4. CASE AcceptFresh(h)
        <4>1. Window' = Abstract!Slide(h)
          BY <3>4, MarkSlides
        <4>2. Abstract!Accept(h)
          BY <3>1, <3>4, <4>1 DEF AcceptFresh, Abstract!Accept
        <4> QED
          BY <4>2 DEF Abstract!Next
      <3> QED
        BY <2>5, <3>2, <3>3, <3>4 DEF Rx
    <2>6. CASE Restart
      BY <2>1, <2>6 DEF Restart, Abstract!Next, Abstract!Restart, NoVerdict,
                        Abstract!NoVerdict
    <2>7. CASE UNCHANGED vars
      BY <2>0, <2>7 DEF vars, Window, Entries, Oldest, RingAt
    <2> QED
      BY <2>3, <2>4, <2>5, <2>6, <2>7 DEF Next
  <1> QED
    BY <1>1, <1>2, InvHolds, PTL DEF Spec, ImplementsSeenWindow, Abstract!Spec
=============================================================================
