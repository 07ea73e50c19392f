---------------------------- MODULE ConfigProofs ----------------------------
(***************************************************************************)
(* Proofs about Config, for every table of keys whose ranges fit their     *)
(* fields (FieldsFit, which MCConfig evaluates on the table of config.c),  *)
(* any values tried and a power failure between any two steps.             *)
(***************************************************************************)
EXTENDS Config, TLAPS

\* The settings name of key k fits in full_name (ConfigLongName.cfg shows a key
\* whose name does not).
Fits(k) == 3 + NameLen[k] < FullNameSize
NamesFit == \A k \in Key : Fits(k)

\* What flash holds for key k, and what a boot makes of it.
Stored(k, flash) == flash[full_name(k)]
LoadedFrom(k, flash) ==
    IF Stored(k, flash) # {} THEN CHOOSE v \in Stored(k, flash) : TRUE ELSE Default[k]

\* The variables are functions on the keys and names, and a name has one value.
Shapes ==
    /\ live \in [Key -> Int] /\ radio \in [Key -> Int]
    /\ nvs \in [Name -> SUBSET Int]
    /\ promised \in [Key -> SUBSET Int] /\ survivor \in [Key -> SUBSET Int]
    /\ \A k \in Key : \A v, w \in Stored(k, nvs) : v = w

\* What a call in progress has promised and done so far.
CallInProgress ==
    /\ op.pc = "save" => live[op.key] \in promised[op.key]
    /\ op.pc = "return" => Stored(op.key, nvs) = {live[op.key]}
    /\ op.pc = "delete" =>
           \A k \in Key : /\ Default[k] \in promised[k]
                          /\ k \notin op.left \union op.kept => Stored(k, nvs) = {}

\* Flash keeps its promise for every key whose name fits, but for what a reset
\* could not delete.
Promise ==
    \A k \in Key : Fits(k) => LoadedFrom(k, nvs) \in promised[k] \union survivor[k]

\* A running node's live values are the stored ones, but for the key that a call
\* in progress is about and those whose last read, save or delete failed.
Settled(k) ==
    /\ k \notin dirty
    /\ op.pc # "delete"
    /\ op.pc \in {"save", "return"} => k # op.key
LiveIsStored ==
    phase = "running" =>
        \A k \in Key : Fits(k) /\ Settled(k) => live[k] = LoadedFrom(k, nvs)

\* The inductive invariant.
Inv ==
    /\ TypeOK
    /\ Shapes
    /\ CallInProgress
    /\ Promise
    /\ LiveIsStored

-----------------------------------------------------------------------------
\* A value in range passes through the field unchanged.
LEMMA FieldKeepsValue ==
    ASSUME FieldsFit, NEW k \in Key, NEW v \in Int, InRange(k, v)
    PROVE  write_field(k, v) = v
  <1>1. Size[k] \in {1, 2, 4} /\ Min[k] \in Int /\ Max[k] \in Int
    BY TableAssumption
  <1>2. CASE Size[k] = 4
    BY <1>1, <1>2 DEF write_field
  <1>3. CASE Size[k] = 1
    <2>1. Min[k] < 0 => -128 <= v /\ v < 128
      BY <1>1, <1>3 DEF FieldsFit, RangeFits, InRange
    <2>2. Min[k] >= 0 => 0 <= v /\ v < 256
      BY <1>1, <1>3 DEF FieldsFit, RangeFits, InRange
    <2>3. v % 256 = IF v < 0 THEN v + 256 ELSE v
      BY <1>1, <2>1, <2>2
    <2> QED
      BY <1>1, <1>3, <2>1, <2>2, <2>3 DEF write_field
  <1>4. CASE Size[k] = 2
    <2>1. Min[k] < 0 => -32768 <= v /\ v < 32768
      BY <1>1, <1>4 DEF FieldsFit, RangeFits, InRange
    <2>2. Min[k] >= 0 => 0 <= v /\ v < 65536
      BY <1>1, <1>4 DEF FieldsFit, RangeFits, InRange
    <2>3. v % 65536 = IF v < 0 THEN v + 65536 ELSE v
      BY <1>1, <2>1, <2>2
    <2> QED
      BY <1>1, <1>4, <2>1, <2>2, <2>3 DEF write_field
  <1> QED
    BY <1>1, <1>2, <1>3, <1>4

\* Names of different keys differ.
LEMMA NamesDiffer ==
    /\ \A k \in Key : full_name(k) \in Name
    /\ \A k, j \in Key : full_name(k) = full_name(j) => k = j
    /\ \A n \in Name : \E k \in Key : n = full_name(k) /\ n[1] = k
  BY DEF full_name, Name

\* A boot loads what is stored under a name that fits, and the default for a key
\* whose name does not.
LEMMA LoadedIs ==
    ASSUME NEW k \in Key
    PROVE  /\ Fits(k) => Loaded(k) = LoadedFrom(k, nvs) /\ Loaded(k)' = LoadedFrom(k, nvs')
           /\ ~Fits(k) => Loaded(k) = Default[k]
  <1>1. 3 + NameLen[k] \in Nat
    BY TableAssumption
  <1>2. CASE Fits(k)
    <2>1. Qualified(k) = full_name(k) /\ find_key(k) = {full_name(k)}
      BY <1>2 DEF Fits, Qualified, full_name, find_key, Name
    <2> QED
      BY <1>2, <2>1 DEF Loaded, Found, LoadedFrom, Stored
  <1>3. CASE ~Fits(k)
    <2>1. \A j \in Key : full_name(j) # Qualified(k)
      BY <1>1, <1>3, TableAssumption DEF Fits, Qualified, full_name, FullNameSize
    <2>2. find_key(k) = {}
      BY <2>1 DEF find_key, Name
    <2> QED
      BY <1>3, <2>2 DEF Loaded, Found
  <1> QED
    BY <1>2, <1>3

\* What LoadedFrom returns, by what is stored.
LEMMA LoadedFromIs ==
    ASSUME NEW k \in Key, NEW flash
    PROVE  /\ Stored(k, flash) = {} => LoadedFrom(k, flash) = Default[k]
           /\ Stored(k, flash) # {} => LoadedFrom(k, flash) \in Stored(k, flash)
           /\ \A v : Stored(k, flash) = {v} => LoadedFrom(k, flash) = v
  BY DEF LoadedFrom

\* What is stored for a key is in its range, and so is what a boot loads.
LEMMA LoadedInRange ==
    ASSUME Inv, NEW k \in Key
    PROVE  Stored(k, nvs) \subseteq Min[k] .. Max[k] /\ Loaded(k) \in Min[k] .. Max[k]
  <1>1. Stored(k, nvs) \subseteq Min[k] .. Max[k]
    BY NamesDiffer DEF Inv, TypeOK, Stored, full_name
  <1>2. Default[k] \in Min[k] .. Max[k]
    BY TableAssumption
  <1> QED
    BY <1>1, <1>2, LoadedIs, LoadedFromIs

\* The call in progress, read off its type.
LEMMA OpShape ==
    ASSUME TypeOK
    PROVE  /\ op = NoOp <=> op.pc = "none"
           /\ op.pc \in {"none", "save", "return", "delete"}
           /\ op.pc \in {"save", "return"} => op.key \in Key
           /\ op.pc = "delete" =>
                 /\ op \in [pc : {"delete"}, left : SUBSET Key, kept : SUBSET Key]
                 /\ op.left \subseteq Key /\ op.kept \subseteq Key
  BY DEF TypeOK, NoOp

\* A step that leaves flash, the promises and the call alone keeps what they say
\* to each other.
LEMMA FlashUntouched ==
    ASSUME Inv, UNCHANGED <<nvs, promised, survivor>>
    PROVE  Promise'
  BY DEF Inv, Promise, LoadedFrom, Stored

-----------------------------------------------------------------------------
\* Booting and losing power keep the invariant: a boot loads what is stored, and
\* RAM and the call in progress are all that is lost.
LEMMA BootKeepsInv ==
    ASSUME Inv, lora_init \/ ts_config_init \/ ts_config_init_Fails \/ PowerFail
    PROVE  Inv'
  <1>0. /\ \A k \in Key : Default[k] \in Min[k] .. Max[k]
        /\ Default \in [Key -> Int] /\ Min \in [Key -> Int] /\ Max \in [Key -> Int]
    BY TableAssumption
  <1>1. CASE lora_init
    <2>0. /\ radio' = [k \in Key |-> IF k \in RadioKey THEN live[k] ELSE radio[k]]
          /\ phase' = "threads"
          /\ UNCHANGED <<live, nvs, backend, op, promised, survivor, dirty>>
      BY <1>1 DEF lora_init
    <2>1. TypeOK' /\ Shapes'
      BY <2>0 DEF Inv, TypeOK, Shapes, Stored
    <2>2. CallInProgress' /\ LiveIsStored'
      BY <2>0 DEF Inv, CallInProgress, LiveIsStored, Stored
    <2> QED
      BY <2>0, <2>1, <2>2, FlashUntouched DEF Inv
  <1>2. CASE ts_config_init
    <2>0. /\ op = NoOp /\ phase' = "running" /\ backend' = TRUE
          /\ UNCHANGED <<nvs, radio, op, promised, survivor>>
      BY <1>2 DEF ts_config_init
    <2>1. PICK F \in SUBSET Key : live' = LoadedBut(F) /\ dirty' = F
      BY <1>2 DEF ts_config_init, Found
    <2>2. \A k \in Key : live'[k] \in Min[k] .. Max[k]
      BY <1>0, <2>1, LoadedInRange DEF LoadedBut
    <2>3. live' \in [Key -> Int]
      BY <1>0, <2>1, <2>2 DEF LoadedBut
    <2>4. TypeOK' /\ Shapes'
      BY <2>0, <2>1, <2>2, <2>3 DEF Inv, TypeOK, Shapes, Stored
    <2>5. CallInProgress'
      BY <2>0 DEF CallInProgress, NoOp
    <2>6. LiveIsStored'
      BY <2>0, <2>1, LoadedIs DEF LiveIsStored, Settled, LoadedBut
    <2> QED
      BY <2>0, <2>4, <2>5, <2>6, FlashUntouched DEF Inv
  <1>3. CASE ts_config_init_Fails
    <2>0. /\ op = NoOp /\ phase' = "halted" /\ dirty' = Key /\ backend' \in BOOLEAN
          /\ UNCHANGED <<nvs, radio, op, promised, survivor>>
      BY <1>3 DEF ts_config_init_Fails
    <2>1. live' = Default \/ \E F \in SUBSET Key : live' = LoadedBut(F)
      BY <1>3 DEF ts_config_init_Fails, Found
    <2>2. \A k \in Key : live'[k] \in Min[k] .. Max[k]
      BY <1>0, <2>1, LoadedInRange DEF LoadedBut
    <2>3. live' \in [Key -> Int]
      BY <1>0, <2>1, <2>2 DEF LoadedBut
    <2>4. TypeOK' /\ Shapes'
      BY <2>0, <2>2, <2>3 DEF Inv, TypeOK, Shapes, Stored
    <2>5. CallInProgress' /\ LiveIsStored'
      BY <2>0 DEF CallInProgress, LiveIsStored, NoOp
    <2> QED
      BY <2>0, <2>4, <2>5, FlashUntouched DEF Inv
  <1>4. CASE PowerFail
    <2>0. /\ op' = NoOp /\ live' = Default
          /\ phase' = "off" /\ dirty' = {} /\ backend' = FALSE
          /\ UNCHANGED <<nvs, radio, promised, survivor>>
      BY <1>4 DEF PowerFail
    <2>1. TypeOK' /\ Shapes'
      BY <1>0, <2>0 DEF Inv, TypeOK, Shapes, Stored
    <2>2. CallInProgress' /\ LiveIsStored'
      BY <2>0 DEF CallInProgress, LiveIsStored, NoOp
    <2> QED
      BY <2>0, <2>1, <2>2, FlashUntouched DEF Inv
  <1> QED
    BY <1>1, <1>2, <1>3, <1>4

\* ts_config_set writes the live value, which the next boot may then find.
LEMMA SetWritesKeepsInv ==
    ASSUME FieldsFit, Inv, NEW k \in Key, NEW v \in Try[k], SetWrites(k, v)
    PROVE  Inv'
  <1>0. /\ op = NoOp /\ InRange(k, v) /\ v \in Int
        /\ Min[k] \in Int /\ Max[k] \in Int
        /\ live' = [live EXCEPT ![k] = v]
        /\ op' = [pc |-> "save", key |-> k]
        /\ promised' = [promised EXCEPT ![k] = @ \union {v}]
        /\ UNCHANGED <<nvs, radio, phase, backend, survivor, dirty>>
    BY FieldKeepsValue, TryAssumption, TableAssumption DEF SetWrites, MayCall, boot
  <1>1. v \in Min[k] .. Max[k]
    BY <1>0 DEF InRange
  <1>2. /\ live'[k] = v /\ \A j \in Key : j # k => live'[j] = live[j]
        /\ promised'[k] = promised[k] \union {v}
        /\ \A j \in Key : j # k => promised'[j] = promised[j]
    BY <1>0 DEF Inv, Shapes
  <1>3. TypeOK'
    BY <1>0, <1>1, <1>2 DEF Inv, TypeOK
  <1>4. Shapes'
    BY <1>0 DEF Inv, Shapes, Stored
  <1>5. CallInProgress'
    BY <1>0, <1>2 DEF CallInProgress
  <1>6. Promise'
    BY <1>0, <1>2 DEF Inv, Promise, LoadedFrom, Stored
  <1>7. LiveIsStored'
    BY <1>0, <1>2 DEF Inv, LiveIsStored, Settled, LoadedFrom, Stored, NoOp
  <1> QED
    BY <1>3, <1>4, <1>5, <1>6, <1>7 DEF Inv

\* Saving changes what is stored under one name, to the promised live value.
LEMMA SetSavesKeepsInv == ASSUME Inv, SetSaves PROVE Inv'
  <1> DEFINE k == op.key
  <1>0. /\ op.pc = "save" /\ k \in Key
        /\ nvs' = [nvs EXCEPT ![full_name(k)] = {live[k]}]
        /\ op' = [pc |-> "return", key |-> k]
        /\ UNCHANGED <<live, radio, phase, backend, promised, survivor, dirty>>
    BY OpShape DEF Inv, SetSaves, boot
  <1> HIDE DEF k
  <1>1. /\ Stored(k, nvs') = {live[k]}
        /\ \A j \in Key : j # k => Stored(j, nvs') = Stored(j, nvs)
        /\ live[k] \in Int /\ live[k] \in Min[k] .. Max[k] /\ live[k] \in promised[k]
    BY <1>0, NamesDiffer DEF Inv, TypeOK, Shapes, Stored, CallInProgress, k
  <1>2. TypeOK'
    <2>1. \A n \in Name : nvs'[n] \subseteq Min[n[1]] .. Max[n[1]]
      BY <1>0, <1>1, NamesDiffer DEF Inv, TypeOK, Shapes
    <2> QED
      BY <1>0, <2>1 DEF Inv, TypeOK
  <1>3. Shapes'
    <2>1. nvs' \in [Name -> SUBSET Int]
      BY <1>0, <1>1 DEF Inv, Shapes
    <2>2. ASSUME NEW j \in Key, NEW v \in Stored(j, nvs'), NEW w \in Stored(j, nvs')
          PROVE  v = w
      BY <1>1 DEF Inv, Shapes
    <2> QED
      BY <1>0, <2>1, <2>2 DEF Inv, Shapes
  <1>4. CallInProgress'
    BY <1>0, <1>1 DEF CallInProgress
  <1>5. Promise'
    BY <1>0, <1>1, LoadedFromIs DEF Inv, Promise, LoadedFrom
  <1>6. LiveIsStored'
    BY <1>0, <1>1 DEF Inv, LiveIsStored, Settled, LoadedFrom, k
  <1> QED
    BY <1>2, <1>3, <1>4, <1>5, <1>6 DEF Inv

\* Returning 0 withdraws every other promise about the key.
LEMMA SetReturnsKeepsInv == ASSUME Inv, SetReturns PROVE Inv'
  <1> DEFINE k == op.key
  <1>0. /\ op.pc = "return" /\ k \in Key
        /\ op' = NoOp
        /\ promised' = [promised EXCEPT ![k] = {live[k]}]
        /\ survivor' = [survivor EXCEPT ![k] = {}]
        /\ dirty' = dirty \ {k}
        /\ UNCHANGED <<live, radio, nvs, phase, backend>>
    BY OpShape DEF Inv, SetReturns, boot
  <1> HIDE DEF k
  <1>1. /\ promised'[k] = {live[k]} /\ \A j \in Key : j # k => promised'[j] = promised[j]
        /\ survivor'[k] = {} /\ \A j \in Key : j # k => survivor'[j] = survivor[j]
        /\ live[k] \in Int /\ live[k] \in Min[k] .. Max[k]
    BY <1>0 DEF Inv, TypeOK, Shapes
  <1>2. LoadedFrom(k, nvs) = live[k]
    BY <1>0, LoadedFromIs DEF Inv, CallInProgress, k
  <1>3. TypeOK'
    BY <1>0, <1>1 DEF Inv, TypeOK
  <1>4. Shapes'
    BY <1>0, <1>1 DEF Inv, Shapes, Stored
  <1>5. CallInProgress'
    BY <1>0 DEF CallInProgress, NoOp
  <1>6. Promise'
    <2>1. ASSUME NEW j \in Key, Fits(j) PROVE LoadedFrom(j, nvs) \in promised'[j] \union survivor'[j]
      BY <1>1, <1>2, <2>1 DEF Inv, Promise
    <2> QED
      BY <1>0, <2>1 DEF Promise
  <1>7. LiveIsStored'
    <2> SUFFICES ASSUME phase = "running", NEW j \in Key, Fits(j), Settled(j)'
                 PROVE  live[j] = LoadedFrom(j, nvs)
      BY <1>0 DEF LiveIsStored
    <2>1. CASE j = k
      BY <1>2, <2>1
    <2>2. CASE j # k
      BY <1>0, <2>2 DEF Inv, LiveIsStored, Settled, k
    <2> QED
      BY <2>1, <2>2
  <1> QED
    BY <1>3, <1>4, <1>5, <1>6, <1>7 DEF Inv

\* A save that failed leaves the live value and the promises, and is remembered.
LEMMA SetFailsKeepsInv == ASSUME Inv, SetFails PROVE Inv'
  <1>0. /\ op.pc = "save" /\ op.key \in Key /\ op' = NoOp
        /\ dirty' = dirty \union {op.key}
        /\ UNCHANGED <<live, radio, nvs, phase, backend, promised, survivor>>
    BY OpShape DEF Inv, SetFails, boot
  <1>1. TypeOK' /\ Shapes'
    BY <1>0 DEF Inv, TypeOK, Shapes, Stored
  <1>2. CallInProgress'
    BY <1>0 DEF CallInProgress, NoOp
  <1>3. LiveIsStored'
    BY <1>0 DEF Inv, LiveIsStored, Settled, NoOp
  <1> QED
    BY <1>0, <1>1, <1>2, <1>3, FlashUntouched DEF Inv

\* A reset first promises the defaults besides what was promised.
LEMMA ResetStartsKeepsInv == ASSUME Inv, ResetStarts PROVE Inv'
  <1>0. /\ op' = [pc |-> "delete", left |-> Key, kept |-> {}]
        /\ promised' = [k \in Key |-> promised[k] \union {Default[k]}]
        /\ UNCHANGED <<live, radio, nvs, phase, backend, survivor, dirty>>
    BY DEF ResetStarts, boot
  <1>1. \A k \in Key : Default[k] \in Int /\ Default[k] \in Min[k] .. Max[k]
    BY TableAssumption
  <1>2. TypeOK' /\ Shapes'
    BY <1>0, <1>1 DEF Inv, TypeOK, Shapes, Stored
  <1>3. CallInProgress'
    BY <1>0 DEF CallInProgress
  <1>4. Promise'
    BY <1>0 DEF Inv, Promise, LoadedFrom, Stored
  <1>5. LiveIsStored'
    BY <1>0 DEF LiveIsStored, Settled
  <1> QED
    BY <1>2, <1>3, <1>4, <1>5 DEF Inv

\* Each iteration deletes one setting, whose default is promised, or keeps it and
\* the promise about it.
LEMMA ResetDeletesKeepsInv ==
    ASSUME Inv, NEW k \in Key, ResetDeletes(k)
    PROVE  Inv'
  <1>0. /\ op.pc = "delete" /\ k \in op.left
        /\ op \in [pc : {"delete"}, left : SUBSET Key, kept : SUBSET Key]
        /\ UNCHANGED <<live, radio, phase, backend, promised, survivor, dirty>>
    BY OpShape DEF Inv, ResetDeletes, boot
  <1>1. CASE /\ nvs' = [nvs EXCEPT ![full_name(k)] = {}]
             /\ op' = [op EXCEPT !.left = @ \ {k}]
    <2>1. /\ Stored(k, nvs') = {}
          /\ \A j \in Key : j # k => Stored(j, nvs') = Stored(j, nvs)
          /\ \A n \in Name : nvs'[n] \subseteq nvs[n]
          /\ nvs' \in [Name -> SUBSET Int]
      BY <1>1, NamesDiffer DEF Inv, Shapes, Stored
    <2>2. /\ op' \in [pc : {"delete"}, left : SUBSET Key, kept : SUBSET Key]
          /\ op'.pc = "delete" /\ op'.left = op.left \ {k} /\ op'.kept = op.kept
      BY <1>0, <1>1
    <2>3. TypeOK'
      <3>1. \A n \in Name : nvs'[n] \subseteq Min[n[1]] .. Max[n[1]]
        BY <2>1 DEF Inv, TypeOK
      <3> QED
        BY <1>0, <2>2, <3>1 DEF Inv, TypeOK
    <2>4. Shapes'
      <3>1. ASSUME NEW j \in Key, NEW v \in Stored(j, nvs'), NEW w \in Stored(j, nvs')
            PROVE  v = w
        BY <2>1 DEF Inv, Shapes
      <3> QED
        BY <1>0, <2>1, <3>1 DEF Inv, Shapes
    <2>5. CallInProgress'
      <3>1. ASSUME NEW j \in Key, j \notin op'.left \union op'.kept
            PROVE  Stored(j, nvs') = {}
        BY <1>0, <2>1, <2>2, <3>1 DEF Inv, CallInProgress
      <3> QED
        BY <1>0, <2>2, <3>1 DEF Inv, CallInProgress
    <2>6. Promise'
      <3>1. ASSUME NEW j \in Key, Fits(j) PROVE LoadedFrom(j, nvs') \in promised[j] \union survivor[j]
        <4>1. CASE j = k
          BY <1>0, <2>1, <4>1, LoadedFromIs DEF Inv, CallInProgress
        <4>2. CASE j # k
          BY <2>1, <3>1, <4>2 DEF Inv, Promise, LoadedFrom
        <4> QED
          BY <4>1, <4>2
      <3> QED
        BY <1>0, <3>1 DEF Promise
    <2>7. LiveIsStored'
      BY <2>2 DEF LiveIsStored, Settled
    <2> QED
      BY <2>3, <2>4, <2>5, <2>6, <2>7 DEF Inv
  <1>2. CASE /\ op' = [op EXCEPT !.left = @ \ {k}, !.kept = @ \union {k}]
             /\ UNCHANGED nvs
    <2>1. /\ op' \in [pc : {"delete"}, left : SUBSET Key, kept : SUBSET Key]
          /\ op'.pc = "delete" /\ op'.left = op.left \ {k}
          /\ op'.kept = op.kept \union {k}
      BY <1>0, <1>2
    <2>2. TypeOK' /\ Shapes'
      BY <1>0, <1>2, <2>1 DEF Inv, TypeOK, Shapes, Stored
    <2>3. CallInProgress'
      BY <1>0, <1>2, <2>1 DEF Inv, CallInProgress
    <2>4. LiveIsStored'
      BY <2>1 DEF LiveIsStored, Settled
    <2> QED
      BY <1>0, <1>2, <2>2, <2>3, <2>4, FlashUntouched DEF Inv
  <1> QED
    BY <1>1, <1>2 DEF ResetDeletes

\* At its end the live configuration is the default one, and so is what is stored,
\* but for the settings it could not delete.
LEMMA ResetReturnsKeepsInv == ASSUME Inv, ResetReturns PROVE Inv'
  <1>0. /\ op.pc = "delete" /\ op.left = {} /\ op.kept \subseteq Key
        /\ live' = Default /\ op' = NoOp /\ dirty' = op.kept
        /\ promised' = [k \in Key |-> {Default[k]}]
        /\ survivor' = [k \in Key |-> IF k \in op.kept THEN survivor[k] \union promised[k]
                                                       ELSE {}]
        /\ UNCHANGED <<radio, nvs, phase, backend>>
    BY OpShape DEF Inv, ResetReturns, boot
  <1>1. \A k \in Key : Default[k] \in Int /\ Default[k] \in Min[k] .. Max[k]
    BY TableAssumption
  <1>2. \A k \in Key : k \notin op.kept => LoadedFrom(k, nvs) = Default[k]
    BY <1>0, LoadedFromIs DEF Inv, CallInProgress
  <1>3. TypeOK'
    BY <1>0, <1>1 DEF Inv, TypeOK
  <1>4. Shapes'
    BY <1>0, <1>1, TableAssumption DEF Inv, Shapes, Stored
  <1>5. CallInProgress'
    BY <1>0 DEF CallInProgress, NoOp
  <1>6. Promise'
    <2>1. ASSUME NEW j \in Key, Fits(j) PROVE LoadedFrom(j, nvs) \in promised'[j] \union survivor'[j]
      BY <1>0, <1>2, <2>1 DEF Inv, Promise
    <2> QED
      BY <1>0, <2>1 DEF Promise
  <1>7. LiveIsStored'
    BY <1>0, <1>2 DEF LiveIsStored, Settled
  <1> QED
    BY <1>3, <1>4, <1>5, <1>6, <1>7 DEF Inv

-----------------------------------------------------------------------------
\* The invariant holds when the node is first switched on, and every step keeps
\* it.
LEMMA InvHolds == ASSUME FieldsFit PROVE Spec => []Inv
  <1>1. Init => Inv
    <2> SUFFICES ASSUME Init PROVE Inv
      OBVIOUS
    <2>1. /\ \A k \in Key : Default[k] \in Int /\ Default[k] \in Min[k] .. Max[k]
          /\ Default \in [Key -> Int]
      BY TableAssumption
    <2>2. \A k \in Key : Stored(k, nvs) = {}
      BY NamesDiffer DEF Init, Stored
    <2>3. TypeOK /\ Shapes
      BY <2>1, <2>2 DEF Init, TypeOK, Shapes
    <2>4. CallInProgress /\ LiveIsStored
      BY DEF Init, CallInProgress, LiveIsStored, NoOp
    <2>5. Promise
      BY <2>2, LoadedFromIs DEF Init, Promise
    <2> QED
      BY <2>3, <2>4, <2>5 DEF Inv
  <1>2. Inv /\ [Next]_vars => Inv'
    <2> SUFFICES ASSUME Inv, [Next]_vars PROVE Inv'
      OBVIOUS
    <2>1. CASE lora_init \/ ts_config_init \/ ts_config_init_Fails \/ PowerFail
      BY <2>1, BootKeepsInv
    <2>2. ASSUME NEW k \in Key, NEW v \in Try[k], SetWrites(k, v) PROVE Inv'
      BY <2>2, SetWritesKeepsInv
    <2>3. CASE SetSaves \/ SetReturns \/ SetFails
      BY <2>3, SetSavesKeepsInv, SetReturnsKeepsInv, SetFailsKeepsInv
    <2>4. CASE ResetStarts \/ ResetReturns \/ \E k \in Key : ResetDeletes(k)
      BY <2>4, ResetStartsKeepsInv, ResetReturnsKeepsInv, ResetDeletesKeepsInv
    <2>5. CASE UNCHANGED vars
      BY <2>5 DEF vars, Inv, TypeOK, Shapes, CallInProgress, Promise, LiveIsStored,
                  Settled, LoadedFrom, Stored
    <2> QED
      BY <2>1, <2>2, <2>3, <2>4, <2>5 DEF Next, SetRejects
  <1> QED
    BY <1>1, <1>2, PTL DEF Spec

\* Type correctness: every live, stored and radio value lies in its key's range,
\* because what ts_config_set lets through survives the narrowing of write_field.
THEOREM TypeCorrect == ASSUME FieldsFit PROVE Spec => []TypeOK
  <1>1. Inv => TypeOK
    BY DEF Inv
  <1> QED
    BY <1>1, InvHolds, PTL

\* Whatever the other keys of the table, a key whose settings name fits in
\* full_name is persisted as ts_config_set promises: across power failures flash
\* holds its last acknowledged value, one tried since, or one that a reset could
\* not delete.
THEOREM FittingKeysPersist ==
    ASSUME FieldsFit
    PROVE  Spec => [](\A k \in Key : Fits(k) => Loaded(k) \in promised[k] \union survivor[k])
  <1>1. Inv => \A k \in Key : Fits(k) => Loaded(k) \in promised[k] \union survivor[k]
    BY LoadedIs DEF Inv, Promise
  <1> QED
    BY <1>1, InvHolds, PTL

\* If all names fit, ts_config_set keeps its promise for the whole configuration,
\* and ts_config_reset up to the deletes that failed.
THEOREM PromiseIsKept == ASSUME FieldsFit, NamesFit PROVE Spec => []NextBootKeepsPromise
  <1>1. Inv => NextBootKeepsPromise
    BY LoadedIs DEF Inv, Promise, NamesFit, NextBootKeepsPromise
  <1> QED
    BY <1>1, InvHolds, PTL

\* The ignored result of settings_delete is all that is wrong with ts_config_reset:
\* while no delete of a key whose name fits has failed in a reset that returned 0,
\* the next boot finds what the last call promised.
THEOREM OnlyFailedDeletesSurvive ==
    ASSUME FieldsFit
    PROVE  Spec => [](\A k \in Key : Fits(k) /\ survivor[k] = {} => Loaded(k) \in promised[k])
  <1>1. Inv => \A k \in Key : Fits(k) /\ survivor[k] = {} => Loaded(k) \in promised[k]
    BY LoadedIs DEF Inv, Promise
  <1> QED
    BY <1>1, InvHolds, PTL

\* If all names fit, a running node between two calls lives with the configuration
\* that its next boot would load, but for the keys whose last read, save or delete
\* failed.
THEOREM LiveIsPersisted == ASSUME FieldsFit, NamesFit PROVE Spec => []LiveMatchesFlash
  <1>1. Inv => LiveMatchesFlash
    BY LoadedIs DEF Inv, LiveIsStored, Settled, NoOp, NamesFit, LiveMatchesFlash
  <1> QED
    BY <1>1, InvHolds, PTL

-----------------------------------------------------------------------------
(* What the long name and the boot order do, whatever the table               *)

\* A key whose settings name does not fit in full_name forgets every value:
\* whatever ts_config_set acknowledged and flash holds, and whenever power fails,
\* ts_config_init leaves its default in the live configuration.
THEOREM LongNamesForget ==
    Spec => [][ts_config_init => \A k \in Key : ~Fits(k) => live'[k] = Default[k]]_vars
  <1>1. ASSUME ts_config_init PROVE \A k \in Key : ~Fits(k) => live'[k] = Default[k]
    BY <1>1, LoadedIs DEF ts_config_init, LoadedBut
  <1> QED
    BY <1>1, PTL

\* SYS_INIT configures the radio before main() loads the settings, in every boot:
\* the live configuration of a node that is off is the default one.
RadioInv ==
    /\ \A k \in Key : radio[k] = Default[k]
    /\ phase = "off" => live = Default /\ op = NoOp

\* PLAN.md says "Values are stored in NVS flash and loaded at boot" and "call
\* ts_config_init() in main() before all other module inits".  The radio parameters
\* are stored and loaded, but never reach the radio: for every table, whatever is
\* set, saved and loaded and however often the node restarts, lora_config gets the
\* defaults.
THEOREM RadioKeepsDefaults == Spec => [](\A k \in Key : radio[k] = Default[k])
  <1>1. Init => RadioInv
    BY DEF Init, RadioInv
  <1>2. RadioInv /\ [Next]_vars => RadioInv'
    <2> SUFFICES ASSUME RadioInv, [Next]_vars PROVE RadioInv'
      OBVIOUS
    <2>1. CASE lora_init
      BY <2>1 DEF RadioInv, lora_init
    <2>2. CASE ts_config_init \/ ts_config_init_Fails \/ PowerFail
      BY <2>2 DEF RadioInv, ts_config_init, ts_config_init_Fails, PowerFail
    <2>3. ASSUME NEW k \in Key, NEW v \in Try[k], SetRejects(k, v) \/ SetWrites(k, v)
          PROVE  RadioInv'
      BY <2>3 DEF RadioInv, SetRejects, SetWrites, MayCall, boot, vars
    <2>4. CASE SetSaves \/ SetReturns \/ SetFails
      BY <2>4 DEF RadioInv, SetSaves, SetReturns, SetFails, NoOp, boot
    <2>5. CASE ResetStarts \/ ResetReturns \/ \E k \in Key : ResetDeletes(k)
      BY <2>5 DEF RadioInv, ResetStarts, ResetReturns, ResetDeletes, MayCall, NoOp, boot
    <2>6. CASE UNCHANGED vars
      BY <2>6 DEF RadioInv, vars
    <2> QED
      BY <2>1, <2>2, <2>3, <2>4, <2>5, <2>6 DEF Next
  <1>3. RadioInv => \A k \in Key : radio[k] = Default[k]
    BY DEF RadioInv
  <1> QED
    BY <1>1, <1>2, <1>3, PTL DEF Spec
=============================================================================
