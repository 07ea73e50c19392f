------------------------------- MODULE Config -------------------------------
(***************************************************************************)
(* config.c: the live configuration in RAM, its copy in flash (the         *)
(* settings subsystem), and the boot sequence that fills the one from the  *)
(* other.  Power may fail between any two steps.                           *)
(*                                                                         *)
(* A settings name is the pair of a key and a number of characters: the    *)
(* first that many characters of "ts/<key>".  snprintf into full_name[32]  *)
(* keeps at most 31 of them, and find_key recognises a name only when all  *)
(* of it is there.                                                         *)
(***************************************************************************)
EXTENDS Integers, FiniteSets

CONSTANTS
    Key,            \* the keys of config_keys
    NameLen,        \* the length of each key's name
    Min, Max,       \* each key's valid range
    Size,           \* the size in bytes of each key's field
    Default,        \* TS_CONFIG_DEFAULTS
    Try,            \* the values that a remote config set carries, per key
    RadioKey        \* the keys that lora_populate_modem_config reads

ASSUME TableAssumption ==
    /\ NameLen \in [Key -> Nat]
    /\ Min \in [Key -> Int] /\ Max \in [Key -> Int]
    /\ Size \in [Key -> {1, 2, 4}]
    /\ Default \in [Key -> Int]
    /\ \A k \in Key : Default[k] \in Min[k] .. Max[k]
ASSUME TryAssumption == \A k \in Key : Try[k] \subseteq Int
ASSUME RadioAssumption == RadioKey \subseteq Key

VARIABLES
    live,       \* live_config
    nvs,        \* the settings in flash, by name: a value, or none
    radio,      \* the radio parameters given to lora_config
    phase,      \* how far the boot has come
    backend,    \* has settings_subsys_init succeeded?
    op,         \* the call of ts_config_set or ts_config_reset in progress
    promised,   \* history: per key, the values the next boot may find
    survivor,   \* history: per key, the values a reset has said to be erased, and
                \* whose delete failed
    dirty       \* history: the keys whose last read, save or delete failed since
                \* the boot

vars == <<live, nvs, radio, phase, backend, op, promised, survivor, dirty>>
boot == <<radio, phase, backend>>

NoOp == [pc |-> "none"]

-----------------------------------------------------------------------------
\* char full_name[32]; snprintf(full_name, sizeof(full_name), "ts/%s", name)
FullNameSize == 32

Qualified(k) == <<k, 3 + NameLen[k]>>

\* Fault: the last character is lost even when the name just fits.
full_name_DropsOne(k) ==
    <<k, IF 3 + NameLen[k] < FullNameSize - 1 THEN 3 + NameLen[k]
                                              ELSE FullNameSize - 2>>

full_name(k) ==
    <<k, IF 3 + NameLen[k] < FullNameSize THEN 3 + NameLen[k]
                                          ELSE FullNameSize - 1>>

Name == {full_name(k) : k \in Key}

\* The stored names that find_key recognises as key k.
find_key(k) == {n \in Name : n = Qualified(k)}

\* Fault: narrow fields are always written as unsigned.
write_field_Unsigned(k, v) ==
    CASE Size[k] = 1 -> v % 256
      [] Size[k] = 2 -> v % 65536
      [] OTHER -> v

\* The value that a field of the key's size and signedness holds after v is
\* written.  A four-byte field holds every value that fits in an int32_t.
write_field(k, v) ==
    LET width == CASE Size[k] = 1 -> 256 [] Size[k] = 2 -> 65536 [] OTHER -> 0
        low == v % width
    IN  IF width = 0 THEN v
        ELSE IF Min[k] < 0 /\ 2 * low >= width THEN low - width
        ELSE low

\* Does a range fit a field of the given size, which is signed exactly if the
\* range has negative values?  write_field then stores what it is given.
RangeFits(size, lo, hi) ==
    LET width == IF size = 1 THEN 256 ELSE 65536
    IN  size # 4 => IF lo < 0 THEN 2 * lo >= -width /\ 2 * hi < width ELSE hi < width

FieldsFit == \A k \in Key : RangeFits(Size[k], Min[k], Max[k])

\* The keys for which settings_load finds a setting that config_settings_set
\* recognises, and what it finds; the others keep their defaults.
Found == {k \in Key : \E n \in find_key(k) : nvs[n] # {}}
Loaded(k) ==
    IF k \in Found THEN CHOOSE v \in nvs[Qualified(k)] : TRUE ELSE Default[k]

\* What is left in live_config when the settings of the keys in F are not read:
\* the defaults first, then every other setting.
LoadedBut(F) == [k \in Key |-> IF k \in F THEN Default[k] ELSE Loaded(k)]

-----------------------------------------------------------------------------
(* Boot                                                                     *)

Init ==
    /\ live = Default
    /\ nvs = [n \in Name |-> {}]
    /\ radio = Default
    /\ phase = "off"
    /\ backend = FALSE
    /\ op = NoOp
    /\ promised = [k \in Key |-> {Default[k]}]
    /\ survivor = [k \in Key |-> {}]
    /\ dirty = {}

\* SYS_INIT: the radio is configured from the configuration as it is then.
lora_init ==
    /\ phase = "off"
    /\ radio' = [k \in Key |-> IF k \in RadioKey THEN live[k] ELSE radio[k]]
    /\ phase' = "threads"
    /\ UNCHANGED <<live, nvs, backend, op, promised, survivor, dirty>>

\* main() calls ts_config_init, which holds config_mutex throughout.  A setting
\* that cannot be read keeps its default, and the boot goes on.
ts_config_init ==
    /\ phase = "threads"
    /\ op = NoOp
    /\ \E F \in SUBSET Found :
        /\ live' = LoadedBut(F)
        /\ dirty' = F
    /\ backend' = TRUE
    /\ phase' = "running"
    /\ UNCHANGED <<nvs, radio, op, promised, survivor>>

\* settings_subsys_init failed, or settings_load did part of the way: main()
\* returns, the two radio threads go on with what there is.
ts_config_init_Fails ==
    /\ phase = "threads"
    /\ op = NoOp
    /\ \/ live' = Default /\ backend' = FALSE
       \/ (\E F \in SUBSET Found : live' = LoadedBut(F)) /\ backend' = TRUE
    /\ phase' = "halted"
    /\ dirty' = Key
    /\ UNCHANGED <<nvs, radio, op, promised, survivor>>

\* Power fails: RAM and the call in progress are lost.
PowerFail ==
    /\ phase # "off"
    /\ live' = Default
    /\ phase' = "off"
    /\ backend' = FALSE
    /\ op' = NoOp
    /\ dirty' = {}
    /\ UNCHANGED <<nvs, radio, promised, survivor>>

-----------------------------------------------------------------------------
(* ts_config_set, called by the RX thread for a remote config set.          *)

MayCall == phase # "off" /\ op = NoOp

InRange(k, v) == Min[k] <= v /\ v <= Max[k]

\* -EINVAL.  An unknown key (-ENOENT) changes nothing either.
SetRejects(k, v) ==
    /\ MayCall
    /\ ~InRange(k, v)
    /\ UNCHANGED vars

SetWrites(k, v) ==
    /\ MayCall
    /\ InRange(k, v)
    /\ live' = [live EXCEPT ![k] = write_field(k, v)]
    /\ op' = [pc |-> "save", key |-> k]
    /\ promised' = [promised EXCEPT ![k] = @ \union {v}]
    /\ UNCHANGED <<nvs, boot, survivor, dirty>>

\* settings_save_one succeeded and ts_config_set returns 0 in a later step:
\* power may fail in between.
SetSaves ==
    /\ op.pc = "save"
    /\ backend
    /\ nvs' = [nvs EXCEPT ![full_name(op.key)] = {live[op.key]}]
    /\ op' = [pc |-> "return", key |-> op.key]
    /\ UNCHANGED <<live, boot, promised, survivor, dirty>>

SetReturns ==
    /\ op.pc = "return"
    /\ op' = NoOp
    /\ promised' = [promised EXCEPT ![op.key] = {live[op.key]}]
    /\ survivor' = [survivor EXCEPT ![op.key] = {}]
    /\ dirty' = dirty \ {op.key}
    /\ UNCHANGED <<live, nvs, boot>>

\* settings_save_one failed: an error is returned, the live value stays.
SetFails ==
    /\ op.pc = "save"
    /\ op' = NoOp
    /\ dirty' = dirty \union {op.key}
    /\ UNCHANGED <<live, nvs, boot, promised, survivor>>

-----------------------------------------------------------------------------
(* ts_config_reset                                                          *)

ResetStarts ==
    /\ MayCall
    /\ op' = [pc |-> "delete", left |-> Key, kept |-> {}]
    /\ promised' = [k \in Key |-> promised[k] \union {Default[k]}]
    /\ UNCHANGED <<live, nvs, boot, survivor, dirty>>

\* One iteration; the result of settings_delete is ignored.  kept is history:
\* the keys for which it failed.
ResetDeletes(k) ==
    /\ op.pc = "delete"
    /\ k \in op.left
    /\ \/ /\ backend
          /\ nvs' = [nvs EXCEPT ![full_name(k)] = {}]
          /\ op' = [op EXCEPT !.left = @ \ {k}]
       \/ /\ op' = [op EXCEPT !.left = @ \ {k}, !.kept = @ \union {k}]
          /\ UNCHANGED nvs
    /\ UNCHANGED <<live, boot, promised, survivor, dirty>>

\* Fault: the live configuration is not restored.
ResetReturns_KeepsLive ==
    /\ op.pc = "delete"
    /\ op.left = {}
    /\ op' = NoOp
    /\ promised' = [k \in Key |-> {Default[k]}]
    /\ survivor' = [k \in Key |-> IF k \in op.kept THEN survivor[k] \union promised[k]
                                                   ELSE {}]
    /\ dirty' = op.kept
    /\ UNCHANGED <<live, nvs, boot>>

\* It returns 0, which is to say that the persisted values are erased.
ResetReturns ==
    /\ op.pc = "delete"
    /\ op.left = {}
    /\ live' = Default
    /\ op' = NoOp
    /\ promised' = [k \in Key |-> {Default[k]}]
    /\ survivor' = [k \in Key |-> IF k \in op.kept THEN survivor[k] \union promised[k]
                                                   ELSE {}]
    /\ dirty' = op.kept
    /\ UNCHANGED <<nvs, boot>>

Next ==
    \/ lora_init \/ ts_config_init \/ ts_config_init_Fails \/ PowerFail
    \/ \E k \in Key : \E v \in Try[k] : SetRejects(k, v) \/ SetWrites(k, v)
    \/ SetSaves \/ SetReturns \/ SetFails
    \/ ResetStarts \/ ResetReturns \/ \E k \in Key : ResetDeletes(k)

Spec == Init /\ [][Next]_vars

-----------------------------------------------------------------------------
(***************************************************************************)
(* Properties                                                              *)
(***************************************************************************)

\* Every value of the configuration, live, in flash and in the radio, lies in
\* the range of its key: narrowing to the field's size never changes it.
TypeOK ==
    /\ \A k \in Key : live[k] \in Min[k] .. Max[k] /\ radio[k] \in Min[k] .. Max[k]
    /\ \A n \in Name : nvs[n] \subseteq Min[n[1]] .. Max[n[1]]
    /\ phase \in {"off", "threads", "running", "halted"}
    /\ backend \in BOOLEAN
    /\ op \in {NoOp} \union [pc : {"save", "return"}, key : Key]
                     \union [pc : {"delete"}, left : SUBSET Key, kept : SUBSET Key]
    /\ \A k \in Key : promised[k] \union survivor[k] \subseteq Min[k] .. Max[k]
    /\ dirty \subseteq Key

\* config.h: ts_config_set "updates the live struct, and persists to NVS".
\* Whenever power fails, flash holds for every key the value of the last call
\* that returned 0, or of one that was interrupted or failed since.  What a
\* reset could not delete is the one exception, and then nothing else comes
\* back: that there is this exception at all is what ResetErases is about.
NextBootKeepsPromise == \A k \in Key : Loaded(k) \in promised[k] \union survivor[k]

\* config.h on ts_config_reset: "Erases persisted values", "0 on success,
\* negative errno on failure".  Once it has returned 0 and until a set is
\* tried, the next boot finds the default.
ResetErases == \A k \in Key : promised[k] = {Default[k]} => Loaded(k) = Default[k]

\* Between two calls in a running node, the live value of a key is the one
\* the next boot would load, unless its last read, save or delete failed.
LiveMatchesFlash ==
    phase = "running" /\ op = NoOp =>
        \A k \in Key \ dirty : live[k] = Loaded(k)
=============================================================================
