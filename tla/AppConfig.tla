------------------------------ MODULE AppConfig ------------------------------
(***************************************************************************)
(* The device's settings (components/app_config): when they are valid, and *)
(* how they are kept in NVS and read back, also by firmware newer than the *)
(* one that wrote them.  Pure operators over a configuration c, a blob b   *)
(* and a store of blobs.                                                   *)
(*                                                                         *)
(* The settings of Wi-Fi and access point, of HomeKit, and of the          *)
(* administrator are one value each: they are stored field by field, and   *)
(* no rule relates them to others.  Labels and the bytes of strings are    *)
(* left out.                                                               *)
(***************************************************************************)
EXTENDS SignalDecoder

CONSTANTS
  Wifis, HomeKits, Admins,  \* the values validate accepts
  Unset,                    \* an empty name, password or verifier
  InputIds, RuleSets        \* ids and rules that a decoder may have

NoRules == [inputs |-> <<>>, rules |-> <<>>]

ASSUME ConfigAssumption ==
  Unset \notin Wifis \cup HomeKits \cup Admins /\ NoRules \in RuleSets

kSchemaVersion == 4

Profiles        == {"sequential", "directional"}
Topologies      == {"single", "dual"}
DecoderProfiles == {"EndpointPreset", "CustomRules"}
Ends            == {"Open", "Closed"}
Levels          == {"low", "high"}
Pulls           == {"none", "up", "down"}

\* What std::int8_t holds; no form or profile goes beyond -1..39.
Gpios == -128..127

Outputs  == [gpio : Gpios, level : Levels, pulse : Nat]
Inputs   == [gpio : Gpios, level : Levels, pull : Pulls, debounce : Nat]
Timings  == [opening : Nat, closing : Nat, release : Nat]

\* A declared input has an id, which rules refer to, and its wiring.
Decoders ==
  [profile : {"unknown"} \cup DecoderProfiles,
   inputs : Seq([id : InputIds, wiring : Inputs]), rules : RuleSets]

\* What is read from flash may be of a value the firmware does not know.
AppConfigs ==
  [schema : Nat, wifi : {Unset} \cup Wifis, homekit : {Unset} \cup HomeKits,
   admin : {Unset} \cup Admins, timing : Timings, interval : Nat,
   profile : {"unknown"} \cup Profiles, step : Outputs, open : Outputs, close : Outputs,
   topology : {"unknown"} \cup Topologies, end : Ends, stability : Nat,
   single : Inputs, opened : Inputs, closed : Inputs, decoder : Decoders]

DefaultStability == 2000
DefaultOutput == [gpio |-> -1, level |-> "low", pulse |-> 500]
DefaultInput  == [gpio |-> -1, level |-> "low", pull |-> "up", debounce |-> 50]

EmptyDecoder(profile) == [profile |-> profile, inputs |-> <<>>, rules |-> NoRules]

-----------------------------------------------------------------------------
(* Validity.  The profile and the decoder say which pins are in use.       *)

UsedOutputs(c) == IF c.profile = "sequential" THEN <<c.step>> ELSE <<c.open, c.close>>

UsedInputs(c) ==
  CASE c.decoder.profile = "CustomRules" ->
         [i \in DOMAIN c.decoder.inputs |-> c.decoder.inputs[i].wiring]
    [] c.decoder.profile # "CustomRules" /\ c.topology = "single" -> <<c.single>>
    [] OTHER -> <<c.opened, c.closed>>

\* Recovery button, serial port, flash, strapping; 34 to 39 are inputs only.
Forbidden == {0, 1, 3, 20} \cup 6..12

is_safe_gpio(gpio, output) ==
  gpio \in (0..39) \ Forbidden /\ (output => gpio < 34)

OutputIsValid(o) == is_safe_gpio(o.gpio, TRUE) /\ o.pulse \in 100..2000

InputIsValid(i) ==
  /\ is_safe_gpio(i.gpio, FALSE) /\ i.debounce \in 10..500
  /\ i.gpio >= 34 => i.pull = "none"

\* No pin is used twice.
PinsDiffer(s) == \A i, j \in DOMAIN s : s[i].gpio = s[j].gpio => i = j

\* A decoder without inputs and rules is the state before commissioning.
DecoderIsValid(x) ==
  /\ Len(x.inputs) <= MaxInputs
  /\ x.rules.inputs = [i \in DOMAIN x.inputs |-> x.inputs[i].id]
  /\ \/ x.rules.inputs = <<>> /\ x.rules.rules = <<>>
     \/ Compiles(x.rules)

FeedbackIsValid(c) ==
  \/ c.decoder.profile = "CustomRules" /\ DecoderIsValid(c.decoder)
  \/ /\ c.decoder.profile = "EndpointPreset" /\ c.topology \in Topologies
     /\ c.stability \in 1000..10000

PinsAreValid(outputs, inputs) ==
  /\ \A o \in Elements(outputs) : OutputIsValid(o)
  /\ \A i \in Elements(inputs) : InputIsValid(i)
  /\ PinsDiffer(outputs \o inputs)

TimingIsValid(t) ==
  /\ {t.opening, t.closing} \subseteq 3000..180000
  /\ t.release \in 1000..15000

\* validate finds no error.
Valid(c) ==
  /\ c.schema = kSchemaVersion
  /\ c.wifi \in Wifis /\ c.homekit \in HomeKits /\ c.admin \in Admins
  /\ TimingIsValid(c.timing)
  /\ c.profile \in Profiles /\ c.interval \in 500..10000
  /\ FeedbackIsValid(c)
  /\ PinsAreValid(UsedOutputs(c), UsedInputs(c))

-----------------------------------------------------------------------------
(* The stored form.  Two output slots and two input slots serve every      *)
(* profile, so that what a profile does not use is mostly not kept.        *)

\* static_cast<std::int8_t>
Byte(n) == ((n + 128) % 256) - 128

Packed(pin) == [pin EXCEPT !.gpio = Byte(@)]

PackedDecoder(x) ==
  [x EXCEPT !.inputs = [i \in DOMAIN x.inputs |->
                          [x.inputs[i] EXCEPT !.wiring = Packed(@)]]]

Blobs ==
  [schema : Nat, wifi : {Unset} \cup Wifis, homekit : {Unset} \cup HomeKits,
   admin : {Unset} \cup Admins, timing : Timings, interval : Nat,
   profile : {"unknown"} \cup Profiles, output : Outputs, output2 : Outputs,
   topology : {"unknown"} \cup Topologies, end : Ends, stability : Nat,
   input : Inputs, input2 : Inputs, decoder : Decoders]

\* Faulty variant: the first slot is the step output's.
FirstOutputStep(c) == c.step

FirstOutput(c) == IF c.profile = "sequential" THEN c.step ELSE c.open

\* Faulty variant: the first slot is the single input's.
FirstInputSingle(c) == c.single

FirstInput(c) == IF c.topology = "single" THEN c.single ELSE c.opened

Encode(c) ==
  [schema    |-> kSchemaVersion, interval |-> c.interval, timing |-> c.timing,
   wifi      |-> c.wifi, homekit |-> c.homekit, admin |-> c.admin,
   output    |-> Packed(FirstOutput(c)),
   output2   |-> Packed(c.close),
   input     |-> Packed(FirstInput(c)),
   input2    |-> Packed(c.closed),
   profile   |-> c.profile, topology |-> c.topology,
   end       |-> c.end, stability |-> c.stability,
   decoder   |-> PackedDecoder(c.decoder)]

\* What a profile has no slot for gets its default.
Decode(b) ==
  LET sequential == b.profile = "sequential"
      single     == b.topology = "single"
  IN [schema    |-> kSchemaVersion, interval |-> b.interval, timing |-> b.timing,
      wifi      |-> b.wifi, homekit |-> b.homekit, admin |-> b.admin,
      profile   |-> b.profile, topology |-> b.topology,
      step      |-> IF sequential THEN b.output ELSE DefaultOutput,
      open      |-> IF sequential THEN DefaultOutput ELSE b.output,
      close     |-> b.output2,
      single    |-> IF single THEN b.input ELSE DefaultInput,
      opened    |-> IF single THEN DefaultInput ELSE b.input,
      closed    |-> b.input2,
      end       |-> b.end, stability |-> b.stability, decoder |-> b.decoder]

-----------------------------------------------------------------------------
(* Blobs of earlier firmware.  Schema 3 had no decoder, schema 2 one output *)
(* and one input, schema 1 no choice of the end a single input stands for. *)

UnsetOutput == [gpio |-> 0, level |-> "low", pulse |-> 0]
UnsetInput  == [gpio |-> 0, level |-> "low", pull |-> "none", debounce |-> 0]

FromV3(b) ==
  [b EXCEPT !.schema = kSchemaVersion, !.decoder = EmptyDecoder("EndpointPreset")]

FromV2(b) ==
  [FromV3(b) EXCEPT !.profile = "sequential", !.topology = "single",
                    !.output2 = UnsetOutput, !.input2 = UnsetInput]

FromV1(b) == [FromV2(b) EXCEPT !.end = "Closed", !.stability = DefaultStability]

\* A store has a cell for each key; a cell is empty, or a blob, of the size and magic
\* number of its key or not.
Empty      == [kind |-> "empty"]
Damaged    == [kind |-> "damaged"]
Cell(blob) == [kind |-> "blob", blob |-> blob]
Cells      == {Empty, Damaged} \cup [kind : {"blob"}, blob : Blobs]
StoreType  == [config_v4 : Cells, config_v3 : Cells, config_v1 : Cells]
NewStore   == [config_v4 |-> Empty, config_v3 |-> Empty, config_v1 |-> Empty]

Holds(cell, schemas) == cell.kind = "blob" /\ cell.blob.schema \in schemas

\* Faulty variant: an older key is looked at first.
MigratesOlderFirst(store) ==
  "blob" \in {store.config_v3.kind, store.config_v1.kind} \/ store.config_v4.kind = "empty"

\* An older key is looked at only when the newer ones do not exist.
Migrates(store) == store.config_v4.kind = "empty"
Legacy(store)   == Migrates(store) /\ store.config_v3.kind = "empty"

Readable(store) ==
  CASE Legacy(store)                     -> Holds(store.config_v1, {1, 2})
    [] Migrates(store) /\ ~Legacy(store) -> Holds(store.config_v3, {3})
    [] OTHER                             -> Holds(store.config_v4, {kSchemaVersion})

Blob(store) ==
  CASE Legacy(store) /\ store.config_v1.blob.schema = 1 -> FromV1(store.config_v1.blob)
    [] Legacy(store) /\ store.config_v1.blob.schema # 1 -> FromV2(store.config_v1.blob)
    [] Migrates(store) /\ ~Legacy(store)                -> FromV3(store.config_v3.blob)
    [] OTHER                                            -> store.config_v4.blob

Loaded(store) == Decode(Blob(store))

\* Otherwise the device has no configuration, or one it cannot use.
Loads(store) == Readable(store) /\ Valid(Loaded(store))

save(store, c) ==
  IF Valid(c) THEN [store EXCEPT !.config_v4 = Cell(Encode(c))] ELSE store

\* load, as far as it writes: older settings are saved in the present form.
load(store) ==
  IF Loads(store) /\ Migrates(store) THEN save(store, Loaded(store)) ELSE store

-----------------------------------------------------------------------------

\* What the gate's runtime and hardware are started with, and the other components.
GateInUse(c) ==
  [timing |-> c.timing, profile |-> c.profile, interval |-> c.interval,
   outputs |-> UsedOutputs(c), inputs |-> UsedInputs(c), topology |-> c.topology,
   end |-> c.end, stability |-> c.stability, decoder |-> c.decoder]

InUse(c) == [gate |-> GateInUse(c), wifi |-> c.wifi, homekit |-> c.homekit, admin |-> c.admin]
=============================================================================
