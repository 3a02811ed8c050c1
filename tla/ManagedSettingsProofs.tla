------------------------ MODULE ManagedSettingsProofs ------------------------
(***************************************************************************)
(* Settings that a user was told are saved are never lost, whatever the    *)
(* forms and profiles submit and whatever the flash held at first.         *)
(***************************************************************************)
EXTENDS ManagedSettingsProperties, SequenceTheorems, TLAPS

-----------------------------------------------------------------------------
(* The record in flash: what is saved is what is loaded, for any settings, *)
(* wiring and rules.                                                       *)

\* The narrow integer of a stored pin holds every pin a form or profile can name.
LEMMA PackedOutput == ASSUME NEW o \in Outputs PROVE Packed(o) = o
<1>1. Byte(o.gpio) = o.gpio BY DEF Byte, Outputs, Gpios
<1> QED BY <1>1 DEF Packed, Outputs

\* The same of inputs.
LEMMA PackedInput == ASSUME NEW i \in Inputs PROVE Packed(i) = i
<1>1. Byte(i.gpio) = i.gpio BY DEF Byte, Inputs, Gpios
<1> QED BY <1>1 DEF Packed, Inputs

\* A decoder is stored as it is.
LEMMA PackedDecoderSame == ASSUME NEW x \in Decoders PROVE PackedDecoder(x) = x
<1> DEFINE D == [id : InputIds, wiring : Inputs]
           in == x.inputs
           out == [i \in DOMAIN in |-> [in[i] EXCEPT !.wiring = Packed(@)]]
<1>1. in \in Seq(D) BY DEF Decoders
<1>2. ASSUME NEW i \in DOMAIN in PROVE [in[i] EXCEPT !.wiring = Packed(@)] = in[i]
  <2>0. in = [k \in 1..Len(in) |-> in[k]] /\ \A k \in 1..Len(in) : in[k] \in D
    BY <1>1, LenProperties, ElementOfSeq
  <2>1. in[i] \in D BY <2>0
  <2>2. Packed(in[i].wiring) = in[i].wiring BY <2>1, PackedInput
  <2> QED BY <2>1, <2>2
<1>3. in = [i \in DOMAIN in |-> in[i]] BY <1>1
<1>4. out = in BY <1>2, <1>3
<1>5. PackedDecoder(x) = [x EXCEPT !.inputs = out] BY DEF PackedDecoder
<1> QED BY <1>4, <1>5 DEF Decoders

LEMMA EncodeTyped == ASSUME NEW c \in AppConfigs PROVE Encode(c) \in Blobs
<1>1. FirstOutput(c) \in Outputs /\ c.close \in Outputs BY DEF AppConfigs, FirstOutput
<1>2. FirstInput(c) \in Inputs /\ c.closed \in Inputs BY DEF AppConfigs, FirstInput
<1>3. c.decoder \in Decoders BY DEF AppConfigs
<1> QED BY <1>1, <1>2, <1>3, PackedOutput, PackedInput, PackedDecoderSame
        DEF Encode, Blobs, AppConfigs, kSchemaVersion

LEMMA DefaultsTyped == DefaultOutput \in Outputs /\ DefaultInput \in Inputs
<1>1. -1 \in Gpios BY DEF Gpios
<1>2. DefaultOutput \in Outputs BY <1>1 DEF DefaultOutput, Outputs, Levels
<1>3. DefaultInput \in Inputs BY <1>1 DEF DefaultInput, Inputs, Levels, Pulls
<1> QED BY <1>2, <1>3

LEMMA DecodeTyped == ASSUME NEW b \in Blobs PROVE Decode(b) \in AppConfigs
BY DefaultsTyped DEF Decode, Blobs, AppConfigs, kSchemaVersion

\* Whatever the profile and the topology, nothing that is used is lost on the way to
\* flash and back, although slots are shared.
LEMMA RoundTrip == ASSUME NEW c \in AppConfigs PROVE InUse(Decode(Encode(c))) = InUse(c)
<1> DEFINE b == Encode(c)
           e == Decode(b)
<1>1. FirstOutput(c) \in Outputs /\ c.close \in Outputs BY DEF AppConfigs, FirstOutput
<1>2. FirstInput(c) \in Inputs /\ c.closed \in Inputs BY DEF AppConfigs, FirstInput
<1>3. c.decoder \in Decoders BY DEF AppConfigs
<1>4. /\ b.output = FirstOutput(c) /\ b.output2 = c.close
      /\ b.input = FirstInput(c) /\ b.input2 = c.closed /\ b.decoder = c.decoder
  BY <1>1, <1>2, <1>3, PackedOutput, PackedInput, PackedDecoderSame DEF Encode
<1>5. /\ b.wifi = c.wifi /\ b.homekit = c.homekit /\ b.admin = c.admin
      /\ b.timing = c.timing /\ b.interval = c.interval /\ b.profile = c.profile
      /\ b.topology = c.topology /\ b.end = c.end /\ b.stability = c.stability
  BY DEF Encode
<1>6. /\ e.wifi = c.wifi /\ e.homekit = c.homekit /\ e.admin = c.admin
      /\ e.timing = c.timing /\ e.interval = c.interval /\ e.profile = c.profile
      /\ e.topology = c.topology /\ e.end = c.end /\ e.stability = c.stability
      /\ e.decoder = c.decoder
  BY <1>4, <1>5 DEF Decode
<1>7. UsedOutputs(e) = UsedOutputs(c)
  <2>1. CASE c.profile = "sequential"
    <3>1. e.step = c.step BY <1>4, <1>5, <2>1 DEF Decode, FirstOutput
    <3> QED BY <3>1, <1>6, <2>1 DEF UsedOutputs
  <2>2. CASE c.profile # "sequential"
    <3>1. e.open = c.open /\ e.close = c.close BY <1>4, <1>5, <2>2 DEF Decode, FirstOutput
    <3> QED BY <3>1, <1>6, <2>2 DEF UsedOutputs
  <2> QED BY <2>1, <2>2
<1>8. UsedInputs(e) = UsedInputs(c)
  <2>1. CASE c.topology = "single"
    <3>1. e.single = c.single BY <1>4, <1>5, <2>1 DEF Decode, FirstInput
    <3> QED BY <3>1, <1>6, <2>1 DEF UsedInputs
  <2>2. CASE c.topology # "single"
    <3>1. e.opened = c.opened /\ e.closed = c.closed
      BY <1>4, <1>5, <2>2 DEF Decode, FirstInput
    <3> QED BY <3>1, <1>6, <2>2 DEF UsedInputs
  <2> QED BY <2>1, <2>2
<1> HIDE DEF b, e
<1>9. GateInUse(e) = GateInUse(c) BY <1>6, <1>7, <1>8 DEF GateInUse
<1>10. InUse(e) = InUse(c) BY <1>6, <1>9 DEF InUse
<1> QED BY <1>10 DEF b, e

\* Validity asks only about what is used.
LEMMA ValidByUse ==
  \A c, e : InUse(e) = InUse(c) /\ e.schema = kSchemaVersion /\ Valid(c) => Valid(e)
<1>1. ASSUME NEW c, NEW e, InUse(e) = InUse(c), e.schema = kSchemaVersion, Valid(c)
      PROVE  Valid(e)
  <2>0. GateInUse(e) = GateInUse(c) BY <1>1 DEF InUse
  <2>1. e.wifi = c.wifi /\ e.homekit = c.homekit /\ e.admin = c.admin BY <1>1 DEF InUse
  <2>2. e.timing = c.timing /\ e.interval = c.interval BY <2>0 DEF GateInUse
  <2>3. e.profile = c.profile /\ e.topology = c.topology BY <2>0 DEF GateInUse
  <2>4. e.stability = c.stability /\ e.decoder = c.decoder BY <2>0 DEF GateInUse
  <2>5. UsedOutputs(e) = UsedOutputs(c) /\ UsedInputs(e) = UsedInputs(c)
    BY <2>0, SMTT(60) DEF GateInUse
  <2>6. e.wifi \in Wifis /\ e.homekit \in HomeKits /\ e.admin \in Admins
    BY <1>1, <2>1, SMTT(60) DEF Valid
  <2>7. TimingIsValid(e.timing) BY <1>1, <2>2, SMTT(60) DEF Valid
  <2>8. e.profile \in Profiles /\ e.interval \in 500..10000 BY <1>1, <2>2, <2>3, SMTT(60) DEF Valid
  <2>9. PinsAreValid(UsedOutputs(e), UsedInputs(e)) BY <1>1, <2>5, SMTT(60) DEF Valid
  <2>10. FeedbackIsValid(e)
    <3>1. FeedbackIsValid(c) BY <1>1, SMTT(60) DEF Valid
    <3>2. CASE c.decoder.profile = "CustomRules"
      <4>1. DecoderIsValid(c.decoder) BY <3>1, <3>2 DEF FeedbackIsValid
      <4>2. DecoderIsValid(e.decoder) BY <4>1, <2>4, SMTT(60)
      <4> QED BY <4>2, <3>2, <2>4, SMTT(60) DEF FeedbackIsValid
    <3>3. CASE c.decoder.profile # "CustomRules"
      BY <3>1, <3>3, <2>3, <2>4 DEF FeedbackIsValid
    <3> QED BY <3>2, <3>3
  <2>11. e.schema = kSchemaVersion BY <1>1
  <2> QED BY <2>6, <2>7, <2>8, <2>9, <2>10, <2>11 DEF Valid
<1> QED BY <1>1, SMTT(60)

\* A saved configuration is a blob of the present key.
LEMMA SaveTyped ==
  ASSUME NEW flash \in StoreType, NEW c \in AppConfigs
  PROVE  save(flash, c) \in StoreType
<1>1. Cell(Encode(c)) \in Cells BY EncodeTyped DEF Cell, Cells
<1>2. CASE Valid(c) BY <1>1, <1>2 DEF save, StoreType
<1>3. CASE ~Valid(c) BY <1>3 DEF save
<1> QED BY <1>2, <1>3

\* Whatever else the flash holds, settings that validate are loaded at the next boot as
\* they were saved, in everything that is used (save and load of config_repository).
THEOREM SavedSettingsLoad ==
  ASSUME NEW flash \in StoreType, NEW c \in AppConfigs, Valid(c)
  PROVE  /\ Loads(save(flash, c)) /\ ~Migrates(save(flash, c))
         /\ Loaded(save(flash, c)) \in AppConfigs
         /\ InUse(Loaded(save(flash, c))) = InUse(c)
<1> DEFINE s == save(flash, c)
<1>1. s.config_v4 = Cell(Encode(c)) BY DEF save, StoreType
<1>2. s.config_v4.kind = "blob" /\ s.config_v4.blob = Encode(c) BY <1>1 DEF Cell
<1>3. ~Migrates(s) /\ ~Legacy(s) BY <1>2 DEF Migrates, Legacy
<1>4. Encode(c).schema = kSchemaVersion BY DEF Encode
<1>5. Readable(s) BY <1>2, <1>3, <1>4 DEF Readable, Holds
<1>6. Blob(s) = Encode(c) BY <1>2, <1>3 DEF Blob
<1>7. Loaded(s) = Decode(Encode(c)) BY <1>6 DEF Loaded
<1>8. Loaded(s) \in AppConfigs BY <1>7, EncodeTyped, DecodeTyped
<1>9. InUse(Loaded(s)) = InUse(c) BY <1>7, RoundTrip
<1>10. Loaded(s).schema = kSchemaVersion BY <1>7 DEF Decode
<1>11. Valid(Loaded(s)) BY <1>9, <1>10, ValidByUse
<1>12. Loads(s) BY <1>5, <1>11 DEF Loads
<1> QED BY <1>3, <1>8, <1>9, <1>12

LEMMA UnsetTyped == UnsetOutput \in Outputs /\ UnsetInput \in Inputs
<1>1. 0 \in Gpios BY DEF Gpios
<1> QED BY <1>1 DEF UnsetOutput, UnsetInput, Outputs, Inputs, Levels, Pulls

\* A decoder without inputs and rules is one.
LEMMA EmptyDecoderTyped == EmptyDecoder("EndpointPreset") \in Decoders
<1>1. <<>> \in Seq([id : InputIds, wiring : Inputs]) BY EmptySeq
<1> QED BY <1>1, ConfigAssumption DEF EmptyDecoder, Decoders, DecoderProfiles

\* What earlier schemas become is a blob of the present one.
LEMMA MigratedTyped ==
  ASSUME NEW b \in Blobs
  PROVE  FromV3(b) \in Blobs /\ FromV2(b) \in Blobs /\ FromV1(b) \in Blobs
<1>1. FromV3(b) \in Blobs BY EmptyDecoderTyped DEF FromV3, Blobs, kSchemaVersion
<1>2. ASSUME NEW r \in Blobs
      PROVE  [r EXCEPT !.profile = "sequential", !.topology = "single",
                       !.output2 = UnsetOutput, !.input2 = UnsetInput] \in Blobs
  BY UnsetTyped, ZenonT(60) DEF Blobs, Profiles, Topologies
<1>3. FromV2(b) \in Blobs BY <1>1, <1>2, Zenon DEF FromV2
<1>4. ASSUME NEW r \in Blobs
      PROVE  [r EXCEPT !.end = "Closed", !.stability = DefaultStability] \in Blobs
  <2>1. "Closed" \in Ends /\ DefaultStability \in Nat BY DEF Ends, DefaultStability
  <2>2. ASSUME NEW e \in Ends, NEW n \in Nat
        PROVE  [r EXCEPT !.end = e, !.stability = n] \in Blobs
    BY ZenonT(60) DEF Blobs
  <2> QED BY <2>1, <2>2, Zenon
<1>5. FromV1(b) \in Blobs BY <1>3, <1>4, Zenon DEF FromV1
<1> QED BY <1>1, <1>3, <1>5

\* Whatever the flash holds, what load reads of it is a blob.
LEMMA BlobTyped ==
  ASSUME NEW flash \in StoreType, Readable(flash)
  PROVE  Blob(flash) \in Blobs
<1>1. ASSUME NEW x \in Cells, x.kind = "blob" PROVE x.blob \in Blobs
  BY <1>1 DEF Cells, Empty, Damaged
<1>2. {flash.config_v4, flash.config_v3, flash.config_v1} \subseteq Cells BY DEF StoreType
<1>3. CASE Legacy(flash)
  <2>1. flash.config_v1.kind = "blob" BY <1>3 DEF Readable, Holds
  <2>2. flash.config_v1.blob \in Blobs BY <1>1, <1>2, <2>1
  <2> QED BY <1>3, <2>2, MigratedTyped DEF Blob
<1>4. CASE Migrates(flash) /\ ~Legacy(flash)
  <2>1. flash.config_v3.kind = "blob" BY <1>4 DEF Readable, Holds
  <2>2. flash.config_v3.blob \in Blobs BY <1>1, <1>2, <2>1
  <2> QED BY <1>4, <2>2, MigratedTyped DEF Blob
<1>5. CASE ~Migrates(flash)
  <2>0. ~Legacy(flash) BY <1>5 DEF Legacy
  <2>1. flash.config_v4.kind = "blob" BY <1>5, <2>0 DEF Readable, Holds
  <2>2. flash.config_v4.blob \in Blobs BY <1>1, <1>2, <2>1
  <2> QED BY <1>5, <2>0, <2>2 DEF Blob
<1> QED BY <1>3, <1>4, <1>5

\* Settings of any earlier schema, once migrated and saved, are loaded again as they
\* were at the first boot of the new firmware, from the present key (load).
THEOREM MigrationSettles ==
  ASSUME NEW flash \in StoreType, Loads(flash)
  PROVE  /\ load(flash) \in StoreType
         /\ Loads(load(flash)) /\ Loaded(load(flash)) \in AppConfigs
         /\ ~Migrates(load(flash))
         /\ InUse(Loaded(load(flash))) = InUse(Loaded(flash))
<1>1. Readable(flash) /\ Valid(Loaded(flash)) BY DEF Loads
<1>2. Loaded(flash) \in AppConfigs BY <1>1, BlobTyped, DecodeTyped DEF Loaded
<1>3. CASE Migrates(flash)
  <2>1. load(flash) = save(flash, Loaded(flash)) BY <1>3 DEF load
  <2> QED BY <1>1, <1>2, <2>1, SavedSettingsLoad, SaveTyped
<1>4. CASE ~Migrates(flash)
  <2>1. load(flash) = flash BY <1>4 DEF load
  <2> QED BY <1>2, <1>4, <2>1
<1> QED BY <1>3, <1>4

-----------------------------------------------------------------------------
(* The settings in use.                                                    *)

(***************************************************************************)
(* The inductive invariant.  A session has the loaded settings in memory;  *)
(* a review has the present password; a change of network that waits for   *)
(* its second write has the settings that are in flash already.            *)
(***************************************************************************)

SessionsAreLoaded ==
  /\ session => settings.admin # Unset
  /\ ~provisioned => settings.admin = Unset
  /\ task = Off => ~provisioned /\ review = Unset

ReviewsAreCurrent == review # Unset => review.config.admin = settings.admin

NetworkChangeIsInFlash ==
  task.at = "credentials" =>
    /\ session /\ task.config.admin = settings.admin
    /\ Loads(store) /\ InUse(task.config) = InUse(Loaded(store))

SettingsInv ==
  /\ SettingsTypeOK /\ MemoryFollowsFlash /\ PromisedSettingsBoot
  /\ SessionsAreLoaded /\ ReviewsAreCurrent /\ NetworkChangeIsInFlash

-----------------------------------------------------------------------------
(* The settings that handlers make.                                        *)

LEMMA DefaultConfigTyped == DefaultConfig \in AppConfigs
<1>1. DefaultOutput \in Outputs /\ DefaultInput \in Inputs BY DefaultsTyped
<1>2. EmptyDecoder("CustomRules") \in Decoders
  <2>1. <<>> \in Seq([id : InputIds, wiring : Inputs]) BY EmptySeq
  <2> QED BY <2>1, ConfigAssumption DEF EmptyDecoder, Decoders, DecoderProfiles
<1>3. DefaultStability \in Nat BY DEF DefaultStability
<1>4. [opening |-> 20000, closing |-> 20000, release |-> 3000] \in Timings BY DEF Timings
<1> QED BY <1>1, <1>2, <1>3, <1>4
        DEF DefaultConfig, AppConfigs, kSchemaVersion, Profiles, Topologies, Ends

LEMMA TimedTyped ==
  ASSUME NEW c \in AppConfigs, NEW g \in GateSettings
  PROVE  /\ Timed(c, g) \in AppConfigs
         /\ Timed(c, g).wifi = c.wifi /\ Timed(c, g).homekit = c.homekit
         /\ Timed(c, g).admin = c.admin
<1>1. [c.timing EXCEPT !.opening = g.timing.opening, !.closing = g.timing.closing]
        \in Timings
  BY DEF AppConfigs, GateSettings, Timings
<1>2. g.stability \in Nat BY DEF GateSettings
<1> QED BY <1>1, <1>2 DEF Timed, AppConfigs

LEMMA CanonicalTyped ==
  ASSUME NEW c \in AppConfigs, NEW g \in GateSettings
  PROVE  Canonical(c, g) \in AppConfigs /\ Canonical(c, g).admin = c.admin
<1> DEFINE t == Timed(c, g)
<1>1. t \in AppConfigs /\ t.admin = c.admin BY TimedTyped
<1>2. [g.decoder EXCEPT !.profile = "CustomRules"] \in Decoders
  BY DEF GateSettings, Decoders, DecoderProfiles
<1> HIDE DEF t
<1>3. CASE g.profile = "sequential"
  <2>1. Canonical(c, g) = [t EXCEPT !.profile = g.profile, !.topology = g.topology,
            !.step = g.step, !.open = t.open, !.close = t.close,
            !.decoder = [g.decoder EXCEPT !.profile = "CustomRules"]]
    BY <1>1, <1>3 DEF Canonical, t
  <2> QED BY <1>1, <1>2, <2>1, ZenonT(60) DEF AppConfigs, GateSettings
<1>4. CASE g.profile # "sequential"
  <2>1. Canonical(c, g) = [t EXCEPT !.profile = g.profile, !.topology = g.topology,
            !.step = t.step, !.open = g.open, !.close = g.close,
            !.decoder = [g.decoder EXCEPT !.profile = "CustomRules"]]
    BY <1>1, <1>4 DEF Canonical, t
  <2> QED BY <1>1, <1>2, <2>1, ZenonT(60) DEF AppConfigs, GateSettings
<1> QED BY <1>3, <1>4

LEMMA LegacyFormTyped ==
  ASSUME NEW c \in AppConfigs, NEW g \in GateSettings
  PROVE  LegacyForm(c, g) \in AppConfigs /\ LegacyForm(c, g).admin = c.admin
<1> DEFINE t == Timed(c, g)
<1>1. t \in AppConfigs /\ t.admin = c.admin BY TimedTyped
<1>2. [g.single EXCEPT !.debounce = 50] \in Inputs BY DEF GateSettings, Inputs
<1>3. LegacyForm(c, g) = [t EXCEPT !.profile = "sequential", !.topology = "single",
          !.step = g.step, !.single = [g.single EXCEPT !.debounce = 50], !.end = g.end]
  BY DEF LegacyForm
<1>4. "sequential" \in {"unknown"} \cup Profiles /\ "single" \in {"unknown"} \cup Topologies
  BY DEF Profiles, Topologies
<1> HIDE DEF t
<1> QED BY <1>1, <1>2, <1>3, <1>4, ZenonT(60) DEF AppConfigs, GateSettings

LEMMA FirstSettingsTyped ==
  ASSUME NEW g \in GateSettings, NEW wifi \in Wifis, NEW homekit \in HomeKits,
         NEW admin \in Admins
  PROVE  /\ FirstSettings(g, wifi, homekit, admin) \in AppConfigs
         /\ FirstSettings(g, wifi, homekit, admin).wifi = wifi
<1> DEFINE t == Timed(DefaultConfig, g)
<1>1. t \in AppConfigs BY TimedTyped, DefaultConfigTyped
<1>2. [g.single EXCEPT !.debounce = 50] \in Inputs BY DEF GateSettings, Inputs
<1>3. FirstSettings(g, wifi, homekit, admin) =
        [t EXCEPT !.wifi = wifi, !.homekit = homekit, !.admin = admin, !.step = g.step,
                  !.single = [g.single EXCEPT !.debounce = 50], !.end = g.end]
  BY DEF FirstSettings
<1> HIDE DEF t
<1> QED BY <1>1, <1>2, <1>3, ZenonT(60) DEF AppConfigs, GateSettings

LEMMA ReplacedTyped ==
  ASSUME NEW c \in AppConfigs, NEW g \in GateSettings
  PROVE  Replaced(c, g) \in AppConfigs /\ Replaced(c, g).admin = c.admin
BY ZenonT(60) DEF Replaced, AppConfigs, GateSettings

\* A new name, password or network changes nothing else that is used.
LEMMA OneFieldTyped ==
  ASSUME NEW c \in AppConfigs, NEW wifi \in Wifis, NEW homekit \in HomeKits,
         NEW admin \in Admins
  PROVE  /\ [c EXCEPT !.homekit = homekit] \in AppConfigs
         /\ [c EXCEPT !.homekit = homekit].admin = c.admin
         /\ [c EXCEPT !.admin = admin] \in AppConfigs
         /\ [c EXCEPT !.wifi = wifi] \in AppConfigs
         /\ [c EXCEPT !.wifi = wifi].admin = c.admin
         /\ GateInUse([c EXCEPT !.wifi = wifi]) = GateInUse(c)
<1>1. GateInUse([c EXCEPT !.wifi = wifi]) = GateInUse(c)
  <2> DEFINE d == [c EXCEPT !.wifi = wifi]
  <2>1. /\ d.timing = c.timing /\ d.profile = c.profile /\ d.interval = c.interval
        /\ d.topology = c.topology /\ d.end = c.end /\ d.stability = c.stability
        /\ d.decoder = c.decoder /\ d.step = c.step /\ d.open = c.open
        /\ d.close = c.close /\ d.single = c.single /\ d.opened = c.opened
        /\ d.closed = c.closed
    BY DEF AppConfigs
  <2> HIDE DEF d
  <2>2. UsedOutputs(d) = UsedOutputs(c) BY <2>1 DEF UsedOutputs
  <2>3. UsedInputs(d) = UsedInputs(c) BY <2>1 DEF UsedInputs
  <2>4. GateInUse(d) = GateInUse(c) BY <2>1, <2>2, <2>3 DEF GateInUse
  <2> QED BY <2>4 DEF d
<1> QED BY <1>1 DEF AppConfigs

-----------------------------------------------------------------------------
(* Saving keeps what was promised.                                         *)

\* Settings that load are replaced only by settings that load.
LEMMA SaveKeepsLoading ==
  ASSUME NEW s \in StoreType, NEW c \in AppConfigs, Loads(s)
  PROVE  Loads(save(s, c))
<1>1. CASE Valid(c) BY <1>1, SavedSettingsLoad
<1>2. CASE ~Valid(c) BY <1>2 DEF save
<1> QED BY <1>1, <1>2

LEMMA InUseParts ==
  ASSUME NEW c, NEW d, InUse(c) = InUse(d)
  PROVE  /\ GateInUse(c) = GateInUse(d) /\ c.wifi = d.wifi
         /\ c.homekit = d.homekit /\ c.admin = d.admin
BY DEF InUse

LEMMA InUseButNetwork ==
  ASSUME NEW c, NEW d
  PROVE  InUse(c) = [InUse(d) EXCEPT !.wifi = c.wifi]
           <=> /\ GateInUse(c) = GateInUse(d)
               /\ c.homekit = d.homekit /\ c.admin = d.admin
BY DEF InUse

LEMMA SettingsInitially == SettingsInit => SettingsInv
<1> SUFFICES ASSUME SettingsInit PROVE SettingsInv OBVIOUS
<1>1. settings.admin = Unset BY DEF SettingsInit, DefaultConfig
<1>2. SettingsTypeOK
  BY DefaultConfigTyped, SettingsAssumption DEF SettingsInit, SettingsTypeOK, Networks
<1>3. task.at # "credentials" BY DEF SettingsInit, Off
<1> QED BY <1>1, <1>2, <1>3
        DEF SettingsInv, SettingsInit, MemoryFollowsFlash, PromisedSettingsBoot,
            SessionsAreLoaded, ReviewsAreCurrent, NetworkChangeIsInFlash

\* What a handler that saves and keeps a configuration ensures.
LEMMA KeepSafe ==
  ASSUME SettingsTypeOK, NEW c \in AppConfigs, Valid(c), Keep(c)
  PROVE  /\ store' \in StoreType /\ settings' = c
         /\ Loads(store') /\ InUse(Loaded(store')) = InUse(c)
         /\ MemoryFollowsFlash' /\ PromisedSettingsBoot'
<1>1. store \in StoreType BY DEF SettingsTypeOK
<1>2. store' = save(store, c) /\ settings' = c /\ accepted' = GateInUse(c) BY DEF Keep
<1>3. store' \in StoreType BY <1>1, <1>2, SaveTyped
<1>4. Loads(store') /\ InUse(Loaded(store')) = InUse(c) BY <1>1, <1>2, SavedSettingsLoad
<1>5. /\ GateInUse(Loaded(store')) = GateInUse(c) /\ c.homekit = Loaded(store').homekit
      /\ c.admin = Loaded(store').admin
  BY <1>4, InUseParts
<1>6. MemoryFollowsFlash' BY <1>2, <1>4, <1>5, InUseButNetwork DEF MemoryFollowsFlash
<1>7. PromisedSettingsBoot' BY <1>2, <1>4, <1>5 DEF PromisedSettingsBoot
<1> QED BY <1>2, <1>3, <1>4, <1>6, <1>7

-----------------------------------------------------------------------------
(* Every step keeps the invariant, the settings, and passwords of sessions.*)

StepSafe ==
  /\ Loads(store) => Loads(store')
  /\ Loads(store) /\ Loaded(store').admin # Loaded(store).admin => ~session'

\* A step that leaves the flash and the history alone.
LEMMA FlashKept ==
  ASSUME SettingsInv, UNCHANGED <<store, accepted>>
  PROVE  StepSafe /\ PromisedSettingsBoot' /\ store' \in StoreType
BY DEF SettingsInv, SettingsTypeOK, StepSafe, PromisedSettingsBoot

LEMMA IdleDiffers == Idle # Off /\ Idle.at # "credentials" /\ Off.at # "credentials"
BY DEF Idle, Off

LEMMA StopSafe == ASSUME SettingsInv, Stop PROVE SettingsInv' /\ StepSafe
<1>1. settings'.admin = Unset BY DEF Stop, DefaultConfig
<1>2. StepSafe /\ PromisedSettingsBoot' /\ store' \in StoreType BY FlashKept DEF Stop
<1>3. task' = Off /\ task'.at # "credentials" BY IdleDiffers DEF Stop
<1>4. SettingsTypeOK'
  BY <1>2, <1>3, DefaultConfigTyped DEF SettingsInv, SettingsTypeOK, Stop, Networks
<1>5. SessionsAreLoaded' /\ ReviewsAreCurrent' BY <1>1 DEF Stop, SessionsAreLoaded, ReviewsAreCurrent
<1>6. NetworkChangeIsInFlash' /\ MemoryFollowsFlash'
  BY <1>1, <1>3 DEF NetworkChangeIsInFlash, MemoryFollowsFlash
<1> QED BY <1>2, <1>4, <1>5, <1>6 DEF SettingsInv

LEMMA StartSafe ==
  ASSUME SettingsInv, NEW written \in BOOLEAN, Start(written)
  PROVE  SettingsInv' /\ StepSafe
<1> DEFINE loads == Loads(store) /\ (Migrates(store) => written)
<1>1. /\ task = Off /\ task' = Idle /\ store' = IF written THEN load(store) ELSE store
      /\ settings' = IF loads THEN Loaded(store) ELSE DefaultConfig
      /\ provisioned' = loads /\ credentials' = station
      /\ UNCHANGED <<station, session, review, accepted>>
  BY DEF Start
<1>2. store \in StoreType /\ ~session /\ review = Unset
  <2>1. ~provisioned /\ review = Unset BY <1>1 DEF SettingsInv, SessionsAreLoaded
  <2>2. ~session BY <2>1 DEF SettingsInv, SessionsAreLoaded
  <2>3. store \in StoreType BY DEF SettingsInv, SettingsTypeOK
  <2> QED BY <2>1, <2>2, <2>3
<1>3. \/ store' = store
      \/ Loads(store) /\ store' = load(store)
  BY <1>1 DEF load
<1>4. /\ store' \in StoreType
      /\ Loads(store) => Loads(store') /\ InUse(Loaded(store')) = InUse(Loaded(store))
  BY <1>2, <1>3, MigrationSettles
<1>5. StepSafe BY <1>1, <1>2, <1>4 DEF StepSafe
<1>6. PromisedSettingsBoot'
  BY <1>1, <1>4, InUseParts DEF SettingsInv, PromisedSettingsBoot
<1>7. settings' \in AppConfigs /\ (~loads => settings'.admin = Unset)
  <2>1. CASE loads
    <3>1. Readable(store) BY <2>1 DEF Loads
    <3> QED BY <1>1, <1>2, <2>1, <3>1, BlobTyped, DecodeTyped DEF Loaded
  <2>2. CASE ~loads BY <1>1, <2>2, DefaultConfigTyped DEF DefaultConfig
  <2> QED BY <2>1, <2>2
<1>8. MemoryFollowsFlash'
  <2>1. CASE loads
    <3>1. settings' = Loaded(store) /\ Loads(store) BY <1>1, <2>1
    <3>2. InUse(Loaded(store')) = InUse(settings') BY <1>4, <3>1
    <3>3. InUse(settings') = [InUse(Loaded(store')) EXCEPT !.wifi = settings'.wifi]
      BY <3>2, InUseParts, InUseButNetwork
    <3> QED BY <1>4, <3>1, <3>3 DEF MemoryFollowsFlash
  <2>2. CASE ~loads BY <1>7, <2>2 DEF MemoryFollowsFlash
  <2> QED BY <2>1, <2>2
<1>9. SettingsTypeOK'
  BY <1>1, <1>2, <1>4, <1>7 DEF SettingsInv, SettingsTypeOK, Loads, Readable, Holds
<1>10. SessionsAreLoaded' /\ ReviewsAreCurrent' /\ NetworkChangeIsInFlash'
  BY <1>1, <1>2, <1>7, IdleDiffers
     DEF SessionsAreLoaded, ReviewsAreCurrent, NetworkChangeIsInFlash
<1> QED BY <1>5, <1>6, <1>8, <1>9, <1>10 DEF SettingsInv

\* What a step does that changes neither flash nor settings, and has no wait.
LEMMA SessionStepSafe ==
  ASSUME SettingsInv, task = Idle, review' = Unset, session' \in BOOLEAN,
         session' => settings.admin # Unset,
         UNCHANGED <<store, station, settings, credentials, provisioned, task, accepted>>
  PROVE  SettingsInv' /\ StepSafe
<1>1. StepSafe /\ PromisedSettingsBoot' BY FlashKept
<1>2. SettingsTypeOK' BY DEF SettingsInv, SettingsTypeOK
<1>3. MemoryFollowsFlash' BY DEF SettingsInv, MemoryFollowsFlash
<1>4. SessionsAreLoaded' /\ ReviewsAreCurrent' /\ NetworkChangeIsInFlash'
  BY IdleDiffers
     DEF SettingsInv, SessionsAreLoaded, ReviewsAreCurrent, NetworkChangeIsInFlash
<1> QED BY <1>1, <1>2, <1>3, <1>4 DEF SettingsInv

LEMMA LoginSafe == ASSUME SettingsInv, Login PROVE SettingsInv' /\ StepSafe
<1>1. settings.admin # Unset BY ConfigAssumption DEF Login
<1> QED BY <1>1, SessionStepSafe DEF Login, Disowned

LEMMA LogoutSafe == ASSUME SettingsInv, Logout PROVE SettingsInv' /\ StepSafe
BY SessionStepSafe DEF Logout, Disowned

\* Keeping settings with the present password, or ending the session.
LEMMA KeepStepSafe ==
  ASSUME SettingsInv, Authorized, NEW c \in AppConfigs, Valid(c), Keep(c),
         session' \in BOOLEAN, review' \in {review, Unset},
         \/ c.admin = settings.admin
         \/ ~session' /\ review' = Unset
  PROVE  SettingsInv' /\ StepSafe
<1>1. SettingsTypeOK BY DEF SettingsInv
<1>2. /\ store' \in StoreType /\ settings' = c
      /\ Loads(store') /\ InUse(Loaded(store')) = InUse(c)
      /\ MemoryFollowsFlash' /\ PromisedSettingsBoot'
  BY <1>1, KeepSafe
<1>3. task = Idle /\ session /\ settings.admin # Unset /\ provisioned
  BY DEF Authorized, SettingsInv, SessionsAreLoaded
<1>4. c.admin \in Admins /\ c.admin # Unset BY ConfigAssumption DEF Valid
<1>5. UNCHANGED <<station, credentials, provisioned, task>> BY DEF Keep
<1>6. Loaded(store).admin = settings.admin /\ Loaded(store').admin = c.admin
  <2>1. InUse(settings) = [InUse(Loaded(store)) EXCEPT !.wifi = settings.wifi]
    BY <1>3 DEF SettingsInv, MemoryFollowsFlash
  <2> QED BY <1>2, <2>1, InUseButNetwork, InUseParts
<1>7. StepSafe BY <1>2, <1>6 DEF StepSafe
<1>8. SettingsTypeOK' BY <1>1, <1>2, <1>5 DEF SettingsTypeOK
<1>9. SessionsAreLoaded' BY <1>2, <1>3, <1>4, <1>5, IdleDiffers DEF SessionsAreLoaded
<1>10. ReviewsAreCurrent' BY <1>2 DEF SettingsInv, ReviewsAreCurrent
<1>11. NetworkChangeIsInFlash' BY <1>3, <1>5, IdleDiffers DEF NetworkChangeIsInFlash
<1> QED BY <1>2, <1>7, <1>8, <1>9, <1>10, <1>11 DEF SettingsInv

LEMMA UpdateConfigSafe ==
  ASSUME SettingsInv, NEW g \in Forms, NEW homekit \in HomeKits,
         update_config_handler(g, homekit)
  PROVE  SettingsInv' /\ StepSafe
<1>1. g \in GateSettings /\ settings \in AppConfigs
  BY SettingsAssumption DEF SettingsInv, SettingsTypeOK
<1>2. PICK c \in {Canonical(settings, g), LegacyForm(settings, g)} :
        Valid([c EXCEPT !.homekit = homekit]) /\ Keep([c EXCEPT !.homekit = homekit])
  BY DEF update_config_handler
<1>3. c \in AppConfigs /\ c.admin = settings.admin
  BY <1>1, <1>2, CanonicalTyped, LegacyFormTyped
<1>4. PICK u : u = [c EXCEPT !.homekit = homekit] OBVIOUS
<1>5. u \in AppConfigs /\ u.admin = settings.admin BY <1>3, <1>4 DEF AppConfigs
<1>6. Authorized /\ session' = session /\ review' = review BY DEF update_config_handler
<1>7. session' \in BOOLEAN BY <1>6 DEF SettingsInv, SettingsTypeOK
<1>8. Valid(u) /\ Keep(u) BY <1>2, <1>4
<1> QED BY <1>5, <1>6, <1>7, <1>8, KeepStepSafe

LEMMA DisplayNameSafe ==
  ASSUME SettingsInv, NEW homekit \in HomeKits, display_name_handler(homekit)
  PROVE  SettingsInv' /\ StepSafe
<1>1. PICK u : u = [settings EXCEPT !.homekit = homekit] OBVIOUS
<1>2. settings \in AppConfigs BY DEF SettingsInv, SettingsTypeOK
<1>3. u \in AppConfigs /\ u.admin = settings.admin BY <1>1, <1>2 DEF AppConfigs
<1>4. Authorized /\ session' = session /\ review' = review /\ Valid(u) /\ Keep(u)
  BY <1>1 DEF display_name_handler
<1>5. session' \in BOOLEAN BY <1>4 DEF SettingsInv, SettingsTypeOK
<1> QED BY <1>3, <1>4, <1>5, KeepStepSafe

LEMMA PasswordChangeSafe ==
  ASSUME SettingsInv, NEW admin \in Admins, password_change_handler(admin)
  PROVE  SettingsInv' /\ StepSafe
<1>1. PICK u : u = [settings EXCEPT !.admin = admin] OBVIOUS
<1>2. settings \in AppConfigs BY DEF SettingsInv, SettingsTypeOK
<1>3. u \in AppConfigs BY <1>1, <1>2 DEF AppConfigs
<1>4. Authorized /\ ~session' /\ review' = Unset /\ Valid(u) /\ Keep(u)
  BY <1>1 DEF password_change_handler, Disowned
<1>5. session' \in BOOLEAN BY DEF password_change_handler
<1> QED BY <1>3, <1>4, <1>5, KeepStepSafe

LEMMA ApplySafe ==
  ASSUME SettingsInv, NEW written \in BOOLEAN, gate_profile_apply_handler(written)
  PROVE  SettingsInv' /\ StepSafe
<1>1. Authorized /\ review # Unset /\ review' = Unset /\ session' = session
  BY DEF gate_profile_apply_handler
<1>2. session' \in BOOLEAN BY <1>1 DEF SettingsInv, SettingsTypeOK
<1>3. task = Idle BY <1>1 DEF Authorized
<1>4. CASE written /\ Serialized(settings) = review.base
  <2>1. PICK u : u = review.config OBVIOUS
  <2>2. Keep(u) BY <1>4, <2>1 DEF gate_profile_apply_handler
  <2>3. u \in AppConfigs /\ Valid(u) /\ u.admin = settings.admin
    BY <1>1, <2>1 DEF SettingsInv, SettingsTypeOK, ReviewsAreCurrent
  <2> QED BY <1>1, <1>2, <2>2, <2>3, KeepStepSafe
<1>5. CASE ~(written /\ Serialized(settings) = review.base)
  <2>1. UNCHANGED <<store, station, settings, credentials, provisioned, task, accepted>>
    BY <1>5 DEF gate_profile_apply_handler
  <2>2. session' => settings.admin # Unset BY <1>1 DEF SettingsInv, SessionsAreLoaded
  <2> QED BY <1>1, <1>2, <1>3, <2>1, <2>2, SessionStepSafe
<1> QED BY <1>4, <1>5

LEMMA PreviewSafe ==
  ASSUME SettingsInv, NEW g \in GateProfiles, gate_profile_preview_handler(g)
  PROVE  SettingsInv' /\ StepSafe
<1>1. task = Idle /\ session
      /\ UNCHANGED <<store, station, settings, credentials, provisioned, session, task, accepted>>
  BY DEF gate_profile_preview_handler, Authorized
<1>2. g \in GateSettings /\ settings \in AppConfigs
  BY SettingsAssumption DEF SettingsInv, SettingsTypeOK
<1>3. Replaced(settings, g) \in AppConfigs
      /\ Replaced(settings, g).admin = settings.admin
  BY <1>2, ReplacedTyped
<1>4. review' # Unset =>
        /\ review'.config \in AppConfigs /\ Valid(review'.config)
        /\ review'.config.admin = settings.admin
  <2>1. CASE Valid(Replaced(settings, g))
    <3>1. review'.config = Replaced(settings, g)
      BY <2>1 DEF gate_profile_preview_handler
    <3> QED BY <1>3, <2>1, <3>1
  <2>2. CASE ~Valid(Replaced(settings, g)) BY <2>2 DEF gate_profile_preview_handler
  <2> QED BY <2>1, <2>2
<1>5. StepSafe /\ PromisedSettingsBoot' BY <1>1, FlashKept
<1>6. SettingsTypeOK' BY <1>1, <1>4 DEF SettingsInv, SettingsTypeOK
<1>7. MemoryFollowsFlash' BY <1>1 DEF SettingsInv, MemoryFollowsFlash
<1>8. SessionsAreLoaded' BY <1>1, IdleDiffers DEF SettingsInv, SessionsAreLoaded
<1>9. ReviewsAreCurrent' BY <1>1, <1>4 DEF ReviewsAreCurrent
<1>10. NetworkChangeIsInFlash' BY <1>1, IdleDiffers DEF NetworkChangeIsInFlash
<1> QED BY <1>5, <1>6, <1>7, <1>8, <1>9, <1>10 DEF SettingsInv

LEMMA BeginWifiSafe ==
  ASSUME SettingsInv, NEW wifi \in Wifis, BeginWifi(wifi)
  PROVE  SettingsInv' /\ StepSafe
<1>1. PICK u : u = [settings EXCEPT !.wifi = wifi] OBVIOUS
<1>2. /\ task = Idle /\ session /\ Valid(u) /\ store' = save(store, u)
      /\ task' = [at |-> "credentials", config |-> u, previous |-> credentials]
      /\ credentials' = wifi
      /\ UNCHANGED <<station, settings, provisioned, session, review, accepted>>
  BY <1>1 DEF BeginWifi, Authorized
<1>3. settings \in AppConfigs /\ store \in StoreType /\ settings.admin # Unset
  BY <1>2 DEF SettingsInv, SettingsTypeOK, SessionsAreLoaded
<1>4. /\ u \in AppConfigs /\ u.admin = settings.admin /\ u.homekit = settings.homekit
      /\ GateInUse(u) = GateInUse(settings)
  <2>1. GateInUse(u) = GateInUse(settings)
    <3>1. PICK h \in HomeKits, a \in Admins : TRUE BY <1>2 DEF Valid
    <3> QED BY <1>1, <1>3, <3>1, OneFieldTyped
  <2> QED BY <1>1, <1>3, <2>1 DEF AppConfigs
<1>5. store' \in StoreType /\ Loads(store') /\ InUse(Loaded(store')) = InUse(u)
  BY <1>2, <1>3, <1>4, SaveTyped, SavedSettingsLoad
<1>6. InUse(settings) = [InUse(Loaded(store)) EXCEPT !.wifi = settings.wifi]
  BY <1>3 DEF SettingsInv, MemoryFollowsFlash
<1>7. /\ GateInUse(Loaded(store')) = GateInUse(settings)
      /\ Loaded(store').homekit = settings.homekit /\ Loaded(store').admin = settings.admin
  BY <1>4, <1>5, InUseParts
<1>8. GateInUse(Loaded(store)) = GateInUse(settings) /\ Loaded(store).admin = settings.admin
  BY <1>6, InUseButNetwork
<1>9. StepSafe BY <1>5, <1>7, <1>8 DEF StepSafe
<1>10. PromisedSettingsBoot'
  BY <1>2, <1>5, <1>7, <1>8 DEF SettingsInv, PromisedSettingsBoot
<1>11. MemoryFollowsFlash' BY <1>2, <1>5, <1>7, InUseButNetwork DEF MemoryFollowsFlash
<1>12. SettingsTypeOK' BY <1>2, <1>4, <1>5 DEF SettingsInv, SettingsTypeOK, Networks
<1>13. SessionsAreLoaded'
  <2>1. task' # Off BY <1>2 DEF Off
  <2> QED BY <1>2, <2>1 DEF SettingsInv, SessionsAreLoaded
<1>14. ReviewsAreCurrent' BY <1>2 DEF SettingsInv, ReviewsAreCurrent
<1>15. NetworkChangeIsInFlash' BY <1>2, <1>4, <1>5 DEF NetworkChangeIsInFlash
<1> QED BY <1>9, <1>10, <1>11, <1>12, <1>13, <1>14, <1>15 DEF SettingsInv

LEMMA SaveCredentialsSafe ==
  ASSUME SettingsInv, SaveCredentials PROVE SettingsInv' /\ StepSafe
<1>1. /\ task.at = "credentials" /\ task' = Idle
      /\ station' = credentials /\ settings' = task.config
      /\ UNCHANGED <<store, credentials, provisioned, session, review, accepted>>
  BY DEF SaveCredentials
<1>2. /\ session /\ task.config.admin = settings.admin
      /\ Loads(store) /\ InUse(task.config) = InUse(Loaded(store))
  BY <1>1 DEF SettingsInv, NetworkChangeIsInFlash
<1>3. task.config \in AppConfigs BY <1>1, IdleDiffers DEF SettingsInv, SettingsTypeOK
<1>4. settings.admin # Unset /\ provisioned
  BY <1>2 DEF SettingsInv, SessionsAreLoaded
<1>5. StepSafe /\ PromisedSettingsBoot' BY <1>1, FlashKept
<1>6. MemoryFollowsFlash' BY <1>1, <1>2, InUseParts, InUseButNetwork DEF MemoryFollowsFlash
<1>7. SettingsTypeOK' BY <1>1, <1>3 DEF SettingsInv, SettingsTypeOK
<1>8. SessionsAreLoaded' BY <1>1, <1>2, <1>4, IdleDiffers DEF SessionsAreLoaded
<1>9. ReviewsAreCurrent' BY <1>1, <1>2 DEF SettingsInv, ReviewsAreCurrent
<1>10. NetworkChangeIsInFlash' BY <1>1, IdleDiffers DEF NetworkChangeIsInFlash
<1> QED BY <1>5, <1>6, <1>7, <1>8, <1>9, <1>10 DEF SettingsInv

LEMMA FailCredentialsSafe ==
  ASSUME SettingsInv, NEW written \in BOOLEAN, FailCredentials(written)
  PROVE  SettingsInv' /\ StepSafe
<1>1. /\ task.at = "credentials" /\ task' = Idle
      /\ credentials' = task.previous
      /\ store' = IF written THEN save(store, settings) ELSE store
      /\ UNCHANGED <<station, settings, provisioned, session, review, accepted>>
  BY DEF FailCredentials
<1>2. session /\ Loads(store) BY <1>1 DEF SettingsInv, NetworkChangeIsInFlash
<1>3. settings.admin # Unset /\ provisioned
  BY <1>2 DEF SettingsInv, SessionsAreLoaded
<1>4. settings \in AppConfigs /\ store \in StoreType /\ task.previous \in Networks
  BY <1>1, IdleDiffers DEF SettingsInv, SettingsTypeOK
<1>5. InUse(settings) = [InUse(Loaded(store)) EXCEPT !.wifi = settings.wifi]
  BY <1>3 DEF SettingsInv, MemoryFollowsFlash
<1>6. /\ store' \in StoreType /\ Loads(store')
      /\ InUse(settings) = [InUse(Loaded(store')) EXCEPT !.wifi = settings.wifi]
  <2>1. CASE written /\ Valid(settings)
    <3>1. store' = save(store, settings) BY <1>1, <2>1
    <3>2. /\ store' \in StoreType /\ Loads(store')
          /\ InUse(Loaded(store')) = InUse(settings)
      BY <1>4, <2>1, <3>1, SaveTyped, SavedSettingsLoad
    <3> QED BY <3>2, InUseParts, InUseButNetwork
  <2>2. CASE ~(written /\ Valid(settings))
    <3>1. store' = store BY <1>1, <2>2 DEF save
    <3> QED BY <1>2, <1>4, <1>5, <3>1
  <2> QED BY <2>1, <2>2
<1>7. /\ GateInUse(Loaded(store')) = GateInUse(Loaded(store))
      /\ Loaded(store').admin = Loaded(store).admin
  <2>1. GateInUse(settings) = GateInUse(Loaded(store)) /\ settings.admin = Loaded(store).admin
    BY <1>5, InUseButNetwork
  <2>2. GateInUse(settings) = GateInUse(Loaded(store')) /\ settings.admin = Loaded(store').admin
    BY <1>6, InUseButNetwork
  <2> QED BY <2>1, <2>2
<1>8. StepSafe BY <1>6, <1>7 DEF StepSafe
<1>9. PromisedSettingsBoot' BY <1>1, <1>6, <1>7 DEF SettingsInv, PromisedSettingsBoot
<1>10. MemoryFollowsFlash' BY <1>1, <1>6 DEF MemoryFollowsFlash
<1>11. SettingsTypeOK' BY <1>1, <1>4, <1>6 DEF SettingsInv, SettingsTypeOK
<1>12. SessionsAreLoaded' BY <1>1, <1>3, IdleDiffers DEF SettingsInv, SessionsAreLoaded
<1>13. ReviewsAreCurrent' BY <1>1 DEF SettingsInv, ReviewsAreCurrent
<1>14. NetworkChangeIsInFlash' BY <1>1, IdleDiffers DEF NetworkChangeIsInFlash
<1> QED BY <1>8, <1>9, <1>10, <1>11, <1>12, <1>13, <1>14 DEF SettingsInv

\* First setup: nobody is logged in, and no settings were loaded.
LEMMA SaveHandlerSafe ==
  ASSUME SettingsInv, NEW c \in AppConfigs, NEW stationWritten \in BOOLEAN,
         NEW written \in BOOLEAN, save_handler(c, stationWritten, written)
  PROVE  SettingsInv' /\ StepSafe
<1>1. /\ task = Idle /\ ~provisioned /\ Valid(c) /\ credentials' = c.wifi
      /\ station' = IF stationWritten THEN c.wifi ELSE station
      /\ UNCHANGED <<settings, session, review, task>>
  BY DEF save_handler
<1>2. \/ store' = save(store, c) /\ provisioned' = TRUE /\ accepted' = GateInUse(c)
      \/ UNCHANGED <<store, provisioned, accepted>>
  BY DEF save_handler
<1>3. settings.admin = Unset BY <1>1 DEF SettingsInv, SessionsAreLoaded
<1>4. ~session BY <1>3 DEF SettingsInv, SessionsAreLoaded
<1>5. store \in StoreType BY SMTT(60) DEF SettingsInv, SettingsTypeOK
<1>6. c.wifi \in Wifis BY <1>1 DEF Valid
<1>7. StepSafe /\ PromisedSettingsBoot' /\ store' \in StoreType /\ provisioned' \in BOOLEAN
  <2>1. CASE store' = save(store, c) /\ provisioned' = TRUE /\ accepted' = GateInUse(c)
    <3>1. Loads(store') /\ InUse(Loaded(store')) = InUse(c)
      BY <1>1, <1>5, <2>1, SavedSettingsLoad
    <3>2. PromisedSettingsBoot' BY <2>1, <3>1, InUseParts DEF PromisedSettingsBoot
    <3>3. ~session' BY <1>1, <1>4
    <3>4. StepSafe BY <3>1, <3>3 DEF StepSafe
    <3> QED BY <1>5, <2>1, <3>2, <3>4, SaveTyped
  <2>2. CASE UNCHANGED <<store, provisioned, accepted>>
    <3>1. provisioned' \in BOOLEAN BY <2>2 DEF SettingsInv, SettingsTypeOK
    <3> QED BY <2>2, <3>1, FlashKept
  <2> QED BY <1>2, <2>1, <2>2
<1>8. SettingsTypeOK' BY <1>1, <1>6, <1>7 DEF SettingsInv, SettingsTypeOK, Networks
<1>9. MemoryFollowsFlash' BY <1>1, <1>3 DEF MemoryFollowsFlash
<1>10. SessionsAreLoaded' BY <1>1, <1>3, <1>4, IdleDiffers DEF SessionsAreLoaded
<1>11. ReviewsAreCurrent' BY <1>1 DEF SettingsInv, ReviewsAreCurrent
<1>12. NetworkChangeIsInFlash' BY <1>1, IdleDiffers DEF NetworkChangeIsInFlash
<1> QED BY <1>7, <1>8, <1>9, <1>10, <1>11, <1>12 DEF SettingsInv

LEMMA SetupWifiSafe ==
  ASSUME SettingsInv, NEW wifi \in Wifis, setup_wifi_handler(wifi)
  PROVE  SettingsInv' /\ StepSafe
<1>1. /\ credentials' = wifi /\ station' = wifi
      /\ UNCHANGED <<store, settings, provisioned, session, review, task, accepted>>
  BY DEF setup_wifi_handler
<1>2. StepSafe /\ PromisedSettingsBoot' BY <1>1, FlashKept
<1>3. SettingsTypeOK' BY <1>1 DEF SettingsInv, SettingsTypeOK, Networks
<1>4. MemoryFollowsFlash' BY <1>1 DEF SettingsInv, MemoryFollowsFlash
<1>5. SessionsAreLoaded' /\ ReviewsAreCurrent' /\ NetworkChangeIsInFlash'
  BY <1>1 DEF SettingsInv, SessionsAreLoaded, ReviewsAreCurrent, NetworkChangeIsInFlash
<1> QED BY <1>2, <1>3, <1>4, <1>5 DEF SettingsInv

LEMMA SettingsStepSafe == SettingsInv /\ SettingsNext => SettingsInv' /\ StepSafe
<1> SUFFICES ASSUME SettingsInv, SettingsNext PROVE SettingsInv' /\ StepSafe OBVIOUS
<1>1. CASE Stop BY <1>1, StopSafe
<1>2. CASE Login BY <1>2, LoginSafe
<1>3. CASE Logout BY <1>3, LogoutSafe
<1>4. CASE SaveCredentials BY <1>4, SaveCredentialsSafe
<1>5. CASE \E written \in BOOLEAN :
             Start(written) \/ FailCredentials(written) \/ gate_profile_apply_handler(written)
  BY <1>5, StartSafe, FailCredentialsSafe, ApplySafe
<1>6. CASE \E homekit \in HomeKits :
             \/ display_name_handler(homekit)
             \/ \E g \in Forms : update_config_handler(g, homekit)
  BY <1>6, DisplayNameSafe, UpdateConfigSafe
<1>7. CASE \E admin \in Admins : password_change_handler(admin)
  BY <1>7, PasswordChangeSafe
<1>8. CASE \E wifi \in Wifis : BeginWifi(wifi) \/ setup_wifi_handler(wifi)
  BY <1>8, BeginWifiSafe, SetupWifiSafe
<1>9. CASE \E g \in GateProfiles : gate_profile_preview_handler(g)
  BY <1>9, PreviewSafe
<1>10. CASE \E g \in Forms, wifi \in Wifis, homekit \in HomeKits, admin \in Admins :
              \E written, stationWritten \in BOOLEAN :
                save_handler(FirstSettings(g, wifi, homekit, admin), stationWritten, written)
  <2>1. PICK g \in Forms, wifi \in Wifis, homekit \in HomeKits, admin \in Admins,
             written \in BOOLEAN, stationWritten \in BOOLEAN :
               save_handler(FirstSettings(g, wifi, homekit, admin), stationWritten, written)
    BY <1>10
  <2>2. FirstSettings(g, wifi, homekit, admin) \in AppConfigs
    BY SettingsAssumption, FirstSettingsTyped
  <2> QED BY <2>1, <2>2, SaveHandlerSafe
<1> QED BY <1>1, <1>2, <1>3, <1>4, <1>5, <1>6, <1>7, <1>8, <1>9, <1>10 DEF SettingsNext

LEMMA SettingsStuttering ==
  ASSUME SettingsInv, UNCHANGED settingsVars PROVE SettingsInv'
BY DEF settingsVars, memory, SettingsInv, SettingsTypeOK, MemoryFollowsFlash,
       PromisedSettingsBoot, SessionsAreLoaded, ReviewsAreCurrent, NetworkChangeIsInFlash

-----------------------------------------------------------------------------
(* The results.                                                            *)

\* The inductive invariant holds for any forms, profiles and first content of the flash.
THEOREM SettingsInvariant == SettingsSpec => []SettingsInv
<1>1. SettingsInit => SettingsInv BY SettingsInitially
<1>2. SettingsInv /\ [SettingsNext]_settingsVars => SettingsInv'
  BY SettingsStepSafe, SettingsStuttering
<1> QED BY <1>1, <1>2, PTL DEF SettingsSpec

\* Every reviewed, pending or kept configuration is one, and reviewed ones are valid.
THEOREM SettingsTypeCorrect == SettingsSpec => []SettingsTypeOK
<1>1. SettingsInv => SettingsTypeOK BY DEF SettingsInv
<1> QED BY <1>1, SettingsInvariant, PTL

\* The copy in memory, which every handler saves again as a whole, is what the next boot
\* loads, but for the network.
THEOREM MemoryAlwaysFollowsFlash == SettingsSpec => []MemoryFollowsFlash
<1>1. SettingsInv => MemoryFollowsFlash BY DEF SettingsInv
<1> QED BY <1>1, SettingsInvariant, PTL

\* The gate settings that a user was told are saved are those the next boot uses.
THEOREM PromisedSettingsAlwaysBoot == SettingsSpec => []PromisedSettingsBoot
<1>1. SettingsInv => PromisedSettingsBoot BY DEF SettingsInv
<1> QED BY <1>1, SettingsInvariant, PTL

\* A commissioned device never loses its settings to a handler, a failed write or a stop.
THEOREM AlwaysStaysCommissioned == SettingsSpec => StaysCommissioned
<1>1. SettingsInv /\ [SettingsNext]_settingsVars =>
        [Loads(store) => Loads(store')]_settingsVars
  BY SettingsStepSafe DEF StepSafe
<1> QED BY <1>1, SettingsInvariant, PTL DEF SettingsSpec, StaysCommissioned

\* No request of a session that goes on changes the administrator password.
THEOREM PasswordsAlwaysEndSessions == SettingsSpec => PasswordsEndSessions
<1>1. SettingsInv /\ [SettingsNext]_settingsVars =>
        [Loads(store) /\ Loaded(store').admin # Loaded(store).admin => ~session']_settingsVars
  BY SettingsStepSafe DEF StepSafe
<1> QED BY <1>1, SettingsInvariant, PTL DEF SettingsSpec, PasswordsEndSessions
=============================================================================
