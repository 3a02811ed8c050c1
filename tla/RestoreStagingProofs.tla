------------------------ MODULE RestoreStagingProofs ------------------------
(***************************************************************************)
(* RestoreInv is inductive, so restoring keeps its types and never loses a *)
(* damaged NVS that could still be repaired, and it implements             *)
(* RestorePromise: for every set of images and every number of attempts.   *)
(***************************************************************************)
EXTENDS RestoreStagingProperties, TLAPS

\* The newest manifest and the other one are the two slots.
LEMMA SlotTypes ==
  ASSUME TypeOK
  PROVE  /\ CurrentSlot \in 0..1 /\ 1 - CurrentSlot \in 0..1
         /\ Current \in Manifests /\ Older \in Manifests
         /\ slots[0] \in Manifests /\ slots[1] \in Manifests
  BY DEF TypeOK, CurrentSlot, Current, Older

\* What a step that leaves flash alone keeps.
LEMMA FlashKept ==
  ASSUME RestoreInv, UNCHANGED <<flashVars, historyVars>>
  PROVE  /\ SlotsOK' /\ PayloadOK' /\ DamageIsRecoverable'
         /\ Current' = Current /\ Older' = Older /\ CurrentSlot' = CurrentSlot
         /\ Pending' = Pending
  BY DEF RestoreInv, flashVars, historyVars, SlotsOK, PayloadOK, DamageIsRecoverable,
         Current, Older, CurrentSlot, Pending, Valid

\* The manifest that follows another one keeps all but its number.
LEMMA NextManifest ==
  ASSUME NEW m \in Manifests
  PROVE  LET n == [m EXCEPT !.seq = @ + 1] IN
         /\ n \in Manifests /\ n.seq = m.seq + 1
         /\ n.state = m.state /\ n.attempts = m.attempts /\ n.image = m.image
  <1>1. m.seq \in Nat /\ m.seq + 1 \in Nat
    BY DEF Manifests
  <1>2. [m EXCEPT !.seq = @ + 1] = [m EXCEPT !.seq = m.seq + 1]
    BY DEF Manifests
  <1>3. [m EXCEPT !.seq = m.seq + 1] \in Manifests
    BY <1>1 DEF Manifests
  <1>4. QED
    BY <1>1, <1>2, <1>3 DEF Manifests

\* A sector without a manifest, and no job, are well formed.
LEMMA BlankAndIdle ==
  Blank \in Manifests /\ Idle \in Jobs
  <1>1. 0 \in 0..MaxAttempts
    BY RestoreAssumption DEF RestoreAssumption
  <1>2. Blank \in Manifests
    BY <1>1 DEF Blank, Manifests
  <1>3. QED
    BY <1>2 DEF Idle, Jobs, Places

\* The job that Publish sets up.
LEMMA PublishedJob ==
  ASSUME TypeOK, NEW m \in Manifests, NEW next \in Places, NEW fail \in Places,
         Publish(m, next, fail)
  PROVE  /\ pc' = "erase_slot" /\ job' \in Jobs
         /\ job'.manifest.state = m.state /\ job'.manifest.seq = m.seq + 1
         /\ job'.manifest.attempts = m.attempts /\ job'.manifest.image = m.image
         /\ job'.slot = 1 - CurrentSlot /\ job'.next = next /\ job'.fail = fail
  <1>1. 1 - CurrentSlot \in 0..1
    BY SlotTypes
  <1>2. QED
    BY <1>1, NextManifest DEF Publish, Jobs

\* The newest manifest in another state.
LEMMA InState ==
  ASSUME TypeOK, NEW s \in ManifestStates
  PROVE  LET m == [Current EXCEPT !.state = s] IN
         /\ m \in Manifests /\ m.state = s /\ m.seq = Current.seq
         /\ m.attempts = Current.attempts /\ m.image = Current.image
  BY SlotTypes DEF Manifests

\* The job that carries the newest manifest on in another state.
LEMMA AdvancedJob ==
  ASSUME TypeOK, NEW s \in ManifestStates, NEW next \in Places, NEW fail \in Places,
         Publish([Current EXCEPT !.state = s], next, fail)
  PROVE  /\ pc' = "erase_slot" /\ job' \in Jobs
         /\ job'.manifest.state = s /\ job'.manifest.seq = Current.seq + 1
         /\ job'.manifest.attempts = Current.attempts
         /\ job'.manifest.image = Current.image
         /\ job'.slot = 1 - CurrentSlot /\ job'.next = next /\ job'.fail = fail
  <1> DEFINE m == [Current EXCEPT !.state = s]
  <1>1. /\ m \in Manifests /\ m.state = s /\ m.seq = Current.seq
        /\ m.attempts = Current.attempts /\ m.image = Current.image
    BY InState
  <1>2. Publish(m, next, fail)
    OBVIOUS
  <1> HIDE DEF m
  <1>3. QED
    BY <1>1, <1>2, PublishedJob

\* The newest manifest with one attempt more.
LEMMA Counted ==
  ASSUME TypeOK, ~Exhausted(Current)
  PROVE  LET m == [Current EXCEPT !.state = "Applying", !.attempts = @ + 1] IN
         /\ m \in Manifests /\ m.state = "Applying" /\ m.seq = Current.seq
         /\ m.attempts = Current.attempts + 1 /\ m.image = Current.image
  <1>1. Current \in Manifests
    BY SlotTypes
  <1>2. Current.attempts + 1 \in 0..MaxAttempts
    BY <1>1, RestoreAssumption DEF Manifests, Exhausted, RestoreAssumption
  <1>3. [Current EXCEPT !.state = "Applying", !.attempts = Current.attempts + 1]
          \in Manifests
    BY <1>1, <1>2 DEF Manifests, ManifestStates
  <1>4. QED
    BY <1>1, <1>2, <1>3 DEF Manifests

\* Before any boot there is nothing to restore.
LEMMA InitRestoreInv == Init => RestoreInv
  <1> SUFFICES ASSUME Init PROVE RestoreInv
    OBVIOUS
  <1>1. TypeOK
    <2>1. 0 \in 0..MaxAttempts
      BY RestoreAssumption DEF RestoreAssumption
    <2>2. QED
      BY <2>1, BlankAndIdle DEF Init, TypeOK, Places
  <1>2. QED
    BY <1>1 DEF Init, RestoreInv, SlotsOK, LateOK, AttemptOK, JobOK, PayloadOK,
      DamageIsRecoverable, Current, Older, CurrentSlot, Valid, Blank, Late, Wiping,
      Torn, Own

-----------------------------------------------------------------------------
(* Steps that leave flash alone.                                           *)

\* Going on, and losing power.
LEMMA QuietStep ==
  ASSUME RestoreInv,
         \/ NothingToApply \/ StartsUp \/ Unconfirmed \/ Restart \/ Staged
         \/ PowerLoss \/ Reset \/ SecondCleanBoot
         \/ \E o \in {"not_configured", "unusable"} : NothingToRearm(o)
  PROVE  RestoreInv'
  <1>1. UNCHANGED <<flashVars, historyVars>> /\ job' = Idle
    BY DEF NothingToApply, StartsUp, Unconfirmed, Restart, Reset, Staged, PowerLoss,
       SecondCleanBoot, NothingToRearm, Goto
  <1>2. /\ SlotsOK' /\ PayloadOK' /\ DamageIsRecoverable' /\ Pending' = Pending
        /\ Current' = Current /\ Older' = Older
    BY <1>1, FlashKept
  <1>3. /\ pc' \in {"init", "confirm", "running", "restart", "boot", "wipe_slot0", "halt"}
        /\ pc' = "init" => ~Pending
        /\ pc' \in Late => pc \in Late \/ ~Pending
        /\ pc' = "confirm" => pc = "init"
    BY DEF NothingToApply, StartsUp, Unconfirmed, Restart, Reset, Staged, PowerLoss,
       SecondCleanBoot, NothingToRearm, Goto, Late, After
  <1>4. TypeOK'
    BY BlankAndIdle, <1>1, <1>3 DEF RestoreInv, TypeOK, flashVars, historyVars, Places
  <1>5. LateOK'
    <2>1. ASSUME pc' \in Late
          PROVE  /\ nvs' = Torn => tries' \in {0, MaxAttempts} \/ decayed'
                 /\ Current'.state = "Applying" => ~Valid(Older')
      <3>1. CASE pc \in Late
        BY <3>1, <1>1, <1>2 DEF RestoreInv, LateOK, flashVars, historyVars
      <3>2. CASE ~Pending
        BY <3>2, <1>1, <1>2 DEF RestoreInv, DamageIsRecoverable, Pending, flashVars,
           historyVars
      <3>3. QED
        BY <2>1, <1>3, <3>1, <3>2
    <2>2. pc' \in {"init", "confirm"} => ~Pending'
      BY <1>2, <1>3 DEF RestoreInv, LateOK, Late
    <2>3. QED
      BY <2>1, <2>2 DEF LateOK, Valid
  <1>6. AttemptOK' /\ JobOK'
    BY <1>1, <1>3 DEF AttemptOK, JobOK, Wiping
  <1>7. QED
    BY <1>2, <1>4, <1>5, <1>6 DEF RestoreInv

\* A restore handler starts staging.
LEMMA StageStep ==
  ASSUME RestoreInv, NEW image \in Images, Stage(image)
  PROVE  RestoreInv'
  <1>1. /\ UNCHANGED <<flashVars, historyVars>>
        /\ pc = "running" /\ pc' = "wipe_slot0" /\ StagingJob'
    BY DEF Stage, StagingJob
  <1>2. /\ SlotsOK' /\ PayloadOK' /\ DamageIsRecoverable'
        /\ Current' = Current /\ Older' = Older
    BY <1>1, FlashKept
  <1>3. TypeOK'
    <2>1. [state |-> "Ready", seq |-> 1, attempts |-> 0, image |-> image] \in Manifests
      BY BlankAndIdle DEF Blank, Manifests, ManifestStates
    <2>2. job' \in Jobs
      BY <2>1 DEF Stage, Jobs, Places
    <2>3. QED
      BY <2>2, <1>1 DEF RestoreInv, TypeOK, flashVars, historyVars, Places
  <1>4. LateOK'
    BY <1>1, <1>2 DEF RestoreInv, LateOK, Late, flashVars, historyVars, Valid
  <1>5. AttemptOK' /\ JobOK'
    BY <1>1 DEF AttemptOK, JobOK, Wiping
  <1>6. QED
    BY <1>2, <1>3, <1>4, <1>5 DEF RestoreInv

-----------------------------------------------------------------------------
(* Steps that begin to write a manifest.                                   *)

\* A manifest being in force is one that was published.
LEMMA InForce ==
  ASSUME TypeOK, SlotsOK, Current.state # "Blank"
  PROVE  /\ Valid(Current) /\ Current.image \in Images /\ Current.attempts = tries
         /\ Current.state \in ManifestStates
  BY SlotTypes DEF SlotsOK, Current, Blank, Manifests

\* Whatever a boot publishes, the invariant takes it from BootJob.
LEMMA PublishStep ==
  ASSUME RestoreInv, UNCHANGED <<slots, payload, historyVars>>,
         nvs' \in Images \cup {Torn, Own}, DamageIsRecoverable',
         pc' = "erase_slot", job' \in Jobs, BootJob'
  PROVE  RestoreInv'
  <1>1. Current' = Current /\ Older' = Older
    BY DEF Current, Older, CurrentSlot
  <1>2. TypeOK'
    BY DEF RestoreInv, TypeOK, historyVars, Places
  <1>3. SlotsOK' /\ PayloadOK'
    BY <1>1 DEF RestoreInv, SlotsOK, PayloadOK, historyVars, Valid
  <1>4. LateOK' /\ AttemptOK' /\ JobOK'
    BY DEF LateOK, Late, AttemptOK, JobOK, Wiping
  <1>5. QED
    BY <1>2, <1>3, <1>4 DEF RestoreInv

\* All attempts are used up, or the payload is not the one the manifest names.
LEMMA GiveUpStep ==
  ASSUME RestoreInv, AttemptsExhausted \/ PayloadSpoiled
  PROVE  RestoreInv'
  <1>1. /\ UNCHANGED <<flashVars, historyVars>> /\ Pending
        /\ Exhausted(Current) \/ payload # Current.image
    BY DEF AttemptsExhausted, PayloadSpoiled
  <1>2. /\ Valid(Current) /\ Current.attempts = tries
    BY <1>1, InForce DEF RestoreInv, Pending
  <1>3. tries = MaxAttempts \/ payload # Current.image
    BY <1>1, <1>2, RestoreAssumption DEF Exhausted, RestoreInv, TypeOK, RestoreAssumption
  <1>4. PICK next \in {"init", "halt"} :
          Publish([Current EXCEPT !.state = "Failed"], next, "halt")
    BY DEF AttemptsExhausted, PayloadSpoiled
  <1>5. /\ pc' = "erase_slot" /\ job' \in Jobs
        /\ job'.manifest.state = "Failed" /\ job'.manifest.seq = Current.seq + 1
        /\ job'.manifest.attempts = Current.attempts
        /\ job'.manifest.image = Current.image
        /\ job'.slot = 1 - CurrentSlot /\ job'.next = next /\ job'.fail = "halt"
    <2>1. TypeOK /\ "Failed" \in ManifestStates /\ next \in Places /\ "halt" \in Places
      BY DEF RestoreInv, ManifestStates, Places
    <2>2. QED
      BY <1>4, <2>1, AdvancedJob
  <1>6. DamageIsRecoverable' /\ Current' = Current /\ CurrentSlot' = CurrentSlot
    BY <1>1, FlashKept
  <1>7. BootJob'
    BY <1>1, <1>2, <1>3, <1>5, <1>6 DEF BootJob, flashVars, historyVars, Valid
  <1>8. QED
    BY <1>1, <1>5, <1>6, <1>7, PublishStep DEF RestoreInv, TypeOK, flashVars, historyVars

\* An attempt is recorded, over the payload the manifest names.
LEMMA BeginAttemptStep ==
  ASSUME RestoreInv, BeginAttempt
  PROVE  RestoreInv'
  <1>1. /\ UNCHANGED <<flashVars, historyVars>> /\ Pending
        /\ ~Exhausted(Current) /\ payload = Current.image
    BY DEF BeginAttempt
  <1>2. /\ Valid(Current) /\ Current.attempts = tries
    BY <1>1, InForce, SMTT(60) DEF RestoreInv, Pending
  <1>3. /\ pc' = "erase_slot" /\ job' \in Jobs
        /\ job'.manifest.state = "Applying" /\ job'.manifest.seq = Current.seq + 1
        /\ job'.manifest.attempts = Current.attempts + 1
        /\ job'.manifest.image = Current.image
        /\ job'.slot = 1 - CurrentSlot /\ job'.next = "erase_nvs" /\ job'.fail = "halt"
    BY <1>1, Counted, PublishedJob, ZenonT(60) DEF BeginAttempt, RestoreInv, Places
  <1>4. /\ DamageIsRecoverable' /\ Current' = Current /\ CurrentSlot' = CurrentSlot
        /\ Pending' = Pending
    BY <1>1, FlashKept
  <1>5. BootJob'
    BY <1>1, <1>2, <1>3, <1>4 DEF BootJob, flashVars, historyVars, Valid
  <1>6. QED
    BY <1>1, <1>3, <1>4, <1>5, PublishStep DEF RestoreInv, TypeOK, flashVars, historyVars

\* NVS holds the image again, and that is recorded.
LEMMA WriteNvsStep ==
  ASSUME RestoreInv, WriteNvs
  PROVE  RestoreInv'
  <1>1. /\ UNCHANGED <<slots, payload, historyVars>>
        /\ nvs' = Current.image /\ Current.state = "Applying"
    BY DEF WriteNvs, RestoreInv, AttemptOK
  <1>2. /\ Valid(Current) /\ Current.attempts = tries /\ Current.image \in Images
    BY <1>1, InForce DEF RestoreInv
  <1>3. nvs' # Torn
    BY <1>1, <1>2, RestoreAssumption DEF RestoreAssumption, Torn
  <1>4. /\ pc' = "erase_slot" /\ job' \in Jobs
        /\ job'.manifest.state = "Applied" /\ job'.manifest.seq = Current.seq + 1
        /\ job'.manifest.attempts = Current.attempts
        /\ job'.manifest.image = Current.image
        /\ job'.slot = 1 - CurrentSlot /\ job'.next = "restart" /\ job'.fail = "halt"
    BY AdvancedJob DEF WriteNvs, RestoreInv, ManifestStates, Places
  <1>5. Current' = Current /\ CurrentSlot' = CurrentSlot /\ DamageIsRecoverable'
    BY <1>1, <1>3 DEF Current, CurrentSlot, DamageIsRecoverable
  <1>6. BootJob'
    BY <1>1, <1>2, <1>3, <1>4, <1>5 DEF BootJob, historyVars, Valid
  <1>7. QED
    BY <1>1, <1>2, <1>4, <1>5, <1>6, PublishStep

\* An attempt fails: NVS is what it was or torn, and the image can be tried
\* again unless the attempts are used up.
LEMMA AttemptFailsStep ==
  ASSUME RestoreInv, AttemptFails
  PROVE  RestoreInv'
  <1>1. /\ UNCHANGED <<slots, payload, historyVars>> /\ nvs' \in Images \cup {Torn, Own}
        /\ Current.state = "Applying" /\ payload = Current.image
    BY DEF AttemptFails, RestoreInv, AttemptOK, TypeOK
  <1>2. /\ Valid(Current) /\ Current.attempts = tries /\ Current.image \in Images
    BY <1>1, InForce DEF RestoreInv
  <1>3. Current' = Current /\ CurrentSlot' = CurrentSlot /\ Older' = Older
    BY <1>1 DEF Current, CurrentSlot, Older
  <1>4. DamageIsRecoverable'
    BY <1>1, <1>3 DEF DamageIsRecoverable, Pending
  <1>5. CASE Exhausted(Current)
    <2>1. tries = MaxAttempts
      BY SMTT(60), <1>2, <1>5, RestoreAssumption
      DEF Exhausted, RestoreInv, TypeOK, RestoreAssumption
    <2>2. /\ pc' = "erase_slot" /\ job' \in Jobs
          /\ job'.manifest.state = "Failed" /\ job'.manifest.seq = Current.seq + 1
          /\ job'.manifest.attempts = Current.attempts
          /\ job'.manifest.image = Current.image
          /\ job'.slot = 1 - CurrentSlot /\ job'.next = "halt" /\ job'.fail = "halt"
      BY <1>5, AdvancedJob DEF AttemptFails, RestoreInv, ManifestStates, Places
    <2>3. BootJob'
      BY <1>1, <1>2, <1>3, <2>1, <2>2 DEF BootJob, historyVars, Valid
    <2>4. QED
      BY <1>1, <1>4, <2>2, <2>3, PublishStep
  <1>6. CASE ~Exhausted(Current)
    <2>1. pc' = "halt" /\ job' = Idle
      BY <1>6 DEF AttemptFails, Goto
    <2>2. TypeOK'
      BY <1>1, <2>1, BlankAndIdle DEF RestoreInv, TypeOK, historyVars, Places
    <2>3. SlotsOK' /\ PayloadOK'
      BY <1>1, <1>3 DEF RestoreInv, SlotsOK, PayloadOK, historyVars, Valid
    <2>4. LateOK' /\ AttemptOK' /\ JobOK'
      BY <2>1 DEF LateOK, Late, AttemptOK, JobOK, Wiping
    <2>5. QED
      BY <1>4, <2>2, <2>3, <2>4 DEF RestoreInv
  <1>7. QED
    BY <1>5, <1>6

\* A configuration that cannot be used sends the staged image to another boot.
LEMMA RearmStep ==
  ASSUME RestoreInv, NEW o \in {"not_configured", "unusable"}, Rearm(o)
  PROVE  RestoreInv'
  <1>1. /\ UNCHANGED <<flashVars, historyVars>>
        /\ Current.state \in {"Applied", "Validated"}
    BY DEF Rearm
  <1>2. /\ Valid(Current) /\ Current.attempts = tries
    BY <1>1, InForce DEF RestoreInv
  <1>3. After(o) \in {"halt", "running"}
    BY DEF After
  <1>4. /\ pc' = "erase_slot" /\ job' \in Jobs
        /\ job'.manifest.state = "Ready" /\ job'.manifest.seq = Current.seq + 1
        /\ job'.manifest.attempts = Current.attempts
        /\ job'.manifest.image = Current.image
        /\ job'.slot = 1 - CurrentSlot /\ job'.next = "restart" /\ job'.fail = After(o)
    <2>1. /\ TypeOK /\ "Ready" \in ManifestStates
          /\ "restart" \in Places /\ After(o) \in Places
      BY <1>3 DEF RestoreInv, ManifestStates, Places
    <2>2. Publish([Current EXCEPT !.state = "Ready"], "restart", After(o))
      BY DEF Rearm
    <2>3. QED
      BY <2>1, <2>2, AdvancedJob
  <1>5. DamageIsRecoverable' /\ Current' = Current /\ CurrentSlot' = CurrentSlot
    BY <1>1, FlashKept
  <1>6. BootJob'
    BY <1>1, <1>2, <1>3, <1>4, <1>5 DEF BootJob, flashVars, historyVars, Valid
  <1>7. QED
    BY <1>1, <1>4, <1>5, <1>6, PublishStep DEF RestoreInv, TypeOK, flashVars, historyVars

\* A clean boot is recorded.
LEMMA FirstCleanBootStep ==
  ASSUME RestoreInv, FirstCleanBoot
  PROVE  RestoreInv'
  <1>1. UNCHANGED <<flashVars, historyVars>> /\ Current.state = "Applied"
    BY DEF FirstCleanBoot
  <1>2. /\ Valid(Current) /\ Current.attempts = tries
    BY <1>1, InForce, SMTT(60) DEF RestoreInv
  <1>3. /\ pc' = "erase_slot" /\ job' \in Jobs
        /\ job'.manifest.state = "Validated" /\ job'.manifest.seq = Current.seq + 1
        /\ job'.manifest.attempts = Current.attempts
        /\ job'.manifest.image = Current.image
        /\ job'.slot = 1 - CurrentSlot /\ job'.next = "restart" /\ job'.fail = "running"
    BY AdvancedJob DEF FirstCleanBoot, RestoreInv, ManifestStates, Places
  <1>4. DamageIsRecoverable' /\ Current' = Current /\ CurrentSlot' = CurrentSlot
    BY <1>1, FlashKept
  <1>5. BootJob'
    BY <1>1, <1>2, <1>3, <1>4 DEF BootJob, flashVars, historyVars, Valid
  <1>6. QED
    BY <1>1, <1>3, <1>4, <1>5, PublishStep DEF RestoreInv, TypeOK, flashVars, historyVars

-----------------------------------------------------------------------------
(* Steps that write flash.                                                 *)

\* Erasing the other sector leaves the newest manifest in force.
LEMMA OlderErased ==
  ASSUME TypeOK, Valid(Current), slots' = [slots EXCEPT ![1 - CurrentSlot] = Blank]
  PROVE  /\ CurrentSlot' = CurrentSlot /\ Current' = Current /\ Older' = Blank
         /\ slots' \in [0..1 -> Manifests]
  <1>1. /\ slots \in [0..1 -> Manifests] /\ slots' \in [0..1 -> Manifests]
        /\ slots[0].seq \in Nat /\ slots[1].seq \in Nat /\ Blank.seq = 0
    BY SlotTypes, BlankAndIdle DEF TypeOK, Blank, Manifests
  <1>2. CASE CurrentSlot = 0
    <2>1. slots'[0] = slots[0] /\ slots'[1] = Blank
      BY <1>1, <1>2
    <2>2. QED
      BY <1>1, <1>2, <2>1 DEF CurrentSlot, Current, Older
  <1>3. CASE CurrentSlot = 1
    <2>1. slots'[1] = slots[1] /\ slots'[0] = Blank
      BY <1>1, <1>3
    <2>2. QED
      BY <1>1, <1>3, <2>1 DEF CurrentSlot, Current, Older, Valid
  <1>4. QED
    BY <1>2, <1>3, SlotTypes

\* Writing a later manifest there puts it in force, and keeps the one before it.
LEMMA OlderReplaced ==
  ASSUME TypeOK, NEW m \in Manifests, m.seq = Current.seq + 1,
         slots' = [slots EXCEPT ![1 - CurrentSlot] = m]
  PROVE  /\ Current' = m /\ Older' = Current /\ slots' \in [0..1 -> Manifests]
         /\ \A i \in 0..1 : slots'[i] \in {m, slots[i]}
  <1>1. /\ slots \in [0..1 -> Manifests] /\ slots' \in [0..1 -> Manifests]
        /\ slots[0].seq \in Nat /\ slots[1].seq \in Nat
    BY SlotTypes DEF TypeOK, Manifests
  <1>2. CASE CurrentSlot = 0
    <2>1. slots'[0] = slots[0] /\ slots'[1] = m
      BY <1>1, <1>2
    <2>2. QED
      BY <1>1, <1>2, <2>1 DEF CurrentSlot, Current, Older
  <1>3. CASE CurrentSlot = 1
    <2>1. slots'[1] = slots[1] /\ slots'[0] = m
      BY <1>1, <1>3
    <2>2. QED
      BY <1>1, <1>3, <2>1 DEF CurrentSlot, Current, Older
  <1>4. QED
    BY <1>2, <1>3, SlotTypes

\* With both sectors blank there is no manifest.
LEMMA NoManifest ==
  ASSUME SlotsOK, ~Valid(slots[0]), ~Valid(slots[1])
  PROVE  /\ slots[0] = Blank /\ slots[1] = Blank /\ Current = Blank /\ Older = Blank
         /\ ~Valid(Current) /\ ~Valid(Older) /\ ~Pending
  <1>1. slots[0] = Blank /\ slots[1] = Blank
    BY DEF SlotsOK
  <1>2. QED
    BY <1>1 DEF Current, Older, CurrentSlot, Valid, Pending, Blank

\* The NVS partition is erased for the attempt on record.
LEMMA EraseNvsStep ==
  ASSUME RestoreInv, EraseNvs
  PROVE  RestoreInv'
  <1>1. /\ UNCHANGED <<slots, payload, historyVars>> /\ nvs' = Torn
        /\ pc' = "write_nvs" /\ job' = Idle
        /\ Current.state = "Applying" /\ payload = Current.image
    BY DEF EraseNvs, Goto, RestoreInv, AttemptOK
  <1>2. Current' = Current /\ Older' = Older
    BY <1>1 DEF Current, CurrentSlot, Older
  <1>3. TypeOK'
    BY <1>1, BlankAndIdle DEF RestoreInv, TypeOK, historyVars, Places
  <1>4. SlotsOK' /\ PayloadOK'
    BY <1>1, <1>2 DEF RestoreInv, SlotsOK, PayloadOK, historyVars, Valid
  <1>5. DamageIsRecoverable' /\ AttemptOK'
    BY <1>1, <1>2 DEF DamageIsRecoverable, Pending, AttemptOK
  <1>6. LateOK' /\ JobOK'
    BY <1>1 DEF LateOK, Late, JobOK, Wiping
  <1>7. QED
    BY <1>3, <1>4, <1>5, <1>6 DEF RestoreInv

\* The firmware saves its own configuration.
LEMMA SaveSettingsStep ==
  ASSUME RestoreInv, SaveSettings
  PROVE  RestoreInv'
  <1>1. /\ UNCHANGED <<slots, payload, pc, job, historyVars>>
        /\ pc \in {"init", "running"} /\ nvs' = Own /\ nvs' # Torn
    BY DEF SaveSettings, Own, Torn
  <1>2. Current' = Current /\ Older' = Older
    BY <1>1 DEF Current, CurrentSlot, Older
  <1>3. TypeOK'
    BY <1>1 DEF RestoreInv, TypeOK, historyVars
  <1>4. SlotsOK' /\ PayloadOK' /\ DamageIsRecoverable'
    BY <1>1, <1>2 DEF RestoreInv, SlotsOK, PayloadOK, DamageIsRecoverable, historyVars, Valid
  <1>5. LateOK' /\ AttemptOK'
    BY <1>1, <1>2 DEF RestoreInv, LateOK, Late, AttemptOK, Pending, Valid
  <1>6. JobOK'
    BY <1>1 DEF JobOK, Wiping
  <1>7. QED
    BY <1>3, <1>4, <1>5, <1>6 DEF RestoreInv

\* A boot finds the payload changed.
LEMMA DecayStep ==
  ASSUME RestoreInv, Decay
  PROVE  RestoreInv'
  <1>1. /\ UNCHANGED <<slots, nvs, pc, job, tries, applied>>
        /\ pc = "boot" /\ payload' = Torn /\ decayed' = TRUE
    BY DEF Decay
  <1>2. Current' = Current /\ Older' = Older
    BY <1>1 DEF Current, CurrentSlot, Older
  <1>3. TypeOK'
    BY <1>1 DEF RestoreInv, TypeOK
  <1>4. SlotsOK' /\ PayloadOK' /\ DamageIsRecoverable'
    BY <1>1, <1>2 DEF RestoreInv, SlotsOK, PayloadOK, DamageIsRecoverable, Valid
  <1>5. LateOK' /\ AttemptOK' /\ JobOK'
    BY <1>1 DEF LateOK, Late, AttemptOK, JobOK, Wiping
  <1>6. QED
    BY <1>3, <1>4, <1>5 DEF RestoreInv

\* The sector for the next manifest is erased.
LEMMA EraseSlotStep ==
  ASSUME RestoreInv, EraseSlot
  PROVE  RestoreInv'
  <1>1. /\ UNCHANGED <<payload, nvs, job, historyVars>>
        /\ pc = "erase_slot" /\ pc' = "program_slot"
        /\ slots' = [slots EXCEPT ![job.slot] = Blank]
    BY DEF EraseSlot
  <1>2. LateOK' /\ AttemptOK'
    BY <1>1 DEF LateOK, Late, AttemptOK
  <1>3. CASE StagingJob /\ payload = job.manifest.image
             /\ ~Valid(slots[0]) /\ ~Valid(slots[1])
    <2>1. slots' = slots
      BY <1>1, <1>3, NoManifest DEF StagingJob, RestoreInv, TypeOK
    <2>2. Current' = Current /\ Older' = Older
      BY <2>1 DEF Current, CurrentSlot, Older
    <2>3. TypeOK'
      BY <1>1, <2>1 DEF RestoreInv, TypeOK, historyVars, Places
    <2>4. SlotsOK' /\ PayloadOK' /\ DamageIsRecoverable'
      BY <1>1, <2>1, <2>2 DEF RestoreInv, SlotsOK, PayloadOK, DamageIsRecoverable,
         historyVars, Valid, Pending
    <2>5. JobOK'
      BY <1>1, <1>3, <2>1 DEF JobOK, Wiping, StagingJob, Valid
    <2>6. QED
      BY <1>2, <2>3, <2>4, <2>5 DEF RestoreInv
  <1>4. CASE BootJob
    <2>1. /\ CurrentSlot' = CurrentSlot /\ Current' = Current /\ Older' = Blank
          /\ slots' \in [0..1 -> Manifests] /\ Valid(Current)
          /\ slots' = [slots EXCEPT ![1 - CurrentSlot] = Blank]
      BY <1>1, <1>4, OlderErased DEF BootJob, RestoreInv
    <2>2. TypeOK'
      BY <1>1, <2>1 DEF RestoreInv, TypeOK, historyVars, Places
    <2>3. PayloadOK' /\ DamageIsRecoverable'
      BY <1>1, <2>1 DEF RestoreInv, PayloadOK, DamageIsRecoverable, historyVars, Valid,
         Pending
    <2>4. \A i \in 0..1 : slots'[i] \in {slots[i], Blank}
      BY <2>1 DEF RestoreInv, TypeOK
    <2>5. SlotsOK'
      BY <1>1, <2>1, <2>4 DEF RestoreInv, SlotsOK, historyVars, Valid, Blank
    <2>6. JobOK'
      <3>1. BootJob'
        BY <1>1, <1>4, <2>1 DEF BootJob, historyVars, Valid, Pending
      <3>2. ~Valid(slots'[job'.slot])
        BY <1>1, <1>4, <2>1, SlotTypes DEF BootJob, RestoreInv, TypeOK, Valid, Blank
      <3>3. QED
        BY <1>1, <3>1, <3>2 DEF JobOK, Wiping, Valid
    <2>7. QED
      BY <1>2, <2>2, <2>3, <2>5, <2>6 DEF RestoreInv
  <1>5. QED
    BY <1>1, <1>3, <1>4 DEF RestoreInv, JobOK

\* A staging finishes: its manifest is the first one, over the payload it names.
LEMMA ProgramStagedStep ==
  ASSUME RestoreInv, ProgramSlot, StagingJob, payload = job.manifest.image,
         ~Valid(slots[0]), ~Valid(slots[1])
  PROVE  RestoreInv'
  <1> DEFINE m == job.manifest
  <1>1. /\ UNCHANGED <<payload, nvs>> /\ pc' \in {"staged", "running"} /\ job' = Idle
        /\ slots' = [slots EXCEPT ![0] = m]
        /\ m.state = "Ready" /\ m.seq = 1 /\ m.attempts = 0 /\ m.image \in Images
        /\ tries' = 0 /\ decayed' = FALSE /\ applied' = FALSE
    BY DEF ProgramSlot, StagingJob, Goto
  <1>2. m \in Manifests /\ slots \in [0..1 -> Manifests] /\ 0 \in 0..MaxAttempts
    BY RestoreAssumption DEF RestoreInv, TypeOK, Jobs, RestoreAssumption
  <1>3. slots'[0] = m /\ slots'[1] = Blank /\ slots' \in [0..1 -> Manifests]
    BY <1>1, <1>2, NoManifest DEF RestoreInv
  <1>4. Current' = m /\ Older' = Blank
    BY <1>1, <1>3 DEF Current, CurrentSlot, Older, Blank
  <1>5. TypeOK'
    BY <1>1, <1>2, <1>3, BlankAndIdle DEF RestoreInv, TypeOK, Places
  <1>6. SlotsOK'
    BY <1>1, <1>3, <1>4 DEF SlotsOK, Valid, Blank
  <1>7. PayloadOK' /\ DamageIsRecoverable'
    BY <1>1, <1>4 DEF PayloadOK, DamageIsRecoverable
  <1>8. LateOK' /\ AttemptOK' /\ JobOK'
    BY <1>1, <1>4 DEF LateOK, AttemptOK, JobOK, Wiping
  <1>9. QED
    BY <1>5, <1>6, <1>7, <1>8 DEF RestoreInv

\* A boot's manifest takes over from the one before it, with its attempts.
LEMMA BootManifest ==
  ASSUME RestoreInv, ProgramSlot, BootJob
  PROVE  LET m == job.manifest IN
         /\ UNCHANGED <<payload, nvs>> /\ pc' \in {job.next, job.fail} /\ job' = Idle
         /\ m \in Manifests /\ m.state \in ManifestStates
         /\ m.seq # 0 /\ Current.seq < m.seq /\ m.image = Current.image
         /\ Current' = m /\ Older' = Current /\ slots' \in [0..1 -> Manifests]
         /\ \A i \in 0..1 : slots'[i] \in {m, slots[i]}
         /\ tries' = m.attempts /\ decayed' = decayed
         /\ tries' = IF m.state = "Applying" THEN tries + 1 ELSE tries
         /\ Current.image \in Images /\ Current.attempts = tries
         /\ decayed => payload = Torn
  <1> DEFINE m == job.manifest
  <1>1. /\ UNCHANGED <<payload, nvs>> /\ pc' \in {job.next, job.fail} /\ job' = Idle
        /\ slots' = [slots EXCEPT ![1 - CurrentSlot] = m]
        /\ Valid(Current) /\ m.seq = Current.seq + 1 /\ m.image = Current.image
    BY DEF ProgramSlot, BootJob, Goto
  <1>2. /\ m \in Manifests /\ m.seq \in Nat /\ Current.seq \in Nat \ {0}
    BY <1>1, SlotTypes DEF RestoreInv, TypeOK, Jobs, Manifests, Valid
  <1>3. /\ Current' = m /\ Older' = Current /\ slots' \in [0..1 -> Manifests]
        /\ \A i \in 0..1 : slots'[i] \in {m, slots[i]}
    BY <1>1, <1>2, OlderReplaced DEF RestoreInv
  <1>4. m.seq # 1 /\ m.seq # 0 /\ Current.seq < m.seq
    BY <1>1, <1>2
  <1>5. decayed' = decayed
    BY <1>4 DEF ProgramSlot, RestoreInv, TypeOK
  <1>6. tries' = IF m.state = "Applying" THEN tries + 1 ELSE tries
    BY <1>4 DEF ProgramSlot
  <1>7. tries' = m.attempts /\ m.state \in ManifestStates
    BY <1>6 DEF BootJob, ManifestStates
  <1>8. Current.image \in Images
    BY <1>1, SlotTypes DEF RestoreInv, SlotsOK, Current
  <1>9. Current.attempts = tries /\ (decayed => payload = Torn)
    BY <1>1 DEF RestoreInv, SlotsOK
  <1>10. QED
    BY <1>1, <1>2, <1>3, <1>4, <1>5, <1>6, <1>7, <1>8, <1>9

\* A boot's manifest is complete.
LEMMA ProgramBootStep ==
  ASSUME RestoreInv, ProgramSlot, BootJob
  PROVE  RestoreInv'
  <1> DEFINE m == job.manifest
  <1>1. /\ UNCHANGED <<payload, nvs>> /\ pc' \in {job.next, job.fail} /\ job' = Idle
        /\ m \in Manifests /\ m.state \in ManifestStates
        /\ m.seq # 0 /\ Current.seq < m.seq /\ m.image = Current.image
        /\ Current.image \in Images /\ Current.attempts = tries
        /\ decayed => payload = Torn
    BY BootManifest
  <1>2. /\ Current' = m /\ Older' = Current /\ slots' \in [0..1 -> Manifests]
        /\ \A i \in 0..1 : slots'[i] \in {m, slots[i]}
    BY BootManifest
  <1>3. /\ tries' = m.attempts /\ decayed' = decayed
        /\ m.state # "Applying" => tries' = tries
    BY BootManifest
  <1>4. TypeOK'
    <2>1. applied' \in BOOLEAN
      BY DEF ProgramSlot, RestoreInv, TypeOK
    <2>2. pc' \in Places /\ m.attempts \in 0..MaxAttempts
      BY <1>1 DEF RestoreInv, TypeOK, Jobs, Manifests
    <2>3. QED
      BY <1>1, <1>2, <1>3, <2>1, <2>2, BlankAndIdle DEF RestoreInv, TypeOK
  <1>5. SlotsOK'
    <2>1. \A i \in 0..1 : IF Valid(slots'[i])
                          THEN slots'[i].state # "Blank" /\ slots'[i].image \in Images
                          ELSE slots'[i] = Blank
      BY <1>1, <1>2 DEF RestoreInv, SlotsOK, ManifestStates, Valid
    <2>2. QED
      BY <1>1, <1>2, <1>3, <2>1 DEF SlotsOK, Valid
  <1>6. PayloadOK'
    BY <1>1, <1>2, <1>3 DEF BootJob, RestoreInv, PayloadOK, Valid
  <1>7. DamageIsRecoverable'
    BY <1>1, <1>2, <1>3
    DEF BootJob, ManifestStates, RestoreInv, PayloadOK, DamageIsRecoverable, Pending
  <1>8. /\ pc' \in {"init", "halt", "restart", "erase_nvs", "running"}
        /\ pc' = "init" => m.state = "Failed"
        /\ pc' = "erase_nvs" => m.state = "Applying" /\ payload = Current.image
        /\ pc' = "running" => m.state \in {"Validated", "Ready"} /\ ~Pending
    BY <1>1 DEF BootJob, ManifestStates, Pending
  <1>9. LateOK'
    <2>1. CASE pc' = "running"
      <3>1. tries' = tries /\ m.state # "Applying"
        BY <1>3, <1>8, <2>1
      <3>2. nvs = Torn => tries \in {0, MaxAttempts} \/ decayed
        BY <1>8, <2>1 DEF RestoreInv, DamageIsRecoverable
      <3>3. QED
        BY <1>1, <1>2, <1>3, <2>1, <3>1, <3>2 DEF LateOK
    <2>2. CASE pc' # "running"
      BY <1>1, <1>2, <1>7, <1>8, <2>2 DEF LateOK, Late, DamageIsRecoverable, Pending
    <2>3. QED
      BY <2>1, <2>2
  <1>10. AttemptOK' /\ JobOK'
    BY <1>1, <1>2, <1>8 DEF AttemptOK, JobOK, Wiping
  <1>11. QED
    BY <1>4, <1>5, <1>6, <1>7, <1>9, <1>10 DEF RestoreInv

\* Whether or not the sector for the next manifest was erased, the newest one
\* is in force.
LEMMA JobSectorErased ==
  ASSUME RestoreInv, pc \in {"erase_slot", "program_slot"},
         slots' \in {slots, [slots EXCEPT ![job.slot] = Blank]}
  PROVE  /\ Current' = Current /\ Older' \in {Older, Blank}
         /\ slots' \in [0..1 -> Manifests]
         /\ \A i \in 0..1 : slots'[i] \in {slots[i], Blank}
  <1>1. CASE slots' = slots
    BY <1>1 DEF RestoreInv, TypeOK, Current, CurrentSlot, Older
  <1>2. CASE slots' # slots /\ BootJob
    <2>1. slots' = [slots EXCEPT ![1 - CurrentSlot] = Blank] /\ Valid(Current)
      BY <1>2 DEF BootJob
    <2>2. QED
      BY <2>1, OlderErased DEF RestoreInv, TypeOK
  <1>3. CASE StagingJob /\ ~Valid(slots[0]) /\ ~Valid(slots[1])
    <2>1. slots' = slots
      BY <1>3, NoManifest DEF StagingJob, RestoreInv, TypeOK
    <2>2. QED
      BY <2>1, <1>1
  <1>4. QED
    BY <1>1, <1>2, <1>3 DEF RestoreInv, JobOK

\* A failed write ends the boot, or goes on where there is nothing to apply.
LEMMA PublishFailsOut ==
  ASSUME RestoreInv, PublishFails
  PROVE  pc' \in {"halt", "running"} /\ (pc' = "running" => ~Pending)
  <1>1. pc' = job.fail /\ pc \in {"erase_slot", "program_slot"}
    BY DEF PublishFails, Goto
  <1>2. CASE BootJob
    BY <1>1, <1>2 DEF BootJob, Pending
  <1>3. CASE StagingJob /\ ~Valid(slots[0]) /\ ~Valid(slots[1])
    BY <1>1, <1>3, NoManifest DEF StagingJob, RestoreInv
  <1>4. QED
    BY <1>1, <1>2, <1>3 DEF RestoreInv, JobOK

\* Writing a manifest fails, and its sector is what it was or blank.
LEMMA PublishFailsStep ==
  ASSUME RestoreInv, PublishFails
  PROVE  RestoreInv'
  <1>1. /\ UNCHANGED <<payload, nvs, historyVars>> /\ pc' = job.fail /\ job' = Idle
        /\ slots' \in {slots, [slots EXCEPT ![job.slot] = Blank]}
        /\ pc \in {"erase_slot", "program_slot"} /\ job.fail \in Places
    BY DEF PublishFails, Goto, RestoreInv, TypeOK, Jobs
  <1>2. /\ Current' = Current /\ Older' \in {Older, Blank}
        /\ slots' \in [0..1 -> Manifests]
        /\ \A i \in 0..1 : slots'[i] \in {slots[i], Blank}
    BY <1>1, JobSectorErased
  <1>3. pc' \in {"halt", "running"} /\ (pc' = "running" => ~Pending)
    BY PublishFailsOut
  <1>4. TypeOK'
    BY <1>1, <1>2, BlankAndIdle DEF RestoreInv, TypeOK, historyVars
  <1>5. SlotsOK' /\ PayloadOK' /\ DamageIsRecoverable'
    BY <1>1, <1>2 DEF RestoreInv, SlotsOK, PayloadOK, DamageIsRecoverable, historyVars,
       Valid, Blank, Pending
  <1>6. LateOK' /\ AttemptOK' /\ JobOK'
    BY <1>1, <1>2, <1>3 DEF RestoreInv, LateOK, Late, AttemptOK, JobOK, Wiping,
       DamageIsRecoverable, Pending, historyVars
  <1>7. QED
    BY <1>4, <1>5, <1>6 DEF RestoreInv

-----------------------------------------------------------------------------
(* Steps that wipe the staging partition and stage an image.               *)

\* Without the first sector the newest manifest is the same, the older one, or none.
LEMMA FirstWiped ==
  ASSUME RestoreInv, slots' = [slots EXCEPT ![0] = Blank]
  PROVE  /\ slots'[0] = Blank /\ slots' \in [0..1 -> Manifests]
         /\ Older' = Blank /\ Blank.seq = 0
         /\ \/ Current' = Current \/ Current' = Blank
            \/ Current' = Older /\ Valid(Older) /\ Valid(Current)
  <1>1. /\ slots'[0] = Blank /\ slots'[1] = slots[1] /\ slots' \in [0..1 -> Manifests]
        /\ slots[0].seq \in Nat /\ slots[1].seq \in Nat /\ Blank.seq = 0
    BY SlotTypes, BlankAndIdle DEF RestoreInv, TypeOK, Manifests, Blank
  <1>2. /\ Older' = Blank
        /\ \/ Current' = Current \/ Current' = Blank
           \/ Current' = Older /\ Valid(Older) /\ Valid(Current)
    <2>1. CASE slots[1].seq > 0
      <3>1. CurrentSlot' = 1 /\ Current' = slots[1] /\ Older' = Blank
        BY <1>1, <2>1 DEF CurrentSlot, Current, Older
      <3>2. CASE CurrentSlot = 1
        BY <3>1, <3>2 DEF Current
      <3>3. CASE CurrentSlot = 0
        <4>1. Older = slots[1] /\ Valid(Older)
          BY <1>1, <2>1, <3>3 DEF Older, Valid
        <4>2. Valid(Current)
          BY <1>1, <2>1, <3>3 DEF CurrentSlot, Current, Valid
        <4>3. QED
          BY <3>1, <4>1, <4>2
      <3>4. QED
        BY <3>2, <3>3, SlotTypes DEF RestoreInv
    <2>2. CASE ~(slots[1].seq > 0)
      <3>1. slots[1] = Blank
        BY <1>1, <2>2 DEF RestoreInv, SlotsOK, Valid
      <3>2. QED
        BY <1>1, <3>1 DEF CurrentSlot, Current, Older
    <2>3. QED
      BY <2>1, <2>2
  <1>3. QED
    BY <1>1, <1>2

\* The first sector goes first: an older manifest left in the second one has
\* the attempts and the image of the one erased, as nothing is being applied.
LEMMA WipeFirstStep ==
  ASSUME RestoreInv, WipeSlot(0)
  PROVE  RestoreInv'
  <1>1. /\ UNCHANGED <<payload, nvs, job, historyVars>>
        /\ pc = "wipe_slot0" /\ pc' = "wipe_slot1"
        /\ slots' = [slots EXCEPT ![0] = Blank]
    BY DEF WipeSlot
  <1>2. slots'[0] = Blank /\ slots' \in [0..1 -> Manifests] /\ Blank.seq = 0
    BY <1>1, FirstWiped
  <1>3. /\ Older' = Blank
        /\ \/ Current' = Current \/ Current' = Blank
           \/ Current' = Older /\ Valid(Older) /\ Valid(Current)
    BY <1>1, FirstWiped
  <1>4. /\ nvs = Torn => tries \in {0, MaxAttempts} \/ decayed
        /\ Valid(Older) => Current.state # "Applying"
    BY <1>1 DEF RestoreInv, LateOK, Late
  <1>5. TypeOK'
    BY <1>1, <1>2 DEF RestoreInv, TypeOK, historyVars, Places
  <1>6. SlotsOK'
    <2>1. \A i \in 0..1 : slots'[i] \in {slots[i], Blank}
      BY <1>1 DEF RestoreInv, TypeOK
    <2>2. Valid(Current') => Current'.attempts = tries /\ (decayed => payload = Torn)
      BY <1>2, <1>3, <1>4 DEF RestoreInv, SlotsOK, Valid
    <2>3. QED
      BY <1>1, <1>2, <1>3, <2>1, <2>2 DEF RestoreInv, SlotsOK, historyVars, Valid
  <1>7. PayloadOK' /\ DamageIsRecoverable'
    BY <1>1, <1>2, <1>3, <1>4
    DEF RestoreInv, SlotsOK, PayloadOK, DamageIsRecoverable, historyVars, Valid
  <1>8. LateOK' /\ AttemptOK' /\ JobOK'
    BY <1>1, <1>2, <1>3, <1>4 DEF RestoreInv, LateOK, Late, AttemptOK, JobOK, Wiping,
       historyVars, StagingJob, Valid
  <1>9. QED
    BY <1>5, <1>6, <1>7, <1>8 DEF RestoreInv

\* Then the second one.
LEMMA WipeSecondStep ==
  ASSUME RestoreInv, WipeSlot(1)
  PROVE  RestoreInv'
  <1>1. /\ UNCHANGED <<payload, nvs, job, historyVars>>
        /\ pc = "wipe_slot1" /\ pc' = "wipe_payload"
        /\ slots' = [slots EXCEPT ![1] = Blank] /\ slots[0] = Blank
    BY DEF WipeSlot, RestoreInv, JobOK, SlotsOK
  <1>2. slots'[0] = Blank /\ slots'[1] = Blank /\ slots' \in [0..1 -> Manifests]
    BY <1>1, BlankAndIdle DEF RestoreInv, TypeOK
  <1>3. Current' = Blank /\ Older' = Blank /\ ~Valid(Blank)
    BY <1>2 DEF Current, CurrentSlot, Older, Valid, Blank
  <1>4. nvs = Torn => tries \in {0, MaxAttempts} \/ decayed
    BY <1>1 DEF RestoreInv, LateOK, Late
  <1>5. TypeOK'
    BY <1>1, <1>2 DEF RestoreInv, TypeOK, historyVars, Places
  <1>6. SlotsOK' /\ PayloadOK'
    BY <1>2, <1>3 DEF SlotsOK, PayloadOK, Valid
  <1>7. DamageIsRecoverable' /\ LateOK' /\ AttemptOK' /\ JobOK'
    BY <1>1, <1>2, <1>3, <1>4 DEF RestoreInv, DamageIsRecoverable, LateOK, Late,
       AttemptOK, JobOK, Wiping, historyVars, StagingJob, Valid, Blank
  <1>8. QED
    BY <1>5, <1>6, <1>7 DEF RestoreInv

\* With no manifest left the payload does not matter until it is complete.
LEMMA PayloadStep ==
  ASSUME RestoreInv, WipePayload \/ WritePayload \/ StagingFails
  PROVE  RestoreInv'
  <1>1. /\ UNCHANGED <<slots, nvs, historyVars>> /\ pc \in Late
        /\ pc \in {"wipe_slot0", "wipe_slot1", "wipe_payload", "write_payload"}
        /\ payload # payload' => pc \in {"wipe_payload", "write_payload"}
    BY DEF WipePayload, WritePayload, StagingFails, Late
  <1>2. Current' = Current /\ Older' = Older
    BY <1>1 DEF Current, CurrentSlot, Older
  <1>3. payload # payload' => ~Valid(Current) /\ ~Valid(Older) /\ ~Valid(slots[0])
                              /\ ~Valid(slots[1])
    BY <1>1, NoManifest DEF RestoreInv, JobOK
  <1>4. nvs = Torn => tries \in {0, MaxAttempts} \/ decayed
    BY <1>1 DEF RestoreInv, LateOK
  <1>5. \/ pc' = "running" /\ job' = Idle /\ payload' \in {payload, Torn}
        \/ pc = "write_payload" /\ pc' = "running" /\ job' = Idle
           /\ payload' = job.manifest.image
        \/ pc = "wipe_payload" /\ payload' = Torn /\ job' = job /\
           pc' = IF job.manifest = Blank THEN "running" ELSE "write_payload"
        \/ pc = "write_payload" /\ pc' = "erase_slot" /\ job' = job
           /\ payload' = job.manifest.image
    BY DEF WipePayload, WritePayload, StagingFails, Goto
  <1>6. pc = "write_payload" => StagingJob
    BY DEF RestoreInv, JobOK
  <1>7. TypeOK'
    <2>1. payload' \in Images \cup {Torn}
      BY <1>5, <1>6 DEF RestoreInv, TypeOK, StagingJob
    <2>2. job' \in Jobs /\ pc' \in Places
      BY <1>5, BlankAndIdle DEF RestoreInv, TypeOK, Places
    <2>3. QED
      BY <1>1, <2>1, <2>2 DEF RestoreInv, TypeOK, historyVars
  <1>8. SlotsOK' /\ PayloadOK' /\ DamageIsRecoverable'
    BY <1>1, <1>2, <1>3, <1>4 DEF RestoreInv, SlotsOK, PayloadOK, DamageIsRecoverable,
       historyVars, Valid
  <1>9. LateOK' /\ AttemptOK'
    BY <1>1, <1>2, <1>5, <1>4 DEF RestoreInv, LateOK, Late, AttemptOK, historyVars, Valid
  <1>10. JobOK'
    <2>1. CASE pc' = "running"
      BY <2>1 DEF JobOK, Wiping
    <2>2. CASE pc = "wipe_payload" /\ pc' = "write_payload"
      <3>1. job.manifest # Blank /\ job' = job
        BY <1>5, <2>2
      <3>2. StagingJob
        BY <2>2, <3>1 DEF RestoreInv, JobOK, Wiping, Idle
      <3>3. QED
        BY <1>1, <2>2, <3>1, <3>2 DEF RestoreInv, JobOK, Wiping, StagingJob, Valid
    <2>3. CASE pc = "write_payload" /\ pc' = "erase_slot"
      BY <1>1, <1>5, <1>6, <2>3 DEF RestoreInv, JobOK, Wiping, StagingJob, Valid
    <2>4. QED
      BY <1>5, <2>1, <2>2, <2>3
  <1>11. QED
    BY <1>7, <1>8, <1>9, <1>10 DEF RestoreInv

-----------------------------------------------------------------------------
(* The theorems.                                                           *)

\* Every step of the system preserves the invariant.
LEMMA RestoreNextStep ==
  ASSUME RestoreInv, [Next]_vars
  PROVE  RestoreInv'
  <1>1. CASE Apply
    <2>1. CASE NothingToApply
      BY <2>1, QuietStep
    <2>2. CASE AttemptsExhausted \/ PayloadSpoiled
      BY <2>2, GiveUpStep
    <2>3. CASE BeginAttempt
      BY <2>3, BeginAttemptStep
    <2>4. CASE EraseNvs
      BY <2>4, EraseNvsStep
    <2>5. CASE WriteNvs
      BY <2>5, WriteNvsStep
    <2>6. CASE AttemptFails
      BY <2>6, AttemptFailsStep
    <2>7. QED
      BY <1>1, <2>1, <2>2, <2>3, <2>4, <2>5, <2>6 DEF Apply
  <1>2. CASE StartUp
    <2>1. CASE StartsUp \/ Unconfirmed \/ SecondCleanBoot
      BY <2>1, QuietStep
    <2>2. CASE FirstCleanBoot
      BY <2>2, FirstCleanBootStep
    <2>3. ASSUME NEW o \in {"not_configured", "unusable"}, Rearm(o)
          PROVE  RestoreInv'
      BY <2>3, RearmStep
    <2>4. ASSUME NEW o \in {"not_configured", "unusable"}, NothingToRearm(o)
          PROVE  RestoreInv'
      BY <2>4, QuietStep
    <2>5. QED
      BY <1>2, <2>1, <2>2, <2>3, <2>4 DEF StartUp
  <1>3. CASE WriteFlash
    <2>1. CASE EraseSlot
      BY <2>1, EraseSlotStep
    <2>2. CASE ProgramSlot
      <3>1. pc = "program_slot"
        BY <2>2 DEF ProgramSlot
      <3>2. QED
        BY <2>2, <3>1, ProgramStagedStep, ProgramBootStep DEF RestoreInv, JobOK
    <2>3. CASE PublishFails
      BY <2>3, PublishFailsStep
    <2>4. CASE WipeSlot(0)
      BY <2>4, WipeFirstStep
    <2>5. CASE WipeSlot(1)
      BY <2>5, WipeSecondStep
    <2>6. CASE WipePayload \/ WritePayload \/ StagingFails
      BY <2>6, PayloadStep
    <2>7. QED
      BY <1>3, <2>1, <2>2, <2>3, <2>4, <2>5, <2>6 DEF WriteFlash
  <1>4. CASE Staged \/ Restart \/ Reset \/ PowerLoss
    BY <1>4, QuietStep
  <1>5. CASE SaveSettings
    BY <1>5, SaveSettingsStep
  <1>6. ASSUME NEW image \in Images, Stage(image)
        PROVE  RestoreInv'
    BY <1>6, StageStep
  <1>7. CASE Decay
    BY <1>7, DecayStep
  <1>8. CASE UNCHANGED vars
    <2>1. /\ UNCHANGED <<flashVars, historyVars>> /\ UNCHANGED <<pc, job>>
      BY <1>8 DEF vars
    <2>2. /\ SlotsOK' /\ PayloadOK' /\ DamageIsRecoverable' /\ Pending' = Pending
          /\ Current' = Current /\ Older' = Older /\ CurrentSlot' = CurrentSlot
      BY <2>1, FlashKept
    <2>3. TypeOK'
      BY <2>1 DEF RestoreInv, TypeOK, flashVars, historyVars
    <2>4. LateOK' /\ AttemptOK'
      BY <2>1, <2>2 DEF RestoreInv, LateOK, AttemptOK, flashVars, historyVars, Valid
    <2>5. JobOK'
      BY <2>1, <2>2 DEF RestoreInv, JobOK, StagingJob, BootJob, flashVars, historyVars,
         Valid
    <2>6. QED
      BY <2>2, <2>3, <2>4, <2>5 DEF RestoreInv
  <1>9. QED
    BY <1>1, <1>2, <1>3, <1>4, <1>5, <1>6, <1>7, <1>8 DEF Next, Firmware

\* The invariant holds in every reachable state.
THEOREM RestoreInvariant == Spec => []RestoreInv
  <1>1. Init => RestoreInv
    BY InitRestoreInv
  <1>2. RestoreInv /\ [Next]_vars => RestoreInv'
    BY RestoreNextStep
  <1>3. QED
    BY <1>1, <1>2, PTL DEF Spec

\* Manifests, payload and NVS keep their types, and attempts never exceed
\* kMaximumAttempts.
THEOREM RestoreTypeCorrect == Spec => []TypeOK
  <1>1. RestoreInv => TypeOK
    BY DEF RestoreInv
  <1>2. QED
    BY <1>1, RestoreInvariant, PTL

\* Whenever NVS is damaged, the next boot can repair it from the staged image,
\* unless every attempt was used or the image itself has decayed.
THEOREM DamageRecovery == Spec => []DamageIsRecoverable
  <1>1. RestoreInv => DamageIsRecoverable
    BY DEF RestoreInv
  <1>2. QED
    BY <1>1, RestoreInvariant, PTL

-----------------------------------------------------------------------------
(* Restoring implements RestorePromise: every step of the detailed         *)
(* specification, from a state that satisfies RestoreInv, is a step of the *)
(* promise or leaves what it speaks of alone.                              *)

\* A step that touches nothing the promise speaks of, except that it may give
\* up an attempt that has not touched NVS.
LEMMA SilentStep ==
  ASSUME UNCHANGED <<nvs, tries, decayed>>, Current'.image = Current.image,
         pc' # "erase_nvs"
  PROVE  Promise!PromiseNext
  BY DEF Promise!PromiseNext, Promise!Interrupt

\* Steps that leave flash alone, or begin to write a manifest over it.
LEMMA FlashKeptSilent ==
  ASSUME UNCHANGED <<slots, nvs, historyVars>>, pc' # "erase_nvs"
  PROVE  Promise!PromiseNext
  <1>1. Current' = Current
    BY DEF Current, CurrentSlot
  <1>2. QED
    BY <1>1, SilentStep DEF historyVars

\* An image that is being applied is whole.
LEMMA AppliedIsWhole ==
  ASSUME RestoreInv, Current.state # "Blank", payload = Current.image
  PROVE  Current.image \in Images /\ Current.image # NoImage /\ ~decayed
  <1>1. Current.image \in Images /\ Valid(Current)
    BY InForce DEF RestoreInv
  <1>2. Current.image # Torn /\ Current.image # NoImage
    BY <1>1, RestoreAssumption DEF RestoreAssumption, Torn
  <1>3. QED
    BY <1>1, <1>2 DEF RestoreInv, SlotsOK

\* Applying: an attempt damages NVS, and repairs it.
LEMMA ApplyImplements ==
  ASSUME RestoreInv, Apply
  PROVE  Promise!PromiseNext
  <1>1. CASE NothingToApply
    BY <1>1, FlashKeptSilent DEF NothingToApply, Goto, flashVars
  <1>2. CASE AttemptsExhausted \/ PayloadSpoiled \/ BeginAttempt
    BY <1>2, FlashKeptSilent
    DEF AttemptsExhausted, PayloadSpoiled, BeginAttempt, Publish, flashVars
  <1>3. ASSUME EraseNvs \/ AttemptFails, pc = "erase_nvs", nvs' = Torn
        PROVE  Promise!PromiseNext
    <2>1. pc' # "erase_nvs" /\ UNCHANGED <<slots, historyVars>>
      BY <1>3 DEF EraseNvs, AttemptFails, Goto, Publish
    <2>2. Current' = Current
      BY <2>1 DEF Current, CurrentSlot
    <2>3. Promise!Damage
      BY <1>3, <2>1, <2>2 DEF Promise!Damage, historyVars
    <2>4. QED
      BY <2>3 DEF Promise!PromiseNext
  <1>4. ASSUME WriteNvs \/ AttemptFails, pc = "write_nvs", nvs' = Current.image
        PROVE  Promise!PromiseNext
    <2>1. /\ UNCHANGED <<slots, historyVars>> /\ nvs' = Current.image
          /\ pc = "write_nvs" /\ pc' # "erase_nvs"
      BY <1>4 DEF WriteNvs, AttemptFails, Goto, Publish
    <2>2. nvs = Torn /\ Current.image # NoImage /\ ~decayed
      BY <2>1, AppliedIsWhole DEF RestoreInv, AttemptOK
    <2>3. Current' = Current
      BY <2>1 DEF Current, CurrentSlot
    <2>4. Promise!Restore
      BY <2>1, <2>2, <2>3 DEF Promise!Restore, historyVars
    <2>5. QED
      BY <2>4 DEF Promise!PromiseNext
  <1>5. ASSUME AttemptFails, nvs' = nvs
        PROVE  Promise!PromiseNext
    BY <1>5, FlashKeptSilent DEF AttemptFails, Goto, Publish
  <1>6. EraseNvs => pc = "erase_nvs" /\ nvs' = Torn
    BY DEF EraseNvs
  <1>7. WriteNvs => pc = "write_nvs" /\ nvs' = Current.image
    BY DEF WriteNvs
  <1>8. AttemptFails => \/ nvs' = nvs
                        \/ pc = "erase_nvs" /\ nvs' = Torn
                        \/ pc = "write_nvs" /\ nvs' = Current.image
    BY DEF AttemptFails, RestoreInv, AttemptOK
  <1>9. QED
    BY <1>1, <1>2, <1>3, <1>4, <1>5, <1>6, <1>7, <1>8 DEF Apply

\* Starting up, confirming and restarting change nothing the promise speaks of.
LEMMA StartUpImplements ==
  ASSUME StartUp \/ Staged \/ Restart \/ Reset \/ PowerLoss \/ \E image \in Images : Stage(image)
  PROVE  Promise!PromiseNext
  <1>1. UNCHANGED <<flashVars, historyVars>>
    BY DEF StartUp, StartsUp, Unconfirmed, FirstCleanBoot, SecondCleanBoot, Rearm,
       NothingToRearm, Staged, Restart, Reset, PowerLoss, Stage
  <1>2. pc' # "erase_nvs"
    BY DEF StartUp, StartsUp, Unconfirmed, FirstCleanBoot, SecondCleanBoot, Rearm,
       NothingToRearm, Staged, Restart, Reset, PowerLoss, Stage, Goto, Publish, After
  <1>3. QED
    BY <1>1, <1>2, FlashKeptSilent DEF flashVars

\* A complete manifest stages an image, begins an attempt, or says the same of it.
LEMMA ProgramImplements ==
  ASSUME RestoreInv, ProgramSlot
  PROVE  Promise!PromiseNext
  <1>1. CASE StagingJob /\ ~Valid(slots[0]) /\ ~Valid(slots[1])
    <2> DEFINE m == job.manifest
    <2>1. /\ UNCHANGED nvs /\ pc = "program_slot" /\ pc' \in {"staged", "running"}
          /\ slots' = [slots EXCEPT ![0] = m]
          /\ m.seq = 1 /\ m.image \in Images /\ tries' = 0 /\ decayed' = FALSE
      BY <1>1 DEF ProgramSlot, StagingJob, Goto
    <2>2. slots'[0] = m /\ slots'[1] = Blank
      BY <1>1, <2>1, NoManifest DEF RestoreInv, TypeOK
    <2>3. Current'.image = m.image /\ Current.image = NoImage
      BY <1>1, <2>1, <2>2, NoManifest DEF RestoreInv, Current, CurrentSlot, Blank
    <2>4. Promise!StageImage(m.image)
      BY <2>1, <2>3 DEF Promise!StageImage
    <2>5. QED
      BY <2>1, <2>4 DEF Promise!PromiseNext
  <1>2. CASE BootJob
    <2> DEFINE m == job.manifest
    <2>1. /\ UNCHANGED nvs /\ pc = "program_slot" /\ pc' \in {job.next, job.fail}
          /\ Current'.image = Current.image /\ decayed' = decayed
          /\ tries' = IF m.state = "Applying" THEN tries + 1 ELSE tries
          /\ tries' = m.attempts /\ m \in Manifests
      BY <1>2, BootManifest DEF ProgramSlot
    <2>2. CASE m.state = "Applying"
      <3>1. pc' \in {"erase_nvs", "halt"} /\ Pending /\ payload = Current.image
        BY <1>2, <2>1, <2>2 DEF BootJob
      <3>2. Current.image # NoImage /\ ~decayed
        BY <3>1, AppliedIsWhole DEF Pending
      <3>3. tries < MaxAttempts /\ tries' = tries + 1
        BY <2>1, <2>2, RestoreAssumption
        DEF Manifests, RestoreInv, TypeOK, RestoreAssumption
      <3>4. Promise!Try
        BY <2>1, <3>1, <3>2, <3>3 DEF Promise!Try
      <3>5. QED
        BY <3>4 DEF Promise!PromiseNext
    <2>3. CASE m.state # "Applying"
      <3>1. pc' # "erase_nvs"
        BY <1>2, <2>1, <2>3 DEF BootJob
      <3>2. QED
        BY <2>1, <2>3, <3>1, SilentStep
    <2>4. QED
      BY <2>2, <2>3
  <1>3. QED
    BY <1>1, <1>2 DEF ProgramSlot, RestoreInv, JobOK

\* Wiping the partition discards an image only when nothing is to be repaired.
LEMMA WipeImplements ==
  ASSUME RestoreInv, WipeSlot(0) \/ WipeSlot(1)
  PROVE  Promise!PromiseNext
  <1>1. /\ UNCHANGED <<nvs, historyVars>> /\ pc \in Late
        /\ pc # "erase_nvs" /\ pc' # "erase_nvs"
    BY DEF WipeSlot, Late
  <1>2. Promise!Free
    BY <1>1 DEF RestoreInv, LateOK, Promise!Free
  <1>3. Current'.image \in {Current.image, NoImage}
    <2>1. CASE WipeSlot(0)
      <3>1. slots' = [slots EXCEPT ![0] = Blank] /\ Blank.image = NoImage
        BY <2>1 DEF WipeSlot, Blank
      <3>2. QED
        BY <3>1, FirstWiped DEF RestoreInv, SlotsOK
    <2>2. CASE WipeSlot(1)
      <3>1. slots[0] = Blank /\ slots' = [slots EXCEPT ![1] = Blank]
        BY <2>2 DEF WipeSlot, RestoreInv, JobOK, SlotsOK
      <3>2. slots'[0] = Blank /\ slots'[1] = Blank
        BY <3>1 DEF RestoreInv, TypeOK
      <3>3. QED
        BY <3>2 DEF Current, CurrentSlot, Blank
    <2>3. QED
      BY <2>1, <2>2
  <1>4. CASE Current'.image = Current.image
    BY <1>1, <1>4, SilentStep DEF historyVars
  <1>5. CASE Current'.image = NoImage
    <2>1. Promise!Discard
      BY <1>1, <1>2, <1>5 DEF Promise!Discard, historyVars
    <2>2. QED
      BY <2>1 DEF Promise!PromiseNext
  <1>6. QED
    BY <1>3, <1>4, <1>5

\* The other writes to the staging partition.
LEMMA WriteFlashImplements ==
  ASSUME RestoreInv, WriteFlash
  PROVE  Promise!PromiseNext
  <1>1. CASE EraseSlot \/ PublishFails
    <2>1. /\ pc \in {"erase_slot", "program_slot"} /\ UNCHANGED <<nvs, historyVars>>
          /\ slots' \in {slots, [slots EXCEPT ![job.slot] = Blank]}
      BY <1>1 DEF EraseSlot, PublishFails
    <2>2. Current' = Current
      BY <2>1, JobSectorErased
    <2>3. pc' # "erase_nvs"
      BY <1>1, PublishFailsOut DEF EraseSlot
    <2>4. QED
      BY <2>1, <2>2, <2>3, SilentStep DEF historyVars
  <1>2. CASE WipePayload \/ WritePayload \/ StagingFails
    <2>1. UNCHANGED <<slots, nvs, historyVars>> /\ pc' # "erase_nvs"
      BY <1>2 DEF WipePayload, WritePayload, StagingFails, Goto
    <2>2. QED
      BY <2>1, FlashKeptSilent
  <1>3. QED
    BY <1>1, <1>2, ProgramImplements, WipeImplements DEF WriteFlash

\* Saving settings, and decay of the staged image.
LEMMA EnvironmentImplements ==
  ASSUME RestoreInv, SaveSettings \/ Decay
  PROVE  Promise!PromiseNext
  <1>1. UNCHANGED <<slots, pc, tries>> /\ pc # "erase_nvs"
    BY DEF SaveSettings, Decay, historyVars
  <1>2. Current' = Current
    BY <1>1 DEF Current, CurrentSlot
  <1>3. CASE SaveSettings
    <2>1. Promise!Save
      BY <1>1, <1>2, <1>3 DEF SaveSettings, historyVars, RestoreInv, LateOK, Late,
         Promise!Save, Promise!Free
    <2>2. QED
      BY <2>1 DEF Promise!PromiseNext
  <1>4. CASE Decay
    <2>1. Promise!Spoil
      BY <1>1, <1>2, <1>4 DEF Decay, Promise!Spoil
    <2>2. QED
      BY <2>1 DEF Promise!PromiseNext
  <1>5. QED
    BY <1>3, <1>4

\* Restoring promises what RestorePromise says.
THEOREM RestoreRefinement == Spec => RestorePromised
  <1>1. Init => Promise!PromiseInit
    BY DEF Init, Promise!PromiseInit, Current, CurrentSlot, Blank
  <1>2. RestoreInv /\ [Next]_vars => [Promise!PromiseNext]_(Promise!promiseVars)
    <2> SUFFICES ASSUME RestoreInv, [Next]_vars
                 PROVE  [Promise!PromiseNext]_(Promise!promiseVars)
      OBVIOUS
    <2>1. CASE UNCHANGED vars
      BY <2>1 DEF vars, flashVars, historyVars, Promise!promiseVars, Current, CurrentSlot
    <2>2. CASE Next
      BY <2>2, ApplyImplements, StartUpImplements, WriteFlashImplements,
         EnvironmentImplements DEF Next, Firmware
    <2>3. QED
      BY <2>1, <2>2
  <1>3. QED
    BY <1>1, <1>2, RestoreInvariant, PTL DEF Spec, RestorePromised, Promise!PromiseSpec
=============================================================================
