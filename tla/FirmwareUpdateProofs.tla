------------------------ MODULE FirmwareUpdateProofs ------------------------
(***************************************************************************)
(* Updates keep an image to fall back to, and disturb no restore.          *)
(***************************************************************************)
EXTENDS FirmwareUpdateProperties, RestoreStagingProofs

\* The steps of a restore that an update watches but takes no part in leave a
\* device that is restarting alone.
LEMMA OtherStepsWait ==
  ASSUME Elsewhere \/ StartedUp \/ Others
  PROVE  UNCHANGED updateVars /\ (pc = "restart" => pc' = "restart")
  <1>1. UNCHANGED updateVars
    BY DEF Elsewhere, StartedUp, Others
  <1>2. CASE Elsewhere
    <2>1. pc # "restart"
      BY <1>2 DEF Elsewhere, Apply, NothingToApply, AttemptsExhausted, PayloadSpoiled,
         BeginAttempt, EraseNvs, WriteNvs, AttemptFails, WriteFlash, EraseSlot,
         ProgramSlot, PublishFails, WipeSlot, WipePayload, WritePayload, StagingFails,
         Staged, StartsUp, Rearm, NothingToRearm
    <2>2. QED
      BY <1>1, <2>1
  <1>3. CASE StartedUp
    <2>1. pc # "restart"
      BY <1>3 DEF StartedUp, FirstCleanBoot, SecondCleanBoot, Unconfirmed
    <2>2. QED
      BY <1>1, <2>1
  <1>4. CASE Others
    BY <1>1, <1>4 DEF Others, SaveSettings, Decay, Reset, Stage
  <1>5. QED
    BY <1>2, <1>3, <1>4

LEMMA BootStep ==
  ASSUME UpdateInv, Boot
  PROVE  UpdateInv'
  <1>1. /\ phase' = "idle" /\ locked' = FALSE /\ maintenance' = FALSE
        /\ services' = "unknown" /\ soaking' = FALSE
    BY DEF Boot
  <1>2. Bootload
    BY DEF Boot
  <1>3. /\ running' \in {"Valid", "Pending"} /\ update' \notin {"New", "Written"}
        /\ running' = "Pending" => update' = "Valid"
        /\ update' \in SlotStates
    BY <1>2 DEF Bootload, UpdateInv, UpdateTypeOK, FallbackKept, SlotStates
  <1>4. QED
    BY <1>1, <1>3 DEF UpdateInv, UpdateTypeOK, FallbackKept, UploadInterlocked,
       Uploading, SlotStates, UpdatePhases

LEMMA ConfirmationStep ==
  ASSUME UpdateInv, NEW level \in Levels, ScheduleBootConfirmation(level)
  PROVE  UpdateInv'
  <1>1. /\ UNCHANGED <<update, phase, locked, maintenance>>
        /\ services' = level /\ soaking' \in BOOLEAN
    BY DEF ScheduleBootConfirmation, uploadVars, UpdateInv, UpdateTypeOK
  <1>2. \/ running' = running /\ pc' = pc
        \/ running = "Pending" /\ update = "Valid" /\ running' = "Rejected" /\ pc' = "restart"
    BY DEF ScheduleBootConfirmation, Rollback, Reset, Goto, vars
  <1>3. QED
    BY <1>1, <1>2 DEF UpdateInv, UpdateTypeOK, FallbackKept, UploadInterlocked, Uploading,
       SlotStates, Levels

LEMMA UploadStep ==
  ASSUME UpdateInv, Upload
  PROVE  UpdateInv'
  <1>1. /\ UNCHANGED <<running, services, soaking, pc>>
    BY DEF Upload, BeginUpload, WriteChunk, Verify, SelectImage, FailUpload, vars,
       imageVars, bootVars
  <1>2. CASE BeginUpload
    BY <1>1, <1>2 DEF BeginUpload, imageVars, UpdateInv, UpdateTypeOK, FallbackKept,
       UploadInterlocked, Uploading, UpdatePhases
  <1>3. CASE WriteChunk
    BY <1>1, <1>3 DEF WriteChunk, uploadVars, UpdateInv, UpdateTypeOK, FallbackKept,
       UploadInterlocked, Uploading, SlotStates
  <1>4. CASE Verify \/ SelectImage
    BY <1>1, <1>4 DEF Verify, SelectImage, imageVars, UpdateInv, UpdateTypeOK, FallbackKept,
       UploadInterlocked, Uploading, SlotStates, UpdatePhases
  <1>5. CASE FailUpload
    BY <1>1, <1>5 DEF FailUpload, UpdateInv, UpdateTypeOK, FallbackKept,
       UploadInterlocked, Uploading, SlotStates, UpdatePhases
  <1>6. QED
    BY <1>2, <1>3, <1>4, <1>5 DEF Upload

LEMMA UpdateStep ==
  ASSUME UpdateInv, [UpdateNext]_deviceVars
  PROVE  UpdateInv'
  <1>1. CASE Elsewhere \/ StartedUp \/ Others \/ UNCHANGED deviceVars
    <2>1. UNCHANGED updateVars /\ (pc = "restart" => pc' = "restart")
      BY <1>1, OtherStepsWait DEF deviceVars, vars
    <2>2. QED
      BY <2>1 DEF updateVars, imageVars, uploadVars, bootVars, UpdateInv, UpdateTypeOK,
         FallbackKept, UploadInterlocked, Uploading
  <1>2. CASE Boot
    BY <1>2, BootStep
  <1>3. ASSUME NEW level \in Levels, ScheduleBootConfirmation(level)
        PROVE  UpdateInv'
    BY <1>3, ConfirmationStep
  <1>4. CASE ConfirmImage
    <2>1. /\ UNCHANGED <<update, phase, locked, maintenance, services, pc>>
          /\ soaking' = FALSE /\ running' \in {"Valid", running}
      BY <1>4 DEF ConfirmImage, vars, uploadVars
    <2>2. QED
      BY <2>1 DEF UpdateInv, UpdateTypeOK, FallbackKept, UploadInterlocked, Uploading, SlotStates
  <1>5. CASE Upload
    BY <1>5, UploadStep
  <1>6. QED
    BY <1>1, <1>2, <1>3, <1>4, <1>5 DEF UpdateNext, Device

\* The inductive invariant of updates holds throughout.
THEOREM UpdateInvariant == UpdateSpec => []UpdateInv
  <1>1. UpdateInit => UpdateInv
    BY DEF UpdateInit, UpdateInv, UpdateTypeOK, FallbackKept, UploadInterlocked, Uploading,
       SlotStates, UpdatePhases
  <1>2. QED
    BY <1>1, UpdateStep, PTL DEF UpdateSpec

\* Wherever an upload, a boot or a rollback is interrupted, a confirmed image is there
\* to boot or to fall back to (ota_manager, and the bootloader it relies on).
THEOREM FallbackAlwaysKept == UpdateSpec => []FallbackKept
  <1>1. UpdateInv => FallbackKept
    BY DEF UpdateInv
  <1>2. QED
    BY <1>1, UpdateInvariant, PTL

\* Every way an upload may end gives the gate back, until an accepted image boots
\* (release_maintenance).
THEOREM UploadAlwaysInterlocked == UpdateSpec => []UploadInterlocked
  <1>1. UpdateInv => UploadInterlocked
    BY DEF UpdateInv
  <1>2. QED
    BY <1>1, UpdateInvariant, PTL

-----------------------------------------------------------------------------
(* To a restore, an update is one more reason to restart.                  *)

LEMMA UpdateIsRestoreStep ==
  ASSUME [UpdateNext]_deviceVars
  PROVE  [Next]_vars
  <1>1. CASE Boot
    BY <1>1 DEF Boot, Next, Firmware
  <1>2. ASSUME NEW level \in Levels, ScheduleBootConfirmation(level)
        PROVE  [Next]_vars
    BY <1>2 DEF ScheduleBootConfirmation, Rollback, Next
  <1>3. CASE ConfirmImage \/ Upload \/ UNCHANGED deviceVars
    BY <1>3 DEF ConfirmImage, Upload, BeginUpload, WriteChunk, Verify, SelectImage,
       FailUpload, deviceVars
  <1>4. CASE Elsewhere \/ StartedUp
    BY <1>4 DEF Elsewhere, StartedUp, Next, Firmware, StartUp
  <1>5. CASE Others
    BY <1>5 DEF Others, Next
  <1>6. QED
    BY <1>1, <1>2, <1>3, <1>4, <1>5 DEF UpdateNext, Device

\* A device that is updated and rolled back behaves, as far as restoring is concerned,
\* as RestoreStaging says (app_main, ota_manager).
THEOREM UpdateImplementsRestoreStaging == UpdateSpec => Spec
  <1>1. UpdateInit => Init
    BY DEF UpdateInit
  <1>2. QED
    BY <1>1, UpdateIsRestoreStep, PTL DEF UpdateSpec, Spec

\* So a restore keeps its promise across uploads, restarts for an update and rollbacks.
THEOREM RestorePromisedAcrossUpdates == UpdateSpec => RestorePromised /\ []DamageIsRecoverable
  BY UpdateImplementsRestoreStaging, RestoreRefinement, DamageRecovery, PTL
=============================================================================
