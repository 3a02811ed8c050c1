--------------------------- MODULE RestoreStaging ---------------------------
(***************************************************************************)
(* Restoring a full backup (components/backup_recovery/restore_staging.cpp *)
(* with the boot order of main/app_main.cpp): a decrypted NVS image is     *)
(* staged in a partition of its own, written over NVS early in a later     *)
(* boot, and kept until two clean boots have passed.                       *)
(*                                                                         *)
(* A step has at most one effect on flash.  What an interrupted or failed  *)
(* flash operation leaves is the content before it, or nothing usable (a   *)
(* half-written manifest or image fails its digest), or, when only its     *)
(* verification fails, all that was to be written.                         *)
(*                                                                         *)
(* The manifest the code holds in RAM is always the newest one in flash,   *)
(* so only the one being written is a variable.                            *)
(***************************************************************************)
EXTENDS Naturals

CONSTANTS
  Images,       \* NVS images a backup may hold
  Sound,        \* those the firmware can start with
  NoImage,
  MaxAttempts   \* kMaximumAttempts (3 in the code)

ASSUME RestoreAssumption ==
  /\ Sound \subseteq Images /\ NoImage \notin Images
  /\ {"Torn", "Own"} \cap Images = {}
  /\ MaxAttempts \in Nat \ {0}

VARIABLES
  slots,    \* the two manifest sectors of the staging partition
  payload,  \* the image behind them
  nvs,      \* content of the NVS partition
  pc,       \* where the firmware is; "halt" is app_main returning early
  job,      \* the manifest being written, and where to go on
  tries,    \* attempts put on record for this staging (history)
  decayed,  \* this staging's payload has changed in flash (history)
  applied   \* its application was recorded and not revoked (history)

flashVars   == <<slots, payload, nvs>>
historyVars == <<tries, decayed, applied>>
vars == <<flashVars, pc, job, historyVars>>

Torn == "Torn"  \* erased or half written
Own  == "Own"   \* written by the running firmware

ManifestStates == {"Ready", "Applying", "Failed", "Applied", "Validated"}
Manifests ==
  [state : ManifestStates \cup {"Blank"}, seq : Nat, attempts : 0..MaxAttempts,
   image : Images \cup {NoImage}]

\* A sector without a valid manifest; a valid sequence number is never 0.
Blank == [state |-> "Blank", seq |-> 0, attempts |-> 0, image |-> NoImage]

Places ==
  {"boot", "init", "confirm", "running", "halt", "restart",
   "erase_slot", "program_slot", "erase_nvs", "write_nvs",
   "wipe_slot0", "wipe_slot1", "wipe_payload", "write_payload", "staged"}

Jobs == [manifest : Manifests, slot : 0..1, next : Places, fail : Places]

Idle == [manifest |-> Blank, slot |-> 0, next |-> "running", fail |-> "running"]

TypeOK ==
  /\ slots \in [0..1 -> Manifests]
  /\ payload \in Images \cup {Torn} /\ nvs \in Images \cup {Torn, Own}
  /\ pc \in Places
  /\ job \in Jobs
  /\ tries \in 0..MaxAttempts /\ decayed \in BOOLEAN /\ applied \in BOOLEAN

Init ==
  /\ slots = [i \in 0..1 |-> Blank] /\ payload = Torn /\ nvs = Own
  /\ pc = "boot" /\ job = Idle
  /\ tries = 0 /\ decayed = FALSE /\ applied = FALSE

\* read_current_manifest: the valid one with the higher sequence number.
CurrentSlot == IF slots[1].seq > slots[0].seq THEN 1 ELSE 0
Current     == slots[CurrentSlot]

Goto(place) == pc' = place /\ job' = Idle

-----------------------------------------------------------------------------
(* write_manifest: the sector is erased, then programmed and read back.    *)

\* Faulty variant: the newest manifest is overwritten.
PublishInPlace(m, next, fail) ==
  /\ pc' = "erase_slot"
  /\ job' = [manifest |-> [m EXCEPT !.seq = @ + 1], slot |-> CurrentSlot,
             next |-> next, fail |-> fail]

\* The next manifest goes to the other slot, so the newest one stays in force
\* until it is complete.
Publish(m, next, fail) ==
  /\ pc' = "erase_slot"
  /\ job' = [manifest |-> [m EXCEPT !.seq = @ + 1], slot |-> 1 - CurrentSlot,
             next |-> next, fail |-> fail]

EraseSlot ==
  /\ pc = "erase_slot"
  /\ slots' = [slots EXCEPT ![job.slot] = Blank]
  /\ pc' = "program_slot"
  /\ UNCHANGED <<payload, nvs, job, historyVars>>

\* If reading it back fails, the manifest is there and taken for unwritten.
ProgramSlot ==
  /\ pc = "program_slot"
  /\ slots' = [slots EXCEPT ![job.slot] = job.manifest]
  /\ Goto(job.next) \/ Goto(job.fail)
  /\ applied' = CASE job.manifest.state = "Ready"   -> FALSE
                  [] job.manifest.state = "Applied" -> TRUE
                  [] OTHER -> applied
  /\ tries' = CASE job.manifest.seq = 1 -> 0
                [] job.manifest.state = "Applying" -> tries + 1
                [] OTHER -> tries
  /\ decayed' = (decayed /\ job.manifest.seq # 1)
  /\ UNCHANGED <<payload, nvs>>

PublishFails ==
  /\ pc \in {"erase_slot", "program_slot"}
  /\ slots' \in {slots, [slots EXCEPT ![job.slot] = Blank]}
  /\ Goto(job.fail)
  /\ UNCHANGED <<payload, nvs, historyVars>>

-----------------------------------------------------------------------------
(* apply_staged_restore_early, the first thing a boot does.                *)

Pending      == Current.state \in {"Ready", "Applying"}

\* Faulty variant: one attempt too many.
ExhaustedLate(m) == m.attempts > MaxAttempts

Exhausted(m) == m.attempts >= MaxAttempts

NothingToApply ==
  /\ pc = "boot" /\ ~Pending
  /\ Goto("init")
  /\ UNCHANGED <<flashVars, historyVars>>

AttemptsExhausted ==
  /\ pc = "boot" /\ Pending /\ Exhausted(Current)
  /\ Publish([Current EXCEPT !.state = "Failed"], "init", "halt")
  /\ UNCHANGED <<flashVars, historyVars>>

PayloadSpoiled ==
  /\ pc = "boot" /\ Pending /\ ~Exhausted(Current) /\ payload # Current.image
  /\ Publish([Current EXCEPT !.state = "Failed"], "halt", "halt")
  /\ UNCHANGED <<flashVars, historyVars>>

\* Faulty variant: the attempt is not counted.
BeginAttemptUncounted ==
  /\ pc = "boot" /\ Pending /\ ~Exhausted(Current) /\ payload = Current.image
  /\ Publish([Current EXCEPT !.state = "Applying"], "erase_nvs", "halt")
  /\ UNCHANGED <<flashVars, historyVars>>

\* The attempt is on record before NVS is touched.
BeginAttempt ==
  /\ pc = "boot" /\ Pending /\ ~Exhausted(Current) /\ payload = Current.image
  /\ Publish([Current EXCEPT !.state = "Applying", !.attempts = @ + 1],
             "erase_nvs", "halt")
  /\ UNCHANGED <<flashVars, historyVars>>

EraseNvs ==
  /\ pc = "erase_nvs"
  /\ nvs' = Torn
  /\ Goto("write_nvs")
  /\ UNCHANGED <<slots, payload, historyVars>>

\* Written, read back and verified.
WriteNvs ==
  /\ pc = "write_nvs"
  /\ nvs' = Current.image
  /\ Publish([Current EXCEPT !.state = "Applied"], "restart", "halt")
  /\ UNCHANGED <<slots, payload, historyVars>>

\* Reading the payload, or erasing, writing or verifying NVS fails.
AttemptFails ==
  /\ \/ pc = "erase_nvs" /\ nvs' \in {nvs, Torn}
     \/ pc = "write_nvs" /\ nvs' \in {Torn, Current.image}
  /\ IF Exhausted(Current)
     THEN Publish([Current EXCEPT !.state = "Failed"], "halt", "halt")
     ELSE Goto("halt")
  /\ UNCHANGED <<slots, payload, historyVars>>

-----------------------------------------------------------------------------
(* The rest of app_main: NVS, configuration, services, confirmation.       *)

\* What nvs_flash_init and ConfigRepository::load make of the NVS content.
Outcomes ==
  CASE nvs \in Sound -> {"loaded"}
    [] nvs = Own     -> {"loaded", "not_configured"}
    [] nvs = Torn    -> {"loaded", "not_configured", "unusable"}
    [] OTHER         -> {"not_configured", "unusable"}

\* Faulty variant: a board that cannot start up tries again.
AfterRestarting(outcome) == "restart"

\* Without NVS app_main returns; without a configuration it starts the set-up.
After(outcome) == IF outcome = "unusable" THEN "halt" ELSE "running"

StartsUp ==
  /\ pc = "init" /\ "loaded" \in Outcomes
  /\ Goto("confirm")
  /\ UNCHANGED <<flashVars, historyVars>>

\* retry_applied_restore
Rearm(outcome) ==
  /\ pc = "init" /\ outcome \in Outcomes \ {"loaded"}
  /\ Current.state \in {"Applied", "Validated"}
  /\ Publish([Current EXCEPT !.state = "Ready"], "restart", After(outcome))
  /\ UNCHANGED <<flashVars, historyVars>>

NothingToRearm(outcome) ==
  /\ pc = "init" /\ outcome \in Outcomes \ {"loaded"}
  /\ Current.state \notin {"Applied", "Validated"}
  /\ Goto(After(outcome))
  /\ UNCHANGED <<flashVars, historyVars>>

\* A service is not up, or there is nothing to confirm.
Unconfirmed ==
  /\ pc = "confirm" /\ Goto("running")
  /\ UNCHANGED <<flashVars, historyVars>>

\* confirm_staged_restore after the first and after the second clean boot.
FirstCleanBoot ==
  /\ pc = "confirm" /\ Current.state = "Applied"
  /\ Publish([Current EXCEPT !.state = "Validated"], "restart", "running")
  /\ UNCHANGED <<flashVars, historyVars>>

SecondCleanBoot ==
  /\ pc = "confirm" /\ Current.state = "Validated"
  /\ pc' = "wipe_slot0" /\ job' = Idle
  /\ UNCHANGED <<flashVars, historyVars>>

\* Another part of the firmware restarts the device: changed settings, an update,
\* a rollback.
Reset ==
  /\ pc \in {"confirm", "running"} /\ Goto("restart")
  /\ UNCHANGED <<flashVars, historyVars>>

\* esp_restart, and the boot after it.
Restart ==
  /\ pc = "restart" /\ Goto("boot")
  /\ UNCHANGED <<flashVars, historyVars>>

-----------------------------------------------------------------------------
(* The running firmware.                                                   *)

\* Set-up, pairing and settings save to NVS, and so does the migration of an older
\* configuration when it is loaded.
SaveSettings ==
  /\ pc = "running" \/ (pc = "init" /\ "loaded" \in Outcomes)
  /\ nvs' = Own
  /\ UNCHANGED <<slots, payload, pc, job, historyVars>>

\* A restore handler calls stage_restore_image, which first erases everything.
Stage(image) ==
  /\ pc = "running"
  /\ pc' = "wipe_slot0"
  /\ job' = [manifest |-> [state |-> "Ready", seq |-> 1, attempts |-> 0, image |-> image],
             slot |-> 0, next |-> "staged", fail |-> "running"]
  /\ UNCHANGED <<flashVars, historyVars>>

\* The partition is erased from its first sector to its last.
WipeSlot(i) ==
  /\ pc = IF i = 0 THEN "wipe_slot0" ELSE "wipe_slot1"
  /\ slots' = [slots EXCEPT ![i] = Blank]
  /\ pc' = IF i = 0 THEN "wipe_slot1" ELSE "wipe_payload"
  /\ UNCHANGED <<payload, nvs, job, historyVars>>

WipePayload ==
  /\ pc = "wipe_payload" /\ payload' = Torn
  /\ pc' = IF job.manifest = Blank THEN "running" ELSE "write_payload"
  /\ UNCHANGED <<slots, nvs, job, historyVars>>

WritePayload ==
  /\ pc = "write_payload" /\ payload' = job.manifest.image
  /\ pc' = "erase_slot"
  /\ UNCHANGED <<slots, nvs, job, historyVars>>

StagingFails ==
  /\ pc \in {"wipe_slot0", "wipe_slot1", "wipe_payload", "write_payload"}
  /\ payload' \in CASE pc = "wipe_payload"  -> {payload, Torn}
                   [] pc = "write_payload" -> {Torn, job.manifest.image}
                   [] OTHER -> {payload}
  /\ Goto("running")
  /\ UNCHANGED <<slots, nvs, historyVars>>

\* The handler restarts the device only if its response was sent.
Staged ==
  /\ pc = "staged" /\ (Goto("restart") \/ Goto("running"))
  /\ UNCHANGED <<flashVars, historyVars>>

-----------------------------------------------------------------------------
PowerLoss ==
  /\ pc # "boot" /\ Goto("boot")
  /\ UNCHANGED <<flashVars, historyVars>>

\* What a boot finds in the staging partition is not what was written.
Decay ==
  /\ pc = "boot" /\ payload # Torn
  /\ payload' = Torn /\ decayed' = TRUE
  /\ UNCHANGED <<slots, nvs, pc, job, tries, applied>>

Apply ==
  \/ NothingToApply \/ AttemptsExhausted \/ PayloadSpoiled
  \/ BeginAttempt \/ EraseNvs \/ WriteNvs \/ AttemptFails

StartUp ==
  \/ StartsUp \/ Unconfirmed \/ FirstCleanBoot \/ SecondCleanBoot
  \/ (\E o \in {"not_configured", "unusable"} : Rearm(o) \/ NothingToRearm(o))

WriteFlash ==
  \/ EraseSlot \/ ProgramSlot \/ PublishFails \/ WipeSlot(0) \/ WipeSlot(1)
  \/ WipePayload \/ WritePayload \/ StagingFails

\* What the firmware does by itself.
Firmware == Apply \/ StartUp \/ WriteFlash \/ Staged \/ Restart

Next ==
  \/ Firmware \/ SaveSettings \/ (\E image \in Images : Stage(image))
  \/ Reset \/ PowerLoss \/ Decay

Spec == Init /\ [][Next]_vars

\* The main task runs on; users, power and flash decay may do anything.
FairSpec == Spec /\ WF_vars(Firmware)
=============================================================================
