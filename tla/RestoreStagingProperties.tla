---------------------- MODULE RestoreStagingProperties ----------------------
(***************************************************************************)
(* What restoring a backup promises.                                       *)
(***************************************************************************)
EXTENDS RestoreStaging

Promise == INSTANCE RestorePromise
  WITH Damaged <- Torn, conf <- nvs, image <- Current.image,
       trying <- pc = "erase_nvs", intact <- ~decayed

\* Whatever is interrupted or fails, restore_staging and app_main implement
\* RestorePromise: NVS is erased for one staging at most kMaximumAttempts times,
\* and a damaged NVS is neither used up nor given up while its image can be tried
\* (docs/backup-and-recovery.md, failure and power-loss behaviour).
RestorePromised == Promise!PromiseSpec

\* While NVS is damaged, the newest manifest sends the next boot to a whole
\* payload, or every attempt was used, or the payload itself has decayed.
DamageIsRecoverable ==
  nvs = Torn => \/ Pending /\ payload = Current.image
                \/ tries \in {0, MaxAttempts} \/ decayed

\* Settings saved after a restore was applied are not overwritten by that restore
\* again, unless a boot rejected the configuration and rearmed it.
SavedSettingsSurvive == [][nvs = Own /\ nvs' # Own => ~applied]_vars

-----------------------------------------------------------------------------
(* The inductive invariant behind the theorems.                            *)

Older == slots[1 - CurrentSlot]
Valid(m) == m.seq # 0

\* The two manifests tell one story: the older one is about the same image, and
\* falls back by an attempt only from the manifest that announced the attempt.
SlotsOK ==
  /\ \A i \in 0..1 : IF Valid(slots[i])
                     THEN slots[i].state # "Blank" /\ slots[i].image \in Images
                     ELSE slots[i] = Blank
  /\ Valid(Current) => /\ Current.attempts = tries
                       /\ decayed => payload = Torn
  /\ Valid(Older) => /\ Older.seq < Current.seq /\ Older.image = Current.image
                     /\ Current.state # "Applying" => Older.attempts = tries

\* Where the firmware is past the application of a staged image.
Late == {"init", "confirm", "running", "staged",
         "wipe_slot0", "wipe_slot1", "wipe_payload", "write_payload"}

\* Then nothing of a damaged NVS is left to be repaired, and no manifest is
\* there that an erased newer one would bring back with fewer attempts.
LateOK ==
  pc \in Late => /\ nvs = Torn => tries \in {0, MaxAttempts} \/ decayed
                 /\ Current.state = "Applying" => ~Valid(Older)
                 /\ pc \in {"init", "confirm"} => ~Pending

AttemptOK ==
  pc \in {"erase_nvs", "write_nvs"} =>
    /\ Current.state = "Applying" /\ payload = Current.image
    /\ pc = "write_nvs" => nvs = Torn

\* The manifest being written by a staging, and by a boot.
StagingJob ==
  /\ job.manifest.state = "Ready" /\ job.manifest.seq = 1
  /\ job.manifest.attempts = 0 /\ job.manifest.image \in Images
  /\ job.slot = 0 /\ job.next = "staged" /\ job.fail = "running"

BootJob ==
  LET m == job.manifest IN
  /\ Valid(Current) /\ job.slot = 1 - CurrentSlot
  /\ m.seq = Current.seq + 1 /\ m.image = Current.image
  /\ m.attempts = IF m.state = "Applying" THEN tries + 1 ELSE tries
  /\ CASE m.state = "Applying"  -> /\ Pending /\ payload = Current.image
                                  /\ job.next = "erase_nvs" /\ job.fail = "halt"
       [] m.state = "Applied"   -> /\ Current.state = "Applying" /\ nvs # Torn
                                  /\ job.next = "restart" /\ job.fail = "halt"
       [] m.state = "Failed"    -> /\ tries = MaxAttempts \/ payload # Current.image
                                  /\ job.next \in {"init", "halt"} /\ job.fail = "halt"
       [] m.state = "Validated" -> /\ Current.state = "Applied"
                                  /\ job.next = "restart" /\ job.fail = "running"
       [] OTHER                 -> /\ m.state = "Ready" /\ Current.state \in {"Applied", "Validated"}
                                  /\ job.next = "restart" /\ job.fail \in {"halt", "running"}

Wiping == {"wipe_slot0", "wipe_slot1", "wipe_payload"}

JobOK ==
  /\ pc \in Wiping => job = Idle \/ StagingJob
  /\ pc = "wipe_slot1" => ~Valid(slots[0])
  /\ pc \in {"wipe_payload", "write_payload"} => ~Valid(slots[0]) /\ ~Valid(slots[1])
  /\ pc = "write_payload" => StagingJob
  /\ pc \in {"erase_slot", "program_slot"} =>
       \/ /\ StagingJob /\ payload = job.manifest.image
          /\ ~Valid(slots[0]) /\ ~Valid(slots[1])
       \/ BootJob /\ (pc = "program_slot" => ~Valid(slots[job.slot]))

\* An unreadable payload is one that decayed: a manifest is only ever published
\* over the payload it names, and outlives no wiping of it.
PayloadOK == Valid(Current) => payload = Current.image \/ decayed

RestoreInv ==
  TypeOK /\ SlotsOK /\ LateOK /\ AttemptOK /\ JobOK /\ PayloadOK /\ DamageIsRecoverable

-----------------------------------------------------------------------------
(* Liveness, under fairness.                                               *)

\* Once power stays on, restores cannot keep the device rebooting for ever: it
\* comes to rest, running or refused (retry_applied_restore keeps the attempts).
BootLoopEnds ==
  <>[][pc' = "boot" => pc \in {"boot", "restart"}]_vars => []<>(pc \in {"running", "halt"})
=============================================================================
