--------------------------- MODULE FirmwareUpdate ---------------------------
(***************************************************************************)
(* Updating the firmware over the air, on a device whose backups can be    *)
(* restored at the same time: components/ota_manager and ota_api, the part *)
(* of main/app_main.cpp that judges a new image, and, as far as the code   *)
(* relies on it, the ESP-IDF bootloader with rollback enabled.             *)
(*                                                                         *)
(* The steps of RestoreStaging are the device's other steps; both parts    *)
(* share the boot, the running firmware and the single task of the HTTP    *)
(* server, which carries out one upload or one staging at a time.          *)
(*                                                                         *)
(* There are two application slots, so "the other one" is always the       *)
(* update partition.  It is also what the bootloader falls back to.        *)
(***************************************************************************)
EXTENDS RestoreStagingProperties

VARIABLES
  running,      \* the slot whose image runs (in otadata)
  update,       \* the other slot
  phase,        \* ota_manager's state.phase
  locked,       \* ota_manager's lock
  maintenance,  \* gate_runtime refuses commands
  services,     \* what app_main has started, once it has looked
  soaking       \* the confirmation task is waiting

imageVars  == <<running, update>>
uploadVars == <<phase, locked, maintenance>>
bootVars   == <<services, soaking>>
updateVars == <<imageVars, uploadVars, bootVars>>
deviceVars == <<vars, updateVars>>

\* Valid: confirmed once, or flashed by cable.  New: complete and selected for the
\* next boot.  Pending: booted and not yet confirmed.  Written: all bytes are there.
\* Unproven: anything else.
SlotStates == {"Valid", "New", "Pending", "Rejected", "Written", "Unproven"}
UpdatePhases == {"idle", "receiving", "verifying", "ready_to_reboot", "failed"}
Uploading    == phase \in {"receiving", "verifying"}

\* Without the runtime ("down"), with it, and with the Wi-Fi portal and HomeKit too.
Levels == {"down", "active", "healthy"}

UpdateTypeOK ==
  /\ running \in SlotStates /\ update \in SlotStates
  /\ phase \in UpdatePhases /\ locked \in BOOLEAN /\ maintenance \in BOOLEAN
  /\ services \in Levels \cup {"unknown"} /\ soaking \in BOOLEAN

UpdateInit ==
  /\ Init /\ running = "Valid" /\ update = "Unproven"
  /\ phase = "idle" /\ locked = FALSE /\ maintenance = FALSE
  /\ services = "unknown" /\ soaking = FALSE

-----------------------------------------------------------------------------
(* The bootloader (external).                                              *)

\* A new image is tried once: not confirmed by the next boot, it is rejected.
Bootload ==
  CASE update = "New" -> running' = "Pending" /\ update' = running
    [] update # "New" /\ running \in {"Pending", "Rejected"} ->
         running' = update /\ update' = "Rejected"
    [] OTHER -> /\ running' = running
                /\ update' = IF update = "Written" THEN "Unproven" ELSE update

\* Whatever restarts the device, RAM is lost.
Boot ==
  /\ (Restart \/ PowerLoss) /\ Bootload
  /\ phase' = "idle" /\ locked' = FALSE /\ maintenance' = FALSE
  /\ services' = "unknown" /\ soaking' = FALSE

-----------------------------------------------------------------------------
(* app_main and the confirmation of a new image.                           *)

\* esp_ota_mark_app_invalid_rollback_and_reboot, which needs an image to fall back
\* to; it may fail, and its result is not looked at.
Rollback ==
  \/ update = "Valid" /\ running' = "Rejected" /\ Reset
  \/ UNCHANGED <<running, vars>>

\* schedule_boot_confirmation, once the services are started; a device without a
\* configuration is already serving its set-up.
ScheduleBootConfirmation(level) ==
  /\ services = "unknown" /\ pc \in {"confirm", "running"}
  /\ pc = "running" => level = "down"
  /\ services' = level
  /\ \/ running # "Pending" /\ UNCHANGED <<running, soaking, vars>>
     \/ running = "Pending" /\ level = "healthy" /\ soaking' = TRUE /\ UNCHANGED <<running, vars>>
     \/ running = "Pending" /\ Rollback /\ UNCHANGED soaking  \* or no memory for the task
  /\ UNCHANGED <<update, uploadVars>>

\* The soak has passed; marking the image valid may fail.
ConfirmImage ==
  /\ soaking /\ soaking' = FALSE /\ running' \in {"Valid", running}
  /\ UNCHANGED <<vars, update, uploadVars, services>>

\* The rest of app_main.  A staged restore is confirmed only by a healthy device.
StartedUp ==
  /\ \/ services = "healthy" /\ (FirstCleanBoot \/ SecondCleanBoot)
     \/ /\ services = "healthy" => Current.state \notin {"Applied", "Validated"}
        /\ services # "unknown" /\ Unconfirmed
  /\ UNCHANGED updateVars

\* The steps that nothing of an update takes part in.
Elsewhere ==
  /\ \/ Apply \/ WriteFlash \/ Staged \/ StartsUp
     \/ \E o \in {"not_configured", "unusable"} : Rearm(o) \/ NothingToRearm(o)
  /\ UNCHANGED updateVars

\* Users, other tasks and flash.  After changed settings or an accepted upload the
\* device restarts, if the answer could be sent.
Others ==
  /\ \/ SaveSettings \/ Decay
     \/ services # "unknown" /\ pc = "running" /\ Reset
     \/ services # "unknown" /\ ~Uploading /\ \E image \in Images : Stage(image)
  /\ UNCHANGED updateVars

-----------------------------------------------------------------------------
(* An upload.  The client decides how long it takes and whether it ends.   *)

\* Faulty variant: an image that is still on trial can be replaced.
BeginUploadOnTrial ==
  /\ pc = "running" /\ services \in {"active", "healthy"}
  /\ ~locked /\ locked' = TRUE
  /\ ~maintenance /\ maintenance' = TRUE
  /\ phase' = "receiving"
  /\ UNCHANGED <<vars, imageVars, bootVars>>

\* begin: the lock, maintenance (which needs the runtime and a gate at rest), and
\* esp_ota_begin, which refuses while the running image is pending.
BeginUpload ==
  /\ pc = "running" /\ services \in {"active", "healthy"}
  /\ ~locked /\ locked' = TRUE
  /\ ~maintenance /\ maintenance' = TRUE
  /\ running # "Pending"
  /\ phase' = "receiving"
  /\ UNCHANGED <<vars, imageVars, bootVars>>

\* Sectors are erased as the chunks arrive.
WriteChunk ==
  /\ phase = "receiving" /\ update # "Written"
  /\ update' \in {"Unproven", "Written"}
  /\ UNCHANGED <<vars, running, uploadVars, bootVars>>

\* finish: esp_ota_end, project and version are checked before the image is selected.
Verify ==
  /\ phase = "receiving" /\ update = "Written" /\ phase' = "verifying"
  /\ UNCHANGED <<vars, imageVars, locked, maintenance, bootVars>>

SelectImage ==
  /\ phase = "verifying" /\ phase' = "ready_to_reboot" /\ update' = "New"
  /\ UNCHANGED <<vars, running, locked, maintenance, bootVars>>

\* Faulty variant: the gate is left in maintenance.
FailUploadHeld ==
  /\ Uploading /\ phase' = "failed" /\ locked' = FALSE
  /\ update' = IF update = "Written" THEN "Unproven" ELSE update
  /\ UNCHANGED <<vars, running, maintenance, bootVars>>

\* Out of memory, a lost connection, a failed write; or the image is not valid, not
\* for this device, already installed, or cannot be selected.
FailUpload ==
  /\ Uploading /\ phase' = "failed" /\ locked' = FALSE /\ maintenance' = FALSE
  /\ update' = IF update = "Written" THEN "Unproven" ELSE update
  /\ UNCHANGED <<vars, running, bootVars>>

Upload == BeginUpload \/ WriteChunk \/ Verify \/ SelectImage \/ FailUpload

-----------------------------------------------------------------------------
\* What the device does by itself.
Device ==
  \/ Elsewhere \/ StartedUp \/ (\E level \in Levels : ScheduleBootConfirmation(level))
  \/ (Restart /\ Boot)

UpdateNext == Device \/ ConfirmImage \/ Others \/ Upload \/ Boot

UpdateSpec == UpdateInit /\ [][UpdateNext]_deviceVars

\* The main task runs on; clients, users, power and flash may do anything.
FairUpdateSpec == UpdateSpec /\ WF_deviceVars(Device)
=============================================================================
