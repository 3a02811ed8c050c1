---------------------- MODULE FirmwareUpdateProperties ----------------------
(***************************************************************************)
(* What updating the firmware promises.                                    *)
(***************************************************************************)
EXTENDS FirmwareUpdate

\* Wherever an upload, a boot or a rollback is interrupted, the bootloader finds a
\* whole image that was confirmed: the running one, or the other slot while the
\* running or the selected one is on trial (ota_manager's begin, finish and
\* schedule_boot_confirmation).
FallbackKept ==
  /\ running \in {"Valid", "Pending", "Rejected"}
  /\ running \in {"Pending", "Rejected"} => update = "Valid"
  /\ update = "New" => running = "Valid"
  /\ running = "Rejected" => pc = "restart"

\* The gate is out of service exactly while an upload is carried out or an accepted
\* image waits for its boot, and every way to fail gives it back (release_maintenance).
UploadInterlocked ==
  /\ locked = (Uploading \/ phase = "ready_to_reboot") /\ maintenance = locked
  /\ (update = "Written" => Uploading) /\ (phase = "ready_to_reboot" => update = "New")

-----------------------------------------------------------------------------
\* Inductive: a slot is written only from a confirmed image, and only an accepted
\* image is selected.
UpdateInv ==
  /\ UpdateTypeOK /\ FallbackKept /\ UploadInterlocked
  /\ Uploading => running = "Valid"
  /\ update = "New" => phase = "ready_to_reboot"
=============================================================================
