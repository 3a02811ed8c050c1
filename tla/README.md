# Garage Door ESP32 in TLA+

A verification development of the firmware in this repository: TLA+ modules of
its gate controller, its signal decoder, its backup restore and firmware update, and
its settings; TLC runs over small instances; and proofs checked by TLAPS.
Paths are relative to `components/` unless they start with `docs/`, `plans/` or
`main/`.

## The system

ESP32 firmware that turns a gate operator (one STEP contact, or an OPEN and a
CLOSE contact) into an Apple Home garage door opener with a browser interface.
All knowledge of the gate comes from endpoint inputs; all control is momentary
pulses. What makes it hard is that the gate moves whether or not the firmware
understands it, that four FreeRTOS tasks share the controller, and that several
components carry work across reboots and power loss.

| Component | State it keeps | Operations | Correct when |
|---|---|---|---|
| `gate_controller` | none (pure `reduce`), `RelayPulseGuard` | one transition per event, two strategies, feedback normalisation, pulse overlap and interval | every state, direction, deadline and fault change is one the event justifies; no pulse under an interlock |
| `gate_runtime` | committed snapshot, four deadlines, queue, maintenance flag | controller loop, requests, maintenance | one task applies events; a request gives at most one pulse and one answer; refused means unchanged; maintenance means still |
| `gate_hardware` | `current_command`, pins, debounced levels | activate, deactivate all, feedback task | at most one output active; the levels published are the levels seen |
| `signal_decoder` | edge histories, rule phases, deadline, last evaluation | compile, initialise, update, advance, result | a position or movement is claimed as long as its rule's evidence lasts, also between samples and across the wrap of the tick |
| `backup_recovery` | two manifest slots, staged image | stage, apply, retry, erase | after power loss at any point the old or the new configuration is whole |
| `ota_manager`, `ota_api` | upload phase, maintenance ownership, boot confirmation | begin, write, finish, abort, confirm | maintenance is held exactly during an upload; an unhealthy image rolls back, to one that was confirmed |
| `app_config` | stored configuration and its schema | load, migrate, save, validate | what is saved loads, and is what was saved; a failed migration loses nothing |
| `management_api`, `setup_api`, `gate_profile`, `web_auth`, `bootstrap_credentials` | settings in memory, reviewed profile, one session, Wi-Fi credentials | first-boot form, login, settings forms, preview and apply a profile | what a user was told is saved is what the device boots with; nothing saved is undone by a copy made earlier |
| `network_manager`, `provisioning`, `captive_dns` | station/AP state | connect, fall back | the device stays reachable; the fallback AP runs only without a station |
| `management_server` | what the handlers share | routes, scheduled restart | |
| `homespan_bridge` | characteristics | target write, projection by polling | Home shows the committed snapshot |
| `main/app_main.cpp` | none | boot order | restore runs before configuration, confirmation after health |

How the gate's parts interact: the *feedback task* (`gate_hardware.cpp`
`feedback_task`, priority 5) queues debounced changes with no time limit; the
*callers*, the HTTP server task (`management_api`) and the HomeSpan task
(`homespan_bridge`), queue a request (100 ms) and wait for a task notification
(500 ms); the *controller task* (priority 6) alone handles deadlines and
messages, runs the reducer, asks the pulse guard and the hardware, commits, and
notifies; and the HTTP server task also enters and leaves *maintenance* for
updates and profile changes, which touches the outputs without going through the
queue. The hazards this gives rise to are listed in `PROJECT.json`, each at its
line.

## Modules

| Module | What it is |
|---|---|
| `GateController` | `gate_controller.cpp` and `operator_domain.cpp` as operators: `Reduce(s, e)` is the proposed snapshot and effects of an event, one operator per event, one per profile strategy |
| `GateRuntime` | the four tasks as actions over the shared state, with `gate_hardware`'s outputs and feedback task; `Spec`, and `FairSpec` with fairness |
| `PulsePromise` | the abstract specification: what a user relies on, without tasks, queue or reducer; it counts the open requests of each caller, since who gives up and asks again has several |
| `GateRuntimeProperties` | every property, the refinement mapping to `PulsePromise`, and the inductive invariants |
| `RestoreStaging` | `restore_staging.cpp` in the boot order of `main/app_main.cpp`: one action per effect on flash, with power loss between any two |
| `RestorePromise` | the abstract specification: when NVS may be damaged, by how many attempts, and what must follow |
| `RestoreStagingProperties` | the properties of restoring, the refinement mapping, and the inductive invariant |
| `FirmwareUpdate` | `ota_manager.cpp`, `ota_api.cpp`, the judgement of a new image in `main/app_main.cpp` and the bootloader, over the steps of `RestoreStaging` |
| `FirmwareUpdateProperties` | its properties and inductive invariant |
| `SignalDecoder` | `signal_decoder.cpp` as operators: `Compiles`, `Initialize`, `Update`, `Advance`, over ticks that wrap |
| `DecodedFeedback` | the feedback task, the queue and the controller task as far as they feed the decoder, with a clock that does not wrap |
| `DecodedFeedbackProperties` | the meaning of rules over the samples heard, what the decoder must make of it, and its inductive invariants |
| `AppConfig` | `app_config.cpp` and `config_repository.cpp` as operators: `Valid`, `Encode`, `Decode`, `save`, `load` over a store of blobs |
| `ManagedSettings` | the handlers that change settings, with failing writes and power loss |
| `ManagedSettingsProperties` | its properties; its inductive invariant is in `ManagedSettingsProofs` |
| `MCGateRuntime`, `MCImpatience`, `MCRestoreStaging`, `MCFirmwareUpdate`, `MCDecodedFeedback`, `MCManagedSettings`, `MCCommissioned` | the root modules of the runs and the small values they use |
| `GateRuntimeProofs` | lemmas about `Reduce` (types, motion, effects, interlock); `RuntimeInv` is inductive, and the theorems it gives |
| `PulsePromiseProofs` | `PromiseInv` is inductive, and the runtime implements `PulsePromise` |
| `GateSafetyProofs` | what follows for a caller, the feedback and maintenance: interlock, refusals, claims, and the three invariants for restricted instances |
| `DecodedFeedbackProofs` | arithmetic of ticks, the passes of an evaluation, `DecoderInv` is inductive, evidence and wake-ups |
| `MovementProofs` | `HistoryInv` is inductive: the story behind each phase of a movement rule, and the phase a story obliges to; movements are earned and age limits kept |
| `RestoreStagingProofs` | `RestoreInv` is inductive, the theorems it gives, and restoring implements `RestorePromise` |
| `FirmwareUpdateProofs` | `UpdateInv` is inductive; with updates the device still implements `RestoreStaging`, hence `RestorePromise` |
| `ManagedSettingsProofs` | saved settings load; migrations settle; `SettingsInv` is inductive, and the theorems it gives |

`FirmwareUpdate` composes updating with restoring, since both share the boot, the
running firmware and the HTTP task. `ManagedSettings` is built on `AppConfig`, and
`AppConfig` on `SignalDecoder`, whose `Compiles` is part of validity. The gate's
tasks share no changing state with the others: they start with settings that stay
as they are until the next boot, and a restore runs before they start. An upload's
maintenance is a flag in `FirmwareUpdate` and a protocol in `GateRuntime`.

Definitions called *faulty variant* are used by no specification. Each is a
mapped definition with one plausible bug; replacing the definition by it must
break the property it is paired with in `PROJECT.json`.

### The gate: state and actions against the code

| Variable | Code |
|---|---|
| `snap` | `runtime.snapshot` (state, target, movement, last movement, pending and stable observation, validity, pulse flag, fault) |
| `armed` | `runtime.pulse`, `opening`, `closing`, `feedback_stability`: those that are active |
| `busy`, `spaced` | `RelayPulseGuard::active_`, and whether `minimum_interval_ms` has passed since the last start |
| `command`, `driven` | `current_command` and the pins that are at their active level |
| `pc`, `todo`, `asker` | the controller task: where it is in `controller_task`/`apply_event`, the events left in this turn, `reply_task` |
| `active`, `maintenance`, `queue` | `runtime_active`, `maintenance`, `runtime.queue` |
| `loc`, `notify` | each caller's place in `send_request` and its task notification |
| `upkeep` | the HTTP task's place in `enter_maintenance`/`leave_maintenance` |
| `asserted`, `feedback` | `opened_asserted`/`closed_asserted` and the feedback task's place |
| `awaited` | history: the caller of the request being applied has not given up |

A *turn* of the controller is what it does between two looks at the queue: boot,
one expired deadline, one decoder wake-up or one message. `TakeTurn` sets the
events to apply (a decoder result gives up to two) and each is applied by
`ApplyQuietly` (no pulse asked), `RefusePulse` (the guard says no),
`ActivationFails` (the slot is taken or a pin fails), or `ReservePulse`,
`DrivePulse` and `CommitPulse`, which are separate because `deactivate_all` in
another task may run between reserving the slot, raising the pin and committing.
`send_request` is `BeginRequest` (checks, clear notification), `SendRequest` or
`QueueStaysFull`, then `TakeAnswer` or `GiveUp`; `enter_maintenance` is
`ClaimMaintenance` (the compare-and-exchange), then `RefuseMaintenance` or
`AdmitMaintenance` (the snapshot read), `ClearCommand` and `LowerOutputs` or
`LoweringFails`; `leave_maintenance` is `LeaveMaintenance` (flag first, as in the
code), `ClearCommand`, `LowerOutputs`.

### The gate: what is abstracted

* **Time.** An armed deadline may expire at any later moment and `spaced` becomes
  true at any later moment. This covers every configured duration, short ones
  included. The 32-bit millisecond arithmetic (and its wrap after 49.7 days) is
  not in the model.
* **`process_expired`** handles all that is due in a fixed order before it looks
  at the queue; the model takes one deadline per turn, in any order, and may read
  the queue in between. That allows more behaviours than the code.
* **Debouncing and decoding.** A debounced change to any other level, or (custom
  rules) any result `apply_decoder_result` can turn into events, may occur at any
  time. Electrical polarity is folded into "asserted". The two endpoint levels
  are stored in one step.
* **Pins.** Raising an output may fail (`ActivationFails`) and so may lowering on
  entry to maintenance (`LoweringFails`). Lowering at the end of a pulse or after
  a failed activation is assumed to work: the code only logs the first, and
  ignores the second.
* `DrivePulse` takes the pin, the guard and the pulse deadline in one step. The
  guard and the deadline belong to the controller task, so no other task can see
  the order.
* **`SampledFirst`.** The feedback task and the controller task are started one
  after the other and nothing orders the first reading and the boot event. With
  `FALSE` they may come in either order; `TRUE` makes the boot event wait.
* **`Impatient`.** The callers that may stop waiting after 500 ms. Where it is empty
  every answer comes in time; the properties that need this are named below.

### Restoring: state and actions against the code

| Variable | Code |
|---|---|
| `slots`, `payload` | the two manifest sectors and the image area of the staging partition |
| `nvs` | the NVS partition: a staged image, `Own` (saved by this firmware), or `Torn` |
| `pc`, `job` | where boot, confirmation or a restore handler is; `job` is the manifest `write_manifest` is writing and what its caller does on success and failure |
| `tries`, `decayed`, `applied` | history: attempts recorded for this staging, whether its payload has changed in flash, whether its application was recorded |

Each power-up runs `apply_staged_restore_early` (`NothingToApply`,
`AttemptsExhausted`, `PayloadSpoiled`, or `BeginAttempt`, `EraseNvs`, `WriteNvs`
with `AttemptFails`), then NVS and configuration loading (`StartsUp`, or `Rearm`
and `NothingToRearm`: `retry_applied_restore`), then `confirm_staged_restore`
(`FirstCleanBoot`, `SecondCleanBoot`, or `Unconfirmed` when a service is not up).
Every `write_manifest` is `Publish`, then `EraseSlot` and `ProgramSlot` or
`PublishFails`; `ProgramSlot` may also go on as failed, when only reading back does
(`restore_staging.cpp:142-146`). `stage_restore_image` is `Stage`, `WipeSlot(0)`, `WipeSlot(1)`,
`WipePayload`, `WritePayload` and the same manifest write; `SecondCleanBoot`
erases with the same steps. `PowerLoss` may follow any step.

What is abstracted:

* A step has one effect on flash. An interrupted or failed operation leaves the
  content before it or nothing usable or, if only its verification fails, all that was
  to be written; a partial write that passes its digest is
  not considered. A `Torn` NVS may still load, load nothing, or be rejected.
* `Decay`: the payload a boot reads may differ from what was written. It may only
  be found by a boot, as no other code reads it.
* Digests, encryption, sizes and the JSON around the handlers are left out: an
  image is a model value, *sound* if the firmware can start with it.
* The HTTP server is started before the confirmation, but a staging that
  overlaps `confirm_staged_restore` is not in the model: it would need an upload that
  begins and ends within the same boot's start-up.
* `SaveSettings` stands for every save by the running firmware (set-up, HomeKit
  pairing, settings).

### Updating: state and actions against the code

| Variable | Code |
|---|---|
| `running`, `update` | the running and the other application slot with their states in otadata |
| `phase`, `locked` | `ota_manager`'s `state.phase` and `locked` |
| `maintenance` | `gate_runtime`'s flag, as far as uploads set it |
| `services`, `soaking` | what `app_main` has started, and whether `confirmation_task` waits |

`upload_handler` is `BeginUpload` (`begin`), `WriteChunk` for each chunk, `Verify`
and `SelectImage` (`finish`), or `FailUpload` for every way out of it. `app_main`
ends with `ScheduleBootConfirmation` and `StartedUp` (which may confirm a restore),
and `ConfirmImage` is the end of the soak. `Boot` follows any restart or power loss
and asks the bootloader (`Bootload`, external): a selected image is on trial for one
boot, and then rejected unless it was confirmed. What is abstracted:

* Slots are "running" and "other". Bytes, sizes, versions and progress are left out;
  an image that fails verification is a `FailUpload`.
* The services come up, or not, as one of three levels, and not again until a reboot.
* An upload needs the runtime and thus the settings, so it comes after
  `app_main` has looked at the image. One HTTP task carries out an upload or a
  staging, never both. The maintenance that a backup export takes is left out.
* A rollback may fail, and its result is not looked at, as in the code.

### Decoding: state and actions against the code

| Variable | Code |
|---|---|
| `config` | the compiled rules |
| `clock` | `esp_timer_get_time() / 1000`; the decoder sees it modulo `Ticks` |
| `latest`, `queue` | `gate_hardware`'s `latest_sample`; the samples in `runtime.queue` and the one being sent |
| `booted`, `d` | the controller task's first turn; `runtime.decoder`: inputs with their edges, rule phases, result, deadline, last time |
| `heard` | history: the samples the decoder accepted |

`Capture` is the feedback task, `Boot`, `Receive` and `ProcessExpired` are the
controller task's, each as a whole: `Consume` offers the inputs one after the other
(at most four, `kMaxInputs`, by the four applications of `offer`) at the time of the
sample, an evaluation each, and then evaluates at the present.
`Evaluate` is `evaluate`: up to four passes over the movement rules, the deadlines,
and arbitration. What is abstracted:

* Words of 8 ticks for 2^32 and rings of 3 edges for 16, so that wrap and
  overflow happen within few steps.
* `Quiet` stops the clock before it has gone 2^31 ms without an evaluation, from
  where on `accept_time` refuses everything, or 2^32 ms without a change of an
  input, from where on its age is young again. These are limits of the code.
* `Lag` bounds how late a task runs, `Backlog` the samples not yet received,
  `Horizon` the length of a behaviour. A deadline may still pass between dequeuing
  a sample and consuming it.
* `kMonitoringFailed` (nothing sets it), the generation number and diagnostics.

### Settings: state and actions against the code

| Variable | Code |
|---|---|
| `store` | the NVS namespace `gate_cfg`: the blobs of schema 4, 3, and 1 or 2 |
| `station` | the Wi-Fi network in the namespace `gate_boot` |
| `settings`, `credentials`, `provisioned` | `management_server`'s `active_config`, `credentials`, `application_provisioned` |
| `session`, `review` | `web_auth`'s session; `reviewed_gate_profile` of that session |
| `task` | the HTTP task: off, idle, or between the two writes of a network change |
| `accepted` | history: the gate settings that were last reported as saved |

The actions have the names of the handlers. `wifi_change_handler` is `BeginWifi`
and `SaveCredentials` or `FailCredentials`, since power may be lost in between;
the other handlers write one blob, or (`save_handler`) two whose order cannot be
told apart by a later boot but by their success, which is a parameter. `Start` is
loading in `app_main`, `Stop` power loss and the scheduled restart. Handlers that
refuse change nothing and are not steps. What is abstracted:

* The settings of Wi-Fi and access point, of HomeKit and of the administrator are
  one value each; labels and the bytes of strings are left out, and so are the
  ranges that forms check before `validate` does. A blob keeps the parts it has room
  for, in two output and two input slots.
* A canonical form without a feedback mode keeps the present one; it is a form that
  repeats it. Forms and profiles also contain settings that `validate` refuses.
* A review belongs to a session. Every end of a session drops it (`Disowned`): the
  code keeps it and refuses it, because its token is never current again.
* `ConfigRepository::erase` has no caller.

## Runs

### The gate

One queue slot stands for sixteen: with one slot the queue is full whenever
anything is in it, so blocking and refusal happen at once, while callers and the
feedback task still compete for the slot. Requests are both targets, and the bench
pulse for the HTTP task. No counter needs a bound; every run explores its whole
state space.

| Run | Instance | Shows |
|---|---|---|
| `callers` | sequential, one input, two callers, maintenance | `TypeOK`, `PulseSupervised`; the runtime implements `PulsePromise` (`PulsePromised`): at most one pulse per request, never two outputs, never two starts within the interval; `RefusalsChangeNothing` |
| `dual` | directional, two inputs, `SampledFirst`, and a caller that may give up | `PulseSupervised` and `TravelSupervised` across reversals, also when requests outlive their callers and maintenance comes in between; `PulsePromised`, where who gave up asks again while the first request is still queued; `ContradictionBlocksPulses`; `FeedbackFollowed`: when the last published change has been applied, the reducer works with it |
| `custom` | sequential, custom rules | `MotionCoherent`, `ClaimsAreEarned` and `TravelSupervised` under any order of decoded positions, movements, stops, faults and obstructions |
| `live` | directional, one input, `FairSpec` | `PulseEnds`, `TravelEnds`, `RequestsAnswered`, `ChangesPublished`; and `MaintenanceQuiet`, which holds as long as the HTTP task is the only caller and no reply is late |

`MCImpatience` explores in `dual` callers that give up and contradictory feedback side
by side: where a caller may stop waiting, only one of the two inputs changes. All
the steps of `GateRuntime` are in it. A single caller in `dual`, `custom` and `live` still interleaves with the
controller, the feedback task and the deadlines. A second one adds contention for
the queue and for maintenance, which `callers` (safety) and `maintenance` cover.
Sequential and directional profiles, single and dual feedback and custom rules
are each covered by at least one passing run; a single input that asserts OPENED
instead of CLOSED is the mirror image. Deadlock is checked in all runs and there
is none.

### Restoring and updating

Two images (`backup`, sound, and `foreign`, which the firmware rejects) and three
attempts as in the code. Sequence numbers restart with each staging, and the
attempts bound the boots that write, so the state space is finite without a bound
of its own. Deadlock is checked.

| Run | Shows |
|---|---|
| `update` | restoring, with firmware uploaded, tried, confirmed and rolled back at any time in between: `TypeOK`; `DamageIsRecoverable`: while NVS is damaged the newest manifest leads to a whole image, or the attempts are used up, or the image has decayed; `RestorePromised`: the protocol implements `RestorePromise`; `FallbackKept`: the bootloader always finds a whole image that was confirmed; `UploadInterlocked`: the gate is out of service exactly during an upload and until the reboot it is followed by; `BootLoopEnds`: once power stays on, the device cannot reboot for ever |

### Decoding and settings

| Run | Shows |
|---|---|
| `commissioned`, decoding | three rule sets (a lamp that flashes while opening, with an age limit; a motor relay without position; two end switches with a fault), any samples within the horizon. `EvidenceTrue`: every predicate is worth what the samples mean on a clock that does not wrap; `WakeUpsSuffice`: evaluating earlier than the deadline asked for would change nothing; `MovementEarned`: a movement (of a rule that reads one input, see below) is claimed only after its entry was confirmed and while no loss was; `AgeLimitsClaims`: a movement that lasts beyond its age limit is withdrawn (the instant at which its age equals the limit is left open, see the observations below) |
| `commissioned`, settings | four first flashes (schema 1, 2, 3, damaged), four gate settings of which one is refused, two networks, passwords, any order of requests, failing writes and power loss. `MemoryFollowsFlash`: settings in memory are those the next boot loads, but for the network; `PromisedSettingsBoot`: gate settings reported as saved are those the device boots with; `StaysCommissioned`: settings that load are never replaced by some that do not; `PasswordsEndSessions`: no old copy of the settings brings an old password back |

One run holds both: a device restarts to use changed rules, so that no behaviour
mixes the two, and `MCCommissioned` lets each behaviour be of one or the other, with
the other as it starts. The horizons are 8 or 9 ms, the length of a word of 8 ticks or more, and longer than any entry
confirmation and age limit together, so that wraps, full rings and expiries of a
movement occur; 5 ms for the rules with two inputs, whose predicates take 2. HomeKit has one value in this run
(renaming has no property of its own here) and two in `profile`.

### Runs that must find a violation

Each of these states something the documents say and the code does not do.

* `contradiction`: after contradictory feedback, a stable endpoint establishes
  the endpoint but leaves the contradiction fault and the interlock
  (`ContradictionInterlockEnds`), until a stable BETWEEN comes.
  `plans/operator-profile-architecture.md:292` ends the interlock with any other
  stable observation.
* `stability`: `cancel_travel_timers` also cancels the stability deadline, so a
  pausing STEP or a reversal within the stability time of a change leaves the
  observation pending (`PendingFeedbackAccepted`) until the input changes again.
* `maintenance`: a request that passed the flag's check (or was queued) before the
  flag was set is carried out during maintenance (`MaintenanceQuiet`, with two
  callers).
* `late_reply`: a request reported as unavailable after 500 ms is carried out
  when its turn comes (`OnlyAwaitedRequestsActuate`).
* `overwrite`: after a restore was applied, slot 0 says *applied* and slot 1 still
  says *applying*. If the boot was not confirmed, settings are saved, and a new
  staging loses power after erasing slot 0, the next boot finds *applying* and
  writes the old image over the newer settings (`SavedSettingsSurvive`).
  `docs/backup-and-recovery.md:77` says that a successful application erases
  staging; the code erases after the second clean boot.
* `profile`: a gate is renamed between the review of a gate profile and its
  application, which saves the whole configuration captured at the review and so
  brings the old name back (`OtherSettingsKept`). `docs/gate-profile.md:75-76` says
  that an intervening settings change requires a new review and that applying
  preserves other settings; the digest that is compared covers the gate settings only.

### Other observations

Met while modelling; the models have these behaviours and no run singles them out.

* A sample that waited in the queue while the controller evaluated at a later time
  is refused by `accept_time` (`signal_decoder.cpp:685`), its edges with it.
  `gate_runtime.cpp:155-160` queues every sample so that no edge is lost.
* After 24.8 days without an evaluation `accept_time` refuses everything for as long
  again; `plans/configurable-signal-decoder.md:441` says that all comparisons are
  wrap-safe unsigned ones.
* At the very instant at which a movement's age equals its limit the code withdraws it
  already (`elapsed_at_least`, `signal_decoder.cpp:523`, and it asks to be woken then,
  577-579), and `test/host/signal_decoder_test.cpp:138-140` expects it "exactly at limit".
  `plans/configurable-signal-decoder.md:236-237` keeps the movement "before or at
  threshold" and line 1077 lets it change "after continuous match age exceeds its
  threshold". `AgeLimitsClaims` holds the code to what both agree on: beyond the limit.
* A contradiction overwrites the fault of a travel time-out, and the `BETWEEN` that ends
  the contradiction then clears the one fault field (`gate_controller.cpp:212`), so the
  time-out goes without endpoint proof. `plans/operator-profile-architecture.md:220`
  says that clearing a contradiction must not clear an unrelated time-out.
* A movement withdrawn by its age limit is claimed again while its loss is being
  confirmed (`signal_decoder.cpp:549-557`, `628`). When it is regained, its age is the
  unsigned difference to the tick of the match: more than a word (49.7 days) after the
  match that difference is small again, and the movement is claimed for a whole
  further age limit. In the run the horizon ends before that.
* A sample of two inputs is applied one input at a time, with an evaluation after
  each (`gate_runtime.cpp:239-245`). A rule that asks for a flashing lamp and a
  running motor is entered when the lamp's last edge and the motor's stop are one
  sample: the lamp comes first, and for a moment both are true. The movement is then
  claimed until its loss is confirmed, although no sample ever showed it.
  `plans/configurable-signal-decoder.md:915` asks for one coherent evaluation.
* A restart during the soak of a new image, for instance the one that confirms a
  restore, rolls back an image that was healthy.
* If the answer to an accepted upload cannot be sent, or the answer to an applied
  profile, no restart is scheduled (`ota_api.cpp:128`, `management_api.cpp:211`); after
  the upload the gate also stays in maintenance.
* First set-up and the older settings form fill in a single feedback input while
  the decoder stays with custom rules without inputs: that input is neither
  validated nor used (`setup_api.cpp:178-201`, `app_config.hpp:61`).
* A network change restarts the device 1.2 s later; a profile applied until then
  saves the earlier network again. Power lost between its two writes leaves the
  configuration with the new network and the bootstrap credentials with the old one.
* A damaged blob of schema 4 is not replaced by an older one that is whole; and after
  a rollback to older firmware the blob of schema 4 wins over what that firmware saved
  since, once the newer firmware is back.

## Fairness

`Fairness` is stated with the liveness properties only, and action by action:

* the controller task finishes a turn it has begun (`Continue`) and boots: it is
  the task of highest priority that waits for nobody inside a turn;
* `ExpirePulse` and `Receive`, strongly: every pass of the loop handles what is
  due and then reads the queue, so an expiry is not starved by messages, and a
  pulse deadline is never cancelled;
* a travel deadline, only if it stays armed from some point on: commands may
  replace it again and again, and then it need not expire. `TravelEnds` holds
  because a replacement changes the shown state, and an unreplaced deadline
  expires;
* the feedback task gets a free slot, strongly: FreeRTOS wakes the waiting task of
  highest priority, and it waits without a time limit;
* callers: weakly, their waits are bounded by 100 ms and 500 ms;
* maintenance: entering and leaving run on once begun.

Nothing is assumed of feedback changes, new requests, maintenance being wanted or
left, the interval, or the stability deadline.

`FairUpdateSpec` asks weak fairness of `Device`: what the device does by itself, from
boot to the end of start-up, and the erasing and writing of a staging. Uploads, users,
the soak's end, power and flash may do anything or nothing.

`FairSpec` of `RestoreStaging` asks weak fairness of `Firmware` as a whole: the
main task, or the handler that stages, runs on. Saving, staging, power loss and
decay are never forced, and `BootLoopEnds` is asked only of behaviours in which
power is lost finitely often.

## Proofs

The theorems about the gate hold for every value of the constants that satisfies
`ProfileAssumption` and `RuntimeAssumption`: either profile, either topology,
with or without decoder, any set of callers, any of them impatient, any queue length.
Where a theorem asks for more, its statement says so.

**`RuntimeInv`** (`RuntimeInvariant`). None of the properties is inductive: inside
a turn an expired deadline is no longer armed while its event is not applied yet,
and a pulse is on a pin before the snapshot knows. `RuntimeInv` says how far each
part lags:

* `TurnOK`: the queue carries only requests and feedback, so a `PulseCompleted` or
  `Boot` event can only head a turn the controller began itself, and what
  follows the head comes from the decoder;
* `PulseOK`: the pulse deadline is armed exactly while the guard is active; the
  snapshot's flag equals the guard except while `PulseCompleted` or a started
  pulse is pending;
* `Supervised(snap, armed \cup Due)`, where `Due` is the travel deadline whose
  event heads the turn;
* `MotionCoherent`, needed because the reducer's stop and pause events derive the
  paused state from the direction history.

Its step lemmas rest on lemmas about `Reduce` in `GateRuntimeProofs` (what each
event does to types, pulse flag, direction and deadlines), proved per event.
`TypeCorrect`, `PulseSupervision`, `TravelSupervision` and `MotionCoherence`
follow from it.

**`PromiseInv`** (`PromiseInvariant`). That the runtime implements `PulsePromise`
(`PulsePromiseKept`) turns on counting: a caller's open requests are those in the
queue and the one in the turn that has not started its pulse. `RequestsAsked` says
that only a caller's request can ask for a pulse, and that it is alone in its turn, so
that no pulse is started on nobody's account; one output at most is on; and the
interval still holds between reserving and driving, so that `Fire` finds `rested`.
Each action maps to the step its name suggests: `SendRequest` to `Ask`, `DrivePulse` to
`Fire`, a finished turn without pulse to `Drop`, lowering to `Release`,
`IntervalPasses` to `Rest`, and the others to stuttering.

**Refusals and claims.** `RefusalsHarmless` and `ClaimsEarned` follow from `RuntimeInv`
and what `Reduce` does: a request is alone in its turn, so that a refused one has
committed nothing, and an event that claims travel or an endpoint is one of the few that
may.

**`InterlockInv`** (`InterlockInvariant`). A contradiction blocks pulses because the
fault is there whenever the stable observation is contradictory, which needs more:
with custom rules no observation can be contradictory, and without them no decoder
event (which could overwrite the fault) exists (`SourcesOK`); and the gate is shown
as stopped, so no travel timeout can replace the fault (`ContradictionHolds`).
`ContradictionBlocks` states the action property.

**Restricted instances.** Three theorems ask more of the constants, each exactly what a
violation run lacks, and so isolate the cause of what that run shows:

* `FeedbackFollowing` (`FollowInv`: the last observation published is the last one in
  the queue, or is being applied, or is what the reducer works with) asks for
  `~CustomRules` and `SampledFirst`: the order of the first reading and the boot event
  is the only gap (see the hazards);
* `AwaitedActuation` (`PatientInv`: a request is queued or applied once, and its caller
  waits for it) asks for `Impatient = {}`: without late replies the property of
  `late_reply` holds;
* `QuietMaintenance` (`QuietInv`: while the HTTP task enters and holds maintenance it
  has no request, and what it found quiet stays so) asks for `Callers = {Http}`,
  `Impatient = {}` and `~CustomRules`: the property of `maintenance` needs a second
  caller, a late reply, or a decoded movement to fail.

**`DecoderInv`** (`DecoderInvariant`), for any configurations that `Compiles` accepts,
any even word of at least 4 ticks, any ring, backlog and horizon, and any lag below half
a word (`DecoderAssumption`, `FeedbackAssumption`). The clock obeys `Quiet`, the two limits
of the code. The invariant relates the decoder to the story, that is, to all samples it
accepted:

* `SamplesOK`: samples are queued and heard in the order of their times, each time once
  (a sample that `Boot` read from `latest` is met again in the queue, and changes nothing
  the second time);
* `TimesOK`: nobody is so late that a signed difference of ticks misleads, so that
  `accept_time` refuses exactly what is older than the last evaluation;
* `InputOK`: the ring of an input holds the ticks of the last edges of the story, no two
  neighbours a whole word apart; its level and its age are those of the last change;
* `Rested`: after an evaluation another pass changes nothing, the result is what the
  rules say, and the deadline is not later than anything that is waited for.

It rests on lemmas about ticks (`ElapsedTime`, `DueWhenOfAge`), on how a story grows
(`EdgesGrow`, `LastChangeGrows`) and on `PassesSuffice`: from any phase, whatever the
confirmations and the age limit, four passes reach a phase that a fifth would keep. Then:

* `EvidenceIsTrue`: ages are taken modulo the word, but an edge whose age has wrapped
  lies behind one that is too old for the window (`RunAges`), and a predicate needs no
  more edges than the ring holds;
* `WakeUpsAreEnough`: a predicate that holds stops holding when its gap or its window is
  over, one that does not hold starts holding only at the end of its hold time, and both
  are waited for (`RingWaits`, `NotYet`). The wait for the window may be as long as half a
  word, from where on it would count as past; it does not, because the oldest edge of a
  run is at least one millisecond old.

**`HistoryInv`** (`HistoryInvariant`) relates each phase of a movement rule to the story,
in both directions. `HistoryOK` says what the story was, if the phase is what it is: an
entry that is pending has been true since the instant its tick stands for, at every instant and
not only at those of an evaluation; a movement that is claimed or expired had its entry
confirmed once, and no loss since; a loss that is pending began at the instant of its
tick. Between two evaluations the truth of a rule is known from `DecoderInv`: a predicate
does not change before the deadline (`WaitTruth`), and a phase does not come of age before
it either (`NotYetOfAge`). At a sample the rule is evaluated once per input, on inputs of
which some are old and some new; the invariant speaks of rules of one input, which then are
evaluated either on all of the old story or on all of the new one (`OneInputTruth`).
With several inputs it fails as the observation above says. `MovementIsEarned` follows
(`HistoryEarns`): a pending loss that were older than its confirmation would have left its
phase in the last evaluation.

`DutyOK` says what the phase is, if the story is what it is: an unmatched rule is not true,
or only since now; an entry is pending since the instant its evidence began; while a loss
is pending the evidence was gone; and a movement that was entered at some instant and
lasted since is matched or expired (or its loss is pending), its match no later than that instant.
This half compares ticks as times and is stated until the first wrap only. With it
`AgeLimitIsKept` follows (`DutyWithdraws`): the match is at least as old as the limit
allows, and a phase that were not expired would have left in the last evaluation. The
condition `Now < Ticks` is needed: later the age of a movement that is regained may have
wrapped (see the observations), and the claim is then made anew.

**`RestoreInv`** (`RestoreInvariant`), for any images and any number of attempts
(`RestoreAssumption`). That a damaged NVS can be repaired is not inductive, since
it depends on what the *next* manifest will say and on what is left when a
sector is erased. The invariant adds: the two manifests tell one story
(`SlotsOK`: same image, increasing numbers, equal attempts except right after an
attempt was recorded); past the application no damage is left to repair and no
older *applying* manifest can come back with fewer attempts (`LateOK`); the
manifest being written follows from the newest one and the reason for writing it
(`JobOK`); and an intact manifest names an intact payload (`PayloadOK`).
`RestoreTypeCorrect` and `DamageRecovery` follow. `RestoreRefinement` proves
`RestorePromised`: each step maps to one of the promise under
`conf <- nvs`, `image <- Current.image`, `trying <- pc = "erase_nvs"`,
`intact <- ~decayed`; wiping needs `LateOK` to be a `Discard`.

**`UpdateInv`** (`UpdateInvariant`) adds to `FallbackKept` and `UploadInterlocked` that a
slot is written only while the running image is confirmed (`esp_ota_begin` refuses
otherwise), and that a selected image is one an upload has accepted.
`UpdateImplementsRestoreStaging` shows that each step with updates is a step of
`RestoreStaging` or leaves it alone, so that everything proved of restoring holds
across uploads, trials and rollbacks (`RestorePromisedAcrossUpdates`).

**Settings.** `SavedSettingsLoad`: over any flash, valid settings are saved such that
they load, and what is in use is what was saved, although slots are shared, pins are
bytes and what a profile does not use is lost. The proof goes by profile, topology and
decoder: `Decode(Encode(c))` differs from `c` only in what is not in use
(`RoundTrip`), and validity depends on what is in use (`ValidByUse`). `MigrationSettles`
says the same of migrated settings. On these rests **`SettingsInv`**
(`SettingsInvariant`): the properties, and that a session exists only with loaded
settings (`SessionsAreLoaded`), that a review has the present administrator (`ReviewsAreCurrent`), and that the configuration a
network change is writing is already in flash (`NetworkChangeIsInFlash`), which is why
neither applying a review nor completing or undoing the change brings anything old back.
One lemma per action. The theorems hold for any forms, profiles, first flashes and
rules, under `ConfigAssumption`, `SettingsAssumption` and `DecoderAssumption`.

**Only model-checked:** the liveness properties (four of the gate, `BootLoopEnds`), which
are beyond the prover. `AgeLimitsClaims` is proved until the first wrap of the tick and is
not true of every horizon.

## Not modelled

* **`sensor_debouncer`** and the durations of the gate's own deadlines: a debounced
  change is any change, an armed deadline may expire at any time. A clock in
  `GateRuntime` would multiply its states; the decoder, where durations decide, has
  one. The wrap of the pulse guard's interval is listed as a hazard.
* **`homespan_bridge`**'s projection: a table from snapshot to characteristics,
  evaluated by polling, without state that another component reads. Its target
  write is the second caller of `GateRuntime`.
* **`network_manager`**, `provisioning`, `captive_dns`: Wi-Fi driver, timers and
  sockets. What goes wrong there depends on the order of driver events inside one
  call, which the repository does not specify.
* **`backup_service`, `backup_envelope`**, password hashing, JSON, form decoding and
  digests: encoding and encryption.
* Start-up failures that end in `return` from `app_main` or `start`: the device then
  does nothing further.
* GPIO set-up, HTTP routes, static assets, the browser application, build scripts
  and HomeSpan itself: I/O, tooling or external code.

What would come next: the decoder's results as the only source of `GateRuntime`'s decoder
events, in one composed module, so that what is proved of evidence and movements carries
over to the state the gate reports; and rules of several inputs, of which the coherent part
of a sample could be claimed.
