----------------------------- MODULE GateRuntime -----------------------------
(***************************************************************************)
(* The serialized gate runtime (components/gate_runtime) over the semantic *)
(* outputs and the feedback task of components/gate_hardware.              *)
(*                                                                         *)
(* Four kinds of task share it: the controller task, which alone runs the  *)
(* reducer; the feedback task, which queues debounced changes; the callers *)
(* (the HTTP server task and the HomeSpan task), which queue a request and *)
(* wait for a task notification; and the HTTP task again, which enters and *)
(* leaves maintenance.  A step is what one of them does between two points *)
(* where another can see or change shared state.                           *)
(*                                                                         *)
(* Time is abstract: an armed deadline may expire at any later moment, and *)
(* a moment comes when the minimum pulse interval has passed.              *)
(***************************************************************************)
EXTENDS GateController, Sequences

CONSTANTS
  Topology,       \* feedback topology, "single" or "dual"
  AssertedEnd,    \* endpoint a single input asserts
  CustomRules,    \* TRUE: a signal decoder interprets the inputs
  Callers,        \* tasks that send requests
  Http,           \* the one of them that also runs maintenance
  NoCaller,       \* the null reply handle
  QueueLength,    \* capacity of the event queue (16 in the code)
  Impatient,      \* the callers that may stop waiting before their answer
  SampledFirst    \* TRUE: the first levels are stored before the controller boots

ASSUME RuntimeAssumption ==
  /\ Topology \in {"single", "dual"} /\ AssertedEnd \in Endpoints
  /\ {CustomRules, SampledFirst} \subseteq BOOLEAN
  /\ Http \in Callers /\ NoCaller \notin Callers /\ Impatient \subseteq Callers
  /\ QueueLength \in Nat \ {0}

VARIABLES
  snap,        \* runtime.snapshot, the committed snapshot
  armed,       \* the active deadlines
  busy,        \* RelayPulseGuard.active_
  spaced,      \* the minimum interval since the last pulse start has passed
  command,     \* gate_hardware's current_command
  driven,      \* outputs at their active level
  pc,          \* where the controller task is
  todo,        \* events it still has to apply in this turn
  asker,       \* whom it will notify
  awaited,     \* that caller still waits for this very request (history)
  active,      \* runtime_active
  queue,       \* runtime.queue
  loc,         \* where each caller is in send_request
  notify,      \* each caller's pending task notification
  maintenance, \* the maintenance flag
  upkeep,      \* where the HTTP task is in entering or leaving maintenance
  asserted,    \* opened_asserted and closed_asserted
  feedback     \* where the feedback task is

controllerVars == <<snap, armed, busy, spaced, pc, todo, asker>>
outputVars     == <<command, driven>>
callerVars     == <<loc, notify>>
upkeepVars     == <<maintenance, upkeep>>
feedbackVars   == <<asserted, feedback>>
vars == <<controllerVars, outputVars, callerVars, upkeepVars, feedbackVars,
          awaited, active, queue>>

Deadlines == Timers \cup {"Pulse"}
Results   == {"Accepted", "Busy", "HardwareError"}
Messages  == [event : Events, asker : Callers \cup {NoCaller},
              awaited : BOOLEAN, sample : BOOLEAN]

TypeOK ==
  /\ snap \in Snapshots /\ armed \subseteq Deadlines
  /\ busy \in BOOLEAN /\ spaced \in BOOLEAN
  /\ command \in Commands \cup {"None"} /\ driven \subseteq Commands
  /\ pc \in {"boot", "ready", "applying", "reserved", "driven"}
  /\ todo \in Seq(Events) /\ (pc \in {"applying", "reserved", "driven"} => todo # <<>>)
  /\ asker \in Callers \cup {NoCaller} /\ awaited \in BOOLEAN /\ active \in BOOLEAN
  /\ queue \in Seq(Messages) /\ Len(queue) <= QueueLength
  /\ loc \in [Callers -> {"idle", "sending", "waiting"}]
  /\ notify \in [Callers -> Results \cup {"none"}]
  /\ maintenance \in BOOLEAN
  /\ upkeep \in {"none", "claimed", "clearing", "lowering", "held",
                 "leaving", "releasing"}
  /\ asserted \subseteq Endpoints /\ feedback \in {"start", "sampling", "sending"}

Init ==
  /\ snap = InitialSnapshot /\ armed = {}
  /\ busy = FALSE /\ spaced = TRUE
  /\ command = "None" /\ driven = {}
  /\ pc = "boot" /\ todo = <<>> /\ asker = NoCaller /\ awaited = FALSE
  /\ active = FALSE /\ queue = <<>>
  /\ loc = [c \in Callers |-> "idle"] /\ notify = [c \in Callers |-> "none"]
  /\ maintenance = FALSE /\ upkeep = "none"
  /\ asserted = {} /\ feedback = "start"

-----------------------------------------------------------------------------
(* The controller task: it takes a turn (boot, an expired deadline, a      *)
(* decoder wake-up or a message) and applies the turn's events in order.   *)

\* What apply_decoder_result makes of a result that changed: a fault, or one
\* event for a position or else a movement, then one for the obstruction.
ChannelEvents ==
  {<<>>} \cup {<<ObservationEvent("ObservationStable", o)>> : o \in Endpoints}
         \cup {<<Event(type)>> : type \in ExternalTypes}
HealthEvents  == {<<Event("DecoderObstructed")>>, <<Event("DecoderHealthy")>>}

\* The events of any result; <<>> when the result did not change.
DecoderEvents ==
  {<<>>, <<Event("DecoderFault")>>} \cup {c \o h : c \in ChannelEvents, h \in HealthEvents}

\* With nothing to apply the turn is over at once.
TakeTurn(events, caller, wanted) ==
  /\ todo' = events /\ asker' = caller /\ awaited' = wanted
  /\ pc' = IF events = <<>> THEN "ready" ELSE "applying"
  /\ active' = (active \/ events = <<>>)

\* Nothing orders this after the feedback task's first sample.
ControllerBoot ==
  /\ pc = "boot" /\ (SampledFirst => feedback # "start")
  /\ IF CustomRules
     THEN \E result \in DecoderEvents :
            TakeTurn(<<Event("Boot")>> \o result, NoCaller, FALSE)
     ELSE TakeTurn(<<ObservationEvent("Boot",
                       NormalizeFeedback(Topology, AssertedEnd, asserted))>>,
                   NoCaller, FALSE)
  /\ UNCHANGED <<snap, armed, busy, spaced, outputVars, callerVars, upkeepVars,
                 feedbackVars, queue>>

\* Faulty variant: the pulse guard is not told that the pulse ended.
ExpirePulseUnmarked ==
  /\ pc = "ready" /\ "Pulse" \in armed
  /\ armed' = armed \ {"Pulse"}
  /\ command' = "None" /\ driven' = {}
  /\ TakeTurn(<<Event("PulseCompleted")>>, NoCaller, FALSE)
  /\ UNCHANGED <<snap, busy, spaced, callerVars, upkeepVars, feedbackVars, queue>>

\* The output is released before the reducer hears of it.
ExpirePulse ==
  /\ pc = "ready" /\ "Pulse" \in armed
  /\ armed' = armed \ {"Pulse"} /\ busy' = FALSE
  /\ command' = "None" /\ driven' = {}
  /\ TakeTurn(<<Event("PulseCompleted")>>, NoCaller, FALSE)
  /\ UNCHANGED <<snap, spaced, callerVars, upkeepVars, feedbackVars, queue>>

\* Faulty variant: the deadline confirms the previous stable observation.
ExpiryEventStale(timer) ==
  CASE timer = "Opening" -> Event("OpeningTimerExpired")
    [] timer = "Closing" -> Event("ClosingTimerExpired")
    [] OTHER -> ObservationEvent("ObservationStable", snap.stable)

ExpiryEvent(timer) ==
  CASE timer = "Opening" -> Event("OpeningTimerExpired")
    [] timer = "Closing" -> Event("ClosingTimerExpired")
    [] OTHER -> ObservationEvent("ObservationStable", snap.pending)

Expire(timer) ==
  /\ pc = "ready" /\ timer \in armed
  /\ armed' = armed \ {timer}
  /\ TakeTurn(<<ExpiryEvent(timer)>>, NoCaller, FALSE)
  /\ UNCHANGED <<snap, busy, spaced, outputVars, callerVars, upkeepVars,
                 feedbackVars, queue>>

\* A decoder deadline passed: its result may change without a new sample.
DecoderWake ==
  /\ pc = "ready" /\ CustomRules
  /\ \E result \in DecoderEvents \ {<<>>} : TakeTurn(result, NoCaller, FALSE)
  /\ UNCHANGED <<snap, armed, busy, spaced, outputVars, callerVars, upkeepVars,
                 feedbackVars, queue>>

\* Faulty variant: the controller pauses while maintenance is held.
ReceiveOutsideMaintenance ==
  /\ pc = "ready" /\ queue # <<>> /\ ~maintenance
  /\ queue' = Tail(queue)
  /\ TakeTurn(<<Head(queue).event>>, Head(queue).asker, Head(queue).awaited)
  /\ UNCHANGED <<snap, armed, busy, spaced, outputVars, callerVars, upkeepVars,
                 feedbackVars>>

Receive ==
  /\ pc = "ready" /\ queue # <<>>
  /\ queue' = Tail(queue)
  /\ LET m == Head(queue) IN
     IF m.sample
     THEN \E result \in DecoderEvents : TakeTurn(result, m.asker, m.awaited)
     ELSE TakeTurn(<<m.event>>, m.asker, m.awaited)
  /\ UNCHANGED <<snap, armed, busy, spaced, outputVars, callerVars, upkeepVars,
                 feedbackVars>>

\* Faulty variants: cancelling after starting, and cancelling everything.
RearmedThenCancelled(deadlines, tr) ==
  IF tr.cancel THEN deadlines \ Timers ELSE deadlines \cup tr.start
RearmedWithoutPulse(deadlines, tr) ==
  (IF tr.cancel THEN {} ELSE deadlines) \cup tr.start

\* Deadline bookkeeping of a committed transition.  Cancelling also drops the
\* stability deadline, and a travel deadline replaces the opposite one.
Rearmed(deadlines, tr) ==
  LET kept == IF tr.cancel THEN deadlines \ Timers ELSE deadlines
  IN IF tr.start \cap Directions = {} THEN kept \cup tr.start
                                      ELSE (kept \ Directions) \cup tr.start

Commit(tr) == snap' = tr.next /\ armed' = Rearmed(armed, tr)

\* The event at the head of todo is done; the last one answers the caller.
Done(result) ==
  LET rest == Tail(todo) IN
  /\ todo' = rest
  /\ pc' = IF rest = <<>> THEN "ready" ELSE "applying"
  /\ active' = (active \/ rest = <<>>)
  /\ notify' = IF asker = NoCaller \/ rest # <<>> THEN notify
               ELSE [notify EXCEPT ![asker] = result]
  /\ asker' = IF rest = <<>> THEN NoCaller ELSE asker
  /\ awaited' = (awaited /\ rest # <<>>)

Reduction == Reduce(snap, Head(todo))
\* Faulty variant: only the overlap is guarded, not the interval.
CanStartAnyTime == ~busy

CanStart  == ~busy /\ spaced

ApplyQuietly ==
  /\ pc = "applying" /\ Reduction.command = "None"
  /\ Commit(Reduction)
  /\ Done(IF Reduction.result = "RejectedBusy" THEN "Busy" ELSE "Accepted")
  /\ UNCHANGED <<busy, spaced, outputVars, loc, upkeepVars, feedbackVars, queue>>

\* Faulty variants: the refused pulse is committed before the guard is asked; its
\* caller is not told.
RefusePulseCommitted ==
  /\ pc = "applying" /\ Reduction.command # "None" /\ ~CanStart
  /\ Commit(Reduction) /\ Done("Busy")
  /\ UNCHANGED <<busy, spaced, outputVars, loc, upkeepVars, feedbackVars, queue>>
RefusePulseSilently ==
  /\ pc = "applying" /\ Reduction.command # "None" /\ ~CanStart
  /\ todo' = Tail(todo) /\ pc' = "ready" /\ asker' = NoCaller /\ awaited' = FALSE
  /\ UNCHANGED <<snap, armed, busy, spaced, outputVars, callerVars, upkeepVars,
                 feedbackVars, active, queue>>

\* Pulse admission precedes the commit: a refused pulse changes nothing.
RefusePulse ==
  /\ pc = "applying" /\ Reduction.command # "None" /\ ~CanStart
  /\ Done("Busy")
  /\ UNCHANGED <<snap, armed, busy, spaced, outputVars, loc, upkeepVars,
                 feedbackVars, queue>>

\* activate_command up to the point where the pin goes active.
ReservePulse ==
  /\ pc = "applying" /\ Reduction.command # "None" /\ CanStart
  /\ command = "None"
  /\ command' = Reduction.command /\ driven' = {}
  /\ pc' = "reserved"
  /\ UNCHANGED <<snap, armed, busy, spaced, todo, asker, callerVars, upkeepVars,
                 feedbackVars, awaited, active, queue>>

\* Faulty variant: no deadline will end the pulse.
DrivePulseUnsupervised ==
  /\ pc = "reserved"
  /\ driven' = driven \cup {Reduction.command}
  /\ busy' = TRUE /\ spaced' = FALSE
  /\ pc' = "driven"
  /\ UNCHANGED <<snap, armed, command, todo, asker, callerVars, upkeepVars,
                 feedbackVars, awaited, active, queue>>

DrivePulse ==
  /\ pc = "reserved"
  /\ driven' = driven \cup {Reduction.command}
  /\ busy' = TRUE /\ spaced' = FALSE /\ armed' = armed \cup {"Pulse"}
  /\ pc' = "driven"
  /\ UNCHANGED <<snap, command, todo, asker, callerVars, upkeepVars,
                 feedbackVars, awaited, active, queue>>

\* activate_command reports an error (the slot is taken, or a GPIO call fails):
\* all outputs are forced inactive and nothing is committed.
ActivationFails ==
  /\ pc = "applying" /\ Reduction.command # "None" /\ CanStart
  /\ command' = "None" /\ driven' = {}
  /\ Done("HardwareError")
  /\ UNCHANGED <<snap, armed, busy, spaced, loc, upkeepVars, feedbackVars, queue>>

CommitPulse ==
  /\ pc = "driven"
  /\ Commit(Reduction)
  /\ Done("Accepted")
  /\ UNCHANGED <<busy, spaced, outputVars, loc, upkeepVars, feedbackVars, queue>>

IntervalPasses ==
  /\ ~spaced /\ spaced' = TRUE
  /\ UNCHANGED <<snap, armed, busy, pc, todo, asker, outputVars, callerVars,
                 upkeepVars, feedbackVars, awaited, active, queue>>

-----------------------------------------------------------------------------
(* The callers: send_request.                                              *)

RequestsOf(c) ==
  {TargetEvent(target) : target \in Targets}
    \cup IF c = Http THEN {Event("MaintenancePulseRequested")} ELSE {}

\* Admission checks, then the stale notification is cleared.  A call that
\* fails a check returns at once and changes nothing.
BeginRequest(c) ==
  /\ loc[c] = "idle" /\ (c = Http => upkeep = "none")
  /\ active /\ ~maintenance
  /\ loc' = [loc EXCEPT ![c] = "sending"]
  /\ notify' = [notify EXCEPT ![c] = "none"]
  /\ UNCHANGED <<controllerVars, outputVars, upkeepVars, feedbackVars, awaited,
                 active, queue>>

\* Faulty variant: the queue is taken to have room.
SendRequestUnchecked(c) ==
  /\ loc[c] = "sending"
  /\ \E e \in RequestsOf(c) :
       queue' = Append(queue, [event |-> e, asker |-> c, awaited |-> TRUE,
                               sample |-> FALSE])
  /\ loc' = [loc EXCEPT ![c] = "waiting"]
  /\ UNCHANGED <<controllerVars, outputVars, notify, upkeepVars, feedbackVars,
                 awaited, active>>

SendRequest(c) ==
  /\ loc[c] = "sending" /\ Len(queue) < QueueLength
  /\ \E e \in RequestsOf(c) :
       queue' = Append(queue, [event |-> e, asker |-> c, awaited |-> TRUE,
                               sample |-> FALSE])
  /\ loc' = [loc EXCEPT ![c] = "waiting"]
  /\ UNCHANGED <<controllerVars, outputVars, notify, upkeepVars, feedbackVars,
                 awaited, active>>

\* The queue stayed full for 100 ms: the caller is told it is busy.
QueueStaysFull(c) ==
  /\ loc[c] = "sending" /\ Len(queue) = QueueLength
  /\ loc' = [loc EXCEPT ![c] = "idle"]
  /\ UNCHANGED <<controllerVars, outputVars, notify, upkeepVars, feedbackVars,
                 awaited, active, queue>>

\* From here on nothing c has queued is awaited any more (history).
Abandon(c) ==
  /\ queue' = [i \in DOMAIN queue |->
                 IF queue[i].asker = c THEN [queue[i] EXCEPT !.awaited = FALSE]
                                       ELSE queue[i]]
  /\ awaited' = (awaited /\ asker # c)

TakeAnswer(c) ==
  /\ loc[c] = "waiting" /\ notify[c] # "none"
  /\ loc' = [loc EXCEPT ![c] = "idle"]
  /\ notify' = [notify EXCEPT ![c] = "none"]
  /\ Abandon(c)
  /\ UNCHANGED <<controllerVars, outputVars, upkeepVars, feedbackVars, active>>

\* No answer within 500 ms: the caller is told the runtime is unavailable.
GiveUp(c) ==
  /\ loc[c] = "waiting" /\ notify[c] = "none"
  /\ loc' = [loc EXCEPT ![c] = "idle"]
  /\ Abandon(c)
  /\ UNCHANGED <<controllerVars, outputVars, notify, upkeepVars, feedbackVars,
                 active>>

-----------------------------------------------------------------------------
(* Maintenance, in the HTTP task.  deactivate_all clears current_command   *)
(* and then lowers the pins; the controller may run in between.            *)

ClaimMaintenance ==
  /\ upkeep = "none" /\ loc[Http] = "idle" /\ active /\ ~maintenance
  /\ maintenance' = TRUE /\ upkeep' = "claimed"
  /\ UNCHANGED <<controllerVars, outputVars, callerVars, feedbackVars, awaited,
                 active, queue>>

\* Faulty variant: a pulse that moves nothing yet is overlooked.
QuiescentIfStill(s) == s.movement = "None"

Quiescent(s) == ~s.pulseActive /\ s.movement = "None"

RefuseMaintenance ==
  /\ upkeep = "claimed" /\ ~Quiescent(snap)
  /\ maintenance' = FALSE /\ upkeep' = "none"
  /\ UNCHANGED <<controllerVars, outputVars, callerVars, feedbackVars, awaited,
                 active, queue>>

AdmitMaintenance ==
  /\ upkeep = "claimed" /\ Quiescent(snap)
  /\ upkeep' = "clearing"
  /\ UNCHANGED <<controllerVars, outputVars, callerVars, maintenance,
                 feedbackVars, awaited, active, queue>>

LeaveMaintenance ==
  /\ upkeep = "held"
  /\ maintenance' = FALSE /\ upkeep' = "leaving"
  /\ UNCHANGED <<controllerVars, outputVars, callerVars, feedbackVars, awaited,
                 active, queue>>

ClearCommand ==
  /\ upkeep \in {"clearing", "leaving"}
  /\ command' = "None"
  /\ upkeep' = IF upkeep = "clearing" THEN "lowering" ELSE "releasing"
  /\ UNCHANGED <<controllerVars, driven, callerVars, maintenance, feedbackVars,
                 awaited, active, queue>>

LowerOutputs ==
  /\ upkeep \in {"lowering", "releasing"}
  /\ driven' = {}
  /\ upkeep' = IF upkeep = "lowering" THEN "held" ELSE "none"
  /\ UNCHANGED <<controllerVars, command, callerVars, maintenance, feedbackVars,
                 awaited, active, queue>>

\* A GPIO error while entering: the flag is dropped, some outputs may remain.
LoweringFails ==
  /\ upkeep = "lowering"
  /\ driven' \in SUBSET driven
  /\ maintenance' = FALSE /\ upkeep' = "none"
  /\ UNCHANGED <<controllerVars, command, callerVars, feedbackVars, awaited,
                 active, queue>>

-----------------------------------------------------------------------------
(* The feedback task.  Debouncing is abstract: a debounced change happens. *)

Assertable == IF Topology = "dual" THEN Endpoints ELSE {AssertedEnd}

\* The first levels are stored.  Only custom rules also queue them.
FirstSample ==
  /\ feedback = "start"
  /\ IF CustomRules
     THEN feedback' = "sending" /\ UNCHANGED asserted
     ELSE feedback' = "sampling" /\ asserted' \in SUBSET Assertable
  /\ UNCHANGED <<controllerVars, outputVars, callerVars, upkeepVars, awaited,
                 active, queue>>

FeedbackChange ==
  /\ feedback = "sampling"
  /\ IF CustomRules THEN UNCHANGED asserted
                    ELSE asserted' \in (SUBSET Assertable) \ {asserted}
  /\ feedback' = "sending"
  /\ UNCHANGED <<controllerVars, outputVars, callerVars, upkeepVars, awaited,
                 active, queue>>

FeedbackMessage ==
  [event |-> IF CustomRules THEN Event("DecoderHealthy")
             ELSE ObservationEvent("ObservationChanged",
                    NormalizeFeedback(Topology, AssertedEnd, asserted)),
   asker |-> NoCaller, awaited |-> FALSE, sample |-> CustomRules]

\* The callback blocks while the queue is full.
PublishFeedback ==
  /\ feedback = "sending" /\ Len(queue) < QueueLength
  /\ queue' = Append(queue, FeedbackMessage)
  /\ feedback' = "sampling"
  /\ UNCHANGED <<controllerVars, outputVars, callerVars, upkeepVars, asserted,
                 awaited, active>>

-----------------------------------------------------------------------------
\* Carrying a turn on once it was taken.
Continue ==
  \/ ApplyQuietly \/ RefusePulse
  \/ ReservePulse \/ DrivePulse \/ ActivationFails \/ CommitPulse

Controller ==
  \/ ControllerBoot \/ ExpirePulse \/ (\E timer \in Timers : Expire(timer))
  \/ DecoderWake \/ Receive \/ Continue

Caller(c) ==
  BeginRequest(c) \/ SendRequest(c) \/ QueueStaysFull(c) \/ TakeAnswer(c)

Maintenance ==
  \/ ClaimMaintenance \/ RefuseMaintenance \/ AdmitMaintenance
  \/ LeaveMaintenance \/ ClearCommand \/ LowerOutputs \/ LoweringFails

Feedback == FirstSample \/ FeedbackChange \/ PublishFeedback

Next ==
  \/ Controller
  \/ \E c \in Callers : Caller(c)
  \/ \E c \in Impatient : GiveUp(c)
  \/ Maintenance \/ Feedback \/ IntervalPasses

Spec == Init /\ [][Next]_vars

(***************************************************************************)
(* Fairness.  Every pass of the controller loop handles what is due and    *)
(* then reads the queue, so a non-empty queue is read again and again, a   *)
(* pulse deadline (never cancelled) is handled, and a travel deadline that *)
(* stays armed is handled; one that is cancelled or replaced again and     *)
(* again need not be.  The feedback task has the higher priority among the *)
(* tasks that wait for a queue slot.  Callers time out by themselves.      *)
(* Nothing is assumed of feedback changes, of the stability deadline they  *)
(* restart, of new requests or of maintenance being entered or left.       *)
(***************************************************************************)
TravelExpires(dir) ==
  <>[](dir \in armed) => []<><<Expire(dir)>>_vars

Fairness ==
  /\ WF_vars(ControllerBoot) /\ WF_vars(Continue)
  /\ SF_vars(ExpirePulse) /\ SF_vars(Receive)
  /\ \A dir \in Directions : TravelExpires(dir)
  /\ SF_vars(PublishFeedback) /\ WF_vars(FirstSample)
  /\ \A c \in Callers : /\ WF_vars(SendRequest(c) \/ QueueStaysFull(c))
                         /\ WF_vars(TakeAnswer(c))
  /\ WF_vars(RefuseMaintenance \/ AdmitMaintenance \/ ClearCommand \/ LowerOutputs)

FairSpec == Spec /\ Fairness
=============================================================================
