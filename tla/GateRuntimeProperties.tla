------------------------ MODULE GateRuntimeProperties ------------------------
(***************************************************************************)
(* What the gate runtime promises.                                         *)
(***************************************************************************)
EXTENDS GateRuntime

\* The controller task is between turns: nothing is half applied.
Settled == pc = "ready"

-----------------------------------------------------------------------------
(* Pulses.                                                                 *)

\* An active output always has a deadline that will release it and a guard
\* that keeps a second pulse out, and the committed snapshot says so as soon as
\* the turn that started the pulse is over (apply_event, process_expired).
PulseSupervised ==
  /\ driven # {} => "Pulse" \in armed
  /\ "Pulse" \in armed <=> busy
  /\ Settled => (snap.pulseActive <=> busy)

\* How many requests of a caller are queued, or being applied with no pulse started.
Queued(c)    == {i \in DOMAIN queue : queue[i].asker = c}
Applying(c)  == asker = c /\ pc \in {"applying", "reserved"}
OpenRequests ==
  [c \in Callers |-> Cardinality(Queued(c)) + IF Applying(c) THEN 1 ELSE 0]

ActiveOutput == IF driven = {} THEN "None" ELSE CHOOSE o \in Commands : o \in driven

Promise == INSTANCE PulsePromise
  WITH Requesters <- Callers, Outputs <- Commands, NoOutput <- "None",
       relay <- ActiveOutput, rested <- spaced, open <- OpenRequests

\* Seen from outside, the runtime is PulsePromise: at most one pulse for each
\* request, its caller waiting or not, never two outputs at once, never two starts
\* within the interval (plans/operator-profile-architecture.md section 9, items 2, 3, 5 and 6).
PulsePromised == Promise!PromiseSpec

\* A pulse starts only for a request whose caller still waits for it: what a
\* caller was told has failed is never carried out later (send_request and, for
\* Apple Home, GarageDoorService::update, which rejects whatever was not accepted).
OnlyAwaitedRequestsActuate ==
  [][driven' \ driven # {} => awaited]_vars

\* A caller that is told "busy" or "hardware error" finds the gate as it was:
\* the refusal commits nothing, arms nothing and leaves no output active that
\* was inactive before (apply_event's early returns and the reducer's refusals).
RefusalsChangeNothing ==
  [][\A c \in Callers :
       notify[c] = "none" /\ notify'[c] \in {"Busy", "HardwareError"}
         => snap' = snap /\ armed' = armed /\ driven' \subseteq driven]_vars

\* No output is activated while the accepted feedback contradicts itself, by
\* whichever task, request or interleaving (reduce's interlock).
ContradictionBlocksPulses ==
  [][driven' \ driven # {} => snap.stable # "Contradictory"]_vars

-----------------------------------------------------------------------------
(* Travel, endpoints and feedback.                                         *)

\* Each direction is travelled exactly while its own deadline is in `deadlines`.
Supervised(s, deadlines) ==
  \A dir \in Directions : (s.state = dir) <=> (dir \in deadlines)

\* A gate shown as travelling is supervised by exactly the deadline of its own
\* direction, so no later command, feedback or decoder result leaves a travel
\* without its timeout or a timeout without its travel.
TravelSupervised == Settled => Supervised(snap, armed)

\* State, direction and direction history never contradict each other: a moving
\* state moves its own way, and a paused state remembers the way it came from
\* (plans/operator-profile-architecture.md section 6.1).
MotionCoherent == Coherent(snap)

EndpointOf(target) == IF target = "Open" THEN "Opened" ELSE "Closed"

\* The committed snapshot starts to claim travel only for a pulse that was
\* really started or for a decoded movement, and an endpoint only from accepted
\* feedback of that endpoint: no refused pulse, timeout or stop claims either.
ClaimsAreEarned ==
  [][/\ snap'.state \in Directions /\ snap'.state # snap.state
          => (pc = "driven" /\ busy) \/ Head(todo).type \in ExternalTypes
     /\ \A target \in Targets : snap'.state = target /\ snap.state # target
          => snap'.valid /\ snap'.stable = EndpointOf(target)]_vars

\* Without custom rules: once the feedback task's last change has been taken
\* from the queue and applied, the reducer works with the levels it published;
\* no older change, command or deadline puts an earlier observation back.
FeedbackFollowed ==
  Settled /\ feedback = "sampling" /\ (\A i \in DOMAIN queue : queue[i].asker # NoCaller)
    => snap.pending = NormalizeFeedback(Topology, AssertedEnd, asserted)

\* A debounced observation that is not yet accepted still has the stability
\* deadline that will accept it.
PendingFeedbackAccepted ==
  Settled /\ (snap.pending # snap.stable \/ ~snap.valid) => "Stability" \in armed

\* The contradiction interlock lasts until other stable feedback replaces the
\* contradiction.
ContradictionInterlockEnds ==
  snap.fault = "FeedbackContradiction" => snap.stable = "Contradictory"

-----------------------------------------------------------------------------
(* Maintenance.                                                            *)

\* While the HTTP task holds maintenance, no pulse is active or about to end
\* and the gate is not moving (enter_maintenance).
MaintenanceQuiet ==
  upkeep = "held" => driven = {} /\ ~busy /\ Quiescent(snap)

-----------------------------------------------------------------------------
(* The inductive invariant behind the theorems.  Inside a turn the shared  *)
(* state lags behind or runs ahead of the snapshot; each part says how far.*)

\* What the queue carries: requests and feedback, nothing the loop produces.
QueuedTypes == RequestTypes \cup {"ObservationChanged", "DecoderHealthy"}

\* A turn starts with one event of any kind; what follows it in the same turn
\* comes from the decoder.
TurnOK ==
  /\ \A i \in DOMAIN queue : queue[i].event.type \in QueuedTypes
  /\ pc \in {"applying", "reserved", "driven"} => todo # <<>>
  /\ \A i \in 2..Len(todo) :
       todo[i].type \in {"ObservationStable"} \cup ExternalTypes \cup DecoderTypes
  /\ pc \in {"reserved", "driven"} => Reduction.command # "None"

\* The snapshot's pulse flag follows the guard, one event behind.
PulseOK ==
  /\ driven # {} => busy
  /\ "Pulse" \in armed <=> busy
  /\ pc \in {"boot", "ready"} => (snap.pulseActive <=> busy)
  /\ pc = "boot" => ~busy
  /\ pc = "applying" =>
       CASE Head(todo).type = "PulseCompleted" -> ~busy
         [] Head(todo).type = "Boot" -> ~busy /\ ~snap.pulseActive
         [] OTHER -> snap.pulseActive <=> busy
  /\ pc = "reserved" => ~busy
  /\ pc = "driven" => busy

\* A travel deadline that was just taken still counts until its event is applied.
Due == IF pc # "applying" THEN {}
       ELSE CASE Head(todo).type = "OpeningTimerExpired" -> {"Opening"}
              [] Head(todo).type = "ClosingTimerExpired" -> {"Closing"}
              [] OTHER -> {}

RuntimeInv ==
  /\ TypeOK /\ TurnOK /\ PulseOK
  /\ Supervised(snap, armed \cup Due) /\ armed \cap Due = {}
  /\ MotionCoherent

\* The two sources of feedback exclude each other: with custom rules nothing can
\* observe a contradiction, and without them nothing is decoded.
Genuine(e) == IF CustomRules THEN e.observation # "Contradictory"
                             ELSE e.type \notin ExternalTypes \cup DecoderTypes

SourcesOK ==
  /\ \A i \in DOMAIN queue : Genuine(queue[i].event) /\ (queue[i].sample => CustomRules)
  /\ \A i \in DOMAIN todo : Genuine(todo[i])
  /\ CustomRules => snap.pending # "Contradictory" /\ snap.stable # "Contradictory"

\* A contradiction has stopped the gate, and its fault stays as long as it does.
ContradictionHolds(s) ==
  s.stable = "Contradictory" => s.fault = "FeedbackContradiction" /\ s.state \notin Directions

InterlockInv == SourcesOK /\ ContradictionHolds(snap)

\* A request comes from a caller and is the only event of its turn.
RequestsAsked ==
  /\ \A i \in DOMAIN queue :
       /\ queue[i].event.type \in RequestTypes => queue[i].asker \in Callers
       /\ queue[i].sample => queue[i].asker = NoCaller
  /\ asker \in Callers => Len(todo) = 1
  /\ pc \in {"applying", "reserved", "driven"} /\ Head(todo).type \in RequestTypes =>
       asker \in Callers

\* One output at most is active, and a reserved pulse still keeps the interval.
PromiseInv ==
  /\ RequestsAsked
  /\ \A output, other \in driven : output = other
  /\ pc = "reserved" => spaced

\* Without custom rules, and with the first levels stored before the boot event:
\* the observation that was published last is the last one in the queue, or is
\* being applied, or is the one the reducer works with.
Published == {i \in DOMAIN queue : queue[i].asker = NoCaller}

Announced ==
  IF pc = "applying" /\ Head(todo).type \in {"Boot", "ObservationChanged"}
  THEN Head(todo).observation ELSE snap.pending

Observed == NormalizeFeedback(Topology, AssertedEnd, asserted)

FollowInv ==
  /\ \A i \in DOMAIN queue :
       IF i \in Published THEN queue[i].event.type = "ObservationChanged"
                         ELSE queue[i].event.type \in RequestTypes
  /\ Len(todo) <= 1
  /\ pc = "applying" /\ Head(todo).type = "ObservationStable" =>
       Head(todo).observation = snap.pending
  /\ feedback = "start" => pc = "boot" /\ Published = {}
  /\ feedback = "sampling" =>
       /\ \A i \in Published :
            (\A j \in Published : j <= i) => queue[i].event.observation = Observed
       /\ Published = {} /\ pc # "boot" => Announced = Observed

\* While no caller gives up: who has sent a request and was not answered has it in
\* the queue or in the turn, once, and waits for it; nobody else has one there.
PatientInv ==
  \A c \in Callers :
    /\ loc[c] # "waiting" => notify[c] = "none"
    /\ loc[c] # "waiting" \/ notify[c] # "none" => Queued(c) = {} /\ asker # c
    /\ asker = c => Queued(c) = {} /\ awaited
    /\ \A i, j \in Queued(c) : i = j
    /\ \A i \in Queued(c) : queue[i].awaited

\* Then, if nobody but the HTTP task sends requests: nothing is requested while it
\* holds maintenance, and what it found quiet when it entered stays quiet.
QuietInv ==
  /\ upkeep # "none" => loc[Http] = "idle" /\ active
  /\ active => pc # "boot" /\ (pc = "applying" => Head(todo).type # "Boot")
  /\ upkeep \in {"clearing", "lowering", "held"} => driven = {} /\ ~busy /\ Quiescent(snap)

-----------------------------------------------------------------------------
(* Liveness, under Fairness.                                               *)

\* Every pulse ends.
PulseEnds == driven # {} ~> driven = {}

\* Without custom rules no travel is shown for ever, whatever is requested.
TravelEnds == \A dir \in Directions : snap.state = dir ~> snap.state # dir

\* Every accepted message is answered, and every caller gets away.
RequestsAnswered == \A c \in Callers : loc[c] # "idle" ~> loc[c] = "idle"

\* A debounced change gets into the queue, however busy the callers keep it.
ChangesPublished == feedback = "sending" ~> feedback = "sampling"
=============================================================================
