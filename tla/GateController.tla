--------------------------- MODULE GateController ---------------------------
(***************************************************************************)
(* The pure gate reducer: Reduce(s, e) is the proposed next snapshot and   *)
(* the effects of event e in snapshot s (components/gate_controller).  It  *)
(* has no variable; GateRuntime owns the committed snapshot.               *)
(*                                                                         *)
(* A travel direction, the moving state it produces and the deadline that  *)
(* supervises it share one name, "Opening" or "Closing".                   *)
(***************************************************************************)
EXTENDS Naturals, FiniteSets

CONSTANT Profile  \* "sequential": one STEP output; "directional": OPEN and CLOSE

ASSUME ProfileAssumption == Profile \in {"sequential", "directional"}

Targets      == {"Open", "Closed"}
Directions   == {"Opening", "Closing"}
Endpoints    == {"Opened", "Closed"}
Observations == {"Between", "Contradictory"} \cup Endpoints
Commands     == {"Step", "Open", "Close"}
Faults       == {"None", "TravelTimeout", "FeedbackContradiction",
                 "DecodedObstruction", "DecoderFault"}
Stopped      == {"StoppedOpening", "StoppedClosing", "UnknownStopped"}
States       == Targets \cup Directions \cup Stopped
Timers       == Directions \cup {"Stability"}

Snapshots ==
  [ state : States, target : Targets,
    movement : Directions \cup {"None"}, lastMovement : Directions \cup {"None"},
    pending : Observations, stable : Observations,
    valid : BOOLEAN, pulseActive : BOOLEAN, fault : Faults ]

InitialSnapshot ==
  [ state |-> "UnknownStopped", target |-> "Open",
    movement |-> "None", lastMovement |-> "None",
    pending |-> "Between", stable |-> "Between",
    valid |-> FALSE, pulseActive |-> FALSE, fault |-> "None" ]

\* Every event carries a target and an observation; most ignore them.
RequestTypes  == {"TargetRequested", "MaintenancePulseRequested"}
FeedbackTypes == {"ObservationChanged", "ObservationStable"}
ExternalTypes == {"ExternalOpening", "ExternalClosing", "ExternalStopped"}
DecoderTypes  == {"DecoderObstructed", "DecoderHealthy", "DecoderFault"}
TimerTypes    == {"OpeningTimerExpired", "ClosingTimerExpired", "PulseCompleted"}
EventTypes    == {"Boot", "ObstructionAcknowledged"} \cup RequestTypes
                 \cup FeedbackTypes \cup ExternalTypes \cup DecoderTypes \cup TimerTypes
Events == [type : EventTypes, target : Targets, observation : Observations]

Event(type)          == [type |-> type, target |-> "Open", observation |-> "Between"]
TargetEvent(target)  == [Event("TargetRequested") EXCEPT !.target = target]
ObservationEvent(type, o) == [Event(type) EXCEPT !.observation = o]

CommandResults == {"NotACommand", "Accepted", "NoChange", "RejectedBusy"}
Transitions ==
  [ next : Snapshots, command : Commands \cup {"None"},
    start : SUBSET Timers, cancel : BOOLEAN, result : CommandResults ]

-----------------------------------------------------------------------------
(* Feedback normalisation (operator_domain.cpp).                           *)

\* What a pair of endpoint assertions means.  With a single input the other
\* electrical level proves the opposite endpoint.
NormalizeFeedback(topology, endpoint, asserted) ==
  IF topology = "dual"
  THEN CASE asserted = {} -> "Between"
         [] asserted = {"Opened"} -> "Opened"
         [] asserted = {"Closed"} -> "Closed"
         [] OTHER -> "Contradictory"
  ELSE IF endpoint \in asserted THEN endpoint
  ELSE IF endpoint = "Opened" THEN "Closed" ELSE "Opened"

-----------------------------------------------------------------------------
(* The two profile strategies: a target becomes at most one pulse.         *)

Opposite(target) == IF target = "Open" THEN "Closed" ELSE "Open"
Toward(target)   == IF target = "Open" THEN "Opening" ELSE "Closing"
Pausing(dir)     == IF dir = "Opening" THEN "StoppedOpening" ELSE "StoppedClosing"
StoppedAfter(dir) == IF dir = "None" THEN "UnknownStopped" ELSE Pausing(dir)

Supports(command) ==
  \/ command = "None"
  \/ command = "Step" /\ Profile = "sequential"
  \/ command \in {"Open", "Close"} /\ Profile = "directional"

\* An event that is no command changes the snapshot and the deadlines only.
Timed(next, start, cancel) ==
  [next |-> next, command |-> "None", start |-> start, cancel |-> cancel,
   result |-> "NotACommand"]

Quiet(next) == Timed(next, {}, FALSE)

\* A command that is answered without a pulse.
Reply(next, result) ==
  [next |-> next, command |-> "None", start |-> {}, cancel |-> FALSE,
   result |-> result]

Rejected(s) == Reply(s, "RejectedBusy")
NoChange(s) == Reply(s, "NoChange")

\* A pulse on `command` is requested and `next` becomes the snapshot.
Pulse(next, command, start, cancel) ==
  [next |-> [next EXCEPT !.pulseActive = TRUE], command |-> command,
   start |-> start, cancel |-> cancel, result |-> "Accepted"]

Moving(s, target) ==
  [s EXCEPT !.state = Toward(target), !.target = target,
            !.movement = Toward(target), !.lastMovement = Toward(target)]

\* A STEP during travel pauses the gate and leaves the travelled target.
Paused(s, dir) ==
  [s EXCEPT !.state = Pausing(dir), !.movement = "None", !.lastMovement = dir,
            !.target = IF dir = "Opening" THEN "Open" ELSE "Closed"]

SequentialDecision(s, target) ==
  CASE s.state \in {Opposite(target), Pausing(Toward(Opposite(target)))} ->
         Pulse(Moving(s, target), "Step", {Toward(target)}, FALSE)
    [] s.state = Toward(Opposite(target)) ->
         Pulse(Paused(s, s.state), "Step", {}, TRUE)
    [] s.state = "UnknownStopped" /\ target # s.target ->
         Pulse([s EXCEPT !.target = target], "Step", {}, FALSE)
    [] s.state = target ->
         NoChange([s EXCEPT !.target = target])
    [] OTHER -> NoChange(s)

DirectionalDecision(s, target) ==
  IF s.state \in {target, Toward(target)}
  THEN NoChange([s EXCEPT !.target = target])
  ELSE Pulse(Moving(s, target), IF target = "Open" THEN "Open" ELSE "Close",
             {Toward(target)}, s.movement = Toward(Opposite(target)))

Decision(s, target) ==
  IF Profile = "directional" THEN DirectionalDecision(s, target)
                             ELSE SequentialDecision(s, target)

-----------------------------------------------------------------------------
(* One operator per event of reduce().                                     *)

\* Faulty variant: contradictory feedback does not interlock.
InterlockedByDecoderOnly(s) == s.pulseActive \/ s.fault = "DecoderFault"

\* Both kinds of request are refused here, before any strategy is asked.
Interlocked(s) ==
  s.pulseActive \/ s.fault \in {"FeedbackContradiction", "DecoderFault"}

OnBoot(s, o) ==
  Timed([InitialSnapshot EXCEPT !.target = s.target, !.pending = o],
        {"Stability"}, TRUE)

OnTargetRequested(s, target) ==
  LET decision == Decision(s, target) IN
  IF Interlocked(s) \/ ~Supports(decision.command) THEN Rejected(s) ELSE decision

\* A bench pulse leaves state, target and movement alone.
OnMaintenancePulse(s, target) ==
  LET command == CASE Profile = "sequential" -> "Step"
                   [] target = "Open" -> "Open"
                   [] OTHER -> "Close"
  IN IF Interlocked(s) \/ ~Supports(command) THEN Rejected(s)
                                             ELSE Pulse(s, command, {}, FALSE)

OnObservationChanged(s, o) ==
  Timed([s EXCEPT !.pending = o], {"Stability"}, FALSE)

ClearedByEndpoint(fault) ==
  IF fault \in {"DecodedObstruction", "TravelTimeout"} THEN "None" ELSE fault

AtEndpoint(s, target) ==
  [s EXCEPT !.state = target, !.target = target, !.movement = "None",
            !.fault = ClearedByEndpoint(s.fault)]

Contradicted(s) ==
  [s EXCEPT !.state = StoppedAfter(s.lastMovement), !.movement = "None",
            !.fault = "FeedbackContradiction"]

\* BETWEEN neither ends a travel nor invents one; it only ends a contradiction.
Uncontradicted(s) ==
  [s EXCEPT !.state = "UnknownStopped", !.movement = "None", !.fault = "None"]

OnObservationStable(s, o) ==
  LET seen == [s EXCEPT !.pending = o, !.stable = o, !.valid = TRUE]
  IN CASE o = "Opened" -> Timed(AtEndpoint(seen, "Open"), {}, TRUE)
       [] o = "Closed" -> Timed(AtEndpoint(seen, "Closed"), {}, TRUE)
       [] o = "Contradictory" -> Timed(Contradicted(seen), {}, TRUE)
       [] OTHER -> IF s.fault = "FeedbackContradiction"
                   THEN Timed(Uncontradicted(seen), {}, TRUE)
                   ELSE Quiet(seen)

OnExternalMovement(s, target) ==
  Timed(Moving(s, target), {Toward(target)}, FALSE)

\* Faulty variant: the direction outlives the movement.
OnExternalStoppedStillMoving(s) ==
  Timed([s EXCEPT !.state = StoppedAfter(s.movement)], {}, TRUE)

OnExternalStopped(s) ==
  Timed([s EXCEPT !.state = StoppedAfter(s.movement), !.movement = "None"], {}, TRUE)

OnDecoderHealthy(s) ==
  Quiet(IF s.fault \in {"DecodedObstruction", "DecoderFault"}
        THEN [s EXCEPT !.fault = "None"] ELSE s)

\* Faulty variant: the travel deadlines survive the movement.
OnDecoderFaultKeepingDeadlines(s) ==
  Quiet([s EXCEPT !.state = "UnknownStopped", !.movement = "None",
                  !.fault = "DecoderFault"])

OnDecoderFault(s) ==
  Timed([s EXCEPT !.state = "UnknownStopped", !.movement = "None",
                  !.fault = "DecoderFault"], {}, TRUE)

\* Faulty variant: the end of the travel time is taken for the endpoint.
OnTravelTimerArrived(s, dir) ==
  Quiet(IF s.state = dir
        THEN AtEndpoint(s, IF dir = "Opening" THEN "Open" ELSE "Closed") ELSE s)

\* Travel expiry is a fault, never evidence of an endpoint.
OnTravelTimer(s, dir) ==
  Quiet(IF s.state = dir
        THEN [s EXCEPT !.state = Pausing(dir), !.movement = "None",
                       !.lastMovement = dir, !.fault = "TravelTimeout"]
        ELSE s)

OnObstructionAcknowledged(s) ==
  Quiet(IF s.state # "Closing" /\ s.fault # "FeedbackContradiction"
        THEN [s EXCEPT !.fault = "None"] ELSE s)

\* A moving state moves its own way; a paused one remembers the way it came from.
Coherent(s) ==
  /\ s.movement = IF s.state \in Directions THEN s.state ELSE "None"
  /\ s.state \in Directions => s.lastMovement = s.state
  /\ \A dir \in Directions : s.state = Pausing(dir) => s.lastMovement = dir

Reduce(s, e) ==
  CASE e.type = "Boot" -> OnBoot(s, e.observation)
    [] e.type = "TargetRequested" -> OnTargetRequested(s, e.target)
    [] e.type = "MaintenancePulseRequested" -> OnMaintenancePulse(s, e.target)
    [] e.type = "ObservationChanged" -> OnObservationChanged(s, e.observation)
    [] e.type = "ObservationStable" -> OnObservationStable(s, e.observation)
    [] e.type = "ExternalOpening" -> OnExternalMovement(s, "Open")
    [] e.type = "ExternalClosing" -> OnExternalMovement(s, "Closed")
    [] e.type = "ExternalStopped" -> OnExternalStopped(s)
    [] e.type = "DecoderObstructed" ->
         Quiet([s EXCEPT !.fault = "DecodedObstruction"])
    [] e.type = "DecoderHealthy" -> OnDecoderHealthy(s)
    [] e.type = "DecoderFault" -> OnDecoderFault(s)
    [] e.type = "OpeningTimerExpired" -> OnTravelTimer(s, "Opening")
    [] e.type = "ClosingTimerExpired" -> OnTravelTimer(s, "Closing")
    [] e.type = "PulseCompleted" -> Quiet([s EXCEPT !.pulseActive = FALSE])
    [] e.type = "ObstructionAcknowledged" -> OnObstructionAcknowledged(s)
=============================================================================
