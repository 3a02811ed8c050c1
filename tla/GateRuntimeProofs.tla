-------------------------- MODULE GateRuntimeProofs --------------------------
(***************************************************************************)
(* Theorems of the gate runtime, for every profile, topology, set of       *)
(* callers and queue length.                                               *)
(***************************************************************************)
EXTENDS GateRuntimeProperties, SequenceTheorems, TLAPS

(***************************************************************************)
(* Part one: what reduce() returns, for every snapshot and every event.    *)
(***************************************************************************)
-----------------------------------------------------------------------------
(* Its type.                                                               *)

LEMMA MovingType ==
  ASSUME NEW s \in Snapshots, NEW t \in Targets
  PROVE  Moving(s, t) \in Snapshots
BY DEF Moving, Toward, Snapshots, Targets, Directions, States

LEMMA StoppedAfterType ==
  ASSUME NEW d \in Directions \cup {"None"}
  PROVE  StoppedAfter(d) \in States
BY DEF StoppedAfter, Pausing, Directions, States, Stopped

LEMMA PulseType ==
  ASSUME NEW s \in Snapshots, NEW c \in Commands, NEW start \in SUBSET Timers,
         NEW cancel \in BOOLEAN
  PROVE  Pulse(s, c, start, cancel) \in Transitions
<1>1. [s EXCEPT !.pulseActive = TRUE] \in Snapshots
  BY DEF Snapshots
<1> QED
  BY <1>1 DEF Pulse, Transitions, CommandResults

LEMMA TimedType ==
  ASSUME NEW s \in Snapshots, NEW start \in SUBSET Timers, NEW cancel \in BOOLEAN
  PROVE  Timed(s, start, cancel) \in Transitions
BY DEF Timed, Transitions, CommandResults

LEMMA ReplyType ==
  ASSUME NEW s \in Snapshots
  PROVE  Quiet(s) \in Transitions /\ Rejected(s) \in Transitions /\ NoChange(s) \in Transitions
BY TimedType DEF Quiet, Rejected, NoChange, Reply, Transitions, CommandResults

LEMMA DecisionType ==
  ASSUME NEW s \in Snapshots, NEW t \in Targets
  PROVE  Decision(s, t) \in Transitions
<1>1. Moving(s, t) \in Snapshots
  BY MovingType
<1>2. [s EXCEPT !.target = t] \in Snapshots
  BY DEF Snapshots
<1>3. s.state \in Directions => Paused(s, s.state) \in Snapshots
  BY DEF Paused, Pausing, Snapshots, States, Stopped, Directions, Targets
<1>4. SequentialDecision(s, t) \in Transitions
  <2>1. CASE s.state \in {Opposite(t), Pausing(Toward(Opposite(t)))}
    <3>1. SequentialDecision(s, t) = Pulse(Moving(s, t), "Step", {Toward(t)}, FALSE)
      BY <2>1 DEF SequentialDecision, Toward, Opposite, Pausing, Targets
    <3> QED
      BY <3>1, <1>1, PulseType DEF Commands, Timers, Toward, Directions
  <2>2. CASE s.state = Toward(Opposite(t))
    BY <2>2, <1>3, PulseType
       DEF SequentialDecision, Commands, Toward, Opposite, Pausing, Directions, Targets
  <2>3. CASE /\ s.state \notin {Opposite(t), Pausing(Toward(Opposite(t)))}
             /\ s.state # Toward(Opposite(t))
    BY <2>3, <1>2, PulseType, ReplyType DEF SequentialDecision, Commands
  <2> QED BY <2>1, <2>2, <2>3
<1>5. DirectionalDecision(s, t) \in Transitions
  BY <1>1, <1>2, PulseType, ReplyType
     DEF DirectionalDecision, Commands, Timers, Toward, Directions
<1> QED
  BY <1>4, <1>5 DEF Decision

LEMMA StableType ==
  ASSUME NEW s \in Snapshots, NEW o \in Observations
  PROVE  OnObservationStable(s, o) \in Transitions
<1> DEFINE seen == [s EXCEPT !.pending = o, !.stable = o, !.valid = TRUE]
<1>1. seen \in Snapshots
  BY DEF Snapshots
<1>2. ASSUME NEW n \in Snapshots, NEW t \in Targets
      PROVE  AtEndpoint(n, t) \in Snapshots
  <2>1. ClearedByEndpoint(n.fault) \in Faults
    BY DEF Snapshots, Faults, ClearedByEndpoint
  <2> QED BY <2>1 DEF AtEndpoint, Snapshots, States, Directions
<1>3. ASSUME NEW n \in Snapshots
      PROVE  Contradicted(n) \in Snapshots
  <2>1. StoppedAfter(n.lastMovement) \in States
    BY StoppedAfterType DEF Snapshots
  <2> QED BY <2>1 DEF Contradicted, Snapshots, Faults, Directions
<1>4. ASSUME NEW n \in Snapshots
      PROVE  Uncontradicted(n) \in Snapshots
  BY ZenonT(60) DEF Uncontradicted, Snapshots, States, Stopped, Faults, Directions
<1> HIDE DEF seen
<1>5. AtEndpoint(seen, "Open") \in Snapshots /\ AtEndpoint(seen, "Closed") \in Snapshots
  BY <1>1, <1>2 DEF Targets
<1>6. CASE o \in Endpoints
  BY <1>5, <1>6, TimedType DEF OnObservationStable, Endpoints, seen
<1>7. CASE o = "Contradictory"
  BY <1>1, <1>3, <1>7, TimedType DEF OnObservationStable, seen
<1>8. CASE o \notin Endpoints \cup {"Contradictory"}
  BY <1>1, <1>4, <1>8, TimedType, ReplyType DEF OnObservationStable, Endpoints, seen
<1> QED
  BY <1>6, <1>7, <1>8

\* Whatever the event, reduce() yields a snapshot and effects of their types.
LEMMA ReduceType ==
  ASSUME NEW s \in Snapshots, NEW e \in Events
  PROVE  Reduce(s, e) \in Transitions
<1>0. e.type \in EventTypes /\ e.target \in Targets /\ e.observation \in Observations
  BY DEF Events
<1>1. CASE e.type = "Boot"
  <2>1. [InitialSnapshot EXCEPT !.target = s.target, !.pending = e.observation] \in Snapshots
    BY <1>0, ZenonT(60) DEF InitialSnapshot, Snapshots, States, Stopped, Directions, Targets,
       Observations, Faults
  <2> QED
    BY <1>1, <2>1, TimedType DEF Reduce, OnBoot, Timers
<1>2. CASE e.type = "TargetRequested"
  BY <1>0, <1>2, DecisionType, ReplyType DEF Reduce, OnTargetRequested
<1>3. CASE e.type = "MaintenancePulseRequested"
  BY <1>3, PulseType, ReplyType DEF Reduce, OnMaintenancePulse, Commands
<1>4. CASE e.type = "ObservationChanged"
  <2>1. [s EXCEPT !.pending = e.observation] \in Snapshots
    BY <1>0 DEF Snapshots
  <2> QED
    BY <1>4, <2>1, TimedType DEF Reduce, OnObservationChanged, Timers
<1>5. CASE e.type = "ObservationStable"
  BY <1>0, <1>5, StableType DEF Reduce
<1>6. CASE e.type \in {"ExternalOpening", "ExternalClosing"}
  <2>1. ASSUME NEW t \in Targets
        PROVE  OnExternalMovement(s, t) \in Transitions
    BY MovingType, TimedType DEF OnExternalMovement, Toward, Timers, Directions
  <2> QED
    BY <1>6, <2>1 DEF Reduce, Targets
<1>7. CASE e.type = "ExternalStopped"
  <2>1. StoppedAfter(s.movement) \in States
    BY StoppedAfterType DEF Snapshots
  <2>2. [s EXCEPT !.state = StoppedAfter(s.movement), !.movement = "None"] \in Snapshots
    BY <2>1 DEF Snapshots
  <2> QED
    BY <1>7, <2>2, TimedType DEF Reduce, OnExternalStopped
<1>8. CASE e.type \in {"DecoderObstructed", "DecoderHealthy", "PulseCompleted",
                     "ObstructionAcknowledged"}
  <2>1. /\ [s EXCEPT !.fault = "DecodedObstruction"] \in Snapshots
        /\ [s EXCEPT !.fault = "None"] \in Snapshots
        /\ [s EXCEPT !.pulseActive = FALSE] \in Snapshots
    BY DEF Snapshots, Faults
  <2> QED
    BY <1>8, <2>1, ReplyType DEF Reduce, OnDecoderHealthy, OnObstructionAcknowledged
<1>9. CASE e.type = "DecoderFault"
  <2>1. [s EXCEPT !.state = "UnknownStopped", !.movement = "None",
                  !.fault = "DecoderFault"] \in Snapshots
    BY DEF Snapshots, States, Stopped, Faults
  <2> QED
    BY <1>9, <2>1, TimedType DEF Reduce, OnDecoderFault
<1>10. CASE e.type \in {"OpeningTimerExpired", "ClosingTimerExpired"}
  <2>1. ASSUME NEW dir \in Directions
        PROVE  OnTravelTimer(s, dir) \in Transitions
    <3>1. [s EXCEPT !.state = Pausing(dir), !.movement = "None",
                    !.lastMovement = dir, !.fault = "TravelTimeout"] \in Snapshots
      BY ZenonT(60) DEF Pausing, Snapshots, States, Stopped, Directions, Faults
    <3> QED
      BY <3>1, ReplyType DEF OnTravelTimer
  <2> QED
    BY <1>10, <2>1 DEF Reduce, Directions
<1> QED
  BY <1>0, <1>1, <1>2, <1>3, <1>4, <1>5, <1>6, <1>7, <1>8, <1>9, <1>10
     DEF EventTypes, RequestTypes, FeedbackTypes, ExternalTypes, DecoderTypes, TimerTypes

-----------------------------------------------------------------------------
(* Movement.                                                               *)

LEMMA MovingCoherent ==
  ASSUME NEW s \in Snapshots, NEW t \in Targets
  PROVE  Coherent(Moving(s, t))
<1>1. /\ Moving(s, t).state = Toward(t)
      /\ Moving(s, t).movement = Toward(t)
      /\ Moving(s, t).lastMovement = Toward(t)
  BY DEF Moving, Snapshots
<1>2. Toward(t) \in Directions /\ \A dir \in Directions : Toward(t) # Pausing(dir)
  BY DEF Toward, Pausing, Directions
<1> QED
  BY <1>1, <1>2 DEF Coherent

\* reduce() keeps a coherent snapshot coherent.
LEMMA ReduceCoherent ==
  ASSUME NEW s \in Snapshots, NEW e \in Events, Coherent(s)
  PROVE  Coherent(Reduce(s, e).next)
<1>0. e.type \in EventTypes /\ e.target \in Targets /\ e.observation \in Observations
  BY DEF Events
<1>1. CASE e.type = "Boot"
  BY <1>1 DEF Reduce, OnBoot, Timed, InitialSnapshot, Coherent, Directions, Pausing
<1>2. CASE e.type = "TargetRequested"
  <2>1. ASSUME NEW n \in Snapshots, NEW c, NEW start, NEW cancel, Coherent(n)
        PROVE  Coherent(Pulse(n, c, start, cancel).next)
    BY <2>1 DEF Pulse, Coherent, Snapshots
  <2>2. Coherent([s EXCEPT !.target = e.target])
    BY DEF Coherent, Snapshots
  <2>3. [s EXCEPT !.target = e.target] \in Snapshots /\ Moving(s, e.target) \in Snapshots
    BY <1>0, MovingType DEF Snapshots
  <2>4. Coherent(Moving(s, e.target))
    BY <1>0, MovingCoherent
  <2>5. s.state \in Directions => /\ Paused(s, s.state) \in Snapshots
                                 /\ Coherent(Paused(s, s.state))
    BY DEF Paused, Pausing, Coherent, Snapshots, States, Stopped, Directions, Targets
  <2>6. Coherent(DirectionalDecision(s, e.target).next)
    BY <2>1, <2>2, <2>3, <2>4 DEF DirectionalDecision, NoChange, Reply
  <2>7. Coherent(SequentialDecision(s, e.target).next)
    <3>1. CASE s.state \in {Opposite(e.target), Pausing(Toward(Opposite(e.target)))}
      <4>1. SequentialDecision(s, e.target)
              = Pulse(Moving(s, e.target), "Step", {Toward(e.target)}, FALSE)
        BY <1>0, <3>1 DEF SequentialDecision, Toward, Opposite, Pausing, Targets
      <4> QED
        BY <4>1, <2>1, <2>3, <2>4
    <3>2. CASE s.state = Toward(Opposite(e.target))
      <4>1. SequentialDecision(s, e.target) = Pulse(Paused(s, s.state), "Step", {}, TRUE)
        BY <1>0, <3>2 DEF SequentialDecision, Toward, Opposite, Pausing, Targets
      <4>2. s.state \in Directions
        BY <3>2 DEF Toward, Directions
      <4> QED
        BY <4>1, <4>2, <2>1, <2>5
    <3>3. CASE /\ s.state \notin {Opposite(e.target), Pausing(Toward(Opposite(e.target)))}
               /\ s.state # Toward(Opposite(e.target))
      BY <3>3, <2>1, <2>2, <2>3 DEF SequentialDecision, NoChange, Reply
    <3> QED BY <3>1, <3>2, <3>3
  <2> QED
    BY <1>2, <2>6, <2>7 DEF Reduce, OnTargetRequested, Decision, Rejected, Reply
<1>3. CASE e.type = "MaintenancePulseRequested"
  <2>1. Coherent([s EXCEPT !.pulseActive = TRUE])
    BY DEF Coherent, Snapshots
  <2> QED
    BY <1>3, <2>1 DEF Reduce, OnMaintenancePulse, Rejected, Reply, Pulse
<1>4. CASE e.type \in {"ObservationChanged", "DecoderObstructed", "DecoderHealthy",
                     "PulseCompleted", "ObstructionAcknowledged"}
  <2>1. /\ Coherent([s EXCEPT !.pending = e.observation])
        /\ Coherent([s EXCEPT !.fault = "DecodedObstruction"])
        /\ Coherent([s EXCEPT !.fault = "None"])
        /\ Coherent([s EXCEPT !.pulseActive = FALSE])
    BY DEF Coherent, Snapshots
  <2> QED
    BY <1>4, <2>1 DEF Reduce, OnObservationChanged, OnDecoderHealthy,
       OnObstructionAcknowledged, Quiet, Timed
<1>5. CASE e.type = "ObservationStable"
  <2> DEFINE seen == [s EXCEPT !.pending = e.observation, !.stable = e.observation,
                               !.valid = TRUE]
  <2>1. seen \in Snapshots /\ Coherent(seen)
    BY <1>0 DEF Snapshots, Coherent
  <2> HIDE DEF seen
  <2>2. ASSUME NEW t \in Targets
        PROVE  Coherent(AtEndpoint(seen, t))
    BY <2>1 DEF AtEndpoint, Coherent, Snapshots, Targets, Directions, Pausing
  <2>3. Coherent(Contradicted(seen))
    BY <2>1 DEF Contradicted, StoppedAfter, Coherent, Snapshots, Directions, Pausing
  <2>4. Coherent(Uncontradicted(seen))
    BY <2>1 DEF Uncontradicted, Coherent, Snapshots, Directions, Pausing
  <2>5. CASE e.observation \in Endpoints
    <3>1. Coherent(AtEndpoint(seen, "Open")) /\ Coherent(AtEndpoint(seen, "Closed"))
      BY <2>2 DEF Targets
    <3> QED
      BY <1>5, <2>5, <3>1 DEF Reduce, OnObservationStable, Timed, Endpoints, seen
  <2>6. CASE e.observation = "Contradictory"
    BY <1>5, <2>6, <2>3 DEF Reduce, OnObservationStable, Timed, seen
  <2>7. CASE e.observation \notin Endpoints \cup {"Contradictory"}
    BY <1>5, <2>7, <2>1, <2>4 DEF Reduce, OnObservationStable, Quiet, Timed, Endpoints, seen
  <2> QED
    BY <2>5, <2>6, <2>7
<1>6. CASE e.type \in {"ExternalOpening", "ExternalClosing"}
  BY <1>6, MovingCoherent DEF Reduce, OnExternalMovement, Timed, Targets
<1>7. CASE e.type = "ExternalStopped"
  <2>1. Coherent([s EXCEPT !.state = StoppedAfter(s.movement), !.movement = "None"])
    BY DEF StoppedAfter, Coherent, Snapshots, Directions, Pausing
  <2> QED
    BY <1>7, <2>1 DEF Reduce, OnExternalStopped, Timed
<1>8. CASE e.type = "DecoderFault"
  <2>1. Coherent([s EXCEPT !.state = "UnknownStopped", !.movement = "None",
                           !.fault = "DecoderFault"])
    BY DEF Coherent, Snapshots, Directions, Pausing
  <2> QED
    BY <1>8, <2>1 DEF Reduce, OnDecoderFault, Timed
<1>9. CASE e.type \in {"OpeningTimerExpired", "ClosingTimerExpired"}
  <2>1. ASSUME NEW dir \in Directions
        PROVE  Coherent(OnTravelTimer(s, dir).next)
    BY DEF OnTravelTimer, Quiet, Timed, Coherent, Snapshots, Directions, Pausing
  <2> QED
    BY <1>9, <2>1 DEF Reduce, Directions
<1> QED
  BY <1>0, <1>1, <1>2, <1>3, <1>4, <1>5, <1>6, <1>7, <1>8, <1>9
     DEF EventTypes, RequestTypes, FeedbackTypes, ExternalTypes, DecoderTypes, TimerTypes

-----------------------------------------------------------------------------
(* Effects.                                                                *)

\* Only an accepted request asks for a pulse, never while one is active, and
\* the snapshot's pulse flag changes in no other way than to say so, to end the
\* pulse or to start afresh.
LEMMA ReducePulse ==
  ASSUME NEW s \in Snapshots, NEW e \in Events
  PROVE  /\ Reduce(s, e).command # "None" =>
              e.type \in RequestTypes /\ ~s.pulseActive /\ Reduce(s, e).next.pulseActive
         /\ Reduce(s, e).command = "None" =>
              (Reduce(s, e).next.pulseActive
                 <=> s.pulseActive /\ e.type \notin {"Boot", "PulseCompleted"})
<1>0. e.type \in EventTypes /\ e.target \in Targets /\ e.observation \in Observations
  BY DEF Events
<1>1. CASE e.type = "Boot"
  BY <1>1 DEF Reduce, OnBoot, Timed, InitialSnapshot
<1>2. CASE e.type \in RequestTypes
  <2>3. Rejected(s).next = s /\ Rejected(s).command = "None"
    BY DEF Rejected, Reply
  <2>4. Interlocked(s) => Reduce(s, e) = Rejected(s)
    BY <1>2 DEF Reduce, OnTargetRequested, OnMaintenancePulse, RequestTypes
  <2>5. ASSUME ~Interlocked(s), e.type = "MaintenancePulseRequested"
        PROVE  \/ Reduce(s, e) = Rejected(s)
               \/ \E c \in Commands : Reduce(s, e) = Pulse(s, c, {}, FALSE)
    <3> DEFINE c == CASE Profile = "sequential" -> "Step"
                      [] e.target = "Open" -> "Open"
                      [] OTHER -> "Close"
    <3>1. c \in Commands
      BY ProfileAssumption DEF Commands
    <3>2. \/ Reduce(s, e) = Rejected(s)
          \/ Reduce(s, e) = Pulse(s, c, {}, FALSE)
      BY <2>5 DEF Reduce, OnMaintenancePulse
    <3> QED
      BY <3>1, <3>2
  <2>6. ASSUME ~Interlocked(s), e.type = "TargetRequested"
        PROVE  Reduce(s, e) = Rejected(s) \/ Reduce(s, e) = Decision(s, e.target)
    BY <2>6 DEF Reduce, OnTargetRequested
  <2>7. s.state \in Directions => Paused(s, s.state) \in Snapshots
    BY DEF Paused, Pausing, Snapshots, States, Stopped, Directions, Targets
  <2>8. /\ Moving(s, e.target) \in Snapshots
        /\ [s EXCEPT !.target = e.target] \in Snapshots
        /\ [s EXCEPT !.target = e.target].pulseActive = s.pulseActive
    BY <1>0, MovingType DEF Snapshots
  <2>9. \/ \E n \in Snapshots, c \in Commands, start \in SUBSET Timers, cancel \in BOOLEAN :
             Decision(s, e.target) = Pulse(n, c, start, cancel)
        \/ Decision(s, e.target) = NoChange(s)
        \/ Decision(s, e.target) = NoChange([s EXCEPT !.target = e.target])
    <3>1. CASE Profile = "directional"
      BY <3>1, <1>0, <2>8 DEF Decision, DirectionalDecision, Commands, Toward, Timers,
         Directions, Targets
    <3>2. CASE Profile # "directional" /\ s.state = Toward(Opposite(e.target))
      BY <3>2, <1>0, <2>7 DEF Decision, SequentialDecision, Commands, Toward, Opposite,
         Pausing, Directions, Targets
    <3>3. CASE /\ Profile # "directional"
               /\ s.state \in {Opposite(e.target), Pausing(Toward(Opposite(e.target)))}
      <4>1. Decision(s, e.target)
              = Pulse(Moving(s, e.target), "Step", {Toward(e.target)}, FALSE)
        BY <1>0, <3>3 DEF Decision, SequentialDecision, Toward, Opposite, Pausing, Targets
      <4> QED
        BY <4>1, <2>8 DEF Commands, Toward, Timers, Directions
    <3>4. CASE /\ Profile # "directional"
               /\ s.state \notin {Opposite(e.target), Pausing(Toward(Opposite(e.target)))}
               /\ s.state # Toward(Opposite(e.target))
      <4>1. \/ Decision(s, e.target) = Pulse([s EXCEPT !.target = e.target], "Step", {}, FALSE)
            \/ Decision(s, e.target) = NoChange(s)
            \/ Decision(s, e.target) = NoChange([s EXCEPT !.target = e.target])
        <5>1. CASE s.state = "UnknownStopped" /\ e.target # s.target
          BY <3>4, <5>1, <1>0 DEF Decision, SequentialDecision, Targets
        <5>2. CASE s.state = e.target
          BY <3>4, <5>2, <1>0 DEF Decision, SequentialDecision, Targets
        <5>3. CASE ~(s.state = "UnknownStopped" /\ e.target # s.target) /\ s.state # e.target
          BY <3>4, <5>3 DEF Decision, SequentialDecision
        <5> QED
          BY <5>1, <5>2, <5>3
      <4> QED
        BY <4>1, <2>8 DEF Commands
    <3> QED
      BY <3>1, <3>2, <3>3, <3>4
  <2>10. ~Interlocked(s) => ~s.pulseActive
    BY DEF Interlocked
  <2>11. CASE Interlocked(s)
    BY <2>11, <2>4, <2>3, <1>2 DEF RequestTypes, Snapshots
  <2>12. CASE ~Interlocked(s) /\ e.type = "MaintenancePulseRequested"
    <3>1. ASSUME NEW c \in Commands, Reduce(s, e) = Pulse(s, c, {}, FALSE)
          PROVE  Reduce(s, e).command # "None" /\ Reduce(s, e).next.pulseActive
      BY <3>1 DEF Pulse, Commands, Snapshots
    <3> QED
      BY <3>1, <1>2, <2>12, <2>3, <2>5, <2>10 DEF RequestTypes
  <2>13. CASE ~Interlocked(s) /\ e.type = "TargetRequested"
    <3>1. ASSUME NEW n \in Snapshots, NEW c \in Commands, NEW start \in SUBSET Timers,
                 NEW cancel \in BOOLEAN, Decision(s, e.target) = Pulse(n, c, start, cancel)
          PROVE  /\ Decision(s, e.target).command # "None"
                 /\ Decision(s, e.target).next.pulseActive
      BY <3>1 DEF Pulse, Commands, Snapshots
    <3>2. ASSUME NEW n \in {s, [s EXCEPT !.target = e.target]}, Decision(s, e.target) = NoChange(n)
          PROVE  /\ Decision(s, e.target).command = "None"
                 /\ Decision(s, e.target).next.pulseActive <=> s.pulseActive
      BY <3>2, <2>8 DEF NoChange, Reply, Snapshots
    <3>3. \/ /\ Reduce(s, e).command # "None"
             /\ Reduce(s, e).next.pulseActive
          \/ /\ Reduce(s, e).command = "None"
             /\ Reduce(s, e).next.pulseActive <=> s.pulseActive
      BY <3>1, <3>2, <2>3, <2>6, <2>9, <2>13
    <3> QED
      BY <3>3, <1>2, <2>10, <2>13 DEF RequestTypes
  <2> QED
    BY <1>2, <2>11, <2>12, <2>13 DEF RequestTypes
<1>3. CASE e.type \in {"ObservationChanged", "DecoderObstructed", "DecoderHealthy",
                     "PulseCompleted", "ObstructionAcknowledged", "DecoderFault",
                     "ExternalStopped"}
  BY <1>3 DEF Reduce, OnObservationChanged, OnDecoderHealthy, OnObstructionAcknowledged,
     OnDecoderFault, OnExternalStopped, Quiet, Timed, Snapshots, RequestTypes
<1>4. CASE e.type = "ObservationStable"
  <2> DEFINE seen == [s EXCEPT !.pending = e.observation, !.stable = e.observation,
                               !.valid = TRUE]
  <2>1. seen.pulseActive = s.pulseActive /\ seen \in Snapshots
    BY <1>0 DEF Snapshots
  <2> HIDE DEF seen
  <2>2. /\ AtEndpoint(seen, "Open").pulseActive = s.pulseActive
        /\ AtEndpoint(seen, "Closed").pulseActive = s.pulseActive
        /\ Contradicted(seen).pulseActive = s.pulseActive
        /\ Uncontradicted(seen).pulseActive = s.pulseActive
    BY <2>1 DEF AtEndpoint, Contradicted, Uncontradicted, Snapshots
  <2>3. \E n \in {AtEndpoint(seen, "Open"), AtEndpoint(seen, "Closed"), Contradicted(seen),
                  Uncontradicted(seen), seen}, cancel \in BOOLEAN :
          Reduce(s, e) = Timed(n, {}, cancel)
    <3>1. CASE e.observation \in Endpoints \cup {"Contradictory"}
      BY <1>4, <3>1 DEF Reduce, OnObservationStable, Endpoints, seen
    <3>2. CASE e.observation \notin Endpoints \cup {"Contradictory"}
      BY <1>4, <3>2 DEF Reduce, OnObservationStable, Quiet, Endpoints, seen
    <3> QED
      BY <3>1, <3>2
  <2> QED
    BY <1>4, <2>1, <2>2, <2>3 DEF Timed, Snapshots
<1>5. CASE e.type \in {"ExternalOpening", "ExternalClosing"}
  BY <1>5 DEF Reduce, OnExternalMovement, Moving, Timed, Snapshots
<1>6. CASE e.type \in {"OpeningTimerExpired", "ClosingTimerExpired"}
  BY <1>6 DEF Reduce, OnTravelTimer, Quiet, Timed, Snapshots
<1> QED
  BY <1>0, <1>1, <1>2, <1>3, <1>4, <1>5, <1>6
     DEF EventTypes, RequestTypes, FeedbackTypes, ExternalTypes, DecoderTypes, TimerTypes

ExpiryType(dir) == IF dir = "Opening" THEN "OpeningTimerExpired" ELSE "ClosingTimerExpired"

\* What reduce() does about travel: it starts one and its deadline, it ends all
\* and cancels, it ends the one whose time is up, or it leaves travel alone.
LEMMA ReduceTravel ==
  ASSUME NEW s \in Snapshots, NEW e \in Events
  PROVE  \/ /\ Reduce(s, e).next.state \in Directions
            /\ Reduce(s, e).start = {Reduce(s, e).next.state}
         \/ /\ Reduce(s, e).cancel
            /\ Reduce(s, e).start \cap Directions = {}
            /\ Reduce(s, e).next.state \notin Directions
         \/ /\ ~Reduce(s, e).cancel
            /\ Reduce(s, e).start = {}
            /\ s.state \in Directions /\ e.type = ExpiryType(s.state)
            /\ Reduce(s, e).next.state \notin Directions
         \/ /\ ~Reduce(s, e).cancel
            /\ Reduce(s, e).start \cap Directions = {}
            /\ Reduce(s, e).next.state = s.state
            /\ s.state \in Directions => e.type # ExpiryType(s.state)
<1>0. e.type \in EventTypes /\ e.target \in Targets /\ e.observation \in Observations
  BY DEF Events
<1> DEFINE Starts(tr)  == tr.next.state \in Directions /\ tr.start = {tr.next.state}
           Cancels(tr) == tr.cancel /\ tr.start \cap Directions = {}
                            /\ tr.next.state \notin Directions
           Leaves(tr)  == ~tr.cancel /\ tr.start \cap Directions = {}
                            /\ tr.next.state = s.state
<1>1. CASE e.type = "Boot"
  BY <1>1 DEF Reduce, OnBoot, Timed, InitialSnapshot, Directions
<1>2. CASE e.type = "TargetRequested"
  <2>1. ASSUME NEW start, NEW cancel, NEW c
        PROVE  /\ Pulse(Moving(s, e.target), c, start, cancel).start = start
               /\ Pulse(Moving(s, e.target), c, start, cancel).next.state = Toward(e.target)
    BY DEF Pulse, Moving, Snapshots
  <2>2. Toward(e.target) \in Directions
    BY DEF Toward, Directions
  <2>3. ASSUME NEW n \in {s, [s EXCEPT !.target = e.target]}
        PROVE  Leaves(NoChange(n)) /\ Leaves(Pulse(n, "Step", {}, FALSE))
    BY DEF NoChange, Reply, Pulse, Snapshots
  <2>4. ASSUME s.state \in Directions
        PROVE  Cancels(Pulse(Paused(s, s.state), "Step", {}, TRUE))
    BY <2>4 DEF Paused, Pausing, Pulse, Snapshots, Directions
  <2>5. \/ Starts(SequentialDecision(s, e.target))
        \/ Cancels(SequentialDecision(s, e.target))
        \/ Leaves(SequentialDecision(s, e.target))
    <3>1. CASE s.state \in {Opposite(e.target), Pausing(Toward(Opposite(e.target)))}
      <4>1. SequentialDecision(s, e.target)
              = Pulse(Moving(s, e.target), "Step", {Toward(e.target)}, FALSE)
        BY <1>0, <3>1 DEF SequentialDecision, Toward, Opposite, Pausing, Targets
      <4>2. Starts(Pulse(Moving(s, e.target), "Step", {Toward(e.target)}, FALSE))
        BY <2>2 DEF Pulse, Moving, Snapshots
      <4> QED
        BY <4>1, <4>2
    <3>2. CASE s.state = Toward(Opposite(e.target))
      <4>1. SequentialDecision(s, e.target) = Pulse(Paused(s, s.state), "Step", {}, TRUE)
        BY <1>0, <3>2 DEF SequentialDecision, Toward, Opposite, Pausing, Targets
      <4>2. s.state \in Directions
        BY <3>2 DEF Toward, Directions
      <4> QED
        BY <4>1, <4>2, <2>4
    <3>3. CASE /\ s.state \notin {Opposite(e.target), Pausing(Toward(Opposite(e.target)))}
               /\ s.state # Toward(Opposite(e.target))
      BY <3>3, <2>3 DEF SequentialDecision
    <3> QED
      BY <3>1, <3>2, <3>3
  <2>6. Starts(DirectionalDecision(s, e.target)) \/ Leaves(DirectionalDecision(s, e.target))
    BY <2>1, <2>2, <2>3 DEF DirectionalDecision
  <2>7. Reduce(s, e) \in {Rejected(s), SequentialDecision(s, e.target),
                         DirectionalDecision(s, e.target)}
    BY <1>2 DEF Reduce, OnTargetRequested, Decision
  <2>8. Leaves(Rejected(s))
    BY DEF Rejected, Reply
  <2> QED
    BY <1>2, <2>5, <2>6, <2>7, <2>8 DEF ExpiryType
<1>3. CASE e.type = "MaintenancePulseRequested"
  BY <1>3 DEF Reduce, OnMaintenancePulse, Rejected, Reply, Pulse, Snapshots, ExpiryType
<1>4. CASE e.type \in {"ObservationChanged", "DecoderObstructed", "DecoderHealthy",
                     "PulseCompleted", "ObstructionAcknowledged"}
  BY <1>4, ZenonT(60) DEF Reduce, OnObservationChanged, OnDecoderHealthy, OnObstructionAcknowledged,
     Quiet, Timed, Snapshots, Directions, ExpiryType
<1>5. CASE e.type = "ObservationStable"
  <2> DEFINE seen == [s EXCEPT !.pending = e.observation, !.stable = e.observation,
                               !.valid = TRUE]
  <2>1. /\ seen.state = s.state /\ seen \in Snapshots
    BY <1>0 DEF Snapshots
  <2> HIDE DEF seen
  <2>2. /\ AtEndpoint(seen, "Open").state \notin Directions
        /\ AtEndpoint(seen, "Closed").state \notin Directions
        /\ Contradicted(seen).state \notin Directions
        /\ Uncontradicted(seen).state \notin Directions
    BY <2>1 DEF AtEndpoint, Contradicted, Uncontradicted, StoppedAfter, Pausing, Snapshots,
       Directions
  <2>3. \/ \E n \in {AtEndpoint(seen, "Open"), AtEndpoint(seen, "Closed"), Contradicted(seen),
                     Uncontradicted(seen)} : Reduce(s, e) = Timed(n, {}, TRUE)
        \/ Reduce(s, e) = Timed(seen, {}, FALSE)
    <3>1. CASE e.observation \in Endpoints \cup {"Contradictory"}
      BY <1>5, <3>1 DEF Reduce, OnObservationStable, Endpoints, seen
    <3>2. CASE e.observation \notin Endpoints \cup {"Contradictory"}
      BY <1>5, <3>2 DEF Reduce, OnObservationStable, Quiet, Endpoints, seen
    <3> QED
      BY <3>1, <3>2
  <2> QED
    BY <1>5, <2>1, <2>2, <2>3 DEF Timed, ExpiryType
<1>6. CASE e.type \in {"ExternalOpening", "ExternalClosing"}
  BY <1>6, ZenonT(60) DEF Reduce, OnExternalMovement, Moving, Toward, Timed, Snapshots, Directions
<1>7. CASE e.type \in {"ExternalStopped", "DecoderFault"}
  BY <1>7, ZenonT(60) DEF Reduce, OnExternalStopped, OnDecoderFault, StoppedAfter, Pausing, Timed,
     Snapshots, Directions
<1>8. CASE e.type \in {"OpeningTimerExpired", "ClosingTimerExpired"}
  BY <1>8, ZenonT(60) DEF Reduce, OnTravelTimer, Pausing, Quiet, Timed, Snapshots, Directions, ExpiryType
<1> QED
  BY <1>0, <1>1, <1>2, <1>3, <1>4, <1>5, <1>6, <1>7, <1>8
     DEF EventTypes, RequestTypes, FeedbackTypes, ExternalTypes, DecoderTypes, TimerTypes

(***************************************************************************)
(* Part two: the runtime.                                                  *)
(***************************************************************************)
-----------------------------------------------------------------------------
(* Turns.                                                                  *)

DecodedTypes == {"ObservationStable"} \cup ExternalTypes \cup DecoderTypes

LEMMA EventTyped ==
  /\ \A type \in EventTypes : Event(type) \in Events /\ Event(type).type = type
  /\ \A type \in EventTypes, o \in Observations :
       ObservationEvent(type, o) \in Events /\ ObservationEvent(type, o).type = type
  /\ \A target \in Targets :
       TargetEvent(target) \in Events /\ TargetEvent(target).type = "TargetRequested"
BY DEF Event, ObservationEvent, TargetEvent, Events, EventTypes, RequestTypes, Targets,
   Observations

\* The decoder's events can only follow in a turn: they are no requests, no
\* expiries and no boot.
LEMMA DecodedTurn ==
  ASSUME NEW r \in DecoderEvents
  PROVE  r \in Seq(Events) /\ \A i \in 1..Len(r) : r[i].type \in DecodedTypes
<1> DEFINE Decoded == {e \in Events : e.type \in DecodedTypes}
<1>1. /\ \A type \in ExternalTypes \cup DecoderTypes : Event(type) \in Decoded
      /\ \A o \in Endpoints : ObservationEvent("ObservationStable", o) \in Decoded
  BY EventTyped, ZenonT(60) DEF DecodedTypes, EventTypes, FeedbackTypes, ExternalTypes, DecoderTypes,
     Observations
<1> HIDE DEF Decoded
<1>2. /\ <<>> \in Seq(Decoded)
      /\ \A e \in Decoded : <<e>> \in Seq(Decoded)
  OBVIOUS
<1>3. r \in Seq(Decoded)
  <2>1. CASE r \in {<<>>, <<Event("DecoderFault")>>}
    BY <2>1, <1>1, <1>2 DEF DecoderTypes
  <2>2. ASSUME NEW c \in ChannelEvents, NEW h \in HealthEvents, r = c \o h
        PROVE  r \in Seq(Decoded)
    <3>1. c \in Seq(Decoded) /\ h \in Seq(Decoded)
      BY <2>2, <1>1, <1>2 DEF ChannelEvents, HealthEvents, DecoderTypes
    <3> QED
      BY <2>2, <3>1, ConcatProperties
  <2>3. \/ r \in {<<>>, <<Event("DecoderFault")>>}
        \/ \E c \in ChannelEvents, h \in HealthEvents : r = c \o h
    BY DEF DecoderEvents
  <2> QED
    BY <2>1, <2>2, <2>3
<1>4. r \in Seq(Events)
  BY <1>3, SeqMonotonic DEF Decoded
<1>5. \A i \in 1..Len(r) : r[i] \in Decoded
  BY <1>3, ElementOfSeq
<1> QED
  BY <1>4, <1>5 DEF Decoded

\* The events of a turn: one of any kind, then only what the decoder adds.
Turns == {t \in Seq(Events) : \A i \in 2..Len(t) : t[i].type \in DecodedTypes}

LEMMA TurnShapes ==
  /\ \A e \in Events : <<e>> \in Turns /\ <<e>> # <<>> /\ Head(<<e>>) = e
  /\ \A r \in DecoderEvents :
       /\ r \in Turns
       /\ <<Event("Boot")>> \o r \in Turns
       /\ <<Event("Boot")>> \o r # <<>> /\ Head(<<Event("Boot")>> \o r) = Event("Boot")
       /\ r # <<>> => Head(r).type \in DecodedTypes
<1>1. ASSUME NEW e \in Events
      PROVE  <<e>> \in Turns /\ <<e>> # <<>> /\ Head(<<e>>) = e
  BY DEF Turns
<1>2. ASSUME NEW r \in DecoderEvents
      PROVE  /\ r \in Turns
             /\ <<Event("Boot")>> \o r \in Turns
             /\ <<Event("Boot")>> \o r # <<>> /\ Head(<<Event("Boot")>> \o r) = Event("Boot")
             /\ r # <<>> => Head(r).type \in DecodedTypes
  <2>1. r \in Seq(Events) /\ \A i \in 1..Len(r) : r[i].type \in DecodedTypes
    BY DecodedTurn
  <2>2. <<Event("Boot")>> \in Seq(Events) /\ Len(<<Event("Boot")>>) = 1
    BY EventTyped DEF EventTypes
  <2> DEFINE t == <<Event("Boot")>> \o r
  <2>3. /\ t \in Seq(Events) /\ Len(t) = 1 + Len(r)
        /\ \A i \in 1..(1 + Len(r)) : t[i] = IF i <= 1 THEN <<Event("Boot")>>[i] ELSE r[i - 1]
    BY <2>1, <2>2, ConcatProperties
  <2>4. Len(r) \in Nat
    BY <2>1, LenProperties
  <2> HIDE DEF t
  <2>5. t # <<>> /\ Head(t) = Event("Boot")
    BY <2>3, <2>4, <2>2, EmptySeq
  <2>6. \A i \in 2..Len(t) : t[i].type \in DecodedTypes
    BY <2>1, <2>3, <2>4
  <2>7. r # <<>> => Head(r).type \in DecodedTypes
    BY <2>1, <2>4, EmptySeq
  <2>8. r \in Turns
    BY <2>1, <2>4 DEF Turns
  <2>9. t \in Turns
    BY <2>3, <2>6 DEF Turns
  <2> QED
    BY <2>5, <2>7, <2>8, <2>9 DEF t
<1> QED
  BY <1>1, <1>2

-----------------------------------------------------------------------------
(* What the actions share.                                                 *)

\* A step of another task that leaves the controller's state alone, lowers
\* outputs at most and queues only requests and feedback keeps the invariant.
LEMMA Bystander ==
  ASSUME RuntimeInv, TypeOK',
         UNCHANGED <<snap, armed, busy, pc, todo>>,
         driven' # {} => driven # {},
         \A i \in DOMAIN queue' : queue'[i].event.type \in QueuedTypes
  PROVE  RuntimeInv'
<1>1. TurnOK' /\ PulseOK'
  BY DEF RuntimeInv, TurnOK, PulseOK, Reduction
<1>2. (Supervised(snap, armed \cup Due) /\ armed \cap Due = {} /\ MotionCoherent)'
  BY DEF RuntimeInv, Supervised, Due, MotionCoherent, Coherent
<1> QED
  BY <1>1, <1>2 DEF RuntimeInv

\* The deadlines of a committed transition are deadlines.
LEMMA RearmedType ==
  ASSUME NEW tr \in Transitions, NEW deadlines \in SUBSET Deadlines
  PROVE  Rearmed(deadlines, tr) \in SUBSET Deadlines
BY DEF Rearmed, Transitions, Deadlines, Timers, Directions

\* Committing keeps the pulse deadline as it is.
LEMMA RearmedPulse ==
  ASSUME NEW tr \in Transitions, NEW deadlines \in SUBSET Deadlines
  PROVE  "Pulse" \in Rearmed(deadlines, tr) <=> "Pulse" \in deadlines
BY DEF Rearmed, Transitions, Timers, Directions

ExpiredBy(e) ==
  CASE e.type = "OpeningTimerExpired" -> {"Opening"}
    [] e.type = "ClosingTimerExpired" -> {"Closing"}
    [] OTHER -> {}

\* Committing what reduce() proposes keeps every travel supervised: the deadline
\* whose event is being applied counts as armed until then.
LEMMA SupervisionKept ==
  ASSUME NEW s \in Snapshots, NEW e \in Events, NEW deadlines \in SUBSET Deadlines,
         Supervised(s, deadlines \cup ExpiredBy(e)), deadlines \cap ExpiredBy(e) = {}
  PROVE  Supervised(Reduce(s, e).next, Rearmed(deadlines, Reduce(s, e)))
<1> DEFINE tr == Reduce(s, e)
<1>1. tr \in Transitions
  BY ReduceType
<1>2. \/ tr.next.state \in Directions /\ tr.start = {tr.next.state}
      \/ tr.cancel /\ tr.start \cap Directions = {} /\ tr.next.state \notin Directions
      \/ /\ ~tr.cancel /\ tr.start = {} /\ tr.next.state \notin Directions
         /\ s.state \in Directions /\ e.type = ExpiryType(s.state)
      \/ /\ ~tr.cancel /\ tr.start \cap Directions = {} /\ tr.next.state = s.state
         /\ s.state \in Directions => e.type # ExpiryType(s.state)
  BY ReduceTravel
<1>3. SUFFICES Supervised(tr.next, Rearmed(deadlines, tr))
  OBVIOUS
<1> HIDE DEF tr
<1> DEFINE kept == IF tr.cancel THEN deadlines \ Timers ELSE deadlines
<1>4. \A dir \in Directions :
        dir \in Rearmed(deadlines, tr)
          <=> IF tr.start \cap Directions = {} THEN dir \in kept ELSE dir \in tr.start
  BY DEF Rearmed
<1>5. CASE tr.next.state \in Directions /\ tr.start = {tr.next.state}
  BY <1>4, <1>5 DEF Supervised
<1>6. CASE tr.cancel /\ tr.start \cap Directions = {} /\ tr.next.state \notin Directions
  BY <1>4, <1>6 DEF Supervised, Timers
<1>7. CASE /\ ~tr.cancel /\ tr.start = {} /\ tr.next.state \notin Directions
           /\ s.state \in Directions /\ e.type = ExpiryType(s.state)
  <2>1. ExpiredBy(e) = {s.state}
    BY <1>7 DEF ExpiryType, ExpiredBy, Directions
  <2>2. \A dir \in Directions : dir \notin deadlines
    BY <2>1 DEF Supervised
  <2> QED
    BY <1>4, <1>7, <2>2 DEF Supervised
<1>8. CASE /\ ~tr.cancel /\ tr.start \cap Directions = {} /\ tr.next.state = s.state
           /\ s.state \in Directions => e.type # ExpiryType(s.state)
  <2>1. \A dir \in Directions : dir \in ExpiredBy(e) => dir = s.state /\ e.type = ExpiryType(dir)
    BY DEF Supervised, ExpiredBy, ExpiryType, Directions
  <2>2. \A dir \in Directions : dir \notin ExpiredBy(e)
    BY <1>8, <2>1
  <2>3. \A dir \in Directions : (s.state = dir) <=> (dir \in deadlines)
    BY <2>2 DEF Supervised
  <2> QED
    BY <1>4, <1>8, <2>3 DEF Supervised
<1> QED
  BY <1>2, <1>5, <1>6, <1>7, <1>8 DEF tr

\* Applying the event at the head of a turn, with what it proposes committed.
LEMMA Applied ==
  ASSUME RuntimeInv, TypeOK', NEW result, pc \in {"applying", "driven"},
         Commit(Reduction), Done(result),
         pc = "applying" => Reduction.command = "None",
         busy' = busy, driven' = driven, queue' = queue
  PROVE  RuntimeInv'
<1> DEFINE e == Head(todo)
<1>1. /\ snap \in Snapshots /\ todo \in Seq(Events) /\ todo # <<>>
      /\ armed \in SUBSET Deadlines
  BY DEF RuntimeInv, TypeOK, TurnOK
<1>2. e \in Events /\ Reduction \in Transitions
  BY <1>1, HeadTailProperties, ReduceType DEF Reduction
<1>3. /\ todo' = Tail(todo) /\ Tail(todo) \in Seq(Events)
      /\ Len(Tail(todo)) = Len(todo) - 1 /\ Len(todo) \in Nat
      /\ \A i \in 1..Len(Tail(todo)) : Tail(todo)[i] = todo[i + 1]
  BY <1>1, HeadTailProperties, LenProperties DEF Done
<1>4. pc' = IF todo' = <<>> THEN "ready" ELSE "applying"
  BY DEF Done
<1>5. \A i \in 1..Len(todo') : todo'[i].type \in DecodedTypes
  BY <1>3 DEF RuntimeInv, TurnOK, DecodedTypes
<1>6. todo' # <<>> => Head(todo').type \in DecodedTypes
  BY <1>3, <1>5, EmptySeq
<1>7. TurnOK'
  BY <1>3, <1>4, <1>5 DEF RuntimeInv, TurnOK, DecodedTypes
<1>8. snap' = Reduction.next /\ armed' = Rearmed(armed, Reduction)
  BY DEF Commit
<1>9. Due = ExpiredBy(e)
  <2>1. CASE pc = "applying"
    BY <2>1 DEF Due, ExpiredBy
  <2>2. CASE pc = "driven"
    <3>1. e.type \in RequestTypes
      BY <1>1, <1>2, <2>2, ReducePulse DEF RuntimeInv, TurnOK, Reduction
    <3> QED
      BY <2>2, <3>1 DEF Due, ExpiredBy, RequestTypes
  <2> QED
    BY <2>1, <2>2
<1>10. Due' = {}
  BY <1>4, <1>6 DEF Due, DecodedTypes, ExternalTypes, DecoderTypes
<1>11. (Supervised(snap, armed \cup Due) /\ armed \cap Due = {})'
  <2>1. Supervised(Reduction.next, Rearmed(armed, Reduction))
    BY <1>1, <1>2, <1>9, SupervisionKept DEF RuntimeInv, Reduction
  <2> QED
    BY <2>1, <1>8, <1>10 DEF Supervised
<1>12. MotionCoherent'
  <2>1. Coherent(Reduction.next)
    BY <1>1, <1>2, ReduceCoherent DEF RuntimeInv, MotionCoherent, Reduction
  <2> QED
    BY <2>1, <1>8 DEF MotionCoherent, Coherent
<1>13. snap'.pulseActive <=> busy'
  <2>1. CASE pc = "driven"
    BY <2>1, <1>1, <1>2, <1>8, ReducePulse DEF RuntimeInv, TurnOK, PulseOK, Reduction
  <2>2. CASE pc = "applying"
    BY <2>2, <1>1, <1>2, <1>8, ReducePulse DEF RuntimeInv, PulseOK, Reduction
  <2> QED
    BY <2>1, <2>2
<1>14. "Pulse" \in armed' <=> busy'
  BY <1>1, <1>2, <1>8, RearmedPulse DEF RuntimeInv, PulseOK
<1>15. PulseOK'
  BY <1>4, <1>6, <1>13, <1>14 DEF RuntimeInv, PulseOK, DecodedTypes, ExternalTypes,
     DecoderTypes
<1> QED
  BY <1>7, <1>11, <1>12, <1>15 DEF RuntimeInv
-----------------------------------------------------------------------------
(* Taking a turn.                                                          *)

LEMMA TurnTyped ==
  ASSUME TypeOK, NEW events \in Turns, NEW caller \in Callers \cup {NoCaller},
         NEW wanted \in BOOLEAN, TakeTurn(events, caller, wanted),
         armed' \subseteq Deadlines, busy' \in BOOLEAN,
         command' \in Commands \cup {"None"}, driven' \subseteq Commands,
         queue' \in Seq(Messages), Len(queue') <= QueueLength,
         UNCHANGED <<snap, spaced, callerVars, upkeepVars, feedbackVars>>
  PROVE  TypeOK'
BY DEF TypeOK, TakeTurn, Turns, callerVars, upkeepVars, feedbackVars

LEMMA TurnTaken ==
  ASSUME RuntimeInv, NEW events \in Turns, NEW caller, NEW wanted,
         TakeTurn(events, caller, wanted), snap' = snap,
         \A i \in DOMAIN queue' : queue'[i].event.type \in QueuedTypes
  PROVE  TurnOK' /\ MotionCoherent'
<1>1. TurnOK'
  BY DEF TurnOK, TakeTurn, Turns, DecodedTypes
<1>2. MotionCoherent'
  BY DEF RuntimeInv, MotionCoherent, Coherent
<1> QED
  BY <1>1, <1>2

\* A turn that begins with a request, feedback or decoder event, or has none.
LEMMA PlainTurn ==
  ASSUME RuntimeInv, TypeOK', pc = "ready", NEW events \in Turns, NEW caller, NEW wanted,
         TakeTurn(events, caller, wanted), UNCHANGED <<snap, armed, busy, driven>>,
         events # <<>> => Head(events).type \in QueuedTypes \cup DecodedTypes,
         \A i \in DOMAIN queue' : queue'[i].event.type \in QueuedTypes
  PROVE  RuntimeInv'
<1>1. TurnOK' /\ MotionCoherent'
  BY TurnTaken
<1>2. todo' = events /\ pc' = IF events = <<>> THEN "ready" ELSE "applying"
  BY DEF TakeTurn
<1>3. events # <<>> => Head(events).type \notin {"Boot"} \cup TimerTypes
  BY DEF QueuedTypes, DecodedTypes, RequestTypes, ExternalTypes, DecoderTypes, TimerTypes
<1>4. PulseOK'
  BY <1>2, <1>3 DEF RuntimeInv, PulseOK, TimerTypes
<1>5. Due = {} /\ Due' = {}
  BY <1>2, <1>3 DEF Due, TimerTypes
<1>6. (Supervised(snap, armed \cup Due) /\ armed \cap Due = {})'
  BY <1>5 DEF RuntimeInv, Supervised
<1> QED
  BY <1>1, <1>4, <1>6 DEF RuntimeInv

LEMMA BootKept ==
  ASSUME RuntimeInv, ControllerBoot
  PROVE  RuntimeInv'
<1>1. PICK events \in Turns :
        /\ events # <<>> /\ Head(events).type = "Boot"
        /\ TakeTurn(events, NoCaller, FALSE)
  <2>1. CASE CustomRules
    BY <2>1, TurnShapes, EventTyped DEF ControllerBoot, EventTypes
  <2>2. CASE ~CustomRules
    <3> DEFINE o == NormalizeFeedback(Topology, AssertedEnd, asserted)
    <3>1. o \in Observations
      BY RuntimeAssumption DEF NormalizeFeedback, Observations, Endpoints
    <3>2. ObservationEvent("Boot", o) \in Events /\ ObservationEvent("Boot", o).type = "Boot"
      BY <3>1, EventTyped DEF EventTypes
    <3> QED
      BY <2>2, <3>2, TurnShapes DEF ControllerBoot
  <2> QED
    BY <2>1, <2>2
<1>2. /\ UNCHANGED <<snap, armed, busy, spaced, command, driven, queue>>
      /\ UNCHANGED <<callerVars, upkeepVars, feedbackVars>>
      /\ pc = "boot"
  BY DEF ControllerBoot, outputVars
<1>3. TypeOK'
  BY <1>1, <1>2, TurnTyped DEF RuntimeInv, TypeOK
<1>4. TurnOK' /\ MotionCoherent'
  BY <1>1, <1>2, TurnTaken DEF RuntimeInv, TurnOK
<1>5. todo' = events /\ pc' = "applying"
  BY <1>1 DEF TakeTurn
<1>6. PulseOK'
  BY <1>1, <1>2, <1>5 DEF RuntimeInv, PulseOK
<1>7. Due = {} /\ Due' = {}
  BY <1>1, <1>2, <1>5 DEF Due
<1>8. (Supervised(snap, armed \cup Due) /\ armed \cap Due = {})'
  BY <1>2, <1>7 DEF RuntimeInv, Supervised
<1> QED
  BY <1>3, <1>4, <1>6, <1>8 DEF RuntimeInv

LEMMA ExpirePulseKept ==
  ASSUME RuntimeInv, ExpirePulse
  PROVE  RuntimeInv'
<1> DEFINE e == Event("PulseCompleted")
<1>1. e \in Events /\ e.type = "PulseCompleted" /\ <<e>> \in Turns /\ Head(<<e>>) = e
  BY EventTyped, TurnShapes DEF EventTypes, TimerTypes
<1>2. /\ UNCHANGED <<snap, spaced, callerVars, upkeepVars, feedbackVars, queue>>
      /\ pc = "ready" /\ armed' = armed \ {"Pulse"} /\ ~busy' /\ busy' \in BOOLEAN
      /\ command' = "None" /\ driven' = {} /\ TakeTurn(<<e>>, NoCaller, FALSE)
  BY DEF ExpirePulse
<1> HIDE DEF e
<1>3. TypeOK'
  BY <1>1, <1>2, TurnTyped DEF RuntimeInv, TypeOK
<1>4. TurnOK' /\ MotionCoherent'
  BY <1>1, <1>2, TurnTaken DEF RuntimeInv, TurnOK
<1>5. todo' = <<e>> /\ pc' = "applying"
  BY <1>2, TurnShapes, <1>1 DEF TakeTurn
<1>6. PulseOK'
  BY <1>1, <1>2, <1>5 DEF RuntimeInv, PulseOK
<1>7. Due = {} /\ Due' = {}
  BY <1>1, <1>2, <1>5 DEF Due
<1>8. (Supervised(snap, armed \cup Due) /\ armed \cap Due = {})'
  BY <1>2, <1>7 DEF RuntimeInv, Supervised, Directions
<1> QED
  BY <1>3, <1>4, <1>6, <1>8 DEF RuntimeInv

LEMMA ExpireKept ==
  ASSUME RuntimeInv, NEW timer \in Timers, Expire(timer)
  PROVE  RuntimeInv'
<1> DEFINE e == ExpiryEvent(timer)
<1>1. /\ e \in Events
      /\ timer \in Directions => e.type = ExpiryType(timer)
      /\ timer = "Stability" => e.type = "ObservationStable"
  <2>1. snap.pending \in Observations
    BY DEF RuntimeInv, TypeOK, Snapshots
  <2>2. {"OpeningTimerExpired", "ClosingTimerExpired", "ObservationStable"} \subseteq EventTypes
    BY DEF EventTypes, TimerTypes, FeedbackTypes
  <2>3. CASE timer = "Opening"
    BY <2>2, <2>3, EventTyped DEF ExpiryEvent, ExpiryType
  <2>4. CASE timer = "Closing"
    BY <2>2, <2>4, EventTyped DEF ExpiryEvent, ExpiryType
  <2>5. CASE timer = "Stability"
    BY <2>1, <2>2, <2>5, EventTyped DEF ExpiryEvent, Directions
  <2> QED
    BY <2>3, <2>4, <2>5 DEF Timers, Directions
<1>2. /\ UNCHANGED <<snap, busy, spaced, command, driven, queue>>
      /\ UNCHANGED <<callerVars, upkeepVars, feedbackVars>>
      /\ pc = "ready" /\ timer \in armed /\ armed' = armed \ {timer}
      /\ TakeTurn(<<e>>, NoCaller, FALSE)
  BY DEF Expire, outputVars
<1> HIDE DEF e
<1>3. <<e>> \in Turns /\ <<e>> # <<>> /\ Head(<<e>>) = e
  BY <1>1, TurnShapes
<1>4. TypeOK'
  BY <1>2, <1>3, TurnTyped DEF RuntimeInv, TypeOK
<1>5. TurnOK' /\ MotionCoherent'
  BY <1>2, <1>3, TurnTaken DEF RuntimeInv, TurnOK
<1>6. todo' = <<e>> /\ pc' = "applying"
  BY <1>2, <1>3 DEF TakeTurn
<1>7. e.type # "PulseCompleted" /\ e.type # "Boot"
  BY <1>1 DEF Timers, Directions, ExpiryType
<1>8. PulseOK'
  BY <1>2, <1>3, <1>6, <1>7 DEF RuntimeInv, PulseOK, Timers, Directions
<1>9. Due = {} /\ Due' = {timer} \cap Directions
  BY <1>1, <1>2, <1>3, <1>6 DEF Due, Timers, Directions, ExpiryType
<1>10. (Supervised(snap, armed \cup Due) /\ armed \cap Due = {})'
  BY <1>2, <1>9 DEF RuntimeInv, Supervised
<1> QED
  BY <1>4, <1>5, <1>8, <1>10 DEF RuntimeInv

LEMMA DecoderWakeKept ==
  ASSUME RuntimeInv, DecoderWake
  PROVE  RuntimeInv'
<1>1. PICK r \in DecoderEvents : TakeTurn(r, NoCaller, FALSE)
  BY DEF DecoderWake
<1>2. r \in Turns /\ (r # <<>> => Head(r).type \in DecodedTypes)
  BY TurnShapes
<1>3. TypeOK'
  BY <1>1, <1>2, TurnTyped DEF RuntimeInv, TypeOK, DecoderWake, outputVars
<1> QED
  BY <1>1, <1>2, <1>3, PlainTurn DEF RuntimeInv, TurnOK, DecoderWake, outputVars

LEMMA ReceiveKept ==
  ASSUME RuntimeInv, Receive
  PROVE  RuntimeInv'
<1> DEFINE m == Head(queue)
<1>1. queue \in Seq(Messages) /\ queue # <<>> /\ Len(queue) \in Nat
  BY LenProperties DEF RuntimeInv, TypeOK, Receive
<1>2. /\ m \in Messages /\ m = queue[1] /\ 1 \in DOMAIN queue
      /\ queue' = Tail(queue) /\ Tail(queue) \in Seq(Messages)
      /\ Len(Tail(queue)) = Len(queue) - 1
      /\ \A i \in 1..Len(Tail(queue)) : Tail(queue)[i] = queue[i + 1]
  BY <1>1, HeadTailProperties, LenProperties, EmptySeq DEF Receive
<1> HIDE DEF m
<1>3. PICK events \in Turns :
        /\ TakeTurn(events, m.asker, m.awaited)
        /\ events # <<>> => Head(events).type \in QueuedTypes \cup DecodedTypes
  <2>1. CASE m.sample
    BY <2>1, TurnShapes DEF Receive, m
  <2>2. CASE ~m.sample
    <3>1. m.event \in Events /\ m.event.type \in QueuedTypes
      BY <1>2 DEF RuntimeInv, TurnOK, Messages
    <3> QED
      BY <2>2, <3>1, TurnShapes DEF Receive, m
  <2> QED
    BY <2>1, <2>2
<1>4. \A i \in DOMAIN queue' : queue'[i].event.type \in QueuedTypes
  BY <1>1, <1>2, LenProperties DEF RuntimeInv, TurnOK
<1>5. Len(queue') <= QueueLength
  BY <1>1, <1>2, RuntimeAssumption DEF RuntimeInv, TypeOK
<1>6. TypeOK'
  <2>1. m.asker \in Callers \cup {NoCaller} /\ m.awaited \in BOOLEAN
    BY <1>2 DEF Messages
  <2>2. queue' \in Seq(Messages)
    BY <1>2
  <2>3. UNCHANGED <<snap, armed, busy, spaced, command, driven, callerVars, upkeepVars,
                    feedbackVars>>
    BY DEF Receive, outputVars
  <2>4. /\ armed' \subseteq Deadlines /\ busy' \in BOOLEAN
        /\ command' \in Commands \cup {"None"} /\ driven' \subseteq Commands
    BY <2>3 DEF RuntimeInv, TypeOK
  <2> QED
    BY <1>3, <1>5, <2>1, <2>2, <2>3, <2>4, TurnTyped DEF RuntimeInv
<1> QED
  BY <1>3, <1>4, <1>6, PlainTurn DEF Receive, outputVars

-----------------------------------------------------------------------------
(* Carrying a turn on.                                                     *)

LEMMA DoneTyped ==
  ASSUME TypeOK, todo # <<>>, NEW result \in Results, Done(result),
         snap' \in Snapshots, armed' \subseteq Deadlines,
         command' \in Commands \cup {"None"}, driven' \subseteq Commands,
         UNCHANGED <<busy, spaced, loc, upkeepVars, feedbackVars, queue>>
  PROVE  TypeOK'
<1>1. todo' \in Seq(Events) /\ pc' = IF todo' = <<>> THEN "ready" ELSE "applying"
  BY HeadTailProperties DEF TypeOK, Done
<1>2. asker' \in Callers \cup {NoCaller} /\ awaited' \in BOOLEAN /\ active' \in BOOLEAN
  BY DEF TypeOK, Done
<1>3. notify' \in [Callers -> Results \cup {"none"}]
  BY DEF TypeOK, Done
<1> QED
  BY <1>1, <1>2, <1>3 DEF TypeOK, upkeepVars, feedbackVars

LEMMA ReductionTyped ==
  ASSUME RuntimeInv, pc \in {"applying", "reserved", "driven"}
  PROVE  /\ todo # <<>> /\ Head(todo) \in Events /\ Reduction \in Transitions
         /\ Reduction.next \in Snapshots
         /\ Rearmed(armed, Reduction) \subseteq Deadlines
<1>1. todo # <<>> /\ Head(todo) \in Events /\ snap \in Snapshots /\ armed \in SUBSET Deadlines
  BY HeadTailProperties DEF RuntimeInv, TypeOK, TurnOK
<1>2. Reduction \in Transitions
  BY <1>1, ReduceType DEF Reduction
<1>3. Reduction.next \in Snapshots
  BY <1>2 DEF Transitions
<1> QED
  BY <1>1, <1>2, <1>3, RearmedType

LEMMA ApplyQuietlyKept ==
  ASSUME RuntimeInv, ApplyQuietly
  PROVE  RuntimeInv'
<1> DEFINE result == IF Reduction.result = "RejectedBusy" THEN "Busy" ELSE "Accepted"
<1>1. /\ pc = "applying" /\ Reduction.command = "None"
      /\ Commit(Reduction) /\ Done(result) /\ result \in Results
      /\ UNCHANGED <<busy, spaced, command, driven, loc, upkeepVars, feedbackVars, queue>>
  BY DEF ApplyQuietly, outputVars, Results
<1> HIDE DEF result
<1>2. TypeOK'
  BY <1>1, ReductionTyped, DoneTyped DEF RuntimeInv, TypeOK, Commit
<1> QED
  BY <1>1, <1>2, Applied

LEMMA CommitPulseKept ==
  ASSUME RuntimeInv, CommitPulse
  PROVE  RuntimeInv'
<1>1. /\ pc = "driven" /\ Commit(Reduction) /\ Done("Accepted")
      /\ UNCHANGED <<busy, spaced, command, driven, loc, upkeepVars, feedbackVars, queue>>
  BY DEF CommitPulse, outputVars
<1>2. TypeOK'
  BY <1>1, ReductionTyped, DoneTyped DEF RuntimeInv, TypeOK, Commit, Results
<1> QED
  BY <1>1, <1>2, Applied

\* A pulse that is refused, or that the outputs could not start, ends its event
\* with nothing committed.
LEMMA Dropped ==
  ASSUME RuntimeInv, TypeOK', NEW result, pc = "applying", Reduction.command # "None",
         Done(result), UNCHANGED <<snap, armed, busy, queue>>, driven' \subseteq driven
  PROVE  RuntimeInv'
<1>1. Head(todo).type \in RequestTypes
  BY ReductionTyped, ReducePulse DEF RuntimeInv, TypeOK, Reduction
<1>2. snap.pulseActive <=> busy
  BY <1>1 DEF RuntimeInv, PulseOK, RequestTypes
<1>3. /\ todo' = Tail(todo) /\ Len(todo') = Len(todo) - 1 /\ Len(todo) \in Nat
      /\ todo' \in Seq(Events)
      /\ \A i \in 1..Len(todo') : todo'[i] = todo[i + 1]
  BY ReductionTyped, HeadTailProperties, LenProperties DEF RuntimeInv, TypeOK, Done
<1>4. pc' = IF todo' = <<>> THEN "ready" ELSE "applying"
  BY DEF Done
<1>5. \A i \in 1..Len(todo') : todo'[i].type \in DecodedTypes
  BY <1>3 DEF RuntimeInv, TurnOK, DecodedTypes
<1>6. todo' # <<>> => Head(todo').type \in DecodedTypes
  BY <1>3, <1>5, EmptySeq
<1>7. TurnOK'
  BY <1>3, <1>4, <1>5 DEF RuntimeInv, TurnOK, DecodedTypes
<1>8. todo' # <<>> => Head(todo').type \notin {"Boot"} \cup TimerTypes
  BY <1>6 DEF DecodedTypes, ExternalTypes, DecoderTypes, TimerTypes
<1>9. PulseOK'
  BY <1>2, <1>4, <1>8 DEF RuntimeInv, PulseOK, TimerTypes
<1>10. Due = {} /\ Due' = {}
  BY <1>1, <1>4, <1>8 DEF Due, RequestTypes, TimerTypes
<1>11. (Supervised(snap, armed \cup Due) /\ armed \cap Due = {} /\ MotionCoherent)'
  BY <1>10 DEF RuntimeInv, Supervised, MotionCoherent, Coherent
<1> QED
  BY <1>7, <1>9, <1>11 DEF RuntimeInv

LEMMA RefusedKept ==
  ASSUME RuntimeInv, RefusePulse \/ ActivationFails
  PROVE  RuntimeInv'
<1>1. PICK result \in {"Busy", "HardwareError"} :
        /\ pc = "applying" /\ Reduction.command # "None" /\ Done(result)
        /\ UNCHANGED <<snap, armed, busy, spaced, loc, upkeepVars, feedbackVars, queue>>
        /\ driven' \subseteq driven /\ command' \in {command, "None"}
  BY DEF RefusePulse, ActivationFails, outputVars
<1>2. TypeOK'
  BY <1>1, ReductionTyped, DoneTyped DEF RuntimeInv, TypeOK, Results
<1> QED
  BY <1>1, <1>2, Dropped

LEMMA ReservePulseKept ==
  ASSUME RuntimeInv, ReservePulse
  PROVE  RuntimeInv'
<1>1. /\ pc = "applying" /\ Reduction.command # "None" /\ ~busy
      /\ command' = Reduction.command /\ driven' = {} /\ pc' = "reserved"
      /\ UNCHANGED <<snap, armed, busy, spaced, todo, asker, awaited, active, queue>>
      /\ UNCHANGED <<callerVars, upkeepVars, feedbackVars>>
  BY DEF ReservePulse, CanStart
<1>2. Reduction' = Reduction
  BY <1>1 DEF Reduction
<1>3. Head(todo).type \in RequestTypes
  BY <1>1, ReductionTyped, ReducePulse DEF RuntimeInv, TypeOK, Reduction
<1>4. TypeOK'
  BY <1>1, ReductionTyped
     DEF RuntimeInv, TypeOK, Transitions, callerVars, upkeepVars, feedbackVars
<1>5. TurnOK'
  BY <1>1, <1>2 DEF RuntimeInv, TurnOK
<1>6. PulseOK'
  BY <1>1 DEF RuntimeInv, PulseOK
<1>7. Due = {} /\ Due' = {}
  BY <1>1, <1>3 DEF Due, RequestTypes
<1>8. (Supervised(snap, armed \cup Due) /\ armed \cap Due = {} /\ MotionCoherent)'
  BY <1>1, <1>7 DEF RuntimeInv, Supervised, MotionCoherent, Coherent
<1> QED
  BY <1>4, <1>5, <1>6, <1>8 DEF RuntimeInv

LEMMA DrivePulseKept ==
  ASSUME RuntimeInv, DrivePulse
  PROVE  RuntimeInv'
<1>1. /\ pc = "reserved" /\ driven' = driven \cup {Reduction.command}
      /\ busy' = TRUE /\ spaced' = FALSE /\ armed' = armed \cup {"Pulse"} /\ pc' = "driven"
      /\ UNCHANGED <<snap, command, todo, asker, awaited, active, queue>>
      /\ UNCHANGED <<callerVars, upkeepVars, feedbackVars>>
  BY DEF DrivePulse
<1>2. Reduction' = Reduction /\ Reduction.command # "None"
  BY <1>1 DEF Reduction, RuntimeInv, TurnOK
<1>3. TypeOK'
  BY ZenonT(60), <1>1, <1>2, ReductionTyped
     DEF RuntimeInv, TypeOK, Transitions, Deadlines, callerVars, upkeepVars, feedbackVars
<1>4. TurnOK'
  BY <1>1, <1>2 DEF RuntimeInv, TurnOK
<1>5. PulseOK'
  BY <1>1 DEF RuntimeInv, PulseOK
<1>6. Due = {} /\ Due' = {}
  BY <1>1 DEF Due
<1>7. (Supervised(snap, armed \cup Due) /\ armed \cap Due = {} /\ MotionCoherent)'
  BY <1>1, <1>6 DEF RuntimeInv, Supervised, Directions, MotionCoherent, Coherent
<1> QED
  BY <1>3, <1>4, <1>5, <1>7 DEF RuntimeInv

-----------------------------------------------------------------------------
(* The other tasks.                                                        *)

LEMMA CallerKept ==
  ASSUME RuntimeInv, NEW c \in Callers, Caller(c) \/ GiveUp(c)
  PROVE  RuntimeInv'
<1>0. /\ queue \in Seq(Messages) /\ Len(queue) \in Nat
      /\ \A i \in DOMAIN queue : queue[i].event.type \in QueuedTypes
  BY LenProperties DEF RuntimeInv, TypeOK, TurnOK
<1>1. CASE BeginRequest(c) \/ QueueStaysFull(c)
  <2>1. /\ UNCHANGED <<snap, armed, busy, spaced, pc, todo, asker, awaited, active, queue>>
        /\ UNCHANGED <<command, driven, maintenance, upkeep, asserted, feedback>>
    BY <1>1 DEF BeginRequest, QueueStaysFull, controllerVars, outputVars, callerVars,
       upkeepVars, feedbackVars
  <2>2. /\ loc' \in [Callers -> {"idle", "sending", "waiting"}]
        /\ notify' \in [Callers -> Results \cup {"none"}]
    BY <1>1 DEF BeginRequest, QueueStaysFull, callerVars, RuntimeInv, TypeOK
  <2>3. TypeOK'
    BY <2>1, <2>2 DEF RuntimeInv, TypeOK
  <2> QED
    BY <1>0, <2>1, <2>3, Bystander
<1>2. CASE SendRequest(c)
  <2>1. PICK m \in Messages :
          m.event.type \in RequestTypes /\ queue' = Append(queue, m)
    <3>1. PICK e \in RequestsOf(c) :
            queue' = Append(queue, [event |-> e, asker |-> c, awaited |-> TRUE,
                                    sample |-> FALSE])
      BY <1>2 DEF SendRequest
    <3>2. e \in Events /\ e.type \in RequestTypes
      BY EventTyped DEF RequestsOf, EventTypes, RequestTypes
    <3> QED
      BY <3>1, <3>2 DEF Messages
  <2>2. /\ queue' \in Seq(Messages) /\ Len(queue') = Len(queue) + 1
        /\ \A i \in DOMAIN queue' : queue'[i].event.type \in QueuedTypes
    BY <1>0, <2>1, AppendProperties, LenProperties DEF QueuedTypes
  <2>3. /\ UNCHANGED <<snap, armed, busy, spaced, pc, todo, asker, awaited, active>>
        /\ UNCHANGED <<command, driven, notify, maintenance, upkeep, asserted, feedback>>
        /\ Len(queue) < QueueLength /\ loc' = [loc EXCEPT ![c] = "waiting"]
    BY <1>2 DEF SendRequest, controllerVars, outputVars, upkeepVars, feedbackVars
  <2>4. Len(queue') <= QueueLength
    BY <1>0, <2>2, <2>3, RuntimeAssumption
  <2>5. TypeOK'
    BY <2>2, <2>3, <2>4 DEF RuntimeInv, TypeOK
  <2> QED
    BY <2>2, <2>3, <2>5, Bystander
<1>3. CASE TakeAnswer(c) \/ GiveUp(c)
  <2>1. /\ UNCHANGED <<snap, armed, busy, spaced, pc, todo, asker, active>>
        /\ UNCHANGED <<command, driven, maintenance, upkeep, asserted, feedback>>
        /\ Abandon(c)
    BY <1>3 DEF TakeAnswer, GiveUp, controllerVars, outputVars, upkeepVars, feedbackVars
  <2>2. /\ loc' \in [Callers -> {"idle", "sending", "waiting"}]
        /\ notify' \in [Callers -> Results \cup {"none"}]
    BY <1>3 DEF TakeAnswer, GiveUp, RuntimeInv, TypeOK
  <2>3. /\ queue' \in Seq(Messages) /\ Len(queue') = Len(queue)
        /\ \A i \in DOMAIN queue' : queue'[i].event.type \in QueuedTypes
    <3>1. \A i \in 1..Len(queue) : queue[i] \in Messages
      BY <1>0, ElementOfSeq
    <3>2. DOMAIN queue' = 1..Len(queue)
      BY <1>0, <2>1, LenProperties DEF Abandon
    <3>3. \A i \in 1..Len(queue) :
            queue'[i] \in Messages /\ queue'[i].event = queue[i].event
      BY <1>0, <2>1, <3>1, LenProperties DEF Abandon, Messages
    <3>4. queue' \in [1..Len(queue) -> Messages]
      BY <1>0, <2>1, <3>2, <3>3, LenProperties DEF Abandon
    <3>5. queue' \in Seq(Messages) /\ Len(queue') = Len(queue)
      BY <1>0, <3>4, <3>2, SeqDef, LenProperties
    <3> QED
      BY <1>0, <3>2, <3>3, <3>5, LenProperties
  <2>4. awaited' \in BOOLEAN
    BY <2>1 DEF Abandon, RuntimeInv, TypeOK
  <2>5. TypeOK'
    BY <2>1, <2>2, <2>3, <2>4 DEF RuntimeInv, TypeOK
  <2> QED
    BY <2>1, <2>3, <2>5, Bystander
<1> QED
  BY <1>1, <1>2, <1>3 DEF Caller

LEMMA MaintenanceKept ==
  ASSUME RuntimeInv, Maintenance
  PROVE  RuntimeInv'
<1>1. /\ UNCHANGED <<snap, armed, busy, spaced, pc, todo, asker, awaited, active, queue>>
      /\ UNCHANGED <<loc, notify, asserted, feedback>>
      /\ driven' \subseteq driven /\ command' \in {command, "None"}
      /\ maintenance' \in {maintenance} \cup BOOLEAN
      /\ upkeep' \in {"none", "claimed", "clearing", "lowering", "held", "leaving",
                      "releasing"}
  BY DEF Maintenance, ClaimMaintenance, RefuseMaintenance, AdmitMaintenance,
     LeaveMaintenance, ClearCommand, LowerOutputs, LoweringFails, controllerVars,
     outputVars, callerVars, upkeepVars, feedbackVars
<1>2. TypeOK'
  BY <1>1 DEF RuntimeInv, TypeOK
<1>3. \A i \in DOMAIN queue' : queue'[i].event.type \in QueuedTypes
  BY <1>1 DEF RuntimeInv, TurnOK
<1> QED
  BY <1>1, <1>2, <1>3, Bystander

LEMMA FeedbackKept ==
  ASSUME RuntimeInv, Feedback
  PROVE  RuntimeInv'
<1>0. /\ queue \in Seq(Messages) /\ Len(queue) \in Nat
      /\ \A i \in DOMAIN queue : queue[i].event.type \in QueuedTypes
  BY LenProperties DEF RuntimeInv, TypeOK, TurnOK
<1>1. CASE FirstSample \/ FeedbackChange
  <2>1. /\ UNCHANGED <<snap, armed, busy, spaced, pc, todo, asker, awaited, active, queue>>
        /\ UNCHANGED <<command, driven, loc, notify, maintenance, upkeep>>
    BY <1>1 DEF FirstSample, FeedbackChange, controllerVars, outputVars, callerVars,
       upkeepVars
  <2>2. asserted' \subseteq Endpoints /\ feedback' \in {"start", "sampling", "sending"}
    BY <1>1, RuntimeAssumption
       DEF FirstSample, FeedbackChange, Assertable, RuntimeInv, TypeOK
  <2>3. TypeOK'
    BY <2>1, <2>2 DEF RuntimeInv, TypeOK
  <2> QED
    BY <1>0, <2>1, <2>3, Bystander
<1>2. CASE PublishFeedback
  <2>1. FeedbackMessage \in Messages /\ FeedbackMessage.event.type \in QueuedTypes
    <3>1. NormalizeFeedback(Topology, AssertedEnd, asserted) \in Observations
      BY RuntimeAssumption DEF NormalizeFeedback, Observations, Endpoints
    <3>2. {"DecoderHealthy", "ObservationChanged"} \subseteq EventTypes \cap QueuedTypes
      BY DEF EventTypes, DecoderTypes, FeedbackTypes, QueuedTypes
    <3>3. FeedbackMessage.event \in Events /\ FeedbackMessage.event.type \in QueuedTypes
      BY <3>1, <3>2, EventTyped DEF FeedbackMessage
    <3> QED
      BY <3>3, RuntimeAssumption DEF FeedbackMessage, Messages
  <2>2. /\ queue' = Append(queue, FeedbackMessage) /\ Len(queue) < QueueLength
        /\ feedback' = "sampling"
        /\ UNCHANGED <<snap, armed, busy, spaced, pc, todo, asker, awaited, active>>
        /\ UNCHANGED <<command, driven, loc, notify, maintenance, upkeep, asserted>>
    BY <1>2 DEF PublishFeedback, controllerVars, outputVars, callerVars, upkeepVars
  <2> HIDE DEF FeedbackMessage
  <2>3. /\ queue' \in Seq(Messages) /\ Len(queue') = Len(queue) + 1
        /\ \A i \in DOMAIN queue' : queue'[i].event.type \in QueuedTypes
    BY <1>0, <2>1, <2>2, AppendProperties, LenProperties
  <2>4. Len(queue') <= QueueLength
    BY <1>0, <2>2, <2>3, RuntimeAssumption
  <2>5. TypeOK'
    BY <2>2, <2>3, <2>4 DEF RuntimeInv, TypeOK
  <2> QED
    BY <2>2, <2>3, <2>5, Bystander
<1> QED
  BY <1>1, <1>2 DEF Feedback

-----------------------------------------------------------------------------
(* The invariant, and what it gives.                                       *)

LEMMA InitKept == Init => RuntimeInv
<1> SUFFICES ASSUME Init PROVE RuntimeInv
  OBVIOUS
<1>1. InitialSnapshot \in Snapshots /\ InitialSnapshot.state = "UnknownStopped"
      /\ InitialSnapshot.movement = "None" /\ ~InitialSnapshot.pulseActive
  BY DEF InitialSnapshot, Snapshots, States, Stopped, Directions, Targets, Observations,
     Faults
<1>2. TypeOK
  <2>1. queue \in Seq(Messages) /\ todo \in Seq(Events) /\ Len(queue) <= QueueLength
    BY RuntimeAssumption DEF Init
  <2>2. /\ loc \in [Callers -> {"idle", "sending", "waiting"}]
        /\ notify \in [Callers -> Results \cup {"none"}]
    BY DEF Init
  <2> QED
    BY <1>1, <2>1, <2>2 DEF Init, TypeOK
<1>3. TurnOK
  BY DEF Init, TurnOK
<1>4. PulseOK
  BY <1>1 DEF Init, PulseOK
<1>5. Supervised(snap, armed \cup Due) /\ armed \cap Due = {}
  BY <1>1 DEF Init, Due, Supervised, Directions
<1>6. MotionCoherent
  BY <1>1 DEF Init, MotionCoherent, Coherent, Directions, Pausing
<1> QED
  BY <1>2, <1>3, <1>4, <1>5, <1>6 DEF RuntimeInv

LEMMA NextKept == RuntimeInv /\ [Next]_vars => RuntimeInv'
<1> SUFFICES ASSUME RuntimeInv, [Next]_vars PROVE RuntimeInv'
  OBVIOUS
<1>1. CASE Controller
  BY <1>1, BootKept, ExpirePulseKept, ExpireKept, DecoderWakeKept, ReceiveKept,
     ApplyQuietlyKept, RefusedKept, ReservePulseKept, DrivePulseKept, CommitPulseKept
     DEF Controller, Continue
<1>2. CASE (\E c \in Callers : Caller(c)) \/ (\E c \in Impatient : GiveUp(c))
  BY <1>2, CallerKept, RuntimeAssumption
<1>3. CASE Maintenance
  BY <1>3, MaintenanceKept
<1>4. CASE Feedback
  BY <1>4, FeedbackKept
<1>5. CASE IntervalPasses \/ UNCHANGED vars
  <2>1. /\ UNCHANGED <<snap, armed, busy, pc, todo, asker, awaited, active, queue>>
        /\ UNCHANGED <<command, driven, loc, notify, maintenance, upkeep, asserted, feedback>>
        /\ spaced' \in {spaced} \cup BOOLEAN
    BY <1>5 DEF IntervalPasses, vars, controllerVars, outputVars, callerVars, upkeepVars,
       feedbackVars
  <2>2. TypeOK'
    BY <2>1 DEF RuntimeInv, TypeOK
  <2>3. \A i \in DOMAIN queue' : queue'[i].event.type \in QueuedTypes
    BY <2>1 DEF RuntimeInv, TurnOK
  <2> QED
    BY <2>1, <2>2, <2>3, Bystander
<1> QED
  BY <1>1, <1>2, <1>3, <1>4, <1>5 DEF Next

\* The inductive invariant holds for every profile, topology, set of callers
\* and queue length.
THEOREM RuntimeInvariant == Spec => []RuntimeInv
<1> QED
  BY InitKept, NextKept, PTL DEF Spec

\* The runtime's state keeps its types and its queue its capacity.
THEOREM TypeCorrect == Spec => []TypeOK
<1>1. RuntimeInv => TypeOK
  BY DEF RuntimeInv
<1> QED
  BY <1>1, RuntimeInvariant, PTL

\* An active output always has the deadline that releases it and the guard that
\* keeps a second pulse out, with maintenance, refusals and failed activations
\* at any moment.
THEOREM PulseSupervision == Spec => []PulseSupervised
<1>1. RuntimeInv => PulseSupervised
  BY DEF RuntimeInv, PulseOK, PulseSupervised, Settled
<1> QED
  BY <1>1, RuntimeInvariant, PTL

\* Between turns a gate shown as travelling has exactly its own direction's
\* travel deadline armed, and no travel deadline outlives its travel.
THEOREM TravelSupervision == Spec => []TravelSupervised
<1>1. RuntimeInv => TravelSupervised
  BY DEF RuntimeInv, TravelSupervised, Settled, Due, Supervised
<1> QED
  BY <1>1, RuntimeInvariant, PTL

\* The committed snapshot never shows a movement against its state.
THEOREM MotionCoherence == Spec => []MotionCoherent
<1>1. RuntimeInv => MotionCoherent
  BY DEF RuntimeInv
<1> QED
  BY <1>1, RuntimeInvariant, PTL
=============================================================================
