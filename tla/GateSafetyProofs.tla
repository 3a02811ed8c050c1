-------------------------- MODULE GateSafetyProofs --------------------------
(***************************************************************************)
(* What the runtime never does: start a pulse while the accepted feedback  *)
(* contradicts itself, claim what it has no evidence of, change anything   *)
(* when it refuses, lose the last feedback.  And what it never does as     *)
(* long as callers wait for their answers, or there is but one of them.    *)
(***************************************************************************)
EXTENDS PulsePromiseProofs

-----------------------------------------------------------------------------
(* The reducer.                                                            *)

\* A pulse is only ever proposed for a snapshot that is not interlocked.
LEMMA ReduceInterlocked ==
  ASSUME NEW s \in Snapshots, NEW e \in Events, Reduce(s, e).command # "None"
  PROVE  ~Interlocked(s)
<1>1. e.type \in RequestTypes
  BY ReducePulse
<1>2. Rejected(s).command = "None"
  BY DEF Rejected, Reply
<1> QED
  BY <1>1, <1>2 DEF Reduce, OnTargetRequested, OnMaintenancePulse, RequestTypes

\* Requests leave the observations alone.
LEMMA RequestObservations ==
  ASSUME NEW s \in Snapshots, NEW e \in Events, e.type \in RequestTypes
  PROVE  /\ Reduce(s, e).next.stable = s.stable
         /\ Reduce(s, e).next.pending = s.pending
         /\ Interlocked(s) => Reduce(s, e).next = s
<1> DEFINE Kept(n) == n.stable = s.stable /\ n.pending = s.pending
<1>0. e.target \in Targets
  BY DEF Events
<1>1. Rejected(s).next = s /\ NoChange(s).next = s /\ Kept(s)
  BY DEF Rejected, NoChange, Reply
<1>2. ASSUME NEW n \in Snapshots, Kept(n), NEW c, NEW start, NEW cancel
      PROVE  Kept(Pulse(n, c, start, cancel).next) /\ Kept(NoChange(n).next)
  BY <1>2 DEF Pulse, NoChange, Reply, Snapshots
<1>3. /\ Moving(s, e.target) \in Snapshots /\ Kept(Moving(s, e.target))
      /\ [s EXCEPT !.target = e.target] \in Snapshots
      /\ Kept([s EXCEPT !.target = e.target])
  BY <1>0, MovingType DEF Moving, Snapshots
<1>4. s.state \in Directions => /\ Paused(s, s.state) \in Snapshots
                                /\ Kept(Paused(s, s.state))
  BY DEF Paused, Pausing, Snapshots, States, Stopped, Directions, Targets
<1>5. s \in Snapshots
  OBVIOUS
<1> HIDE DEF Kept
<1>6. CASE e.type = "MaintenancePulseRequested"
  <2> DEFINE c == CASE Profile = "sequential" -> "Step"
                    [] e.target = "Open" -> "Open"
                    [] OTHER -> "Close"
  <2>1. Reduce(s, e) \in {Rejected(s), Pulse(s, c, {}, FALSE)}
    BY <1>6 DEF Reduce, OnMaintenancePulse
  <2>2. Interlocked(s) => Reduce(s, e) = Rejected(s)
    BY <1>6 DEF Reduce, OnMaintenancePulse
  <2>3. Kept(Pulse(s, c, {}, FALSE).next)
    BY <1>1, <1>2, <1>5
  <2> HIDE DEF c
  <2> QED
    BY <1>1, <2>1, <2>2, <2>3 DEF Kept
<1>7. CASE e.type = "TargetRequested"
  <2>1. Kept(DirectionalDecision(s, e.target).next)
    BY <1>2, <1>3 DEF DirectionalDecision
  <2>2. Kept(SequentialDecision(s, e.target).next)
    <3>1. CASE s.state \in {Opposite(e.target), Pausing(Toward(Opposite(e.target)))}
      <4>1. SequentialDecision(s, e.target)
              = Pulse(Moving(s, e.target), "Step", {Toward(e.target)}, FALSE)
        BY <1>0, <3>1 DEF SequentialDecision, Toward, Opposite, Pausing, Targets
      <4> QED
        BY <4>1, <1>2, <1>3
    <3>2. CASE s.state = Toward(Opposite(e.target))
      <4>1. SequentialDecision(s, e.target) = Pulse(Paused(s, s.state), "Step", {}, TRUE)
        BY <1>0, <3>2 DEF SequentialDecision, Toward, Opposite, Pausing, Targets
      <4>2. s.state \in Directions
        BY <3>2 DEF Toward, Directions
      <4> QED
        BY <4>1, <4>2, <1>2, <1>4
    <3>3. CASE /\ s.state \notin {Opposite(e.target), Pausing(Toward(Opposite(e.target)))}
               /\ s.state # Toward(Opposite(e.target))
      BY <3>3, <1>1, <1>2, <1>3 DEF SequentialDecision
    <3> QED
      BY <3>1, <3>2, <3>3
  <2>3. /\ Reduce(s, e) \in {Rejected(s), Decision(s, e.target)}
        /\ Interlocked(s) => Reduce(s, e) = Rejected(s)
    BY <1>7 DEF Reduce, OnTargetRequested
  <2>4. Kept(Decision(s, e.target).next)
    BY <2>1, <2>2 DEF Decision
  <2> QED
    BY <1>1, <2>3, <2>4 DEF Kept
<1> QED
  BY <1>6, <1>7 DEF RequestTypes, Kept

\* Without decoded events a contradiction keeps its fault and its stop.
LEMMA ReduceContradiction ==
  ASSUME NEW s \in Snapshots, NEW e \in Events,
         e.type \notin ExternalTypes \cup DecoderTypes, ContradictionHolds(s)
  PROVE  ContradictionHolds(Reduce(s, e).next)
<1>0. e.type \in EventTypes /\ e.target \in Targets /\ e.observation \in Observations
  BY DEF Events
<1>1. CASE e.type = "Boot"
  BY <1>1 DEF Reduce, OnBoot, Timed, InitialSnapshot, ContradictionHolds
<1>2. CASE e.type \in RequestTypes
  BY <1>2, RequestObservations DEF ContradictionHolds, Interlocked
<1>3. CASE e.type \in {"ObservationChanged", "PulseCompleted", "ObstructionAcknowledged"}
  BY <1>3 DEF Reduce, OnObservationChanged, OnObstructionAcknowledged, Quiet, Timed,
     Snapshots, ContradictionHolds
<1>4. CASE e.type = "ObservationStable"
  <2> DEFINE seen == [s EXCEPT !.pending = e.observation, !.stable = e.observation,
                               !.valid = TRUE]
  <2>1. seen \in Snapshots /\ seen.stable = e.observation
    BY <1>0 DEF Snapshots
  <2> HIDE DEF seen
  <2>2. ASSUME NEW t
        PROVE  AtEndpoint(seen, t).stable = e.observation
    BY <2>1 DEF AtEndpoint, Snapshots
  <2>3. /\ Contradicted(seen).fault = "FeedbackContradiction"
        /\ Contradicted(seen).state \notin Directions
    BY <2>1 DEF Contradicted, StoppedAfter, Pausing, Snapshots, Directions
  <2>4. Uncontradicted(seen).stable = e.observation
    BY <2>1 DEF Uncontradicted, Snapshots
  <2>5. CASE e.observation \in Endpoints
    BY <1>4, <2>2, <2>5
       DEF Reduce, OnObservationStable, Timed, Endpoints, ContradictionHolds, seen
  <2>6. CASE e.observation = "Contradictory"
    BY <1>4, <2>3, <2>6 DEF Reduce, OnObservationStable, Timed, ContradictionHolds, seen
  <2>7. CASE e.observation \notin Endpoints \cup {"Contradictory"}
    BY <1>4, <2>1, <2>4, <2>7
       DEF Reduce, OnObservationStable, Quiet, Timed, Endpoints, ContradictionHolds, seen
  <2> QED
    BY <2>5, <2>6, <2>7
<1>5. CASE e.type \in {"OpeningTimerExpired", "ClosingTimerExpired"}
  BY <1>5, ZenonT(60) DEF Reduce, OnTravelTimer, Quiet, Timed, Snapshots, Directions, ContradictionHolds
<1> QED
  BY <1>0, <1>1, <1>2, <1>3, <1>4, <1>5
     DEF EventTypes, RequestTypes, FeedbackTypes, ExternalTypes, DecoderTypes, TimerTypes

\* Observations come from events: what no event contradicts stays consistent.
LEMMA ReduceObservations ==
  ASSUME NEW s \in Snapshots, NEW e \in Events,
         \A o \in {s.pending, s.stable, e.observation} : o # "Contradictory"
  PROVE  /\ Reduce(s, e).next.pending # "Contradictory"
         /\ Reduce(s, e).next.stable # "Contradictory"
<1> DEFINE Consistent(n) == n.pending # "Contradictory" /\ n.stable # "Contradictory"
<1>0. e.type \in EventTypes /\ e.target \in Targets /\ e.observation \in Observations
  BY DEF Events
<1>1. CASE e.type = "Boot"
  BY <1>1 DEF Reduce, OnBoot, Timed, InitialSnapshot
<1>2. CASE e.type \in RequestTypes
  BY <1>2, RequestObservations
<1>3. CASE e.type \in {"ObservationChanged", "PulseCompleted", "ObstructionAcknowledged",
                     "DecoderObstructed", "DecoderHealthy", "DecoderFault",
                     "ExternalStopped"}
  BY <1>3, ZenonT(60) DEF Reduce, OnObservationChanged, OnObstructionAcknowledged, OnDecoderHealthy,
     OnDecoderFault, OnExternalStopped, Quiet, Timed, Snapshots
<1>4. CASE e.type = "ObservationStable"
  <2> DEFINE seen == [s EXCEPT !.pending = e.observation, !.stable = e.observation,
                               !.valid = TRUE]
  <2>1. seen \in Snapshots /\ Consistent(seen)
    BY <1>0 DEF Snapshots
  <2> HIDE DEF seen
  <2>2. /\ Consistent(AtEndpoint(seen, "Open")) /\ Consistent(AtEndpoint(seen, "Closed"))
        /\ Consistent(Uncontradicted(seen))
    BY <2>1 DEF AtEndpoint, Uncontradicted, Snapshots
  <2>3. CASE e.observation \in Endpoints
    BY <1>4, <2>2, <2>3 DEF Reduce, OnObservationStable, Timed, Endpoints, seen
  <2>4. CASE e.observation \notin Endpoints
    BY <1>4, <2>1, <2>2, <2>4 DEF Reduce, OnObservationStable, Quiet, Timed, Endpoints, seen
  <2> QED
    BY <2>3, <2>4
<1>5. CASE e.type \in {"OpeningTimerExpired", "ClosingTimerExpired"}
  BY <1>5, ZenonT(60) DEF Reduce, OnTravelTimer, Quiet, Timed, Snapshots
<1>6. CASE e.type \in {"ExternalOpening", "ExternalClosing"}
  BY <1>6, ZenonT(60) DEF Reduce, OnExternalMovement, Moving, Timed, Snapshots
<1> QED
  BY <1>0, <1>1, <1>2, <1>3, <1>4, <1>5, <1>6
     DEF EventTypes, RequestTypes, FeedbackTypes, ExternalTypes, DecoderTypes, TimerTypes

-----------------------------------------------------------------------------
(* The runtime.                                                            *)

\* What the decoder adds to a turn is genuine.
LEMMA DecodedGenuine ==
  ASSUME CustomRules, NEW r \in DecoderEvents
  PROVE  \A i \in 1..Len(r) : Genuine(r[i])
<1> DEFINE Safe == {e \in Events : e.observation # "Contradictory"}
<1>1. /\ \A type \in EventTypes : Event(type) \in Safe
      /\ \A o \in Endpoints : ObservationEvent("ObservationStable", o) \in Safe
  BY DEF Event, ObservationEvent, Events, EventTypes, FeedbackTypes, Targets, Observations,
     Endpoints
<1>2. ExternalTypes \cup DecoderTypes \subseteq EventTypes
  BY DEF EventTypes
<1> HIDE DEF Safe
<1>3. /\ <<>> \in Seq(Safe)
      /\ \A e \in Safe : <<e>> \in Seq(Safe)
  OBVIOUS
<1>4. r \in Seq(Safe)
  <2>1. CASE r \in {<<>>, <<Event("DecoderFault")>>}
    BY <2>1, <1>1, <1>2, <1>3 DEF DecoderTypes
  <2>2. ASSUME NEW c \in ChannelEvents, NEW h \in HealthEvents, r = c \o h
        PROVE  r \in Seq(Safe)
    <3>1. c \in Seq(Safe) /\ h \in Seq(Safe)
      BY <1>1, <1>2, <1>3 DEF ChannelEvents, HealthEvents, DecoderTypes
    <3> QED
      BY <2>2, <3>1, ConcatProperties
  <2>3. \/ r \in {<<>>, <<Event("DecoderFault")>>}
        \/ \E c \in ChannelEvents, h \in HealthEvents : r = c \o h
    BY DEF DecoderEvents
  <2> QED
    BY <2>1, <2>2, <2>3
<1>5. \A i \in 1..Len(r) : r[i] \in Safe
  BY <1>4, ElementOfSeq
<1> QED
  BY <1>5 DEF Safe, Genuine

\* A step that applies no event keeps the invariant if what it queues and what
\* it takes up is genuine.
LEMMA NothingApplied ==
  ASSUME InterlockInv, snap' = snap,
         \A i \in DOMAIN queue' : Genuine(queue'[i].event) /\ (queue'[i].sample => CustomRules),
         \A i \in DOMAIN todo' : Genuine(todo'[i])
  PROVE  InterlockInv'
BY DEF InterlockInv, SourcesOK, ContradictionHolds, Genuine

LEMMA TurnGenuine ==
  ASSUME RuntimeInv, InterlockInv, pc \in {"boot", "ready"},
         ControllerBoot \/ ExpirePulse \/ (\E timer \in Timers : Expire(timer))
           \/ DecoderWake \/ Receive
  PROVE  InterlockInv'
<1>1. snap' = snap
  BY DEF ControllerBoot, ExpirePulse, Expire, DecoderWake, Receive
<1>2. ASSUME NEW e, Genuine(e)
      PROVE  \A i \in DOMAIN <<e>> : Genuine(<<e>>[i])
  BY <1>2
<1>3. queue \in Seq(Messages) /\ todo \in Seq(Events) /\ snap \in Snapshots
  BY DEF RuntimeInv, TypeOK
<1>4. \A i \in DOMAIN queue' :
        Genuine(queue'[i].event) /\ (queue'[i].sample => CustomRules)
  <2>1. CASE queue' = queue
    BY <2>1 DEF InterlockInv, SourcesOK, Genuine
  <2>2. CASE Receive
    <3>1. queue # <<>> /\ queue' = Tail(queue)
      BY <2>2 DEF Receive
    <3>2. /\ Len(queue') = Len(queue) - 1 /\ Len(queue) \in Nat
          /\ DOMAIN queue = 1..Len(queue) /\ DOMAIN queue' = 1..Len(queue')
          /\ \A i \in 1..Len(queue') : queue'[i] = queue[i + 1]
      BY <1>3, <3>1, HeadTailProperties, LenProperties
    <3> QED
      BY <3>2 DEF InterlockInv, SourcesOK
  <2> QED
    BY <2>1, <2>2 DEF ControllerBoot, ExpirePulse, Expire, DecoderWake
<1>5. \A i \in DOMAIN todo' : Genuine(todo'[i])
  <2>1. CASE CustomRules /\ (DecoderWake \/ ControllerBoot \/ (Receive /\ Head(queue).sample))
    <3>1. PICK r \in DecoderEvents : todo' \in {r, <<Event("Boot")>> \o r}
      BY <2>1 DEF DecoderWake, ControllerBoot, Receive, TakeTurn
    <3>2. /\ r \in Seq(Events) /\ Len(r) \in Nat /\ DOMAIN r = 1..Len(r)
          /\ \A i \in 1..Len(r) : Genuine(r[i])
      BY <2>1, DecodedTurn, DecodedGenuine, LenProperties
    <3>3. <<Event("Boot")>> \in Seq(Events) /\ Len(<<Event("Boot")>>) = 1
      BY EventTyped DEF EventTypes
    <3>4. Genuine(Event("Boot"))
      BY <2>1 DEF Genuine, Event
    <3> DEFINE t == <<Event("Boot")>> \o r
    <3>5. /\ t \in Seq(Events) /\ Len(t) = 1 + Len(r)
          /\ \A i \in 1..(1 + Len(r)) : t[i] = IF i <= 1 THEN <<Event("Boot")>>[i] ELSE r[i - 1]
      BY <3>2, <3>3, ConcatProperties
    <3>6. DOMAIN t = 1..(1 + Len(r))
      BY <3>5, LenProperties
    <3> HIDE DEF t
    <3>7. \A i \in DOMAIN t : Genuine(t[i])
      BY <3>2, <3>4, <3>5, <3>6
    <3> QED
      BY <3>1, <3>2, <3>7 DEF t
  <2>2. CASE ~CustomRules /\ ControllerBoot
    <3> DEFINE e == ObservationEvent("Boot", NormalizeFeedback(Topology, AssertedEnd, asserted))
    <3>1. todo' = <<e>>
      BY <2>2 DEF ControllerBoot, TakeTurn
    <3>2. Genuine(e)
      BY <2>2 DEF Genuine, ObservationEvent, Event, ExternalTypes, DecoderTypes
    <3> QED
      BY <3>1, <3>2, <1>2
  <2>3. CASE ExpirePulse
    <3>1. Genuine(Event("PulseCompleted"))
      BY DEF Genuine, Event, ExternalTypes, DecoderTypes
    <3> QED
      BY <2>3, <3>1, <1>2 DEF ExpirePulse, TakeTurn
  <2>4. ASSUME NEW timer \in Timers, Expire(timer)
        PROVE  \A i \in DOMAIN todo' : Genuine(todo'[i])
    <3>1. /\ Event("OpeningTimerExpired").type = "OpeningTimerExpired"
          /\ Event("ClosingTimerExpired").type = "ClosingTimerExpired"
          /\ Event("OpeningTimerExpired").observation = "Between"
          /\ Event("ClosingTimerExpired").observation = "Between"
          /\ ObservationEvent("ObservationStable", snap.pending).type = "ObservationStable"
          /\ ObservationEvent("ObservationStable", snap.pending).observation = snap.pending
      BY DEF Event, ObservationEvent
    <3>2. \/ ExpiryEvent(timer) = Event("OpeningTimerExpired")
          \/ ExpiryEvent(timer) = Event("ClosingTimerExpired")
          \/ ExpiryEvent(timer) = ObservationEvent("ObservationStable", snap.pending)
      <4>1. CASE timer = "Opening"
        BY <4>1 DEF ExpiryEvent
      <4>2. CASE timer = "Closing"
        BY <4>2 DEF ExpiryEvent
      <4>3. CASE timer \notin {"Opening", "Closing"}
        BY <4>3 DEF ExpiryEvent
      <4> QED
        BY <4>1, <4>2, <4>3
    <3>3. Genuine(ExpiryEvent(timer))
      BY <3>1, <3>2 DEF InterlockInv, SourcesOK, Genuine, ExternalTypes, DecoderTypes
    <3> HIDE DEF ExpiryEvent
    <3> QED
      BY <2>4, <3>3, <1>2 DEF Expire, TakeTurn
  <2>5. CASE Receive /\ ~Head(queue).sample
    <3>1. queue # <<>> /\ todo' = <<Head(queue).event>>
      BY <2>5 DEF Receive, TakeTurn
    <3>2. Head(queue) = queue[1] /\ 1 \in DOMAIN queue
      BY <1>3, <3>1, EmptySeq, LenProperties
    <3>3. Genuine(Head(queue).event)
      BY <3>2 DEF InterlockInv, SourcesOK
    <3> QED
      BY <3>1, <3>3, <1>2
  <2>6. CASE Receive /\ Head(queue).sample
    <3>1. queue # <<>>
      BY <2>6 DEF Receive
    <3>2. Head(queue) = queue[1] /\ 1 \in DOMAIN queue
      BY <1>3, <3>1, EmptySeq, LenProperties
    <3>3. CustomRules
      BY <2>6, <3>2 DEF InterlockInv, SourcesOK
    <3> QED
      BY <2>1, <2>6, <3>3
  <2>7. DecoderWake => CustomRules
    BY DEF DecoderWake
  <2> QED
    BY <2>1, <2>2, <2>3, <2>4, <2>5, <2>6, <2>7
<1> QED
  BY <1>1, <1>4, <1>5, NothingApplied

LEMMA ContinueGenuine ==
  ASSUME RuntimeInv, InterlockInv, Continue
  PROVE  InterlockInv'
<1>1. queue' = queue
  BY DEF Continue, ApplyQuietly, RefusePulse, ReservePulse, DrivePulse, ActivationFails,
     CommitPulse
<1>2. todo' \in {todo, Tail(todo)} /\ todo # <<>> /\ todo \in Seq(Events)
  BY DEF Continue, ApplyQuietly, RefusePulse, ReservePulse, DrivePulse, ActivationFails,
     CommitPulse, Done, RuntimeInv, TypeOK, TurnOK
<1>3. /\ \A i \in 1..Len(Tail(todo)) : Tail(todo)[i] = todo[i + 1]
      /\ Tail(todo) \in Seq(Events) /\ Len(Tail(todo)) = Len(todo) - 1 /\ Len(todo) \in Nat
      /\ DOMAIN todo = 1..Len(todo) /\ DOMAIN Tail(todo) = 1..Len(Tail(todo))
  BY <1>2, HeadTailProperties, LenProperties
<1>4. \A i \in DOMAIN todo' : Genuine(todo'[i])
  BY <1>2, <1>3 DEF InterlockInv, SourcesOK
<1>5. \A i \in DOMAIN queue' :
        Genuine(queue'[i].event) /\ (queue'[i].sample => CustomRules)
  BY <1>1 DEF InterlockInv, SourcesOK, Genuine
<1>6. CASE snap' = snap
  BY <1>4, <1>5, <1>6, NothingApplied
<1>7. CASE snap' = Reduction.next /\ pc \in {"applying", "driven"}
  <2>1. snap \in Snapshots /\ Head(todo) \in Events /\ Reduction = Reduce(snap, Head(todo))
    BY <1>7, ReductionTyped DEF RuntimeInv, TypeOK, Reduction
  <2>2. Head(todo) = todo[1] /\ 1 \in DOMAIN todo
    BY <1>2, <1>3, EmptySeq
  <2>3. Genuine(Head(todo))
    BY <2>2 DEF InterlockInv, SourcesOK
  <2>4. CASE CustomRules
    <3>1. Reduction.next.pending # "Contradictory" /\ Reduction.next.stable # "Contradictory"
      BY <2>1, <2>3, <2>4, ReduceObservations DEF InterlockInv, SourcesOK, Genuine
    <3> QED
      BY <1>4, <1>5, <1>7, <3>1 DEF InterlockInv, SourcesOK, ContradictionHolds, Genuine
  <2>5. CASE ~CustomRules
    <3>1. ContradictionHolds(Reduction.next)
      BY <2>1, <2>3, <2>5, ReduceContradiction DEF InterlockInv, Genuine
    <3> QED
      BY <1>4, <1>5, <1>7, <2>5, <3>1 DEF InterlockInv, SourcesOK, ContradictionHolds, Genuine
  <2> QED
    BY <2>4, <2>5
<1> QED
  BY <1>6, <1>7 DEF Continue, ApplyQuietly, RefusePulse, ReservePulse, DrivePulse,
     ActivationFails, CommitPulse, Commit

LEMMA OthersGenuine ==
  ASSUME RuntimeInv, InterlockInv,
         (\E c \in Callers : Caller(c)) \/ (\E c \in Impatient : GiveUp(c))
               \/ Maintenance \/ Feedback \/ IntervalPasses
           \/ UNCHANGED vars
  PROVE  InterlockInv'
<1>1. snap' = snap /\ todo' = todo
  BY DEF Caller, BeginRequest, SendRequest, QueueStaysFull, TakeAnswer, GiveUp,
     Maintenance, ClaimMaintenance, RefuseMaintenance, AdmitMaintenance,
     LeaveMaintenance, ClearCommand, LowerOutputs, LoweringFails,
     Feedback, FirstSample, FeedbackChange, PublishFeedback, IntervalPasses,
     vars, controllerVars
<1>2. \A i \in DOMAIN todo' : Genuine(todo'[i])
  BY <1>1 DEF InterlockInv, SourcesOK, Genuine
<1>3. /\ queue \in Seq(Messages) /\ Len(queue) \in Nat /\ DOMAIN queue = 1..Len(queue)
      /\ \A i \in 1..Len(queue) : queue[i] \in Messages
      /\ \A i \in DOMAIN queue : Genuine(queue[i].event) /\ (queue[i].sample => CustomRules)
  BY LenProperties, ElementOfSeq DEF RuntimeInv, TypeOK, InterlockInv, SourcesOK
<1> DEFINE Sound(q) == \A i \in DOMAIN q : Genuine(q[i].event) /\ (q[i].sample => CustomRules)
<1>4. ASSUME NEW m \in Messages, Genuine(m.event), m.sample => CustomRules
      PROVE  Sound(Append(queue, m))
  BY <1>3, <1>4, AppendProperties, LenProperties
<1>5. ASSUME NEW c \in Callers, SendRequest(c)
      PROVE  Sound(queue')
  <2>1. PICK e \in RequestsOf(c) :
          queue' = Append(queue, [event |-> e, asker |-> c, awaited |-> TRUE,
                                  sample |-> FALSE])
    BY <1>5 DEF SendRequest
  <2>2. e \in Events /\ Genuine(e)
    BY EventTyped DEF RequestsOf, EventTypes, RequestTypes, Genuine, TargetEvent, Event,
       ExternalTypes, DecoderTypes
  <2> DEFINE m == [event |-> e, asker |-> c, awaited |-> TRUE, sample |-> FALSE]
  <2>3. m \in Messages /\ m.event = e /\ ~m.sample
    BY <2>2 DEF Messages
  <2> HIDE DEF m
  <2> QED
    BY <1>4, <2>1, <2>2, <2>3 DEF m
<1>6. ASSUME NEW c \in Callers, Abandon(c)
      PROVE  Sound(queue')
  <2>1. DOMAIN queue' = DOMAIN queue
    BY <1>6 DEF Abandon
  <2>2. \A i \in DOMAIN queue :
          queue'[i].event = queue[i].event /\ queue'[i].sample = queue[i].sample
    BY <1>3, <1>6 DEF Abandon, Messages
  <2> QED
    BY <1>3, <2>1, <2>2
<1>7. PublishFeedback => Sound(queue')
  <2>1. /\ FeedbackMessage.sample = CustomRules
        /\ FeedbackMessage \in Messages
        /\ FeedbackMessage.event.type = IF CustomRules THEN "DecoderHealthy"
                                                       ELSE "ObservationChanged"
        /\ CustomRules => FeedbackMessage.event.observation = "Between"
    <3>1. NormalizeFeedback(Topology, AssertedEnd, asserted) \in Observations
      BY RuntimeAssumption DEF NormalizeFeedback, Observations, Endpoints
    <3>2. {"DecoderHealthy", "ObservationChanged"} \subseteq EventTypes
      BY DEF EventTypes, DecoderTypes, FeedbackTypes
    <3>3. FeedbackMessage.event \in Events
      BY <3>1, <3>2, EventTyped DEF FeedbackMessage
    <3> QED
      BY <3>2, <3>3, RuntimeAssumption DEF FeedbackMessage, Messages, Event, ObservationEvent
  <2>2. Genuine(FeedbackMessage.event)
    BY <2>1 DEF Genuine, ExternalTypes, DecoderTypes
  <2> HIDE DEF FeedbackMessage
  <2> QED
    BY <1>4, <2>1, <2>2 DEF PublishFeedback
<1>8. queue' = queue => Sound(queue')
  BY <1>3
<1>9. Sound(queue')
  BY <1>5, <1>6, <1>7, <1>8, RuntimeAssumption
     DEF Caller, BeginRequest, QueueStaysFull, TakeAnswer, GiveUp,
         Maintenance, ClaimMaintenance, RefuseMaintenance, AdmitMaintenance,
         LeaveMaintenance, ClearCommand, LowerOutputs, LoweringFails,
         Feedback, FirstSample, FeedbackChange, IntervalPasses, vars
<1> QED
  BY <1>1, <1>2, <1>9, NothingApplied

\* The interlock invariant holds on top of the runtime's.
THEOREM InterlockInvariant == Spec => []InterlockInv
<1>1. Init => InterlockInv
  BY DEF Init, InitialSnapshot, InterlockInv, SourcesOK, ContradictionHolds
<1>2. RuntimeInv /\ InterlockInv /\ [Next]_vars => InterlockInv'
  <2> SUFFICES ASSUME RuntimeInv, InterlockInv, [Next]_vars PROVE InterlockInv'
    OBVIOUS
  <2>1. CASE Continue
    BY <2>1, ContinueGenuine
  <2>2. CASE Controller /\ ~Continue
    <3>1. pc \in {"boot", "ready"}
      BY <2>2 DEF Controller, ControllerBoot, ExpirePulse, Expire, DecoderWake, Receive
    <3> QED
      BY <2>2, <3>1, TurnGenuine DEF Controller
  <2>3. CASE (\E c \in Callers : Caller(c)) \/ (\E c \in Impatient : GiveUp(c))
               \/ Maintenance \/ Feedback \/ IntervalPasses
               \/ UNCHANGED vars
    BY <2>3, OthersGenuine
  <2> QED
    BY <2>1, <2>2, <2>3 DEF Next
<1> QED
  BY <1>1, <1>2, RuntimeInvariant, PTL DEF Spec

\* An output becomes active only where DrivePulse puts it there.
LEMMA OutputActivated ==
  ASSUME RuntimeInv, Next, driven' \ driven # {}
  PROVE  pc = "reserved" /\ Reduction.command # "None"
<1>1. DrivePulse
  BY DEF Next, Controller, ControllerBoot, ExpirePulse, Expire, DecoderWake, Receive,
     Continue, ApplyQuietly, RefusePulse, ReservePulse, ActivationFails, CommitPulse,
     Caller, BeginRequest, SendRequest, QueueStaysFull, TakeAnswer, GiveUp,
     Maintenance, ClaimMaintenance, RefuseMaintenance, AdmitMaintenance,
     LeaveMaintenance, ClearCommand, LowerOutputs, LoweringFails,
     Feedback, FirstSample, FeedbackChange, PublishFeedback, IntervalPasses, outputVars
<1> QED
  BY <1>1 DEF DrivePulse, RuntimeInv, TurnOK

\* No output is activated while the accepted feedback is contradictory: not by a
\* target, a bench pulse, a request queued before the contradiction, or one that
\* races with maintenance or with a deadline.
THEOREM ContradictionBlocks == Spec => ContradictionBlocksPulses
<1>1. RuntimeInv /\ InterlockInv /\ [Next]_vars
        => [driven' \ driven # {} => snap.stable # "Contradictory"]_vars
  <2> SUFFICES ASSUME RuntimeInv, InterlockInv, Next, driven' \ driven # {}
               PROVE  snap.stable # "Contradictory"
    BY DEF vars, outputVars
  <2>2. Reduction.command # "None" /\ pc = "reserved"
    BY OutputActivated
  <2>3. snap \in Snapshots /\ Head(todo) \in Events
    BY <2>2, ReductionTyped DEF RuntimeInv, TypeOK
  <2>4. ~Interlocked(snap)
    BY <2>2, <2>3, ReduceInterlocked DEF Reduction
  <2> QED
    BY <2>4 DEF Interlocked, InterlockInv, ContradictionHolds
<1> QED
  BY <1>1, RuntimeInvariant, InterlockInvariant, PTL DEF Spec, ContradictionBlocksPulses

-----------------------------------------------------------------------------
(* Refusals.                                                               *)

\* The reducer refuses a request as a whole: no snapshot, no deadline.
LEMMA ReduceRejected ==
  ASSUME NEW s \in Snapshots, NEW e \in Events, Reduce(s, e).result = "RejectedBusy"
  PROVE  /\ Reduce(s, e).next = s /\ Reduce(s, e).start = {} /\ ~Reduce(s, e).cancel
<1>0. e.type \in EventTypes /\ e.target \in Targets
  BY DEF Events
<1>1. ASSUME e.type \in {"ObservationStable", "DecoderHealthy", "ObstructionAcknowledged",
                         "OpeningTimerExpired", "ClosingTimerExpired"}
      PROVE  FALSE
  BY <1>1 DEF Reduce, OnObservationStable, OnDecoderHealthy, OnTravelTimer,
     OnObstructionAcknowledged, Timed, Quiet
<1>2. ASSUME e.type \in {"Boot", "ObservationChanged", "ExternalOpening", "ExternalClosing",
                         "ExternalStopped", "DecoderObstructed", "DecoderFault",
                         "PulseCompleted"}
      PROVE  FALSE
  BY <1>2 DEF Reduce, OnBoot, OnObservationChanged, OnExternalMovement, OnExternalStopped,
     OnDecoderFault, Timed, Quiet
<1>3. e.type \in RequestTypes
  BY <1>0, <1>1, <1>2 DEF EventTypes, RequestTypes, FeedbackTypes, ExternalTypes,
     DecoderTypes, TimerTypes
<1>4. Decision(s, e.target).result # "RejectedBusy"
  <2>1. DirectionalDecision(s, e.target).result # "RejectedBusy"
    BY DEF DirectionalDecision, Pulse, NoChange, Reply
  <2>2. SequentialDecision(s, e.target).result # "RejectedBusy"
    BY <1>0 DEF SequentialDecision, Pulse, NoChange, Reply
  <2> QED
    BY <2>1, <2>2 DEF Decision
<1>5. Reduce(s, e) = Rejected(s)
  BY <1>3, <1>4 DEF Reduce, OnTargetRequested, OnMaintenancePulse, Pulse, RequestTypes
<1> QED
  BY <1>5 DEF Rejected, Reply

\* A caller that is told "busy" or "hardware error" finds the gate as it was.
THEOREM RefusalsHarmless == Spec => RefusalsChangeNothing
<1>1. ASSUME RuntimeInv, [Next]_vars, NEW c \in Callers,
             notify[c] = "none", notify'[c] \in {"Busy", "HardwareError"}
      PROVE  snap' = snap /\ armed' = armed /\ driven' \subseteq driven
  <2>1. notify \in [Callers -> Results \cup {"none"}] /\ armed \subseteq Deadlines
    BY <1>1 DEF RuntimeInv, TypeOK
  <2>2. ASSUME NEW result, Done(result)
        PROVE  notify'[c] \in {"none", result}
    BY <1>1, <2>1, <2>2 DEF Done
  <2>3. \/ ApplyQuietly \/ RefusePulse \/ ActivationFails \/ CommitPulse
    <3>1. notify' # notify
      BY <1>1
    <3>2. ~(\E a \in Callers : BeginRequest(a) \/ TakeAnswer(a))
      BY <1>1, <2>1 DEF BeginRequest, TakeAnswer
    <3> QED
      BY <1>1, <3>1, <3>2 DEF Next, Controller, ControllerBoot, ExpirePulse, Expire,
         DecoderWake, Receive, Continue, ReservePulse, DrivePulse,
         Caller, SendRequest, QueueStaysFull, GiveUp,
         Maintenance, ClaimMaintenance, RefuseMaintenance, AdmitMaintenance,
         LeaveMaintenance, ClearCommand, LowerOutputs, LoweringFails,
         Feedback, FirstSample, FeedbackChange, PublishFeedback, IntervalPasses,
         vars, callerVars
  <2>4. CASE ApplyQuietly
    <3>1. Reduction.result = "RejectedBusy"
      BY <1>1, <2>2, <2>4 DEF ApplyQuietly
    <3>2. snap \in Snapshots /\ Head(todo) \in Events /\ Reduction = Reduce(snap, Head(todo))
      BY <1>1, <2>4, ReductionTyped DEF ApplyQuietly, RuntimeInv, TypeOK, Reduction
    <3>3. Reduction.next = snap /\ Reduction.start = {} /\ ~Reduction.cancel
      BY <3>1, <3>2, ReduceRejected
    <3> QED
      BY <2>4, <3>3 DEF ApplyQuietly, Commit, Rearmed, outputVars
  <2>5. CASE RefusePulse \/ ActivationFails
    BY <2>5 DEF RefusePulse, ActivationFails, outputVars
  <2>6. ~CommitPulse
    BY <1>1, <2>2 DEF CommitPulse
  <2> QED
    BY <2>3, <2>4, <2>5, <2>6
<1>2. RuntimeInv /\ [Next]_vars =>
        [\A c \in Callers :
           notify[c] = "none" /\ notify'[c] \in {"Busy", "HardwareError"}
             => snap' = snap /\ armed' = armed /\ driven' \subseteq driven]_vars
  BY <1>1
<1> QED
  BY <1>2, RuntimeInvariant, PTL DEF Spec, RefusalsChangeNothing

-----------------------------------------------------------------------------
(* Claims.                                                                 *)

\* Only a pulse or a decoded movement starts to show travel.
LEMMA ReduceClaimsTravel ==
  ASSUME NEW s \in Snapshots, NEW e \in Events, Reduce(s, e).command = "None",
         Reduce(s, e).next.state \in Directions, Reduce(s, e).next.state # s.state
  PROVE  e.type \in ExternalTypes
<1>0. e.type \in EventTypes /\ e.target \in Targets /\ e.observation \in Observations
      /\ s.state \in States
  BY DEF Events, Snapshots
<1> DEFINE Kept(n) == n.state = s.state \/ n.state \notin Directions
<1>1. CASE e.type = "Boot"
  BY <1>1 DEF Reduce, OnBoot, Timed, InitialSnapshot, Directions
<1>2. CASE e.type \in RequestTypes
  <2>2. \A n : Rejected(n).next = n /\ NoChange(n).next = n
    BY DEF Rejected, NoChange, Reply
  <2>3. [s EXCEPT !.target = e.target].state = s.state
    BY DEF Snapshots
  <2>4. DirectionalDecision(s, e.target).command = "None" =>
          DirectionalDecision(s, e.target).next.state = s.state
    BY <2>2, <2>3 DEF DirectionalDecision, Pulse
  <2>5. SequentialDecision(s, e.target).command = "None" =>
          SequentialDecision(s, e.target).next.state = s.state
    <3>1. CASE \/ s.state \in {Opposite(e.target), Pausing(Toward(Opposite(e.target)))}
               \/ s.state = Toward(Opposite(e.target))
               \/ s.state = "UnknownStopped" /\ e.target # s.target
      BY <1>0, <3>1 DEF SequentialDecision, Pulse, Toward, Opposite, Pausing, Targets
    <3>2. CASE /\ s.state \notin {Opposite(e.target), Pausing(Toward(Opposite(e.target)))}
               /\ s.state # Toward(Opposite(e.target))
               /\ ~(s.state = "UnknownStopped" /\ e.target # s.target)
      BY <2>2, <2>3, <3>2 DEF SequentialDecision
    <3> QED
      BY <3>1, <3>2
  <2>6. Decision(s, e.target).command = "None" => Decision(s, e.target).next.state = s.state
    BY <2>4, <2>5 DEF Decision
  <2> HIDE DEF Kept
  <2>7. CASE e.type = "TargetRequested"
    <3>1. Reduce(s, e) \in {Rejected(s), Decision(s, e.target)}
      BY <2>7 DEF Reduce, OnTargetRequested
    <3> QED
      BY <3>1, <2>2, <2>6
  <2>8. CASE e.type = "MaintenancePulseRequested"
    <3>1. Reduce(s, e) = Rejected(s)
      BY <2>8 DEF Reduce, OnMaintenancePulse, Pulse
    <3> QED
      BY <3>1, <2>2
  <2> QED
    BY <1>2, <2>7, <2>8 DEF RequestTypes
<1>3. CASE e.type \in {"ObservationChanged", "PulseCompleted", "ObstructionAcknowledged",
                     "DecoderObstructed", "DecoderHealthy", "DecoderFault"}
  BY <1>3 DEF Reduce, OnObservationChanged, OnObstructionAcknowledged, OnDecoderHealthy,
     OnDecoderFault, Quiet, Timed, Snapshots, Directions
<1>4. CASE e.type = "ObservationStable"
  <2> DEFINE seen == [s EXCEPT !.pending = e.observation, !.stable = e.observation,
                               !.valid = TRUE]
  <2>1. seen \in Snapshots /\ seen.state = s.state
    BY <1>0 DEF Snapshots
  <2> HIDE DEF seen
  <2>2. /\ Kept(AtEndpoint(seen, "Open")) /\ Kept(AtEndpoint(seen, "Closed"))
        /\ Kept(Uncontradicted(seen)) /\ Kept(Contradicted(seen)) /\ Kept(seen)
    BY <2>1 DEF AtEndpoint, Uncontradicted, Contradicted, StoppedAfter, Pausing, Snapshots,
       Directions
  <2>4. Reduce(s, e) = OnObservationStable(s, e.observation)
    BY <1>4 DEF Reduce
  <2>5. Kept(OnObservationStable(s, e.observation).next)
    BY <2>2 DEF OnObservationStable, Timed, Quiet, seen
  <2> QED
    BY <2>4, <2>5
<1>5. CASE e.type \in {"OpeningTimerExpired", "ClosingTimerExpired"}
  BY <1>5 DEF Reduce, OnTravelTimer, Quiet, Timed, Snapshots, Pausing, Directions
<1> QED
  BY <1>0, <1>1, <1>2, <1>3, <1>4, <1>5
     DEF EventTypes, RequestTypes, FeedbackTypes, ExternalTypes, DecoderTypes, TimerTypes

\* Only accepted feedback of an endpoint starts to show that endpoint.
LEMMA ReduceClaimsEndpoint ==
  ASSUME NEW s \in Snapshots, NEW e \in Events, NEW target \in Targets,
         Reduce(s, e).next.state = target, s.state # target
  PROVE  Reduce(s, e).next.valid /\ Reduce(s, e).next.stable = EndpointOf(target)
<1>0. e.type \in EventTypes /\ e.target \in Targets /\ e.observation \in Observations
      /\ s.state \in States
  BY DEF Events, Snapshots
<1> DEFINE Kept(n) == n.state = s.state \/ n.state \notin Targets
<1>1. CASE e.type = "Boot"
  BY <1>1 DEF Reduce, OnBoot, Timed, InitialSnapshot, Targets
<1>2. CASE e.type \in RequestTypes
  <2>1. \A n \in Snapshots : \A c, start, cancel :
          Pulse(n, c, start, cancel).next.state = n.state
    BY DEF Pulse, Snapshots
  <2>2. \A n : Rejected(n).next = n /\ NoChange(n).next = n
    BY DEF Rejected, NoChange, Reply
  <2>3. /\ Kept(s) /\ s \in Snapshots
        /\ Kept([s EXCEPT !.target = e.target]) /\ [s EXCEPT !.target = e.target] \in Snapshots
        /\ Kept(Moving(s, e.target))
    BY <1>0 DEF Snapshots, Moving, Toward, Targets
  <2>11. Moving(s, e.target) \in Snapshots
    BY <1>0, MovingType
  <2>4. s.state \in Directions => /\ Paused(s, s.state) \in Snapshots
                                  /\ Kept(Paused(s, s.state))
    BY ZenonT(60) DEF Paused, Pausing, Snapshots, States, Stopped, Directions, Targets
  <2>5. Toward(Opposite(e.target)) \in Directions
    BY DEF Toward, Directions
  <2> HIDE DEF Kept
  <2>6. ASSUME NEW n \in Snapshots, Kept(n), NEW c, NEW start, NEW cancel
        PROVE  Kept(Pulse(n, c, start, cancel).next) /\ Kept(NoChange(n).next)
    BY <2>1, <2>2, <2>6 DEF Kept
  <2>7. Kept(DirectionalDecision(s, e.target).next)
    BY <2>3, <2>6, <2>11 DEF DirectionalDecision
  <2>8. Kept(SequentialDecision(s, e.target).next)
    <3>1. CASE s.state \in {Opposite(e.target), Pausing(Toward(Opposite(e.target)))}
      <4>1. SequentialDecision(s, e.target)
              = Pulse(Moving(s, e.target), "Step", {Toward(e.target)}, FALSE)
        BY <1>0, <3>1 DEF SequentialDecision, Toward, Opposite, Pausing, Targets
      <4> QED
        BY <4>1, <2>3, <2>6, <2>11
    <3>2. CASE s.state = Toward(Opposite(e.target))
      <4>1. SequentialDecision(s, e.target) = Pulse(Paused(s, s.state), "Step", {}, TRUE)
        BY <1>0, <3>2 DEF SequentialDecision, Toward, Opposite, Pausing, Targets
      <4> QED
        BY <4>1, <3>2, <2>4, <2>5, <2>6
    <3>3. CASE /\ s.state \notin {Opposite(e.target), Pausing(Toward(Opposite(e.target)))}
               /\ s.state # Toward(Opposite(e.target))
      BY <3>3, <2>3, <2>6 DEF SequentialDecision
    <3> QED
      BY <3>1, <3>2, <3>3
  <2>9. Kept(Decision(s, e.target).next)
    BY <2>7, <2>8 DEF Decision
  <2>10. Kept(Reduce(s, e).next)
    <3>1. CASE e.type = "TargetRequested"
      BY <3>1, <2>2, <2>3, <2>9 DEF Reduce, OnTargetRequested
    <3>2. CASE e.type = "MaintenancePulseRequested"
      BY <3>2, <2>2, <2>3, <2>6, ZenonT(60) DEF Reduce, OnMaintenancePulse
    <3> QED
      BY <1>2, <3>1, <3>2 DEF RequestTypes
  <2> QED
    BY <2>10 DEF Kept
<1>3. CASE e.type \in {"ObservationChanged", "PulseCompleted", "ObstructionAcknowledged",
                     "DecoderObstructed", "DecoderHealthy", "DecoderFault"}
  BY <1>3, ZenonT(60) DEF Reduce, OnObservationChanged, OnObstructionAcknowledged, OnDecoderHealthy,
     OnDecoderFault, Quiet, Timed, Snapshots, Targets
<1>4. CASE e.type = "ObservationStable"
  <2> DEFINE seen == [s EXCEPT !.pending = e.observation, !.stable = e.observation,
                               !.valid = TRUE]
  <2>1. seen \in Snapshots /\ seen.state = s.state /\ seen.stable = e.observation /\ seen.valid
    BY <1>0 DEF Snapshots
  <2>2. Reduce(s, e) = OnObservationStable(s, e.observation)
    BY <1>4 DEF Reduce
  <2> HIDE DEF seen
  <2>4. /\ \A t \in Targets : /\ AtEndpoint(seen, t).state = t
                              /\ AtEndpoint(seen, t).stable = e.observation
                              /\ AtEndpoint(seen, t).valid
    BY <2>1 DEF AtEndpoint, Snapshots
  <2>5. Kept(Uncontradicted(seen)) /\ Kept(Contradicted(seen)) /\ Kept(seen)
    BY <2>1 DEF Uncontradicted, Contradicted, StoppedAfter, Pausing, Snapshots, Targets
  <2>6. CASE e.observation \notin Endpoints
    <3>1. Kept(OnObservationStable(s, e.observation).next)
      BY <2>5, <2>6 DEF OnObservationStable, Timed, Quiet, seen, Endpoints
    <3> QED
      BY <2>2, <3>1
  <2>7. CASE e.observation = "Opened"
    <3>1. Reduce(s, e).next = AtEndpoint(seen, "Open")
      BY <2>2, <2>7 DEF OnObservationStable, Timed, seen
    <3> QED
      BY <2>4, <2>7, <3>1 DEF EndpointOf, Targets
  <2>8. CASE e.observation = "Closed"
    <3>1. Reduce(s, e).next = AtEndpoint(seen, "Closed")
      BY <2>2, <2>8 DEF OnObservationStable, Timed, seen
    <3> QED
      BY <2>4, <2>8, <3>1 DEF EndpointOf, Targets
  <2> QED
    BY <2>6, <2>7, <2>8 DEF Endpoints
<1>5. CASE e.type \in {"OpeningTimerExpired", "ClosingTimerExpired"}
  BY <1>5, ZenonT(60) DEF Reduce, OnTravelTimer, Quiet, Timed, Snapshots, Pausing, Targets
<1>6. CASE e.type \in {"ExternalOpening", "ExternalClosing"}
  BY <1>6, ZenonT(60) DEF Reduce, OnExternalMovement, Moving, Toward, Timed, Snapshots, Targets
<1>7. CASE e.type = "ExternalStopped"
  BY <1>7 DEF Reduce, OnExternalStopped, StoppedAfter, Pausing, Timed, Snapshots, Targets
<1> QED
  BY <1>0, <1>1, <1>2, <1>3, <1>4, <1>5, <1>6, <1>7
     DEF EventTypes, RequestTypes, FeedbackTypes, ExternalTypes, DecoderTypes, TimerTypes

\* The snapshot changes only when the controller commits a reduction.
LEMMA SnapshotCommitted ==
  ASSUME [Next]_vars, snap' # snap
  PROVE  /\ ApplyQuietly \/ CommitPulse
         /\ snap' = Reduction.next
<1>1. ApplyQuietly \/ CommitPulse
  BY DEF Next, Controller, ControllerBoot, ExpirePulse, Expire, DecoderWake, Receive,
     Continue, RefusePulse, ReservePulse, DrivePulse, ActivationFails,
     Caller, BeginRequest, SendRequest, QueueStaysFull, TakeAnswer, GiveUp,
     Maintenance, ClaimMaintenance, RefuseMaintenance, AdmitMaintenance,
     LeaveMaintenance, ClearCommand, LowerOutputs, LoweringFails,
     Feedback, FirstSample, FeedbackChange, PublishFeedback, IntervalPasses,
     vars, controllerVars
<1> QED
  BY <1>1 DEF ApplyQuietly, CommitPulse, Commit

\* Travel is claimed for a pulse that was driven or a decoded movement, an
\* endpoint for accepted feedback of that endpoint.
THEOREM ClaimsEarned == Spec => ClaimsAreEarned
<1>1. ASSUME RuntimeInv, [Next]_vars, snap' # snap
      PROVE  /\ snap'.state \in Directions /\ snap'.state # snap.state
                  => (pc = "driven" /\ busy) \/ Head(todo).type \in ExternalTypes
             /\ \A target \in Targets : snap'.state = target /\ snap.state # target
                  => snap'.valid /\ snap'.stable = EndpointOf(target)
  <2>1. /\ ApplyQuietly \/ CommitPulse
        /\ snap' = Reduction.next
    BY <1>1, SnapshotCommitted
  <2>2. snap \in Snapshots /\ Head(todo) \in Events /\ Reduction = Reduce(snap, Head(todo))
    BY <1>1, <2>1, ReductionTyped DEF ApplyQuietly, CommitPulse, RuntimeInv, TypeOK, Reduction
  <2>3. CommitPulse => pc = "driven" /\ busy
    BY <1>1 DEF CommitPulse, RuntimeInv, PulseOK
  <2>4. ApplyQuietly => Reduction.command = "None"
    BY DEF ApplyQuietly
  <2> QED
    BY <2>1, <2>2, <2>3, <2>4, ReduceClaimsTravel, ReduceClaimsEndpoint
<1>2. RuntimeInv /\ [Next]_vars =>
        [/\ snap'.state \in Directions /\ snap'.state # snap.state
              => (pc = "driven" /\ busy) \/ Head(todo).type \in ExternalTypes
         /\ \A target \in Targets : snap'.state = target /\ snap.state # target
              => snap'.valid /\ snap'.stable = EndpointOf(target)]_vars
  BY <1>1
<1> QED
  BY <1>2, RuntimeInvariant, PTL DEF Spec, ClaimsAreEarned
-----------------------------------------------------------------------------
(* Feedback, without custom rules and with the first levels stored before  *)
(* the boot event.                                                         *)

\* Only a boot and the feedback events replace the pending observation.
LEMMA ReducePending ==
  ASSUME NEW s \in Snapshots, NEW e \in Events
  PROVE  Reduce(s, e).next.pending =
           IF e.type \in {"Boot"} \cup FeedbackTypes THEN e.observation ELSE s.pending
<1>0. e.type \in EventTypes /\ e.target \in Targets /\ e.observation \in Observations
  BY DEF Events
<1>1. CASE e.type = "Boot"
  BY <1>1 DEF Reduce, OnBoot, Timed, InitialSnapshot
<1>2. CASE e.type \in RequestTypes
  BY <1>2, RequestObservations DEF RequestTypes, FeedbackTypes
<1>3. CASE e.type \in {"ObservationChanged", "PulseCompleted", "ObstructionAcknowledged",
                     "DecoderObstructed", "DecoderHealthy", "DecoderFault",
                     "ExternalStopped"}
  BY <1>3 DEF Reduce, OnObservationChanged, OnObstructionAcknowledged, OnDecoderHealthy,
     OnDecoderFault, OnExternalStopped, Quiet, Timed, Snapshots, FeedbackTypes
<1>4. CASE e.type = "ObservationStable"
  <2> DEFINE seen == [s EXCEPT !.pending = e.observation, !.stable = e.observation,
                               !.valid = TRUE]
  <2>1. seen \in Snapshots /\ seen.pending = e.observation
    BY <1>0 DEF Snapshots
  <2>2. Reduce(s, e) = OnObservationStable(s, e.observation)
    BY <1>4 DEF Reduce
  <2> HIDE DEF seen
  <2>3. /\ AtEndpoint(seen, "Open").pending = e.observation
        /\ AtEndpoint(seen, "Closed").pending = e.observation
        /\ Contradicted(seen).pending = e.observation
        /\ Uncontradicted(seen).pending = e.observation
    BY <2>1 DEF AtEndpoint, Contradicted, Uncontradicted, Snapshots
  <2>4. OnObservationStable(s, e.observation).next.pending = e.observation
    BY <2>1, <2>3 DEF OnObservationStable, Timed, Quiet, seen
  <2> QED
    BY <1>4, <2>2, <2>4 DEF FeedbackTypes
<1>5. CASE e.type \in {"OpeningTimerExpired", "ClosingTimerExpired"}
  BY <1>5 DEF Reduce, OnTravelTimer, Quiet, Timed, Snapshots, FeedbackTypes
<1>6. CASE e.type \in {"ExternalOpening", "ExternalClosing"}
  BY <1>6 DEF Reduce, OnExternalMovement, Moving, Timed, Snapshots, FeedbackTypes
<1> QED
  BY <1>0, <1>1, <1>2, <1>3, <1>4, <1>5, <1>6
     DEF EventTypes, RequestTypes, FeedbackTypes, ExternalTypes, DecoderTypes, TimerTypes

\* A step that leaves the announced observation, the messages and the feedback
\* task alone.
LEMMA NothingObserved ==
  ASSUME FollowInv, UNCHANGED feedbackVars, Announced' = Announced,
         pc = "boot" <=> pc' = "boot", Len(todo') <= 1,
         pc' = "applying" /\ Head(todo').type = "ObservationStable" =>
           Head(todo').observation = snap'.pending,
         DOMAIN queue' = DOMAIN queue,
         \A i \in DOMAIN queue :
           queue'[i].event = queue[i].event /\ queue'[i].asker = queue[i].asker
  PROVE  FollowInv'
<1>1. Published' = Published /\ Observed' = Observed
  BY DEF Published, Observed, feedbackVars
<1> QED
  BY <1>1 DEF FollowInv, feedbackVars, Published

LEMMA BootFollowed ==
  ASSUME ~CustomRules, SampledFirst, RuntimeInv, FollowInv, ControllerBoot
  PROVE  FollowInv'
<1> DEFINE e == ObservationEvent("Boot", Observed)
<1>1. e.type = "Boot" /\ e.observation = Observed /\ Head(<<e>>) = e /\ Len(<<e>>) = 1
  BY DEF ObservationEvent, Event
<1>2. /\ todo' = <<e>> /\ pc' = "applying" /\ pc = "boot" /\ feedback # "start"
      /\ queue' = queue /\ UNCHANGED feedbackVars
  BY DEF ControllerBoot, TakeTurn, Observed
<1>3. Observed' = Observed /\ Published' = Published
  BY <1>2 DEF Observed, Published, feedbackVars
<1>4. Announced' = Observed'
  BY <1>1, <1>2, <1>3 DEF Announced
<1> HIDE DEF e
<1> QED
  BY <1>1, <1>2, <1>3, <1>4 DEF FollowInv, feedbackVars, Published

LEMMA ReceiveFollowed ==
  ASSUME ~CustomRules, RuntimeInv, InterlockInv, FollowInv, Receive
  PROVE  FollowInv'
<1>1. /\ pc = "ready" /\ queue # <<>> /\ queue' = Tail(queue) /\ snap' = snap
      /\ UNCHANGED feedbackVars
  BY DEF Receive
<1>2. /\ Len(queue) \in Nat \ {0} /\ DOMAIN queue = 1..Len(queue)
      /\ DOMAIN queue' = 1..(Len(queue) - 1)
      /\ \A i \in DOMAIN queue' : queue'[i] = queue[i + 1]
      /\ Head(queue) = queue[1]
  BY <1>1, MessageTaken
<1> DEFINE m == queue[1]
<1>3. 1 \in DOMAIN queue /\ ~m.sample
  BY <1>2 DEF InterlockInv, SourcesOK
<1>4. todo' = <<m.event>> /\ pc' = "applying"
  BY <1>2, <1>3 DEF Receive, TakeTurn
<1>5. Head(todo') = m.event /\ Len(todo') = 1
  BY <1>4
<1>6. Observed' = Observed
  BY <1>1 DEF Observed, feedbackVars
<1>7. /\ \A i \in DOMAIN queue' : i \in Published' <=> i + 1 \in Published
      /\ Published \subseteq DOMAIN queue /\ Published' \subseteq DOMAIN queue'
      /\ 1 \in Published <=> m.asker = NoCaller
  BY <1>2, <1>3 DEF Published
<1> HIDE DEF m
<1>8. feedback # "start" /\ feedback' = feedback /\ pc' # "boot"
  BY <1>1, <1>4 DEF FollowInv, feedbackVars
<1>9. \A i \in DOMAIN queue' :
        IF i \in Published' THEN queue'[i].event.type = "ObservationChanged"
                            ELSE queue'[i].event.type \in RequestTypes
  BY <1>2, <1>7 DEF FollowInv
<1>10. ASSUME NEW i \in Published', \A j \in Published' : j <= i, feedback = "sampling"
       PROVE  queue'[i].event.observation = Observed'
  <2>1. i + 1 \in Published /\ i \in DOMAIN queue' /\ queue'[i] = queue[i + 1]
    BY <1>2, <1>7
  <2>2. ASSUME NEW j \in Published
        PROVE  j <= i + 1
    <3>1. CASE j = 1
      BY <3>1, <1>2, <2>1
    <3>2. CASE j # 1
      <4>1. j - 1 \in DOMAIN queue' /\ (j - 1) + 1 = j
        BY <3>2, <1>2, <1>7
      <4>2. j - 1 \in Published'
        BY <4>1, <1>7
      <4> QED
        BY <4>1, <4>2, <1>10, <1>2, <1>7
    <3> QED
      BY <3>1, <3>2
  <2> QED
    BY <2>1, <2>2, <1>6, <1>10 DEF FollowInv
<1>11. Announced' = IF 1 \in Published THEN m.event.observation ELSE Announced
  <2>1. m.event.type = IF 1 \in Published THEN "ObservationChanged" ELSE m.event.type
    BY <1>3 DEF FollowInv, m
  <2>2. 1 \notin Published => m.event.type \notin {"Boot", "ObservationChanged"}
    BY <1>3 DEF FollowInv, m, RequestTypes
  <2> QED
    BY <1>1, <1>4, <1>5, <2>1, <2>2 DEF Announced
<1>12. ASSUME feedback = "sampling", Published' = {}
       PROVE  Announced' = Observed'
  <2>1. ASSUME NEW j \in Published, j # 1
        PROVE  FALSE
    <3>1. j - 1 \in DOMAIN queue' /\ (j - 1) + 1 = j
      BY <2>1, <1>2, <1>7
    <3> QED
      BY <2>1, <3>1, <1>7, <1>12
  <2>2. CASE 1 \in Published
    <3>1. \A j \in Published : j <= 1
      BY <2>1
    <3> QED
      BY <2>2, <3>1, <1>6, <1>11, <1>12 DEF FollowInv, m
  <2>3. CASE 1 \notin Published
    BY <2>1, <2>3, <1>1, <1>6, <1>11, <1>12 DEF FollowInv
  <2> QED
    BY <2>2, <2>3
<1>13. Head(todo').type # "ObservationStable"
  BY <1>3, <1>5 DEF FollowInv, m, RequestTypes
<1> QED
  BY <1>5, <1>8, <1>9, <1>10, <1>12, <1>13 DEF FollowInv

LEMMA ContinueFollowed ==
  ASSUME RuntimeInv, FollowInv, Continue
  PROVE  FollowInv'
<1>1. pc \in {"applying", "reserved", "driven"} /\ todo # <<>> /\ todo \in Seq(Events)
      /\ queue' = queue /\ UNCHANGED feedbackVars
  BY DEF Continue, ApplyQuietly, RefusePulse, ReservePulse, DrivePulse, ActivationFails,
     CommitPulse, RuntimeInv, TypeOK, TurnOK
<1>2. /\ snap \in Snapshots /\ Head(todo) \in Events /\ Reduction = Reduce(snap, Head(todo))
  BY <1>1, ReductionTyped DEF RuntimeInv, TypeOK, Reduction
<1>3. Len(todo) = 1 /\ Tail(todo) = <<>>
  <2>1. Len(todo) \in Nat \ {0} /\ Len(todo) <= 1
    BY <1>1, LenProperties, EmptySeq DEF FollowInv
  <2>2. Len(Tail(todo)) = Len(todo) - 1 /\ Tail(todo) \in Seq(Events)
    BY <1>1, HeadTailProperties
  <2> QED
    BY <2>1, <2>2, EmptySeq
<1>4. Reduction.command # "None" => Head(todo).type \in RequestTypes
  BY <1>2, ReducePulse
<1>5. pc \in {"reserved", "driven"} => Reduction.command # "None"
  BY DEF RuntimeInv, TurnOK
<1>6. \/ todo' = todo /\ pc' \in {"reserved", "driven"}
      \/ todo' = <<>> /\ pc' = "ready"
  BY <1>3 DEF Continue, ApplyQuietly, RefusePulse, ReservePulse, DrivePulse,
     ActivationFails, CommitPulse, Done
<1>7. snap' = snap \/ snap' = Reduction.next
  BY DEF Continue, ApplyQuietly, RefusePulse, ReservePulse, DrivePulse, ActivationFails,
     CommitPulse, Commit
<1>8. Head(todo).type \in RequestTypes => snap'.pending = snap.pending
  BY <1>2, <1>7, RequestObservations
<1>9. Reduction.command = "None" => snap' = Reduction.next
  BY <1>5 DEF Continue, ApplyQuietly, RefusePulse, ReservePulse, DrivePulse,
     ActivationFails, CommitPulse, Commit
<1>10. Announced' = snap'.pending
  BY <1>6 DEF Announced
<1>11. Announced' = Announced
  <2>1. CASE Head(todo).type \in RequestTypes
    BY <2>1, <1>8, <1>10 DEF Announced, RequestTypes
  <2>2. CASE Head(todo).type \notin RequestTypes
    <3>1. snap' = Reduction.next /\ pc = "applying"
      BY <1>1, <1>4, <1>5, <1>9, <2>2
    <3>2. snap'.pending = IF Head(todo).type \in {"Boot"} \cup FeedbackTypes
                          THEN Head(todo).observation ELSE snap.pending
      BY <1>2, <3>1, ReducePending
    <3>3. Head(todo).type = "ObservationStable" => Head(todo).observation = snap.pending
      BY <3>1 DEF FollowInv
    <3> QED
      BY <3>1, <3>2, <3>3, <1>10 DEF Announced, FeedbackTypes
  <2> QED
    BY <2>1, <2>2
<1>12. Len(todo') <= 1
  <2>1. CASE todo' = todo
    BY <1>3, <2>1
  <2>2. CASE todo' = <<>>
    BY <2>2
  <2> QED
    BY <1>6, <2>1, <2>2
<1>13. pc # "boot" /\ pc' \notin {"boot", "applying"}
  BY <1>1, <1>6
<1>14. /\ DOMAIN queue' = DOMAIN queue
       /\ \A i \in DOMAIN queue :
            queue'[i].event = queue[i].event /\ queue'[i].asker = queue[i].asker
  BY <1>1
<1> QED
  BY <1>1, <1>11, <1>12, <1>13, <1>14, NothingObserved

LEMMA OthersFollowed ==
  ASSUME ~CustomRules, SampledFirst, RuntimeInv, FollowInv,
         \/ (\E c \in Callers : Caller(c)) \/ (\E c \in Impatient : GiveUp(c))
         \/ Maintenance \/ Feedback \/ IntervalPasses \/ UNCHANGED vars
  PROVE  FollowInv'
<1>1. UNCHANGED <<snap, pc, todo>>
  BY DEF Caller, BeginRequest, SendRequest, QueueStaysFull, TakeAnswer, GiveUp,
     Maintenance, ClaimMaintenance, RefuseMaintenance, AdmitMaintenance,
     LeaveMaintenance, ClearCommand, LowerOutputs, LoweringFails,
     Feedback, FirstSample, FeedbackChange, PublishFeedback, IntervalPasses,
     vars, controllerVars
<1>2. Announced' = Announced
  BY <1>1 DEF Announced
<1>3. queue \in Seq(Messages) /\ Len(queue) \in Nat /\ DOMAIN queue = 1..Len(queue)
  BY LenProperties DEF RuntimeInv, TypeOK
<1>4. /\ Len(todo') <= 1
      /\ pc' = "applying" /\ Head(todo').type = "ObservationStable" =>
           Head(todo').observation = snap'.pending
  BY <1>1 DEF FollowInv
<1>5. ASSUME NEW m \in Messages, queue' = Append(queue, m)
      PROVE  /\ DOMAIN queue' = DOMAIN queue \cup {Len(queue) + 1}
             /\ queue'[Len(queue) + 1] = m
             /\ \A i \in DOMAIN queue : queue'[i] = queue[i] /\ i < Len(queue) + 1
             /\ Published' = Published \cup {i \in {Len(queue) + 1} : m.asker = NoCaller}
  <2>1. /\ queue' \in Seq(Messages) /\ Len(queue') = Len(queue) + 1
        /\ \A i \in 1..Len(queue) : queue'[i] = queue[i]
        /\ queue'[Len(queue) + 1] = m
    BY <1>3, <1>5, AppendProperties
  <2>2. DOMAIN queue' = 1..(Len(queue) + 1)
    BY <2>1, LenProperties
  <2> QED
    BY <1>3, <2>1, <2>2 DEF Published
<1>6. ASSUME NEW c \in Callers, SendRequest(c)
      PROVE  FollowInv'
  <2>1. PICK m \in Messages : /\ queue' = Append(queue, m) /\ m.asker = c
                              /\ m.event.type \in RequestTypes
    BY <1>6, RequestSent
  <2>2. Published' = Published /\ Published \subseteq DOMAIN queue
    BY <2>1, <1>5, RuntimeAssumption DEF Published
  <2>3. UNCHANGED feedbackVars /\ Observed' = Observed
    BY <1>6 DEF SendRequest, feedbackVars, Observed
  <2>4. \A i \in DOMAIN queue' :
          IF i \in Published' THEN queue'[i].event.type = "ObservationChanged"
                              ELSE queue'[i].event.type \in RequestTypes
    <3>1. Len(queue) + 1 \notin Published
      BY <2>2, <1>3
    <3> QED
      BY <2>1, <2>2, <3>1, <1>5 DEF FollowInv
  <2>5. \A i \in Published : queue'[i] = queue[i]
    BY <2>1, <2>2, <1>5
  <2> QED
    BY <1>1, <1>2, <1>4, <2>2, <2>3, <2>4, <2>5 DEF FollowInv, feedbackVars
<1>7. ASSUME PublishFeedback
      PROVE  FollowInv'
  <2>1. /\ FeedbackMessage \in Messages /\ queue' = Append(queue, FeedbackMessage)
        /\ FeedbackMessage.asker = NoCaller
    BY <1>7, FeedbackSent
  <2>2. /\ FeedbackMessage.event.type = "ObservationChanged"
        /\ FeedbackMessage.event.observation = Observed
    BY DEF FeedbackMessage, ObservationEvent, Event, Observed
  <2> HIDE DEF FeedbackMessage
  <2>3. Published' = Published \cup {Len(queue) + 1} /\ Published \subseteq DOMAIN queue
    BY <2>1, <1>5 DEF Published
  <2>4. feedback = "sending" /\ feedback' = "sampling" /\ Observed' = Observed
    BY <1>7 DEF PublishFeedback, Observed
  <2>5. \A i \in DOMAIN queue' :
          IF i \in Published' THEN queue'[i].event.type = "ObservationChanged"
                              ELSE queue'[i].event.type \in RequestTypes
    BY <2>1, <2>2, <2>3, <1>5 DEF FollowInv
  <2>6. ASSUME NEW i \in Published', \A j \in Published' : j <= i
        PROVE  queue'[i].event.observation = Observed'
    <3>1. i = Len(queue) + 1
      <4>1. i \in 1..(Len(queue) + 1) /\ Len(queue) + 1 <= i
        BY <2>3, <2>6, <1>3
      <4> QED
        BY <4>1, <1>3
    <3> QED
      BY <3>1, <2>1, <2>2, <2>4, <1>5
  <2>7. Published' # {}
    BY <2>3
  <2> QED
    BY <1>4, <2>4, <2>5, <2>6, <2>7 DEF FollowInv
<1>8. ASSUME FirstSample
      PROVE  FollowInv'
  <2>1. feedback = "start" /\ feedback' = "sampling" /\ queue' = queue
    BY <1>8 DEF FirstSample
  <2>2. pc' = "boot" /\ Published' = {} /\ Published = {}
    BY <1>1, <2>1 DEF FollowInv, Published
  <2> QED
    BY <1>4, <2>1, <2>2 DEF FollowInv
<1>9. ASSUME FeedbackChange
      PROVE  FollowInv'
  <2>1. feedback' = "sending" /\ queue' = queue
    BY <1>9 DEF FeedbackChange
  <2>2. Published' = Published
    BY <2>1 DEF Published
  <2> QED
    BY <1>4, <2>1, <2>2 DEF FollowInv
<1>10. ASSUME UNCHANGED feedbackVars, DOMAIN queue' = DOMAIN queue,
              \A i \in DOMAIN queue :
                queue'[i].event = queue[i].event /\ queue'[i].asker = queue[i].asker
       PROVE  FollowInv'
  BY <1>1, <1>2, <1>4, <1>10, NothingObserved
<1>11. ASSUME NEW c \in Callers, Abandon(c), UNCHANGED feedbackVars
       PROVE  FollowInv'
  BY <1>10, <1>11, AbandonedMessages
<1>12. ASSUME queue' = queue, UNCHANGED feedbackVars
       PROVE  FollowInv'
  BY <1>10, <1>12
<1> QED
  BY <1>6, <1>7, <1>8, <1>9, <1>11, <1>12, RuntimeAssumption
     DEF Caller, BeginRequest, QueueStaysFull, TakeAnswer, GiveUp,
         Maintenance, ClaimMaintenance, RefuseMaintenance, AdmitMaintenance,
         LeaveMaintenance, ClearCommand, LowerOutputs, LoweringFails,
         Feedback, IntervalPasses, vars

\* The last change that was published is in the queue, in the turn, or taken over.
THEOREM FollowInvariant ==
  ASSUME ~CustomRules, SampledFirst
  PROVE  Spec => []FollowInv
<1>1. Init => FollowInv
  BY DEF Init, FollowInv, Published
<1>2. RuntimeInv /\ InterlockInv /\ FollowInv /\ [Next]_vars => FollowInv'
  <2> SUFFICES ASSUME RuntimeInv, InterlockInv, FollowInv, [Next]_vars PROVE FollowInv'
    OBVIOUS
  <2>1. CASE ControllerBoot
    BY <2>1, BootFollowed
  <2>2. CASE Receive
    BY <2>2, ReceiveFollowed
  <2>3. CASE Continue
    BY <2>3, ContinueFollowed
  <2>4. CASE ExpirePulse \/ (\E timer \in Timers : Expire(timer))
    <3>1. PICK e \in Events :
            /\ todo' = <<e>> /\ pc' = "applying" /\ pc = "ready"
            /\ queue' = queue /\ UNCHANGED feedbackVars /\ snap' = snap
            /\ e.type \notin {"Boot", "ObservationChanged"}
            /\ e.type = "ObservationStable" => e.observation = snap.pending
      <4>1. /\ \A type \in TimerTypes : Event(type) \in Events /\ Event(type).type = type
            /\ ObservationEvent("ObservationStable", snap.pending) \in Events
            /\ ObservationEvent("ObservationStable", snap.pending).type = "ObservationStable"
            /\ ObservationEvent("ObservationStable", snap.pending).observation = snap.pending
        <5>1. snap.pending \in Observations
          BY DEF RuntimeInv, TypeOK, Snapshots
        <5> QED
          BY <5>1, EventTyped DEF EventTypes, FeedbackTypes, ObservationEvent, Event
      <4>2. CASE ExpirePulse
        BY <4>1, <4>2 DEF ExpirePulse, TakeTurn, TimerTypes
      <4>3. ASSUME NEW timer \in Timers, Expire(timer)
            PROVE  /\ todo' = <<ExpiryEvent(timer)>> /\ pc' = "applying" /\ pc = "ready"
                   /\ queue' = queue /\ UNCHANGED feedbackVars /\ snap' = snap
                   /\ ExpiryEvent(timer) \in Events
                   /\ ExpiryEvent(timer).type \notin {"Boot", "ObservationChanged"}
                   /\ ExpiryEvent(timer).type = "ObservationStable" =>
                        ExpiryEvent(timer).observation = snap.pending
        <5>1. ExpiryEvent(timer) \in
                {Event("OpeningTimerExpired"), Event("ClosingTimerExpired"),
                 ObservationEvent("ObservationStable", snap.pending)}
          BY DEF ExpiryEvent, Timers, Directions
        <5> HIDE DEF ExpiryEvent
        <5>2. /\ ExpiryEvent(timer) \in Events
              /\ ExpiryEvent(timer).type \notin {"Boot", "ObservationChanged"}
              /\ ExpiryEvent(timer).type = "ObservationStable" =>
                   ExpiryEvent(timer).observation = snap.pending
          BY <4>1, <5>1 DEF TimerTypes
        <5> QED
          BY <4>3, <5>2 DEF Expire, TakeTurn
      <4> QED
        BY <2>4, <4>2, <4>3
    <3>2. Head(todo') = e /\ Len(todo') = 1
      BY <3>1
    <3>3. Announced' = Announced
      BY <3>1, <3>2 DEF Announced
    <3> QED
      BY <3>1, <3>2, <3>3, NothingObserved
  <2>5. CASE \/ (\E c \in Callers : Caller(c)) \/ (\E c \in Impatient : GiveUp(c))
             \/ Maintenance \/ Feedback \/ IntervalPasses \/ UNCHANGED vars
    BY <2>5, OthersFollowed
  <2>6. ~DecoderWake
    BY DEF DecoderWake
  <2> QED
    BY <2>1, <2>2, <2>3, <2>4, <2>5, <2>6 DEF Next, Controller
<1> QED
  BY <1>1, <1>2, RuntimeInvariant, InterlockInvariant, PTL DEF Spec

\* Without custom rules the reducer works with the levels published last.  The
\* first levels must have been stored before the boot event: the code does not
\* order the two (SampledFirst).
THEOREM FeedbackFollowing ==
  ASSUME ~CustomRules, SampledFirst
  PROVE  Spec => []FeedbackFollowed
<1>1. PromiseInv /\ FollowInv => FeedbackFollowed
  BY DEF PromiseInv, FollowInv, FeedbackFollowed, Published, Announced, Observed, Settled
<1> QED
  BY <1>1, FollowInvariant, PromiseInvariant, PTL
-----------------------------------------------------------------------------
(* Callers that wait for their answers.                                    *)

\* The notification of a caller changes only when it begins, is answered or
\* takes its answer.
LEMMA AnswerGiven ==
  ASSUME RuntimeInv, PromiseInv, NEW result \in Results, Done(result),
         pc \in {"applying", "reserved", "driven"}
  PROVE  /\ asker' = NoCaller
         /\ \A c \in Callers : asker # c => notify'[c] = notify[c]
<1>1. asker' = NoCaller
  BY TurnDone
<1>2. notify \in [Callers -> Results \cup {"none"}]
  BY DEF RuntimeInv, TypeOK
<1> QED
  BY <1>1, <1>2 DEF Done

LEMMA TurnPatient ==
  ASSUME RuntimeInv, PromiseInv, PatientInv, Controller, pc \in {"boot", "ready"}
  PROVE  PatientInv'
<1>1. loc' = loc /\ notify' = notify
  BY DEF Controller, ControllerBoot, ExpirePulse, Expire, DecoderWake, Receive, callerVars,
     Continue, ApplyQuietly, RefusePulse, ReservePulse, DrivePulse, ActivationFails,
     CommitPulse
<1>2. CASE Receive
  <2>1. /\ Len(queue) \in Nat \ {0} /\ DOMAIN queue = 1..Len(queue)
        /\ DOMAIN queue' = 1..(Len(queue) - 1)
        /\ \A i \in DOMAIN queue' : queue'[i] = queue[i + 1]
        /\ Head(queue) = queue[1] /\ asker' = queue[1].asker
    BY <1>2, MessageTurn, MessageTaken
  <2>2. awaited' = queue[1].awaited
    BY <1>2, <2>1 DEF Receive, TakeTurn
  <2>3. ASSUME NEW c \in Callers
        PROVE  /\ \A i \in Queued(c)' : i \in Nat \ {0} /\ i + 1 \in Queued(c)
                                        /\ queue'[i] = queue[i + 1]
               /\ asker' = c <=> 1 \in Queued(c)
    BY <2>1 DEF Queued
  <2>4. ASSUME NEW c \in Callers, asker' = c
        PROVE  Queued(c)' = {} /\ awaited'
    <3>1. 1 \in Queued(c) /\ \A i, j \in Queued(c) : i = j
      BY <2>3, <2>4 DEF PatientInv
    <3>2. ASSUME NEW i \in Queued(c)'
          PROVE  FALSE
      <4>1. i \in Nat \ {0} /\ i + 1 \in Queued(c)
        BY <2>3
      <4>2. i + 1 = 1
        BY <3>1, <4>1
      <4> QED
        BY <4>1, <4>2
    <3> QED
      BY <2>2, <3>1, <3>2 DEF PatientInv
  <2>5. ASSUME NEW c \in Callers, NEW i \in Queued(c)', NEW j \in Queued(c)'
        PROVE  i = j /\ queue'[i].awaited
    <3>1. i \in Nat /\ j \in Nat /\ i + 1 \in Queued(c) /\ j + 1 \in Queued(c)
      BY <2>3
    <3>2. i + 1 = j + 1 /\ queue[i + 1].awaited
      BY <3>1 DEF PatientInv
    <3>3. queue'[i].awaited
      BY <2>3, <3>2
    <3> QED
      BY <3>1, <3>2, <3>3
  <2>6. ASSUME NEW c \in Callers, Queued(c) = {}
        PROVE  Queued(c)' = {} /\ asker' # c
    BY <2>3, <2>6
  <2> QED
    BY <1>1, <2>4, <2>5, <2>6 DEF PatientInv
<1>3. CASE ~Receive
  <2>1. ControllerBoot \/ ExpirePulse \/ (\E timer \in Timers : Expire(timer)) \/ DecoderWake
    BY <1>3 DEF Controller, Continue, ApplyQuietly, RefusePulse, ReservePulse, DrivePulse,
       ActivationFails, CommitPulse
  <2>2. asker' = NoCaller /\ queue' = queue
    BY <2>1, UnaskedTurn
  <2>3. \A c \in Callers : Queued(c)' = Queued(c) /\ asker' # c
    BY <2>2, RuntimeAssumption DEF Queued
  <2> QED
    BY <1>1, <2>2, <2>3 DEF PatientInv
<1> QED
  BY <1>2, <1>3

LEMMA ContinuePatient ==
  ASSUME RuntimeInv, PromiseInv, PatientInv, Continue
  PROVE  PatientInv'
<1>1. queue' = queue /\ loc' = loc /\ \A c \in Callers : Queued(c)' = Queued(c)
  BY DEF Continue, ApplyQuietly, RefusePulse, ReservePulse, DrivePulse, ActivationFails,
     CommitPulse, callerVars, Queued
<1>2. CASE ReservePulse \/ DrivePulse
  BY <1>1, <1>2 DEF ReservePulse, DrivePulse, callerVars, PatientInv
<1>3. CASE ApplyQuietly \/ RefusePulse \/ ActivationFails \/ CommitPulse
  <2>1. PICK result \in Results : Done(result) /\ pc \in {"applying", "driven"}
    BY <1>3 DEF ApplyQuietly, RefusePulse, ActivationFails, CommitPulse, Results
  <2>2. asker' = NoCaller /\ \A c \in Callers : asker # c => notify'[c] = notify[c]
    BY <2>1, AnswerGiven
  <2>3. ASSUME NEW c \in Callers
        PROVE  /\ loc[c] # "waiting" => notify'[c] = "none"
               /\ loc[c] # "waiting" \/ notify'[c] # "none" => Queued(c) = {}
    BY <2>2 DEF PatientInv
  <2> QED
    BY <1>1, <2>2, <2>3, RuntimeAssumption DEF PatientInv
<1> QED
  BY <1>2, <1>3 DEF Continue

LEMMA CallerPatient ==
  ASSUME RuntimeInv, PatientInv, NEW c \in Callers, Caller(c)
  PROVE  PatientInv'
<1>1. /\ asker' = asker /\ queue \in Seq(Messages) /\ Len(queue) \in Nat
      /\ DOMAIN queue = 1..Len(queue) /\ \A i \in 1..Len(queue) : queue[i] \in Messages
      /\ loc \in [Callers -> {"idle", "sending", "waiting"}]
      /\ notify \in [Callers -> Results \cup {"none"}]
  BY LenProperties, ElementOfSeq DEF Caller, BeginRequest, SendRequest, QueueStaysFull,
     TakeAnswer, controllerVars, RuntimeInv, TypeOK
<1>2. CASE BeginRequest(c) \/ QueueStaysFull(c)
  <2>1. /\ queue' = queue /\ awaited' = awaited
        /\ \A other \in Callers : Queued(other)' = Queued(other)
    BY <1>2 DEF BeginRequest, QueueStaysFull, Queued
  <2>2. /\ loc[c] # "waiting" /\ loc'[c] # "waiting" /\ notify'[c] = "none"
        /\ \A other \in Callers \ {c} :
             loc'[other] = loc[other] /\ notify'[other] = notify[other]
    BY <1>1, <1>2 DEF BeginRequest, QueueStaysFull, PatientInv
  <2> QED
    BY <1>1, <2>1, <2>2 DEF PatientInv
<1>3. CASE SendRequest(c)
  <2>1. PICK e : queue' = Append(queue, [event |-> e, asker |-> c, awaited |-> TRUE,
                                         sample |-> FALSE]) /\ e \in Events
    <3>1. \A e \in RequestsOf(c) : e \in Events
      BY EventTyped DEF RequestsOf, EventTypes, RequestTypes
    <3> QED
      BY <1>3, <3>1 DEF SendRequest
  <2> DEFINE m == [event |-> e, asker |-> c, awaited |-> TRUE, sample |-> FALSE]
  <2>2. m \in Messages /\ m.asker = c /\ m.awaited
    BY <2>1 DEF Messages
  <2>3. queue' = Append(queue, m)
    BY <2>1
  <2> HIDE DEF m
  <2>4. /\ queue' \in Seq(Messages) /\ Len(queue') = Len(queue) + 1
        /\ \A i \in 1..Len(queue) : queue'[i] = queue[i]
        /\ queue'[Len(queue) + 1] = m
    BY <1>1, <2>2, <2>3, AppendProperties
  <2>5. DOMAIN queue' = 1..(Len(queue) + 1)
    BY <2>4, LenProperties
  <2>6. \A other \in Callers :
          Queued(other)' = Queued(other) \cup {i \in {Len(queue) + 1} : other = c}
    BY <1>1, <2>2, <2>4, <2>5 DEF Queued
  <2>7. loc[c] = "sending" /\ Queued(c) = {} /\ asker # c /\ notify[c] = "none"
    BY <1>3 DEF SendRequest, PatientInv
  <2>8. /\ loc'[c] = "waiting" /\ notify' = notify /\ awaited' = awaited
        /\ \A other \in Callers \ {c} : loc'[other] = loc[other]
    BY <1>1, <1>3 DEF SendRequest
  <2>9. Queued(c)' = {Len(queue) + 1} /\ queue'[Len(queue) + 1].awaited
    BY <2>2, <2>4, <2>6, <2>7
  <2>10. ASSUME NEW other \in Callers \ {c}
         PROVE  Queued(other)' = Queued(other)
                /\ \A i \in Queued(other) : queue'[i] = queue[i]
    BY <1>1, <2>4, <2>6 DEF Queued
  <2> QED
    BY <1>1, <2>7, <2>8, <2>9, <2>10 DEF PatientInv
<1>4. CASE TakeAnswer(c)
  <2>1. Abandon(c) /\ loc[c] = "waiting" /\ notify[c] # "none"
    BY <1>4 DEF TakeAnswer
  <2>2. Queued(c) = {} /\ asker # c
    BY <2>1 DEF PatientInv
  <2>3. queue' = queue
    <3>1. \A i \in DOMAIN queue : queue[i].asker # c
      BY <2>2 DEF Queued
    <3>2. queue = [i \in DOMAIN queue |-> queue[i]]
      BY <1>1
    <3> QED
      BY <2>1, <3>1, <3>2 DEF Abandon
  <2>4. awaited' = awaited /\ \A other \in Callers : Queued(other)' = Queued(other)
    BY <2>1, <2>2, <2>3 DEF Abandon, Queued, RuntimeInv, TypeOK
  <2>5. /\ loc'[c] = "idle" /\ notify'[c] = "none"
        /\ \A other \in Callers \ {c} :
             loc'[other] = loc[other] /\ notify'[other] = notify[other]
    BY <1>1, <1>4 DEF TakeAnswer
  <2> QED
    BY <1>1, <2>2, <2>3, <2>4, <2>5 DEF PatientInv
<1> QED
  BY <1>2, <1>3, <1>4 DEF Caller

LEMMA OthersPatient ==
  ASSUME RuntimeInv, PatientInv, Maintenance \/ Feedback \/ IntervalPasses \/ UNCHANGED vars
  PROVE  PatientInv'
<1>1. UNCHANGED <<loc, notify, asker, awaited>>
  BY DEF Maintenance, ClaimMaintenance, RefuseMaintenance, AdmitMaintenance,
     LeaveMaintenance, ClearCommand, LowerOutputs, LoweringFails,
     Feedback, FirstSample, FeedbackChange, PublishFeedback, IntervalPasses,
     vars, controllerVars, callerVars
<1>2. ASSUME NEW c \in Callers
      PROVE  Queued(c)' = Queued(c) /\ \A i \in Queued(c) : queue'[i] = queue[i]
  <2>1. CASE queue' = queue
    BY <2>1 DEF Queued
  <2>2. CASE PublishFeedback
    <3>1. /\ FeedbackMessage \in Messages /\ queue' = Append(queue, FeedbackMessage)
          /\ FeedbackMessage.asker # c
      BY <2>2, FeedbackSent, RuntimeAssumption
    <3> HIDE DEF FeedbackMessage
    <3>2. /\ queue \in Seq(Messages) /\ Len(queue) \in Nat /\ DOMAIN queue = 1..Len(queue)
      BY LenProperties DEF RuntimeInv, TypeOK
    <3>3. /\ queue' \in Seq(Messages) /\ Len(queue') = Len(queue) + 1
          /\ \A i \in 1..Len(queue) : queue'[i] = queue[i]
          /\ queue'[Len(queue) + 1] = FeedbackMessage
      BY <3>1, <3>2, AppendProperties
    <3>4. DOMAIN queue' = 1..(Len(queue) + 1)
      BY <3>3, LenProperties
    <3> QED
      BY <3>1, <3>2, <3>3, <3>4 DEF Queued
  <2> QED
    BY <2>1, <2>2 DEF Maintenance, ClaimMaintenance, RefuseMaintenance, AdmitMaintenance,
       LeaveMaintenance, ClearCommand, LowerOutputs, LoweringFails,
       Feedback, FirstSample, FeedbackChange, IntervalPasses, vars
<1> QED
  BY <1>1, <1>2 DEF PatientInv

\* As long as no caller gives up, each has one request at most, and waits for it.
THEOREM PatientInvariant ==
  ASSUME Impatient = {}
  PROVE  Spec => []PatientInv
<1>1. Init => PatientInv
  BY RuntimeAssumption DEF Init, PatientInv, Queued
<1>2. RuntimeInv /\ PromiseInv /\ PatientInv /\ [Next]_vars => PatientInv'
  <2> SUFFICES ASSUME RuntimeInv, PromiseInv, PatientInv, [Next]_vars PROVE PatientInv'
    OBVIOUS
  <2>1. CASE Continue
    BY <2>1, ContinuePatient
  <2>2. CASE Controller /\ ~Continue
    <3>1. pc \in {"boot", "ready"}
      BY <2>2 DEF Controller, ControllerBoot, ExpirePulse, Expire, DecoderWake, Receive
    <3> QED
      BY <2>2, <3>1, TurnPatient
  <2>3. CASE \E c \in Callers : Caller(c)
    BY <2>3, CallerPatient
  <2>4. CASE Maintenance \/ Feedback \/ IntervalPasses \/ UNCHANGED vars
    BY <2>4, OthersPatient
  <2> QED
    BY <2>1, <2>2, <2>3, <2>4 DEF Next
<1> QED
  BY <1>1, <1>2, RuntimeInvariant, PromiseInvariant, PTL DEF Spec

\* Only the request of a caller that gave up can start a pulse nobody waits for:
\* without such callers every pulse answers somebody.
THEOREM AwaitedActuation ==
  ASSUME Impatient = {}
  PROVE  Spec => OnlyAwaitedRequestsActuate
<1>1. RuntimeInv /\ PromiseInv /\ PatientInv /\ [Next]_vars
        => [driven' \ driven # {} => awaited]_vars
  <2> SUFFICES ASSUME RuntimeInv, PromiseInv, PatientInv, Next, driven' \ driven # {}
               PROVE  awaited
    BY DEF vars, outputVars
  <2>1. pc = "reserved" /\ Reduction.command # "None"
    BY OutputActivated
  <2>2. snap \in Snapshots /\ Head(todo) \in Events /\ Reduction = Reduce(snap, Head(todo))
    BY <2>1, ReductionTyped DEF RuntimeInv, TypeOK, Reduction
  <2>3. asker \in Callers
    BY <2>1, <2>2, ReducePulse DEF PromiseInv, RequestsAsked
  <2> QED
    BY <2>3 DEF PatientInv
<1> QED
  BY <1>1, RuntimeInvariant, PromiseInvariant, PatientInvariant, PTL
     DEF Spec, OnlyAwaitedRequestsActuate

-----------------------------------------------------------------------------
(* Maintenance, with the HTTP task as the only caller and without custom   *)
(* rules.                                                                  *)

\* What no pulse and no decoded movement sets in motion stays at rest.
LEMMA ReduceQuiescent ==
  ASSUME NEW s \in Snapshots, NEW e \in Events, Coherent(s), Quiescent(s),
         Reduce(s, e).command = "None", e.type \notin ExternalTypes
  PROVE  Quiescent(Reduce(s, e).next)
<1>1. ~Reduce(s, e).next.pulseActive
  BY ReducePulse DEF Quiescent
<1>2. Coherent(Reduce(s, e).next)
  BY ReduceCoherent
<1>3. Reduce(s, e).next.state \notin Directions
  <2>1. s.state \notin Directions
    BY DEF Quiescent, Coherent, Directions
  <2> QED
    BY <2>1, ReduceClaimsTravel
<1> QED
  BY <1>1, <1>2, <1>3 DEF Quiescent, Coherent

Entering == upkeep \in {"clearing", "lowering", "held"}

\* Nobody's request is queued or applied while maintenance is being entered or held.
LEMMA NothingRequested ==
  ASSUME Callers = {Http}, ~CustomRules, RuntimeInv, PromiseInv, PatientInv, QuietInv,
         upkeep # "none"
  PROVE  /\ pc \in {"reserved", "driven"} => FALSE
         /\ pc = "applying" => Reduction.command = "None"
<1>1. loc[Http] = "idle" /\ asker # Http
  BY RuntimeAssumption DEF QuietInv, PatientInv
<1>2. ASSUME pc \in {"applying", "reserved", "driven"}
      PROVE  /\ snap \in Snapshots /\ Head(todo) \in Events
             /\ Reduction = Reduce(snap, Head(todo))
  BY <1>2, ReductionTyped DEF RuntimeInv, TypeOK, Reduction
<1>3. ASSUME pc \in {"applying", "reserved", "driven"}, Reduction.command # "None"
      PROVE  FALSE
  <2>1. Head(todo).type \in RequestTypes
    BY <1>2, <1>3, ReducePulse
  <2> QED
    BY <1>1, <1>3, <2>1 DEF PromiseInv, RequestsAsked
<1> QED
  BY <1>3 DEF RuntimeInv, TurnOK

LEMMA TurnQuiet ==
  ASSUME ~CustomRules, RuntimeInv, InterlockInv, QuietInv, Controller, pc \in {"boot", "ready"}
  PROVE  QuietInv'
<1>1. UNCHANGED <<loc, upkeep, snap>> /\ driven' \in {driven, {}} /\ (busy' = busy \/ busy' = FALSE)
  BY DEF Controller, ControllerBoot, ExpirePulse, Expire, DecoderWake, Receive,
     Continue, ApplyQuietly, RefusePulse, ReservePulse, DrivePulse, ActivationFails,
     CommitPulse, callerVars, upkeepVars, outputVars
<1>2. /\ \A type \in TimerTypes : Event(type).type = type
      /\ \A o : ObservationEvent("ObservationStable", o).type = "ObservationStable"
      /\ \A o : ObservationEvent("Boot", o).type = "Boot"
  BY DEF Event, ObservationEvent
<1>3. CASE ControllerBoot
  <2>1. ~active /\ upkeep = "none"
    BY <1>3 DEF ControllerBoot, QuietInv
  <2>2. active' = active
    BY <1>3 DEF ControllerBoot, TakeTurn, RuntimeInv, TypeOK
  <2> QED
    BY <1>1, <2>1, <2>2 DEF QuietInv
<1>4. ASSUME NEW e, NEW c, NEW wanted, pc = "ready", TakeTurn(<<e>>, c, wanted), e.type # "Boot"
      PROVE  QuietInv'
  <2>1. active' = active /\ pc' = "applying" /\ todo' = <<e>>
    BY <1>4 DEF TakeTurn, RuntimeInv, TypeOK
  <2>2. Head(todo') = e
    BY <2>1
  <2> QED
    BY <1>1, <1>4, <2>1, <2>2 DEF QuietInv, Quiescent
<1>5. CASE ExpirePulse
  BY <1>2, <1>4, <1>5 DEF ExpirePulse, TimerTypes
<1>6. CASE \E timer \in Timers : Expire(timer)
  <2>1. \A timer : ExpiryEvent(timer).type \in {"OpeningTimerExpired", "ClosingTimerExpired",
                                              "ObservationStable"}
    BY <1>2 DEF ExpiryEvent, TimerTypes
  <2> HIDE DEF ExpiryEvent
  <2> QED
    BY <1>4, <1>6, <2>1 DEF Expire
<1>7. CASE Receive
  <2>1. /\ pc = "ready" /\ queue # <<>> /\ 1 \in DOMAIN queue /\ Head(queue) = queue[1]
    BY <1>7, MessageTaken DEF Receive
  <2>2. Head(queue).event.type # "Boot" /\ ~Head(queue).sample
    BY <2>1 DEF RuntimeInv, TurnOK, QueuedTypes, RequestTypes, InterlockInv, SourcesOK
  <2> QED
    BY <1>4, <1>7, <2>1, <2>2 DEF Receive
<1> QED
  BY <1>3, <1>5, <1>6, <1>7 DEF Controller, DecoderWake, Continue, ApplyQuietly, RefusePulse,
     ReservePulse, DrivePulse, ActivationFails, CommitPulse

LEMMA ContinueQuiet ==
  ASSUME Callers = {Http}, ~CustomRules, RuntimeInv, InterlockInv, PromiseInv, PatientInv,
         QuietInv, Continue
  PROVE  QuietInv'
<1>1. UNCHANGED <<loc, upkeep>> /\ pc \in {"applying", "reserved", "driven"}
  BY DEF Continue, ApplyQuietly, RefusePulse, ReservePulse, DrivePulse, ActivationFails,
     CommitPulse, callerVars, upkeepVars
<1>2. /\ todo # <<>> /\ todo \in Seq(Events) /\ Head(todo) \in Events /\ snap \in Snapshots
      /\ Reduction = Reduce(snap, Head(todo))
  BY <1>1, ReductionTyped DEF RuntimeInv, TypeOK, Reduction
<1>3. \/ active' = active /\ pc' \in {"reserved", "driven"}
      \/ pc' = "ready" /\ active'
      \/ /\ active' = active /\ pc' = "applying" /\ Head(todo').type # "Boot"
  <2>1. CASE ReservePulse \/ DrivePulse
    BY <2>1 DEF ReservePulse, DrivePulse
  <2>2. CASE ApplyQuietly \/ RefusePulse \/ ActivationFails \/ CommitPulse
    <3>1. PICK result : Done(result)
      BY <2>2 DEF ApplyQuietly, RefusePulse, ActivationFails, CommitPulse
    <3>2. CASE Tail(todo) = <<>>
      BY <3>1, <3>2 DEF Done
    <3>3. CASE Tail(todo) # <<>>
      <4>1. /\ todo' = Tail(todo) /\ active' = active /\ pc' = "applying"
        BY <3>1, <3>3 DEF Done, RuntimeInv, TypeOK
      <4>2. /\ Tail(todo) \in Seq(Events) /\ Len(Tail(todo)) = Len(todo) - 1
            /\ \A i \in 1..Len(Tail(todo)) : Tail(todo)[i] = todo[i + 1]
            /\ Len(todo) \in Nat /\ Len(Tail(todo)) \in Nat \ {0}
        BY <1>2, <3>3, HeadTailProperties, LenProperties, EmptySeq
      <4>3. Head(Tail(todo)) = todo[2] /\ 2 \in 2..Len(todo)
        BY <3>3, <4>2, HeadTailProperties
      <4>4. todo[2].type # "Boot"
        BY <4>3 DEF RuntimeInv, TurnOK, ExternalTypes, DecoderTypes
      <4> QED
        BY <4>1, <4>3, <4>4
    <3> QED
      BY <3>2, <3>3
  <2> QED
    BY <2>1, <2>2 DEF Continue
<1>4. ASSUME Entering
      PROVE  driven' = {} /\ ~busy' /\ Quiescent(snap)'
  <2>1. driven = {} /\ ~busy /\ Quiescent(snap) /\ upkeep # "none"
    BY <1>4 DEF Entering, QuietInv
  <2>2. ApplyQuietly
    BY <1>1, <2>1, NothingRequested DEF Continue, RefusePulse, ReservePulse, DrivePulse,
       ActivationFails, CommitPulse
  <2>3. snap' = Reduction.next /\ driven' = driven /\ busy' = busy /\ pc = "applying"
        /\ Reduction.command = "None"
    BY <2>2 DEF ApplyQuietly, Commit, outputVars
  <2>4. Head(todo).type \notin ExternalTypes
    <3>1. Head(todo) = todo[1] /\ 1 \in DOMAIN todo
      BY <1>2, LenProperties, EmptySeq, HeadTailProperties
    <3> QED
      BY <3>1 DEF InterlockInv, SourcesOK, Genuine
  <2>5. Quiescent(Reduction.next)
    BY <1>2, <2>1, <2>3, <2>4, ReduceQuiescent DEF RuntimeInv, MotionCoherent
  <2> QED
    BY <2>1, <2>3, <2>5 DEF Quiescent
<1> QED
  BY <1>1, <1>3, <1>4 DEF QuietInv, Entering

\* Entering maintenance finds the outputs released.
LEMMA MaintenanceEntered ==
  ASSUME Callers = {Http}, ~CustomRules, RuntimeInv, PromiseInv, PatientInv, QuietInv,
         Maintenance
  PROVE  QuietInv'
<1>1. UNCHANGED <<loc, active, pc, todo, snap, busy>> /\ driven' \subseteq driven
  BY DEF Maintenance, ClaimMaintenance, RefuseMaintenance, AdmitMaintenance,
     LeaveMaintenance, ClearCommand, LowerOutputs, LoweringFails, callerVars,
     controllerVars, outputVars
<1>2. CASE AdmitMaintenance
  <2>1. upkeep = "claimed" /\ Quiescent(snap) /\ upkeep' = "clearing"
    BY <1>2 DEF AdmitMaintenance
  <2>2. pc \notin {"reserved", "driven"} /\ active
    BY <2>1, NothingRequested DEF QuietInv
  <2>3. pc \in {"ready", "applying"} /\ (pc = "applying" => Head(todo).type # "Boot")
    BY <2>2 DEF QuietInv, RuntimeInv, TypeOK
  <2>4. ~busy /\ driven = {}
    BY <2>1, <2>3 DEF RuntimeInv, PulseOK, Quiescent
  <2> QED
    BY <1>1, <2>1, <2>4 DEF QuietInv, Quiescent
<1>3. CASE ClaimMaintenance
  BY <1>1, <1>3 DEF ClaimMaintenance, QuietInv
<1>4. CASE RefuseMaintenance \/ LeaveMaintenance \/ ClearCommand \/ LowerOutputs
           \/ LoweringFails
  <2>1. upkeep # "none" /\ upkeep' # "claimed"
        /\ (upkeep' \in {"clearing", "lowering", "held"} =>
              upkeep \in {"clearing", "lowering", "held"})
    BY <1>4 DEF RefuseMaintenance, LeaveMaintenance, ClearCommand, LowerOutputs, LoweringFails
  <2> QED
    BY <1>1, <2>1 DEF QuietInv, Quiescent
<1> QED
  BY <1>2, <1>3, <1>4 DEF Maintenance

LEMMA OthersQuiet ==
  ASSUME Callers = {Http}, QuietInv, RuntimeInv,
         (\E c \in Callers : Caller(c)) \/ Feedback \/ IntervalPasses \/ UNCHANGED vars
  PROVE  QuietInv'
<1>1. UNCHANGED <<active, pc, todo, snap, busy, driven, upkeep>>
  BY DEF Caller, BeginRequest, SendRequest, QueueStaysFull, TakeAnswer,
     Feedback, FirstSample, FeedbackChange, PublishFeedback, IntervalPasses,
     vars, controllerVars, outputVars, upkeepVars
<1>2. loc' = loc \/ upkeep = "none"
  <2>1. CASE Caller(Http)
    BY <2>1 DEF Caller, BeginRequest, SendRequest, QueueStaysFull, TakeAnswer, QuietInv
  <2>2. CASE Feedback \/ IntervalPasses \/ UNCHANGED vars
    BY <2>2 DEF Feedback, FirstSample, FeedbackChange, PublishFeedback, IntervalPasses,
       vars, callerVars
  <2> QED
    BY <2>1, <2>2
<1> QED
  BY <1>1, <1>2 DEF QuietInv, Quiescent

\* With one caller, that waits, what was quiet when maintenance was entered stays
\* quiet until it is left.
THEOREM QuietInvariant ==
  ASSUME Callers = {Http}, Impatient = {}, ~CustomRules
  PROVE  Spec => []QuietInv
<1>1. Init => QuietInv
  BY DEF Init, QuietInv
<1>2. RuntimeInv /\ InterlockInv /\ PromiseInv /\ PatientInv /\ QuietInv /\ [Next]_vars
        => QuietInv'
  <2> SUFFICES ASSUME RuntimeInv, InterlockInv, PromiseInv, PatientInv, QuietInv, [Next]_vars
               PROVE  QuietInv'
    OBVIOUS
  <2>1. CASE Continue
    BY <2>1, ContinueQuiet
  <2>2. CASE Controller /\ ~Continue
    <3>1. pc \in {"boot", "ready"}
      BY <2>2 DEF Controller, ControllerBoot, ExpirePulse, Expire, DecoderWake, Receive
    <3> QED
      BY <2>2, <3>1, TurnQuiet
  <2>3. CASE Maintenance
    BY <2>3, MaintenanceEntered
  <2>4. CASE (\E c \in Callers : Caller(c)) \/ Feedback \/ IntervalPasses \/ UNCHANGED vars
    BY <2>4, OthersQuiet
  <2> QED
    BY <2>1, <2>2, <2>3, <2>4 DEF Next
<1> QED
  BY <1>1, <1>2, RuntimeInvariant, InterlockInvariant, PromiseInvariant, PatientInvariant, PTL
     DEF Spec

\* Only a second caller, a late reply or a decoded movement can disturb maintenance:
\* the check of the flag and the reading of the snapshot are enough against the
\* controller, its deadlines, the feedback and the hardware's errors.
THEOREM QuietMaintenance ==
  ASSUME Callers = {Http}, Impatient = {}, ~CustomRules
  PROVE  Spec => []MaintenanceQuiet
<1>1. QuietInv => MaintenanceQuiet
  BY DEF QuietInv, MaintenanceQuiet
<1> QED
  BY <1>1, QuietInvariant, PTL
=============================================================================
