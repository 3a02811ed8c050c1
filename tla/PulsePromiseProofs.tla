------------------------- MODULE PulsePromiseProofs -------------------------
(***************************************************************************)
(* The runtime implements PulsePromise: every step is one of the promise,  *)
(* or changes nothing it speaks of.  The open requests are counted over    *)
(* the queue, so the proof follows each message from the queue into the    *)
(* turn that applies it.                                                   *)
(***************************************************************************)
EXTENDS GateRuntimeProofs, FiniteSetTheorems

-----------------------------------------------------------------------------
(* The invariant.                                                          *)

\* A step that takes nothing up keeps it, if what it queues comes from a caller
\* or is no request.
LEMMA NothingTakenUp ==
  ASSUME PromiseInv, UNCHANGED <<pc, todo, asker>>, spaced => spaced',
         driven' \subseteq driven,
         \A i \in DOMAIN queue' :
           /\ queue'[i].event.type \in RequestTypes => queue'[i].asker \in Callers
           /\ queue'[i].sample => queue'[i].asker = NoCaller
  PROVE  PromiseInv'
BY DEF PromiseInv, RequestsAsked

LEMMA MessageAdded ==
  ASSUME RuntimeInv, PromiseInv, NEW m \in Messages, queue' = Append(queue, m),
         m.event.type \in RequestTypes => m.asker \in Callers,
         m.sample => m.asker = NoCaller
  PROVE  \A i \in DOMAIN queue' :
           /\ queue'[i].event.type \in RequestTypes => queue'[i].asker \in Callers
           /\ queue'[i].sample => queue'[i].asker = NoCaller
<1>1. queue \in Seq(Messages) /\ Len(queue) \in Nat /\ DOMAIN queue = 1..Len(queue)
  BY LenProperties DEF RuntimeInv, TypeOK
<1>2. /\ DOMAIN queue' = 1..(Len(queue) + 1)
      /\ \A i \in 1..Len(queue) : queue'[i] = queue[i]
      /\ queue'[Len(queue) + 1] = m
  BY <1>1, AppendProperties, LenProperties
<1> QED
  BY <1>1, <1>2 DEF PromiseInv, RequestsAsked

\* What is left of the queue when its first message is taken.
LEMMA MessageTaken ==
  ASSUME RuntimeInv, queue # <<>>, queue' = Tail(queue)
  PROVE  /\ queue \in Seq(Messages) /\ Len(queue) \in Nat \ {0}
         /\ DOMAIN queue = 1..Len(queue) /\ DOMAIN queue' = 1..(Len(queue) - 1)
         /\ \A i \in DOMAIN queue' : queue'[i] = queue[i + 1]
         /\ Head(queue) = queue[1] /\ Head(queue) \in Messages
BY HeadTailProperties, LenProperties, EmptySeq DEF RuntimeInv, TypeOK

\* The last event of a turn answers its caller, and there is no caller before it.
LEMMA TurnDone ==
  ASSUME RuntimeInv, PromiseInv, NEW result, Done(result),
         pc \in {"applying", "reserved", "driven"}
  PROVE  /\ asker' = NoCaller
         /\ \/ pc' = "ready" /\ todo' = <<>>
            \/ pc' = "applying" /\ asker = NoCaller /\ Head(todo').type \notin RequestTypes
<1>1. /\ todo \in Seq(Events) /\ todo # <<>> /\ asker \in Callers \cup {NoCaller}
      /\ todo' = Tail(todo) /\ pc' = IF todo' = <<>> THEN "ready" ELSE "applying"
      /\ asker' = IF todo' = <<>> THEN NoCaller ELSE asker
  BY DEF RuntimeInv, TypeOK, Done
<1>2. /\ todo' \in Seq(Events) /\ Len(todo') = Len(todo) - 1 /\ Len(todo) \in Nat
      /\ \A i \in 1..Len(todo') : todo'[i] = todo[i + 1]
  BY <1>1, HeadTailProperties, LenProperties
<1>3. asker \in Callers => todo' = <<>>
  BY <1>2, EmptySeq DEF PromiseInv, RequestsAsked
<1>4. todo' # <<>> => Head(todo').type \in DecodedTypes
  <2>1. todo' # <<>> => Len(todo') >= 1 /\ Head(todo') = todo'[1]
    BY <1>2, EmptySeq
  <2> QED
    BY <1>2, <2>1 DEF RuntimeInv, TurnOK, DecodedTypes
<1> QED
  BY <1>1, <1>3, <1>4 DEF DecodedTypes, ExternalTypes, DecoderTypes, RequestTypes

\* A turn nobody asked for begins with no request.
LEMMA UnaskedTurn ==
  ASSUME ControllerBoot \/ ExpirePulse \/ (\E timer \in Timers : Expire(timer)) \/ DecoderWake
  PROVE  /\ asker' = NoCaller /\ pc \in {"boot", "ready"} /\ pc' \in {"ready", "applying"}
         /\ pc' = "applying" => Head(todo').type \notin RequestTypes
         /\ queue' = queue /\ spaced' = spaced /\ driven' \in {driven, {}}
<1>0. \A e : Head(<<e>>) = e
  OBVIOUS
<1> DEFINE Unasked(events) == /\ TakeTurn(events, NoCaller, FALSE)
                              /\ events # <<>> => Head(events).type \notin RequestTypes
<1>1. \E events : Unasked(events)
  <2>1. CASE ControllerBoot
    <3>1. CASE CustomRules
      <4>1. PICK r \in DecoderEvents : TakeTurn(<<Event("Boot")>> \o r, NoCaller, FALSE)
        BY <2>1, <3>1 DEF ControllerBoot
      <4>2. Head(<<Event("Boot")>> \o r).type = "Boot"
        BY TurnShapes, EventTyped DEF EventTypes
      <4> QED
        BY <4>1, <4>2 DEF RequestTypes
    <3>2. CASE ~CustomRules
      <4> DEFINE e == ObservationEvent("Boot", NormalizeFeedback(Topology, AssertedEnd, asserted))
      <4>1. TakeTurn(<<e>>, NoCaller, FALSE)
        BY <2>1, <3>2 DEF ControllerBoot
      <4>2. e.type = "Boot"
        BY DEF ObservationEvent, Event
      <4> HIDE DEF e
      <4>3. Unasked(<<e>>)
        BY <1>0, <4>1, <4>2 DEF RequestTypes
      <4> QED
        BY <4>3
    <3> QED
      BY <3>1, <3>2
  <2>2. CASE ExpirePulse
    <3>1. TakeTurn(<<Event("PulseCompleted")>>, NoCaller, FALSE)
      BY <2>2 DEF ExpirePulse
    <3>2. Event("PulseCompleted").type \notin RequestTypes
      BY DEF Event, RequestTypes
    <3>3. Unasked(<<Event("PulseCompleted")>>)
      BY <1>0, <3>1, <3>2
    <3> QED
      BY <3>3
  <2>3. ASSUME NEW timer \in Timers, Expire(timer)
        PROVE  \E events : Unasked(events)
    <3>1. ExpiryEvent(timer).type
            \in {"OpeningTimerExpired", "ClosingTimerExpired", "ObservationStable"}
      <4>1. CASE timer \in Directions
        BY <4>1 DEF ExpiryEvent, Event, Directions
      <4>2. CASE timer \notin Directions
        BY <4>2 DEF ExpiryEvent, ObservationEvent, Event, Directions
      <4> QED
        BY <4>1, <4>2
    <3>2. TakeTurn(<<ExpiryEvent(timer)>>, NoCaller, FALSE)
      BY <2>3 DEF Expire
    <3>3. Unasked(<<ExpiryEvent(timer)>>)
      BY <1>0, <3>1, <3>2 DEF RequestTypes
    <3> QED
      BY <3>3
  <2>4. CASE DecoderWake
    <3>1. PICK r \in DecoderEvents : TakeTurn(r, NoCaller, FALSE)
      BY <2>4 DEF DecoderWake
    <3>2. r # <<>> => Head(r).type \in DecodedTypes
      BY TurnShapes
    <3> QED
      BY <3>1, <3>2 DEF DecodedTypes, ExternalTypes, DecoderTypes, RequestTypes
  <2> QED
    BY <2>1, <2>2, <2>3, <2>4
<1>2. /\ pc \in {"boot", "ready"} /\ queue' = queue /\ spaced' = spaced
      /\ driven' \in {driven, {}}
  BY DEF ControllerBoot, ExpirePulse, Expire, DecoderWake, outputVars
<1> QED
  BY <1>1, <1>2 DEF TakeTurn

\* A turn that a message starts has the message's caller and only its event.
LEMMA MessageTurn ==
  ASSUME RuntimeInv, PromiseInv, Receive
  PROVE  /\ pc = "ready" /\ queue # <<>> /\ queue' = Tail(queue)
         /\ asker' = Head(queue).asker /\ pc' \in {"ready", "applying"}
         /\ pc' = "applying" /\ Head(todo').type \in RequestTypes => asker' \in Callers
         /\ asker' \in Callers => pc' = "applying" /\ Len(todo') = 1
<1> DEFINE m == Head(queue)
<1>1. queue # <<>> /\ queue' = Tail(queue) /\ pc = "ready" /\ asker' = m.asker
  BY DEF Receive, TakeTurn
<1>2. m \in Messages /\ m = queue[1] /\ 1 \in DOMAIN queue
  BY <1>1, MessageTaken
<1>3. /\ m.event.type \in RequestTypes => m.asker \in Callers
      /\ m.sample => m.asker = NoCaller
  BY <1>2 DEF PromiseInv, RequestsAsked
<1>4. CASE m.sample
  <2>1. PICK r \in DecoderEvents : TakeTurn(r, m.asker, m.awaited)
    BY <1>4 DEF Receive
  <2>2. r # <<>> => Head(r).type \in DecodedTypes
    BY TurnShapes
  <2> QED
    BY <1>1, <1>3, <1>4, <2>1, <2>2, RuntimeAssumption
       DEF TakeTurn, DecodedTypes, ExternalTypes, DecoderTypes, RequestTypes
<1>5. CASE ~m.sample
  <2>1. TakeTurn(<<m.event>>, m.asker, m.awaited)
    BY <1>5 DEF Receive
  <2>2. <<m.event>> # <<>> /\ Head(<<m.event>>) = m.event /\ Len(<<m.event>>) = 1
    OBVIOUS
  <2> HIDE DEF m
  <2> QED
    BY <1>1, <1>3, <2>1, <2>2 DEF TakeTurn, m
<1> QED
  BY <1>4, <1>5

LEMMA TurnPromised ==
  ASSUME RuntimeInv, PromiseInv, Controller, pc \in {"boot", "ready"}
  PROVE  PromiseInv'
<1>1. CASE Receive
  <2>1. /\ \A i \in DOMAIN queue' :
             /\ queue'[i].event.type \in RequestTypes => queue'[i].asker \in Callers
             /\ queue'[i].sample => queue'[i].asker = NoCaller
        /\ Head(queue) \in Messages
    BY <1>1, MessageTurn, MessageTaken DEF PromiseInv, RequestsAsked
  <2> QED
    BY <1>1, <2>1, MessageTurn DEF Receive, outputVars, PromiseInv, RequestsAsked
<1>2. CASE ~Receive
  <2>1. ControllerBoot \/ ExpirePulse \/ (\E timer \in Timers : Expire(timer)) \/ DecoderWake
    BY <1>2 DEF Controller, Continue, ApplyQuietly, RefusePulse, ReservePulse, DrivePulse,
       ActivationFails, CommitPulse
  <2> QED
    BY <2>1, UnaskedTurn, RuntimeAssumption DEF PromiseInv, RequestsAsked
<1> QED
  BY <1>1, <1>2

LEMMA ContinuePromised ==
  ASSUME RuntimeInv, PromiseInv, Continue
  PROVE  PromiseInv'
<1>1. CASE ReservePulse
  BY <1>1 DEF ReservePulse, CanStart, PromiseInv, RequestsAsked
<1>2. CASE DrivePulse
  <2>1. driven = {}
    BY <1>2 DEF DrivePulse, RuntimeInv, PulseOK
  <2> QED
    BY <1>2, <2>1 DEF DrivePulse, PromiseInv, RequestsAsked
<1>3. CASE ApplyQuietly \/ RefusePulse \/ ActivationFails \/ CommitPulse
  <2>1. PICK result : /\ Done(result) /\ pc \in {"applying", "driven"}
                      /\ queue' = queue /\ driven' \subseteq driven
    BY <1>3 DEF ApplyQuietly, RefusePulse, ActivationFails, CommitPulse, outputVars
  <2> QED
    BY <2>1, TurnDone, RuntimeAssumption DEF PromiseInv, RequestsAsked
<1> QED
  BY <1>1, <1>2, <1>3 DEF Continue

\* Taking an answer and giving up change no message but for who awaits it.
LEMMA AbandonedMessages ==
  ASSUME RuntimeInv, NEW c \in Callers, Abandon(c)
  PROVE  /\ DOMAIN queue' = DOMAIN queue
         /\ \A i \in DOMAIN queue :
              /\ queue'[i].event = queue[i].event /\ queue'[i].asker = queue[i].asker
              /\ queue'[i].sample = queue[i].sample
<1>1. /\ queue \in Seq(Messages) /\ Len(queue) \in Nat /\ DOMAIN queue = 1..Len(queue)
      /\ \A i \in 1..Len(queue) : queue[i] \in Messages
  BY LenProperties, ElementOfSeq DEF RuntimeInv, TypeOK
<1> QED
  BY <1>1 DEF Abandon, Messages

\* What a caller sends.
LEMMA RequestSent ==
  ASSUME NEW c \in Callers, SendRequest(c)
  PROVE  \E m \in Messages : /\ queue' = Append(queue, m) /\ m.asker = c /\ ~m.sample
                             /\ m.event.type \in RequestTypes
<1>1. PICK e \in RequestsOf(c) :
        queue' = Append(queue, [event |-> e, asker |-> c, awaited |-> TRUE, sample |-> FALSE])
  BY DEF SendRequest
<1>2. e \in Events /\ e.type \in RequestTypes
  BY EventTyped DEF RequestsOf, EventTypes, RequestTypes
<1> DEFINE m == [event |-> e, asker |-> c, awaited |-> TRUE, sample |-> FALSE]
<1>3. m \in Messages /\ m.asker = c /\ ~m.sample /\ m.event.type \in RequestTypes
  BY <1>2 DEF Messages
<1> QED
  BY <1>1, <1>3

\* What the feedback task sends.
LEMMA FeedbackSent ==
  ASSUME RuntimeInv, PublishFeedback
  PROVE  /\ FeedbackMessage \in Messages /\ queue' = Append(queue, FeedbackMessage)
         /\ FeedbackMessage.asker = NoCaller /\ FeedbackMessage.event.type \notin RequestTypes
<1>1. NormalizeFeedback(Topology, AssertedEnd, asserted) \in Observations
  BY RuntimeAssumption DEF NormalizeFeedback, Observations, Endpoints
<1>2. {"DecoderHealthy", "ObservationChanged"} \subseteq EventTypes \ RequestTypes
  BY DEF EventTypes, DecoderTypes, FeedbackTypes, RequestTypes
<1>3. FeedbackMessage.event \in Events /\ FeedbackMessage.event.type \notin RequestTypes
  BY <1>1, <1>2, EventTyped DEF FeedbackMessage
<1> QED
  BY <1>3, RuntimeAssumption DEF FeedbackMessage, Messages, PublishFeedback

LEMMA OthersPromised ==
  ASSUME RuntimeInv, PromiseInv,
         \/ (\E c \in Callers : Caller(c)) \/ (\E c \in Impatient : GiveUp(c))
         \/ Maintenance \/ Feedback \/ IntervalPasses \/ UNCHANGED vars
  PROVE  PromiseInv'
<1>1. UNCHANGED <<pc, todo, asker>> /\ (spaced => spaced') /\ driven' \subseteq driven
  BY DEF Caller, BeginRequest, SendRequest, QueueStaysFull, TakeAnswer, GiveUp,
     Maintenance, ClaimMaintenance, RefuseMaintenance, AdmitMaintenance,
     LeaveMaintenance, ClearCommand, LowerOutputs, LoweringFails,
     Feedback, FirstSample, FeedbackChange, PublishFeedback, IntervalPasses,
     vars, controllerVars, outputVars
<1> DEFINE Asked(q) == \A i \in DOMAIN q :
                         /\ q[i].event.type \in RequestTypes => q[i].asker \in Callers
                         /\ q[i].sample => q[i].asker = NoCaller
<1>2. Asked(queue)
  BY DEF PromiseInv, RequestsAsked
<1>3. ASSUME NEW c \in Callers, SendRequest(c)
      PROVE  Asked(queue')
  BY <1>3, RequestSent, MessageAdded
<1>4. ASSUME NEW c \in Callers, Abandon(c)
      PROVE  Asked(queue')
  BY <1>2, <1>4, AbandonedMessages
<1>5. PublishFeedback => Asked(queue')
  BY FeedbackSent, MessageAdded
<1>6. Asked(queue')
  BY <1>2, <1>3, <1>4, <1>5, RuntimeAssumption
     DEF Caller, BeginRequest, QueueStaysFull, TakeAnswer, GiveUp,
         Maintenance, ClaimMaintenance, RefuseMaintenance, AdmitMaintenance,
         LeaveMaintenance, ClearCommand, LowerOutputs, LoweringFails,
         Feedback, FirstSample, FeedbackChange, IntervalPasses, vars
<1> QED
  BY <1>1, <1>6, NothingTakenUp

\* What ties the open requests to the turn in progress is invariant.
THEOREM PromiseInvariant == Spec => []PromiseInv
<1>1. Init => PromiseInv
  BY RuntimeAssumption DEF Init, PromiseInv, RequestsAsked
<1>2. RuntimeInv /\ PromiseInv /\ [Next]_vars => PromiseInv'
  <2> SUFFICES ASSUME RuntimeInv, PromiseInv, [Next]_vars PROVE PromiseInv'
    OBVIOUS
  <2>1. CASE Continue
    BY <2>1, ContinuePromised
  <2>2. CASE Controller /\ ~Continue
    <3>1. pc \in {"boot", "ready"}
      BY <2>2 DEF Controller, ControllerBoot, ExpirePulse, Expire, DecoderWake, Receive
    <3> QED
      BY <2>2, <3>1, TurnPromised
  <2>3. CASE \/ (\E c \in Callers : Caller(c)) \/ (\E c \in Impatient : GiveUp(c))
             \/ Maintenance \/ Feedback \/ IntervalPasses \/ UNCHANGED vars
    BY <2>3, OthersPromised
  <2> QED
    BY <2>1, <2>2, <2>3 DEF Next
<1> QED
  BY <1>1, <1>2, RuntimeInvariant, PTL DEF Spec

-----------------------------------------------------------------------------
(* Counting requests.                                                      *)

\* A message that is added is counted for its asker alone.
LEMMA CountedWhenSent ==
  ASSUME RuntimeInv, NEW c \in Callers, NEW m \in Messages, queue' = Append(queue, m)
  PROVE  /\ Cardinality(Queued(c)) \in Nat
         /\ Cardinality(Queued(c)') = Cardinality(Queued(c)) + IF m.asker = c THEN 1 ELSE 0
<1>1. queue \in Seq(Messages) /\ Len(queue) \in Nat /\ DOMAIN queue = 1..Len(queue)
  BY LenProperties DEF RuntimeInv, TypeOK
<1>2. /\ DOMAIN queue' = 1..(Len(queue) + 1)
      /\ \A i \in 1..Len(queue) : queue'[i] = queue[i]
      /\ queue'[Len(queue) + 1] = m
  BY <1>1, AppendProperties, LenProperties
<1>3. IsFiniteSet(Queued(c)) /\ Cardinality(Queued(c)) \in Nat
  <2>1. IsFiniteSet(1..Len(queue)) /\ Queued(c) \subseteq 1..Len(queue)
    BY <1>1, FS_Interval DEF Queued
  <2> QED
    BY <2>1, FS_Subset, FS_CardinalityType
<1>4. CASE m.asker = c
  <2>1. Queued(c)' = Queued(c) \cup {Len(queue) + 1} /\ Len(queue) + 1 \notin Queued(c)
    BY <1>1, <1>2, <1>4 DEF Queued
  <2> QED
    BY <1>3, <1>4, <2>1, FS_AddElement
<1>5. CASE m.asker # c
  <2>1. Queued(c)' = Queued(c)
    BY <1>1, <1>2, <1>5 DEF Queued
  <2> QED
    BY <1>3, <1>5, <2>1
<1> QED
  BY <1>4, <1>5

\* A message that is taken is no longer counted; the others move up.
LEMMA CountedWhenTaken ==
  ASSUME RuntimeInv, NEW c \in Callers, queue # <<>>, queue' = Tail(queue)
  PROVE  /\ Cardinality(Queued(c)') \in Nat
         /\ Cardinality(Queued(c)) = Cardinality(Queued(c)')
                                       + IF Head(queue).asker = c THEN 1 ELSE 0
<1>1. /\ Len(queue) \in Nat \ {0}
      /\ DOMAIN queue = 1..Len(queue) /\ DOMAIN queue' = 1..(Len(queue) - 1)
      /\ \A i \in DOMAIN queue' : queue'[i] = queue[i + 1]
      /\ Head(queue) = queue[1]
  BY MessageTaken
<1>2. IsFiniteSet(Queued(c)) /\ IsFiniteSet(Queued(c)')
  <2>1. /\ IsFiniteSet(1..Len(queue)) /\ IsFiniteSet(1..(Len(queue) - 1))
        /\ Queued(c) \subseteq 1..Len(queue) /\ Queued(c)' \subseteq 1..(Len(queue) - 1)
    BY <1>1, FS_Interval, SMTT(60) DEF Queued
  <2> QED
    BY <2>1, FS_Subset
<1> DEFINE moved == [i \in Queued(c)' |-> i + 1]
<1>3. moved \in Bijection(Queued(c)', Queued(c) \ {1})
  <2>1. \A i \in Queued(c)' : i \in Nat /\ i >= 1 /\ i + 1 \in Queued(c) \ {1}
    BY <1>1 DEF Queued
  <2>2. \A j \in Queued(c) \ {1} : j - 1 \in Queued(c)' /\ j \in Nat /\ (j - 1) + 1 = j
    BY <1>1 DEF Queued
  <2>3. moved \in [Queued(c)' -> Queued(c) \ {1}]
    BY <2>1
  <2>4. \A i, j \in Queued(c)' : moved[i] = moved[j] => i = j
    BY <2>1
  <2>5. \A j \in Queued(c) \ {1} : \E i \in Queued(c)' : moved[i] = j
    BY <2>2
  <2> QED
    BY <2>3, <2>4, <2>5 DEF Bijection, Injection, Surjection, IsInjective
<1>4. Cardinality(Queued(c) \ {1}) = Cardinality(Queued(c)')
  BY <1>2, <1>3, FS_Bijection DEF ExistsBijection
<1>5. Cardinality(Queued(c)) \in Nat /\ Cardinality(Queued(c)') \in Nat
  BY <1>2, FS_CardinalityType
<1>6. 1 \in Queued(c) <=> Head(queue).asker = c
  BY <1>1 DEF Queued
<1>7. Cardinality(Queued(c) \ {1})
        = IF 1 \in Queued(c) THEN Cardinality(Queued(c)) - 1 ELSE Cardinality(Queued(c))
  BY <1>2, FS_RemoveElement
<1> QED
  BY <1>4, <1>5, <1>6, <1>7

LEMMA CountedWhenKept ==
  ASSUME NEW c, DOMAIN queue' = DOMAIN queue,
         \A i \in DOMAIN queue : queue'[i].asker = queue[i].asker
  PROVE  Cardinality(Queued(c)') = Cardinality(Queued(c))
BY DEF Queued

LEMMA Counted ==
  ASSUME RuntimeInv, NEW c \in Callers
  PROVE  Cardinality(Queued(c)) \in Nat
<1>1. Len(queue) \in Nat /\ DOMAIN queue = 1..Len(queue)
  BY LenProperties DEF RuntimeInv, TypeOK
<1>2. IsFiniteSet(1..Len(queue)) /\ Queued(c) \subseteq 1..Len(queue)
  BY <1>1, FS_Interval DEF Queued
<1> QED
  BY <1>2, FS_Subset, FS_CardinalityType

-----------------------------------------------------------------------------
(* The refinement.                                                         *)

\* A step at which no output changes and each request stays where it counts.
LEMMA OutOfSight ==
  ASSUME driven' = driven, spaced' = spaced,
         \A c \in Callers : OpenRequests'[c] = OpenRequests[c]
  PROVE  UNCHANGED Promise!promiseVars
BY DEF Promise!promiseVars, OpenRequests, ActiveOutput

\* The open requests of one caller change by one.
LEMMA OneFewer ==
  ASSUME RuntimeInv, NEW c \in Callers, UNCHANGED queue, Applying(c), ~(Applying(c)'),
         \A other \in Callers \ {c} : Applying(other)' = Applying(other)
  PROVE  Promise!Answered(c)
<1>1. \A other \in Callers :
        Cardinality(Queued(other)') = Cardinality(Queued(other))
          /\ Cardinality(Queued(other)) \in Nat
  BY CountedWhenKept, Counted
<1>2. OpenRequests[c] > 0
  BY <1>1 DEF OpenRequests
<1>3. \A other \in Callers :
        OpenRequests'[other] = IF other = c THEN OpenRequests[c] - 1 ELSE OpenRequests[other]
  BY <1>1 DEF OpenRequests
<1>4. OpenRequests' = [OpenRequests EXCEPT ![c] = @ - 1]
  BY <1>3 DEF OpenRequests
<1> QED
  BY <1>2, <1>4 DEF Promise!Answered

\* The controller's turns: a pulse that ends is released, and a message counts
\* on as the request being applied.
LEMMA TurnImplements ==
  ASSUME RuntimeInv, PromiseInv, Controller, pc \in {"boot", "ready"}
  PROVE  [Promise!PromiseNext]_(Promise!promiseVars)
<1>1. CASE Receive
  <2>1. ASSUME NEW c \in Callers
        PROVE  OpenRequests'[c] = OpenRequests[c]
    <3>1. /\ Cardinality(Queued(c)') \in Nat
          /\ Cardinality(Queued(c)) = Cardinality(Queued(c)')
                                        + IF Head(queue).asker = c THEN 1 ELSE 0
      BY <1>1, MessageTurn, CountedWhenTaken
    <3>2. ~Applying(c) /\ (Applying(c)' <=> Head(queue).asker = c)
      BY <1>1, MessageTurn DEF Applying
    <3> QED
      BY <3>1, <3>2 DEF OpenRequests
  <2> QED
    BY <1>1, <2>1, OutOfSight DEF Receive, outputVars
<1>2. CASE ~Receive
  <2>1. ControllerBoot \/ ExpirePulse \/ (\E timer \in Timers : Expire(timer)) \/ DecoderWake
    BY <1>2 DEF Controller, Continue, ApplyQuietly, RefusePulse, ReservePulse, DrivePulse,
       ActivationFails, CommitPulse
  <2>2. /\ asker' = NoCaller /\ pc \in {"boot", "ready"} /\ queue' = queue
        /\ spaced' = spaced /\ driven' \in {driven, {}}
    BY <2>1, UnaskedTurn
  <2>3. \A c \in Callers : OpenRequests'[c] = OpenRequests[c]
    BY <2>2, RuntimeAssumption DEF OpenRequests, Queued, Applying
  <2>4. CASE driven' = driven
    BY <2>2, <2>3, <2>4, OutOfSight
  <2>5. CASE driven' = {}
    BY <2>2, <2>3, <2>5
       DEF Promise!PromiseNext, Promise!Release, ActiveOutput, OpenRequests
  <2> QED
    BY <2>2, <2>4, <2>5
<1> QED
  BY <1>1, <1>2

\* Applying a request: it is dropped, or it fires its pulse once.
LEMMA ContinueImplements ==
  ASSUME RuntimeInv, PromiseInv, Continue
  PROVE  [Promise!PromiseNext]_(Promise!promiseVars)
<1>0. asker \in Callers \cup {NoCaller}
  BY DEF RuntimeInv, TypeOK
<1>1. CASE ReservePulse
  <2>1. driven = {} /\ driven' = {}
    BY <1>1 DEF ReservePulse, CanStart, RuntimeInv, PulseOK
  <2>2. \A c \in Callers : OpenRequests'[c] = OpenRequests[c]
    BY <1>1 DEF ReservePulse, OpenRequests, Queued, Applying
  <2> QED
    BY <1>1, <2>1, <2>2, OutOfSight DEF ReservePulse
<1>2. CASE DrivePulse
  <2>1. driven = {} /\ spaced /\ driven' = {Reduction.command}
    BY <1>2 DEF DrivePulse, RuntimeInv, PulseOK, PromiseInv
  <2>2. Reduction.command \in Commands
    <3>1. Reduction \in Transitions /\ Reduction.command # "None"
      BY <1>2, ReductionTyped DEF DrivePulse, RuntimeInv, TurnOK
    <3> QED
      BY <3>1 DEF Transitions
  <2>3. ActiveOutput = "None" /\ ActiveOutput' = Reduction.command
    BY <2>1, <2>2 DEF ActiveOutput
  <2>4. asker \in Callers
    <3>1. Head(todo).type \in RequestTypes
      BY <1>2, ReductionTyped, ReducePulse
         DEF DrivePulse, RuntimeInv, TurnOK, TypeOK, Reduction
    <3> QED
      BY <1>2, <3>1 DEF DrivePulse, PromiseInv, RequestsAsked
  <2>5. Promise!Answered(asker)
    BY <1>2, <2>4, OneFewer DEF DrivePulse, Applying
  <2>6. Promise!Fire(asker, Reduction.command)
    BY <1>2, <2>1, <2>3, <2>5 DEF DrivePulse, Promise!Fire
  <2> QED
    BY <2>2, <2>4, <2>6 DEF Promise!PromiseNext
<1>3. CASE ApplyQuietly \/ RefusePulse \/ ActivationFails
  <2>1. PICK result : /\ Done(result) /\ pc = "applying" /\ queue' = queue
                      /\ spaced' = spaced
    BY <1>3 DEF ApplyQuietly, RefusePulse, ActivationFails
  <2>2. driven' = driven
    <3>1. CASE ActivationFails
      BY <3>1, ReductionTyped, ReducePulse
         DEF ActivationFails, CanStart, RuntimeInv, PulseOK
    <3> QED
      BY <1>3, <3>1 DEF ApplyQuietly, RefusePulse, outputVars
  <2>3. asker' = NoCaller
    BY <2>1, TurnDone
  <2>4. CASE asker = NoCaller
    <3>1. \A c \in Callers : OpenRequests'[c] = OpenRequests[c]
      BY <2>1, <2>3, <2>4, RuntimeAssumption DEF OpenRequests, Queued, Applying
    <3> QED
      BY <2>1, <2>2, <3>1, OutOfSight
  <2>5. CASE asker \in Callers
    <3>1. Promise!Answered(asker)
      BY <2>1, <2>3, <2>5, OneFewer, RuntimeAssumption DEF Applying
    <3>2. Promise!Drop(asker)
      BY <2>1, <2>2, <3>1 DEF Promise!Drop, ActiveOutput
    <3> QED
      BY <2>5, <3>2 DEF Promise!PromiseNext
  <2> QED
    BY <1>0, <2>4, <2>5
<1>4. CASE CommitPulse
  <2>1. \A c \in Callers : OpenRequests'[c] = OpenRequests[c]
    BY <1>4, TurnDone, RuntimeAssumption DEF CommitPulse, OpenRequests, Queued, Applying
  <2> QED
    BY <1>4, <2>1, OutOfSight DEF CommitPulse, outputVars
<1> QED
  BY <1>1, <1>2, <1>3, <1>4 DEF Continue

\* Callers ask; nothing else they do, giving up included, changes what is open.
LEMMA CallerImplements ==
  ASSUME RuntimeInv, PromiseInv, NEW c \in Callers, Caller(c) \/ GiveUp(c)
  PROVE  [Promise!PromiseNext]_(Promise!promiseVars)
<1>1. CASE SendRequest(c)
  <2>1. UNCHANGED <<driven, spaced, pc, asker>>
    BY <1>1 DEF SendRequest, controllerVars, outputVars
  <2>2. PICK m \in Messages : queue' = Append(queue, m) /\ m.asker = c
    BY <1>1, RequestSent
  <2>3. \A other \in Callers :
          OpenRequests'[other] = IF other = c THEN OpenRequests[c] + 1 ELSE OpenRequests[other]
    <3> SUFFICES ASSUME NEW other \in Callers
                 PROVE  OpenRequests'[other]
                          = IF other = c THEN OpenRequests[c] + 1 ELSE OpenRequests[other]
      OBVIOUS
    <3>1. /\ Cardinality(Queued(other)) \in Nat
          /\ Cardinality(Queued(other)') = Cardinality(Queued(other))
                                             + IF other = c THEN 1 ELSE 0
      BY <2>2, CountedWhenSent
    <3> QED
      BY <2>1, <3>1 DEF OpenRequests, Applying
  <2>4. OpenRequests' = [OpenRequests EXCEPT ![c] = @ + 1]
    BY <2>3 DEF OpenRequests
  <2>5. Promise!Ask(c)
    BY <2>1, <2>4 DEF Promise!Ask, Promise!Asked, ActiveOutput
  <2> QED
    BY <2>5 DEF Promise!PromiseNext
<1>2. CASE ~SendRequest(c)
  <2>1. UNCHANGED <<driven, spaced, pc, asker>>
    BY <1>2 DEF Caller, BeginRequest, QueueStaysFull, TakeAnswer, GiveUp, controllerVars,
       outputVars
  <2>2. queue' = queue \/ Abandon(c)
    BY <1>2 DEF Caller, BeginRequest, QueueStaysFull, TakeAnswer, GiveUp
  <2>3. \A other \in Callers : Cardinality(Queued(other)') = Cardinality(Queued(other))
    BY <2>2, AbandonedMessages, CountedWhenKept
  <2>4. \A other \in Callers : OpenRequests'[other] = OpenRequests[other]
    BY <2>1, <2>3 DEF OpenRequests, Applying
  <2> QED
    BY <2>1, <2>4, OutOfSight
<1> QED
  BY <1>1, <1>2

\* Maintenance can only end a pulse; feedback is not asked by anybody.
LEMMA OthersImplement ==
  ASSUME RuntimeInv, PromiseInv, Maintenance \/ Feedback \/ IntervalPasses
  PROVE  [Promise!PromiseNext]_(Promise!promiseVars)
<1>1. CASE IntervalPasses
  BY <1>1 DEF IntervalPasses, outputVars, Promise!PromiseNext, Promise!Rest, ActiveOutput,
     OpenRequests, Queued, Applying
<1>2. CASE Maintenance
  <2>1. UNCHANGED <<spaced, pc, asker, queue>> /\ driven' \subseteq driven
    BY <1>2 DEF Maintenance, ClaimMaintenance, RefuseMaintenance, AdmitMaintenance,
       LeaveMaintenance, ClearCommand, LowerOutputs, LoweringFails, controllerVars, outputVars
  <2>2. \A c \in Callers : OpenRequests'[c] = OpenRequests[c]
    BY <2>1 DEF OpenRequests, Queued, Applying
  <2>3. CASE driven' = driven
    BY <2>1, <2>2, <2>3, OutOfSight
  <2>4. CASE driven' # driven
    <3>1. driven' = {}
      BY <2>1, <2>4 DEF PromiseInv
    <3> QED
      BY <2>1, <2>2, <3>1
         DEF Promise!PromiseNext, Promise!Release, ActiveOutput, OpenRequests
  <2> QED
    BY <2>3, <2>4
<1>3. CASE Feedback
  <2>1. UNCHANGED <<spaced, pc, asker, driven>>
    BY <1>3 DEF Feedback, FirstSample, FeedbackChange, PublishFeedback, controllerVars,
       outputVars
  <2>2. ASSUME NEW c \in Callers
        PROVE  Cardinality(Queued(c)') = Cardinality(Queued(c))
    <3>1. CASE PublishFeedback
      <4>1. FeedbackMessage \in Messages /\ queue' = Append(queue, FeedbackMessage)
              /\ FeedbackMessage.asker # c
        BY <3>1, FeedbackSent, RuntimeAssumption
      <4> QED
        BY <4>1, CountedWhenSent
    <3>2. CASE queue' = queue
      BY <3>2, CountedWhenKept
    <3> QED
      BY <1>3, <3>1, <3>2 DEF Feedback, FirstSample, FeedbackChange
  <2>3. \A c \in Callers : OpenRequests'[c] = OpenRequests[c]
    BY <2>1, <2>2 DEF OpenRequests, Applying
  <2> QED
    BY <2>1, <2>3, OutOfSight
<1> QED
  BY <1>1, <1>2, <1>3

\* The runtime implements PulsePromise, whoever asks, gives up and asks again:
\* every request is carried out by one pulse at most, pulses never overlap and
\* keep their interval, and nothing but an open request starts one.
THEOREM PulsePromiseKept == Spec => PulsePromised
<1>1. Init => Promise!PromiseInit
  <2> SUFFICES ASSUME Init PROVE Promise!PromiseInit
    OBVIOUS
  <2>1. \A c \in Callers : Queued(c) = {} /\ ~Applying(c)
    BY DEF Init, Queued, Applying
  <2>2. OpenRequests = [c \in Callers |-> 0]
    BY <2>1, FS_EmptySet DEF OpenRequests
  <2> QED
    BY <2>2 DEF Init, Promise!PromiseInit, ActiveOutput
<1>2. RuntimeInv /\ PromiseInv /\ [Next]_vars => [Promise!PromiseNext]_(Promise!promiseVars)
  <2> SUFFICES ASSUME RuntimeInv, PromiseInv, [Next]_vars
               PROVE  [Promise!PromiseNext]_(Promise!promiseVars)
    OBVIOUS
  <2>1. CASE Continue
    BY <2>1, ContinueImplements
  <2>2. CASE Controller /\ ~Continue
    <3>1. pc \in {"boot", "ready"}
      BY <2>2 DEF Controller, ControllerBoot, ExpirePulse, Expire, DecoderWake, Receive
    <3> QED
      BY <2>2, <3>1, TurnImplements
  <2>3. CASE (\E c \in Callers : Caller(c)) \/ (\E c \in Impatient : GiveUp(c))
    BY <2>3, CallerImplements, RuntimeAssumption
  <2>4. CASE Maintenance \/ Feedback \/ IntervalPasses
    BY <2>4, OthersImplement
  <2>5. CASE UNCHANGED vars
    BY <2>5 DEF vars, controllerVars, outputVars, Promise!promiseVars, ActiveOutput,
       OpenRequests, Queued, Applying
  <2> QED
    BY <2>1, <2>2, <2>3, <2>4, <2>5 DEF Next
<1> QED
  BY <1>1, <1>2, RuntimeInvariant, PromiseInvariant, PTL
     DEF Spec, PulsePromised, Promise!PromiseSpec
=============================================================================
