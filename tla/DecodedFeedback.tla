--------------------------- MODULE DecodedFeedback ---------------------------
(***************************************************************************)
(* The path of custom-rule feedback: the feedback task (components/        *)
(* gate_hardware) stamps and queues each sample of debounced levels; the   *)
(* controller task (components/gate_runtime) feeds it to the decoder, and  *)
(* evaluates the decoder at the deadlines it asks for.                     *)
(*                                                                         *)
(* The clock counts milliseconds from the first sample and does not wrap;  *)
(* the decoder sees it modulo Ticks.  What was sampled and what the        *)
(* decoder accepted of it is kept, so that what the decoder makes of it    *)
(* can be compared with what happened.                                     *)
(***************************************************************************)
EXTENDS SignalDecoder

CONSTANTS
  Configs,  \* configurations the device may be given
  Backlog,  \* bound: samples not yet received (16 events, and one being sent)
  Lag,      \* bound: how late, in ms, a task may run
  Horizon   \* bound: for each configuration, when the clock stops

ASSUME FeedbackAssumption ==
  /\ \E c \in Configs : Compiles(c)
  /\ Backlog \in Nat \ {0} /\ Lag \in 0..MaxDuration /\ Horizon \in [Configs -> Nat]

VARIABLES
  config,  \* the compiled decoder configuration
  clock,   \* esp_timer_get_time() / 1000
  latest,  \* gate_hardware's latest_sample
  queue,   \* the samples in runtime.queue, and the one being sent to it
  booted,  \* the controller task has left its boot turn
  d,       \* runtime.decoder
  heard    \* the samples it accepted, in order (history)

vars == <<config, clock, latest, queue, booted, d, heard>>

NoSample == [at |-> -1, levels |-> <<>>]
Samples  == [at : 0..clock, levels : [Elements(config.inputs) -> BOOLEAN]]
TickType == 0..(Ticks - 1)

TypeOK ==
  /\ config \in Configs /\ clock \in 0..Horizon[config]
  /\ latest \in Samples \cup {NoSample} /\ booted \in BOOLEAN
  /\ Elements(queue) \cup Elements(heard) \subseteq Samples /\ Len(queue) <= Backlog
  /\ \A i \in DOMAIN d.inputs :
       /\ {d.inputs[i].valid, d.inputs[i].level} \subseteq BOOLEAN
       /\ {d.inputs[i].since} \cup Elements(d.inputs[i].edges) \subseteq TickType
       /\ Len(d.inputs[i].edges) <= EdgeCapacity
  /\ \A id \in DOMAIN d.phases :
       d.phases[id] \in [phase : Phases, since : TickType, matched : TickType]
  /\ d.result \in Results /\ {d.deadline, d.lastNow} \subseteq TickType \cup {NoTick}
  /\ d.lastEval \in 0..clock

Init ==
  /\ config \in {c \in Configs : Compiles(c)}
  /\ clock = 0 /\ latest = NoSample /\ queue = <<>>
  /\ d = InitialDecoder(config) /\ heard = <<>> /\ booted = FALSE

-----------------------------------------------------------------------------
(* The feedback task.                                                      *)

\* The first sample has the levels the task finds, a later one changed levels.
\* It is stored and sent; the task blocks while the queue is full.
Capture ==
  /\ Len(queue) < Backlog
  /\ latest' \in [at : {clock}, levels : [Elements(config.inputs) -> BOOLEAN]]
  /\ latest # NoSample => latest.at < clock /\ latest'.levels # latest.levels
  /\ queue' = Append(queue, latest')
  /\ UNCHANGED <<config, clock, booted, d, heard>>

-----------------------------------------------------------------------------
(* The controller task.                                                    *)

\* A level is offered to an input as an update, and else as its first level.
Offer(state, i, level, at) ==
  IF Updates(state, i, at) THEN Update(config, state, i, level, at)
                           ELSE Initialize(config, state, i, level, at)

\* consume_custom_sample: one input after the other, at the time of the sample,
\* then an evaluation at the time it is consumed.
Consume(sample) ==
  LET offer(n, state) ==
        IF n \in DOMAIN config.inputs
        THEN Offer(state, config.inputs[n], sample.levels[config.inputs[n]], sample.at)
        ELSE state
  IN /\ d' = Advance(config, offer(4, offer(3, offer(2, offer(1, d)))), clock)
     /\ heard' = IF Accepts(d, sample.at) /\ sample \notin Elements(heard)
                 THEN Append(heard, sample) ELSE heard

\* The sample stored last, if there is one; it stays in the queue.
Boot ==
  /\ ~booted /\ booted' = TRUE
  /\ IF latest = NoSample THEN d' = Advance(config, d, clock) /\ UNCHANGED heard
                          ELSE Consume(latest)
  /\ UNCHANGED <<config, clock, latest, queue>>

\* A sample is consumed.  A deadline may have come since it was dequeued.
Receive ==
  /\ booted /\ queue # <<>> /\ queue' = Tail(queue)
  /\ Consume(Head(queue))
  /\ UNCHANGED <<config, clock, latest, booted>>

Due == d.deadline # NoTick /\ Elapsed(clock, d.deadline) < Half

\* process_expired, as far as the decoder is concerned; with nothing due it does
\* nothing.
ProcessExpired ==
  /\ booted /\ Due /\ d' = Advance(config, d, clock)
  /\ UNCHANGED <<config, clock, latest, queue, booted, heard>>

-----------------------------------------------------------------------------
(* Time.  Two of its bounds are limits of the code, not of the model: its  *)
(* signed comparisons need an evaluation every 2^31 ms (24.8 days), its    *)
(* ages a change of every input every 2^32 ms.                             *)

\* When input i took its present level, as far as the decoder has heard.
ChangedAt(i) ==
  LET level(k) == heard[k].levels[i]
      steady   == {k \in DOMAIN heard : \A l \in k..Len(heard) : level(l) = level(k)}
  IN heard[CHOOSE k \in steady : \A l \in steady : k <= l].at

Quiet(t) ==
  /\ d.lastNow # NoTick => t - d.lastEval < Half
  /\ heard # <<>> => \A i \in Elements(config.inputs) : t - ChangedAt(i) < Ticks

\* Nobody is behind by more than Lag.
Prompt(t) ==
  /\ ~booted => t <= Lag
  /\ queue # <<>> => t <= Head(queue).at + Lag
  /\ d.deadline # NoTick => t <= DueAt(d) + Lag

\* The bounds stop the clock and nothing else.
Tick ==
  /\ clock' = IF clock < Horizon[config] /\ Quiet(clock + 1) /\ Prompt(clock + 1)
              THEN clock + 1 ELSE clock
  /\ UNCHANGED <<config, latest, queue, booted, d, heard>>

Next == Capture \/ Boot \/ Receive \/ ProcessExpired \/ Tick

Spec == Init /\ [][Next]_vars
=============================================================================
