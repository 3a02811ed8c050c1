---------------------- MODULE DecodedFeedbackProperties ----------------------
(***************************************************************************)
(* What the decoder must make of the samples it accepted.  The meaning of  *)
(* predicates and rules is stated here over those samples and a clock that *)
(* does not wrap, with no ring of edges and no deadlines.                  *)
(***************************************************************************)
EXTENDS DecodedFeedback

\* The samples of a story up to time t.
Told(story, t) == [k \in {l \in DOMAIN story : story[l].at <= t} |-> story[k]]

\* Since some sample at least `hold` old, the input had the level.
StableMeans(p, story, t) ==
  \E k \in DOMAIN story :
    /\ t - story[k].at >= p.hold
    /\ \A l \in k..Len(story) : story[l].levels[p.input] = p.level

\* When the input changed, oldest first.
ChangesIn(input, story) ==
  {k \in DOMAIN story : k > 1 /\ story[k].levels[input] # story[k - 1].levels[input]}

Rank(S, k) == Cardinality({l \in S : l <= k})
Nth(S, n)  == CHOOSE k \in S : Rank(S, k) = n

EdgesIn(input, story) ==
  LET changes == ChangesIn(input, story) IN
  [n \in 1..Cardinality(changes) |-> story[Nth(changes, n)].at]

\* Enough of the last edges are evenly spaced and recent.
PeriodicMeans(p, story, t) ==
  LET edges  == EdgesIn(p.input, story)
      oldest == Len(edges) - p.edges + 1
  IN /\ oldest >= 1
     /\ t - edges[oldest] <= p.window /\ t - Newest(edges) < p.gap
     /\ \A k \in oldest..(Len(edges) - 1) : edges[k + 1] - edges[k] \in p.min..p.max

Means(p, story, t) ==
  IF p.kind = "StableLevel" THEN StableMeans(p, story, t) ELSE PeriodicMeans(p, story, t)

RuleMeans(r, story, t) ==
  \E g \in Elements(r.groups) : \A p \in Elements(g) : Means(p, story, t)

-----------------------------------------------------------------------------

\* Every predicate is worth what the samples say, at the present time and not
\* only when it was last evaluated: neither the wrap of the tick nor the ring of
\* edges shows (evaluate_predicate, push_edge).
EvidenceTrue ==
  \A r \in EnabledRules(config) : \A p \in Predicates(r) :
    PredicateHolds(p, d.inputs[p.input], clock % Ticks) = Means(p, heard, clock)

\* Being evaluated at the deadline it asks for is enough: an evaluation now or at
\* any time before it changes neither a phase nor the result (next_deadline, and
\* the four passes of evaluate).
WakeUpsSuffice ==
  \A t \in d.lastEval..(d.lastEval + Half - 1) :
    d.lastNow # NoTick /\ Quiet(t) /\ (d.deadline # NoTick => t < DueAt(d)) =>
      LET e == Advance(config, d, t) IN e.phases = d.phases /\ e.result = d.result

-----------------------------------------------------------------------------
(* The lifecycle of a movement, of a decoder that was never evaluated after *)
(* a deadline.  At the time of a sample the rule is evaluated both without *)
(* and with it; a rule of several inputs also with a part of it, of which  *)
(* nothing is said here.                                                   *)

Now == d.lastEval

OneInput(r) == \A p, q \in Predicates(r) : p.input = q.input
Watched     == {r \in RulesFor(config, "Movement") : OneInput(r)}

Was(r, story, t)   == RuleMeans(r, Told(story, t), t)
Could(r, story, t) == Was(r, story, t) \/ RuleMeans(r, Told(story, t - 1), t)
Must(r, story, t)  == Was(r, story, t) /\ RuleMeans(r, Told(story, t - 1), t)

\* Its expression was true for its entry confirmation before `at`.
CouldEnter(r, story, at) ==
  /\ at >= r.entry /\ Could(r, story, at)
  /\ \A t \in (at - r.entry)..(at - 1) : Was(r, story, t)

\* A movement is claimed only after its entry was confirmed and as long as no loss
\* was: a glitch neither starts nor outlives a movement (evaluate).
MovementEarned ==
  ~d.late => \A r \in Watched :
    Claims(d.phases[r.id]) =>
      \E at \in 0..Now :
        /\ CouldEnter(r, heard, at)
        /\ \A t \in at..(Now - r.loss) : \E u \in t..(t + r.loss) : Could(r, heard, u)

MustEnter(r, story, at) ==
  /\ at >= r.entry
  /\ Was(r, story, at - r.entry)
  /\ \A t \in (at - r.entry + 1)..at : Must(r, story, t)

\* Since `at` it has been interrupted by less than its loss confirmation.
Lasts(r, story, at, now) ==
  \A t \in at..now : \E u \in t..(t + r.loss) : u <= now => Must(r, story, u)

\* A movement that lasts beyond its age limit, interruptions shorter than its loss
\* confirmation included, is withdrawn, and reported as an obstruction when it is
\* to be and the gate is at no end (evaluate).  Nothing is said of the instant at
\* which its age equals the limit.
AgeLimitsClaims ==
  ~d.late => \A r \in Watched :
    ( /\ r.age # 0 /\ Must(r, heard, Now)
      /\ \E at \in 0..(Now - r.age - 1) :
           /\ MustEnter(r, heard, at)
           /\ Lasts(r, heard, at, Now) ) =>
    /\ d.phases[r.id].phase = "Expired" /\ d.result.withdrawn
    /\ r.expiry \in ObstructingExpiries /\ d.result.position = "None" =>
         d.result.obstructed

-----------------------------------------------------------------------------
(* The inductive invariant behind the theorems.                            *)

PhaseRecords == [phase : Phases, since : TickType, matched : TickType]
InputRecords == [valid : BOOLEAN, level : BOOLEAN, since : TickType, edges : Seq(TickType)]

DecoderStates(c) ==
  [inputs : [Elements(c.inputs) -> InputRecords], phases : [RuleIds(c) -> PhaseRecords],
   result : Results, deadline : TickType \cup {NoTick}, lastNow : TickType \cup {NoTick},
   lastEval : Nat, late : BOOLEAN]

\* What the feedback task has sampled so far.
Known == Elements(queue) \cup Elements(heard) \cup ({latest} \ {NoSample})

\* Samples are queued and heard in the order of their times, each time once.
SamplesOK ==
  /\ config \in Configs /\ Compiles(config) /\ clock \in 0..Horizon[config] /\ booted \in BOOLEAN
  /\ latest \in Samples \cup {NoSample}
  /\ queue \in Seq(Samples) /\ heard \in Seq(Samples) /\ Len(queue) <= Backlog
  /\ \A k, l \in DOMAIN queue : k < l => queue[k].at < queue[l].at
  /\ \A k, l \in DOMAIN heard : k < l => heard[k].at < heard[l].at
  /\ \A s \in Known : s.at <= latest.at /\ \A other \in Known : s.at = other.at => s = other

\* Nobody is so late that a signed difference of ticks misleads.
TimesOK ==
  /\ Quiet(clock)
  /\ queue # <<>> => clock - Head(queue).at <= Lag
  /\ ~booted => clock <= Lag /\ d = InitialDecoder(config) /\ heard = <<>>
  /\ booted => d.lastNow = d.lastEval % Ticks
  /\ heard # <<>> => Newest(heard).at <= d.lastEval
  /\ d.lastEval <= clock

\* Every place has its element.
Counted(S) == \A n \in 1..Cardinality(S) : \E k \in S : Rank(S, k) = n

\* An input knows its level, since when, and the ticks of its newest edges.
InputOK(i) ==
  LET input   == d.inputs[i]
      edges   == EdgesIn(i, heard)
      dropped == Len(edges) - Len(input.edges)
  IN /\ input.valid = (heard # <<>>)
     /\ edges \in Seq(Nat) /\ Counted(ChangesIn(i, heard))
     /\ Len(input.edges) = IF Len(edges) < EdgeCapacity THEN Len(edges) ELSE EdgeCapacity
     /\ \A n \in DOMAIN input.edges : input.edges[n] = edges[dropped + n] % Ticks
     /\ \A n \in 1..(Len(edges) - 1) : edges[n + 1] - edges[n] \in 1..(Ticks - 1)
     /\ edges # <<>> => Newest(edges) = ChangedAt(i)
     /\ heard # <<>> =>
          input.level = Newest(heard).levels[i] /\ input.since = ChangedAt(i) % Ticks

\* Nothing is left to do at the time of the last evaluation, and the deadline
\* comes before whatever there is to wait for.
Rested(c, s) ==
  LET holds == {r \in EnabledRules(c) : ExpressionHolds(r, s.inputs, s.lastNow)}
      awaited(at) == IsFuture(s.lastNow, at) =>
        s.deadline # NoTick /\ Elapsed(s.deadline, s.lastNow) <= Elapsed(at, s.lastNow)
  IN /\ s.result = Arbitrate(c, s.inputs, s.phases, holds)
     /\ \A r \in EnabledRules(c) : \A p \in Predicates(r) :
          \A at \in PredicateDeadlines(p, s.inputs[p.input], s.lastNow) : awaited(at)
     /\ \A r \in RulesFor(c, "Movement") :
          /\ Pass(r, s.phases[r.id], r \in holds, s.lastNow) = s.phases[r.id]
          /\ \A at \in LifecycleDeadlines(r, s.phases[r.id]) : awaited(at)

DecoderInv ==
  /\ SamplesOK /\ TimesOK
  /\ d \in DecoderStates(config)
  /\ \A i \in Elements(config.inputs) : InputOK(i)
  /\ d.lastNow # NoTick => Rested(config, d)

-----------------------------------------------------------------------------
(* The history of a phase, behind MovementEarned and AgeLimitsClaims.      *)

\* From `at` until before `end`, no loss was confirmed.
Sustained(r, story, at, end, now) ==
  \A t \in at..(end - 1) : \E u \in t..(t + r.loss) : u <= now /\ Could(r, story, u)

HistoryOK(r, m, story, now) ==
  /\ m.phase = "EntryPending" =>
       \E since \in 0..now :
         /\ since % Ticks = m.since /\ now - since <= r.entry
         /\ \A t \in since..(now - 1) : Was(r, story, t)
  /\ m.phase \in {"Matched", "Expired"} =>
       \E at \in 0..now : CouldEnter(r, story, at) /\ Sustained(r, story, at, now, now)
  /\ m.phase = "LossPending" =>
       \E since \in 0..now :
         /\ since % Ticks = m.since /\ now - since <= r.loss
         /\ \E at \in 0..since : CouldEnter(r, story, at) /\ Sustained(r, story, at, since, now)

\* The expression was not true before `since`, or not at `since` without its sample.
Fresh(r, story, since) == ~(Was(r, story, since - 1) /\ Must(r, story, since))

\* What the story obliges a phase to be, as long as no age has wrapped.
DutyOK(r, m, story, now) ==
  now < Ticks =>
    /\ m.phase = "Unmatched"    => Fresh(r, story, now)
    /\ m.phase = "EntryPending" => m.since <= now /\ Fresh(r, story, m.since)
    /\ m.phase = "LossPending"  =>
         m.since <= now /\ \A u \in m.since..(now - 1) : ~Was(r, story, u)
    /\ m.phase \in {"Matched", "LossPending", "Expired"} => m.matched <= now
    /\ \A at \in 0..(now - 1) :
         MustEnter(r, story, at) /\ Lasts(r, story, at, now) =>
           m.phase \in {"Matched", "LossPending", "Expired"} /\ m.matched <= at

PhaseOK(r, m, story, now) == HistoryOK(r, m, story, now) /\ DutyOK(r, m, story, now)

HistoryInv == ~d.late => \A r \in Watched : PhaseOK(r, d.phases[r.id], heard, Now)
=============================================================================
