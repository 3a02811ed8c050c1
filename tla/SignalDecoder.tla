---------------------------- MODULE SignalDecoder ----------------------------
(***************************************************************************)
(* The custom-rule signal decoder (components/signal_decoder): pure        *)
(* operators over a configuration c and a decoder state d.                 *)
(*                                                                         *)
(* A rule says which position, movement or fault its expression (a         *)
(* disjunction of groups of predicates over the inputs) stands for.  A     *)
(* position or fault holds while its expression does; a movement has a     *)
(* lifecycle: confirmed on entry, held while its loss is confirmed,        *)
(* withdrawn at an age limit.                                              *)
(*                                                                         *)
(* A tick is a count of milliseconds in a word that wraps.  Time arguments *)
(* named t are times that do not, so that history can be told; the code    *)
(* sees t % Ticks.                                                         *)
(***************************************************************************)
EXTENDS Integers, Sequences, FiniteSets

CONSTANTS
  Ticks,         \* values of a tick (2^32 in the code)
  EdgeCapacity,  \* kMaxEdgesPerInput (16 in the code)
  NoTick         \* no deadline, or no evaluation yet

ASSUME DecoderAssumption ==
  /\ Ticks \in Nat /\ Ticks >= 4 /\ Ticks % 2 = 0
  /\ EdgeCapacity \in Nat \ {0}
  /\ NoTick \notin 0..(Ticks - 1)

Half        == Ticks \div 2
MaxDuration == Half - 1      \* kMaxDurationMs

\* Faulty variant: the later of the two times is not always the first one.
ElapsedUnwrapped(now, since) == IF now >= since THEN now - since ELSE 0

\* Unsigned difference of two ticks, and the signed comparison behind deadlines.
Elapsed(now, since)     == (now - since) % Ticks
IsFuture(now, candidate) == Elapsed(candidate, now) \in 1..MaxDuration

Earliest(now, candidates) ==
  LET future == {at \in candidates : IsFuture(now, at)} IN
  IF future = {} THEN NoTick
  ELSE CHOOSE at \in future :
         \A other \in future : Elapsed(at, now) <= Elapsed(other, now)

-----------------------------------------------------------------------------
(* Configurations: a sequence of input ids and a sequence of rules.        *)

Elements(s) == {s[i] : i \in DOMAIN s}

MaxInputs == 4  \* kMaxInputs

PositionValues == {"Opened", "Closed"}
MovementValues == {"Opening", "Closing", "Stopped"}
Expiries       == {"None", "Unknown", "Obstructed", "UnknownAndObstructed"}

EnabledRules(c)  == {r \in Elements(c.rules) : r.enabled}
RulesFor(c, kind) == {r \in EnabledRules(c) : r.kind = kind}
Predicates(r)    == UNION {Elements(g) : g \in Elements(r.groups)}

Durations == 0..MaxDuration
Positive  == 1..MaxDuration

StableIsValid(p) == p.hold \in Positive

PeriodicIsValid(p) ==
  /\ {p.min, p.max, p.window, p.gap} \subseteq Positive
  /\ p.min <= p.max /\ p.max <= p.gap
  /\ p.edges \in 2..EdgeCapacity /\ (p.edges - 1) * p.min <= p.window

PredicateIsValid(c, p) ==
  /\ p.input \in Elements(c.inputs)
  /\ IF p.kind = "StableLevel" THEN StableIsValid(p) ELSE PeriodicIsValid(p)

\* A rule stands for a value of its kind.
ValueIsValid(r) ==
  \/ r.kind = "Position" /\ r.value \in PositionValues
  \/ r.kind = "Movement" /\ r.value \in MovementValues
  \/ r.kind = "Fault" /\ r.value = "Obstructed"

\* Only movements have a lifecycle, and an age limit goes with an expiry.
LifecycleIsValid(r) ==
  /\ {r.entry, r.loss, r.age} \subseteq Durations /\ r.expiry \in Expiries
  /\ (r.age = 0) = (r.expiry = "None")
  /\ r.kind # "Movement" => r.entry = 0 /\ r.loss = 0 /\ r.age = 0

\* The same expression may not stand for two values of one kind.
Conflict(r, other) ==
  r.groups = other.groups /\ r.kind = other.kind /\ r.value # other.value

\* compile: what the runtime starts with.  Its first error is left out.
Compiles(c) ==
  /\ Len(c.inputs) \in 1..MaxInputs
  /\ \A i, j \in DOMAIN c.inputs : c.inputs[i] = c.inputs[j] => i = j
  /\ \A i, j \in DOMAIN c.rules :
       c.rules[i].enabled /\ c.rules[j].enabled /\ i # j =>
         c.rules[i].id # c.rules[j].id /\ ~Conflict(c.rules[i], c.rules[j])
  /\ \A r \in EnabledRules(c) :
       /\ ValueIsValid(r) /\ LifecycleIsValid(r)
       /\ r.groups # <<>> /\ \A g \in Elements(r.groups) : Elements(g) # {}
       /\ \A p \in Predicates(r) : PredicateIsValid(c, p)

-----------------------------------------------------------------------------
(* Evidence of one input, and what a predicate makes of it.                *)

NoInput == [valid |-> FALSE, level |-> FALSE, since |-> 0, edges |-> <<>>]

Newest(edges) == edges[Len(edges)]

\* Faulty variant: nothing is dropped.
PushEdgeUnbounded(edges, now) == Append(edges, now)

\* The ring of the newest edges.
PushEdge(edges, now) ==
  Append(IF Len(edges) < EdgeCapacity THEN edges ELSE Tail(edges), now)

\* The newest n edges are a run: evenly spaced and inside the window.
IsRun(p, edges, n, now) ==
  \A i \in (Len(edges) - n + 1)..(Len(edges) - 1) :
    /\ Elapsed(edges[i + 1], edges[i]) \in p.min..p.max
    /\ Elapsed(now, edges[i]) <= p.window

RunLength(p, edges, now) ==
  CHOOSE n \in DOMAIN edges :
    IsRun(p, edges, n, now) /\ \A m \in DOMAIN edges : IsRun(p, edges, m, now) => m <= n

RunOldest(p, edges, now) == edges[Len(edges) - RunLength(p, edges, now) + 1]

StableHolds(p, input, now) ==
  input.level = p.level /\ Elapsed(now, input.since) >= p.hold

PeriodicHolds(p, input, now) ==
  /\ input.edges # <<>>
  /\ RunLength(p, input.edges, now) >= p.edges
  /\ Elapsed(now, RunOldest(p, input.edges, now)) <= p.window
  /\ Elapsed(now, Newest(input.edges)) < p.gap

PredicateHolds(p, input, now) ==
  /\ input.valid
  /\ IF p.kind = "StableLevel" THEN StableHolds(p, input, now)
                               ELSE PeriodicHolds(p, input, now)

\* Faulty variant: the oldest edge leaving the window is not waited for.
PredicateDeadlinesWithoutWindow(p, input, now) ==
  CASE ~input.valid -> {}
    [] p.kind = "StableLevel" ->
         IF input.level = p.level /\ ~StableHolds(p, input, now)
         THEN {(input.since + p.hold) % Ticks} ELSE {}
    [] OTHER ->
         IF PeriodicHolds(p, input, now)
         THEN {(Newest(input.edges) + p.gap) % Ticks} ELSE {}

\* When it may change without a new sample.
PredicateDeadlines(p, input, now) ==
  CASE ~input.valid -> {}
    [] p.kind = "StableLevel" ->
         IF input.level = p.level /\ ~StableHolds(p, input, now)
         THEN {(input.since + p.hold) % Ticks} ELSE {}
    [] OTHER ->
         IF PeriodicHolds(p, input, now)
         THEN {(Newest(input.edges) + p.gap) % Ticks,
               (RunOldest(p, input.edges, now) + p.window + 1) % Ticks}
         ELSE {}

ExpressionHolds(r, inputs, now) ==
  \E g \in Elements(r.groups) :
    \A p \in Elements(g) : PredicateHolds(p, inputs[p.input], now)

-----------------------------------------------------------------------------
(* The lifecycle of a movement rule.                                       *)

Phases == {"Unmatched", "EntryPending", "Matched", "LossPending", "Expired"}
Claims(m) == m.phase \in {"Matched", "LossPending"}

Unmatched == [phase |-> "Unmatched", since |-> 0, matched |-> 0]

Enter(m, phase, now) == [m EXCEPT !.phase = phase, !.since = now]
Match(m, now)        == [phase |-> "Matched", since |-> now, matched |-> now]
Lose(r, m, now)      == Enter(m, IF r.loss = 0 THEN "Unmatched" ELSE "LossPending", now)

\* Faulty variants: a movement that vanishes on entry is confirmed all the same;
\* one that returns starts a new age.
ConfirmRegardless(r, m, holds, now) ==
  IF Elapsed(now, m.since) >= r.entry THEN Match(m, now) ELSE m
RegainAnew(m, now) == Match(m, now)

Confirm(r, m, holds, now) ==
  CASE ~holds -> Enter(m, "Unmatched", now)
    [] holds /\ Elapsed(now, m.since) >= r.entry -> Match(m, now)
    [] OTHER -> m

Regain(m, now) == Enter(m, "Matched", now)

\* One pass: a phase advances at most once.
Pass(r, m, holds, now) ==
  LET aged == r.age # 0 /\ Elapsed(now, m.matched) >= r.age IN
  CASE m.phase = "Unmatched" /\ holds ->
         IF r.entry = 0 THEN Match(m, now) ELSE Enter(m, "EntryPending", now)
    [] m.phase = "EntryPending" -> Confirm(r, m, holds, now)
    [] m.phase = "Matched" /\ aged -> Enter(m, "Expired", now)
    [] m.phase = "Matched" /\ ~aged /\ ~holds -> Lose(r, m, now)
    [] m.phase = "LossPending" /\ holds -> Regain(m, now)
    [] m.phase = "LossPending" /\ ~holds /\ Elapsed(now, m.since) >= r.loss ->
         [Unmatched EXCEPT !.since = now]
    [] m.phase = "Expired" /\ ~holds -> Lose(r, m, now)
    [] OTHER -> m

\* The passes of one evaluation; the bound is the code's.
Settle(r, m, holds, now) ==
  LET pass(n) == Pass(r, n, holds, now) IN pass(pass(pass(pass(m))))

\* An age limit is waited for during a loss as well.  (The code also waits for
\* the loss of an expired rule whose expression is false, which Settle never
\* leaves.)
LifecycleDeadlines(r, m) ==
  (IF m.phase = "EntryPending" THEN {(m.since + r.entry) % Ticks} ELSE {})
  \cup (IF Claims(m) /\ r.age # 0 THEN {(m.matched + r.age) % Ticks} ELSE {})
  \cup (IF m.phase = "LossPending" THEN {(m.since + r.loss) % Ticks} ELSE {})

-----------------------------------------------------------------------------
(* Arbitration: what the rules say together.                               *)

Healths == {"GatheringEvidence", "Healthy", "AmbiguousPosition",
            "AmbiguousMovement"}

\* A value is "None" when the result does not assert one.
Results ==
  [position : PositionValues \cup {"None"}, movement : MovementValues \cup {"None"},
   obstructed : BOOLEAN, withdrawn : BOOLEAN, health : Healths]

InitialResult ==
  [position |-> "None", movement |-> "None", obstructed |-> FALSE,
   withdrawn |-> FALSE, health |-> "GatheringEvidence"]

\* Exactly one value is asserted: rules never outvote or outrank each other.
TheOnly(values) == IF Cardinality(values) = 1 THEN CHOOSE v \in values : TRUE ELSE "None"

ObstructingExpiries == {"Obstructed", "UnknownAndObstructed"}

\* `holds` are the rules whose expression is true.  A position silences movements
\* and obstructions; an ambiguity silences what is ambiguous.
Arbitrate(c, inputs, phases, holds) ==
  LET positions == {r.value : r \in RulesFor(c, "Position") \cap holds}
      movements == {r.value : r \in {q \in RulesFor(c, "Movement") : Claims(phases[q.id])}}
      expired   == {r \in RulesFor(c, "Movement") : phases[r.id].phase = "Expired"}
      faults    == RulesFor(c, "Fault") \cap holds
      position  == TheOnly(positions)
  IN [position   |-> position,
      movement   |-> IF positions = {} THEN TheOnly(movements) ELSE "None",
      obstructed |-> position = "None"
                     /\ (faults # {} \/ \E r \in expired : r.expiry \in ObstructingExpiries),
      withdrawn  |-> expired # {},
      health     |-> CASE Cardinality(positions) > 1 -> "AmbiguousPosition"
                       [] Cardinality(movements) > 1 -> "AmbiguousMovement"
                       [] \E i \in DOMAIN inputs : ~inputs[i].valid -> "GatheringEvidence"
                       [] OTHER -> "Healthy"]

-----------------------------------------------------------------------------
(* The decoder and its operations.  The generation counter is left out:    *)
(* GateRuntime may be told any result at any time.  lastEval and late are  *)
(* history: the time of the last evaluation, and whether one came late.    *)

RuleIds(c) == {r.id : r \in RulesFor(c, "Movement")}

InitialDecoder(c) ==
  [inputs   |-> [i \in Elements(c.inputs) |-> NoInput],
   phases   |-> [id \in RuleIds(c) |-> Unmatched],
   result   |-> InitialResult,
   deadline |-> NoTick, lastNow |-> NoTick,
   lastEval |-> 0, late |-> FALSE]

\* When the decoder wants to be evaluated again (history; only if it has a deadline).
DueAt(d) == d.lastEval + Elapsed(d.deadline, d.lastNow)

Evaluate(c, d, t) ==
  LET now    == t % Ticks
      holds  == {r \in EnabledRules(c) : ExpressionHolds(r, d.inputs, now)}
      moving == RulesFor(c, "Movement")
      rule(id) == CHOOSE r \in moving : r.id = id
      phases == [id \in DOMAIN d.phases |->
                   Settle(rule(id), d.phases[id], rule(id) \in holds, now)]
      result == Arbitrate(c, d.inputs, phases, holds)
      expected == UNION {UNION {PredicateDeadlines(p, d.inputs[p.input], now) :
                                  p \in Predicates(r)} : r \in EnabledRules(c)}
      limits   == UNION {LifecycleDeadlines(r, phases[r.id]) : r \in moving}
  IN [d EXCEPT !.phases = phases, !.result = result,
               !.deadline = Earliest(now, expected \cup limits), !.lastNow = now,
               !.lastEval = t,
               !.late = @ \/ (d.deadline # NoTick /\ DueAt(d) < t)]

\* accept_time: never back in time, as far as a signed difference tells.
Accepts(d, t) == d.lastNow = NoTick \/ Elapsed(t % Ticks, d.lastNow) < Half

Initialize(c, d, i, level, t) ==
  IF d.inputs[i].valid \/ ~Accepts(d, t) THEN d
  ELSE Evaluate(c, [d EXCEPT !.inputs[i] =
                      [NoInput EXCEPT !.valid = TRUE, !.level = level, !.since = t % Ticks]], t)

Updates(d, i, t) == d.inputs[i].valid /\ Accepts(d, t)

Update(c, d, i, level, t) ==
  LET input == d.inputs[i]
      now   == t % Ticks
  IN Evaluate(c, IF input.level = level THEN d
                 ELSE [d EXCEPT !.inputs[i] = [input EXCEPT !.level = level, !.since = now,
                                                    !.edges = PushEdge(@, now)]], t)

Advance(c, d, t) == IF Accepts(d, t) THEN Evaluate(c, d, t) ELSE d
=============================================================================
