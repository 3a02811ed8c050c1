---------------------------- MODULE MovementProofs ----------------------------
(***************************************************************************)
(* The story behind the phase of a movement rule: what evaluations find at *)
(* some instants is carried over to all instants in between, so that a     *)
(* claimed movement is one the samples show.                               *)
(***************************************************************************)
EXTENDS DecodedFeedbackProofs

-----------------------------------------------------------------------------
(* What a story told by a time.                                            *)

LEMMA ToldAll ==
  ASSUME NEW S, NEW story \in Seq(S), NEW t, \A k \in DOMAIN story : story[k].at <= t
  PROVE  Told(story, t) = story
<1>1. {l \in DOMAIN story : story[l].at <= t} = DOMAIN story
  OBVIOUS
<1>2. story = [k \in DOMAIN story |-> story[k]]
  OBVIOUS
<1> QED
  BY <1>1, <1>2, Zenon DEF Told

LEMMA ToldGrows ==
  ASSUME NEW story \in Seq(StoryRecords), NEW sample \in StoryRecords, NEW t \in Int, t < sample.at
  PROVE  Told(Append(story, sample), t) = Told(story, t)
<1> DEFINE longer == Append(story, sample)
           m == Len(story)
<1>1. /\ m \in Nat /\ DOMAIN story = 1..m /\ DOMAIN longer = 1..(m + 1)
      /\ \A k \in 1..m : longer[k] = story[k]
      /\ longer[m + 1] = sample
  OBVIOUS
<1>2. sample.at \in Nat
  BY DEF StoryRecords
<1>3. ~(longer[m + 1].at <= t)
  BY <1>1, <1>2
<1> HIDE DEF longer, m
<1>4. {l \in DOMAIN longer : longer[l].at <= t} = {l \in DOMAIN story : story[l].at <= t}
  BY <1>1, <1>3
<1>5. \A k \in {l \in DOMAIN story : story[l].at <= t} : longer[k] = story[k]
  BY <1>1
<1>6. Told(longer, t) = Told(story, t)
  BY <1>4, <1>5, Zenon DEF Told
<1> QED
  BY <1>6 DEF longer

\* A sample later than all before it changes nothing that was told before its time.
Later(sample, story) == \A k \in DOMAIN story : story[k].at < sample.at

LEMMA TruthGrows ==
  ASSUME NEW story \in Seq(StoryRecords), NEW sample \in StoryRecords, Later(sample, story),
         NEW r, NEW t \in Int, t <= sample.at
  PROVE  /\ t < sample.at => (Was(r, Append(story, sample), t) <=> Was(r, story, t))
         /\ Could(r, story, t) => Could(r, Append(story, sample), t)
         /\ Must(r, Append(story, sample), t) => Must(r, story, t)
<1>1. sample.at \in Nat /\ \A k \in DOMAIN story : story[k].at \in Nat
  <2>1. \A k \in DOMAIN story : story[k] \in StoryRecords
    OBVIOUS
  <2>2. \A other \in StoryRecords : other.at \in Nat
    BY DEF StoryRecords
  <2> QED
    BY <2>1, <2>2
<1>2. t - 1 \in Int /\ t - 1 < sample.at
  BY <1>1
<1>3. Told(Append(story, sample), t - 1) = Told(story, t - 1)
  BY <1>2, ToldGrows
<1>4. t < sample.at => Told(Append(story, sample), t) = Told(story, t)
  <2>1. ASSUME t < sample.at
        PROVE  Told(Append(story, sample), t) = Told(story, t)
    BY <2>1, ToldGrows
  <2> QED
    BY <2>1
<1>5. CASE t < sample.at
  BY <1>3, <1>4, <1>5, Zenon DEF Was, Could, Must
<1>6. CASE t = sample.at
  <2>1. \A k \in DOMAIN story : story[k].at <= t /\ story[k].at <= t - 1
    BY <1>1, <1>6 DEF Later
  <2>2. Told(story, t) = story /\ Told(story, t - 1) = story
    BY <2>1, ToldAll
  <2>3. ~(t < sample.at)
    BY <1>1, <1>6
  <2> QED
    BY <1>3, <2>2, <2>3, Zenon DEF Was, Could, Must
<1> QED
  BY <1>1, <1>5, <1>6

-----------------------------------------------------------------------------
(* The history of a phase.                                                 *)

LEMMA HistoryGrows ==
  ASSUME NEW story \in Seq(StoryRecords), NEW sample \in StoryRecords, Later(sample, story),
         NEW r, LifecycleIsValid(r), NEW m, NEW now \in Nat, now <= sample.at,
         HistoryOK(r, m, story, now)
  PROVE  HistoryOK(r, m, Append(story, sample), now)
<1> DEFINE longer == Append(story, sample)
<1>1. sample.at \in Nat /\ r.entry \in Nat /\ r.loss \in Nat
  BY LifecycleTypes DEF StoryRecords
<1>2. \A t \in Int : t < now => Was(r, longer, t) <=> Was(r, story, t)
  BY <1>1, TruthGrows
<1>3. \A t \in Int : t <= now /\ Could(r, story, t) => Could(r, longer, t)
  BY <1>1, TruthGrows
<1> HIDE DEF longer
<1>4. ASSUME NEW at \in 0..now, CouldEnter(r, story, at)
      PROVE  CouldEnter(r, longer, at)
  <2>1. \A t \in (at - r.entry)..(at - 1) : t \in Int /\ t < now
    BY <1>1
  <2>2. at \in Int /\ at <= now
    OBVIOUS
  <2> QED
    BY <1>2, <1>3, <1>4, <2>1, <2>2 DEF CouldEnter
<1>5. ASSUME NEW at \in 0..now, NEW end \in 0..now, Sustained(r, story, at, end, now)
      PROVE  Sustained(r, longer, at, end, now)
  <2>1. \A t \in at..(end - 1) : \A u \in t..(t + r.loss) : u \in Int
    BY <1>1
  <2> QED
    BY <1>3, <1>5, <2>1 DEF Sustained
<1>6. ASSUME m.phase = "EntryPending"
      PROVE  \E since \in 0..now :
               /\ since % Ticks = m.since /\ now - since <= r.entry
               /\ \A t \in since..(now - 1) : Was(r, longer, t)
  <2>1. PICK since \in 0..now :
          /\ since % Ticks = m.since /\ now - since <= r.entry
          /\ \A t \in since..(now - 1) : Was(r, story, t)
    BY <1>6 DEF HistoryOK
  <2>2. \A t \in since..(now - 1) : t \in Int /\ t < now
    OBVIOUS
  <2> QED
    BY <1>2, <2>1, <2>2
<1>7. ASSUME m.phase \in {"Matched", "Expired"}
      PROVE  \E at \in 0..now : CouldEnter(r, longer, at) /\ Sustained(r, longer, at, now, now)
  <2>1. now \in 0..now
    OBVIOUS
  <2> QED
    BY <1>4, <1>5, <1>7, <2>1 DEF HistoryOK
<1>8. ASSUME m.phase = "LossPending"
      PROVE  \E since \in 0..now :
               /\ since % Ticks = m.since /\ now - since <= r.loss
               /\ \E at \in 0..since :
                    CouldEnter(r, longer, at) /\ Sustained(r, longer, at, since, now)
  <2>1. PICK since \in 0..now :
          /\ since % Ticks = m.since /\ now - since <= r.loss
          /\ \E at \in 0..since : CouldEnter(r, story, at) /\ Sustained(r, story, at, since, now)
    BY <1>8 DEF HistoryOK
  <2>2. \A at \in 0..since : at \in 0..now
    OBVIOUS
  <2> QED
    BY <1>4, <1>5, <2>1, <2>2
<1> QED
  BY <1>6, <1>7, <1>8 DEF HistoryOK, longer

LEMMA Begun ==
  ASSUME NEW m \in PhaseRecords, NEW now
  PROVE  /\ Enter(m, "Unmatched", now).phase = "Unmatched"
         /\ Enter(m, "EntryPending", now).phase = "EntryPending"
         /\ Enter(m, "EntryPending", now).since = now
         /\ Enter(m, "LossPending", now).phase = "LossPending"
         /\ Enter(m, "LossPending", now).since = now
         /\ Enter(m, "Expired", now).phase = "Expired"
         /\ [Unmatched EXCEPT !.since = now].phase = "Unmatched"
BY DEF Enter, PhaseRecords, Unmatched

\* What has no history to have.
LEMMA NoHistory ==
  ASSUME NEW r, NEW m, m.phase = "Unmatched", NEW story, NEW now
  PROVE  HistoryOK(r, m, story, now)
BY DEF HistoryOK

\* What a pass makes of the history: a phase that is entered begins now, and one
\* that ends has lasted long enough.
LEMMA HeldHistory ==
  ASSUME NEW r, LifecycleIsValid(r), NEW m \in PhaseRecords, NEW story, NEW now \in Nat,
         HistoryOK(r, m, story, now), Could(r, story, now)
  PROVE  HistoryOK(r, Held(r, m, now % Ticks), story, now)
<1> DEFINE tick == now % Ticks
           next == Held(r, m, tick)
<1>1. /\ r.entry \in Nat /\ r.loss \in Nat /\ r.entry <= MaxDuration /\ r.loss <= MaxDuration
      /\ m.phase \in Phases
  BY LifecycleTypes, Words DEF PhaseRecords
<1>2. tick \in TickType
  BY Wrapped
<1>3. (now - 0)..(now - 1) = {} /\ now..(now - 1) = {} /\ now \in 0..now /\ now - now = 0
  OBVIOUS
<1> HIDE DEF tick, next
<1>4. ASSUME r.entry = 0
      PROVE  CouldEnter(r, story, now)
  BY <1>3, <1>4 DEF CouldEnter
<1>5. Sustained(r, story, now, now, now)
  BY <1>3 DEF Sustained
<1>6. ASSUME next.phase = "Matched", CouldEnter(r, story, now)
      PROVE  HistoryOK(r, next, story, now)
  BY <1>3, <1>5, <1>6 DEF HistoryOK
<1>7. CASE m.phase = "Unmatched"
  <2>1. CASE r.entry = 0
    <3>1. next.phase = "Matched"
      BY <2>1, <1>2, <1>7, PassHolding, Matching DEF next
    <3> QED
      BY <3>1, <2>1, <1>4, <1>6 DEF next, tick
  <2>2. CASE r.entry # 0
    <3>1. next.phase = "EntryPending" /\ next.since = tick
      BY <2>2, <1>2, <1>7, PassHolding, Begun DEF next
    <3>2. now % Ticks = next.since /\ now - now <= r.entry
      BY <3>1, <1>1, <1>3 DEF tick
    <3> QED
      BY <3>1, <3>2, <1>3 DEF HistoryOK, next, tick
  <2> QED
    BY <2>1, <2>2
<1>8. CASE m.phase = "EntryPending"
  <2>1. CASE Elapsed(tick, m.since) >= r.entry
    <3>1. next.phase = "Matched"
      BY <2>1, <1>2, <1>8, PassHolding, Matching DEF next
    <3>2. PICK since \in 0..now :
            /\ since % Ticks = m.since /\ now - since <= r.entry
            /\ \A t \in since..(now - 1) : Was(r, story, t)
      BY <1>8 DEF HistoryOK
    <3>3. now - since \in TickType /\ now \in Int /\ since \in Int
      BY <3>2, <1>1, Words
    <3>4. Elapsed(tick, m.since) = now - since
      BY <3>2, <3>3, ElapsedTime DEF tick
    <3>5. since = now - r.entry /\ now >= r.entry
      BY <3>2, <3>3, <3>4, <2>1, <1>1
    <3>6. CouldEnter(r, story, now)
      BY <3>2, <3>5 DEF CouldEnter
    <3> QED
      BY <3>1, <3>6, <1>6 DEF next, tick
  <2>2. CASE ~(Elapsed(tick, m.since) >= r.entry)
    <3>1. next = m
      BY <2>2, <1>8, PassHolding DEF next
    <3> QED
      BY <3>1 DEF next, tick
  <2> QED
    BY <2>1, <2>2
<1>9. CASE m.phase = "Matched"
  <2>1. next = m \/ next.phase = "Expired"
    BY <1>2, <1>9, PassHolding, Begun DEF next
  <2>2. next = m \/ next.phase \in {"Matched", "Expired"}
    BY <2>1
  <2> QED
    BY <2>1, <1>9 DEF HistoryOK, next, tick
<1>10. CASE m.phase = "LossPending"
  <2>1. next.phase = "Matched"
    BY <1>2, <1>10, PassHolding, Matching DEF next
  <2>2. PICK since \in 0..now :
          /\ since % Ticks = m.since /\ now - since <= r.loss
          /\ \E at \in 0..since : CouldEnter(r, story, at) /\ Sustained(r, story, at, since, now)
    BY <1>10 DEF HistoryOK
  <2>3. PICK at \in 0..since : CouldEnter(r, story, at) /\ Sustained(r, story, at, since, now)
    BY <2>2
  <2>4. ASSUME NEW t \in at..(now - 1)
        PROVE  \E u \in t..(t + r.loss) : u <= now /\ Could(r, story, u)
    <3>1. CASE t < since
      <4>1. t \in at..(since - 1)
        BY <3>1
      <4> QED
        BY <4>1, <2>3 DEF Sustained
    <3>2. CASE ~(t < since)
      <4>1. now \in t..(t + r.loss) /\ now <= now
        BY <3>2, <2>2, <1>1
      <4> QED
        BY <4>1
    <3> QED
      BY <3>1, <3>2
  <2>5. Sustained(r, story, at, now, now)
    BY <2>4 DEF Sustained
  <2>6. at \in 0..now
    OBVIOUS
  <2> QED
    BY <2>1, <2>3, <2>5, <2>6 DEF HistoryOK, next, tick
<1>11. CASE m.phase = "Expired"
  <2>1. next = m
    BY <1>11, PassHolding DEF next
  <2> QED
    BY <2>1 DEF next, tick
<1> QED
  BY <1>1, <1>7, <1>8, <1>9, <1>10, <1>11 DEF Phases

LEMMA MissedHistory ==
  ASSUME NEW r, LifecycleIsValid(r), NEW m \in PhaseRecords, NEW story, NEW now \in Nat,
         HistoryOK(r, m, story, now)
  PROVE  HistoryOK(r, Missed(r, m, now % Ticks), story, now)
<1> DEFINE tick == now % Ticks
           next == Missed(r, m, tick)
<1>1. r.loss \in Nat /\ m.phase \in Phases
  BY LifecycleTypes DEF PhaseRecords
<1>2. tick \in TickType
  BY Wrapped
<1>3. now \in 0..now /\ now - now = 0
  OBVIOUS
<1> HIDE DEF tick, next
<1>4. ASSUME m.phase \in {"Matched", "Expired"}, next = Lose(r, m, tick)
      PROVE  HistoryOK(r, next, story, now)
  <2>1. CASE r.loss = 0
    <3>1. next.phase = "Unmatched"
      BY <2>1, <1>2, <1>4, Losing, Begun
    <3> QED
      BY <3>1, NoHistory
  <2>2. CASE r.loss # 0
    <3>1. next.phase = "LossPending" /\ next.since = tick
      BY <2>2, <1>2, <1>4, Losing, Begun
    <3>2. now % Ticks = next.since /\ now - now <= r.loss
      BY <3>1, <1>1, <1>3 DEF tick
    <3>3. \E at \in 0..now : CouldEnter(r, story, at) /\ Sustained(r, story, at, now, now)
      BY <1>4 DEF HistoryOK
    <3> QED
      BY <3>1, <3>2, <3>3, <1>3 DEF HistoryOK
  <2> QED
    BY <2>1, <2>2
<1>5. CASE m.phase = "Unmatched"
  <2>1. next = m
    BY <1>5, PassMissing DEF next
  <2> QED
    BY <2>1 DEF next, tick
<1>6. CASE m.phase = "EntryPending"
  <2>1. next.phase = "Unmatched"
    BY <1>2, <1>6, PassMissing, Begun DEF next
  <2> QED
    BY <2>1, NoHistory DEF next, tick
<1>7. CASE m.phase = "Matched"
  <2>1. next = Lose(r, m, tick) \/ next.phase = "Expired"
    BY <1>2, <1>7, PassMissing, Begun DEF next
  <2>2. CASE next.phase = "Expired"
    BY <2>2, <1>7 DEF HistoryOK, next, tick
  <2> QED
    BY <2>1, <2>2, <1>4, <1>7 DEF next, tick
<1>8. CASE m.phase = "LossPending"
  <2>0. next = m \/ next = [Unmatched EXCEPT !.since = tick]
    BY <1>8, PassMissing DEF next
  <2>1. [Unmatched EXCEPT !.since = tick].phase = "Unmatched"
    BY DEF Unmatched
  <2>2. CASE next = m
    BY <2>2 DEF next, tick
  <2>3. CASE next = [Unmatched EXCEPT !.since = tick]
    <3>1. next.phase = "Unmatched"
      BY <2>1, <2>3
    <3> QED
      BY <3>1, NoHistory DEF next, tick
  <2> QED
    BY <2>0, <2>2, <2>3
<1>9. CASE m.phase = "Expired"
  <2>1. next = Lose(r, m, tick)
    BY <1>9, PassMissing DEF next
  <2> QED
    BY <2>1, <1>4, <1>9 DEF next, tick
<1> QED
  BY <1>1, <1>5, <1>6, <1>7, <1>8, <1>9 DEF Phases

LEMMA PassHistory ==
  ASSUME NEW r, LifecycleIsValid(r), NEW m \in PhaseRecords, NEW story, NEW now \in Nat,
         NEW holds \in BOOLEAN, HistoryOK(r, m, story, now), holds => Could(r, story, now)
  PROVE  HistoryOK(r, Pass(r, m, holds, now % Ticks), story, now)
<1>1. CASE holds = TRUE
  <2>1. Pass(r, m, holds, now % Ticks) = Held(r, m, now % Ticks)
    BY <1>1, Zenon DEF Held
  <2>2. Could(r, story, now)
    BY <1>1
  <2>3. HistoryOK(r, Held(r, m, now % Ticks), story, now)
    BY <2>2, HeldHistory
  <2> QED
    BY <2>1, <2>3, Zenon
<1>2. CASE holds = FALSE
  <2>1. Pass(r, m, holds, now % Ticks) = Missed(r, m, now % Ticks)
    BY <1>2, Zenon DEF Missed
  <2>2. HistoryOK(r, Missed(r, m, now % Ticks), story, now)
    BY MissedHistory
  <2> QED
    BY <2>1, <2>2, Zenon
<1> QED
  BY <1>1, <1>2

-----------------------------------------------------------------------------
(* What the story obliges a phase to be.                                   *)

\* Before the first wrap an age is a difference of times.
LEMMA YoungAge ==
  ASSUME NEW t \in Nat, t < Ticks, NEW u \in Nat, u <= t
  PROVE  t % Ticks = t /\ Elapsed(t, u) = t - u
<1>1. t % Ticks = t /\ u % Ticks = u
  BY Words
<1>2. t \in Int /\ u \in Int /\ t - u \in TickType
  BY Words
<1>3. Elapsed(t % Ticks, u % Ticks) = t - u
  BY <1>2, ElapsedTime
<1> QED
  BY <1>1, <1>3

LEMMA ObligedWas ==
  ASSUME NEW r, r.entry \in Nat, NEW story, NEW at \in Nat, MustEnter(r, story, at)
  PROVE  Was(r, story, at)
<1>1. CASE r.entry = 0
  <2>1. at - r.entry = at
    BY <1>1
  <2> QED
    BY <2>1 DEF MustEnter
<1>2. CASE r.entry # 0
  <2>1. at \in (at - r.entry + 1)..at
    BY <1>2
  <2> QED
    BY <2>1 DEF MustEnter, Must
<1> QED
  BY <1>1, <1>2

LEMMA LastedBefore ==
  ASSUME NEW r, r.loss \in Nat, NEW story, NEW last \in Nat, NEW next \in Nat, last <= next,
         NEW at \in Nat, Lasts(r, story, at, next)
  PROVE  Lasts(r, story, at, last)
<1> SUFFICES ASSUME NEW t \in at..last
             PROVE  \E u \in t..(t + r.loss) : u <= last => Must(r, story, u)
  BY DEF Lasts
<1>1. t \in at..next
  OBVIOUS
<1>2. PICK u \in t..(t + r.loss) : u <= next => Must(r, story, u)
  BY <1>1 DEF Lasts
<1>3. u <= last => u <= next
  OBVIOUS
<1> QED
  BY <1>2, <1>3

\* A movement of which a loss is confirmed has not lasted.
LEMMA LossConfirmed ==
  ASSUME NEW r, r.entry \in Nat, r.loss \in Nat, NEW story, NEW now \in Nat,
         ~Must(r, story, now), NEW since \in 0..now, now - since >= r.loss,
         \A u \in since..(now - 1) : ~Was(r, story, u),
         NEW at \in 0..(now - 1), MustEnter(r, story, at)
  PROVE  ~Lasts(r, story, at, now)
<1>1. at \in Nat /\ since \in Nat
  OBVIOUS
<1>2. at < since
  <2>1. at \notin since..(now - 1)
    BY <1>1, ObligedWas
  <2> QED
    BY <2>1
<1> DEFINE t == now - r.loss
<1>3. t \in at..now /\ t + r.loss = now /\ t >= since /\ t \in Int
  BY <1>2
<1> HIDE DEF t
<1>4. ASSUME NEW u \in t..(t + r.loss)
      PROVE  u <= now /\ ~Must(r, story, u)
  <2>1. u = now \/ u \in since..(now - 1)
    BY <1>3
  <2>2. u <= now
    BY <1>3
  <2> QED
    BY <2>1, <2>2 DEF Must
<1> QED
  BY <1>3, <1>4 DEF Lasts

LEMMA DutyGrows ==
  ASSUME NEW story \in Seq(StoryRecords), NEW sample \in StoryRecords, Later(sample, story),
         NEW r, LifecycleIsValid(r), NEW m \in PhaseRecords, NEW now \in Nat, now <= sample.at,
         DutyOK(r, m, story, now)
  PROVE  DutyOK(r, m, Append(story, sample), now)
<1> DEFINE longer == Append(story, sample)
<1>1. sample.at \in Nat /\ r.entry \in Nat /\ r.loss \in Nat /\ m.since \in Nat
  BY LifecycleTypes, Words DEF StoryRecords, PhaseRecords
<1>2. \A t \in Int : t < now => Was(r, longer, t) <=> Was(r, story, t)
  BY <1>1, TruthGrows
<1>3. \A t \in Int : t <= now /\ Must(r, longer, t) => Must(r, story, t)
  BY <1>1, TruthGrows
<1> HIDE DEF longer
<1>4. ASSUME NEW since \in Nat, since <= now, Fresh(r, story, since)
      PROVE  Fresh(r, longer, since)
  <2>1. since - 1 \in Int /\ since - 1 < now /\ since \in Int
    BY <1>4
  <2> QED
    BY <1>2, <1>3, <1>4, <2>1 DEF Fresh
<1>5. ASSUME NEW at \in 0..(now - 1), MustEnter(r, longer, at)
      PROVE  MustEnter(r, story, at)
  <2>1. /\ at - r.entry \in Int /\ at - r.entry < now
        /\ \A t \in (at - r.entry + 1)..at : t \in Int /\ t <= now
    BY <1>1
  <2> QED
    BY <1>2, <1>3, <1>5, <2>1 DEF MustEnter
<1>6. ASSUME NEW at \in 0..(now - 1), Lasts(r, longer, at, now)
      PROVE  Lasts(r, story, at, now)
  <2>1. \A t \in at..now : \A u \in t..(t + r.loss) : u \in Int
    BY <1>1
  <2> QED
    BY <1>3, <1>6, <2>1 DEF Lasts
<1>7. \A u \in m.since..(now - 1) : u \in Int /\ u < now
  BY <1>1
<1> QED
  BY <1>1, <1>2, <1>4, <1>5, <1>6, <1>7 DEF DutyOK, longer

LEMMA PhaseGrows ==
  ASSUME NEW story \in Seq(StoryRecords), NEW sample \in StoryRecords, Later(sample, story),
         NEW r, LifecycleIsValid(r), NEW m \in PhaseRecords, NEW now \in Nat, now <= sample.at,
         PhaseOK(r, m, story, now)
  PROVE  PhaseOK(r, m, Append(story, sample), now)
BY HistoryGrows, DutyGrows DEF PhaseOK

\* What a pass enters.
LEMMA Entering ==
  ASSUME NEW m \in PhaseRecords, NEW now \in TickType
  PROVE  /\ Enter(m, "EntryPending", now).phase = "EntryPending"
         /\ Enter(m, "EntryPending", now).since = now
         /\ Enter(m, "LossPending", now).phase = "LossPending"
         /\ Enter(m, "LossPending", now).since = now
         /\ Enter(m, "LossPending", now).matched = m.matched
         /\ Enter(m, "Expired", now).phase = "Expired"
         /\ Enter(m, "Expired", now).matched = m.matched
         /\ Regain(m, now).phase = "Matched" /\ Regain(m, now).matched = m.matched
         /\ Enter(m, "Unmatched", now).phase = "Unmatched"
         /\ [Unmatched EXCEPT !.since = now].phase = "Unmatched"
BY DEF Enter, Regain, PhaseRecords, Unmatched

LEMMA HeldDuty ==
  ASSUME NEW r, LifecycleIsValid(r), NEW m \in PhaseRecords, NEW story, NEW now \in Nat,
         DutyOK(r, m, story, now)
  PROVE  DutyOK(r, Held(r, m, now % Ticks), story, now)
<1> DEFINE next == Held(r, m, now % Ticks)
<1> SUFFICES ASSUME now < Ticks
             PROVE  DutyOK(r, next, story, now)
  BY DEF DutyOK
<1>1. now % Ticks = now /\ now \in TickType /\ m.phase \in Phases
  BY Words DEF PhaseRecords
<1>2. next = Held(r, m, now)
  BY <1>1
<1> HIDE DEF next
<1>3. CASE m.phase = "Unmatched"
  <2>1. \/ next.phase = "Matched" /\ next.matched = now
        \/ next.phase = "EntryPending" /\ next.since = now
    BY <1>1, <1>2, <1>3, PassHolding, Matching, Entering
  <2>2. CASE next.phase = "Matched" /\ next.matched = now
    BY <1>3, <2>2 DEF DutyOK
  <2>3. CASE next.phase = "EntryPending" /\ next.since = now
    BY <1>3, <2>3 DEF DutyOK
  <2> QED
    BY <2>1, <2>2, <2>3
<1>4. CASE m.phase = "EntryPending"
  <2>1. next = m \/ (next.phase = "Matched" /\ next.matched = now)
    BY <1>1, <1>2, <1>4, PassHolding, Matching
  <2>2. CASE next.phase = "Matched" /\ next.matched = now
    BY <1>4, <2>2 DEF DutyOK
  <2> QED
    BY <2>1, <2>2
<1>5. CASE m.phase = "Matched"
  <2>1. next = m \/ (next.phase = "Expired" /\ next.matched = m.matched)
    BY <1>1, <1>2, <1>5, PassHolding, Entering
  <2>2. CASE next.phase = "Expired" /\ next.matched = m.matched
    BY <1>5, <2>2 DEF DutyOK
  <2> QED
    BY <2>1, <2>2
<1>6. CASE m.phase = "LossPending"
  <2>1. next.phase = "Matched" /\ next.matched = m.matched
    BY <1>1, <1>2, <1>6, PassHolding, Entering
  <2> QED
    BY <1>6, <2>1 DEF DutyOK
<1>7. CASE m.phase = "Expired"
  <2>1. next = m
    BY <1>2, <1>7, PassHolding
  <2> QED
    BY <2>1
<1> QED
  BY <1>1, <1>3, <1>4, <1>5, <1>6, <1>7 DEF Phases

LEMMA MissedDuty ==
  ASSUME NEW r, LifecycleIsValid(r), NEW m \in PhaseRecords, NEW story, NEW now \in Nat,
         DutyOK(r, m, story, now), ~Must(r, story, now)
  PROVE  DutyOK(r, Missed(r, m, now % Ticks), story, now)
<1> DEFINE next == Missed(r, m, now % Ticks)
<1> SUFFICES ASSUME now < Ticks
             PROVE  DutyOK(r, next, story, now)
  BY DEF DutyOK
<1>1. /\ now \in TickType /\ m.phase \in Phases /\ m.since \in Nat
      /\ r.entry \in Nat /\ r.loss \in Nat
  BY Words, LifecycleTypes DEF PhaseRecords
<1>2. next = Missed(r, m, now)
  BY YoungAge
<1>3. Fresh(r, story, now)
  BY DEF Fresh
<1>4. now..(now - 1) = {} /\ now \in 0..now
  OBVIOUS
<1> HIDE DEF next
<1>5. ASSUME m.phase \in {"Matched", "Expired"}, next = Lose(r, m, now)
      PROVE  DutyOK(r, next, story, now)
  <2>1. CASE r.loss = 0
    <3>1. next.phase = "Unmatched"
      <4>1. Lose(r, m, now) = Enter(m, "Unmatched", now)
        BY <1>1, <2>1, Losing
      <4> QED
        BY <1>1, <1>5, <4>1, Entering
    <3>2. \A at \in 0..(now - 1) : MustEnter(r, story, at) => ~Lasts(r, story, at, now)
      <4>1. now - now >= r.loss
        BY <2>1
      <4> QED
        BY <1>1, <1>4, <4>1, LossConfirmed
    <3> QED
      BY <1>3, <3>1, <3>2 DEF DutyOK
  <2>2. CASE r.loss # 0
    <3>1. next.phase = "LossPending" /\ next.since = now /\ next.matched = m.matched
      <4>1. Lose(r, m, now) = Enter(m, "LossPending", now)
        BY <1>1, <2>2, Losing
      <4> QED
        BY <1>1, <1>5, <4>1, Entering
    <3> QED
      BY <1>4, <1>5, <3>1 DEF DutyOK
  <2> QED
    BY <2>1, <2>2
<1>6. CASE m.phase = "Unmatched"
  <2>1. next = m
    BY <1>2, <1>6, PassMissing
  <2> QED
    BY <2>1
<1>7. CASE m.phase = "EntryPending"
  <2>1. next.phase = "Unmatched"
    BY <1>1, <1>2, <1>7, PassMissing, Entering
  <2> QED
    BY <1>3, <1>7, <2>1 DEF DutyOK
<1>8. CASE m.phase = "Matched"
  <2>1. next = Lose(r, m, now) \/ (next.phase = "Expired" /\ next.matched = m.matched)
    BY <1>1, <1>2, <1>8, PassMissing, Entering
  <2>2. CASE next.phase = "Expired" /\ next.matched = m.matched
    BY <1>8, <2>2 DEF DutyOK
  <2> QED
    BY <1>5, <1>8, <2>1, <2>2
<1>9. CASE m.phase = "LossPending"
  <2>1. CASE ~(Elapsed(now, m.since) >= r.loss)
    <3>1. next = m
      BY <1>2, <1>9, <2>1, PassMissing
    <3> QED
      BY <3>1
  <2>2. CASE Elapsed(now, m.since) >= r.loss
    <3>1. next = [Unmatched EXCEPT !.since = now]
      BY <1>2, <1>9, <2>2, PassMissing
    <3>2. next.phase = "Unmatched"
      BY <1>1, <3>1, Entering
    <3>3. m.since <= now /\ \A u \in m.since..(now - 1) : ~Was(r, story, u)
      BY <1>9 DEF DutyOK
    <3>4. m.since \in 0..now /\ now - m.since >= r.loss
      <4>1. Elapsed(now, m.since) = now - m.since
        BY <1>1, <3>3, YoungAge
      <4> QED
        BY <1>1, <2>2, <3>3, <4>1
    <3>5. \A at \in 0..(now - 1) : MustEnter(r, story, at) => ~Lasts(r, story, at, now)
      BY <1>1, <3>3, <3>4, LossConfirmed
    <3> QED
      BY <1>3, <3>2, <3>5 DEF DutyOK
  <2> QED
    BY <2>1, <2>2
<1>10. CASE m.phase = "Expired"
  <2>1. next = Lose(r, m, now)
    BY <1>2, <1>10, PassMissing
  <2> QED
    BY <1>5, <1>10, <2>1
<1> QED
  BY <1>1, <1>6, <1>7, <1>8, <1>9, <1>10 DEF Phases

LEMMA PassDuty ==
  ASSUME NEW r, LifecycleIsValid(r), NEW m \in PhaseRecords, NEW story, NEW now \in Nat,
         NEW holds \in BOOLEAN, DutyOK(r, m, story, now), ~holds => ~Must(r, story, now)
  PROVE  DutyOK(r, Pass(r, m, holds, now % Ticks), story, now)
<1>1. CASE holds = TRUE
  <2>1. Pass(r, m, holds, now % Ticks) = Held(r, m, now % Ticks)
    BY <1>1, Zenon DEF Held
  <2>2. DutyOK(r, Held(r, m, now % Ticks), story, now)
    BY HeldDuty
  <2> QED
    BY <2>1, <2>2, Zenon
<1>2. CASE holds = FALSE
  <2>1. Pass(r, m, holds, now % Ticks) = Missed(r, m, now % Ticks)
    BY <1>2, Zenon DEF Missed
  <2>2. ~Must(r, story, now)
    BY <1>2
  <2>3. DutyOK(r, Missed(r, m, now % Ticks), story, now)
    BY <2>2, MissedDuty
  <2> QED
    BY <2>1, <2>3, Zenon
<1> QED
  BY <1>1, <1>2

-----------------------------------------------------------------------------
(* Both through the passes of an evaluation.                               *)

LEMMA SettleHistory ==
  ASSUME NEW r, LifecycleIsValid(r), NEW m \in PhaseRecords, NEW story, NEW now \in Nat,
         NEW holds \in BOOLEAN, PhaseOK(r, m, story, now),
         holds => Could(r, story, now), ~holds => ~Must(r, story, now)
  PROVE  PhaseOK(r, Settle(r, m, holds, now % Ticks), story, now)
<1> DEFINE P(n) == Pass(r, n, holds, now % Ticks)
           OK(n) == n \in PhaseRecords /\ PhaseOK(r, n, story, now)
<1>1. now % Ticks \in TickType
  BY Wrapped
<1>2. ASSUME NEW n, OK(n)
      PROVE  OK(P(n))
  <2>1. P(n) \in PhaseRecords
    BY <1>1, <1>2, PassTyped, Zenon
  <2>2. PhaseOK(r, P(n), story, now)
    <3>1. n \in PhaseRecords /\ HistoryOK(r, n, story, now) /\ DutyOK(r, n, story, now)
      BY <1>2 DEF PhaseOK
    <3>2. HistoryOK(r, P(n), story, now)
      BY <3>1, PassHistory, Zenon
    <3>3. DutyOK(r, P(n), story, now)
      BY <3>1, PassDuty, Zenon
    <3> QED
      BY <3>2, <3>3, Zenon DEF PhaseOK
  <2> QED
    BY <2>1, <2>2
<1>3. Settle(r, m, holds, now % Ticks) = P(P(P(P(m))))
  BY Zenon DEF Settle
<1>4. OK(m)
  OBVIOUS
<1> HIDE DEF P, OK
<1>5. OK(P(P(P(P(m)))))
  BY <1>2, <1>4, Zenon
<1> QED
  BY <1>3, <1>5, Zenon DEF OK
-----------------------------------------------------------------------------
(* What the inputs say.                                                    *)

LEMMA AllTold ==
  ASSUME NEW story \in Seq(StoryRecords), Ordered(story), NEW t \in Int,
         story # <<>> => Newest(story).at <= t
  PROVE  Told(story, t) = story
<1> SUFFICES ASSUME NEW l \in DOMAIN story
             PROVE  story[l].at <= t
  BY ToldAll
<1> DEFINE m == Len(story)
<1>1. \A k \in DOMAIN story : story[k].at \in Nat
  <2>1. \A k \in DOMAIN story : story[k] \in StoryRecords
    OBVIOUS
  <2>2. \A other \in StoryRecords : other.at \in Nat
    BY DEF StoryRecords
  <2> QED
    BY <2>1, <2>2
<1>2. m \in Nat /\ DOMAIN story = 1..m /\ l \in 1..m /\ Newest(story) = story[m]
  BY DEF Newest
<1> HIDE DEF m
<1>3. m \in 1..m /\ story # <<>> /\ (l = m \/ l < m)
  BY <1>2
<1>4. story[l].at <= story[m].at /\ story[l].at \in Nat /\ story[m].at \in Nat
  BY <1>1, <1>2, <1>3 DEF Ordered
<1> QED
  BY <1>2, <1>3, <1>4

\* At a time, the inputs say what a story says.
Says(inputs, story, t) ==
  /\ story \in Seq(StoryRecords) /\ Ordered(story) /\ t \in Nat
  /\ story # <<>> => /\ Newest(story).at <= t
                     /\ \A i \in Elements(config.inputs) : t - LastChange(i, story) < Ticks
  /\ \A i \in Elements(config.inputs) :
       inputs[i] \in InputRecords /\ InputMeans(inputs[i], story, i)

LEMMA SaysTruth ==
  ASSUME Compiles(config), NEW inputs, NEW story, NEW t, Says(inputs, story, t),
         NEW r \in EnabledRules(config), NEW p \in Predicates(r)
  PROVE  PredicateHolds(p, inputs[p.input], t % Ticks) <=> Means(p, story, t)
<1>1. p.input \in Elements(config.inputs)
  BY PredicateTypes
<1>2. /\ story \in Seq(StoryRecords) /\ Ordered(story) /\ t \in Nat
      /\ inputs[p.input] \in InputRecords /\ InputMeans(inputs[p.input], story, p.input)
      /\ story # <<>> => Newest(story).at <= t /\ t - LastChange(p.input, story) < Ticks
  BY <1>1 DEF Says
<1> QED
  BY <1>2, PredicateMeans

LEMMA ExpressionTruth ==
  ASSUME Compiles(config), NEW inputs, NEW story, NEW t, Says(inputs, story, t),
         NEW r \in EnabledRules(config)
  PROVE  ExpressionHolds(r, inputs, t % Ticks) <=> Was(r, story, t)
<1>1. \A p \in Predicates(r) : PredicateHolds(p, inputs[p.input], t % Ticks) <=> Means(p, story, t)
  BY SaysTruth
<1>2. \A g \in Elements(r.groups) : Elements(g) \subseteq Predicates(r)
  BY DEF Predicates
<1>3. ExpressionHolds(r, inputs, t % Ticks) <=> RuleMeans(r, story, t)
  BY <1>1, <1>2, Zenon DEF ExpressionHolds, RuleMeans
<1>4. Told(story, t) = story
  BY AllTold DEF Says
<1> QED
  BY <1>3, <1>4, Zenon DEF Was

LEMMA MirroredSays ==
  ASSUME NEW s, NEW story, Mirrors(s, story), NEW t \in Nat, t >= s.lastEval,
         story # <<>> => \A i \in Elements(config.inputs) : t - LastChange(i, story) < Ticks
  PROVE  Says(s.inputs, story, t)
<1>1. story # <<>> => Newest(story).at <= t
  BY Mirrored
<1> QED
  BY <1>1, Mirrored DEF Says

-----------------------------------------------------------------------------
(* The history of the phases of a decoder.                                 *)

LEMMA EvaluatedLate ==
  ASSUME NEW c, NEW s \in DecoderStates(c), NEW t
  PROVE  Evaluate(c, s, t).late <=> s.late \/ (s.deadline # NoTick /\ DueAt(s) < t)
<1> DEFINE e == Evaluate(c, s, t)
           now == t % Ticks
           settled == Settled(c, s, now)
           late == s.late \/ (s.deadline # NoTick /\ DueAt(s) < t)
           result == Arbitrate(c, s.inputs, settled, Holding(c, s.inputs, now))
           deadline == Earliest(now, Waits(c, s.inputs, settled, now))
<1>1. e = [inputs |-> s.inputs, phases |-> settled, result |-> result, deadline |-> deadline,
           lastNow |-> now, lastEval |-> t, late |-> late]
  BY EvaluateFields, Zenon
<1> HIDE DEF e, now, settled, late, result, deadline
<1>2. e.late = late
  BY <1>1
<1> QED
  BY <1>2, Zenon DEF e, late

LEMMA EvaluateHistory ==
  ASSUME NEW c, Compiles(c), NEW s \in DecoderStates(c), NEW t \in Nat,
         NEW r \in RulesFor(c, "Movement"), NEW story,
         PhaseOK(r, s.phases[r.id], story, t),
         ExpressionHolds(r, s.inputs, t % Ticks) => Could(r, story, t),
         ~ExpressionHolds(r, s.inputs, t % Ticks) => ~Must(r, story, t)
  PROVE  PhaseOK(r, Evaluate(c, s, t).phases[r.id], story, t)
<1> DEFINE e == Evaluate(c, s, t)
           now == t % Ticks
           holds == r \in Holding(c, s.inputs, now)
           m == s.phases[r.id]
           settled == Settled(c, s, now)
           late == s.late \/ (s.deadline # NoTick /\ DueAt(s) < t)
           result == Arbitrate(c, s.inputs, settled, Holding(c, s.inputs, now))
           deadline == Earliest(now, Waits(c, s.inputs, settled, now))
<1>1. e = [inputs |-> s.inputs, phases |-> settled, result |-> result, deadline |-> deadline,
           lastNow |-> now, lastEval |-> t, late |-> late]
  BY EvaluateFields, Zenon
<1>2. /\ RuleOf(c, r.id) = r /\ r.id \in RuleIds(c) /\ LifecycleIsValid(r)
      /\ r \in EnabledRules(c)
  BY RuleIsKnown
<1>3. DOMAIN s.phases = RuleIds(c) /\ m \in PhaseRecords
  BY <1>2 DEF DecoderStates
<1>4. settled[r.id] = Settle(r, m, holds, now)
  BY <1>2, <1>3, Zenon DEF Settled
<1>5. holds \in BOOLEAN
  OBVIOUS
<1>6. (holds => Could(r, story, t)) /\ (~holds => ~Must(r, story, t))
  BY <1>2 DEF Holding
<1> HIDE DEF holds, m
<1>7. PhaseOK(r, Settle(r, m, holds, now), story, t)
  BY <1>2, <1>3, <1>5, <1>6, SettleHistory, Zenon DEF m
<1> HIDE DEF e, now, settled, late, result, deadline
<1>8. e.phases = settled
  BY <1>1
<1>9. PhaseOK(r, e.phases[r.id], story, t)
  BY <1>4, <1>7, <1>8, Zenon DEF now
<1> QED
  BY <1>9 DEF e

\* While a decoder waits for its deadline, the samples make of its rules what they
\* made of them when it was evaluated, ...
LEMMA WaitTruth ==
  ASSUME Compiles(config), NEW s, NEW story, Mirrors(s, story), NEW t, Idle(s, story, t),
         NEW r \in RulesFor(config, "Movement")
  PROVE  /\ r \in Holding(config, s.inputs, s.lastNow) <=> Was(r, story, t)
         /\ LET m == s.phases[r.id]
                holds == r \in Holding(config, s.inputs, s.lastNow)
            IN Pass(r, m, holds, s.lastNow) = m /\ Pass(r, m, holds, t % Ticks) = m
<1> DEFINE k == t - s.lastEval
           now == s.lastNow
           m == s.phases[r.id]
           holds == r \in Holding(config, s.inputs, now)
<1>1. /\ r.id \in RuleIds(config) /\ LifecycleIsValid(r) /\ r \in EnabledRules(config)
      /\ r.kind = "Movement"
  BY RuleIsKnown DEF RulesFor
<1>2. /\ now \in TickType /\ k \in Nat /\ (now + k) % Ticks = t % Ticks
      /\ t \in Nat /\ t >= s.lastEval /\ s.lastEval \in Nat
  BY IdleTimes
<1>3. m \in PhaseRecords /\ Rested(config, s)
  BY <1>1, Mirrored DEF DecoderStates
<1>4. Pass(r, m, holds, now) = m
  BY <1>3, Zenon DEF Rested, Holding
<1>5. \A at \in LifecycleDeadlines(r, m) : IsFuture(now, at) => k < Elapsed(at, now)
  BY <1>1, NoneDue DEF Waited
<1>6. holds <=> r \in Holding(config, s.inputs, t % Ticks)
  BY RulesRest
<1>7. holds <=> Was(r, story, t)
  <2>1. story # <<>> => \A i \in Elements(config.inputs) : t - LastChange(i, story) < Ticks
    BY DEF Idle
  <2>2. Says(s.inputs, story, t)
    BY <1>2, <2>1, MirroredSays
  <2>3. ExpressionHolds(r, s.inputs, t % Ticks) <=> Was(r, story, t)
    BY <1>1, <2>2, ExpressionTruth
  <2>4. r \in Holding(config, s.inputs, t % Ticks) <=> ExpressionHolds(r, s.inputs, t % Ticks)
    BY <1>1 DEF Holding
  <2> QED
    BY <1>6, <2>3, <2>4, Zenon
<1>8. holds \in BOOLEAN
  OBVIOUS
<1> HIDE DEF k, now, m, holds
<1>9. \A h \in BOOLEAN :
        Pass(r, m, h, now) = m => Pass(r, m, h, (now + k) % Ticks) = m
  BY <1>1, <1>2, <1>3, <1>5, RestsUntilDue
<1>10. Pass(r, m, holds, t % Ticks) = m
  BY <1>2, <1>4, <1>8, <1>9, Zenon
<1> QED
  BY <1>4, <1>7, <1>10, Zenon DEF now, m, holds

LEMMA DueTyped ==
  ASSUME NEW c, NEW s \in DecoderStates(c), s.lastNow = s.lastEval % Ticks, s.deadline # NoTick
  PROVE  DueAt(s) \in Nat
<1>1. s.deadline \in TickType /\ s.lastEval \in Nat
  BY DEF DecoderStates
<1>2. s.lastNow \in TickType
  BY <1>1, Wrapped
<1>3. Elapsed(s.deadline, s.lastNow) \in TickType
  <2>1. s.deadline \in Int /\ s.lastNow \in Int
    BY <1>1, <1>2, Words
  <2> QED
    BY <2>1, ElapsedType
<1> QED
  BY <1>1, <1>3, Words DEF DueAt

\* A phase that a pass leaves alone waits for what its expression may still bring.
LEMMA HeldStays ==
  ASSUME NEW r, NEW m \in PhaseRecords, NEW now \in TickType, Held(r, m, now) = m
  PROVE  /\ m.phase \in {"EntryPending", "Matched", "Expired"}
         /\ m.phase = "EntryPending" => ~(Elapsed(now, m.since) >= r.entry)
<1>1. m.phase \in Phases
  BY DEF PhaseRecords
<1>2. m.phase # "Unmatched"
  <2>1. Match(m, now).phase # "Unmatched" /\ Enter(m, "EntryPending", now).phase # "Unmatched"
    BY DEF Match, Enter, PhaseRecords
  <2>2. m.phase = "Unmatched" =>
          Held(r, m, now) = Match(m, now) \/ Held(r, m, now) = Enter(m, "EntryPending", now)
    BY PassHolding
  <2> QED
    BY <2>1, <2>2
<1>3. m.phase # "LossPending"
  <2>1. Regain(m, now).phase # "LossPending"
    BY DEF Regain, Enter, PhaseRecords
  <2> QED
    BY <2>1, PassHolding
<1>4. m.phase = "EntryPending" => ~(Elapsed(now, m.since) >= r.entry)
  <2>1. Match(m, now).phase # "EntryPending"
    BY DEF Match
  <2> QED
    BY <2>1, PassHolding
<1> QED
  BY <1>1, <1>2, <1>3, <1>4 DEF Phases

LEMMA MissedStays ==
  ASSUME NEW r, NEW m \in PhaseRecords, NEW now \in TickType, Missed(r, m, now) = m
  PROVE  /\ m.phase \in {"Unmatched", "LossPending"}
         /\ m.phase = "LossPending" => ~(Elapsed(now, m.since) >= r.loss)
<1>1. m.phase \in Phases
  BY DEF PhaseRecords
<1>2. m.phase # "EntryPending"
  <2>1. Enter(m, "Unmatched", now).phase # "EntryPending"
    BY DEF Enter, PhaseRecords
  <2> QED
    BY <2>1, PassMissing
<1>3. ASSUME m.phase = "Matched" \/ m.phase = "Expired"
      PROVE  Lose(r, m, now).phase # m.phase
  BY <1>3 DEF Lose, Enter, PhaseRecords
<1>4. m.phase # "Matched"
  <2>1. Enter(m, "Expired", now).phase # "Matched"
    BY DEF Enter, PhaseRecords
  <2>2. m.phase = "Matched" => \/ Missed(r, m, now) = Enter(m, "Expired", now)
                               \/ Missed(r, m, now) = Lose(r, m, now)
    BY PassMissing
  <2> QED
    BY <2>1, <2>2, <1>3
<1>5. m.phase # "Expired"
  BY <1>3, PassMissing
<1>6. m.phase = "LossPending" => ~(Elapsed(now, m.since) >= r.loss)
  <2>1. [Unmatched EXCEPT !.since = now].phase # "LossPending"
    BY DEF Unmatched
  <2> QED
    BY <2>1, PassMissing
<1> QED
  BY <1>1, <1>2, <1>4, <1>5, <1>6 DEF Phases

\* What has not come of age a moment ago is at most of age.
LEMMA NotYetOfAge ==
  ASSUME NEW last \in Nat, NEW next \in Nat, last < next, next - last \in 0..(Half - 1),
         NEW h \in Nat, h <= MaxDuration, NEW since \in 0..last, last - since <= h,
         ~(Elapsed((next - 1) % Ticks, since % Ticks) >= h)
  PROVE  next - since <= h
<1> DEFINE t == next - 1
<1>1. t \in Int /\ since \in Int /\ t - since \in TickType
  BY Words
<1>2. Elapsed(t % Ticks, since % Ticks) = t - since
  BY <1>1, ElapsedTime
<1> QED
  BY <1>1, <1>2, Words

LEMMA TrueWait ==
  ASSUME NEW r, r.entry \in Nat, r.loss \in Nat, r.entry <= MaxDuration,
         NEW m, NEW story, NEW last \in Nat, NEW next \in Nat, last < next,
         next - last \in 0..(Half - 1), HistoryOK(r, m, story, last),
         \A t \in last..(next - 1) : Was(r, story, t),
         m.phase \in {"EntryPending", "Matched", "Expired"},
         m.phase = "EntryPending" => ~(Elapsed((next - 1) % Ticks, m.since) >= r.entry)
  PROVE  HistoryOK(r, m, story, next)
<1>1. CASE m.phase = "EntryPending"
  <2>1. PICK since \in 0..last :
          /\ since % Ticks = m.since /\ last - since <= r.entry
          /\ \A t \in since..(last - 1) : Was(r, story, t)
    BY <1>1 DEF HistoryOK
  <2>2. next - since <= r.entry
    BY <2>1, <1>1, NotYetOfAge
  <2>3. \A t \in since..(next - 1) : t \in since..(last - 1) \/ t \in last..(next - 1)
    OBVIOUS
  <2>4. \A t \in since..(next - 1) : Was(r, story, t)
    BY <2>1, <2>3
  <2>5. since \in 0..next
    OBVIOUS
  <2> QED
    BY <1>1, <2>1, <2>2, <2>4, <2>5 DEF HistoryOK
<1>2. CASE m.phase \in {"Matched", "Expired"}
  <2>1. PICK at \in 0..last : CouldEnter(r, story, at) /\ Sustained(r, story, at, last, last)
    BY <1>2 DEF HistoryOK
  <2>2. ASSUME NEW t \in at..(next - 1)
        PROVE  \E u \in t..(t + r.loss) : u <= next /\ Could(r, story, u)
    <3>1. CASE t < last
      <4>1. t \in at..(last - 1)
        BY <3>1
      <4>2. PICK u \in t..(t + r.loss) : u <= last /\ Could(r, story, u)
        BY <2>1, <4>1 DEF Sustained
      <4>3. u <= next
        BY <4>2
      <4> QED
        BY <4>2, <4>3
    <3>2. CASE ~(t < last)
      <4>1. t \in last..(next - 1) /\ t \in t..(t + r.loss) /\ t <= next
        BY <3>2
      <4>2. Could(r, story, t)
        BY <4>1, Zenon DEF Could
      <4> QED
        BY <4>1, <4>2
    <3> QED
      BY <3>1, <3>2
  <2>3. Sustained(r, story, at, next, next)
    BY <2>2 DEF Sustained
  <2>4. at \in 0..next
    OBVIOUS
  <2> QED
    BY <1>2, <2>1, <2>3, <2>4 DEF HistoryOK
<1> QED
  BY <1>1, <1>2

LEMMA FalseWait ==
  ASSUME NEW r, r.loss \in Nat, r.loss <= MaxDuration,
         NEW m, NEW story, NEW last \in Nat, NEW next \in Nat, last < next,
         next - last \in 0..(Half - 1), HistoryOK(r, m, story, last),
         m.phase \in {"Unmatched", "LossPending"},
         m.phase = "LossPending" => ~(Elapsed((next - 1) % Ticks, m.since) >= r.loss)
  PROVE  HistoryOK(r, m, story, next)
<1>1. CASE m.phase = "Unmatched"
  BY <1>1, NoHistory
<1>2. CASE m.phase = "LossPending"
  <2>1. PICK since \in 0..last :
          /\ since % Ticks = m.since /\ last - since <= r.loss
          /\ \E at \in 0..since : CouldEnter(r, story, at) /\ Sustained(r, story, at, since, last)
    BY <1>2 DEF HistoryOK
  <2>2. PICK at \in 0..since : CouldEnter(r, story, at) /\ Sustained(r, story, at, since, last)
    BY <2>1
  <2>3. next - since <= r.loss
    BY <2>1, <1>2, NotYetOfAge
  <2>4. \A t \in at..(since - 1) : \A u \in t..(t + r.loss) : u <= last => u <= next
    OBVIOUS
  <2>5. Sustained(r, story, at, since, next)
    BY <2>2, <2>4 DEF Sustained
  <2>6. since \in 0..next
    OBVIOUS
  <2> QED
    BY <1>2, <2>1, <2>2, <2>3, <2>5, <2>6 DEF HistoryOK
<1> QED
  BY <1>1, <1>2

LEMMA TrueWaitDuty ==
  ASSUME NEW r, r.entry \in Nat, r.loss \in Nat, NEW m \in PhaseRecords, NEW story,
         NEW last \in Nat, NEW next \in Nat, last < next, DutyOK(r, m, story, last),
         \A t \in last..(next - 1) : Was(r, story, t),
         m.phase \in {"EntryPending", "Matched", "Expired"},
         m.phase = "EntryPending" => ~(Elapsed((next - 1) % Ticks, m.since) >= r.entry)
  PROVE  DutyOK(r, m, story, next)
<1> SUFFICES ASSUME next < Ticks
             PROVE  DutyOK(r, m, story, next)
  BY DEF DutyOK
<1>1. m.since \in Nat /\ m.since < Ticks /\ m.matched \in Nat /\ last < Ticks
  BY Words DEF PhaseRecords
<1>2. m.phase = "EntryPending" =>
        /\ m.since <= last /\ Fresh(r, story, m.since) /\ next - 1 - m.since < r.entry
  <2> SUFFICES ASSUME m.phase = "EntryPending"
               PROVE  /\ m.since <= last /\ Fresh(r, story, m.since)
                      /\ next - 1 - m.since < r.entry
    OBVIOUS
  <2>1. m.since <= last /\ Fresh(r, story, m.since)
    BY <1>1 DEF DutyOK
  <2> DEFINE t == next - 1
  <2>2. t \in Nat /\ t < Ticks /\ m.since <= t /\ ~(Elapsed(t % Ticks, m.since) >= r.entry)
    BY <1>1, <2>1, Words
  <2> HIDE DEF t
  <2>3. t % Ticks = t /\ Elapsed(t, m.since) = t - m.since
    BY <1>1, <2>2, YoungAge
  <2>4. t - m.since < r.entry
    BY <1>1, <2>2, <2>3
  <2> QED
    BY <2>1, <2>4 DEF t
<1>3. m.phase \in {"Matched", "LossPending", "Expired"} => m.matched <= last
  BY <1>1 DEF DutyOK
<1>4. ASSUME NEW at \in 0..(next - 1), MustEnter(r, story, at), Lasts(r, story, at, next)
      PROVE  m.phase \in {"Matched", "LossPending", "Expired"} /\ m.matched <= at
  <2>1. CASE at < last
    <3>1. at \in 0..(last - 1) /\ at \in Nat /\ last <= next
      BY <2>1
    <3>2. Lasts(r, story, at, last)
      BY <1>4, <3>1, LastedBefore
    <3> QED
      BY <1>1, <1>4, <3>1, <3>2 DEF DutyOK
  <2>2. CASE ~(at < last) /\ m.phase = "EntryPending"
    <3> DEFINE since == m.since
               begun == at - r.entry
    <3>1. /\ since \in Nat /\ begun \in Int /\ begun < since /\ since <= at
          /\ Fresh(r, story, since)
      BY <1>1, <1>2, <2>2
    <3>2. /\ since \in (begun + 1)..at
          /\ since - 1 = begun \/ since - 1 \in (begun + 1)..at
      BY <3>1
    <3>3. Was(r, story, begun) /\ \A t \in (begun + 1)..at : Must(r, story, t)
      BY <1>4 DEF MustEnter
    <3> HIDE DEF since, begun
    <3>4. Must(r, story, since) /\ Was(r, story, since - 1)
      BY <3>2, <3>3 DEF Must
    <3> QED
      BY <3>1, <3>4 DEF Fresh
  <2>3. CASE ~(at < last) /\ m.phase # "EntryPending"
    BY <1>1, <1>3, <2>3
  <2> QED
    BY <2>1, <2>2, <2>3
<1>5. /\ m.phase = "EntryPending" => m.since <= next
      /\ m.phase \in {"Matched", "LossPending", "Expired"} => m.matched <= next
  BY <1>1, <1>2, <1>3
<1> QED
  BY <1>2, <1>4, <1>5 DEF DutyOK

LEMMA FalseWaitDuty ==
  ASSUME NEW r, r.entry \in Nat, r.loss \in Nat, NEW m \in PhaseRecords, NEW story,
         NEW last \in Nat, NEW next \in Nat, last < next, DutyOK(r, m, story, last),
         \A t \in last..(next - 1) : ~Was(r, story, t),
         m.phase \in {"Unmatched", "LossPending"}
  PROVE  DutyOK(r, m, story, next)
<1> SUFFICES ASSUME next < Ticks
             PROVE  DutyOK(r, m, story, next)
  BY DEF DutyOK
<1>1. m.since \in Nat /\ m.matched \in Nat /\ last < Ticks
  BY Words DEF PhaseRecords
<1>2. Fresh(r, story, next)
  <2>1. next - 1 \in last..(next - 1)
    OBVIOUS
  <2> QED
    BY <2>1 DEF Fresh
<1>3. m.phase = "LossPending" =>
        /\ m.since <= last /\ m.matched <= last
        /\ \A u \in m.since..(last - 1) : ~Was(r, story, u)
  BY <1>1 DEF DutyOK
<1>4. m.phase = "LossPending" =>
        /\ m.since <= next /\ m.matched <= next
        /\ \A u \in m.since..(next - 1) : ~Was(r, story, u)
  <2>1. \A u \in m.since..(next - 1) : u \in m.since..(last - 1) \/ u \in last..(next - 1)
    BY <1>1
  <2> QED
    BY <1>1, <1>3, <2>1
<1>5. ASSUME NEW at \in 0..(next - 1), MustEnter(r, story, at), Lasts(r, story, at, next)
      PROVE  m.phase \in {"Matched", "LossPending", "Expired"} /\ m.matched <= at
  <2>1. at < last
    <3>1. at \in Nat
      OBVIOUS
    <3>2. Was(r, story, at)
      BY <1>5, <3>1, ObligedWas
    <3> QED
      BY <3>1, <3>2
  <2>2. at \in 0..(last - 1) /\ at \in Nat /\ last <= next
    BY <2>1
  <2>3. Lasts(r, story, at, last)
    BY <1>5, <2>2, LastedBefore
  <2> QED
    BY <1>1, <1>5, <2>2, <2>3 DEF DutyOK
<1> QED
  BY <1>2, <1>4, <1>5 DEF DutyOK

\* ... so that what it waited for is history when it is evaluated next.
LEMMA WaitHistory ==
  ASSUME Compiles(config), NEW s, NEW story, Mirrors(s, story),
         NEW r \in RulesFor(config, "Movement"),
         PhaseOK(r, s.phases[r.id], story, s.lastEval),
         NEW next \in Nat, next - s.lastEval \in 0..(Half - 1),
         story # <<>> => \A i \in Elements(config.inputs) : next - LastChange(i, story) < Ticks,
         s.deadline # NoTick => next <= DueAt(s)
  PROVE  PhaseOK(r, s.phases[r.id], story, next)
<1> DEFINE m == s.phases[r.id]
           last == s.lastEval
           holds == r \in Holding(config, s.inputs, s.lastNow)
<1>1. last \in Nat /\ s.lastNow = last % Ticks /\ s \in DecoderStates(config)
      /\ story \in Seq(StoryRecords)
  BY Mirrored
<1>2. last <= next
  BY <1>1, Words
<1>3. /\ r.id \in RuleIds(config) /\ LifecycleIsValid(r)
      /\ r.entry \in Nat /\ r.loss \in Nat /\ r.entry <= MaxDuration /\ r.loss <= MaxDuration
  BY RuleIsKnown, LifecycleTypes, Words
<1>4. m \in PhaseRecords /\ m.phase \in Phases
  BY <1>1, <1>3 DEF DecoderStates, PhaseRecords
<1>5. ASSUME NEW t \in last..(next - 1)
      PROVE  Idle(s, story, t)
  <2>1. t \in Nat /\ t < next /\ t - last \in 0..(Half - 1)
    BY <1>1, <1>2, Words, SMTT(60)
  <2>2. story # <<>> => \A i \in Elements(config.inputs) : t - LastChange(i, story) < Ticks
    <3> SUFFICES ASSUME story # <<>>, NEW i \in Elements(config.inputs)
                 PROVE  t - LastChange(i, story) < Ticks
      OBVIOUS
    <3>1. LastChange(i, story) \in Nat
      BY Mirrored, LastChangeInTime
    <3> QED
      BY <2>1, <3>1, Words
  <2>3. s.deadline # NoTick => t < DueAt(s)
    <3> SUFFICES ASSUME s.deadline # NoTick
                 PROVE  t < DueAt(s)
      OBVIOUS
    <3>1. DueAt(s) \in Nat
      BY <1>1, DueTyped
    <3> QED
      BY <2>1, <3>1
  <2> QED
    BY <2>1, <2>2, <2>3 DEF Idle
<1>6. ASSUME NEW t \in last..(next - 1)
      PROVE  /\ holds <=> Was(r, story, t)
             /\ Pass(r, m, holds, last % Ticks) = m /\ Pass(r, m, holds, t % Ticks) = m
  BY <1>1, <1>5, WaitTruth
<1>7. CASE next = last
  BY <1>7
<1>8. CASE next # last
  <2> DEFINE t1 == next - 1
  <2>1. t1 \in last..(next - 1) /\ t1 \in Nat /\ t1 + 1 = next
    BY <1>1, <1>2, <1>8
  <2> HIDE DEF m, holds, last, t1
  <2>2. Pass(r, m, holds, t1 % Ticks) = m
    BY <1>6, <2>1
  <2>3. t1 % Ticks \in TickType
    BY <2>1, Wrapped
  <2>4. CASE holds = TRUE
    <3>1. Held(r, m, t1 % Ticks) = m
      BY <2>2, <2>4, Zenon DEF Held
    <3>2. \A t \in last..(next - 1) : Was(r, story, t)
      BY <1>6, <2>4
    <3>3. m.phase \in {"EntryPending", "Matched", "Expired"}
          /\ (m.phase = "EntryPending" => ~(Elapsed(t1 % Ticks, m.since) >= r.entry))
      BY <3>1, <2>3, <1>4, HeldStays
    <3>4. HistoryOK(r, m, story, last) /\ DutyOK(r, m, story, last)
      BY DEF m, last, PhaseOK
    <3>5. HistoryOK(r, m, story, next)
      BY <1>1, <1>2, <1>3, <2>1, <3>2, <3>3, <3>4, TrueWait, SMTT(60) DEF last
    <3>6. DutyOK(r, m, story, next)
      BY <1>1, <1>2, <1>3, <1>4, <2>1, <3>2, <3>3, <3>4, TrueWaitDuty DEF t1
    <3> QED
      BY <3>5, <3>6 DEF m, PhaseOK
  <2>5. CASE holds = FALSE
    <3>1. Missed(r, m, t1 % Ticks) = m
      BY <2>2, <2>5, Zenon DEF Missed
    <3>2. m.phase \in {"Unmatched", "LossPending"}
          /\ (m.phase = "LossPending" => ~(Elapsed(t1 % Ticks, m.since) >= r.loss))
      BY <3>1, <2>3, <1>4, MissedStays
    <3>3. HistoryOK(r, m, story, last) /\ DutyOK(r, m, story, last)
      BY DEF m, last, PhaseOK
    <3>4. \A t \in last..(next - 1) : ~Was(r, story, t)
      BY <1>6, <2>5
    <3>5. m.phase = "LossPending" => ~(Elapsed((next - 1) % Ticks, m.since) >= r.loss)
      BY <3>2 DEF t1
    <3>6. last < next /\ next - last \in 0..(Half - 1)
      BY <1>1, <1>2, <1>8 DEF last
    <3>7. HistoryOK(r, m, story, next)
      BY <1>1, <1>3, <3>2, <3>3, <3>5, <3>6, FalseWait
    <3>8. DutyOK(r, m, story, next)
      BY <1>1, <1>3, <1>4, <3>2, <3>3, <3>4, <3>6, FalseWaitDuty
    <3> QED
      BY <3>7, <3>8 DEF m, PhaseOK
  <2>6. holds \in BOOLEAN
    BY DEF holds
  <2> QED
    BY <2>4, <2>5, <2>6
<1> QED
  BY <1>7, <1>8
-----------------------------------------------------------------------------
(* The history of the phases through the offers of a sample.               *)

\* A rule of one input sees the sample or does not: never a part of it.
LEMMA OneInputTruth ==
  ASSUME Compiles(config), NEW old, NEW new, NEW story, NEW longer, NEW t,
         Says(old, story, t), Says(new, longer, t),
         NEW r \in EnabledRules(config), OneInput(r), NEW inputs,
         \A i \in Elements(config.inputs) : inputs[i] = old[i] \/ inputs[i] = new[i]
  PROVE  \/ ExpressionHolds(r, inputs, t % Ticks) <=> RuleMeans(r, story, t)
         \/ ExpressionHolds(r, inputs, t % Ticks) <=> RuleMeans(r, longer, t)
<1>1. \A g \in Elements(r.groups) : Elements(g) \subseteq Predicates(r)
  BY DEF Predicates
<1>2. CASE Predicates(r) = {}
  <2>1. \A g \in Elements(r.groups) : Elements(g) = {}
    BY <1>1, <1>2
  <2> QED
    BY <2>1, Zenon DEF ExpressionHolds, RuleMeans
<1>3. CASE Predicates(r) # {}
  <2>1. PICK q \in Predicates(r) : TRUE
    BY <1>3
  <2> DEFINE x == q.input
  <2>2. x \in Elements(config.inputs)
    BY <2>1, PredicateTypes
  <2>3. \A p \in Predicates(r) : p.input = x
    BY <2>1 DEF OneInput
  <2> HIDE DEF x
  <2>4. CASE inputs[x] = old[x]
    <3>1. \A p \in Predicates(r) :
            PredicateHolds(p, inputs[p.input], t % Ticks) <=> Means(p, story, t)
      BY <2>3, <2>4, SaysTruth
    <3> QED
      BY <1>1, <3>1, Zenon DEF ExpressionHolds, RuleMeans
  <2>5. CASE inputs[x] = new[x]
    <3>1. \A p \in Predicates(r) :
            PredicateHolds(p, inputs[p.input], t % Ticks) <=> Means(p, longer, t)
      BY <2>3, <2>5, SaysTruth
    <3> QED
      BY <1>1, <3>1, Zenon DEF ExpressionHolds, RuleMeans
  <2> QED
    BY <2>2, <2>4, <2>5
<1> QED
  BY <1>2, <1>3

\* No evaluation of it was late, and one at time t is not.
InTime(s, t) == ~s.late /\ (s.deadline # NoTick => ~(DueAt(s) < t))

LEMMA OfferHistory ==
  ASSUME Compiles(config), NEW s \in DecoderStates(config),
         NEW sample \in SampleRecords(config), NEW n, NEW story,
         Accepts(s, sample.at), NEW r \in RulesFor(config, "Movement"),
         LET inputs == Offered(n, s, sample).inputs IN
           /\ ExpressionHolds(r, inputs, sample.at % Ticks) => Could(r, story, sample.at)
           /\ ~ExpressionHolds(r, inputs, sample.at % Ticks) => ~Must(r, story, sample.at),
         InTime(s, sample.at) => PhaseOK(r, s.phases[r.id], story, sample.at),
         InTime(Offered(n, s, sample), sample.at)
  PROVE  PhaseOK(r, Offered(n, s, sample).phases[r.id], story, sample.at)
<1> DEFINE e == Offered(n, s, sample)
           at == sample.at
<1>1. at \in Nat
  BY DEF SampleRecords
<1>2. CASE n \notin DOMAIN config.inputs
  <2>1. e = s
    BY <1>2 DEF Offered
  <2> HIDE DEF e
  <2> QED
    BY <2>1 DEF e
<1>3. CASE n \in DOMAIN config.inputs
  <2> DEFINE i == config.inputs[n]
             input == Noted(s.inputs[i], sample, i)
             f == [s EXCEPT !.inputs[i] = input]
  <2>1. i \in Elements(config.inputs)
    BY <1>3 DEF Elements
  <2>2. input \in InputRecords
    BY <2>1, NotedTyped DEF DecoderStates
  <2>3. f \in DecoderStates(config)
    BY <2>1, <2>2, StateTyped
  <2>4. /\ f.phases = s.phases /\ f.late = s.late /\ f.deadline = s.deadline
        /\ f.lastEval = s.lastEval /\ f.lastNow = s.lastNow
    BY DEF DecoderStates
  <2>5. e = Evaluate(config, f, at)
    BY <1>3, <2>1, OfferIs DEF Offered
  <2> HIDE DEF e, f, input, i, at
  <2>6. e.inputs = f.inputs
    BY <1>1, <2>3, <2>5, Evaluated
  <2>7. /\ ExpressionHolds(r, f.inputs, at % Ticks) => Could(r, story, at)
        /\ ~ExpressionHolds(r, f.inputs, at % Ticks) => ~Must(r, story, at)
    BY <2>6, Zenon DEF e, at
  <2>8. DueAt(f) = DueAt(s)
    BY <2>4 DEF DueAt
  <2>9. ASSUME PhaseOK(r, f.phases[r.id], story, at)
        PROVE  PhaseOK(r, e.phases[r.id], story, at)
    BY <1>1, <2>3, <2>5, <2>7, <2>9, EvaluateHistory
  <2>10. InTime(s, at)
    <3>1. ~e.late
      BY DEF InTime, e
    <3>2. e.late <=> f.late \/ (f.deadline # NoTick /\ DueAt(f) < at)
      BY <1>1, <2>3, <2>5, EvaluatedLate
    <3> QED
      BY <2>4, <2>8, <3>1, <3>2 DEF InTime
  <2>11. PhaseOK(r, f.phases[r.id], story, at)
    BY <2>4, <2>10 DEF at
  <2> QED
    BY <2>9, <2>11 DEF e, at
<1> QED
  BY <1>2, <1>3

\* Whatever part of the sample the inputs were offered so far, what they make of the
\* expression is what it could be, and what it must be.
CouldOffer(r, s, sample, story) ==
  \A inputs :
    (\A i \in Elements(config.inputs) :
       inputs[i] = s.inputs[i] \/ inputs[i] = Noted(s.inputs[i], sample, i)) =>
    /\ ExpressionHolds(r, inputs, sample.at % Ticks) => Could(r, story, sample.at)
    /\ ~ExpressionHolds(r, inputs, sample.at % Ticks) => ~Must(r, story, sample.at)

LEMMA OffersHistory ==
  ASSUME Compiles(config), NEW s \in DecoderStates(config),
         NEW sample \in SampleRecords(config), NEW story,
         NEW r \in RulesFor(config, "Movement"), CouldOffer(r, s, sample, story),
         NEW n \in 1..3, NEW e, OfferedUpTo(n, s, e, sample),
         InTime(e, sample.at) => PhaseOK(r, e.phases[r.id], story, sample.at),
         InTime(Offered(n + 1, e, sample), sample.at)
  PROVE  PhaseOK(r, Offered(n + 1, e, sample).phases[r.id], story, sample.at)
<1> DEFINE f == Offered(n + 1, e, sample)
<1>1. e \in DecoderStates(config) /\ Accepts(e, sample.at)
  <2>1. sample.at \in Nat /\ e.lastNow = sample.at % Ticks
    BY DEF SampleRecords, OfferedUpTo
  <2> QED
    BY <2>1, AcceptsAgain DEF OfferedUpTo
<1>2. OfferedUpTo(n + 1, s, f, sample)
  BY NextOffer
<1> HIDE DEF f
<1>3. \A i \in Elements(config.inputs) :
        f.inputs[i] = s.inputs[i] \/ f.inputs[i] = Noted(s.inputs[i], sample, i)
  BY <1>2 DEF OfferedUpTo
<1>4. /\ ExpressionHolds(r, f.inputs, sample.at % Ticks) => Could(r, story, sample.at)
      /\ ~ExpressionHolds(r, f.inputs, sample.at % Ticks) => ~Must(r, story, sample.at)
  BY <1>3, Zenon DEF CouldOffer
<1> QED
  BY <1>1, <1>4, OfferHistory DEF f

LEMMA SampleHistory ==
  ASSUME Compiles(config), NEW s \in DecoderStates(config),
         NEW sample \in SampleRecords(config), NEW story, Accepts(s, sample.at),
         NEW r \in RulesFor(config, "Movement"), CouldOffer(r, s, sample, story),
         InTime(s, sample.at) => PhaseOK(r, s.phases[r.id], story, sample.at),
         InTime(AllOffered(s, sample), sample.at)
  PROVE  PhaseOK(r, AllOffered(s, sample).phases[r.id], story, sample.at)
<1> DEFINE e1 == Offered(1, s, sample)
           e2 == Offered(2, e1, sample)
           e3 == Offered(3, e2, sample)
           e4 == Offered(4, e3, sample)
           OK(e) == InTime(e, sample.at) => PhaseOK(r, e.phases[r.id], story, sample.at)
<1>1. OfferedUpTo(1, s, e1, sample) /\ OK(e1)
  <2>1. OfferedUpTo(1, s, e1, sample)
    BY FirstOffer
  <2> HIDE DEF e1
  <2>2. \A i \in Elements(config.inputs) :
          e1.inputs[i] = s.inputs[i] \/ e1.inputs[i] = Noted(s.inputs[i], sample, i)
    BY <2>1 DEF OfferedUpTo
  <2>3. /\ ExpressionHolds(r, e1.inputs, sample.at % Ticks) => Could(r, story, sample.at)
        /\ ~ExpressionHolds(r, e1.inputs, sample.at % Ticks) => ~Must(r, story, sample.at)
    BY <2>2, Zenon DEF CouldOffer
  <2>4. OK(e1)
    BY <2>3, OfferHistory DEF e1
  <2> QED
    BY <2>1, <2>4
<1> HIDE DEF e1
<1>2. OfferedUpTo(2, s, e2, sample) /\ OK(e2)
  BY <1>1, NextOffer, OffersHistory
<1> HIDE DEF e2
<1>3. OfferedUpTo(3, s, e3, sample) /\ OK(e3)
  BY <1>2, NextOffer, OffersHistory
<1> HIDE DEF e3
<1>4. OK(e4)
  BY <1>3, OffersHistory
<1> HIDE DEF e4
<1>5. AllOffered(s, sample) = e4
  BY DEF AllOffered, e4, e3, e2, e1
<1> QED
  BY <1>4, <1>5
-----------------------------------------------------------------------------
(* The history of the phases is an invariant.                              *)

\* A decoder that was evaluated waits and is evaluated again.
LEMMA AdvanceHistory ==
  ASSUME Compiles(config), NEW s, NEW story, Mirrors(s, story),
         NEW t \in Nat, t - s.lastEval \in 0..(Half - 1),
         story # <<>> => \A i \in Elements(config.inputs) : t - LastChange(i, story) < Ticks,
         NEW r \in RulesFor(config, "Movement"),
         InTime(s, t) => PhaseOK(r, s.phases[r.id], story, s.lastEval),
         NEW e, e = Advance(config, s, t), ~e.late
  PROVE  PhaseOK(r, e.phases[r.id], story, t)
<1>1. /\ s \in DecoderStates(config) /\ s.lastEval \in Nat /\ s.lastNow = s.lastEval % Ticks
      /\ r \in EnabledRules(config)
  BY Mirrored, RuleIsKnown
<1>2. t >= s.lastEval
  BY <1>1, Words
<1>3. e = Evaluate(config, s, t)
  <2>1. t \in Int /\ s.lastEval \in Int /\ t - s.lastEval \in TickType /\ t - s.lastEval < Half
    BY <1>1, Words
  <2>2. Elapsed(t % Ticks, s.lastEval % Ticks) = t - s.lastEval
    BY <2>1, ElapsedTime
  <2>3. Accepts(s, t)
    BY <1>1, <2>1, <2>2 DEF Accepts
  <2> QED
    BY <2>3 DEF Advance
<1>4. InTime(s, t)
  BY <1>1, <1>3, EvaluatedLate DEF InTime
<1>5. s.deadline # NoTick => t <= DueAt(s)
  <2>1. s.deadline # NoTick => ~(DueAt(s) < t) /\ DueAt(s) \in Nat
    BY <1>1, <1>4, DueTyped DEF InTime
  <2> QED
    BY <2>1
<1>6. PhaseOK(r, s.phases[r.id], story, t)
  BY <1>4, <1>5, WaitHistory
<1>7. /\ ExpressionHolds(r, s.inputs, t % Ticks) => Could(r, story, t)
      /\ ~ExpressionHolds(r, s.inputs, t % Ticks) => ~Must(r, story, t)
  <2>1. Says(s.inputs, story, t)
    BY <1>2, MirroredSays
  <2> QED
    BY <1>1, <2>1, ExpressionTruth DEF Could, Must
<1> QED
  BY <1>1, <1>3, <1>6, <1>7, EvaluateHistory

\* One that never was has nothing to tell.
LEMMA UnbootedHistory ==
  ASSUME DecoderInv, ~booted
  PROVE  /\ d.lastNow = NoTick /\ heard = <<>>
         /\ \A r \in RulesFor(config, "Movement") : d.phases[r.id].phase = "Unmatched"
<1>1. d = InitialDecoder(config) /\ heard = <<>>
  BY DEF DecoderInv, TimesOK
<1>2. \A r \in RulesFor(config, "Movement") : r.id \in RuleIds(config)
  BY DEF RuleIds
<1> QED
  BY <1>1, <1>2 DEF InitialDecoder, Unmatched

LEMMA BootedMirrors ==
  ASSUME DecoderInv, booted
  PROVE  Mirrors(d, heard) /\ clock - d.lastEval \in 0..(Half - 1)
<1>1. d.lastNow = d.lastEval % Ticks /\ d.lastEval \in Nat
  BY EvaluatedInTime DEF DecoderInv, TimesOK, DecoderStates
<1>2. d.lastNow # NoTick
  <2>1. d.lastEval % Ticks \in TickType
    BY <1>1, Wrapped
  <2> QED
    BY <1>1, <2>1, Words
<1> QED
  BY <1>2, InvMirrors, EvaluatedInTime

LEMMA HeardAges ==
  ASSUME DecoderInv, NEW t \in Int, t <= clock, heard # <<>>, NEW i \in Elements(config.inputs)
  PROVE  t - LastChange(i, heard) < Ticks
<1>1. clock - LastChange(i, heard) < Ticks
  BY InputOKIs DEF DecoderInv, TimesOK, Quiet
<1>2. heard \in Seq(StoryRecords) /\ Ordered(heard) /\ clock \in Nat
  BY EvaluatedInTime, SamplesAreRecords DEF DecoderInv, SamplesOK, Ordered
<1>3. LastChange(i, heard) \in Nat
  BY <1>2, LastChangeInTime
<1> QED
  BY <1>1, <1>2, <1>3, Words

\* What the inputs have heard before it is offered a sample.
LEMMA InvSays ==
  ASSUME DecoderInv, NEW t \in Nat, t <= clock, heard # <<>> => t >= Newest(heard).at
  PROVE  Says(d.inputs, heard, t)
<1>1. heard \in Seq(StoryRecords) /\ Ordered(heard)
  BY EvaluatedInTime, SamplesAreRecords DEF DecoderInv, SamplesOK, Ordered
<1>2. \A i \in Elements(config.inputs) :
        d.inputs[i] \in InputRecords /\ InputMeans(d.inputs[i], heard, i)
  BY InputOKIs, EvaluatedInTime DEF DecoderInv, DecoderStates
<1>3. heard # <<>> => Newest(heard).at <= t
  BY HeardIsOrdered
<1>4. heard # <<>> => \A i \in Elements(config.inputs) : t - LastChange(i, heard) < Ticks
  BY HeardAges
<1> QED
  BY <1>1, <1>2, <1>3, <1>4 DEF Says

LEMMA UnbootedSilence ==
  ASSUME DecoderInv, ~booted, NEW r \in RulesFor(config, "Movement"),
         NEW t \in Nat, t <= clock
  PROVE  ~Was(r, heard, t)
<1>1. d = InitialDecoder(config) /\ heard = <<>> /\ Compiles(config) /\ r \in EnabledRules(config)
  BY EvaluatedInTime DEF DecoderInv, TimesOK, RulesFor
<1>2. Says(d.inputs, heard, t)
  BY <1>1, InvSays
<1>3. \A i \in Elements(config.inputs) : d.inputs[i] = NoInput
  BY <1>1 DEF InitialDecoder
<1>4. \A g \in Elements(r.groups) : Elements(g) # {} /\ Elements(g) \subseteq Predicates(r)
  BY <1>1 DEF Compiles, Predicates
<1>5. \A p \in Predicates(r) : ~PredicateHolds(p, d.inputs[p.input], t % Ticks)
  <2>1. \A p \in Predicates(r) : d.inputs[p.input] = NoInput
    BY <1>1, <1>3, PredicateTypes
  <2>2. ~NoInput.valid
    BY DEF NoInput
  <2> QED
    BY <2>1, <2>2, Zenon DEF PredicateHolds
<1>6. ~ExpressionHolds(r, d.inputs, t % Ticks)
  BY <1>4, <1>5, Zenon DEF ExpressionHolds
<1> QED
  BY <1>1, <1>2, <1>6, ExpressionTruth

LEMMA UnbootedPhase ==
  ASSUME DecoderInv, ~booted, NEW r \in RulesFor(config, "Movement"),
         NEW now \in Nat, now <= clock
  PROVE  PhaseOK(r, d.phases[r.id], heard, now)
<1> DEFINE m == d.phases[r.id]
<1>1. m.phase = "Unmatched"
  BY UnbootedHistory
<1>2. \A t \in Nat : t <= now => ~Was(r, heard, t)
  <2>1. clock \in Nat
    BY EvaluatedInTime
  <2> QED
    BY <2>1, UnbootedSilence
<1>3. r.entry \in Nat
  BY EvaluatedInTime, RuleIsKnown, LifecycleTypes
<1> HIDE DEF m
<1>4. Fresh(r, heard, now)
  BY <1>2 DEF Fresh, Must
<1>5. ASSUME NEW at \in 0..(now - 1), MustEnter(r, heard, at)
      PROVE  FALSE
  <2>1. at \in Nat /\ at <= now
    OBVIOUS
  <2> QED
    BY <1>2, <1>3, <1>5, <2>1, ObligedWas
<1>6. DutyOK(r, m, heard, now)
  BY <1>1, <1>4, <1>5 DEF DutyOK
<1> QED
  BY <1>1, <1>6, NoHistory DEF PhaseOK, m

LEMMA AdvanceKeepsHistory ==
  ASSUME DecoderInv, HistoryInv, d' = Advance(config, d, clock), UNCHANGED <<config, heard>>
  PROVE  HistoryInv'
<1> SUFFICES ASSUME ~d'.late, NEW r \in Watched
             PROVE  PhaseOK(r, d'.phases[r.id], heard, d'.lastEval)
  BY DEF HistoryInv, Watched, RulesFor, EnabledRules, Now
<1>1. /\ Compiles(config) /\ clock \in Nat /\ d \in DecoderStates(config)
      /\ r \in RulesFor(config, "Movement") /\ OneInput(r)
  BY EvaluatedInTime DEF Watched
<1>2. d'.lastEval = clock
  BY AdvanceOK DEF EvaluatedOK
<1>3. heard # <<>> => \A i \in Elements(config.inputs) : clock - LastChange(i, heard) < Ticks
  BY <1>1, HeardAges
<1>4. CASE booted
  <2>1. Mirrors(d, heard) /\ clock - d.lastEval \in 0..(Half - 1)
    BY <1>4, BootedMirrors
  <2>2. InTime(d, clock) => PhaseOK(r, d.phases[r.id], heard, d.lastEval)
    BY DEF InTime, HistoryInv, Now
  <2> QED
    BY <1>1, <1>2, <1>3, <2>1, <2>2, AdvanceHistory
<1>5. CASE ~booted
  <2>1. /\ d.lastNow = NoTick /\ heard = <<>> /\ d.phases[r.id].phase = "Unmatched"
    BY <1>1, <1>5, UnbootedHistory
  <2>2. d' = Evaluate(config, d, clock)
    BY <2>1 DEF Advance, Accepts
  <2>3. PhaseOK(r, d.phases[r.id], heard, clock)
    BY <1>1, <1>5, UnbootedPhase
  <2>4. /\ ExpressionHolds(r, d.inputs, clock % Ticks) => Could(r, heard, clock)
        /\ ~ExpressionHolds(r, d.inputs, clock % Ticks) => ~Must(r, heard, clock)
    <3>1. Says(d.inputs, heard, clock)
      BY <1>1, <2>1, InvSays
    <3>2. r \in EnabledRules(config)
      BY <1>1 DEF RulesFor
    <3> QED
      BY <1>1, <3>1, <3>2, ExpressionTruth DEF Could, Must
  <2> QED
    BY <1>1, <1>2, <2>2, <2>3, <2>4, EvaluateHistory
<1> QED
  BY <1>4, <1>5

\* What a consumed sample makes of the story, and of the inputs it was offered to.
LEMMA ConsumedStory ==
  ASSUME DecoderInv, NEW sample \in Known, clock - sample.at <= Lag, Consume(sample),
         Accepts(d, sample.at)
  PROVE  LET e == AllOffered(d, sample) IN
         /\ Mirrors(e, heard') /\ e.lastEval = sample.at
         /\ d' = Advance(config, e, clock) /\ clock - sample.at \in 0..(Half - 1)
         /\ \A i \in Elements(config.inputs) : e.inputs[i] = Noted(d.inputs[i], sample, i)
         /\ Says(d.inputs, heard, sample.at) /\ Says(e.inputs, heard', sample.at)
         /\ heard' # <<>> => \A i \in Elements(config.inputs) : clock - LastChange(i, heard') < Ticks
         /\ heard' = heard \/ (heard' = Append(heard, sample) /\ Later(sample, heard))
<1> DEFINE at == sample.at
           e  == AllOffered(d, sample)
<1>1. /\ Compiles(config) /\ d \in DecoderStates(config) /\ clock \in Nat
      /\ \/ d.lastNow = NoTick
         \/ d.lastNow = d.lastEval % Ticks /\ clock - d.lastEval \in 0..(Half - 1)
  BY EvaluatedInTime
<1>2. /\ at \in Nat /\ at <= clock /\ sample \in Samples
      /\ sample \in StoryRecords /\ sample \in SampleRecords(config)
  BY KnownSamples
<1>3. d' = Advance(config, e, clock)
  BY Zenon DEF Consume, AllOffered, Offered
<1>4. /\ e \in DecoderStates(config) /\ Rested(config, e)
      /\ e.lastEval = at /\ e.lastNow = at % Ticks
      /\ \A i \in Elements(config.inputs) : e.inputs[i] = Noted(d.inputs[i], sample, i)
  BY <1>1, <1>2, SampleAccepted
<1>5. EvaluatedOK
  BY ConsumeOK
<1> HIDE DEF e
<1>6. clock - at \in 0..(Half - 1)
  BY <1>1, <1>2, FeedbackAssumption, Words
<1>7. d'.inputs = e.inputs
  BY <1>1, <1>3, <1>4, <1>6, Advanced
<1>8. heard # <<>> => at >= Newest(heard).at
  <2>1. heard # <<>> => booted
    BY DEF DecoderInv, TimesOK, SamplesOK
  <2>2. booted => at >= d.lastEval
    BY AcceptedIsLatest
  <2>3. heard # <<>> => /\ Newest(heard).at <= d.lastEval /\ d.lastEval \in Nat
                       /\ Newest(heard).at \in Nat
    BY <1>1, HeardIsOrdered DEF DecoderInv, TimesOK, DecoderStates
  <2> QED
    BY <2>1, <2>2, <2>3, <1>2
<1>9. Says(d.inputs, heard, at)
  BY <1>2, <1>8, InvSays
<1>10. heard' = heard \/ (heard' = Append(heard, sample) /\ Later(sample, heard))
  <2>1. CASE sample \in Elements(heard)
    BY <2>1 DEF Consume
  <2>2. CASE sample \notin Elements(heard)
    <3>1. heard' = Append(heard, sample)
      BY <2>2 DEF Consume
    <3>2. ASSUME NEW k \in DOMAIN heard
          PROVE  heard[k].at < at
      <4>1. heard # <<>> /\ heard[k] \in Elements(heard)
        BY DEF Elements
      <4>2. /\ heard[k].at \in Nat /\ heard[k].at <= Newest(heard).at
            /\ Newest(heard).at \in Nat
        BY <4>1, HeardIsOrdered
      <4>3. heard[k].at # at
        <5>1. heard[k] \in Known /\ heard[k] # sample
          BY <2>2, <4>1 DEF Known
        <5> QED
          BY <5>1 DEF DecoderInv, SamplesOK
      <4> QED
        BY <1>2, <1>8, <4>1, <4>2, <4>3
    <3> QED
      BY <3>1, <3>2 DEF Later
  <2> QED
    BY <2>1, <2>2
<1>11. heard' \in Seq(StoryRecords) /\ Ordered(heard')
  BY <1>1, <1>5, SamplesAreRecords DEF EvaluatedOK, Ordered
<1>12. heard' # <<>> => Newest(heard').at <= at
  <2>1. CASE heard' = heard
    <3>1. heard # <<>> => Newest(heard).at \in Nat
      BY HeardIsOrdered
    <3> QED
      BY <2>1, <3>1, <1>2, <1>8
  <2>2. CASE heard' = Append(heard, sample)
    <3>1. heard \in Seq(StoryRecords)
      BY <1>9 DEF Says
    <3>2. Newest(Append(heard, sample)) = sample
      BY <1>2, <3>1 DEF Newest
    <3> QED
      BY <1>2, <2>2, <3>2
  <2> QED
    BY <1>10, <2>1, <2>2
<1>13. \A i \in Elements(config.inputs) : InputMeans(e.inputs[i], heard', i)
  BY <1>5, <1>7 DEF EvaluatedOK
<1>14. heard' # <<>> => \A i \in Elements(config.inputs) : clock - LastChange(i, heard') < Ticks
  BY <1>5 DEF EvaluatedOK
<1>15. heard' # <<>> => \A i \in Elements(config.inputs) : at - LastChange(i, heard') < Ticks
  <2> SUFFICES ASSUME heard' # <<>>, NEW i \in Elements(config.inputs)
               PROVE  at - LastChange(i, heard') < Ticks
    OBVIOUS
  <2>1. LastChange(i, heard') \in Nat /\ clock - LastChange(i, heard') < Ticks
    BY <1>11, <1>14, LastChangeInTime
  <2> QED
    BY <1>1, <1>2, <2>1, Words
<1>16. Mirrors(e, heard')
  BY <1>4, <1>11, <1>12, <1>13 DEF Mirrors
<1>17. Says(e.inputs, heard', at)
  <2>1. at >= e.lastEval
    BY <1>2, <1>4
  <2> QED
    BY <1>2, <1>15, <1>16, <2>1, MirroredSays
<1> QED
  BY <1>3, <1>4, <1>6, <1>9, <1>10, <1>14, <1>16, <1>17 DEF e

LEMMA ConsumeKeepsHistory ==
  ASSUME DecoderInv, HistoryInv, NEW sample \in Known, clock - sample.at <= Lag,
         Consume(sample), UNCHANGED config
  PROVE  HistoryInv'
<1> DEFINE at == sample.at
           e  == AllOffered(d, sample)
<1>1. CASE ~Accepts(d, at)
  <2>1. e = d /\ heard' = heard
    BY <1>1, SampleRefused DEF Consume
  <2>2. d' = Advance(config, e, clock)
    BY Zenon DEF Consume, AllOffered, Offered
  <2> QED
    BY <2>1, <2>2, AdvanceKeepsHistory
<1>2. CASE Accepts(d, at)
  <2> SUFFICES ASSUME ~d'.late, NEW r \in Watched
               PROVE  PhaseOK(r, d'.phases[r.id], heard', d'.lastEval)
    BY DEF HistoryInv, Watched, RulesFor, EnabledRules, Now
  <2>1. /\ Compiles(config) /\ clock \in Nat /\ d \in DecoderStates(config)
        /\ r \in RulesFor(config, "Movement") /\ OneInput(r) /\ r \in EnabledRules(config)
        /\ LifecycleIsValid(r)
    BY EvaluatedInTime, RuleIsKnown DEF Watched
  <2>2. /\ at \in Nat /\ at <= clock /\ sample \in StoryRecords
        /\ sample \in SampleRecords(config)
    BY KnownSamples
  <2>3. /\ Mirrors(e, heard') /\ e.lastEval = at
        /\ d' = Advance(config, e, clock) /\ clock - at \in 0..(Half - 1)
        /\ \A i \in Elements(config.inputs) : e.inputs[i] = Noted(d.inputs[i], sample, i)
        /\ Says(d.inputs, heard, at) /\ Says(e.inputs, heard', at)
        /\ heard' # <<>> => \A i \in Elements(config.inputs) : clock - LastChange(i, heard') < Ticks
        /\ heard' = heard \/ (heard' = Append(heard, sample) /\ Later(sample, heard))
    BY <1>2, ConsumedStory
  <2> HIDE DEF e
  <2>4. /\ RuleMeans(r, heard, at) \/ RuleMeans(r, heard', at) => Could(r, heard', at)
        /\ Must(r, heard', at) => RuleMeans(r, heard, at) /\ RuleMeans(r, heard', at)
    <3>1. /\ heard \in Seq(StoryRecords) /\ heard' \in Seq(StoryRecords) /\ Ordered(heard')
          /\ heard' # <<>> => Newest(heard').at <= at
          /\ at \in Int /\ at - 1 \in Int
      BY <2>2, <2>3 DEF Says
    <3>2. Told(heard', at) = heard'
      BY <3>1, AllTold
    <3>3. CASE heard' = heard
      BY <3>2, <3>3, Zenon DEF Could, Must, Was
    <3>4. CASE heard' = Append(heard, sample) /\ Later(sample, heard)
      <4>1. Told(heard', at - 1) = Told(heard, at - 1)
        BY <2>2, <3>1, <3>4, ToldGrows
      <4>2. \A k \in DOMAIN heard : heard[k].at \in Nat
        <5>1. \A k \in DOMAIN heard : heard[k] \in StoryRecords
          BY <3>1
        <5> QED
          BY <5>1 DEF StoryRecords
      <4>3. \A k \in DOMAIN heard : heard[k].at <= at - 1
        BY <3>1, <3>4, <4>2 DEF Later
      <4>4. Told(heard, at - 1) = heard
        BY <3>1, <4>3, ToldAll
      <4> QED
        BY <3>2, <4>1, <4>4, Zenon DEF Could, Must, Was
    <3> QED
      BY <2>3, <3>3, <3>4
  <2>5. CouldOffer(r, d, sample, heard')
    <3> SUFFICES ASSUME NEW inputs,
                        \A i \in Elements(config.inputs) :
                          inputs[i] = d.inputs[i] \/ inputs[i] = Noted(d.inputs[i], sample, i)
                 PROVE  /\ ExpressionHolds(r, inputs, at % Ticks) => Could(r, heard', at)
                        /\ ~ExpressionHolds(r, inputs, at % Ticks) => ~Must(r, heard', at)
      BY Zenon DEF CouldOffer
    <3>1. \A i \in Elements(config.inputs) : inputs[i] = d.inputs[i] \/ inputs[i] = e.inputs[i]
      BY <2>3, Zenon
    <3>2. \/ ExpressionHolds(r, inputs, at % Ticks) <=> RuleMeans(r, heard, at)
          \/ ExpressionHolds(r, inputs, at % Ticks) <=> RuleMeans(r, heard', at)
      BY <2>1, <2>3, <3>1, OneInputTruth
    <3> QED
      BY <2>4, <3>2
  <2>6. InTime(d, at) => PhaseOK(r, d.phases[r.id], heard', at)
    <3> SUFFICES ASSUME InTime(d, at)
                 PROVE  PhaseOK(r, d.phases[r.id], heard', at)
      OBVIOUS
    <3>1. CASE ~booted
      <4>1. PhaseOK(r, d.phases[r.id], heard, at) /\ heard \in Seq(StoryRecords)
        BY <2>1, <2>2, <2>3, <3>1, UnbootedPhase DEF Says
      <4>2. d.phases[r.id] \in PhaseRecords
        BY <2>1, RuleIsKnown DEF DecoderStates
      <4>3. at <= sample.at
        BY <2>2
      <4>4. PhaseOK(r, d.phases[r.id], Append(heard, sample), at) \/ ~Later(sample, heard)
        BY <2>1, <2>2, <4>1, <4>2, <4>3, PhaseGrows
      <4> QED
        BY <2>3, <4>1, <4>4
    <3>2. CASE booted
      <4>1. Mirrors(d, heard) /\ clock - d.lastEval \in 0..(Half - 1) /\ at >= d.lastEval
        BY <1>2, <3>2, BootedMirrors, AcceptedIsLatest
      <4>2. d.lastEval \in Nat /\ d.lastNow = d.lastEval % Ticks
        BY <4>1, Mirrored
      <4>3. at - d.lastEval \in 0..(Half - 1)
        BY <2>1, <2>2, <4>1, <4>2, Words
      <4>4. heard # <<>> => \A i \in Elements(config.inputs) : at - LastChange(i, heard) < Ticks
        BY <2>2, HeardAges
      <4>5. d.deadline # NoTick => at <= DueAt(d)
        <5>1. d.deadline # NoTick => DueAt(d) \in Nat /\ ~(DueAt(d) < at)
          BY <2>1, <4>2, DueTyped DEF InTime
        <5> QED
          BY <2>2, <5>1
      <4>6. PhaseOK(r, d.phases[r.id], heard, d.lastEval)
        BY DEF InTime, HistoryInv, Now
      <4>7. PhaseOK(r, d.phases[r.id], heard, at)
        BY <2>1, <2>2, <4>1, <4>3, <4>4, <4>5, <4>6, WaitHistory
      <4>8. heard \in Seq(StoryRecords) /\ at <= sample.at
        BY <2>2, <4>1, Mirrored
      <4>9. d.phases[r.id] \in PhaseRecords
        BY <2>1, RuleIsKnown DEF DecoderStates
      <4> QED
        BY <2>1, <2>2, <2>3, <4>7, <4>8, <4>9, PhaseGrows
    <3> QED
      BY <3>1, <3>2
  <2>7. InTime(e, at) => PhaseOK(r, e.phases[r.id], heard', at)
    BY <1>2, <2>1, <2>2, <2>5, <2>6, SampleHistory DEF e
  <2>8. InTime(e, clock) => InTime(e, at)
    <3>1. e.deadline # NoTick => DueAt(e) \in Nat
      BY <2>3, Mirrored, DueTyped
    <3> QED
      BY <2>1, <2>2, <3>1 DEF InTime
  <2>9. PhaseOK(r, d'.phases[r.id], heard', clock)
    BY <2>1, <2>3, <2>7, <2>8, AdvanceHistory
  <2>10. d'.lastEval = clock
    BY ConsumeOK DEF EvaluatedOK
  <2> QED
    BY <2>9, <2>10
<1> QED
  BY <1>1, <1>2

LEMMA HistoryInit ==
  ASSUME Init
  PROVE  HistoryInv
<1>1. DecoderInv /\ ~booted
  BY InvInit DEF Init
<1>2. d.lastEval = 0
  BY DEF Init, InitialDecoder
<1>3. Now \in Nat /\ Now <= clock
  BY <1>2 DEF Now, Init
<1> QED
  BY <1>1, <1>3, UnbootedPhase DEF HistoryInv, Watched

LEMMA HistoryKept ==
  ASSUME HistoryInv, UNCHANGED <<config, d, heard>>
  PROVE  HistoryInv'
BY DEF HistoryInv, Watched, RulesFor, EnabledRules, Now

\* Every movement has the history its phase stands for.
THEOREM HistoryInvariant == Spec => []HistoryInv
<1>1. Init => HistoryInv
  BY HistoryInit
<1>2. DecoderInv /\ HistoryInv /\ [Next]_vars => HistoryInv'
  <2> SUFFICES ASSUME DecoderInv, HistoryInv, [Next]_vars
               PROVE  HistoryInv'
    OBVIOUS
  <2>1. CASE Capture
    BY <2>1, HistoryKept DEF Capture
  <2>2. CASE Boot
    <3>1. CASE latest = NoSample
      BY <2>2, <3>1, AdvanceKeepsHistory DEF Boot
    <3>2. CASE latest # NoSample
      <4>1. latest \in Known
        BY <3>2 DEF Known
      <4>2. clock - latest.at <= Lag
        <5>1. latest.at \in Nat /\ clock \in Nat
          BY <4>1, KnownSamples
        <5>2. clock <= Lag
          BY <2>2 DEF Boot, DecoderInv, TimesOK
        <5> QED
          BY <5>1, <5>2, FeedbackAssumption, Words
      <4> QED
        BY <2>2, <3>2, <4>1, <4>2, ConsumeKeepsHistory DEF Boot
    <3> QED
      BY <3>1, <3>2
  <2>3. CASE Receive
    <3>1. Head(queue) \in Known
      BY <2>3, QueueKept DEF Receive, Known, Elements
    <3>2. clock - Head(queue).at <= Lag
      BY <2>3 DEF Receive, DecoderInv, TimesOK
    <3> QED
      BY <2>3, <3>1, <3>2, ConsumeKeepsHistory DEF Receive
  <2>4. CASE ProcessExpired
    BY <2>4, AdvanceKeepsHistory DEF ProcessExpired
  <2>5. CASE Tick
    BY <2>5, HistoryKept DEF Tick
  <2>6. CASE UNCHANGED vars
    BY <2>6, HistoryKept DEF vars
  <2> QED
    BY <2>1, <2>2, <2>3, <2>4, <2>5, <2>6 DEF Next
<1> QED
  BY <1>1, <1>2, DecoderInvariant, PTL DEF Spec

\* What holds at the last evaluation is what the samples say of its time.
LEMMA RestedTruth ==
  ASSUME DecoderInv, Mirrors(d, heard), NEW r \in RulesFor(config, "Movement")
  PROVE  r \in Holding(config, d.inputs, d.lastNow) <=> Was(r, heard, Now)
<1>1. /\ Compiles(config) /\ r \in EnabledRules(config)
      /\ Now \in Nat /\ d.lastNow = Now % Ticks
  BY EvaluatedInTime, Mirrored DEF RulesFor, Now
<1>2. heard # <<>> => \A i \in Elements(config.inputs) : Now - LastChange(i, heard) < Ticks
  <2>1. Now \in Int /\ Now <= clock
    BY <1>1 DEF Now, DecoderInv, TimesOK
  <2> QED
    BY <2>1, HeardAges
<1>3. Says(d.inputs, heard, Now)
  BY <1>1, <1>2, MirroredSays DEF Now
<1> QED
  BY <1>1, <1>3, ExpressionTruth DEF Holding

LEMMA HistoryEarns ==
  ASSUME DecoderInv, HistoryInv
  PROVE  MovementEarned
<1> SUFFICES ASSUME ~d.late, NEW r \in Watched, Claims(d.phases[r.id])
             PROVE  \E at \in 0..Now :
                      /\ CouldEnter(r, heard, at)
                      /\ \A t \in at..(Now - r.loss) :
                           \E u \in t..(t + r.loss) : Could(r, heard, u)
  BY Zenon DEF MovementEarned
<1> DEFINE m == d.phases[r.id]
           holds == r \in Holding(config, d.inputs, d.lastNow)
<1>1. /\ Compiles(config) /\ r \in RulesFor(config, "Movement") /\ r.loss \in Nat
      /\ r \in EnabledRules(config) /\ r.loss <= MaxDuration
  BY EvaluatedInTime, RuleIsKnown, LifecycleTypes, Words DEF Watched
<1>2. booted
  BY <1>1, UnbootedHistory DEF Claims
<1>3. Mirrors(d, heard)
  BY <1>2, BootedMirrors
<1>4. /\ Now \in Nat /\ d.lastNow = Now % Ticks /\ d \in DecoderStates(config)
      /\ heard \in Seq(StoryRecords)
  BY <1>3, Mirrored DEF Now
<1>5. m \in PhaseRecords
  BY <1>1, <1>4, RuleIsKnown DEF DecoderStates
<1>6. Pass(r, m, holds, d.lastNow) = m
  BY <1>1, <1>3, Zenon DEF Mirrors, Rested, Holding
<1>7. holds <=> Was(r, heard, Now)
  BY <1>1, <1>3, RestedTruth
<1>8. HistoryOK(r, m, heard, Now)
  BY DEF HistoryInv, PhaseOK
<1>9. d.lastNow \in TickType /\ holds \in BOOLEAN
  BY <1>4, Wrapped
<1>10. m.phase \in {"Matched", "LossPending"}
  BY DEF Claims
<1> HIDE DEF m, holds
<1>11. CASE m.phase = "Matched"
  <2>1. holds = TRUE
    <3>1. ASSUME holds = FALSE
          PROVE  FALSE
      <4>1. Missed(r, m, d.lastNow) = m
        BY <1>6, <3>1, Zenon DEF Missed
      <4> QED
        BY <1>5, <1>9, <1>11, <4>1, MissedStays
    <3> QED
      BY <1>9, <3>1
  <2>2. PICK at \in 0..Now : CouldEnter(r, heard, at) /\ Sustained(r, heard, at, Now, Now)
    BY <1>8, <1>11 DEF HistoryOK
  <2>3. Could(r, heard, Now)
    BY <1>7, <2>1 DEF Could
  <2>4. ASSUME NEW t \in at..(Now - r.loss)
        PROVE  \E u \in t..(t + r.loss) : Could(r, heard, u)
    <3>1. CASE t = Now
      <4>1. Now \in t..(t + r.loss)
        BY <1>1, <1>4, <3>1
      <4> QED
        BY <2>3, <4>1
    <3>2. CASE t # Now
      <4>1. t \in at..(Now - 1)
        BY <1>1, <1>4, <3>2
      <4> QED
        BY <2>2, <4>1 DEF Sustained
    <3> QED
      BY <3>1, <3>2
  <2> QED
    BY <2>2, <2>4
<1>12. CASE m.phase = "LossPending"
  <2>1. holds = FALSE
    <3>1. ASSUME holds = TRUE
          PROVE  FALSE
      <4>1. Held(r, m, d.lastNow) = m
        BY <1>6, <3>1, Zenon DEF Held
      <4> QED
        BY <1>5, <1>9, <1>12, <4>1, HeldStays
    <3> QED
      BY <1>9, <3>1
  <2>2. ~(Elapsed(d.lastNow, m.since) >= r.loss)
    <3>1. Missed(r, m, d.lastNow) = m
      BY <1>6, <2>1, Zenon DEF Missed
    <3> QED
      BY <1>5, <1>9, <1>12, <3>1, MissedStays
  <2>3. PICK since \in 0..Now :
          /\ since % Ticks = m.since /\ Now - since <= r.loss
          /\ \E at \in 0..since : CouldEnter(r, heard, at) /\ Sustained(r, heard, at, since, Now)
    BY <1>8, <1>12 DEF HistoryOK
  <2>4. PICK at \in 0..since : CouldEnter(r, heard, at) /\ Sustained(r, heard, at, since, Now)
    BY <2>3
  <2>5. Now - since < r.loss
    <3>1. Now \in Int /\ since \in Int /\ Now - since \in TickType
      BY <1>1, <1>4, <2>3, Words
    <3>2. Elapsed(Now % Ticks, since % Ticks) = Now - since
      BY <3>1, ElapsedTime
    <3> QED
      BY <1>1, <1>4, <2>2, <2>3, <3>1, <3>2
  <2>6. \A t \in at..(Now - r.loss) : t \in at..(since - 1)
    BY <1>1, <1>4, <2>5
  <2>7. at \in 0..Now
    BY <1>4
  <2> QED
    BY <2>4, <2>6, <2>7 DEF Sustained
<1> QED
  BY <1>10, <1>11, <1>12

\* A movement of one input is claimed only after its entry was confirmed, and as long
\* as no loss was (the lifecycle of evaluate).
THEOREM MovementIsEarned == Spec => []MovementEarned
<1>1. DecoderInv /\ HistoryInv => MovementEarned
  BY HistoryEarns
<1> QED
  BY <1>1, DecoderInvariant, HistoryInvariant, PTL

LEMMA ArbitrateFields ==
  ASSUME NEW c, NEW s, NEW holds, s.result = Arbitrate(c, s.inputs, s.phases, holds)
  PROVE  LET expired == {r \in RulesFor(c, "Movement") : s.phases[r.id].phase = "Expired"}
         IN /\ s.result.withdrawn <=> expired # {}
            /\ s.result.obstructed <=>
                 /\ s.result.position = "None"
                 /\ \/ RulesFor(c, "Fault") \cap holds # {}
                    \/ \E r \in expired : r.expiry \in ObstructingExpiries
<1> DEFINE expired == {r \in RulesFor(c, "Movement") : s.phases[r.id].phase = "Expired"}
           given == \/ RulesFor(c, "Fault") \cap holds # {}
                    \/ \E r \in expired : r.expiry \in ObstructingExpiries
           result == Arbitrate(c, s.inputs, s.phases, holds)
<1>1. /\ result.withdrawn = (expired # {})
      /\ result.obstructed = (result.position = "None" /\ given)
  BY Zenon DEF Arbitrate
<1>2. s.result = result
  OBVIOUS
<1> HIDE DEF expired, given, result
<1>3. /\ s.result.withdrawn = (expired # {})
      /\ s.result.obstructed = (s.result.position = "None" /\ given)
  BY <1>1, <1>2, Zenon
<1> QED
  BY <1>3, Zenon DEF expired, given

\* Within a word of the start a movement that lasts beyond its age limit is withdrawn.
LEMMA DutyWithdraws ==
  ASSUME DecoderInv, HistoryInv, Now < Ticks
  PROVE  AgeLimitsClaims
<1> SUFFICES ASSUME ~d.late, NEW r \in Watched, r.age # 0, Must(r, heard, Now),
                    NEW at \in 0..(Now - r.age - 1), MustEnter(r, heard, at), Lasts(r, heard, at, Now)
             PROVE  /\ d.phases[r.id].phase = "Expired" /\ d.result.withdrawn
                    /\ r.expiry \in ObstructingExpiries /\ d.result.position = "None" =>
                         d.result.obstructed
  BY Zenon DEF AgeLimitsClaims
<1> DEFINE m == d.phases[r.id]
           holds == r \in Holding(config, d.inputs, d.lastNow)
<1>1. /\ Compiles(config) /\ r \in RulesFor(config, "Movement")
      /\ r \in EnabledRules(config) /\ r.age \in Nat /\ r.age <= MaxDuration
  BY EvaluatedInTime, RuleIsKnown, LifecycleTypes, Words DEF Watched
<1>2. booted
  <2>1. ASSUME ~booted
        PROVE  FALSE
    <3>1. Now \in Nat /\ Now <= clock
      BY EvaluatedInTime DEF Now, DecoderInv, DecoderStates, TimesOK
    <3>2. ~Was(r, heard, Now)
      BY <1>1, <2>1, <3>1, UnbootedSilence
    <3> QED
      BY <3>2 DEF Must
  <2> QED
    BY <2>1
<1>3. Mirrors(d, heard)
  BY <1>2, BootedMirrors
<1>4. Now \in Nat /\ d.lastNow = Now % Ticks /\ d \in DecoderStates(config)
  BY <1>3, Mirrored DEF Now
<1>5. m \in PhaseRecords /\ Rested(config, d)
  BY <1>1, <1>3, <1>4, RuleIsKnown, Mirrored DEF DecoderStates
<1>6. Pass(r, m, holds, d.lastNow) = m
  BY <1>1, <1>5, Zenon DEF Rested, Holding
<1>7. holds
  BY <1>1, <1>3, <1>4, RestedTruth DEF Must
<1>8. d.lastNow = Now /\ d.lastNow \in TickType /\ m.matched \in Nat
  BY <1>4, <1>5, Words DEF PhaseRecords
<1>9. at \in 0..(Now - 1) /\ at <= Now - r.age
  BY <1>1, <1>4
<1>10. m.phase \in {"Matched", "LossPending", "Expired"} /\ m.matched <= at
  <2>1. DutyOK(r, m, heard, Now)
    BY DEF HistoryInv, PhaseOK
  <2> QED
    BY <1>9, <2>1 DEF DutyOK
<1> HIDE DEF m, holds
<1>11. Held(r, m, d.lastNow) = m
  <2>1. holds = TRUE
    BY <1>7
  <2> QED
    BY <1>6, <2>1, Zenon DEF Held
<1>12. m.phase \in {"EntryPending", "Matched", "Expired"}
  BY <1>5, <1>8, <1>11, HeldStays
<1>13. m.phase # "Matched"
  <2> SUFFICES ASSUME m.phase = "Matched"
               PROVE  FALSE
    OBVIOUS
  <2>1. Elapsed(Now, m.matched) >= r.age
    <3>1. m.matched <= Now - r.age /\ m.matched <= Now
      BY <1>1, <1>4, <1>8, <1>9, <1>10
    <3>2. Elapsed(Now, m.matched) = Now - m.matched
      BY <1>4, <1>8, <3>1, YoungAge
    <3> QED
      BY <1>1, <1>4, <1>8, <3>1, <3>2
  <2>2. Held(r, m, d.lastNow) = Enter(m, "Expired", d.lastNow)
    BY <1>8, <2>1, PassHolding
  <2>3. Enter(m, "Expired", d.lastNow).phase = "Expired"
    BY <1>5, <1>8, Entering
  <2> QED
    BY <1>11, <2>2, <2>3
<1>14. m.phase = "Expired"
  BY <1>10, <1>12, <1>13
<1>15. d.result = Arbitrate(config, d.inputs, d.phases, Holding(config, d.inputs, d.lastNow))
  BY <1>5, Zenon DEF Rested, Holding
<1> DEFINE expired == {q \in RulesFor(config, "Movement") : d.phases[q.id].phase = "Expired"}
<1>16. r \in expired
  BY <1>1, <1>14 DEF m
<1>17. /\ d.result.withdrawn <=> expired # {}
       /\ d.result.obstructed <=>
            /\ d.result.position = "None"
            /\ \/ RulesFor(config, "Fault") \cap Holding(config, d.inputs, d.lastNow) # {}
               \/ \E q \in expired : q.expiry \in ObstructingExpiries
  BY <1>15, ArbitrateFields
<1> HIDE DEF expired
<1>18. expired # {}
  BY <1>16
<1>19. d.result.withdrawn
  BY <1>17, <1>18, Zenon
<1>20. r.expiry \in ObstructingExpiries /\ d.result.position = "None" => d.result.obstructed
  BY <1>16, <1>17, Zenon
<1> QED
  BY <1>14, <1>19, <1>20 DEF m

\* Until the tick wraps, a movement that lasts beyond its age limit is withdrawn, and
\* reported as an obstruction when it is to be (evaluate).  Later an age may have wrapped.
THEOREM AgeLimitIsKept == Spec => [](Now < Ticks => AgeLimitsClaims)
<1>1. DecoderInv /\ HistoryInv => (Now < Ticks => AgeLimitsClaims)
  BY DutyWithdraws
<1> QED
  BY <1>1, DecoderInvariant, HistoryInvariant, PTL
=============================================================================
