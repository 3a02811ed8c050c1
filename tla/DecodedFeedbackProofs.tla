------------------------ MODULE DecodedFeedbackProofs ------------------------
(***************************************************************************)
(* Theorems of DecodedFeedback: what the decoder holds is what the samples *)
(* it heard mean, whatever wraps, is dropped or waited for.                *)
(***************************************************************************)
EXTENDS DecodedFeedbackProperties, FiniteSetTheorems, WellFoundedInduction, TLAPS

-----------------------------------------------------------------------------
(* Arithmetic of words that wrap.                                          *)

LEMMA Division ==
  ASSUME NEW n \in Nat, n > 0, NEW a \in Int
  PROVE  a \div n \in Int /\ a % n \in 0..(n - 1) /\ a = n * (a \div n) + (a % n)
<1>1. a = n * (a \div n) + (a % n)
  OBVIOUS
<1>2. a \div n \in Int /\ a % n \in 0..(n - 1)
  OBVIOUS
<1> QED
  BY <1>1, <1>2

LEMMA Remainder ==
  ASSUME NEW n \in Nat, n > 0, NEW q \in Int, NEW r \in 0..(n - 1)
  PROVE  (n * q + r) % n = r
OBVIOUS

LEMMA Shift ==
  ASSUME NEW n \in Nat, n > 0, NEW a \in Int, NEW k \in Int
  PROVE  (a + n * k) % n = a % n
<1>1. a \div n \in Int /\ a % n \in 0..(n - 1) /\ a = n * (a \div n) + (a % n)
  BY Division
<1> DEFINE q == a \div n
           r == a % n
<1> HIDE DEF q, r
<1>2. a + n * k = n * (q + k) + r
  <2>1. q \in Int /\ r \in Int /\ a = n * q + r
    BY <1>1 DEF q, r
  <2> QED
    BY <2>1
<1>3. (n * (q + k) + r) % n = r
  BY <1>1, Remainder DEF q, r
<1> QED
  BY <1>2, <1>3 DEF r

\* A term may be reduced before or after it is added or subtracted.
LEMMA Congruent ==
  ASSUME NEW n \in Nat, n > 0, NEW a \in Int, NEW b \in Int
  PROVE  /\ ((a % n) + b) % n = (a + b) % n
         /\ ((a % n) - b) % n = (a - b) % n
         /\ (a - (b % n)) % n = (a - b) % n
<1> DEFINE q == a \div n
           r == a % n
           u == b \div n
           v == b % n
<1>1. q \in Int /\ r \in Int /\ a = n * q + r
  BY Division
<1>2. u \in Int /\ v \in Int /\ b = n * u + v
  BY Division
<1> HIDE DEF q, r, u, v
<1>3. r = a + n * (0 - q) /\ v = b + n * (0 - u)
  BY <1>1, <1>2
<1>4. r + b = (a + b) + n * (0 - q) /\ r - b = (a - b) + n * (0 - q) /\ a - v = (a - b) + n * u
  BY <1>3, <1>1, <1>2
<1>5. ASSUME NEW x \in Int, NEW y \in Int, NEW k \in Int, y = x + n * k
      PROVE  y % n = x % n
  BY <1>5, Shift
<1>6. (r + b) % n = (a + b) % n
  <2>1. r + b \in Int /\ a + b \in Int /\ 0 - q \in Int
    BY <1>1
  <2> QED
    BY <2>1, <1>4, <1>5
<1>7. (r - b) % n = (a - b) % n
  <2>1. r - b \in Int /\ a - b \in Int /\ 0 - q \in Int
    BY <1>1
  <2> QED
    BY <2>1, <1>4, <1>5
<1>8. (a - v) % n = (a - b) % n
  <2>1. a - v \in Int /\ a - b \in Int /\ u \in Int
    BY <1>1, <1>2
  <2> QED
    BY <2>1, <1>4, <1>5
<1> QED
  BY <1>6, <1>7, <1>8 DEF r, v

\* The constants, without the division and the remainder they are stated with.
LEMMA Words ==
  /\ Ticks \in Nat /\ Ticks >= 4 /\ Half \in Nat /\ Ticks = 2 * Half
  /\ MaxDuration = Half - 1 /\ MaxDuration \in Nat
  /\ TickType = 0..(Ticks - 1) /\ NoTick \notin TickType
  /\ EdgeCapacity \in Nat /\ EdgeCapacity > 0
<1>1. Ticks = 2 * (Ticks \div 2) + (Ticks % 2) /\ Ticks \div 2 \in Int
  BY Division, DecoderAssumption
<1> QED
  BY <1>1, DecoderAssumption DEF Half, MaxDuration, TickType

LEMMA TicksCongruent ==
  ASSUME NEW a \in Int, NEW b \in Int
  PROVE  /\ ((a % Ticks) + b) % Ticks = (a + b) % Ticks
         /\ ((a % Ticks) - b) % Ticks = (a - b) % Ticks
         /\ (a - (b % Ticks)) % Ticks = (a - b) % Ticks
<1>1. Ticks \in Nat /\ Ticks > 0
  BY Words
<1> QED
  BY <1>1, Congruent, Zenon

LEMMA Wrapped ==
  ASSUME NEW t \in Int
  PROVE  t % Ticks \in TickType
BY Words, Division

LEMMA ElapsedType ==
  ASSUME NEW now \in Int, NEW since \in Int
  PROVE  Elapsed(now, since) \in TickType
BY Wrapped DEF Elapsed

LEMMA Small ==
  ASSUME NEW x \in TickType
  PROVE  x % Ticks = x
<1>1. (Ticks * 0 + x) % Ticks = x
  BY Remainder, Words
<1> QED
  BY <1>1, Words

\* The difference of two ticks is that of the times less than a word apart.
LEMMA ElapsedTime ==
  ASSUME NEW t \in Int, NEW u \in Int
  PROVE  /\ Elapsed(t % Ticks, u % Ticks) = (t - u) % Ticks
         /\ Elapsed(t % Ticks, u) = (t - u) % Ticks
         /\ t - u \in TickType => Elapsed(t % Ticks, u % Ticks) = t - u
<1>1. t % Ticks \in Int /\ u % Ticks \in Int
  BY Wrapped, Words
<1>2. ((t % Ticks) - (u % Ticks)) % Ticks = (t - (u % Ticks)) % Ticks
  BY <1>1, TicksCongruent, Zenon
<1>3. /\ ((t % Ticks) - u) % Ticks = (t - u) % Ticks
      /\ (t - (u % Ticks)) % Ticks = (t - u) % Ticks
  BY <1>1, TicksCongruent, Zenon
<1>4. t - u \in TickType => (t - u) % Ticks = t - u
  BY Small
<1> QED
  BY <1>2, <1>3, <1>4 DEF Elapsed

\* An age grows with time, up to a word.
LEMMA ElapsedLater ==
  ASSUME NEW now \in Int, NEW since \in Int, NEW k \in Nat,
         Elapsed(now, since) + k < Ticks
  PROVE  Elapsed((now + k) % Ticks, since) = Elapsed(now, since) + k
<1> DEFINE age == Elapsed(now, since)
<1>1. age \in TickType
  BY ElapsedType
<1>2. Elapsed((now + k) % Ticks, since) = (now + k - since) % Ticks
  BY ElapsedTime
<1>3. now + k - since = (now - since) + k /\ now - since \in Int
  OBVIOUS
<1>4. (((now - since) % Ticks) + k) % Ticks = ((now - since) + k) % Ticks
  <2>1. now - since \in Int /\ k \in Int
    OBVIOUS
  <2> QED
    BY <2>1, TicksCongruent, Zenon
<1>5. age + k \in TickType
  BY <1>1, Words
<1> QED
  BY <1>2, <1>3, <1>4, <1>5, Small DEF Elapsed

\* What comes of age later is due in the future, when it has come of age.
LEMMA DueWhenOfAge ==
  ASSUME NEW now \in Int, NEW since \in Int, NEW h \in Nat,
         h <= MaxDuration + Elapsed(now, since), Elapsed(now, since) < h
  PROVE  /\ IsFuture(now, (since + h) % Ticks)
         /\ Elapsed((since + h) % Ticks, now) = h - Elapsed(now, since)
<1> DEFINE age == Elapsed(now, since)
<1>1. age \in TickType
  BY ElapsedType
<1>2. Elapsed((since + h) % Ticks, now) = (since + h - now) % Ticks
  BY ElapsedTime
<1>3. since + h - now = h - (now - since) /\ now - since \in Int
  OBVIOUS
<1>4. (h - ((now - since) % Ticks)) % Ticks = (h - (now - since)) % Ticks
  <2>1. now - since \in Int /\ h \in Int
    OBVIOUS
  <2> QED
    BY <2>1, TicksCongruent, Zenon
<1>5. h - age \in TickType /\ h - age \in 1..MaxDuration
  BY <1>1, Words
<1> QED
  BY <1>2, <1>3, <1>4, <1>5, Small DEF Elapsed, IsFuture

-----------------------------------------------------------------------------
(* Least and greatest: what the choices of the decoder choose.             *)

LEMMA Least ==
  ASSUME NEW S \in SUBSET Nat, S # {}
  PROVE  \E m \in S : \A n \in S : m <= n
<1> DEFINE R == OpToRel(<, Nat)
<1>1. IsWellFoundedOn(R, Nat)
  BY NatLessThanWellFounded
<1>2. \A x, y \in Nat : x < y => <<x, y>> \in R
  BY DEF OpToRel
<1> HIDE DEF R
<1>3. \E m \in S : \A n \in S : ~ (<<n, m>> \in R)
  BY <1>1, WFMin
<1>4. PICK m \in S : \A n \in S : <<n, m>> \notin R
  BY <1>3
<1>5. m \in Nat /\ \A n \in S : n \in Nat
  OBVIOUS
<1>6. \A n \in S : ~ (n < m)
  BY <1>2, <1>4, <1>5, Zenon
<1> QED
  BY <1>5, <1>6

LEMMA Greatest ==
  ASSUME NEW bound \in Nat, NEW S \in SUBSET (0..bound), S # {}
  PROVE  \E m \in S : \A n \in S : n <= m
<1> DEFINE Left == {bound - n : n \in S}
<1>0. \A n \in S : bound - n \in Nat
  OBVIOUS
<1>1. Left \in SUBSET Nat /\ Left # {}
  BY <1>0, Zenon
<1>2. PICK l \in Left : \A k \in Left : l <= k
  BY <1>1, Least
<1>3. PICK m \in S : l = bound - m
  BY <1>2
<1>4. \A n \in S : bound - m <= bound - n
  BY <1>2, <1>3
<1> QED
  BY <1>4

\* consider_deadline keeps a candidate that is as near as any.
LEMMA EarliestIsNearest ==
  ASSUME NEW now \in Int, NEW C \in SUBSET TickType
  PROVE  /\ Earliest(now, C) \in TickType \cup {NoTick}
         /\ \A at \in C : IsFuture(now, at) =>
              /\ Earliest(now, C) # NoTick
              /\ Elapsed(Earliest(now, C), now) <= Elapsed(at, now)
<1> DEFINE future == {at \in C : IsFuture(now, at)}
           Nearest(at) == \A other \in future : Elapsed(at, now) <= Elapsed(other, now)
<1>1. ASSUME NEW at \in C
      PROVE  Elapsed(at, now) \in Nat
  <2>1. at \in Int
    BY Words
  <2>2. Elapsed(at, now) \in TickType
    BY <2>1, ElapsedType
  <2> QED
    BY <2>2, Words
<1>2. CASE future = {}
  BY <1>2 DEF Earliest
<1>3. CASE future # {}
  <2> DEFINE waits == {Elapsed(at, now) : at \in future}
  <2>1. waits \in SUBSET Nat /\ waits # {}
    BY <1>1, <1>3
  <2>2. PICK wait \in waits : \A other \in waits : wait <= other
    BY <2>1, Least
  <2>3. PICK at \in future : Elapsed(at, now) = wait
    BY <2>2
  <2>4. Nearest(at)
    BY <2>2, <2>3
  <2>5. Earliest(now, C) = CHOOSE x \in future : Nearest(x)
    BY <1>3 DEF Earliest
  <2> HIDE DEF Nearest
  <2>6. Earliest(now, C) \in future /\ Nearest(Earliest(now, C))
    BY <2>4, <2>5
  <2> QED
    BY <2>6, Words DEF Nearest
<1> QED
  BY <1>2, <1>3

\* The run that evaluate_predicate finds is the longest.
LEMMA RunLengthIsLongest ==
  ASSUME NEW p, NEW edges \in Seq(TickType), edges # <<>>, NEW now \in Int
  PROVE  /\ RunLength(p, edges, now) \in 1..Len(edges)
         /\ IsRun(p, edges, RunLength(p, edges, now), now)
         /\ \A m \in 1..Len(edges) : IsRun(p, edges, m, now) => m <= RunLength(p, edges, now)
<1> DEFINE Runs == {n \in 1..Len(edges) : IsRun(p, edges, n, now)}
           Longest(n) == IsRun(p, edges, n, now)
                         /\ \A m \in DOMAIN edges : IsRun(p, edges, m, now) => m <= n
<1>1. Len(edges) \in Nat /\ Len(edges) >= 1 /\ DOMAIN edges = 1..Len(edges)
  OBVIOUS
<1>2. IsRun(p, edges, 1, now)
  BY <1>1 DEF IsRun
<1>3. Runs \in SUBSET (0..Len(edges)) /\ Runs # {}
  BY <1>1, <1>2
<1>4. PICK n \in Runs : \A m \in Runs : m <= n
  BY <1>1, <1>3, Greatest
<1>5. n \in DOMAIN edges /\ Longest(n)
  BY <1>1, <1>4
<1>6. RunLength(p, edges, now) = CHOOSE x \in DOMAIN edges : Longest(x)
  BY DEF RunLength
<1> HIDE DEF Longest
<1>7. RunLength(p, edges, now) \in DOMAIN edges /\ Longest(RunLength(p, edges, now))
  BY <1>5, <1>6
<1> QED
  BY <1>1, <1>7 DEF Longest

-----------------------------------------------------------------------------
(* The lifecycle of a movement.                                            *)

LEMMA LifecycleTypes ==
  ASSUME NEW r, LifecycleIsValid(r)
  PROVE  /\ r.entry \in 0..MaxDuration /\ r.loss \in 0..MaxDuration /\ r.age \in 0..MaxDuration
         /\ r.entry \in Nat /\ r.loss \in Nat /\ r.age \in Nat
BY Words DEF LifecycleIsValid, Durations

\* A pass with the expression true and with the expression false.
Held(r, m, now)   == Pass(r, m, TRUE, now)
Missed(r, m, now) == Pass(r, m, FALSE, now)

\* What they make of each phase.
LEMMA PassHolding ==
  ASSUME NEW r, NEW m, NEW now
  PROVE  LET next == Held(r, m, now)
             aged == r.age # 0 /\ Elapsed(now, m.matched) >= r.age
         IN /\ m.phase = "Unmatched" /\ r.entry = 0 => next = Match(m, now)
            /\ m.phase = "Unmatched" /\ r.entry # 0 => next = Enter(m, "EntryPending", now)
            /\ m.phase = "EntryPending" /\ Elapsed(now, m.since) >= r.entry => next = Match(m, now)
            /\ m.phase = "EntryPending" /\ ~(Elapsed(now, m.since) >= r.entry) => next = m
            /\ m.phase = "Matched" /\ aged => next = Enter(m, "Expired", now)
            /\ m.phase = "Matched" /\ ~aged => next = m
            /\ m.phase = "LossPending" => next = Regain(m, now)
            /\ m.phase = "Expired" => next = m
<1> DEFINE next == Held(r, m, now)
<1>1. CASE m.phase = "Unmatched"
  BY <1>1 DEF Held, Pass
<1>2. CASE m.phase = "EntryPending"
  <2>1. next = Confirm(r, m, TRUE, now)
    BY <1>2, SMTT(60) DEF Held, Pass
  <2> QED
    BY <2>1, <1>2, SMTT(60) DEF Confirm
<1>3. CASE m.phase = "Matched"
  BY <1>3, SMTT(60) DEF Held, Pass
<1>4. CASE m.phase = "LossPending"
  BY <1>4, SMTT(60) DEF Held, Pass
<1>5. CASE m.phase = "Expired"
  BY <1>5 DEF Held, Pass
<1> QED
  BY <1>1, <1>2, <1>3, <1>4, <1>5

LEMMA PassMissing ==
  ASSUME NEW r, NEW m, NEW now
  PROVE  LET next == Missed(r, m, now)
             aged == r.age # 0 /\ Elapsed(now, m.matched) >= r.age
         IN /\ m.phase = "Unmatched" => next = m
            /\ m.phase = "EntryPending" => next = Enter(m, "Unmatched", now)
            /\ m.phase = "Matched" =>
                 next = IF aged THEN Enter(m, "Expired", now) ELSE Lose(r, m, now)
            /\ m.phase = "LossPending" =>
                 next = IF Elapsed(now, m.since) >= r.loss
                        THEN [Unmatched EXCEPT !.since = now] ELSE m
            /\ m.phase = "Expired" => next = Lose(r, m, now)
<1> DEFINE next == Missed(r, m, now)
<1>1. CASE m.phase = "Unmatched"
  BY <1>1 DEF Missed, Pass
<1>2. CASE m.phase = "EntryPending"
  <2>1. next = Confirm(r, m, FALSE, now)
    BY <1>2, SMTT(60) DEF Missed, Pass
  <2> QED
    BY <2>1, <1>2, SMTT(60) DEF Confirm
<1>3. CASE m.phase = "Matched"
  BY <1>3, SMTT(60) DEF Missed, Pass
<1>4. CASE m.phase = "LossPending"
  BY <1>4, SMTT(60) DEF Missed, Pass
<1>5. CASE m.phase = "Expired"
  BY <1>5 DEF Missed, Pass
<1> QED
  BY <1>1, <1>2, <1>3, <1>4, <1>5, SMTT(60)

\* The phases that the operators of a pass lead to.
LEMMA Entered ==
  ASSUME NEW m \in PhaseRecords, NEW now \in TickType, NEW phase \in Phases
  PROVE  /\ Enter(m, phase, now) \in PhaseRecords
         /\ Enter(m, phase, now).phase = phase /\ Enter(m, phase, now).since = now
BY DEF Enter, PhaseRecords

LEMMA Matching ==
  ASSUME NEW m \in PhaseRecords, NEW now \in TickType
  PROVE  /\ Match(m, now) \in PhaseRecords
         /\ Match(m, now).phase = "Matched" /\ Match(m, now).matched = now
         /\ Regain(m, now) \in PhaseRecords /\ Regain(m, now).phase = "Matched"
BY DEF Match, Regain, Enter, PhaseRecords, Phases

LEMMA Losing ==
  ASSUME NEW m \in PhaseRecords, NEW now \in TickType, NEW r
  PROVE  /\ r.loss = 0 => Lose(r, m, now) = Enter(m, "Unmatched", now)
         /\ r.loss # 0 => Lose(r, m, now) = Enter(m, "LossPending", now)
         /\ Lose(r, m, now) \in PhaseRecords
BY Entered DEF Lose, Phases

LEMMA Lost ==
  ASSUME NEW now \in TickType
  PROVE  /\ [Unmatched EXCEPT !.since = now] \in PhaseRecords
         /\ [Unmatched EXCEPT !.since = now].phase = "Unmatched"
BY Words DEF Unmatched, PhaseRecords, Phases

LEMMA PassTyped ==
  ASSUME NEW r, NEW m \in PhaseRecords, NEW holds, NEW now \in TickType
  PROVE  Pass(r, m, holds, now) \in PhaseRecords
<1>1. Confirm(r, m, holds, now) \in PhaseRecords
  BY Entered, Matching DEF Confirm, Phases
<1> QED
  BY <1>1, Entered, Matching, Losing, Lost DEF Pass, Phases

LEMMA NoAge ==
  ASSUME NEW now \in TickType
  PROVE  Elapsed(now, now) = 0
<1>1. now - now = 0 /\ 0 \in TickType
  BY Words
<1> QED
  BY <1>1, Small DEF Elapsed

\* A second pass finishes what the first one began: a movement that comes back from
\* a loss may be too old, ...
LEMMA HeldSettles ==
  ASSUME NEW r, LifecycleIsValid(r), NEW m \in PhaseRecords, NEW now \in TickType
  PROVE  LET P(n) == Held(r, n, now) IN P(P(P(m))) = P(P(m))
<1> DEFINE P(n) == Held(r, n, now)
           Aged(n) == r.age # 0 /\ Elapsed(now, n.matched) >= r.age
<1>1. r.entry \in Nat /\ r.loss \in Nat /\ r.age \in Nat /\ Elapsed(now, now) = 0
  BY LifecycleTypes, NoAge
<1>2. m.phase \in Phases
  BY DEF PhaseRecords
<1>3. ASSUME NEW n, n.phase = "Matched", ~Aged(n)
      PROVE  P(n) = n
  BY <1>3, PassHolding
<1>4. ASSUME NEW n, n.phase = "Expired"
      PROVE  P(n) = n
  BY <1>4, PassHolding
<1>5. P(Match(m, now)) = Match(m, now)
  <2>1. Match(m, now).phase = "Matched" /\ ~Aged(Match(m, now))
    BY <1>1, Matching
  <2> QED
    BY <2>1, <1>3
<1>6. ASSUME NEW n \in PhaseRecords, n.phase = "Matched"
      PROVE  P(P(n)) = P(n)
  <2>1. CASE ~Aged(n)
    BY <2>1, <1>3, <1>6
  <2>2. CASE Aged(n)
    <3>1. P(n) = Enter(n, "Expired", now)
      BY <2>2, <1>6, PassHolding
    <3>2. Enter(n, "Expired", now).phase = "Expired"
      BY <1>6, Entered DEF Phases
    <3> QED
      BY <3>1, <3>2, <1>4
  <2> QED
    BY <2>1, <2>2
<1>7. CASE m.phase = "Unmatched"
  <2>1. CASE r.entry = 0
    <3>1. P(m) = Match(m, now)
      BY <2>1, <1>7, PassHolding
    <3> QED
      BY <3>1, <1>5
  <2>2. CASE r.entry # 0
    <3> DEFINE n == Enter(m, "EntryPending", now)
    <3>1. P(m) = n
      BY <2>2, <1>7, PassHolding
    <3>2. n.phase = "EntryPending" /\ n.since = now
      BY Entered DEF Phases
    <3>3. ~(Elapsed(now, now) >= r.entry)
      BY <2>2, <1>1
    <3> HIDE DEF n
    <3>4. P(n) = n
      BY <3>2, <3>3, PassHolding
    <3> QED
      BY <3>1, <3>4
  <2> QED
    BY <2>1, <2>2
<1>8. CASE m.phase = "EntryPending"
  <2>1. P(m) = Match(m, now) \/ P(m) = m
    BY <1>8, PassHolding
  <2> QED
    BY <2>1, <1>5
<1>9. CASE m.phase = "Matched"
  <2>1. P(P(m)) = P(m)
    BY <1>6, <1>9
  <2> QED
    BY <2>1
<1>10. CASE m.phase = "LossPending"
  <2>1. P(m) = Regain(m, now)
    BY <1>10, PassHolding
  <2>2. Regain(m, now) \in PhaseRecords /\ Regain(m, now).phase = "Matched"
    BY Matching
  <2>3. P(P(Regain(m, now))) = P(Regain(m, now))
    BY <2>2, <1>6
  <2> QED
    BY <2>1, <2>3
<1>11. CASE m.phase = "Expired"
  <2>1. P(m) = m
    BY <1>11, <1>4
  <2> QED
    BY <2>1
<1> QED
  BY <1>2, <1>7, <1>8, <1>9, <1>10, <1>11 DEF Phases

\* ... and one that is too old may be lost.
LEMMA MissedSettles ==
  ASSUME NEW r, LifecycleIsValid(r), NEW m \in PhaseRecords, NEW now \in TickType
  PROVE  LET P(n) == Missed(r, n, now) IN P(P(P(m))) = P(P(m))
<1> DEFINE P(n) == Missed(r, n, now)
           Aged(n) == r.age # 0 /\ Elapsed(now, n.matched) >= r.age
<1>1. r.entry \in Nat /\ r.loss \in Nat /\ r.age \in Nat /\ Elapsed(now, now) = 0
  BY LifecycleTypes, NoAge
<1>2. m.phase \in Phases
  BY DEF PhaseRecords
<1>3. ASSUME NEW n, n.phase = "Unmatched"
      PROVE  P(n) = n
  BY <1>3, PassMissing
<1>4. ASSUME NEW n \in PhaseRecords
      PROVE  P(Lose(r, n, now)) = Lose(r, n, now)
  <2>1. CASE r.loss = 0
    <3>1. Lose(r, n, now) = Enter(n, "Unmatched", now)
      BY <1>4, <2>1, Losing
    <3>2. Enter(n, "Unmatched", now).phase = "Unmatched"
      BY <1>4, Entered, SMTT(60) DEF Phases
    <3> QED
      BY <3>1, <3>2, <1>3
  <2>2. CASE r.loss # 0
    <3> DEFINE l == Enter(n, "LossPending", now)
    <3>0. Lose(r, n, now) = l
      BY <1>4, <2>2, Losing
    <3>1. l.phase = "LossPending" /\ l.since = now
      BY <1>4, Entered DEF Phases
    <3>2. ~(Elapsed(now, now) >= r.loss)
      BY <2>2, <1>1
    <3> HIDE DEF l
    <3>3. P(l) = l
      BY <3>1, <3>2, PassMissing, SMTT(60)
    <3> QED
      BY <3>0, <3>3
  <2> QED
    BY <2>1, <2>2
<1>5. CASE m.phase = "Unmatched"
  <2>1. P(m) = m
    BY <1>3, <1>5
  <2> QED
    BY <2>1
<1>6. CASE m.phase = "EntryPending"
  <2>1. P(m) = Enter(m, "Unmatched", now)
    BY <1>6, PassMissing
  <2>2. Enter(m, "Unmatched", now).phase = "Unmatched"
    BY Entered DEF Phases
  <2> QED
    BY <2>1, <2>2, <1>3
<1>7. CASE m.phase = "Matched"
  <2>1. CASE Aged(m)
    <3> DEFINE n == Enter(m, "Expired", now)
    <3>1. P(m) = n
      BY <2>1, <1>7, PassMissing
    <3>2. n \in PhaseRecords /\ n.phase = "Expired"
      BY Entered DEF Phases
    <3> HIDE DEF n
    <3>3. P(n) = Lose(r, n, now)
      BY <3>2, PassMissing
    <3>4. P(P(n)) = P(n)
      BY <3>2, <3>3, <1>4
    <3> QED
      BY <3>1, <3>4
  <2>2. CASE ~Aged(m)
    <3>1. P(m) = Lose(r, m, now)
      BY <2>2, <1>7, PassMissing
    <3> QED
      BY <3>1, <1>4
  <2> QED
    BY <2>1, <2>2, SMTT(60)
<1>8. CASE m.phase = "LossPending"
  <2>1. P(m) = [Unmatched EXCEPT !.since = now] \/ P(m) = m
    BY <1>8, PassMissing
  <2>2. P([Unmatched EXCEPT !.since = now]) = [Unmatched EXCEPT !.since = now]
    BY Lost, <1>3
  <2> QED
    BY <2>1, <2>2
<1>9. CASE m.phase = "Expired"
  <2>1. P(m) = Lose(r, m, now)
    BY <1>9, PassMissing
  <2> QED
    BY <2>1, <1>4
<1> QED
  BY <1>2, <1>5, <1>6, <1>7, <1>8, <1>9 DEF Phases

\* The fixed number of passes is sufficient, as the comment in evaluate says: after
\* them no rule of any lifecycle has a phase left to leave.
THEOREM PassesSuffice ==
  ASSUME NEW r, LifecycleIsValid(r), NEW m \in PhaseRecords, NEW holds \in BOOLEAN,
         NEW now \in TickType
  PROVE  /\ Settle(r, m, holds, now) \in PhaseRecords
         /\ Pass(r, Settle(r, m, holds, now), holds, now) = Settle(r, m, holds, now)
<1> DEFINE P(n) == Pass(r, n, holds, now)
<1>1. P(m) \in PhaseRecords
  BY PassTyped
<1>2. P(P(m)) \in PhaseRecords
  BY <1>1, PassTyped
<1>3. P(P(P(m))) = P(P(m))
  <2>1. CASE holds = TRUE
    <3>1. \A n : P(n) = Held(r, n, now)
      BY <2>1, Zenon DEF Held
    <3> QED
      BY <3>1, HeldSettles
  <2>2. CASE holds = FALSE
    <3>1. \A n : P(n) = Missed(r, n, now)
      BY <2>2, Zenon DEF Missed
    <3> QED
      BY <3>1, MissedSettles
  <2> QED
    BY <2>1, <2>2
<1>4. Settle(r, m, holds, now) = P(P(P(P(m))))
  BY DEF Settle
<1>5. Settle(r, m, holds, now) = P(P(m))
  BY <1>3, <1>4, SMTT(60)
<1> QED
  BY <1>2, <1>3, <1>5

\* What is waited for has not come k ms later.
LEMMA NotYet ==
  ASSUME NEW now \in TickType, NEW since \in TickType, NEW h \in 0..MaxDuration, NEW k \in Nat,
         ~(Elapsed(now, since) >= h),
         IsFuture(now, (since + h) % Ticks) => k < Elapsed((since + h) % Ticks, now)
  PROVE  ~(Elapsed((now + k) % Ticks, since) >= h)
<1> DEFINE age == Elapsed(now, since)
<1>1. now \in Int /\ since \in Int /\ h \in Nat
  BY Words
<1>2. age \in TickType
  BY <1>1, ElapsedType
<1>3. age < h /\ h <= MaxDuration + age /\ h < Ticks /\ age \in Nat
  BY <1>1, <1>2, Words
<1>4. IsFuture(now, (since + h) % Ticks) /\ Elapsed((since + h) % Ticks, now) = h - age
  BY <1>1, <1>3, DueWhenOfAge
<1>5. k < h - age
  BY <1>4
<1>6. age + k < Ticks
  BY <1>1, <1>3, <1>5, Words, SMTT(60)
<1>7. Elapsed((now + k) % Ticks, since) = age + k
  BY <1>1, <1>6, ElapsedLater
<1> HIDE DEF age
<1> QED
  BY <1>1, <1>3, <1>5, <1>7

\* What rests rests as long as its expression keeps its value and nothing it waits
\* for has come.
LEMMA HeldRests ==
  ASSUME NEW r, LifecycleIsValid(r), NEW m \in PhaseRecords, NEW now \in TickType, NEW k \in Nat,
         Held(r, m, now) = m,
         \A at \in LifecycleDeadlines(r, m) : IsFuture(now, at) => k < Elapsed(at, now)
  PROVE  Held(r, m, (now + k) % Ticks) = m
<1> DEFINE later == (now + k) % Ticks
<1>1. m.since \in TickType /\ m.matched \in TickType /\ m.phase \in Phases
  BY DEF PhaseRecords
<1>2. r.entry \in 0..MaxDuration /\ r.age \in 0..MaxDuration
  BY LifecycleTypes
<1>3. CASE m.phase = "Unmatched"
  <2>1. Match(m, now).phase # "Unmatched" /\ Enter(m, "EntryPending", now).phase # "Unmatched"
    BY DEF Match, Enter, PhaseRecords
  <2>2. Held(r, m, now) = Match(m, now) \/ Held(r, m, now) = Enter(m, "EntryPending", now)
    BY <1>3, PassHolding
  <2> QED
    BY <2>1, <2>2, <1>3
<1>4. CASE m.phase = "EntryPending"
  <2>1. Match(m, now).phase # "EntryPending"
    BY DEF Match
  <2>2. ~(Elapsed(now, m.since) >= r.entry)
    BY <2>1, <1>4, PassHolding
  <2>3. (m.since + r.entry) % Ticks \in LifecycleDeadlines(r, m)
    BY <1>4 DEF LifecycleDeadlines
  <2>4. ~(Elapsed(later, m.since) >= r.entry)
    BY <2>2, <2>3, <1>1, <1>2, NotYet
  <2> QED
    BY <2>4, <1>4, PassHolding
<1>5. CASE m.phase = "Matched"
  <2>1. Enter(m, "Expired", now).phase # "Matched"
    BY DEF Enter, PhaseRecords
  <2>2. ~(r.age # 0 /\ Elapsed(now, m.matched) >= r.age)
    BY <2>1, <1>5, PassHolding
  <2>3. r.age # 0 => (m.matched + r.age) % Ticks \in LifecycleDeadlines(r, m)
    BY <1>5 DEF LifecycleDeadlines, Claims
  <2>4. ~(r.age # 0 /\ Elapsed(later, m.matched) >= r.age)
    BY <2>2, <2>3, <1>1, <1>2, NotYet
  <2> QED
    BY <2>4, <1>5, PassHolding
<1>6. CASE m.phase = "LossPending"
  <2>1. Regain(m, now).phase # "LossPending"
    BY DEF Regain, Enter, PhaseRecords
  <2> QED
    BY <2>1, <1>6, PassHolding
<1>7. CASE m.phase = "Expired"
  BY <1>7, PassHolding
<1> QED
  BY <1>1, <1>3, <1>4, <1>5, <1>6, <1>7 DEF Phases

LEMMA MissedRests ==
  ASSUME NEW r, LifecycleIsValid(r), NEW m \in PhaseRecords, NEW now \in TickType, NEW k \in Nat,
         Missed(r, m, now) = m,
         \A at \in LifecycleDeadlines(r, m) : IsFuture(now, at) => k < Elapsed(at, now)
  PROVE  Missed(r, m, (now + k) % Ticks) = m
<1> DEFINE later == (now + k) % Ticks
<1>1. m.since \in TickType /\ m.phase \in Phases
  BY DEF PhaseRecords
<1>2. r.loss \in 0..MaxDuration
  BY LifecycleTypes
<1>3. CASE m.phase = "Unmatched"
  BY <1>3, PassMissing
<1>4. CASE m.phase = "EntryPending"
  <2>1. Enter(m, "Unmatched", now).phase # "EntryPending"
    BY DEF Enter, PhaseRecords
  <2> QED
    BY <2>1, <1>4, PassMissing
<1>5. ASSUME m.phase = "Matched" \/ m.phase = "Expired"
      PROVE  Lose(r, m, now).phase # m.phase
  BY <1>5 DEF Lose, Enter, PhaseRecords
<1>6. CASE m.phase = "Matched"
  <2>1. Enter(m, "Expired", now).phase # "Matched"
    BY DEF Enter, PhaseRecords
  <2>2. \/ Missed(r, m, now) = Enter(m, "Expired", now)
        \/ Missed(r, m, now) = Lose(r, m, now)
    BY <1>6, PassMissing
  <2> QED
    BY <2>1, <2>2, <1>5, <1>6
<1>7. CASE m.phase = "LossPending"
  <2>1. [Unmatched EXCEPT !.since = now].phase # "LossPending"
    BY DEF Unmatched
  <2>2. ~(Elapsed(now, m.since) >= r.loss)
    BY <2>1, <1>7, PassMissing
  <2>3. (m.since + r.loss) % Ticks \in LifecycleDeadlines(r, m)
    BY <1>7 DEF LifecycleDeadlines
  <2>4. ~(Elapsed(later, m.since) >= r.loss)
    BY <2>2, <2>3, <1>1, <1>2, NotYet
  <2> QED
    BY <2>4, <1>7, PassMissing
<1>8. CASE m.phase = "Expired"
  BY <1>5, <1>8, PassMissing
<1> QED
  BY <1>1, <1>3, <1>4, <1>6, <1>7, <1>8 DEF Phases

LEMMA RestsUntilDue ==
  ASSUME NEW r, LifecycleIsValid(r), NEW m \in PhaseRecords, NEW holds \in BOOLEAN,
         NEW now \in TickType, NEW k \in Nat,
         Pass(r, m, holds, now) = m,
         \A at \in LifecycleDeadlines(r, m) : IsFuture(now, at) => k < Elapsed(at, now)
  PROVE  /\ Pass(r, m, holds, (now + k) % Ticks) = m
         /\ Settle(r, m, holds, (now + k) % Ticks) = m
<1> DEFINE later == (now + k) % Ticks
<1>1. CASE holds = TRUE
  <2>1. \A t : Pass(r, m, holds, t) = Held(r, m, t)
    BY <1>1, Zenon DEF Held
  <2> QED
    BY <2>1, HeldRests DEF Settle
<1>2. CASE holds = FALSE
  <2>1. \A t : Pass(r, m, holds, t) = Missed(r, m, t)
    BY <1>2, Zenon DEF Missed
  <2> QED
    BY <2>1, MissedRests DEF Settle
<1> QED
  BY <1>1, <1>2

-----------------------------------------------------------------------------
(* Evaluation.                                                             *)

\* The rules whose expression holds, and what an evaluation makes of the phases.
Holding(c, inputs, now) == {r \in EnabledRules(c) : ExpressionHolds(r, inputs, now)}
RuleOf(c, id) == CHOOSE r \in RulesFor(c, "Movement") : r.id = id
Settled(c, s, now) ==
  [id \in DOMAIN s.phases |->
     Settle(RuleOf(c, id), s.phases[id], RuleOf(c, id) \in Holding(c, s.inputs, now), now)]
WaitsOf(r, inputs, now) ==
  UNION {PredicateDeadlines(p, inputs[p.input], now) : p \in Predicates(r)}
EvidenceWaits(c, inputs, now) == UNION {WaitsOf(r, inputs, now) : r \in EnabledRules(c)}
LifecycleWaits(c, phases) ==
  UNION {LifecycleDeadlines(r, phases[r.id]) : r \in RulesFor(c, "Movement")}
Waits(c, inputs, phases, now) == EvidenceWaits(c, inputs, now) \cup LifecycleWaits(c, phases)

LEMMA RuleIsKnown ==
  ASSUME NEW c, Compiles(c), NEW r \in RulesFor(c, "Movement")
  PROVE  /\ RuleOf(c, r.id) = r /\ r.id \in RuleIds(c)
         /\ r \in EnabledRules(c) /\ LifecycleIsValid(r) /\ ValueIsValid(r)
<1>1. \A q \in RulesFor(c, "Movement") : q.id = r.id => q = r
  BY DEF Compiles, RulesFor, EnabledRules, Elements
<1>2. RuleOf(c, r.id) = r
  BY <1>1 DEF RuleOf
<1> QED
  BY <1>2 DEF RuleIds, Compiles, RulesFor

LEMMA IdIsKnown ==
  ASSUME NEW c, Compiles(c), NEW id \in RuleIds(c)
  PROVE  RuleOf(c, id) \in RulesFor(c, "Movement") /\ RuleOf(c, id).id = id
BY DEF RuleOf, RuleIds

LEMMA TheOnlyIsOne ==
  ASSUME NEW S, NEW values, values \subseteq S
  PROVE  TheOnly(values) \in S \cup {"None"}
<1>1. CASE Cardinality(values) = 1
  <2>1. values # {}
    BY <1>1, FS_EmptySet
  <2> QED
    BY <2>1, <1>1 DEF TheOnly
<1>2. CASE Cardinality(values) # 1
  BY <1>2 DEF TheOnly
<1> QED
  BY <1>1, <1>2

LEMMA Arbitrated ==
  ASSUME NEW c, Compiles(c), NEW inputs, NEW phases, NEW holds
  PROVE  Arbitrate(c, inputs, phases, holds) \in Results
<1> DEFINE positions == {r.value : r \in RulesFor(c, "Position") \cap holds}
           movements == {r.value : r \in {q \in RulesFor(c, "Movement") : Claims(phases[q.id])}}
<1>1. \A r \in EnabledRules(c) : ValueIsValid(r)
  BY DEF Compiles
<1>2. positions \subseteq PositionValues /\ movements \subseteq MovementValues
  BY <1>1 DEF RulesFor, ValueIsValid
<1>3. /\ TheOnly(positions) \in PositionValues \cup {"None"}
      /\ TheOnly(movements) \in MovementValues \cup {"None"}
  BY <1>2, TheOnlyIsOne
<1> HIDE DEF positions, movements
<1> DEFINE position  == TheOnly(positions)
           movement  == IF positions = {} THEN TheOnly(movements) ELSE "None"
           expired   == {r \in RulesFor(c, "Movement") : phases[r.id].phase = "Expired"}
           faults    == RulesFor(c, "Fault") \cap holds
           obstructed == position = "None"
                     /\ (faults # {} \/ \E r \in expired : r.expiry \in ObstructingExpiries)
           withdrawn == expired # {}
           health == CASE Cardinality(positions) > 1 -> "AmbiguousPosition"
                       [] Cardinality(movements) > 1 -> "AmbiguousMovement"
                       [] \E i \in DOMAIN inputs : ~inputs[i].valid -> "GatheringEvidence"
                       [] OTHER -> "Healthy"
<1>4. Arbitrate(c, inputs, phases, holds) =
        [position |-> position, movement |-> movement, obstructed |-> obstructed,
         withdrawn |-> withdrawn, health |-> health]
  BY Zenon DEF Arbitrate, positions, movements
<1>5. movement \in MovementValues \cup {"None"}
  BY <1>3
<1>6. health \in Healths
  BY DEF Healths
<1>7. obstructed \in BOOLEAN /\ withdrawn \in BOOLEAN
  BY Zenon
<1> HIDE DEF position, movement, obstructed, withdrawn, health
<1> QED
  BY <1>3, <1>4, <1>5, <1>6, <1>7 DEF Results, position

LEMMA PredicateTypes ==
  ASSUME NEW c, Compiles(c), NEW r \in EnabledRules(c), NEW p \in Predicates(r)
  PROVE  /\ p.input \in Elements(c.inputs)
         /\ p.kind = "StableLevel" => p.hold \in 1..MaxDuration
         /\ p.kind # "StableLevel" =>
              /\ p.min \in 1..MaxDuration /\ p.max \in 1..MaxDuration
              /\ p.window \in 1..MaxDuration /\ p.gap \in 1..MaxDuration
              /\ p.max <= p.gap /\ p.edges \in 2..EdgeCapacity
BY DEF Compiles, PredicateIsValid, StableIsValid, PeriodicIsValid, Positive

\* What is waited for is a tick.
LEMMA PredicateDeadlinesTyped ==
  ASSUME NEW c, Compiles(c), NEW r \in EnabledRules(c), NEW p \in Predicates(r),
         NEW input \in InputRecords, NEW now \in Int
  PROVE  PredicateDeadlines(p, input, now) \subseteq TickType
<1>1. /\ p.kind = "StableLevel" => p.hold \in Int
      /\ p.kind # "StableLevel" => p.window \in Int /\ p.gap \in Int
  BY PredicateTypes, Words
<1>2. CASE p.kind = "StableLevel"
  <2>1. input.since + p.hold \in Int
    BY <1>1, <1>2, Words DEF InputRecords
  <2>2. (input.since + p.hold) % Ticks \in TickType
    BY <2>1, Wrapped
  <2> QED
    BY <2>2, <1>2 DEF PredicateDeadlines
<1>3. CASE p.kind # "StableLevel" /\ PeriodicHolds(p, input, now)
  <2>1. input.edges # <<>> /\ input.edges \in Seq(TickType)
    BY <1>3 DEF PeriodicHolds, InputRecords
  <2>2. RunLength(p, input.edges, now) \in 1..Len(input.edges)
    BY <2>1, RunLengthIsLongest
  <2>3. Newest(input.edges) \in Int /\ RunOldest(p, input.edges, now) \in Int
    BY <2>1, <2>2, Words, SMTT(60) DEF Newest, RunOldest
  <2>4. /\ Newest(input.edges) + p.gap \in Int
        /\ RunOldest(p, input.edges, now) + p.window + 1 \in Int
    BY <2>3, <1>1, <1>3
  <2>5. /\ (Newest(input.edges) + p.gap) % Ticks \in TickType
        /\ (RunOldest(p, input.edges, now) + p.window + 1) % Ticks \in TickType
    BY <2>4, Wrapped
  <2> QED
    BY <2>5, <1>3 DEF PredicateDeadlines
<1>4. CASE p.kind # "StableLevel" /\ ~PeriodicHolds(p, input, now)
  BY <1>4 DEF PredicateDeadlines
<1> QED
  BY <1>2, <1>3, <1>4

LEMMA LifecycleDeadlinesTyped ==
  ASSUME NEW r, LifecycleIsValid(r), NEW m \in PhaseRecords
  PROVE  LifecycleDeadlines(r, m) \subseteq TickType
<1>1. m.since + r.entry \in Int /\ m.matched + r.age \in Int /\ m.since + r.loss \in Int
  BY LifecycleTypes, Words DEF PhaseRecords
<1> QED
  BY <1>1, Wrapped DEF LifecycleDeadlines

LEMMA SettledTyped ==
  ASSUME NEW c, Compiles(c), NEW s \in DecoderStates(c), NEW now \in TickType
  PROVE  /\ Settled(c, s, now) \in [RuleIds(c) -> PhaseRecords]
         /\ \A r \in RulesFor(c, "Movement") :
              Pass(r, Settled(c, s, now)[r.id], r \in Holding(c, s.inputs, now), now)
                = Settled(c, s, now)[r.id]
<1> DEFINE settled == Settled(c, s, now)
<1>1. DOMAIN s.phases = RuleIds(c) /\ \A id \in RuleIds(c) : s.phases[id] \in PhaseRecords
  BY DEF DecoderStates
<1>2. ASSUME NEW r \in RulesFor(c, "Movement")
      PROVE  /\ settled[r.id] \in PhaseRecords
             /\ Pass(r, settled[r.id], r \in Holding(c, s.inputs, now), now) = settled[r.id]
  <2> DEFINE holds == r \in Holding(c, s.inputs, now)
  <2>1. RuleOf(c, r.id) = r /\ r.id \in RuleIds(c) /\ LifecycleIsValid(r)
    BY RuleIsKnown
  <2>2. settled[r.id] = Settle(r, s.phases[r.id], holds, now)
    BY <1>1, <2>1 DEF Settled
  <2>3. holds \in BOOLEAN
    OBVIOUS
  <2>4. s.phases[r.id] \in PhaseRecords
    BY <1>1, <2>1
  <2> HIDE DEF holds
  <2>5. /\ Settle(r, s.phases[r.id], holds, now) \in PhaseRecords
        /\ Pass(r, Settle(r, s.phases[r.id], holds, now), holds, now)
             = Settle(r, s.phases[r.id], holds, now)
    BY <2>1, <2>3, <2>4, PassesSuffice, Zenon
  <2>6. settled[r.id] \in PhaseRecords /\ Pass(r, settled[r.id], holds, now) = settled[r.id]
    BY <2>2, <2>5, Zenon
  <2> QED
    BY <2>6, Zenon DEF holds
<1>3. settled \in [RuleIds(c) -> PhaseRecords]
  <2>1. DOMAIN settled = RuleIds(c)
    BY <1>1 DEF Settled
  <2>2. \A id \in RuleIds(c) : settled[id] \in PhaseRecords
    BY <1>2 DEF RuleIds
  <2>3. settled = [id \in RuleIds(c) |-> settled[id]]
    BY <1>1 DEF Settled
  <2> HIDE DEF settled
  <2> QED
    BY <2>2, <2>3
<1> QED
  BY <1>2, <1>3, Zenon

LEMMA WaitsTyped ==
  ASSUME NEW c, Compiles(c), NEW inputs \in [Elements(c.inputs) -> InputRecords],
         NEW phases \in [RuleIds(c) -> PhaseRecords], NEW now \in Int
  PROVE  Waits(c, inputs, phases, now) \subseteq TickType
<1>1. ASSUME NEW r \in EnabledRules(c), NEW p \in Predicates(r)
      PROVE  PredicateDeadlines(p, inputs[p.input], now) \subseteq TickType
  BY PredicateTypes, PredicateDeadlinesTyped
<1>2. ASSUME NEW r \in RulesFor(c, "Movement")
      PROVE  LifecycleDeadlines(r, phases[r.id]) \subseteq TickType
  BY RuleIsKnown, LifecycleDeadlinesTyped
<1>3. \A r \in EnabledRules(c) : WaitsOf(r, inputs, now) \subseteq TickType
  BY <1>1 DEF WaitsOf
<1>4. EvidenceWaits(c, inputs, now) \subseteq TickType
  BY <1>3 DEF EvidenceWaits
<1>5. LifecycleWaits(c, phases) \subseteq TickType
  BY <1>2 DEF LifecycleWaits
<1> QED
  BY <1>4, <1>5 DEF Waits

LEMMA EvaluateFields ==
  ASSUME NEW c, NEW s \in DecoderStates(c), NEW t
  PROVE  LET e == Evaluate(c, s, t)
             now == t % Ticks
             settled == Settled(c, s, now)
         IN e = [inputs |-> s.inputs, phases |-> settled,
                 result |-> Arbitrate(c, s.inputs, settled, Holding(c, s.inputs, now)),
                 deadline |-> Earliest(now, Waits(c, s.inputs, settled, now)),
                 lastNow |-> now, lastEval |-> t,
                 late |-> s.late \/ (s.deadline # NoTick /\ DueAt(s) < t)]
<1> DEFINE now == t % Ticks
           settled == Settled(c, s, now)
           result == Arbitrate(c, s.inputs, settled, Holding(c, s.inputs, now))
           deadline == Earliest(now, Waits(c, s.inputs, settled, now))
           late == s.late \/ (s.deadline # NoTick /\ DueAt(s) < t)
<1>1. Evaluate(c, s, t) =
        [s EXCEPT !.phases = settled, !.result = result, !.deadline = deadline,
                  !.lastNow = now, !.lastEval = t, !.late = late]
  BY ZenonT(30) DEF Evaluate, Settled, Holding, Waits, EvidenceWaits, LifecycleWaits, WaitsOf, RuleOf
<1> HIDE DEF now, settled, result, deadline, late
<1>2. s = [inputs |-> s.inputs, phases |-> s.phases, result |-> s.result,
           deadline |-> s.deadline, lastNow |-> s.lastNow, lastEval |-> s.lastEval,
           late |-> s.late]
  BY DEF DecoderStates
<1>3. Evaluate(c, s, t) =
        [inputs |-> s.inputs, phases |-> settled, result |-> result,
         deadline |-> deadline, lastNow |-> now, lastEval |-> t, late |-> late]
  BY <1>1, <1>2
<1> QED
  BY <1>3, Zenon DEF now, settled, result, deadline, late

\* An evaluation leaves nothing to be done at its time, and asks for the next one
\* before anything may change by itself.
LEMMA Evaluated ==
  ASSUME NEW c, Compiles(c), NEW s \in DecoderStates(c), NEW t \in Nat
  PROVE  LET e == Evaluate(c, s, t) IN
         /\ e \in DecoderStates(c) /\ e.inputs = s.inputs
         /\ e.lastEval = t /\ e.lastNow = t % Ticks
         /\ Rested(c, e)
<1> DEFINE e == Evaluate(c, s, t)
           now == t % Ticks
           settled == Settled(c, s, now)
           holds == Holding(c, s.inputs, now)
           result == Arbitrate(c, s.inputs, settled, holds)
           waits == Waits(c, s.inputs, settled, now)
           deadline == Earliest(now, waits)
           late == s.late \/ (s.deadline # NoTick /\ DueAt(s) < t)
<1>1. e = [inputs |-> s.inputs, phases |-> settled, result |-> result, deadline |-> deadline,
           lastNow |-> now, lastEval |-> t, late |-> late]
  BY EvaluateFields, Zenon
<1>2. now \in TickType /\ now \in Int
  <2>1. t \in Int
    OBVIOUS
  <2>2. t % Ticks \in TickType
    BY <2>1, Wrapped, Zenon
  <2> QED
    BY <2>2, Words
<1>3. s.inputs \in [Elements(c.inputs) -> InputRecords]
  BY DEF DecoderStates
<1>4. /\ settled \in [RuleIds(c) -> PhaseRecords]
      /\ \A r \in RulesFor(c, "Movement") : Pass(r, settled[r.id], r \in holds, now) = settled[r.id]
  BY <1>2, SettledTyped, Zenon
<1>5. result \in Results
  BY Arbitrated
<1>6. waits \subseteq TickType
  BY <1>2, <1>3, <1>4, WaitsTyped
<1>7. /\ deadline \in TickType \cup {NoTick}
      /\ \A at \in waits : IsFuture(now, at) =>
           deadline # NoTick /\ Elapsed(deadline, now) <= Elapsed(at, now)
  BY <1>2, <1>6, EarliestIsNearest
<1>8. late \in BOOLEAN
  BY Zenon
<1> HIDE DEF e, now, settled, result, deadline, late, waits
<1>9. e \in DecoderStates(c) /\ e.inputs = s.inputs /\ e.lastEval = t /\ e.lastNow = now
  BY <1>1, <1>2, <1>3, <1>4, <1>5, <1>7, <1>8 DEF DecoderStates
<1>10. e.phases = settled /\ e.result = result /\ e.deadline = deadline
  BY <1>1
<1>11. Rested(c, e)
  <2>1. {r \in EnabledRules(c) : ExpressionHolds(r, e.inputs, e.lastNow)} = holds
    BY <1>9 DEF Holding
  <2>2. e.result = Arbitrate(c, e.inputs, e.phases, holds)
    BY <1>9, <1>10 DEF result
  <2>3. ASSUME NEW r \in EnabledRules(c), NEW p \in Predicates(r),
               NEW at \in PredicateDeadlines(p, e.inputs[p.input], e.lastNow)
        PROVE  at \in waits
    <3>1. at \in PredicateDeadlines(p, s.inputs[p.input], now)
      BY <1>9
    <3>2. at \in WaitsOf(r, s.inputs, now)
      BY <3>1 DEF WaitsOf
    <3> QED
      BY <3>2 DEF Waits, waits, EvidenceWaits
  <2>4. ASSUME NEW r \in RulesFor(c, "Movement"),
               NEW at \in LifecycleDeadlines(r, e.phases[r.id])
        PROVE  at \in waits
    <3>1. at \in LifecycleDeadlines(r, settled[r.id])
      BY <1>10
    <3> QED
      BY <3>1 DEF Waits, waits, LifecycleWaits
  <2>5. \A r \in RulesFor(c, "Movement") :
          Pass(r, e.phases[r.id], r \in holds, e.lastNow) = e.phases[r.id]
    BY <1>4, <1>9, <1>10, Zenon
  <2>6. \A at \in waits : IsFuture(e.lastNow, at) =>
           e.deadline # NoTick /\ Elapsed(e.deadline, e.lastNow) <= Elapsed(at, e.lastNow)
    BY <1>7, <1>9, <1>10
  <2> HIDE DEF holds
  <2> QED
    BY <2>1, <2>2, <2>3, <2>4, <2>5, <2>6, Zenon DEF Rested
<1> QED
  BY <1>9, <1>11 DEF e, now

-----------------------------------------------------------------------------
(* A sample is offered to every input and then the decoder is advanced.    *)

SampleRecords(c) == [at : Nat, levels : [Elements(c.inputs) -> BOOLEAN]]

\* What an input is after it was offered its level of a sample.
Noted(input, sample, i) ==
  LET now == sample.at % Ticks IN
  IF ~input.valid
  THEN [NoInput EXCEPT !.valid = TRUE, !.level = sample.levels[i], !.since = now]
  ELSE IF input.level = sample.levels[i]
  THEN input
  ELSE [input EXCEPT !.level = sample.levels[i], !.since = now, !.edges = PushEdge(@, now)]

LEMMA PushEdgeTyped ==
  ASSUME NEW edges \in Seq(TickType), NEW now \in TickType
  PROVE  PushEdge(edges, now) \in Seq(TickType)
<1>1. edges # <<>> => Tail(edges) \in Seq(TickType)
  OBVIOUS
<1>2. Len(edges) < EdgeCapacity \/ edges # <<>>
  BY Words
<1> QED
  BY <1>1, <1>2 DEF PushEdge

LEMMA NotedTyped ==
  ASSUME NEW input \in InputRecords, NEW c, NEW sample \in SampleRecords(c),
         NEW i \in Elements(c.inputs)
  PROVE  Noted(input, sample, i) \in InputRecords /\ Noted(input, sample, i).valid
<1> DEFINE now == sample.at % Ticks
           level == sample.levels[i]
<1>1. sample.at \in Int /\ level \in BOOLEAN
  BY DEF SampleRecords
<1>2. now \in TickType
  BY <1>1, Wrapped, Zenon
<1>3. input.edges \in Seq(TickType)
  BY DEF InputRecords
<1>4. PushEdge(input.edges, now) \in Seq(TickType)
  BY <1>2, <1>3, PushEdgeTyped, Zenon
<1> HIDE DEF now, level
<1>5. CASE ~input.valid
  <2>1. Noted(input, sample, i) = [valid |-> TRUE, level |-> level, since |-> now, edges |-> <<>>]
    BY <1>5 DEF Noted, NoInput, now, level
  <2>2. <<>> \in Seq(TickType)
    OBVIOUS
  <2> QED
    BY <2>1, <2>2, <1>1, <1>2 DEF InputRecords
<1>6. CASE input.valid /\ input.level = level
  <2>1. Noted(input, sample, i) = input
    BY <1>6 DEF Noted, level
  <2> QED
    BY <2>1, <1>6
<1>7. CASE input.valid /\ input.level # level
  <2> DEFINE edges == PushEdge(input.edges, now)
  <2>1. Noted(input, sample, i) = [input EXCEPT !.level = level, !.since = now, !.edges = edges]
    BY <1>7 DEF Noted, now, level
  <2>2. edges \in Seq(TickType)
    BY <1>4
  <2> HIDE DEF edges
  <2> QED
    BY <2>1, <2>2, <1>1, <1>2, <1>7 DEF InputRecords
<1> QED
  BY <1>5, <1>6, <1>7

LEMMA StateTyped ==
  ASSUME NEW c, NEW s \in DecoderStates(c), NEW i \in Elements(c.inputs),
         NEW input \in InputRecords
  PROVE  LET n == [s EXCEPT !.inputs[i] = input] IN
         n \in DecoderStates(c) /\ n.inputs = [s.inputs EXCEPT ![i] = input]
BY DEF DecoderStates

\* One offer, when the time of the sample is accepted.
LEMMA OfferIs ==
  ASSUME NEW s \in DecoderStates(config), NEW sample, NEW i \in Elements(config.inputs),
         Accepts(s, sample.at)
  PROVE  Offer(s, i, sample.levels[i], sample.at)
           = Evaluate(config, [s EXCEPT !.inputs[i] = Noted(s.inputs[i], sample, i)], sample.at)
<1> DEFINE e == Offer(s, i, sample.levels[i], sample.at)
           n == [s EXCEPT !.inputs[i] = Noted(s.inputs[i], sample, i)]
<1>1. CASE ~s.inputs[i].valid
  BY <1>1 DEF Offer, Updates, Initialize, Noted
<1>2. CASE s.inputs[i].valid /\ s.inputs[i].level = sample.levels[i]
  <2>1. n = s
    BY <1>2 DEF Noted, DecoderStates
  <2> QED
    BY <2>1, <1>2 DEF Offer, Updates, Update
<1>3. CASE s.inputs[i].valid /\ s.inputs[i].level # sample.levels[i]
  BY <1>3 DEF Offer, Updates, Update, Noted
<1> QED
  BY <1>1, <1>2, <1>3

LEMMA OfferAccepted ==
  ASSUME Compiles(config), NEW s \in DecoderStates(config),
         NEW sample \in SampleRecords(config), NEW i \in Elements(config.inputs),
         Accepts(s, sample.at)
  PROVE  LET e == Offer(s, i, sample.levels[i], sample.at) IN
         /\ e \in DecoderStates(config) /\ Rested(config, e)
         /\ e.lastEval = sample.at /\ e.lastNow = sample.at % Ticks
         /\ e.inputs = [s.inputs EXCEPT ![i] = Noted(s.inputs[i], sample, i)]
<1> DEFINE e == Offer(s, i, sample.levels[i], sample.at)
           input == Noted(s.inputs[i], sample, i)
           n == [s EXCEPT !.inputs[i] = input]
<1>1. s.inputs[i] \in InputRecords /\ sample.at \in Nat
  BY DEF DecoderStates, SampleRecords
<1>2. input \in InputRecords
  BY <1>1, NotedTyped
<1>3. n \in DecoderStates(config) /\ n.inputs = [s.inputs EXCEPT ![i] = input]
  BY <1>2, StateTyped
<1>4. e = Evaluate(config, n, sample.at)
  BY OfferIs
<1> HIDE DEF n, input, e
<1>5. LET f == Evaluate(config, n, sample.at) IN
         /\ f \in DecoderStates(config) /\ f.inputs = n.inputs
         /\ f.lastEval = sample.at /\ f.lastNow = sample.at % Ticks
         /\ Rested(config, f)
  BY <1>1, <1>3, Evaluated
<1> QED
  BY <1>3, <1>4, <1>5 DEF input, e

LEMMA OfferRefused ==
  ASSUME NEW s, NEW sample, NEW i, ~Accepts(s, sample.at)
  PROVE  Offer(s, i, sample.levels[i], sample.at) = s
BY DEF Offer, Updates, Initialize

\* The offers of one sample, as Consume makes them, one after the other.
Offered(n, s, sample) ==
  IF n \in DOMAIN config.inputs
  THEN Offer(s, config.inputs[n], sample.levels[config.inputs[n]], sample.at)
  ELSE s
AllOffered(s, sample) ==
  Offered(4, Offered(3, Offered(2, Offered(1, s, sample), sample), sample), sample)

LEMMA AcceptsAgain ==
  ASSUME NEW s, NEW t \in Nat, s.lastNow = t % Ticks
  PROVE  Accepts(s, t)
<1>1. t % Ticks \in TickType
  BY Wrapped
<1>2. Elapsed(t % Ticks, t % Ticks) = 0
  BY <1>1, NoAge
<1> QED
  BY <1>2, Words DEF Accepts

\* The inputs with an index up to n have been offered their levels.
OfferedUpTo(n, s, e, sample) ==
  /\ e \in DecoderStates(config) /\ Rested(config, e)
  /\ e.lastEval = sample.at /\ e.lastNow = sample.at % Ticks
  /\ \A i \in Elements(config.inputs) :
       e.inputs[i] = IF \E k \in 1..n : k \in DOMAIN config.inputs /\ config.inputs[k] = i
                     THEN Noted(s.inputs[i], sample, i) ELSE s.inputs[i]

LEMMA FirstOffer ==
  ASSUME Compiles(config), NEW s \in DecoderStates(config),
         NEW sample \in SampleRecords(config), Accepts(s, sample.at)
  PROVE  OfferedUpTo(1, s, Offered(1, s, sample), sample)
<1> DEFINE i == config.inputs[1]
           e == Offer(s, i, sample.levels[i], sample.at)
<1>1. 1 \in DOMAIN config.inputs /\ i \in Elements(config.inputs)
  BY DEF Compiles, Elements
<1>2. /\ e \in DecoderStates(config) /\ Rested(config, e)
      /\ e.lastEval = sample.at /\ e.lastNow = sample.at % Ticks
      /\ e.inputs = [s.inputs EXCEPT ![i] = Noted(s.inputs[i], sample, i)]
  BY <1>1, OfferAccepted
<1>3. Offered(1, s, sample) = e
  BY <1>1 DEF Offered
<1>4. DOMAIN s.inputs = Elements(config.inputs)
  BY DEF DecoderStates
<1>5. \A j \in Elements(config.inputs) :
        e.inputs[j] = IF j = i THEN Noted(s.inputs[j], sample, j) ELSE s.inputs[j]
  BY <1>2, <1>4
<1>6. \A j : (\E k \in 1..1 : k \in DOMAIN config.inputs /\ config.inputs[k] = j) <=> j = i
  BY <1>1
<1> HIDE DEF e, i
<1> QED
  BY <1>2, <1>3, <1>5, <1>6 DEF OfferedUpTo

LEMMA NextOffer ==
  ASSUME Compiles(config), NEW s \in DecoderStates(config),
         NEW sample \in SampleRecords(config), NEW e, NEW n \in 1..3,
         OfferedUpTo(n, s, e, sample)
  PROVE  OfferedUpTo(n + 1, s, Offered(n + 1, e, sample), sample)
<1>1. e \in DecoderStates(config) /\ Accepts(e, sample.at) /\ e.lastEval = sample.at
  <2>1. sample.at \in Nat /\ e.lastNow = sample.at % Ticks
    BY DEF SampleRecords, OfferedUpTo
  <2> QED
    BY <2>1, AcceptsAgain DEF OfferedUpTo
<1>2. DOMAIN config.inputs = 1..Len(config.inputs)
  BY DEF Compiles
<1>3. CASE n + 1 \in DOMAIN config.inputs
  <2> DEFINE i == config.inputs[n + 1]
             f == Offer(e, i, sample.levels[i], sample.at)
             Done(j) == \E k \in 1..n : k \in DOMAIN config.inputs /\ config.inputs[k] = j
             Now1(j) == \E k \in 1..(n + 1) : k \in DOMAIN config.inputs /\ config.inputs[k] = j
  <2>1. i \in Elements(config.inputs)
    BY <1>3 DEF Elements
  <2>2. /\ f \in DecoderStates(config) /\ Rested(config, f)
        /\ f.lastEval = sample.at /\ f.lastNow = sample.at % Ticks
        /\ f.inputs = [e.inputs EXCEPT ![i] = Noted(e.inputs[i], sample, i)]
    BY <1>1, <2>1, OfferAccepted
  <2>3. Offered(n + 1, e, sample) = f
    BY <1>3 DEF Offered
  <2>4. DOMAIN e.inputs = Elements(config.inputs)
    BY <1>1 DEF DecoderStates
  <2>5. ~Done(i)
    <3>1. \A k \in 1..n : k \in DOMAIN config.inputs => config.inputs[k] # config.inputs[n + 1]
      BY <1>3 DEF Compiles
    <3> QED
      BY <3>1
  <2>6. \A j : Now1(j) <=> Done(j) \/ j = i
    BY <1>3
  <2>7. \A j \in Elements(config.inputs) :
          e.inputs[j] = IF Done(j) THEN Noted(s.inputs[j], sample, j) ELSE s.inputs[j]
    BY DEF OfferedUpTo
  <2>8. \A j \in Elements(config.inputs) :
          f.inputs[j] = IF j = i THEN Noted(e.inputs[j], sample, j) ELSE e.inputs[j]
    BY <2>2, <2>4
  <2> HIDE DEF f, i, Done, Now1
  <2>9. \A j \in Elements(config.inputs) :
          f.inputs[j] = IF Now1(j) THEN Noted(s.inputs[j], sample, j) ELSE s.inputs[j]
    BY <2>5, <2>6, <2>7, <2>8, <2>1
  <2> QED
    BY <2>2, <2>3, <2>9 DEF OfferedUpTo, Now1
<1>4. CASE n + 1 \notin DOMAIN config.inputs
  <2>1. Offered(n + 1, e, sample) = e
    BY <1>4 DEF Offered
  <2>2. \A j : (\E k \in 1..(n + 1) : k \in DOMAIN config.inputs /\ config.inputs[k] = j)
                 <=> (\E k \in 1..n : k \in DOMAIN config.inputs /\ config.inputs[k] = j)
    BY <1>4
  <2> QED
    BY <2>1, <2>2 DEF OfferedUpTo
<1> QED
  BY <1>3, <1>4

\* A sample whose time is accepted reaches every input ...
LEMMA SampleAccepted ==
  ASSUME Compiles(config), NEW s \in DecoderStates(config),
         NEW sample \in SampleRecords(config), Accepts(s, sample.at)
  PROVE  LET e == AllOffered(s, sample) IN
         /\ e \in DecoderStates(config) /\ Rested(config, e)
         /\ e.lastEval = sample.at /\ e.lastNow = sample.at % Ticks
         /\ \A i \in Elements(config.inputs) : e.inputs[i] = Noted(s.inputs[i], sample, i)
<1> DEFINE e1 == Offered(1, s, sample)
           e2 == Offered(2, e1, sample)
           e3 == Offered(3, e2, sample)
           e == Offered(4, e3, sample)
<1>1. OfferedUpTo(1, s, e1, sample)
  BY FirstOffer
<1> HIDE DEF e1
<1>2. OfferedUpTo(2, s, e2, sample)
  BY <1>1, NextOffer
<1> HIDE DEF e2
<1>3. OfferedUpTo(3, s, e3, sample)
  BY <1>2, NextOffer
<1> HIDE DEF e3
<1>4. OfferedUpTo(4, s, e, sample)
  BY <1>3, NextOffer
<1> HIDE DEF e
<1>5. \A i \in Elements(config.inputs) :
        \E k \in 1..4 : k \in DOMAIN config.inputs /\ config.inputs[k] = i
  BY DEF Compiles, Elements, MaxInputs
<1>6. AllOffered(s, sample) = e
  BY DEF AllOffered, e, e3, e2, e1
<1> QED
  BY <1>4, <1>5, <1>6 DEF OfferedUpTo

\* ... and one whose time is refused reaches none.
LEMMA SampleRefused ==
  ASSUME NEW s, NEW sample, ~Accepts(s, sample.at)
  PROVE  AllOffered(s, sample) = s
<1>1. \A n : Offered(n, s, sample) = s
  BY OfferRefused DEF Offered
<1> QED
  BY <1>1 DEF AllOffered

\* After it the decoder is advanced to the present.
LEMMA Advanced ==
  ASSUME Compiles(config), NEW s \in DecoderStates(config), NEW t \in Nat,
         \/ s.lastNow = NoTick
         \/ s.lastNow = s.lastEval % Ticks /\ t - s.lastEval \in 0..(Half - 1)
  PROVE  LET e == Advance(config, s, t) IN
         /\ e \in DecoderStates(config) /\ e.inputs = s.inputs
         /\ e.lastEval = t /\ e.lastNow = t % Ticks
         /\ Rested(config, e)
<1>1. Accepts(s, t)
  <2>1. ASSUME s.lastNow = s.lastEval % Ticks, t - s.lastEval \in 0..(Half - 1)
        PROVE  Elapsed(t % Ticks, s.lastNow) < Half
    <3>1. t \in Int /\ s.lastEval \in Int /\ t - s.lastEval \in TickType
      BY <2>1, Words DEF DecoderStates
    <3>2. Elapsed(t % Ticks, s.lastEval % Ticks) = t - s.lastEval
      BY <3>1, ElapsedTime
    <3> QED
      BY <3>2, <2>1, Words
  <2> QED
    BY <2>1 DEF Accepts
<1>2. Advance(config, s, t) = Evaluate(config, s, t)
  BY <1>1 DEF Advance
<1> QED
  BY <1>2, Evaluated

-----------------------------------------------------------------------------
(* How the story of an input grows with a sample.                          *)

LEMMA CountedGrows ==
  ASSUME NEW m \in Nat, NEW S \in SUBSET (1..m), Counted(S)
  PROVE  LET T == S \cup {m + 1} IN
         /\ Cardinality(S) \in Nat /\ Cardinality(T) = Cardinality(S) + 1 /\ Counted(T)
         /\ \A n \in 1..Cardinality(S) : Nth(T, n) = Nth(S, n) /\ Nth(S, n) \in S
         /\ Nth(T, Cardinality(S) + 1) = m + 1
<1> DEFINE T == S \cup {m + 1}
           N == Cardinality(S)
<1>1. IsFiniteSet(S) /\ N \in Nat
  <2>1. IsFiniteSet(1..m)
    BY FS_Interval
  <2> QED
    BY <2>1, FS_Subset, FS_CardinalityType
<1>2. m + 1 \notin S
  OBVIOUS
<1>3. IsFiniteSet(T) /\ Cardinality(T) = N + 1
  BY <1>1, <1>2, FS_AddElement
<1>4. ASSUME NEW k \in S
      PROVE  Rank(T, k) = Rank(S, k) /\ Rank(S, k) <= N
  <2>1. {l \in T : l <= k} = {l \in S : l <= k}
    OBVIOUS
  <2>2. {l \in S : l <= k} \subseteq S
    OBVIOUS
  <2>3. Cardinality({l \in S : l <= k}) <= N
    BY <1>1, <2>2, FS_Subset
  <2> QED
    BY <2>1, <2>3 DEF Rank
<1>5. Rank(T, m + 1) = N + 1
  <2>1. \A l \in T : l <= m + 1
    <3>1. \A l \in S : l \in Nat /\ l <= m
      OBVIOUS
    <3> QED
      BY <3>1
  <2>2. {l \in T : l <= m + 1} = T
    BY <2>1
  <2> QED
    BY <2>2, <1>3 DEF Rank
<1> HIDE DEF T, N
<1>6. T = S \cup {m + 1}
  BY DEF T
<1>7. ASSUME NEW n \in 1..N
      PROVE  Nth(T, n) = Nth(S, n) /\ Nth(S, n) \in S /\ Rank(S, Nth(S, n)) = n
  <2>0. n # N + 1
    BY <1>1
  <2>1. ASSUME NEW k
        PROVE  (k \in T /\ Rank(T, k) = n) <=> (k \in S /\ Rank(S, k) = n)
    <3>1. CASE k \in S
      BY <3>1, <1>4, <1>6
    <3>2. CASE k = m + 1
      BY <3>2, <2>0, <1>2, <1>5
    <3> QED
      BY <3>1, <3>2, <1>6
  <2>2. Nth(T, n) = Nth(S, n)
    BY <2>1 DEF Nth
  <2>3. \E k \in S : Rank(S, k) = n
    BY DEF Counted, N
  <2> QED
    BY <2>2, <2>3 DEF Nth
<1>8. Nth(T, N + 1) = m + 1
  <2>1. \A k \in T : Rank(T, k) = N + 1 <=> k = m + 1
    BY <1>1, <1>4, <1>5, <1>6
  <2> QED
    BY <2>1, <1>6 DEF Nth
<1>9. Counted(T)
  <2> SUFFICES ASSUME NEW n \in 1..(N + 1)
               PROVE  \E k \in T : Rank(T, k) = n
    BY <1>3 DEF Counted
  <2>1. CASE n = N + 1
    BY <2>1, <1>5, <1>6
  <2>2. CASE n \in 1..N
    BY <2>2, <1>4, <1>6, <1>7
  <2> QED
    BY <1>1, <2>1, <2>2
<1> QED
  BY <1>1, <1>3, <1>6, <1>7, <1>8, <1>9 DEF N

\* Samples of any levels, at any times.
StoryRecords == [at : Nat, levels : [Elements(config.inputs) -> BOOLEAN]]

LEMMA ChangesGrow ==
  ASSUME NEW story \in Seq(StoryRecords), NEW sample \in StoryRecords,
         NEW i \in Elements(config.inputs)
  PROVE  LET C == ChangesIn(i, story)
             D == ChangesIn(i, Append(story, sample))
         IN /\ C \in SUBSET (1..Len(story))
            /\ story = <<>> => D = {}
            /\ story # <<>> /\ sample.levels[i] = Newest(story).levels[i] => D = C
            /\ story # <<>> /\ sample.levels[i] # Newest(story).levels[i] =>
                 D = C \cup {Len(story) + 1}
<1> DEFINE C == ChangesIn(i, story)
           longer == Append(story, sample)
           D == ChangesIn(i, longer)
           m == Len(story)
<1>1. /\ m \in Nat /\ DOMAIN story = 1..m /\ DOMAIN longer = 1..(m + 1)
      /\ \A k \in 1..m : longer[k] = story[k]
      /\ longer[m + 1] = sample
  OBVIOUS
<1> HIDE DEF longer, m
<1>2. \A k \in 1..m : k \in D <=> k \in C
  BY <1>1 DEF ChangesIn
<1>3. m + 1 \in D <=> m > 0 /\ sample.levels[i] # story[m].levels[i]
  BY <1>1 DEF ChangesIn
<1>4. C \in SUBSET (1..m) /\ D \in SUBSET (1..(m + 1))
  BY <1>1 DEF ChangesIn
<1>5. Newest(story) = story[m] /\ (story = <<>> <=> m = 0)
  BY DEF Newest, m
<1> HIDE DEF C, D
<1>6. m + 1 \in D => D = C \cup {m + 1}
  <2>1. \A k : k \in D => k \in 1..m \/ k = m + 1
    BY <1>1, <1>4
  <2>2. m + 1 \in D => \A k : k \in D <=> k \in C \/ k = m + 1
    BY <1>2, <1>4, <2>1, Zenon
  <2> QED
    BY <2>2
<1>7. m + 1 \notin D => D = C
  <2>1. \A k : k \in D => k \in 1..m \/ k = m + 1
    BY <1>1, <1>4
  <2>2. m + 1 \notin D => \A k : k \in D <=> k \in C
    BY <1>2, <1>4, <2>1, Zenon
  <2> QED
    BY <2>2
<1> QED
  BY <1>1, <1>3, <1>4, <1>5, <1>6, <1>7 DEF C, D, longer, m

\* A sample of another level adds an edge at its time, any other none.
LEMMA EdgesGrow ==
  ASSUME NEW story \in Seq(StoryRecords), NEW sample \in StoryRecords,
         NEW i \in Elements(config.inputs),
         story # <<>> => Counted(ChangesIn(i, story)) /\ EdgesIn(i, story) \in Seq(Nat)
  PROVE  LET edges == EdgesIn(i, story)
             more == EdgesIn(i, Append(story, sample))
         IN /\ more \in Seq(Nat) /\ Counted(ChangesIn(i, Append(story, sample)))
            /\ story = <<>> => more = <<>>
            /\ story # <<>> /\ sample.levels[i] = Newest(story).levels[i] => more = edges
            /\ story # <<>> /\ sample.levels[i] # Newest(story).levels[i] =>
                 more = Append(edges, sample.at)
<1> DEFINE C == ChangesIn(i, story)
           longer == Append(story, sample)
           D == ChangesIn(i, longer)
           m == Len(story)
           edges == EdgesIn(i, story)
           more == EdgesIn(i, longer)
<1>1. /\ m \in Nat /\ DOMAIN story = 1..m /\ DOMAIN longer = 1..(m + 1)
      /\ \A k \in 1..m : longer[k] = story[k]
      /\ longer[m + 1] = sample
  OBVIOUS
<1>2. /\ C \in SUBSET (1..m)
      /\ story = <<>> => D = {}
      /\ story # <<>> /\ sample.levels[i] = Newest(story).levels[i] => D = C
      /\ story # <<>> /\ sample.levels[i] # Newest(story).levels[i] => D = C \cup {m + 1}
  BY ChangesGrow
<1>3. /\ edges = [n \in 1..Cardinality(C) |-> story[Nth(C, n)].at]
      /\ more = [n \in 1..Cardinality(D) |-> longer[Nth(D, n)].at]
  BY Zenon DEF EdgesIn
<1> HIDE DEF C, D, longer, m, edges, more
<1>4. CASE story = <<>>
  <2>1. Cardinality(D) = 0
    BY <1>2, <1>4, FS_EmptySet
  <2>2. more = <<>> /\ Counted(D)
    BY <1>3, <2>1 DEF Counted
  <2> QED
    BY <1>4, <2>2 DEF more, D, longer
<1>5. CASE story # <<>> /\ sample.levels[i] = Newest(story).levels[i]
  <2>1. D = C /\ Counted(C) /\ edges \in Seq(Nat)
    BY <1>2, <1>5 DEF C, edges
  <2>2. \A n \in 1..Cardinality(C) : Nth(C, n) \in C
    BY <2>1 DEF Counted, Nth
  <2>3. \A n \in 1..Cardinality(C) : longer[Nth(C, n)].at = story[Nth(C, n)].at
    BY <1>1, <1>2, <2>2
  <2>4. more = edges
    BY <1>3, <2>1, <2>3
  <2> QED
    BY <1>5, <2>1, <2>4 DEF more, D, longer, edges
<1>6. CASE story # <<>> /\ sample.levels[i] # Newest(story).levels[i]
  <2>1. D = C \cup {m + 1} /\ Counted(C) /\ edges \in Seq(Nat)
    BY <1>2, <1>6 DEF C, edges
  <2>2. /\ Cardinality(C) \in Nat /\ Cardinality(D) = Cardinality(C) + 1 /\ Counted(D)
        /\ \A n \in 1..Cardinality(C) : Nth(D, n) = Nth(C, n) /\ Nth(C, n) \in C
        /\ Nth(D, Cardinality(C) + 1) = m + 1
    BY <1>1, <1>2, <2>1, CountedGrows
  <2> DEFINE N == Cardinality(C)
  <2>3. \A n \in 1..N : longer[Nth(D, n)].at = story[Nth(C, n)].at
    BY <1>1, <1>2, <2>2
  <2>4. longer[Nth(D, N + 1)].at = sample.at
    BY <1>1, <2>2
  <2>5. N \in Nat /\ Len(edges) = N /\ \A n \in 1..N : edges[n] = story[Nth(C, n)].at
    BY <1>3, <2>1, <2>2
  <2>6. more = [n \in 1..(N + 1) |-> longer[Nth(D, n)].at]
    BY <1>3, <2>2
  <2> HIDE DEF N
  <2>7. Append(edges, sample.at) = [n \in 1..(N + 1) |-> IF n <= N THEN edges[n] ELSE sample.at]
    BY <2>1, <2>5
  <2>8. more = Append(edges, sample.at)
    <3>1. \A n \in 1..(N + 1) :
            longer[Nth(D, n)].at = IF n <= N THEN edges[n] ELSE sample.at
      BY <2>3, <2>4, <2>5
    <3> QED
      BY <2>6, <2>7, <3>1
  <2>9. sample.at \in Nat
    BY DEF StoryRecords
  <2>10. more \in Seq(Nat)
    BY <2>1, <2>8, <2>9
  <2> QED
    BY <1>6, <2>2, <2>8, <2>10 DEF more, D, longer, edges
<1> QED
  BY <1>4, <1>5, <1>6 DEF more, D, longer, edges

\* The present level of an input, and the sample it came with.
Steady(i, story) ==
  {k \in DOMAIN story : \A l \in k..Len(story) : story[l].levels[i] = story[k].levels[i]}
LastChange(i, story) ==
  story[CHOOSE k \in Steady(i, story) : \A l \in Steady(i, story) : k <= l].at

LEMMA LastChangeIs ==
  ASSUME NEW story \in Seq(StoryRecords), story # <<>>, NEW i \in Elements(config.inputs)
  PROVE  \E k \in 1..Len(story) :
           /\ LastChange(i, story) = story[k].at
           /\ \A l \in k..Len(story) : story[l].levels[i] = story[k].levels[i]
           /\ k \in Steady(i, story) /\ \A l \in Steady(i, story) : k <= l
<1> DEFINE S == Steady(i, story)
           First(k) == \A l \in S : k <= l
<1>1. DOMAIN story = 1..Len(story) /\ Len(story) \in Nat /\ Len(story) >= 1
  OBVIOUS
<1>2. Len(story) \in S
  BY <1>1 DEF Steady
<1>3. S \in SUBSET Nat /\ S # {}
  BY <1>1, <1>2 DEF Steady
<1>4. \E k \in S : First(k)
  BY <1>3, Least
<1>5. LastChange(i, story) = story[CHOOSE k \in S : First(k)].at
  BY DEF LastChange
<1> HIDE DEF S, First
<1>6. PICK k \in S : First(k) /\ LastChange(i, story) = story[k].at
  BY <1>4, <1>5
<1> QED
  BY <1>1, <1>6 DEF S, First, Steady

LEMMA LastChangeOne ==
  ASSUME NEW story \in Seq(StoryRecords), NEW i \in Elements(config.inputs), NEW k \in Steady(i, story),
         \A l \in Steady(i, story) : k <= l
  PROVE  LastChange(i, story) = story[k].at
<1> DEFINE S == Steady(i, story)
<1>1. S \in SUBSET Nat
  BY DEF Steady
<1>2. \A j \in S : (\A l \in S : j <= l) => j = k
  BY <1>1
<1> QED
  BY <1>2 DEF LastChange

LEMMA LastChangeGrows ==
  ASSUME NEW story \in Seq(StoryRecords), NEW sample \in StoryRecords,
         NEW i \in Elements(config.inputs)
  PROVE  LET longer == Append(story, sample) IN
         IF story # <<>> /\ sample.levels[i] = Newest(story).levels[i]
         THEN LastChange(i, longer) = LastChange(i, story)
         ELSE LastChange(i, longer) = sample.at
<1> DEFINE longer == Append(story, sample)
           m == Len(story)
<1>0. longer \in Seq(StoryRecords)
  OBVIOUS
<1>1. /\ m \in Nat /\ DOMAIN story = 1..m /\ DOMAIN longer = 1..(m + 1) /\ Len(longer) = m + 1
      /\ \A k \in 1..m : longer[k] = story[k]
      /\ longer[m + 1] = sample
  OBVIOUS
<1>2. Newest(story) = story[m] /\ (story = <<>> <=> m = 0)
  BY DEF Newest
<1> HIDE DEF longer, m
<1>3. m + 1 \in Steady(i, longer)
  BY <1>1 DEF Steady
<1>4. CASE story # <<>> /\ sample.levels[i] = Newest(story).levels[i]
  <2>1. PICK k \in 1..m :
           /\ LastChange(i, story) = story[k].at
           /\ \A l \in k..m : story[l].levels[i] = story[k].levels[i]
           /\ k \in Steady(i, story) /\ \A l \in Steady(i, story) : k <= l
    BY <1>4, LastChangeIs DEF m
  <2>2. m \in k..m
    BY <1>1
  <2>3. sample.levels[i] = story[k].levels[i]
    BY <2>1, <2>2, <1>2, <1>4
  <2>4. k \in Steady(i, longer)
    <3>1. k \in 1..(m + 1) /\ longer[k] = story[k]
      BY <2>1, <1>1
    <3>2. ASSUME NEW l \in k..(m + 1)
          PROVE  longer[l].levels[i] = longer[k].levels[i]
      <4>1. CASE l = m + 1
        BY <4>1, <3>1, <2>3, <1>1
      <4>2. CASE l \in k..m
        BY <4>2, <3>1, <2>1, <1>1
      <4> QED
        BY <4>1, <4>2, <1>1
    <3> QED
      BY <3>1, <3>2, <1>1 DEF Steady
  <2>5. ASSUME NEW l \in Steady(i, longer)
        PROVE  k <= l
    <3>1. CASE l = m + 1
      BY <3>1, <1>1
    <3>2. CASE l \in 1..m
      <4>1. \A j \in l..m : longer[j].levels[i] = longer[l].levels[i]
        BY <3>2, <1>1 DEF Steady
      <4>2. l \in Steady(i, story)
        BY <4>1, <3>2, <1>1 DEF Steady, m
      <4> QED
        BY <4>2, <2>1
    <3>3. l \in 1..(m + 1)
      BY <1>1 DEF Steady
    <3> QED
      BY <3>1, <3>2, <3>3, <1>1
  <2>6. LastChange(i, longer) = longer[k].at
    BY <1>0, <2>4, <2>5, LastChangeOne
  <2> QED
    BY <2>1, <2>6, <1>1, <1>4 DEF longer
<1>5. CASE ~(story # <<>> /\ sample.levels[i] = Newest(story).levels[i])
  <2>1. ASSUME NEW l \in Steady(i, longer)
        PROVE  m + 1 <= l
    <3>1. l \in 1..(m + 1) /\ \A j \in l..(m + 1) : longer[j].levels[i] = longer[l].levels[i]
      BY <1>1 DEF Steady
    <3>2. CASE l \in 1..m
      <4>1. m \in l..(m + 1) /\ m + 1 \in l..(m + 1)
        BY <3>2, <1>1
      <4>2. longer[m].levels[i] = longer[m + 1].levels[i]
        BY <3>1, <4>1
      <4>3. m \in 1..m
        BY <3>2, <1>1
      <4> QED
        BY <4>2, <4>3, <3>2, <1>1, <1>2, <1>5
    <3> QED
      BY <3>1, <3>2, <1>1
  <2>2. LastChange(i, longer) = longer[m + 1].at
    BY <1>0, <1>3, <2>1, LastChangeOne
  <2> QED
    BY <2>2, <1>1, <1>5 DEF longer
<1> QED
  BY <1>4, <1>5

\* InputOK, of any input record and any story.
InputMeans(input, story, i) ==
  LET edges   == EdgesIn(i, story)
      dropped == Len(edges) - Len(input.edges)
  IN /\ input.valid = (story # <<>>)
     /\ edges \in Seq(Nat) /\ Counted(ChangesIn(i, story))
     /\ Len(input.edges) = IF Len(edges) < EdgeCapacity THEN Len(edges) ELSE EdgeCapacity
     /\ \A n \in DOMAIN input.edges : input.edges[n] = edges[dropped + n] % Ticks
     /\ \A n \in 1..(Len(edges) - 1) : edges[n + 1] - edges[n] \in 1..(Ticks - 1)
     /\ edges # <<>> => Newest(edges) = LastChange(i, story)
     /\ story # <<>> =>
          input.level = Newest(story).levels[i] /\ input.since = LastChange(i, story) % Ticks

\* What the ring holds after an edge is pushed.
LEMMA RingGrows ==
  ASSUME NEW ring \in Seq(TickType), NEW edges \in Seq(Nat), NEW at \in Nat,
         Len(ring) = IF Len(edges) < EdgeCapacity THEN Len(edges) ELSE EdgeCapacity,
         \A n \in DOMAIN ring : ring[n] = edges[Len(edges) - Len(ring) + n] % Ticks
  PROVE  LET longer == PushEdge(ring, at % Ticks)
             more   == Append(edges, at)
         IN /\ Len(longer) = IF Len(more) < EdgeCapacity THEN Len(more) ELSE EdgeCapacity
            /\ \A n \in DOMAIN longer : longer[n] = more[Len(more) - Len(longer) + n] % Ticks
<1> DEFINE now == at % Ticks
           more == Append(edges, at)
           e == Len(edges)
           r == Len(ring)
<1>1. /\ e \in Nat /\ r \in Nat /\ DOMAIN ring = 1..r /\ Len(more) = e + 1
      /\ EdgeCapacity \in Nat /\ EdgeCapacity > 0
      /\ \A n \in 1..e : more[n] = edges[n]
      /\ more[e + 1] = at
  BY Words
<1> HIDE DEF now, more
<1>2. CASE r < EdgeCapacity
  <2> DEFINE longer == Append(ring, now)
  <2>1. PushEdge(ring, now) = longer
    BY <1>2 DEF PushEdge
  <2>2. r = e
    BY <1>1, <1>2
  <2>3. /\ Len(longer) = r + 1 /\ DOMAIN longer = 1..(r + 1)
        /\ \A n \in 1..r : longer[n] = ring[n]
        /\ longer[r + 1] = now
    OBVIOUS
  <2> HIDE DEF longer
  <2>4. \A n \in 1..(r + 1) : longer[n] = more[n] % Ticks
    <3> SUFFICES ASSUME NEW n \in 1..(r + 1)
                 PROVE  longer[n] = more[n] % Ticks
      OBVIOUS
    <3>1. CASE n = r + 1
      BY <3>1, <1>1, <2>2, <2>3 DEF now
    <3>2. CASE n \in 1..r
      <4>1. ring[n] = edges[n] % Ticks
        BY <3>2, <1>1, <2>2, SMTT(60)
      <4> QED
        BY <4>1, <3>2, <1>1, <2>2, <2>3
    <3> QED
      BY <3>1, <3>2, <1>1
  <2>5. \A n \in DOMAIN longer : Len(more) - Len(longer) + n = n
    BY <1>1, <2>2, <2>3
  <2> QED
    BY <1>1, <1>2, <2>1, <2>2, <2>3, <2>4, <2>5 DEF now, more
<1>3. CASE ~(r < EdgeCapacity)
  <2> DEFINE longer == Append(Tail(ring), now)
  <2>1. PushEdge(ring, now) = longer
    BY <1>3 DEF PushEdge
  <2>2. r = EdgeCapacity /\ r <= e /\ r >= 1
    BY <1>1, <1>3
  <2>3. /\ Len(longer) = r /\ DOMAIN longer = 1..r
        /\ \A n \in 1..(r - 1) : longer[n] = ring[n + 1]
        /\ longer[r] = now
    <3>1. ring # <<>>
      BY <2>2
    <3>2. Tail(ring) \in Seq(TickType) /\ Len(Tail(ring)) = r - 1
          /\ \A n \in 1..(r - 1) : Tail(ring)[n] = ring[n + 1]
      BY <3>1
    <3> HIDE DEF now
    <3> QED
      BY <3>2, <1>1
  <2> HIDE DEF longer
  <2>4. \A n \in 1..r : longer[n] = more[e + 1 - r + n] % Ticks
    <3> SUFFICES ASSUME NEW n \in 1..r
                 PROVE  longer[n] = more[e + 1 - r + n] % Ticks
      OBVIOUS
    <3>1. CASE n = r
      <4>1. e + 1 - r + n = e + 1
        BY <3>1, <1>1
      <4> QED
        BY <4>1, <3>1, <1>1, <2>3 DEF now
    <3>2. CASE n \in 1..(r - 1)
      <4>1. n + 1 \in 1..r
        BY <3>2, <1>1
      <4>2. ring[n + 1] = edges[e - r + (n + 1)] % Ticks
        BY <4>1, <1>1
      <4>3. e - r + (n + 1) = e + 1 - r + n /\ e - r + (n + 1) \in 1..e
        BY <4>1, <1>1, <2>2
      <4>4. edges[e - r + (n + 1)] = more[e + 1 - r + n]
        BY <4>3, <1>1
      <4> QED
        BY <4>2, <4>4, <3>2, <2>3
    <3>3. n = r \/ n \in 1..(r - 1)
      BY <1>1
    <3> QED
      BY <3>1, <3>2, <3>3
  <2>5. Len(more) = e + 1 /\ ~(Len(more) < EdgeCapacity)
    BY <1>1, <2>2
  <2>6. \A n \in DOMAIN longer : longer[n] = more[Len(more) - Len(longer) + n] % Ticks
    <3> SUFFICES ASSUME NEW n \in DOMAIN longer
                 PROVE  longer[n] = more[Len(more) - Len(longer) + n] % Ticks
      OBVIOUS
    <3>1. n \in 1..r /\ Len(more) - Len(longer) = e + 1 - r
      BY <2>3, <2>5
    <3>2. longer[n] = more[e + 1 - r + n] % Ticks
      BY <2>4, <3>1, Zenon
    <3> QED
      BY <3>1, <3>2, Zenon
  <2> HIDE DEF r, e
  <2> QED
    BY <2>1, <2>2, <2>3, <2>5, <2>6 DEF now, more
<1> QED
  BY <1>2, <1>3

\* An accepted sample that was not heard before keeps what an input holds true.
LEMMA InputGrows ==
  ASSUME NEW story \in Seq(StoryRecords), NEW sample \in StoryRecords,
         NEW i \in Elements(config.inputs), NEW input \in InputRecords,
         story # <<>> => LastChange(i, story) < sample.at
                         /\ sample.at - LastChange(i, story) < Ticks,
         InputMeans(input, story, i)
  PROVE  InputMeans(Noted(input, sample, i), Append(story, sample), i)
<1> DEFINE longer == Append(story, sample)
           new    == Noted(input, sample, i)
           edges  == EdgesIn(i, story)
           more   == EdgesIn(i, longer)
           now    == sample.at % Ticks
           level  == sample.levels[i]
           same   == story # <<>> /\ level = Newest(story).levels[i]
<1>1. longer # <<>> /\ Newest(longer) = sample /\ longer \in Seq(StoryRecords)
  <2>1. Len(longer) = Len(story) + 1 /\ Len(story) \in Nat /\ longer \in Seq(StoryRecords)
        /\ longer[Len(story) + 1] = sample
    OBVIOUS
  <2> HIDE DEF longer
  <2>2. longer # <<>>
    BY <2>1
  <2> QED
    BY <2>1, <2>2 DEF Newest
<1>2. story # <<>> => Counted(ChangesIn(i, story)) /\ edges \in Seq(Nat)
  BY DEF InputMeans
<1>3. /\ more \in Seq(Nat) /\ Counted(ChangesIn(i, longer))
      /\ story = <<>> => more = <<>>
      /\ same => more = edges
      /\ story # <<>> /\ ~same => more = Append(edges, sample.at)
  BY <1>2, EdgesGrow
<1>4. /\ same => LastChange(i, longer) = LastChange(i, story)
      /\ ~same => LastChange(i, longer) = sample.at
  BY LastChangeGrows
<1>5. sample.at \in Nat /\ level \in BOOLEAN
  BY DEF StoryRecords
<1> HIDE DEF longer, new, edges, more, now, level, same
<1> SUFFICES
      /\ new.valid = TRUE
      /\ Len(new.edges) = IF Len(more) < EdgeCapacity THEN Len(more) ELSE EdgeCapacity
      /\ \A n \in DOMAIN new.edges : new.edges[n] = more[Len(more) - Len(new.edges) + n] % Ticks
      /\ \A n \in 1..(Len(more) - 1) : more[n + 1] - more[n] \in 1..(Ticks - 1)
      /\ more # <<>> => Newest(more) = LastChange(i, longer)
      /\ new.level = level /\ new.since = LastChange(i, longer) % Ticks
  BY <1>1, <1>3 DEF InputMeans, longer, new, more, level
<1>6. CASE story = <<>>
  <2>1. new = [valid |-> TRUE, level |-> level, since |-> now, edges |-> <<>>]
    <3>1. ~input.valid
      BY <1>6 DEF InputMeans
    <3>2. new = [NoInput EXCEPT !.valid = TRUE, !.level = level, !.since = now]
      BY <3>1, Zenon DEF new, Noted, now, level
    <3> QED
      BY <3>2 DEF NoInput
  <2>2. more = <<>> /\ LastChange(i, longer) = sample.at
    BY <1>6, <1>3, <1>4 DEF same
  <2> QED
    BY <2>1, <2>2, Words DEF now
<1>7. CASE story # <<>>
  <2>1. /\ input.valid
        /\ Len(input.edges) = IF Len(edges) < EdgeCapacity THEN Len(edges) ELSE EdgeCapacity
        /\ \A n \in DOMAIN input.edges :
             input.edges[n] = edges[Len(edges) - Len(input.edges) + n] % Ticks
        /\ \A n \in 1..(Len(edges) - 1) : edges[n + 1] - edges[n] \in 1..(Ticks - 1)
        /\ edges # <<>> => Newest(edges) = LastChange(i, story)
        /\ input.level = Newest(story).levels[i]
        /\ input.since = LastChange(i, story) % Ticks
    BY <1>7 DEF InputMeans, edges
  <2>2. CASE same
    <3>1. new = input
      BY <2>1, <2>2 DEF new, Noted, same, level
    <3>2. more = edges /\ LastChange(i, longer) = LastChange(i, story) /\ input.level = level
      BY <2>1, <2>2, <1>3, <1>4 DEF same
    <3> QED
      BY <3>1, <3>2, <2>1
  <2>3. CASE ~same
    <3> DEFINE ring == PushEdge(input.edges, now)
    <3>1. more = Append(edges, sample.at) /\ LastChange(i, longer) = sample.at
      BY <2>3, <1>3, <1>4, <1>7
    <3>2. new = [input EXCEPT !.level = level, !.since = now, !.edges = ring]
      BY <2>1, <2>3, <1>7 DEF new, Noted, same, level, now
    <3>3. edges \in Seq(Nat) /\ input.edges \in Seq(TickType)
      BY <1>2, <1>7 DEF InputRecords
    <3>4. /\ Len(ring) = IF Len(more) < EdgeCapacity THEN Len(more) ELSE EdgeCapacity
          /\ \A n \in DOMAIN ring : ring[n] = more[Len(more) - Len(ring) + n] % Ticks
      <4>1. /\ Len(input.edges) = IF Len(edges) < EdgeCapacity THEN Len(edges) ELSE EdgeCapacity
            /\ \A n \in DOMAIN input.edges :
                 input.edges[n] = edges[Len(edges) - Len(input.edges) + n] % Ticks
        BY <2>1
      <4>2. sample.at \in Nat
        BY <1>5
      <4> QED
        BY <3>1, <3>3, <4>1, <4>2, RingGrows, ZenonT(60) DEF now
    <3> HIDE DEF ring
    <3>5. new.valid = TRUE /\ new.edges = ring /\ new.level = level /\ new.since = now
      BY <2>1, <3>2 DEF InputRecords
    <3>6. more # <<>> /\ Newest(more) = sample.at
      BY <3>1, <3>3, <1>5 DEF Newest
    <3>7. ASSUME NEW n \in 1..(Len(more) - 1)
          PROVE  more[n + 1] - more[n] \in 1..(Ticks - 1)
      <4>1. Len(more) = Len(edges) + 1 /\ Len(edges) \in Nat
        BY <3>1, <3>3
      <4>2. CASE n = Len(edges)
        <5>1. more[n + 1] = sample.at /\ more[n] = edges[n] /\ edges[n] \in Nat
          BY <3>1, <3>3, <4>1, <4>2, SMTT(60)
        <5>2. edges # <<>> /\ edges[n] = LastChange(i, story)
          BY <2>1, <4>1, <4>2 DEF Newest
        <5> QED
          BY <5>1, <5>2, <1>5, <1>7, Words, SMTT(60)
      <4>3. CASE n \in 1..(Len(edges) - 1)
        <5>1. more[n + 1] = edges[n + 1] /\ more[n] = edges[n]
          BY <3>1, <3>3, <4>1, <4>3
        <5> QED
          BY <5>1, <2>1, <4>3
      <4> QED
        BY <4>1, <4>2, <4>3
    <3> QED
      BY <3>1, <3>4, <3>5, <3>6, <3>7 DEF now
  <2> QED
    BY <2>2, <2>3
<1> QED
  BY <1>6, <1>7

-----------------------------------------------------------------------------
(* The invariant.                                                          *)

LEMMA InputOKIs ==
  ASSUME NEW i
  PROVE  /\ InputOK(i) <=> InputMeans(d.inputs[i], heard, i)
         /\ ChangedAt(i) = LastChange(i, heard)
<1>1. ChangedAt(i) = LastChange(i, heard)
  BY Zenon DEF ChangedAt, LastChange, Steady
<1> QED
  BY <1>1, Zenon DEF InputOK, InputMeans

LEMMA InputOKBecomes ==
  ASSUME NEW i
  PROVE  /\ InputOK(i)' <=> InputMeans(d'.inputs[i], heard', i)
         /\ ChangedAt(i)' = LastChange(i, heard')
<1>1. ChangedAt(i)' = LastChange(i, heard')
  BY Zenon DEF ChangedAt, LastChange, Steady
<1> QED
  BY <1>1, Zenon DEF InputOK, InputMeans

LEMMA InputUnheard ==
  ASSUME NEW i, NEW input, input.valid = FALSE, input.edges = <<>>
  PROVE  InputMeans(input, <<>>, i)
<1>1. ChangesIn(i, <<>>) = {}
  BY DEF ChangesIn
<1>2. Cardinality(ChangesIn(i, <<>>)) = 0
  BY <1>1, FS_EmptySet
<1>3. EdgesIn(i, <<>>) = <<>> /\ Counted(ChangesIn(i, <<>>))
  BY <1>2 DEF EdgesIn, Counted
<1>4. Len(<<>>) = 0 /\ DOMAIN <<>> = {} /\ 1..(0 - 1) = {}
  OBVIOUS
<1>5. <<>> \in Seq(Nat)
  OBVIOUS
<1> DEFINE edges == EdgesIn(i, <<>>)
<1>6. /\ Len(input.edges) = IF Len(edges) < EdgeCapacity THEN Len(edges) ELSE EdgeCapacity
      /\ \A n \in DOMAIN input.edges :
           input.edges[n] = edges[Len(edges) - Len(input.edges) + n] % Ticks
      /\ \A n \in 1..(Len(edges) - 1) : edges[n + 1] - edges[n] \in 1..(Ticks - 1)
  BY <1>3, <1>4, Words
<1> QED
  BY <1>3, <1>5, <1>6, Zenon DEF InputMeans

\* A sample is a record of the proofs about stories.
LEMMA SamplesAreRecords ==
  ASSUME clock \in Nat
  PROVE  Samples \subseteq StoryRecords /\ Samples \subseteq SampleRecords(config)
BY DEF Samples, StoryRecords, SampleRecords

\* A sample that is not too old is accepted only if no evaluation is later, ...
LEMMA AcceptedIsNew ==
  ASSUME NEW s, NEW at \in Int, s.lastEval \in Int, s.lastNow = s.lastEval % Ticks,
         s.lastEval - at < Half, at - s.lastEval < Half
  PROVE  Accepts(s, at) => at >= s.lastEval
<1> SUFFICES ASSUME at < s.lastEval
             PROVE  ~Accepts(s, at)
  OBVIOUS
<1> DEFINE last == s.lastEval
<1>0. last \in Int
  OBVIOUS
<1>1. Elapsed(at % Ticks, s.lastNow) = (at - last) % Ticks
  BY <1>0, ElapsedTime
<1>2. at - last + Ticks \in TickType /\ at - last + Ticks >= Half
  BY Words
<1>3. (at - last) % Ticks = at - last + Ticks
  <2>1. at - last \in Int /\ 1 \in Int /\ Ticks \in Nat /\ Ticks > 0 /\ Ticks * 1 = Ticks
    BY Words
  <2>2. (at - last + Ticks * 1) % Ticks = (at - last) % Ticks
    BY <2>1, Shift, Zenon
  <2> QED
    BY <2>1, <2>2, <1>2, Small
<1>4. Elapsed(at % Ticks, s.lastNow) >= Half
  BY <1>1, <1>2, <1>3
<1>5. s.lastNow # NoTick
  <2>1. last % Ticks \in TickType
    BY <1>0, Wrapped, Zenon
  <2> QED
    BY <2>1, Words
<1>6. ~(Elapsed(at % Ticks, s.lastNow) < Half)
  <2>1. Elapsed(at % Ticks, s.lastNow) \in Int
    BY <1>1, <1>2, <1>3, Words
  <2> QED
    BY <2>1, <1>4, Words
<1> QED
  BY <1>5, <1>6 DEF Accepts

\* The pieces of the invariant that an evaluation or a consumed sample may disturb.
EvaluatedOK ==
  /\ d' \in DecoderStates(config) /\ Rested(config, d')
  /\ d'.lastEval = clock /\ d'.lastNow = clock % Ticks
  /\ heard' \in Seq(Samples) /\ Elements(heard') \subseteq Known
  /\ \A k, l \in DOMAIN heard' : k < l => heard'[k].at < heard'[l].at
  /\ \A i \in Elements(config.inputs) :
       /\ InputMeans(d'.inputs[i], heard', i)
       /\ heard' # <<>> => clock - LastChange(i, heard') < Ticks

\* What an evaluation needs of the time of the last one.
LEMMA EvaluatedInTime ==
  ASSUME DecoderInv
  PROVE  /\ Compiles(config) /\ d \in DecoderStates(config) /\ clock \in Nat
         /\ \/ d.lastNow = NoTick
            \/ d.lastNow = d.lastEval % Ticks /\ clock - d.lastEval \in 0..(Half - 1)
<1>1. /\ Compiles(config) /\ d \in DecoderStates(config) /\ config \in Configs
      /\ clock \in 0..Horizon[config]
  BY DEF DecoderInv, SamplesOK
<1>2. clock \in Nat
  BY <1>1, FeedbackAssumption
<1>3. ~booted => d.lastNow = NoTick
  BY DEF DecoderInv, TimesOK, InitialDecoder
<1>4. booted => d.lastNow = d.lastEval % Ticks
  BY DEF DecoderInv, TimesOK
<1>5. d.lastNow # NoTick => clock - d.lastEval < Half
  BY DEF DecoderInv, TimesOK, Quiet
<1>6. d.lastEval <= clock /\ d.lastEval \in Nat
  BY <1>1 DEF DecoderInv, TimesOK, DecoderStates
<1> QED
  BY <1>1, <1>2, <1>3, <1>4, <1>5, <1>6, Words

LEMMA AdvanceOK ==
  ASSUME DecoderInv, d' = Advance(config, d, clock), heard' = heard
  PROVE  EvaluatedOK
<1>1. /\ d' \in DecoderStates(config) /\ d'.inputs = d.inputs
      /\ d'.lastEval = clock /\ d'.lastNow = clock % Ticks
      /\ Rested(config, d')
  BY EvaluatedInTime, Advanced
<1>2. \A i \in Elements(config.inputs) : InputMeans(d'.inputs[i], heard', i)
  BY <1>1, InputOKIs DEF DecoderInv
<1>3. heard' # <<>> => \A i \in Elements(config.inputs) : clock - LastChange(i, heard') < Ticks
  <2>1. heard # <<>> => \A i \in Elements(config.inputs) : clock - ChangedAt(i) < Ticks
    BY DEF DecoderInv, TimesOK, Quiet
  <2> QED
    BY <2>1, InputOKIs
<1>4. /\ heard' \in Seq(Samples) /\ Elements(heard') \subseteq Known
      /\ \A k, l \in DOMAIN heard' : k < l => heard'[k].at < heard'[l].at
  BY DEF DecoderInv, SamplesOK, Known
<1> QED
  BY <1>1, <1>2, <1>3, <1>4, Zenon DEF EvaluatedOK

LEMMA HeardIsOrdered ==
  ASSUME DecoderInv, heard # <<>>
  PROVE  /\ heard \in Seq(Samples) /\ Newest(heard) \in Elements(heard)
         /\ Newest(heard) \in Samples /\ Newest(heard).at \in Nat
         /\ \A sample \in Elements(heard) : sample.at \in Nat /\ sample.at <= Newest(heard).at
<1>1. /\ heard \in Seq(Samples) /\ clock \in Nat
      /\ \A k, l \in DOMAIN heard : k < l => heard[k].at < heard[l].at
  BY EvaluatedInTime DEF DecoderInv, SamplesOK
<1> DEFINE m == Len(heard)
<1>2. m \in Nat /\ m >= 1 /\ DOMAIN heard = 1..m
  BY <1>1
<1>3. \A k \in 1..m : heard[k] \in Samples /\ heard[k].at \in Nat
  <2>1. \A k \in 1..m : heard[k] \in Samples
    BY <1>1, <1>2
  <2>2. \A s \in Samples : s.at \in Nat
    BY <1>1, SamplesAreRecords DEF StoryRecords
  <2> QED
    BY <2>1, <2>2
<1>4. Newest(heard) = heard[m] /\ m \in 1..m
  BY <1>2 DEF Newest
<1> HIDE DEF m
<1>5. \A k \in 1..m : heard[k].at <= heard[m].at
  <2> SUFFICES ASSUME NEW k \in 1..m
               PROVE  heard[k].at <= heard[m].at
    OBVIOUS
  <2>1. CASE k = m
    BY <2>1, <1>3
  <2>2. CASE k < m
    BY <2>2, <1>1, <1>2, <1>3, <1>4
  <2> QED
    BY <2>1, <2>2, <1>2
<1> QED
  BY <1>1, <1>2, <1>3, <1>4, <1>5 DEF Elements, m

LEMMA KnownSamples ==
  ASSUME DecoderInv, NEW sample \in Known
  PROVE  /\ sample \in Samples /\ sample.at \in Nat /\ sample.at <= clock /\ clock \in Nat
         /\ sample \in StoryRecords /\ sample \in SampleRecords(config)
<1>1. clock \in Nat
  BY EvaluatedInTime
<1>2. /\ latest \in Samples \cup {NoSample}
      /\ queue \in Seq(Samples) /\ heard \in Seq(Samples)
  BY DEF DecoderInv, SamplesOK
<1>3. sample \in Samples
  BY <1>2 DEF Known, Elements
<1> QED
  BY <1>1, <1>3, SamplesAreRecords DEF Samples

LEMMA AcceptedIsLatest ==
  ASSUME DecoderInv, booted, NEW sample \in Known, clock - sample.at <= Lag, Accepts(d, sample.at)
  PROVE  sample.at >= d.lastEval
<1> DEFINE at == sample.at
<1>1. /\ at \in Nat /\ at <= clock /\ clock \in Nat
      /\ d.lastNow = d.lastEval % Ticks /\ d.lastEval \in Nat /\ d.lastEval <= clock
  BY KnownSamples, EvaluatedInTime DEF DecoderInv, TimesOK, DecoderStates
<1>2. Lag \in 0..(Half - 1)
  BY FeedbackAssumption, Words
<1>3. d.lastNow # NoTick
  <2>1. d.lastEval % Ticks \in TickType
    BY <1>1, Wrapped
  <2> QED
    BY <1>1, <2>1, Words
<1>4. clock - d.lastEval < Half
  BY <1>3 DEF DecoderInv, TimesOK, Quiet
<1>5. d.lastEval - at < Half /\ at - d.lastEval < Half
  BY <1>1, <1>2, <1>4, Words, SMTT(60)
<1>6. at \in Int /\ d.lastEval \in Int
  BY <1>1
<1> QED
  BY <1>1, <1>5, <1>6, AcceptedIsNew

LEMMA ConsumeOK ==
  ASSUME DecoderInv, NEW sample \in Known, clock - sample.at <= Lag, Consume(sample)
  PROVE  EvaluatedOK
<1> DEFINE at == sample.at
           e  == AllOffered(d, sample)
<1>1. /\ Compiles(config) /\ d \in DecoderStates(config) /\ clock \in Nat
      /\ \/ d.lastNow = NoTick
         \/ d.lastNow = d.lastEval % Ticks /\ clock - d.lastEval \in 0..(Half - 1)
  BY EvaluatedInTime
<1>2. /\ sample \in Samples /\ at \in Nat /\ at <= clock
      /\ sample \in StoryRecords /\ sample \in SampleRecords(config)
  BY KnownSamples
<1>3. d' = Advance(config, e, clock)
  BY Zenon DEF Consume, AllOffered, Offered
<1>4. heard \in Seq(Samples) /\ heard \in Seq(StoryRecords)
  BY <1>1, SamplesAreRecords DEF DecoderInv, SamplesOK
<1>5. \A k, l \in DOMAIN heard : k < l => heard[k].at < heard[l].at
  BY DEF DecoderInv, SamplesOK
<1>6. \A i \in Elements(config.inputs) : InputMeans(d.inputs[i], heard, i)
  BY InputOKIs DEF DecoderInv
<1>7. heard # <<>> => \A i \in Elements(config.inputs) : clock - LastChange(i, heard) < Ticks
  <2>1. heard # <<>> => \A i \in Elements(config.inputs) : clock - ChangedAt(i) < Ticks
    BY DEF DecoderInv, TimesOK, Quiet
  <2> QED
    BY <2>1, InputOKIs
<1>8. Lag \in 0..(Half - 1)
  BY FeedbackAssumption, Words
<1>9. CASE ~Accepts(d, at)
  <2>1. e = d /\ heard' = heard
    BY <1>9, SampleRefused DEF Consume
  <2>2. d' = Advance(config, d, clock)
    BY <1>3, <2>1
  <2> QED
    BY <2>1, <2>2, AdvanceOK
<1>10. CASE Accepts(d, at)
  <2>1. /\ e \in DecoderStates(config)
        /\ e.lastEval = at /\ e.lastNow = at % Ticks
        /\ \A i \in Elements(config.inputs) : e.inputs[i] = Noted(d.inputs[i], sample, i)
    BY <1>1, <1>2, <1>10, SampleAccepted
  <2> HIDE DEF e
  <2>2. clock - e.lastEval \in 0..(Half - 1) /\ e.lastNow = e.lastEval % Ticks
    BY <1>1, <1>2, <1>8, <2>1, Words
  <2>3. /\ d' \in DecoderStates(config) /\ d'.inputs = e.inputs
        /\ d'.lastEval = clock /\ d'.lastNow = clock % Ticks
        /\ Rested(config, d')
    BY <1>1, <1>3, <2>1, <2>2, Advanced
  <2>4. ASSUME heard # <<>>
        PROVE  at >= Newest(heard).at
    <3>1. booted
      BY <2>4 DEF DecoderInv, TimesOK, SamplesOK
    <3>2. at >= d.lastEval
      BY <3>1, <1>10, AcceptedIsLatest
    <3>3. Newest(heard).at <= d.lastEval /\ d.lastEval \in Nat
      BY <2>4, <1>1 DEF DecoderInv, TimesOK, DecoderStates
    <3>4. Newest(heard).at \in Nat
      BY <2>4, HeardIsOrdered
    <3> QED
      BY <3>2, <3>3, <3>4, <1>2
  <2>5. CASE sample \in Elements(heard)
    <3>1. heard' = heard /\ heard # <<>>
      BY <2>5 DEF Consume, Elements
    <3>2. sample = Newest(heard)
      <4>1. at = Newest(heard).at /\ Newest(heard) \in Known
        BY <2>4, <2>5, <3>1, <1>2, HeardIsOrdered DEF Known
      <4> QED
        BY <4>1 DEF DecoderInv, SamplesOK
    <3>3. ASSUME NEW i \in Elements(config.inputs)
          PROVE  d'.inputs[i] = d.inputs[i]
      <4>1. d.inputs[i].valid = (heard # <<>>)
            /\ (heard # <<>> => d.inputs[i].level = Newest(heard).levels[i])
        BY <1>6 DEF InputMeans
      <4>2. d.inputs[i].valid /\ d.inputs[i].level = sample.levels[i]
        BY <4>1, <3>1, <3>2
      <4>3. Noted(d.inputs[i], sample, i) = d.inputs[i]
        BY <4>2 DEF Noted
      <4> QED
        BY <4>3, <2>1, <2>3
    <3>4. \A i \in Elements(config.inputs) :
            /\ InputMeans(d'.inputs[i], heard', i)
            /\ heard' # <<>> => clock - LastChange(i, heard') < Ticks
      BY <3>1, <3>3, <1>6, <1>7
    <3> QED
      BY <2>3, <3>1, <3>4, <1>4, <1>5, Zenon DEF EvaluatedOK, Known
  <2>6. CASE sample \notin Elements(heard)
    <3>1. heard' = Append(heard, sample)
      BY <2>6, <1>10 DEF Consume
    <3>2. ASSUME NEW other \in Elements(heard)
          PROVE  other.at < at /\ other.at \in Nat
      <4>1. heard # <<>>
        BY DEF Elements
      <4>2. other.at \in Nat /\ other.at <= Newest(heard).at /\ Newest(heard).at \in Nat
        BY <4>1, HeardIsOrdered
      <4>3. other.at # at
        <5>1. other \in Known /\ other # sample
          BY <2>6 DEF Known
        <5> QED
          BY <5>1 DEF DecoderInv, SamplesOK
      <4> QED
        BY <2>4, <4>1, <4>2, <4>3, <1>2
    <3>3. /\ heard' \in Seq(Samples)
          /\ Elements(heard') \subseteq Known
      <4>1. Elements(heard') \subseteq Elements(heard) \cup {sample}
        BY <3>1, <1>2, <1>4 DEF Elements
      <4> QED
        BY <4>1, <3>1, <1>2, <1>4 DEF Known
    <3>4. \A k, l \in DOMAIN heard' : k < l => heard'[k].at < heard'[l].at
      <4> DEFINE m == Len(heard)
      <4>1. /\ m \in Nat /\ DOMAIN heard = 1..m /\ DOMAIN heard' = 1..(m + 1)
            /\ \A k \in 1..m : heard'[k] = heard[k] /\ heard[k] \in Elements(heard)
            /\ heard'[m + 1] = sample
        BY <3>1, <1>4 DEF Elements
      <4> HIDE DEF m
      <4> SUFFICES ASSUME NEW k \in 1..(m + 1), NEW l \in 1..(m + 1), k < l
                   PROVE  heard'[k].at < heard'[l].at
        BY <4>1
      <4>2. k \in 1..m
        BY <4>1
      <4>3. CASE l = m + 1
        BY <4>1, <4>2, <4>3, <3>2
      <4>4. CASE l \in 1..m
        BY <4>1, <4>2, <4>4, <1>5
      <4> QED
        BY <4>1, <4>3, <4>4
    <3>5. ASSUME NEW i \in Elements(config.inputs)
          PROVE  /\ InputMeans(d'.inputs[i], heard', i)
                 /\ clock - LastChange(i, heard') < Ticks
      <4>1. heard # <<>> => LastChange(i, heard) \in Nat /\ LastChange(i, heard) < at
        <5> SUFFICES ASSUME heard # <<>>
                     PROVE  LastChange(i, heard) \in Nat /\ LastChange(i, heard) < at
          OBVIOUS
        <5>1. PICK k \in 1..Len(heard) : LastChange(i, heard) = heard[k].at
          BY <1>4, LastChangeIs
        <5>2. heard[k] \in Elements(heard)
          BY <1>4 DEF Elements
        <5> QED
          BY <5>1, <5>2, <3>2
      <4>2. d.inputs[i] \in InputRecords /\ InputMeans(d.inputs[i], heard, i)
        BY <1>1, <1>6 DEF DecoderStates
      <4>3. heard # <<>> => LastChange(i, heard) < at /\ at - LastChange(i, heard) < Ticks
        BY <4>1, <1>1, <1>2, <1>7, Words
      <4>4. InputMeans(Noted(d.inputs[i], sample, i), Append(heard, sample), i)
        BY <4>2, <4>3, <1>2, <1>4, InputGrows
      <4>5. clock - at < Ticks
        BY <1>1, <1>2, <1>8, Words
      <4>6. \/ LastChange(i, Append(heard, sample)) = at
            \/ heard # <<>> /\ LastChange(i, Append(heard, sample)) = LastChange(i, heard)
        <5> DEFINE same == heard # <<>> /\ sample.levels[i] = Newest(heard).levels[i]
        <5>1. /\ same => LastChange(i, Append(heard, sample)) = LastChange(i, heard)
              /\ ~same => LastChange(i, Append(heard, sample)) = at
          BY <1>2, <1>4, LastChangeGrows
        <5> HIDE DEF same
        <5>2. same => heard # <<>>
          BY DEF same
        <5> QED
          BY <5>1, <5>2
      <4> QED
        BY <4>4, <4>5, <4>6, <3>1, <1>7, <2>1, <2>3
    <3> QED
      BY <2>3, <3>3, <3>4, <3>5, Zenon DEF EvaluatedOK
  <2> QED
    BY <2>5, <2>6
<1> QED
  BY <1>9, <1>10

LEMMA AfterEvaluation ==
  ASSUME DecoderInv, EvaluatedOK, UNCHANGED <<config, clock, latest>>, booted' = TRUE,
         queue' \in Seq(Samples), Len(queue') <= Backlog, Elements(queue') \subseteq Elements(queue),
         \A k, l \in DOMAIN queue' : k < l => queue'[k].at < queue'[l].at,
         queue' # <<>> => clock - Head(queue').at <= Lag
  PROVE  DecoderInv'
<1>1. Samples' = Samples /\ Known' \subseteq Known
  <2>1. Samples' = Samples
    BY DEF Samples
  <2>2. Elements(heard') \subseteq Known
    BY DEF EvaluatedOK
  <2>3. Known' = Elements(queue') \cup Elements(heard') \cup ({latest} \ {NoSample})
    BY DEF Known
  <2> QED
    BY <2>1, <2>2, <2>3 DEF Known
<1>2. /\ config \in Configs /\ Compiles(config) /\ clock \in 0..Horizon[config]
      /\ latest \in Samples \cup {NoSample}
      /\ \A s \in Known : s.at <= latest.at /\ \A other \in Known : s.at = other.at => s = other
  BY DEF DecoderInv, SamplesOK
<1>3. SamplesOK'
  <2>1. heard' \in Seq(Samples)
        /\ \A k, l \in DOMAIN heard' : k < l => heard'[k].at < heard'[l].at
    BY DEF EvaluatedOK
  <2>2. \A s \in Known' : s.at <= latest.at /\ \A other \in Known' : s.at = other.at => s = other
    BY <1>1, <1>2, Zenon
  <2> QED
    BY <1>1, <1>2, <2>1, <2>2 DEF SamplesOK
<1>4. d' \in DecoderStates(config)' /\ Rested(config, d)'
  BY DEF EvaluatedOK, DecoderStates, RuleIds, RulesFor, EnabledRules, PhaseRecords, TickType,
         Results, InputRecords, Rested
<1>5. \A i \in Elements(config.inputs)' : InputOK(i)'
  BY InputOKBecomes DEF EvaluatedOK
<1>6. TimesOK'
  <2>1. clock \in Nat /\ d'.lastEval = clock /\ d'.lastNow = clock % Ticks
    BY EvaluatedInTime DEF EvaluatedOK
  <2>2. \A i \in Elements(config.inputs) : heard' # <<>> => clock - ChangedAt(i)' < Ticks
    BY InputOKBecomes DEF EvaluatedOK
  <2>3. clock' - d'.lastEval < Half
    BY <2>1, Words
  <2>4. Quiet(clock)'
    BY <2>2, <2>3 DEF Quiet
  <2>5. heard' # <<>> => Newest(heard').at <= clock
    <3> SUFFICES ASSUME heard' # <<>>
                 PROVE  Newest(heard').at <= clock
      OBVIOUS
    <3>1. Newest(heard') \in Elements(heard') /\ Elements(heard') \subseteq Known
      BY DEF EvaluatedOK, Newest, Elements
    <3> QED
      BY <3>1, KnownSamples
  <2> QED
    BY <2>1, <2>4, <2>5 DEF TimesOK
<1> QED
  BY <1>3, <1>4, <1>5, <1>6 DEF DecoderInv

LEMMA InvInit ==
  ASSUME Init
  PROVE  DecoderInv
<1>1. /\ config \in Configs /\ Compiles(config) /\ clock = 0 /\ latest = NoSample /\ queue = <<>>
      /\ d = InitialDecoder(config) /\ heard = <<>> /\ booted = FALSE
  BY DEF Init
<1>2. Lag \in Nat /\ Backlog \in Nat /\ Horizon[config] \in Nat
  BY <1>1, FeedbackAssumption, Words
<1>3. Known = {}
  BY <1>1 DEF Known, Elements
<1>4. SamplesOK
  <2>1. /\ queue \in Seq(Samples) /\ heard \in Seq(Samples)
        /\ DOMAIN queue = {} /\ DOMAIN heard = {} /\ Len(queue) = 0
    BY <1>1
  <2>2. clock \in 0..Horizon[config] /\ Len(queue) <= Backlog
    BY <1>1, <1>2, <2>1
  <2> QED
    BY <1>1, <1>3, <2>1, <2>2, Zenon DEF SamplesOK
<1>5. d = [inputs |-> [i \in Elements(config.inputs) |-> NoInput],
           phases |-> [id \in RuleIds(config) |-> Unmatched],
           result |-> InitialResult, deadline |-> NoTick, lastNow |-> NoTick,
           lastEval |-> 0, late |-> FALSE]
  BY <1>1 DEF InitialDecoder
<1>6. NoInput \in InputRecords /\ Unmatched \in PhaseRecords /\ InitialResult \in Results
  BY Words DEF NoInput, InputRecords, Unmatched, PhaseRecords, Phases, InitialResult, Results, Healths
<1>7. d \in DecoderStates(config) /\ d.lastNow = NoTick /\ d.lastEval = 0
  BY <1>5, <1>6 DEF DecoderStates
<1>8. TimesOK
  BY <1>1, <1>2, <1>7 DEF TimesOK, Quiet
<1>9. ASSUME NEW i \in Elements(config.inputs)
      PROVE  InputOK(i)
  <2>1. d.inputs[i] = NoInput
    BY <1>5
  <2>2. NoInput.valid = FALSE /\ NoInput.edges = <<>>
    BY DEF NoInput
  <2>3. InputMeans(d.inputs[i], heard, i)
    BY <1>1, <2>1, <2>2, InputUnheard
  <2> QED
    BY <2>3, InputOKIs
<1> QED
  BY <1>4, <1>7, <1>8, <1>9 DEF DecoderInv

\* Nothing but the samples and the time has changed.
LEMMA SameDecoder ==
  ASSUME DecoderInv, UNCHANGED <<config, d, heard>>
  PROVE  /\ d' \in DecoderStates(config)'
         /\ \A i \in Elements(config.inputs)' : InputOK(i)'
         /\ (d.lastNow # NoTick)' => Rested(config, d)'
<1>1. \A i \in Elements(config.inputs) : InputOK(i)'
  BY InputOKIs, InputOKBecomes DEF DecoderInv
<1> QED
  BY <1>1 DEF DecoderInv, DecoderStates, RuleIds, RulesFor, EnabledRules, PhaseRecords, TickType,
     Results, InputRecords, Rested

LEMMA CaptureKeeps ==
  ASSUME DecoderInv, Capture
  PROVE  DecoderInv'
<1>1. /\ latest' \in [at : {clock}, levels : [Elements(config.inputs) -> BOOLEAN]]
      /\ latest # NoSample => latest.at < clock
      /\ queue' = Append(queue, latest') /\ Len(queue) < Backlog
      /\ UNCHANGED <<config, clock, booted, d, heard>>
  BY DEF Capture
<1>2. /\ config \in Configs /\ Compiles(config) /\ clock \in 0..Horizon[config] /\ booted \in BOOLEAN
      /\ latest \in Samples \cup {NoSample}
      /\ queue \in Seq(Samples) /\ heard \in Seq(Samples)
      /\ \A k, l \in DOMAIN queue : k < l => queue[k].at < queue[l].at
      /\ \A k, l \in DOMAIN heard : k < l => heard[k].at < heard[l].at
      /\ \A s \in Known : s.at <= latest.at /\ \A other \in Known : s.at = other.at => s = other
  BY DEF DecoderInv, SamplesOK
<1>3. clock \in Nat /\ Backlog \in Nat
  BY EvaluatedInTime, FeedbackAssumption
<1>4. Samples' = Samples
  BY <1>1 DEF Samples
<1>5. latest' \in Samples /\ latest'.at = clock
  BY <1>1, <1>3 DEF Samples
<1>6. ASSUME NEW s \in Known
      PROVE  s.at \in Nat /\ s.at < clock
  <2>1. s.at \in Nat /\ s.at <= latest.at
    BY <1>2, KnownSamples
  <2>2. latest # NoSample
    BY <2>1 DEF NoSample
  <2>3. latest \in Known
    BY <2>2 DEF Known
  <2>4. latest.at \in Nat
    BY <2>3, KnownSamples
  <2> QED
    BY <1>1, <1>3, <2>1, <2>2, <2>4
<1> DEFINE m == Len(queue)
<1>7. /\ m \in Nat /\ DOMAIN queue = 1..m /\ DOMAIN queue' = 1..(m + 1) /\ Len(queue') = m + 1
      /\ \A k \in 1..m : queue'[k] = queue[k] /\ queue[k] \in Elements(queue)
      /\ queue'[m + 1] = latest'
      /\ queue' \in Seq(Samples)
  BY <1>1, <1>2, <1>5 DEF Elements
<1> HIDE DEF m
<1>8. Known' \subseteq Known \cup {latest'}
  <2>1. Elements(queue') \subseteq Elements(queue) \cup {latest'}
    BY <1>7 DEF Elements
  <2> QED
    BY <1>1, <2>1 DEF Known
<1>9. \A k, l \in DOMAIN queue' : k < l => queue'[k].at < queue'[l].at
  <2> SUFFICES ASSUME NEW k \in 1..(m + 1), NEW l \in 1..(m + 1), k < l
               PROVE  queue'[k].at < queue'[l].at
    BY <1>7
  <2>1. k \in 1..m
    BY <1>7
  <2>2. CASE l = m + 1
    <3>1. queue[k] \in Known
      BY <2>1, <1>7 DEF Known
    <3> QED
      BY <2>1, <2>2, <3>1, <1>5, <1>6, <1>7
  <2>3. CASE l \in 1..m
    BY <2>1, <2>3, <1>2, <1>7
  <2> QED
    BY <2>2, <2>3, <1>7
<1>10. ASSUME NEW s \in Known'
       PROVE  s.at <= latest'.at /\ \A other \in Known' : s.at = other.at => s = other
  <2>1. \A other \in Known' : other \in Known \/ other = latest'
    BY <1>8
  <2>2. s.at <= latest'.at
    BY <2>1, <1>3, <1>5, <1>6
  <2>3. ASSUME NEW other \in Known', s.at = other.at
        PROVE  s = other
    <3>1. CASE s \in Known /\ other \in Known
      BY <2>3, <3>1, <1>2
    <3>2. CASE s = latest' /\ other \in Known
      BY <2>3, <3>2, <1>3, <1>5, <1>6
    <3>3. CASE s \in Known /\ other = latest'
      BY <2>3, <3>3, <1>3, <1>5, <1>6
    <3> QED
      BY <2>1, <3>1, <3>2, <3>3
  <2> QED
    BY <2>2, <2>3
<1>11. SamplesOK'
  <2>1. Len(queue') <= Backlog
    BY <1>1, <1>3, <1>7
  <2> QED
    BY <1>1, <1>2, <1>4, <1>5, <1>7, <1>9, <1>10, <2>1 DEF SamplesOK
<1>12. TimesOK'
  <2>1. clock - Head(queue').at <= Lag
    <3>1. Lag \in Nat
      BY FeedbackAssumption, Words
    <3>2. CASE queue = <<>>
      <4>1. Head(queue') = latest'
        BY <3>2, <1>1
      <4> QED
        BY <3>1, <4>1, <1>3, <1>5
    <3>3. CASE queue # <<>>
      <4>1. Head(queue') = Head(queue)
        BY <3>3, <1>1, <1>2, <1>5
      <4>2. clock - Head(queue).at <= Lag
        BY <3>3 DEF DecoderInv, TimesOK
      <4> QED
        BY <4>1, <4>2
    <3> QED
      BY <3>2, <3>3
  <2>2. Quiet(clock)'
    <3>1. \A i : ChangedAt(i)' = ChangedAt(i)
      BY <1>1, InputOKIs, InputOKBecomes
    <3>2. Quiet(clock)
      BY DEF DecoderInv, TimesOK
    <3> QED
      BY <1>1, <3>1, <3>2 DEF Quiet
  <2> QED
    BY <2>1, <2>2, <1>1 DEF DecoderInv, TimesOK
<1> QED
  BY <1>1, <1>11, <1>12, SameDecoder DEF DecoderInv

\* Of the samples still to come, the first one is not too old.
LEMMA QueueKept ==
  ASSUME DecoderInv
  PROVE  /\ queue \in Seq(Samples) /\ Len(queue) <= Backlog
         /\ \A k, l \in DOMAIN queue : k < l => queue[k].at < queue[l].at
BY DEF DecoderInv, SamplesOK

LEMMA BootKeeps ==
  ASSUME DecoderInv, Boot
  PROVE  DecoderInv'
<1>1. ~booted /\ booted' = TRUE /\ UNCHANGED <<config, clock, latest, queue>>
  BY DEF Boot
<1>2. clock <= Lag /\ clock \in Nat
  BY <1>1, EvaluatedInTime DEF DecoderInv, TimesOK
<1>3. EvaluatedOK
  <2>1. CASE latest = NoSample
    BY <2>1, AdvanceOK DEF Boot
  <2>2. CASE latest # NoSample
    <3>1. latest \in Known
      BY <2>2 DEF Known
    <3>2. latest.at \in Nat
      BY <3>1, KnownSamples
    <3>3. clock - latest.at <= Lag
      BY <1>2, <3>2, FeedbackAssumption, Words
    <3>4. Consume(latest)
      BY <2>2 DEF Boot
    <3> QED
      BY <3>1, <3>3, <3>4, ConsumeOK
  <2> QED
    BY <2>1, <2>2
<1>4. queue # <<>> => clock - Head(queue).at <= Lag
  BY DEF DecoderInv, TimesOK
<1> QED
  BY <1>1, <1>3, <1>4, QueueKept, AfterEvaluation

LEMMA ReceiveKeeps ==
  ASSUME DecoderInv, Receive
  PROVE  DecoderInv'
<1>1. /\ booted /\ queue # <<>> /\ queue' = Tail(queue) /\ Consume(Head(queue))
      /\ UNCHANGED <<config, clock, latest, booted>>
  BY DEF Receive
<1>2. booted' = TRUE
  BY <1>1 DEF DecoderInv, SamplesOK
<1> DEFINE m == Len(queue)
<1>3. /\ queue \in Seq(Samples) /\ m <= Backlog /\ m \in Nat /\ m >= 1
      /\ \A k, l \in 1..m : k < l => queue[k].at < queue[l].at
  BY <1>1, QueueKept
<1>4. /\ queue' \in Seq(Samples) /\ Len(queue') = m - 1 /\ DOMAIN queue' = 1..(m - 1)
      /\ \A k \in 1..(m - 1) : queue'[k] = queue[k + 1]
      /\ Head(queue) = queue[1] /\ 1 \in 1..m
      /\ queue' # <<>> => Head(queue') = queue[2] /\ 2 \in 1..m
  BY <1>1, <1>3
<1>5. Head(queue) \in Known
  BY <1>3, <1>4 DEF Known, Elements
<1>6. clock - Head(queue).at <= Lag
  BY <1>1 DEF DecoderInv, TimesOK
<1>7. EvaluatedOK
  BY <1>1, <1>5, <1>6, ConsumeOK
<1> HIDE DEF m
<1>8. Elements(queue') \subseteq Elements(queue)
  <2>1. DOMAIN queue = 1..m
    BY <1>3 DEF m
  <2>2. \A k \in 1..(m - 1) : k + 1 \in 1..m
    BY <1>3
  <2> QED
    BY <1>4, <2>1, <2>2 DEF Elements
<1>9. \A k, l \in DOMAIN queue' : k < l => queue'[k].at < queue'[l].at
  <2> SUFFICES ASSUME NEW k \in 1..(m - 1), NEW l \in 1..(m - 1), k < l
               PROVE  queue[k + 1].at < queue[l + 1].at
    BY <1>4
  <2>1. k + 1 \in 1..m /\ l + 1 \in 1..m /\ k + 1 < l + 1
    BY <1>3
  <2> QED
    BY <2>1, <1>3
<1>10. queue' # <<>> => clock - Head(queue').at <= Lag
  <2> SUFFICES ASSUME queue' # <<>>
               PROVE  clock - queue[2].at <= Lag
    BY <1>4
  <2>1. queue[1].at < queue[2].at
    BY <1>3, <1>4
  <2>2. queue[1].at \in Nat /\ queue[2].at \in Nat /\ clock \in Nat
    <3>1. queue[2] \in Known
      BY <1>3, <1>4 DEF Known, Elements, m
    <3> QED
      BY <3>1, <1>4, <1>5, KnownSamples
  <2> QED
    BY <2>1, <2>2, <1>4, <1>6, FeedbackAssumption, Words, SMTT(60)
<1>11. Len(queue') <= Backlog
  BY <1>3, <1>4, FeedbackAssumption
<1> QED
  BY <1>1, <1>2, <1>4, <1>7, <1>8, <1>9, <1>10, <1>11, AfterEvaluation

LEMMA ExpiryKeeps ==
  ASSUME DecoderInv, ProcessExpired
  PROVE  DecoderInv'
<1>1. /\ booted /\ d' = Advance(config, d, clock)
      /\ UNCHANGED <<config, clock, latest, queue, booted, heard>>
  BY DEF ProcessExpired
<1>2. booted' = TRUE
  BY <1>1 DEF DecoderInv, SamplesOK
<1>3. EvaluatedOK
  BY <1>1, AdvanceOK
<1>4. queue # <<>> => clock - Head(queue).at <= Lag
  BY DEF DecoderInv, TimesOK
<1> QED
  BY <1>1, <1>2, <1>3, <1>4, QueueKept, AfterEvaluation

LEMMA TickKeeps ==
  ASSUME DecoderInv, Tick \/ UNCHANGED vars
  PROVE  DecoderInv'
<1>1. UNCHANGED <<config, latest, queue, booted, d, heard>>
  BY DEF Tick, vars
<1>2. \/ clock' = clock
      \/ clock' = clock + 1 /\ clock < Horizon[config] /\ Quiet(clock + 1) /\ Prompt(clock + 1)
  BY DEF Tick, vars
<1>3. /\ config \in Configs /\ Compiles(config) /\ clock \in 0..Horizon[config] /\ clock \in Nat
      /\ latest \in Samples \cup {NoSample} /\ booted \in BOOLEAN
      /\ queue \in Seq(Samples) /\ heard \in Seq(Samples) /\ Len(queue) <= Backlog
      /\ \A k, l \in DOMAIN queue : k < l => queue[k].at < queue[l].at
      /\ \A k, l \in DOMAIN heard : k < l => heard[k].at < heard[l].at
      /\ \A s \in Known : s.at <= latest.at /\ \A other \in Known : s.at = other.at => s = other
  BY EvaluatedInTime DEF DecoderInv, SamplesOK
<1>4. clock' \in 0..Horizon[config] /\ clock' \in Nat /\ clock <= clock' /\ Lag \in Int
  <2>1. Horizon[config] \in Nat
    BY <1>3, FeedbackAssumption
  <2>2. \/ clock' = clock
        \/ clock' = clock + 1 /\ clock < Horizon[config]
    BY <1>2
  <2>3. Lag \in Int
    BY FeedbackAssumption, Words
  <2> QED
    BY <2>1, <2>2, <2>3, <1>3
<1>5. Samples \subseteq Samples'
  BY <1>1, <1>3, <1>4 DEF Samples
<1>6. Known' = Known
  BY <1>1 DEF Known
<1>7. queue' \in Seq(Samples') /\ heard' \in Seq(Samples')
  BY <1>1, <1>3, <1>5
<1>8. SamplesOK'
  BY <1>1, <1>3, <1>4, <1>5, <1>6, <1>7 DEF SamplesOK
<1>9. Quiet(clock)'
  <2>1. \A i : ChangedAt(i)' = ChangedAt(i)
    BY <1>1, InputOKIs, InputOKBecomes
  <2>2. Quiet(clock')
    BY <1>2 DEF DecoderInv, TimesOK
  <2> QED
    BY <1>1, <2>1, <2>2 DEF Quiet
<1>10. TimesOK'
  <2>1. ~booted => clock' <= Lag
    BY <1>2 DEF DecoderInv, TimesOK, Prompt
  <2>2. queue # <<>> => clock' - Head(queue).at <= Lag
    <3> SUFFICES ASSUME queue # <<>>
                 PROVE  clock' - Head(queue).at <= Lag
      OBVIOUS
    <3>1. Head(queue) \in Known
      BY <1>3 DEF Known, Elements
    <3>2. Head(queue).at \in Nat
      BY <3>1, KnownSamples
    <3>3. clock - Head(queue).at <= Lag
      BY DEF DecoderInv, TimesOK
    <3>4. CASE clock' = clock
      BY <3>3, <3>4
    <3>5. CASE clock' = clock + 1 /\ Prompt(clock + 1)
      <4>1. clock + 1 <= Head(queue).at + Lag
        BY <3>5 DEF Prompt
      <4> QED
        BY <4>1, <3>2, <3>5, <1>3, <1>4
    <3> QED
      BY <3>4, <3>5, <1>2
  <2>3. d.lastEval <= clock'
    BY <1>3, <1>4 DEF DecoderInv, TimesOK, DecoderStates
  <2> QED
    BY <1>1, <1>9, <2>1, <2>2, <2>3 DEF DecoderInv, TimesOK
<1> QED
  BY <1>1, <1>8, <1>10, SameDecoder DEF DecoderInv

\* Whatever is sampled, and whenever the tasks run, the decoder holds what the
\* samples it heard mean, and it rests until the deadline it asks for.
THEOREM DecoderInvariant == Spec => []DecoderInv
<1>1. Init => DecoderInv
  BY InvInit
<1>2. DecoderInv /\ [Next]_vars => DecoderInv'
  <2> SUFFICES ASSUME DecoderInv, [Next]_vars
               PROVE  DecoderInv'
    OBVIOUS
  <2>1. CASE Capture
    BY <2>1, CaptureKeeps
  <2>2. CASE Boot
    BY <2>2, BootKeeps
  <2>3. CASE Receive
    BY <2>3, ReceiveKeeps
  <2>4. CASE ProcessExpired
    BY <2>4, ExpiryKeeps
  <2>5. CASE Tick
    BY <2>5, TickKeeps
  <2>6. CASE UNCHANGED vars
    BY <2>6, TickKeeps
  <2> QED
    BY <2>1, <2>2, <2>3, <2>4, <2>5, <2>6 DEF Next
<1> QED
  BY <1>1, <1>2, PTL DEF Spec

LEMMA InvTyped ==
  ASSUME DecoderInv
  PROVE  TypeOK
<1>1. /\ config \in Configs /\ clock \in 0..Horizon[config] /\ booted \in BOOLEAN
      /\ latest \in Samples \cup {NoSample}
      /\ queue \in Seq(Samples) /\ heard \in Seq(Samples) /\ Len(queue) <= Backlog
  BY DEF DecoderInv, SamplesOK
<1>2. Elements(queue) \cup Elements(heard) \subseteq Samples
  BY <1>1 DEF Elements
<1>3. d \in DecoderStates(config)
  BY DEF DecoderInv
<1>4. ASSUME NEW i \in DOMAIN d.inputs
      PROVE  /\ {d.inputs[i].valid, d.inputs[i].level} \subseteq BOOLEAN
             /\ {d.inputs[i].since} \cup Elements(d.inputs[i].edges) \subseteq TickType
             /\ Len(d.inputs[i].edges) <= EdgeCapacity
  <2>1. i \in Elements(config.inputs) /\ d.inputs[i] \in InputRecords
    BY <1>3 DEF DecoderStates
  <2>2. d.inputs[i].valid \in BOOLEAN /\ d.inputs[i].level \in BOOLEAN
    BY <2>1 DEF InputRecords
  <2>3. {d.inputs[i].valid, d.inputs[i].level} \subseteq BOOLEAN
    BY <2>2, Zenon
  <2>4. {d.inputs[i].since} \cup Elements(d.inputs[i].edges) \subseteq TickType
    BY <2>1 DEF InputRecords, Elements
  <2>5. /\ Len(d.inputs[i].edges) = IF Len(EdgesIn(i, heard)) < EdgeCapacity
                                    THEN Len(EdgesIn(i, heard)) ELSE EdgeCapacity
        /\ EdgesIn(i, heard) \in Seq(Nat)
    BY <2>1 DEF DecoderInv, InputOK
  <2>6. Len(d.inputs[i].edges) <= EdgeCapacity
    BY <2>5, Words
  <2> QED
    BY <2>3, <2>4, <2>6
<1>5. \A id \in DOMAIN d.phases :
        d.phases[id] \in [phase : Phases, since : TickType, matched : TickType]
  BY <1>3 DEF DecoderStates, PhaseRecords
<1>6. d.result \in Results /\ {d.deadline, d.lastNow} \subseteq TickType \cup {NoTick}
  BY <1>3 DEF DecoderStates
<1>7. d.lastEval \in 0..clock
  BY <1>3, EvaluatedInTime DEF DecoderStates, DecoderInv, TimesOK
<1> QED
  BY <1>1, <1>2, <1>4, <1>5, <1>6, <1>7, Zenon DEF TypeOK

\* Ticks stay ticks, no ring of edges outgrows its capacity and the result asserts
\* only what rules stand for.
THEOREM DecoderTypeCorrect == Spec => []TypeOK
<1>1. DecoderInv => TypeOK
  BY InvTyped
<1> QED
  BY <1>1, DecoderInvariant, PTL

-----------------------------------------------------------------------------
(* What predicates make of the ticks is what the samples mean.             *)

LEMMA Increasing ==
  ASSUME NEW E \in Seq(Nat), \A n \in 1..(Len(E) - 1) : E[n + 1] - E[n] \in 1..(Ticks - 1)
  PROVE  \A k, l \in 1..Len(E) : k <= l => E[k] <= E[l]
<1> SUFFICES ASSUME NEW k \in 1..Len(E)
             PROVE  \A l \in 1..Len(E) : k <= l => E[k] <= E[l]
  OBVIOUS
<1> DEFINE Bad == {l \in 1..Len(E) : k <= l /\ ~(E[k] <= E[l])}
<1>1. Len(E) \in Nat /\ \A n \in 1..Len(E) : E[n] \in Nat
  OBVIOUS
<1>2. Bad \in SUBSET Nat
  BY <1>1
<1>3. ASSUME Bad # {}
      PROVE  FALSE
  <2>1. PICK l \in Bad : \A n \in Bad : l <= n
    BY <1>2, <1>3, Least
  <2>2. l \in 1..Len(E) /\ k <= l /\ ~(E[k] <= E[l])
    OBVIOUS
  <2>3. l # k
    BY <2>2, <1>1
  <2>4. l - 1 \in 1..(Len(E) - 1) /\ k <= l - 1 /\ l - 1 + 1 = l
    BY <2>2, <2>3, <1>1
  <2>5. l - 1 \notin Bad
    BY <2>1, <2>2
  <2>6. E[k] <= E[l - 1]
    BY <2>4, <2>5, <1>1
  <2>7. E[l] - E[l - 1] \in 1..(Ticks - 1)
    BY <2>4
  <2>8. E[l - 1] \in Nat /\ E[l] \in Nat /\ E[k] \in Nat
    BY <2>2, <2>4, <1>1
  <2> QED
    BY <2>2, <2>6, <2>7, <2>8, SMTT(60)
<1> QED
  BY <1>3

\* The ticks of a ring and the times they stand for.
RingOf(ring, E, t) ==
  /\ ring \in Seq(TickType) /\ E \in Seq(Nat) /\ Len(ring) \in 1..Len(E)
  /\ \A n \in 1..Len(ring) : ring[n] = E[Len(E) - Len(ring) + n] % Ticks
  /\ \A n \in 1..(Len(E) - 1) : E[n + 1] - E[n] \in 1..(Ticks - 1)
  /\ t \in Nat /\ t - E[Len(E)] \in TickType

LEMMA RingTimes ==
  ASSUME NEW ring, NEW E, NEW t, RingOf(ring, E, t)
  PROVE  LET time(n) == E[Len(E) - Len(ring) + n]
             r == Len(ring)
         IN /\ r \in Nat /\ r >= 1
            /\ \A n \in 1..r : time(n) \in Nat /\ time(n) <= t
            /\ \A n \in 1..(r - 1) :
                 /\ Elapsed(ring[n + 1], ring[n]) = time(n + 1) - time(n)
                 /\ time(n + 1) - time(n) \in 1..(Ticks - 1)
            /\ \A n \in 1..r : t - time(n) < Ticks => Elapsed(t % Ticks, ring[n]) = t - time(n)
            /\ t - time(r) < Ticks /\ time(r) = E[Len(E)]
<1> DEFINE r == Len(ring)
           N == Len(E)
           time(n) == E[N - r + n]
<1>1. /\ r \in Nat /\ r >= 1 /\ N \in Nat /\ N >= r /\ t \in Nat
      /\ \A n \in 1..N : E[n] \in Nat
      /\ t - E[N] \in TickType
  BY SMTT(60) DEF RingOf
<1>2. \A n \in 1..r : N - r + n \in 1..N
  BY <1>1
<1>3. \A n \in 1..N : E[n] <= E[N]
  <2>1. \A k, l \in 1..N : k <= l => E[k] <= E[l]
    BY Increasing DEF RingOf
  <2>2. N \in 1..N /\ \A n \in 1..N : n <= N
    BY <1>1
  <2> QED
    BY <2>1, <2>2
<1>4. \A n \in 1..r : ring[n] = time(n) % Ticks
  BY DEF RingOf
<1>5. \A n \in 1..(r - 1) : E[N - r + n + 1] - E[N - r + n] \in 1..(Ticks - 1)
  <2>1. \A n \in 1..(r - 1) : N - r + n \in 1..(N - 1)
    BY <1>1
  <2> QED
    BY <2>1 DEF RingOf
<1>6. \A n \in 1..(r - 1) : N - r + n + 1 = N - r + (n + 1)
  BY <1>1
<1>7. N - r + r = N
  BY <1>1
<1> HIDE DEF r, N
<1>8. \A n \in 1..r : time(n) \in Nat /\ time(n) <= t
  <2>1. E[N] <= t /\ E[N] \in Nat
    BY <1>1, Words
  <2> SUFFICES ASSUME NEW n \in 1..r
               PROVE  time(n) \in Nat /\ time(n) <= t
    OBVIOUS
  <2>2. time(n) \in Nat /\ time(n) <= E[N]
    BY <1>1, <1>2, <1>3
  <2> QED
    BY <2>1, <2>2, <1>1
<1>9. \A n \in 1..(r - 1) : time(n + 1) - time(n) \in 1..(Ticks - 1)
  BY <1>5, <1>6
<1> HIDE DEF time
<1>10. ASSUME NEW n \in 1..(r - 1)
       PROVE  Elapsed(ring[n + 1], ring[n]) = time(n + 1) - time(n)
  <2>1. n \in 1..r /\ n + 1 \in 1..r
    BY <1>1
  <2>2. time(n) \in Int /\ time(n + 1) \in Int /\ time(n + 1) - time(n) \in TickType
    BY <2>1, <1>8, <1>9, Words
  <2>3. Elapsed(time(n + 1) % Ticks, time(n) % Ticks) = time(n + 1) - time(n)
    BY <2>2, ElapsedTime
  <2> QED
    BY <2>1, <2>3, <1>4
<1>11. ASSUME NEW n \in 1..r, t - time(n) < Ticks
       PROVE  Elapsed(t % Ticks, ring[n]) = t - time(n)
  <2>1. time(n) \in Int /\ t \in Int /\ t - time(n) \in TickType
    BY <1>1, <1>8, <1>11, Words
  <2>2. Elapsed(t % Ticks, time(n) % Ticks) = t - time(n)
    BY <2>1, ElapsedTime
  <2> QED
    BY <2>2, <1>4
<1>12. time(r) = E[N] /\ t - time(r) < Ticks
  BY <1>1, <1>7, Words DEF time
<1> QED
  BY <1>1, <1>8, <1>9, <1>10, <1>11, <1>12 DEF time, r, N

\* The ages of a run do not wrap: an edge that is older than a word would come after
\* a gap that is longer than a gap may be.
LEMMA RunAges ==
  ASSUME NEW ring, NEW E, NEW t, RingOf(ring, E, t),
         NEW p, p.max \in 1..MaxDuration, p.min \in 1..MaxDuration,
         p.window \in 1..MaxDuration, p.gap \in 1..MaxDuration,
         NEW n \in 1..Len(ring), IsRun(p, ring, n, t % Ticks),
         t - E[Len(E)] < p.gap
  PROVE  LET time(k) == E[Len(E) - Len(ring) + k] IN
         \A k \in (Len(ring) - n + 1)..(Len(ring) - 1) :
           t - time(k) <= p.window /\ time(k + 1) - time(k) \in p.min..p.max
<1> DEFINE r == Len(ring)
           time(k) == E[Len(E) - Len(ring) + k]
           age(k) == t - time(k)
           members == (r - n + 1)..(r - 1)
<1>1. /\ r \in Nat /\ r >= 1
      /\ \A k \in 1..r : time(k) \in Nat /\ time(k) <= t
      /\ \A k \in 1..(r - 1) : Elapsed(ring[k + 1], ring[k]) = time(k + 1) - time(k)
      /\ \A k \in 1..r : age(k) < Ticks => Elapsed(t % Ticks, ring[k]) = age(k)
      /\ time(r) = E[Len(E)] /\ t \in Nat
  <2>1. t \in Nat
    BY DEF RingOf
  <2> QED
    BY <2>1, RingTimes
<1>2. members \subseteq 1..(r - 1) /\ members \in SUBSET (0..r)
  BY <1>1, SMTT(60)
<1>3. \A k \in members : /\ Elapsed(ring[k + 1], ring[k]) \in p.min..p.max
                         /\ Elapsed(t % Ticks, ring[k]) <= p.window
  BY DEF IsRun
<1>4. age(r) < p.gap
  BY <1>1
<1> HIDE DEF r, time, members
<1>5. \A k \in members : time(k + 1) - time(k) \in p.min..p.max
  BY <1>1, <1>2, <1>3
<1> DEFINE Old == {k \in members : ~(age(k) <= p.window)}
<1>6. ASSUME Old # {}
      PROVE  FALSE
  <2>1. Old \in SUBSET (0..r)
    BY <1>2
  <2>2. PICK k \in Old : \A l \in Old : l <= k
    BY <2>1, <1>1, <1>6, Greatest
  <2>3. k \in members /\ k \in 1..(r - 1) /\ k + 1 \in 1..r /\ k \in 1..r
    BY <1>1, <1>2
  <2>4. age(k + 1) <= MaxDuration
    <3>1. CASE k + 1 = r
      BY <3>1, <1>1, <1>4, Words, SMTT(60)
    <3>2. CASE k + 1 # r
      <4>1. k + 1 \in members
        BY <2>3, <3>2, <1>1 DEF members
      <4>2. k + 1 \notin Old
        BY <2>2, <2>3
      <4>3. age(k + 1) <= p.window
        BY <4>1, <4>2
      <4> QED
        <5>1. p.window \in Int /\ MaxDuration \in Int /\ p.window <= MaxDuration
          BY Words
        <5>2. time(k + 1) \in Nat /\ t \in Nat
          BY <2>3, <1>1
        <5>3. age(k + 1) \in Int
          BY <5>2
        <5> HIDE DEF age
        <5> QED
          BY <4>3, <5>1, <5>3
    <3> QED
      BY <3>1, <3>2
  <2>5. time(k + 1) - time(k) \in p.min..p.max
    BY <2>3, <1>5
  <2>6. time(k) \in Nat /\ time(k + 1) \in Nat /\ t \in Nat
    BY <2>3, <1>1
  <2>7. age(k) < Ticks
    BY <2>4, <2>5, <2>6, Words, SMTT(60)
  <2>8. age(k) <= p.window
    BY <2>3, <2>7, <1>1, <1>3
  <2> QED
    BY <2>2, <2>8
<1>7. \A k \in members : age(k) <= p.window
  BY <1>6
<1> QED
  BY <1>5, <1>7 DEF members, time, r

LEMMA StableTrue ==
  ASSUME NEW story \in Seq(StoryRecords), story # <<>>,
         \A k, l \in DOMAIN story : k < l => story[k].at < story[l].at,
         NEW p, p.input \in Elements(config.inputs), p.hold \in 1..MaxDuration,
         NEW input, InputMeans(input, story, p.input), NEW t \in Nat,
         Newest(story).at <= t, t - LastChange(p.input, story) < Ticks
  PROVE  StableHolds(p, input, t % Ticks) <=> StableMeans(p, story, t)
<1> DEFINE i == p.input
           m == Len(story)
           level(k) == story[k].levels[i]
<1>1. /\ m \in Nat /\ m >= 1 /\ DOMAIN story = 1..m /\ p.hold \in Nat
      /\ \A k \in 1..m : story[k].at \in Nat
  <2>1. m \in Nat /\ m >= 1 /\ DOMAIN story = 1..m /\ \A k \in 1..m : story[k] \in StoryRecords
    OBVIOUS
  <2>2. \A s \in StoryRecords : s.at \in Nat
    BY DEF StoryRecords
  <2>3. p.hold \in Nat
    BY Words
  <2> QED
    BY <2>1, <2>2, <2>3
<1>2. PICK k0 \in 1..m :
        /\ LastChange(i, story) = story[k0].at
        /\ \A l \in k0..m : level(l) = level(k0)
        /\ k0 \in Steady(i, story) /\ \A l \in Steady(i, story) : k0 <= l
  BY LastChangeIs
<1>3. input.level = level(m) /\ input.since = story[k0].at % Ticks
  BY <1>2 DEF InputMeans, Newest
<1>4. \A k \in 1..m : story[k].at <= t
  <2>1. story[m].at <= t
    BY DEF Newest
  <2> HIDE DEF m
  <2>2. \A k \in 1..m : k = m \/ (k < m /\ m \in 1..m)
    BY <1>1
  <2>3. \A k \in 1..m : k = m \/ story[k].at < story[m].at
    BY <1>1, <2>2
  <2> QED
    BY <2>1, <2>3, <1>1
<1>5. Elapsed(t % Ticks, input.since) = t - story[k0].at
  <2>1. t \in Int /\ story[k0].at \in Int /\ t - story[k0].at \in TickType
    BY <1>1, <1>2, <1>4, Words
  <2> QED
    BY <2>1, <1>3, ElapsedTime
<1>6. level(m) = level(k0)
  BY <1>1, <1>2
<1>7. ASSUME StableHolds(p, input, t % Ticks)
      PROVE  StableMeans(p, story, t)
  <2>1. level(m) = p.level /\ t - story[k0].at >= p.hold
    BY <1>3, <1>5, <1>7 DEF StableHolds
  <2>2. \A l \in k0..m : level(l) = p.level
    BY <2>1, <1>2, <1>6
  <2> QED
    BY <2>1, <2>2, <1>1 DEF StableMeans
<1>8. ASSUME StableMeans(p, story, t)
      PROVE  StableHolds(p, input, t % Ticks)
  <2>1. PICK k \in 1..m : t - story[k].at >= p.hold /\ \A l \in k..m : level(l) = p.level
    BY <1>1, <1>8 DEF StableMeans
  <2>2. k \in Steady(i, story)
    BY <2>1, <1>1 DEF Steady
  <2>3. k0 <= k
    BY <2>2, <1>2
  <2>4. story[k0].at <= story[k].at
    <3>1. k0 = k \/ k0 < k
      BY <2>1, <2>3, <1>1
    <3> QED
      BY <3>1, <2>1, <1>1, SMTT(60)
  <2>5. t - story[k0].at >= p.hold
    BY <2>1, <2>4, <1>1
  <2>6. level(m) = p.level
    BY <2>1, <1>1
  <2> QED
    BY <2>5, <2>6, <1>3, <1>5 DEF StableHolds
<1> QED
  BY <1>7, <1>8

\* The shape of a periodic predicate, with its bounds.
PeriodicTyped(p) ==
  /\ p.min \in 1..MaxDuration /\ p.max \in 1..MaxDuration
  /\ p.window \in 1..MaxDuration /\ p.gap \in 1..MaxDuration
  /\ p.edges \in 2..EdgeCapacity

\* PeriodicMeans, of the edges alone.
EdgesMean(p, E, t) ==
  LET oldest == Len(E) - p.edges + 1 IN
  /\ oldest >= 1
  /\ t - E[oldest] <= p.window /\ t - E[Len(E)] < p.gap
  /\ \A k \in oldest..(Len(E) - 1) : E[k + 1] - E[k] \in p.min..p.max

\* PeriodicHolds, of the ring alone.
RingHolds(p, ring, now) ==
  /\ RunLength(p, ring, now) >= p.edges
  /\ Elapsed(now, RunOldest(p, ring, now)) <= p.window
  /\ Elapsed(now, Newest(ring)) < p.gap

LEMMA PeriodicTrue ==
  ASSUME NEW ring, NEW E, NEW t, RingOf(ring, E, t), NEW p, PeriodicTyped(p),
         Len(ring) = IF Len(E) < EdgeCapacity THEN Len(E) ELSE EdgeCapacity
  PROVE  RingHolds(p, ring, t % Ticks) <=> EdgesMean(p, E, t)
<1> DEFINE r == Len(ring)
           N == Len(E)
           now == t % Ticks
           time(k) == E[N - r + k]
           L == RunLength(p, ring, now)
<1>1. /\ r \in Nat /\ r >= 1
      /\ \A k \in 1..r : time(k) \in Nat /\ time(k) <= t
      /\ \A k \in 1..(r - 1) :
           /\ Elapsed(ring[k + 1], ring[k]) = time(k + 1) - time(k)
           /\ time(k + 1) - time(k) \in 1..(Ticks - 1)
      /\ \A k \in 1..r : t - time(k) < Ticks => Elapsed(now, ring[k]) = t - time(k)
      /\ t - time(r) < Ticks /\ time(r) = E[N]
  BY RingTimes
<1>2. t \in Nat /\ N \in Nat /\ r \in 1..N /\ ring \in Seq(TickType) /\ E \in Seq(Nat)
  BY DEF RingOf
<1>3. now \in Int /\ ring # <<>>
  <2>1. t \in Int
    BY <1>2
  <2>2. now \in TickType
    BY <2>1, Wrapped, Zenon
  <2> QED
    BY <1>1, <2>2, Words
<1>4. /\ L \in 1..r /\ IsRun(p, ring, L, now)
      /\ \A n \in 1..r : IsRun(p, ring, n, now) => n <= L
  BY <1>2, <1>3, RunLengthIsLongest
<1>5. /\ p.min \in Nat /\ p.max \in Nat /\ p.window \in Nat /\ p.gap \in Nat /\ p.edges \in Nat
      /\ p.edges >= 2 /\ p.edges <= EdgeCapacity
      /\ p.window < Ticks /\ p.gap < Ticks
  BY Words, SMTT(60) DEF PeriodicTyped
<1> DEFINE e == p.edges
<1>6. Newest(ring) = ring[r] /\ Elapsed(now, ring[r]) = t - E[N] /\ E[N] \in Nat
  <2>1. Newest(ring) = ring[r]
    BY DEF Newest
  <2> HIDE DEF r, N, time, now
  <2>2. r \in 1..r
    BY <1>1
  <2> QED
    BY <1>1, <2>1, <2>2
<1>7. RunOldest(p, ring, now) = ring[r - L + 1]
  BY DEF RunOldest
<1>8. /\ r \in Nat /\ N \in Nat /\ L \in Nat /\ e \in Nat /\ e >= 2
      /\ 1 <= L /\ L <= r /\ r <= N /\ (e <= N <=> e <= r)
  <2>1. r \in Nat /\ N \in Nat /\ r <= N /\ r = IF N < EdgeCapacity THEN N ELSE EdgeCapacity
    BY <1>2
  <2>2. e \in Nat /\ e >= 2 /\ e <= EdgeCapacity /\ EdgeCapacity \in Nat
    BY <1>5, Words
  <2>3. L \in 1..r
    BY <1>4
  <2> HIDE DEF r, N, L, e
  <2>4. L \in Nat /\ 1 <= L /\ L <= r
    BY <2>1, <2>3
  <2>5. e <= N <=> e <= r
    BY <2>1, <2>2
  <2> QED
    BY <2>1, <2>2, <2>4, <2>5
<1>9. /\ \A k : time(k) = E[N - r + k]
      /\ \A k \in 1..N : E[k] \in Nat
  BY <1>2
<1>10. \A k, l \in 1..N : k <= l => E[k] <= E[l]
  BY Increasing DEF RingOf
<1>11. /\ EdgesMean(p, E, t) <=>
            /\ N - e + 1 >= 1 /\ t - E[N - e + 1] <= p.window /\ t - E[N] < p.gap
            /\ \A k \in (N - e + 1)..(N - 1) : E[k + 1] - E[k] \in p.min..p.max
       /\ RingHolds(p, ring, now) <=>
            /\ L >= e /\ Elapsed(now, ring[r - L + 1]) <= p.window
            /\ t - E[N] < p.gap
  BY <1>6, <1>7 DEF EdgesMean, RingHolds
<1>12. ASSUME NEW n \in 1..r, IsRun(p, ring, n, now), t - E[N] < p.gap
       PROVE  \A k \in (r - n + 1)..(r - 1) :
                t - time(k) <= p.window /\ time(k + 1) - time(k) \in p.min..p.max
  BY <1>12, RunAges DEF PeriodicTyped
<1>13. \A n : IsRun(p, ring, n, now) <=>
         \A k \in (r - n + 1)..(r - 1) :
           /\ Elapsed(ring[k + 1], ring[k]) \in p.min..p.max
           /\ Elapsed(now, ring[k]) <= p.window
  BY DEF IsRun
<1> HIDE DEF r, N, L, e, now, time
<1>14. ASSUME RingHolds(p, ring, now)
       PROVE  EdgesMean(p, E, t)
  <2>1. L >= e /\ t - E[N] < p.gap
    BY <1>11, <1>14
  <2>2. \A k \in (r - L + 1)..(r - 1) :
          t - time(k) <= p.window /\ time(k + 1) - time(k) \in p.min..p.max
    BY <2>1, <1>4, <1>12
  <2>3. /\ N - e + 1 >= 1 /\ r - e + 1 \in (r - L + 1)..(r - 1)
        /\ N - r + (r - e + 1) = N - e + 1
    BY <2>1, <1>8
  <2>4. t - E[N - e + 1] <= p.window
    <3>1. t - time(r - e + 1) <= p.window
      BY <2>2, <2>3
    <3> QED
      BY <3>1, <2>3, <1>9
  <2>5. ASSUME NEW k \in (N - e + 1)..(N - 1)
        PROVE  E[k + 1] - E[k] \in p.min..p.max
    <3> DEFINE l == k - N + r
    <3>1. /\ l \in (r - L + 1)..(r - 1)
          /\ N - r + l = k /\ N - r + (l + 1) = k + 1
      BY <2>1, <1>8
    <3> HIDE DEF l
    <3>2. time(l + 1) - time(l) \in p.min..p.max
      BY <3>1, <2>2
    <3> QED
      BY <3>1, <3>2, <1>9
  <2> QED
    BY <2>1, <2>3, <2>4, <2>5, <1>11
<1>15. ASSUME EdgesMean(p, E, t)
       PROVE  RingHolds(p, ring, now)
  <2>1. /\ N - e + 1 >= 1
        /\ t - E[N - e + 1] <= p.window /\ t - E[N] < p.gap
        /\ \A k \in (N - e + 1)..(N - 1) : E[k + 1] - E[k] \in p.min..p.max
    BY <1>11, <1>15
  <2>2. e \in 1..r
    BY <2>1, <1>8
  <2>3. ASSUME NEW k \in (r - e + 1)..(r - 1)
        PROVE  /\ Elapsed(ring[k + 1], ring[k]) \in p.min..p.max
               /\ Elapsed(now, ring[k]) <= p.window
    <3> DEFINE n == N - r + k
               oldest == N - e + 1
    <3>1. /\ k \in 1..(r - 1) /\ k \in 1..r /\ N - r + (k + 1) = n + 1
          /\ n \in oldest..(N - 1) /\ n \in 1..N /\ oldest \in 1..N /\ oldest <= n
      BY <2>2, <1>8
    <3>2. time(k) = E[n] /\ time(k + 1) = E[n + 1]
      BY <3>1, <1>9
    <3> HIDE DEF n, oldest
    <3>3. E[oldest] <= E[n]
      BY <3>1, <1>10
    <3>4. t - E[oldest] <= p.window
      BY <2>1 DEF oldest
    <3>5. E[n] \in Nat /\ E[oldest] \in Nat /\ t \in Nat
      BY <3>1, <1>2, <1>9
    <3>6. t - E[n] <= p.window /\ t - E[n] < Ticks
      <4>1. p.window \in Nat /\ p.window < Ticks /\ Ticks \in Nat
        BY <1>5, Words
      <4> QED
        BY <3>3, <3>4, <3>5, <4>1, SMTT(60)
    <3>7. E[n + 1] - E[n] \in p.min..p.max
      BY <3>1, <2>1 DEF oldest
    <3>8. Elapsed(now, ring[k]) = t - time(k) /\ Elapsed(ring[k + 1], ring[k]) = time(k + 1) - time(k)
      BY <3>1, <3>2, <3>6, <1>1
    <3> QED
      BY <3>2, <3>6, <3>7, <3>8
  <2>4. IsRun(p, ring, e, now)
    BY <2>3, <1>13
  <2>5. e <= L
    BY <2>2, <2>4, <1>4
  <2>6. Elapsed(now, ring[r - L + 1]) <= p.window
    <3>1. r - L + 1 \in (r - L + 1)..(r - 1)
      BY <2>5, <1>8
    <3> QED
      BY <3>1, <1>4, <1>13
  <2> QED
    BY <2>1, <2>5, <2>6, <1>8, <1>11
<1> QED
  BY <1>14, <1>15 DEF now

\* A story is told in the order of its times.
Ordered(story) == \A k, l \in DOMAIN story : k < l => story[k].at < story[l].at

LEMMA LastChangeInTime ==
  ASSUME NEW story \in Seq(StoryRecords), story # <<>>, Ordered(story),
         NEW i \in Elements(config.inputs)
  PROVE  LastChange(i, story) \in Nat /\ LastChange(i, story) <= Newest(story).at
<1> DEFINE m == Len(story)
<1>1. m \in Nat /\ m >= 1 /\ DOMAIN story = 1..m /\ \A k \in 1..m : story[k] \in StoryRecords
  OBVIOUS
<1>2. \A s \in StoryRecords : s.at \in Nat
  BY DEF StoryRecords
<1>3. PICK k \in 1..m : LastChange(i, story) = story[k].at
  BY LastChangeIs
<1>4. Newest(story) = story[m]
  BY DEF Newest
<1> HIDE DEF m
<1>5. k = m \/ (k < m /\ m \in 1..m)
  BY <1>1
<1>6. story[k].at <= story[m].at /\ story[k].at \in Nat
  BY <1>1, <1>2, <1>5 DEF Ordered
<1> QED
  BY <1>3, <1>4, <1>6

LEMMA RingIs ==
  ASSUME NEW story \in Seq(StoryRecords), story # <<>>, Ordered(story),
         NEW i \in Elements(config.inputs), NEW input \in InputRecords,
         InputMeans(input, story, i), EdgesIn(i, story) # <<>>,
         NEW t \in Nat, Newest(story).at <= t, t - LastChange(i, story) < Ticks
  PROVE  RingOf(input.edges, EdgesIn(i, story), t)
<1> DEFINE E == EdgesIn(i, story)
           ring == input.edges
<1>1. /\ E \in Seq(Nat) /\ Newest(E) = LastChange(i, story)
      /\ Len(ring) = IF Len(E) < EdgeCapacity THEN Len(E) ELSE EdgeCapacity
      /\ \A n \in DOMAIN ring : ring[n] = E[Len(E) - Len(ring) + n] % Ticks
      /\ \A n \in 1..(Len(E) - 1) : E[n + 1] - E[n] \in 1..(Ticks - 1)
  BY DEF InputMeans
<1>2. ring \in Seq(TickType)
  BY DEF InputRecords
<1> HIDE DEF E, ring
<1>3. Len(E) \in Nat /\ Len(E) >= 1
  BY <1>1 DEF E
<1>4. Len(ring) \in 1..Len(E) /\ DOMAIN ring = 1..Len(ring)
  BY <1>1, <1>2, <1>3, Words
<1>5. E[Len(E)] = LastChange(i, story)
  BY <1>1 DEF Newest
<1>6. LastChange(i, story) \in Nat /\ LastChange(i, story) <= Newest(story).at
  BY LastChangeInTime
<1>7. Newest(story).at \in Nat
  <2>1. Newest(story) \in StoryRecords
    BY DEF Newest
  <2> QED
    BY <2>1 DEF StoryRecords
<1>8. t - E[Len(E)] \in TickType
  BY <1>5, <1>6, <1>7, Words
<1> QED
  BY <1>1, <1>2, <1>4, <1>8 DEF RingOf, E, ring

\* A predicate holds of what an input has kept if and only if it is true of all that
\* was heard of it.
LEMMA PredicateMeans ==
  ASSUME Compiles(config), NEW r \in EnabledRules(config), NEW p \in Predicates(r),
         NEW story \in Seq(StoryRecords), Ordered(story),
         NEW input \in InputRecords, InputMeans(input, story, p.input), NEW t \in Nat,
         story # <<>> =>
           Newest(story).at <= t /\ t - LastChange(p.input, story) < Ticks
  PROVE  PredicateHolds(p, input, t % Ticks) <=> Means(p, story, t)
<1> DEFINE E == EdgesIn(p.input, story)
<1>1. /\ p.input \in Elements(config.inputs)
      /\ p.kind = "StableLevel" => p.hold \in 1..MaxDuration
      /\ p.kind # "StableLevel" => PeriodicTyped(p)
  BY PredicateTypes DEF PeriodicTyped
<1>2. /\ input.valid = (story # <<>>)
      /\ E \in Seq(Nat) /\ input.edges \in Seq(TickType)
      /\ Len(input.edges) = IF Len(E) < EdgeCapacity THEN Len(E) ELSE EdgeCapacity
  BY DEF InputMeans, InputRecords
<1>3. PeriodicMeans(p, story, t) <=> EdgesMean(p, E, t)
  BY Zenon DEF PeriodicMeans, EdgesMean, Newest
<1>4. PeriodicHolds(p, input, t % Ticks) <=>
        input.edges # <<>> /\ RingHolds(p, input.edges, t % Ticks)
  BY Zenon DEF PeriodicHolds, RingHolds
<1>5. CASE story = <<>>
  <2>1. ~PredicateHolds(p, input, t % Ticks)
    BY <1>2, <1>5 DEF PredicateHolds
  <2>2. CASE p.kind = "StableLevel"
    <3>1. ~StableMeans(p, story, t)
      BY <1>5 DEF StableMeans
    <3> QED
      BY <2>1, <2>2, <3>1 DEF Means
  <2>3. CASE p.kind # "StableLevel"
    <3>1. E = <<>>
      <4>1. ChangesIn(p.input, <<>>) = {}
        BY DEF ChangesIn
      <4> QED
        BY <4>1, <1>5, FS_EmptySet, SMTT(60) DEF EdgesIn
    <3>2. p.edges \in Nat /\ p.edges >= 2
      BY <1>1, <2>3, Words DEF PeriodicTyped
    <3>3. ~EdgesMean(p, E, t)
      BY <3>1, <3>2 DEF EdgesMean
    <3> QED
      BY <2>1, <2>3, <3>3, <1>3 DEF Means
  <2> QED
    BY <2>2, <2>3
<1>6. CASE story # <<>> /\ p.kind = "StableLevel"
  <2>1. StableHolds(p, input, t % Ticks) <=> StableMeans(p, story, t)
    BY <1>1, <1>6, StableTrue DEF Ordered
  <2> QED
    BY <2>1, <1>2, <1>6 DEF PredicateHolds, Means
<1>7. CASE story # <<>> /\ p.kind # "StableLevel"
  <2>1. CASE E = <<>>
    <3>1. input.edges = <<>>
      BY <2>1, <1>2, Words
    <3>2. p.edges \in Nat /\ p.edges >= 2
      BY <1>1, <1>7, Words DEF PeriodicTyped
    <3>3. ~EdgesMean(p, E, t)
      BY <2>1, <3>2 DEF EdgesMean
    <3> QED
      BY <3>1, <3>3, <1>3, <1>4, <1>7, Zenon DEF PredicateHolds, Means
  <2>2. CASE E # <<>>
    <3>1. RingOf(input.edges, E, t)
      BY <1>1, <1>7, <2>2, RingIs
    <3>2. RingHolds(p, input.edges, t % Ticks) <=> EdgesMean(p, E, t)
      BY <3>1, <1>1, <1>2, <1>7, PeriodicTrue
    <3>3. input.edges # <<>>
      BY <3>1 DEF RingOf
    <3> QED
      BY <3>2, <3>3, <1>2, <1>3, <1>4, <1>7, Zenon DEF PredicateHolds, Means
  <2> QED
    BY <2>1, <2>2
<1> QED
  BY <1>5, <1>6, <1>7

\* At the last evaluation and now, and whenever inputs have changed recently enough.
LEMMA PredicateTrue ==
  ASSUME DecoderInv, NEW r \in EnabledRules(config), NEW p \in Predicates(r),
         NEW t \in Nat, t >= d.lastEval,
         heard # <<>> => \A i \in Elements(config.inputs) : t - ChangedAt(i) < Ticks
  PROVE  PredicateHolds(p, d.inputs[p.input], t % Ticks) <=> Means(p, heard, t)
<1> DEFINE i == p.input
<1>1. Compiles(config) /\ d \in DecoderStates(config) /\ clock \in Nat
  BY EvaluatedInTime
<1>2. i \in Elements(config.inputs)
  BY <1>1, PredicateTypes
<1>3. d.inputs[i] \in InputRecords /\ d.lastEval \in Nat
  BY <1>1, <1>2 DEF DecoderStates
<1>4. heard \in Seq(StoryRecords) /\ Ordered(heard)
  BY <1>1, SamplesAreRecords DEF DecoderInv, SamplesOK, Ordered
<1>5. InputMeans(d.inputs[i], heard, i)
  BY <1>2, InputOKIs DEF DecoderInv
<1>6. heard # <<>> => Newest(heard).at <= t
  <2>1. heard # <<>> => Newest(heard).at <= d.lastEval /\ Newest(heard).at \in Nat
    BY HeardIsOrdered DEF DecoderInv, TimesOK
  <2> QED
    BY <2>1, <1>3
<1>7. heard # <<>> => t - LastChange(i, heard) < Ticks
  BY <1>2, InputOKIs
<1> QED
  BY <1>1, <1>3, <1>4, <1>5, <1>6, <1>7, PredicateMeans

LEMMA InvEvidence ==
  ASSUME DecoderInv
  PROVE  EvidenceTrue
<1> SUFFICES ASSUME NEW r \in EnabledRules(config), NEW p \in Predicates(r)
             PROVE  PredicateHolds(p, d.inputs[p.input], clock % Ticks) = Means(p, heard, clock)
  BY DEF EvidenceTrue
<1>1. clock \in Nat /\ clock >= d.lastEval
  <2>1. d.lastEval \in Nat /\ d.lastEval <= clock /\ clock \in Nat
    BY EvaluatedInTime DEF DecoderStates, DecoderInv, TimesOK
  <2> QED
    BY <2>1
<1>2. heard # <<>> => \A i \in Elements(config.inputs) : clock - ChangedAt(i) < Ticks
  BY DEF DecoderInv, TimesOK, Quiet
<1>3. PredicateHolds(p, d.inputs[p.input], clock % Ticks) <=> Means(p, heard, clock)
  BY <1>1, <1>2, PredicateTrue
<1>4. PredicateHolds(p, d.inputs[p.input], clock % Ticks) \in BOOLEAN
  BY Zenon DEF PredicateHolds
<1>5. Means(p, heard, clock) \in BOOLEAN
  <2>1. StableMeans(p, heard, clock) \in BOOLEAN
    BY Zenon DEF StableMeans
  <2>2. PeriodicMeans(p, heard, clock) \in BOOLEAN
    BY Zenon DEF PeriodicMeans
  <2> QED
    BY <2>1, <2>2, Zenon DEF Means
<1> DEFINE holds == PredicateHolds(p, d.inputs[p.input], clock % Ticks)
           means == Means(p, heard, clock)
<1>6. (holds <=> means) /\ holds \in BOOLEAN /\ means \in BOOLEAN
  BY <1>3, <1>4, <1>5, Zenon
<1> HIDE DEF holds, means
<1>7. holds = means
  BY <1>6
<1> QED
  BY <1>7, Zenon DEF holds, means

\* Neither the wrap of the tick nor the ring of edges shows: every predicate is worth
\* what the accepted samples say (evaluate_predicate, push_edge).
THEOREM EvidenceIsTrue == Spec => []EvidenceTrue
<1>1. DecoderInv => EvidenceTrue
  BY InvEvidence
<1> QED
  BY <1>1, DecoderInvariant, PTL

-----------------------------------------------------------------------------
(* Until the deadline nothing changes by itself.                           *)

\* Nothing that is waited for comes within k ms.
Waited(S, now, k) == \A at \in S : IsFuture(now, at) => k < Elapsed(at, now)

LEMMA RingWaits ==
  ASSUME NEW ring, NEW E, NEW t, RingOf(ring, E, t), NEW p, PeriodicTyped(p),
         Len(ring) = IF Len(E) < EdgeCapacity THEN Len(E) ELSE EdgeCapacity,
         RingHolds(p, ring, t % Ticks), NEW k \in Nat, NEW u, u = t + k,
         Waited({(Newest(ring) + p.gap) % Ticks,
                 (RunOldest(p, ring, t % Ticks) + p.window + 1) % Ticks}, t % Ticks, k)
  PROVE  EdgesMean(p, E, u)
<1> DEFINE r == Len(ring)
           N == Len(E)
           now == t % Ticks
           time(n) == E[N - r + n]
           L == RunLength(p, ring, now)
           e == p.edges
           first == r - L + 1
           atGap == (ring[r] + p.gap) % Ticks
           atWindow == (ring[first] + p.window + 1) % Ticks
<1>1. /\ r \in Nat /\ r >= 1
      /\ \A n \in 1..r : time(n) \in Nat /\ time(n) <= t
      /\ \A n \in 1..(r - 1) : time(n + 1) - time(n) \in 1..(Ticks - 1)
      /\ \A n \in 1..r : t - time(n) < Ticks => Elapsed(now, ring[n]) = t - time(n)
      /\ t - time(r) < Ticks /\ time(r) = E[N]
  <2>1. LET time_(n) == E[Len(E) - Len(ring) + n]
            r_ == Len(ring)
        IN /\ r_ \in Nat /\ r_ >= 1
           /\ \A n \in 1..r_ : time_(n) \in Nat /\ time_(n) <= t
           /\ \A n \in 1..(r_ - 1) :
                /\ Elapsed(ring[n + 1], ring[n]) = time_(n + 1) - time_(n)
                /\ time_(n + 1) - time_(n) \in 1..(Ticks - 1)
           /\ \A n \in 1..r_ : t - time_(n) < Ticks => Elapsed(t % Ticks, ring[n]) = t - time_(n)
           /\ t - time_(r_) < Ticks /\ time_(r_) = E[Len(E)]
    BY RingTimes
  <2> QED
    BY <2>1
<1>2. /\ t \in Nat /\ N \in Nat /\ r \in 1..N /\ ring \in Seq(TickType) /\ E \in Seq(Nat)
      /\ ring # <<>> /\ \A n \in 1..r : ring[n] \in TickType
  BY SMTT(60) DEF RingOf
<1>3. now \in TickType /\ now \in Int
  <2>1. t \in Int
    BY <1>2
  <2>2. now \in TickType
    BY <2>1, Wrapped, Zenon
  <2> QED
    BY <2>2, Words
<1>4. L \in 1..r /\ IsRun(p, ring, L, now)
  BY <1>2, <1>3, RunLengthIsLongest
<1>5. /\ p.window \in Nat /\ p.gap \in Nat /\ e \in Nat /\ e >= 2
      /\ p.window <= MaxDuration /\ p.gap <= MaxDuration /\ MaxDuration < Ticks
      /\ MaxDuration \in Nat /\ Ticks \in Nat
  BY Words, SMTT(60) DEF PeriodicTyped
<1>6. EdgesMean(p, E, t)
  BY PeriodicTrue
<1>7. /\ L >= e /\ Elapsed(now, ring[first]) <= p.window /\ Elapsed(now, ring[r]) < p.gap
      /\ Waited({atGap, atWindow}, now, k)
  BY DEF RingHolds, Newest, RunOldest
<1>8. /\ IsFuture(now, atGap) => k < Elapsed(atGap, now)
      /\ IsFuture(now, atWindow) => k < Elapsed(atWindow, now)
  BY <1>7 DEF Waited
<1>9. \A m, n \in 1..N : m <= n => E[m] <= E[n]
  BY Increasing DEF RingOf
<1>10. /\ N - e + 1 >= 1
       /\ \A m \in (N - e + 1)..(N - 1) : E[m + 1] - E[m] \in p.min..p.max
  BY <1>6 DEF EdgesMean
<1>11. t - E[N] < p.gap
  BY <1>6 DEF EdgesMean
<1>12. \A n \in first..(r - 1) : t - time(n) <= p.window
  BY <1>4, <1>11, RunAges DEF PeriodicTyped
<1>13. \A n \in 1..N : E[n] \in Nat
  BY <1>2
<1>14. u - E[N - e + 1] <= p.window /\ u - E[N] < p.gap => EdgesMean(p, E, u)
  BY <1>10 DEF EdgesMean
<1>15. first = r - L + 1 /\ \A n : time(n) = E[N - r + n]
  OBVIOUS
<1> HIDE DEF r, N, now, time, L, e, first
<1>16. r \in Nat /\ N \in Nat /\ L \in Nat /\ 1 <= L /\ L <= r /\ r <= N /\ e <= L /\ e <= N
  BY <1>2, <1>4, <1>5, <1>7, <1>10
<1>17. first \in 1..r /\ first \in first..(r - 1) /\ first + 1 \in 1..r /\ first \in 1..(r - 1)
  BY <1>5, <1>15, <1>16
<1>18. u - E[N] < p.gap
  <2> DEFINE age == Elapsed(now, ring[r])
  <2>1. age = t - E[N] /\ r \in 1..r
    BY <1>1
  <2>2. ring[r] \in TickType /\ age < p.gap
    BY <2>1, <1>2, <1>7
  <2>3. t \in Nat /\ E[N] \in Nat /\ p.gap \in Nat /\ E[N] <= t
    BY <1>1, <1>2, <1>5, <2>1
  <2> HIDE DEF age
  <2>4. age \in Nat /\ MaxDuration \in Nat /\ p.gap <= MaxDuration
    BY <2>1, <2>3, <1>5, SMTT(60)
  <2>5. p.gap <= MaxDuration + age
    BY <2>3, <2>4
  <2>6. ring[r] \in Int
    BY <2>2, Words
  <2>7. IsFuture(now, atGap) /\ Elapsed(atGap, now) = p.gap - age
    BY <2>2, <2>3, <2>5, <2>6, <1>3, DueWhenOfAge DEF age
  <2>8. k < p.gap - age
    BY <2>7, <1>8
  <2> QED
    BY <2>1, <2>3, <2>4, <2>8, SMTT(60)
<1>19. u - time(first) <= p.window
  <2> DEFINE age == Elapsed(now, ring[first])
             h == p.window + 1
  <2>1. t - time(first) <= p.window
    BY <1>12, <1>17
  <2>2. time(first) \in Nat /\ time(first + 1) \in Nat /\ time(first + 1) <= t
        /\ time(first + 1) - time(first) \in 1..(Ticks - 1) /\ t \in Nat
    BY <1>1, <1>2, <1>17
  <2>3. age = t - time(first) /\ age >= 1
    <3>1. t - time(first) < Ticks /\ t - time(first) >= 1
      <4> DEFINE x == time(first)
                 y == time(first + 1)
      <4>1. /\ t \in Nat /\ x \in Nat /\ y \in Nat /\ y <= t /\ y - x >= 1 /\ t - x <= p.window
            /\ p.window \in Nat /\ p.window <= MaxDuration /\ MaxDuration \in Nat
            /\ Ticks \in Nat /\ MaxDuration < Ticks
        BY <2>1, <2>2, <1>5
      <4> HIDE DEF x, y
      <4>2. t - x < Ticks /\ t - x >= 1
        BY <4>1
      <4> QED
        BY <4>2 DEF x
    <3>2. age = t - time(first)
      BY <3>1, <1>1, <1>17
    <3> QED
      BY <3>1, <3>2
  <2>4. ring[first] \in Int /\ h \in Nat /\ h <= MaxDuration + age /\ age < h
    <3>1. ring[first] \in TickType
      BY <1>2, <1>17
    <3>2. age \in Nat /\ age >= 1 /\ age <= p.window /\ p.window \in Nat /\ MaxDuration \in Nat
          /\ p.window <= MaxDuration
      BY <2>1, <2>2, <2>3, <1>5, SMTT(60)
    <3> HIDE DEF age
    <3>3. h \in Nat /\ h <= MaxDuration + age /\ age < h
      BY <3>2
    <3>4. ring[first] \in Int
      BY <3>1, Words
    <3> QED
      BY <3>3, <3>4
  <2>5. atWindow = (ring[first] + h) % Ticks
    <3>1. ring[first] + p.window + 1 = ring[first] + h
      BY <2>4, <1>5, SMTT(60)
    <3> QED
      BY <3>1
  <2> HIDE DEF h, atWindow
  <2>6. IsFuture(now, atWindow) /\ Elapsed(atWindow, now) = h - age
    BY <2>4, <2>5, <1>3, DueWhenOfAge DEF age
  <2>7. k < h - age
    BY <2>6, <1>8
  <2> HIDE DEF age
  <2> QED
    BY <2>2, <2>3, <2>7, <1>5, SMTT(60) DEF h
<1>20. u - E[N - e + 1] <= p.window
  <2>1. N - r + first = N - L + 1 /\ N - L + 1 \in 1..N /\ N - e + 1 \in 1..N
        /\ N - L + 1 <= N - e + 1
    BY <1>5, <1>15, <1>16
  <2>2. E[N - L + 1] <= E[N - e + 1] /\ time(first) = E[N - L + 1]
    BY <2>1, <1>9, <1>15
  <2>3. E[N - L + 1] \in Nat /\ E[N - e + 1] \in Nat /\ t \in Nat
    BY <2>1, <1>2, <1>13
  <2> QED
    BY <2>2, <2>3, <1>5, <1>19, SMTT(60)
<1> QED
  BY <1>14, <1>18, <1>20

LEMMA MeansEarlier ==
  ASSUME NEW p, PeriodicTyped(p), NEW E \in Seq(Nat), NEW t \in Nat, NEW u \in Nat, t <= u,
         EdgesMean(p, E, u)
  PROVE  EdgesMean(p, E, t)
<1> DEFINE N == Len(E)
           e == p.edges
<1>1. /\ N - e + 1 >= 1 /\ u - E[N - e + 1] <= p.window /\ u - E[N] < p.gap
      /\ \A m \in (N - e + 1)..(N - 1) : E[m + 1] - E[m] \in p.min..p.max
  BY DEF EdgesMean
<1>2. N \in Nat /\ e \in Nat /\ e >= 2 /\ p.window \in Nat /\ p.gap \in Nat
  BY Words, SMTT(60) DEF PeriodicTyped
<1>3. N - e + 1 \in 1..N /\ N \in 1..N
  <2> HIDE DEF N, e
  <2> QED
    BY <1>1, <1>2
<1>4. E[N - e + 1] \in Nat /\ E[N] \in Nat
  BY <1>3
<1> HIDE DEF N, e
<1>5. t - E[N - e + 1] <= p.window /\ t - E[N] < p.gap
  <2> DEFINE x == E[N - e + 1]
             y == E[N]
  <2>1. u - x <= p.window /\ u - y < p.gap /\ x \in Nat /\ y \in Nat
    BY <1>1, <1>4
  <2> HIDE DEF x, y
  <2>2. t - x <= p.window /\ t - y < p.gap
    BY <2>1, <1>2
  <2> QED
    BY <2>2 DEF x, y
<1> QED
  BY <1>1, <1>5 DEF EdgesMean, N, e

\* A decoder that was evaluated holds what a story says.
Mirrors(s, story) ==
  /\ s \in DecoderStates(config) /\ s.lastNow = s.lastEval % Ticks /\ Rested(config, s)
  /\ story \in Seq(StoryRecords) /\ Ordered(story)
  /\ story # <<>> => Newest(story).at <= s.lastEval
  /\ \A i \in Elements(config.inputs) : InputMeans(s.inputs[i], story, i)

LEMMA Mirrored ==
  ASSUME NEW s, NEW story, Mirrors(s, story)
  PROVE  /\ s \in DecoderStates(config) /\ Rested(config, s)
         /\ s.lastEval \in Nat /\ s.lastNow = s.lastEval % Ticks
         /\ story \in Seq(StoryRecords) /\ Ordered(story)
         /\ \A n \in DOMAIN story : story[n].at \in Nat
         /\ story # <<>> => Newest(story).at \in Nat /\ Newest(story).at <= s.lastEval
         /\ \A i \in Elements(config.inputs) :
              s.inputs[i] \in InputRecords /\ InputMeans(s.inputs[i], story, i)
<1>1. /\ s \in DecoderStates(config) /\ Rested(config, s) /\ s.lastNow = s.lastEval % Ticks
      /\ story \in Seq(StoryRecords) /\ Ordered(story)
      /\ story # <<>> => Newest(story).at <= s.lastEval
      /\ \A i \in Elements(config.inputs) : InputMeans(s.inputs[i], story, i)
  BY DEF Mirrors
<1>2. s.lastEval \in Nat /\ \A i \in Elements(config.inputs) : s.inputs[i] \in InputRecords
  BY <1>1 DEF DecoderStates
<1>3. \A n \in DOMAIN story : story[n].at \in Nat
  <2>1. story \in Seq(StoryRecords)
    BY <1>1
  <2>2. \A n \in DOMAIN story : story[n] \in StoryRecords
    BY <2>1
  <2> QED
    BY <2>2 DEF StoryRecords
<1>4. story # <<>> => Newest(story).at \in Nat
  <2>1. story # <<>> => Newest(story) \in StoryRecords
    BY <1>1 DEF Newest
  <2> QED
    BY <2>1 DEF StoryRecords
<1>5. s.lastEval \in Nat /\ s.lastNow = s.lastEval % Ticks
  BY <1>1, <1>2
<1>6. s \in DecoderStates(config) /\ Rested(config, s)
  BY <1>1
<1>7. story \in Seq(StoryRecords) /\ Ordered(story)
  BY <1>1
<1>8. story # <<>> => Newest(story).at \in Nat /\ Newest(story).at <= s.lastEval
  BY <1>1, <1>4
<1>9. \A i \in Elements(config.inputs) :
        s.inputs[i] \in InputRecords /\ InputMeans(s.inputs[i], story, i)
  BY <1>1, <1>2
<1> QED
  BY <1>3, <1>5, <1>6, <1>7, <1>8, <1>9, Zenon

LEMMA PredicateMirrored ==
  ASSUME Compiles(config), NEW s, NEW story, Mirrors(s, story),
         NEW r \in EnabledRules(config), NEW p \in Predicates(r),
         NEW t \in Nat, t >= s.lastEval,
         story # <<>> => \A i \in Elements(config.inputs) : t - LastChange(i, story) < Ticks
  PROVE  PredicateHolds(p, s.inputs[p.input], t % Ticks) <=> Means(p, story, t)
<1>1. p.input \in Elements(config.inputs)
  BY PredicateTypes
<1>2. /\ story \in Seq(StoryRecords) /\ Ordered(story)
      /\ s.inputs[p.input] \in InputRecords /\ InputMeans(s.inputs[p.input], story, p.input)
  BY <1>1, Mirrored
<1>3. story # <<>> => Newest(story).at <= t
  <2>1. s.lastEval \in Nat /\ (story # <<>> => Newest(story).at \in Nat /\ Newest(story).at <= s.lastEval)
    BY Mirrored
  <2> QED
    BY <2>1
<1> QED
  BY <1>1, <1>2, <1>3, PredicateMeans

\* Time has passed since its last evaluation, and no deadline came.
Idle(s, story, t) ==
  /\ t \in Nat /\ t - s.lastEval \in 0..(Half - 1)
  /\ story # <<>> => \A i \in Elements(config.inputs) : t - LastChange(i, story) < Ticks
  /\ s.deadline # NoTick => t < DueAt(s)

LEMMA IdleTimes ==
  ASSUME Compiles(config), NEW s, NEW story, Mirrors(s, story), NEW t, Idle(s, story, t)
  PROVE  /\ s.lastEval \in Nat /\ s.lastNow \in TickType /\ s.lastNow \in Int
         /\ s.lastNow = s.lastEval % Ticks
         /\ t \in Nat /\ t >= s.lastEval /\ t - s.lastEval \in Nat
         /\ s.lastEval + (t - s.lastEval) = t
         /\ (s.lastNow + (t - s.lastEval)) % Ticks = t % Ticks
<1>1. s.lastNow = s.lastEval % Ticks /\ s.lastEval \in Nat
  BY Mirrored
<1>2. t \in Nat /\ t - s.lastEval \in 0..(Half - 1)
  BY DEF Idle
<1>3. t >= s.lastEval /\ t - s.lastEval \in Nat /\ s.lastEval + (t - s.lastEval) = t
  BY <1>1, <1>2, Words
<1>4. s.lastEval \in Int /\ t - s.lastEval \in Int
  BY <1>1, <1>3
<1>5. ((s.lastEval % Ticks) + (t - s.lastEval)) % Ticks = (s.lastEval + (t - s.lastEval)) % Ticks
  BY <1>4, TicksCongruent, Zenon
<1>6. s.lastNow \in TickType
  BY <1>1, <1>4, Wrapped, Zenon
<1> QED
  BY <1>1, <1>2, <1>3, <1>5, <1>6, Words

LEMMA NothingDue ==
  ASSUME Compiles(config), NEW s, NEW story, Mirrors(s, story), NEW t, Idle(s, story, t),
         NEW at \in TickType,
         IsFuture(s.lastNow, at) =>
           s.deadline # NoTick /\ Elapsed(s.deadline, s.lastNow) <= Elapsed(at, s.lastNow)
  PROVE  IsFuture(s.lastNow, at) => t - s.lastEval < Elapsed(at, s.lastNow)
<1> SUFFICES ASSUME IsFuture(s.lastNow, at)
             PROVE  t - s.lastEval < Elapsed(at, s.lastNow)
  OBVIOUS
<1>1. s.lastEval \in Nat /\ s.lastNow \in Int /\ t \in Nat
  BY IdleTimes
<1>2. s.deadline \in TickType
  BY Mirrored DEF DecoderStates
<1>3. s.deadline \in Int /\ at \in Int
  BY <1>2, Words
<1> DEFINE left == Elapsed(s.deadline, s.lastNow)
           until == Elapsed(at, s.lastNow)
<1>4. left \in TickType /\ until \in TickType
  BY <1>1, <1>3, ElapsedType
<1>5. t < s.lastEval + left /\ left <= until
  BY DEF Idle, DueAt
<1> HIDE DEF left, until
<1>6. left \in Nat /\ until \in Nat
  BY <1>4, Words
<1>7. t - s.lastEval < until
  BY <1>1, <1>5, <1>6
<1> QED
  BY <1>7 DEF until

\* What an idle decoder waits for is farther away than the time that has passed.
LEMMA NoneDue ==
  ASSUME Compiles(config), NEW s, NEW story, Mirrors(s, story), NEW t, Idle(s, story, t),
         NEW r \in EnabledRules(config)
  PROVE  /\ \A p \in Predicates(r) :
              Waited(PredicateDeadlines(p, s.inputs[p.input], s.lastNow), s.lastNow, t - s.lastEval)
         /\ r.kind = "Movement" =>
              Waited(LifecycleDeadlines(r, s.phases[r.id]), s.lastNow, t - s.lastEval)
<1> DEFINE awaited(at) == IsFuture(s.lastNow, at) =>
             s.deadline # NoTick /\ Elapsed(s.deadline, s.lastNow) <= Elapsed(at, s.lastNow)
<1>1. Compiles(config) /\ s \in DecoderStates(config) /\ s.lastNow \in Int
  BY Mirrored, IdleTimes
<1>2. Rested(config, s)
  BY Mirrored
<1>3. ASSUME NEW at \in TickType, awaited(at)
      PROVE  IsFuture(s.lastNow, at) => t - s.lastEval < Elapsed(at, s.lastNow)
  BY <1>3, NothingDue
<1>4. ASSUME NEW p \in Predicates(r)
      PROVE  Waited(PredicateDeadlines(p, s.inputs[p.input], s.lastNow), s.lastNow, t - s.lastEval)
  <2>1. p.input \in Elements(config.inputs)
    BY <1>1, PredicateTypes
  <2>2. s.inputs[p.input] \in InputRecords
    BY <1>1, <2>1 DEF DecoderStates
  <2>3. PredicateDeadlines(p, s.inputs[p.input], s.lastNow) \subseteq TickType
    BY <1>1, <2>2, PredicateDeadlinesTyped
  <2>4. \A at \in PredicateDeadlines(p, s.inputs[p.input], s.lastNow) : awaited(at)
    BY <1>2 DEF Rested
  <2> HIDE DEF awaited
  <2> QED
    BY <2>3, <2>4, <1>3 DEF Waited
<1>5. ASSUME r.kind = "Movement"
      PROVE  Waited(LifecycleDeadlines(r, s.phases[r.id]), s.lastNow, t - s.lastEval)
  <2>1. r \in RulesFor(config, "Movement")
    BY <1>5 DEF RulesFor
  <2>2. r.id \in RuleIds(config) /\ LifecycleIsValid(r)
    BY <1>1, <2>1, RuleIsKnown
  <2>3. s.phases[r.id] \in PhaseRecords
    BY <1>1, <2>2 DEF DecoderStates
  <2>4. LifecycleDeadlines(r, s.phases[r.id]) \subseteq TickType
    BY <2>2, <2>3, LifecycleDeadlinesTyped
  <2>5. \A at \in LifecycleDeadlines(r, s.phases[r.id]) : awaited(at)
    BY <1>2, <2>1 DEF Rested
  <2> HIDE DEF awaited
  <2> QED
    BY <2>4, <2>5, <1>3 DEF Waited
<1> QED
  BY <1>4, <1>5

LEMMA IdleAges ==
  ASSUME Compiles(config), NEW s, NEW story, Mirrors(s, story), NEW t, Idle(s, story, t),
         story # <<>>, NEW i \in Elements(config.inputs)
  PROVE  t - LastChange(i, story) < Ticks /\ s.lastEval - LastChange(i, story) < Ticks
<1>1. s.lastEval \in Nat /\ t \in Nat /\ t >= s.lastEval
  BY IdleTimes
<1>2. story \in Seq(StoryRecords) /\ Ordered(story)
  BY Mirrored
<1>3. LastChange(i, story) \in Nat
  BY <1>2, LastChangeInTime
<1>4. t - LastChange(i, story) < Ticks
  BY DEF Idle
<1>5. Ticks \in Nat
  BY Words
<1> QED
  BY <1>1, <1>3, <1>4, <1>5

LEMMA StableRests ==
  ASSUME Compiles(config), NEW s, NEW story, Mirrors(s, story), NEW t, Idle(s, story, t),
         story # <<>>, NEW r \in EnabledRules(config), NEW p \in Predicates(r), p.kind = "StableLevel"
  PROVE  PredicateHolds(p, s.inputs[p.input], s.lastNow)
           <=> PredicateHolds(p, s.inputs[p.input], t % Ticks)
<1> DEFINE k == t - s.lastEval
           input == s.inputs[p.input]
           now == s.lastNow
<1>1. s \in DecoderStates(config)
  BY Mirrored
<1>2. /\ s.lastEval \in Nat /\ now \in TickType /\ now = s.lastEval % Ticks
      /\ t \in Nat /\ t >= s.lastEval /\ k \in Nat /\ (now + k) % Ticks = t % Ticks
  BY IdleTimes
<1>3. p.input \in Elements(config.inputs) /\ p.hold \in 1..MaxDuration /\ p.hold \in 0..MaxDuration
  <2>1. p.input \in Elements(config.inputs) /\ p.hold \in 1..MaxDuration
    BY <1>1, PredicateTypes
  <2> QED
    BY <2>1
<1>4. input \in InputRecords
  BY <1>1, <1>3 DEF DecoderStates
<1>5. \A now_ : PredicateHolds(p, input, now_) <=>
        input.valid /\ input.level = p.level /\ Elapsed(now_, input.since) >= p.hold
  BY DEF PredicateHolds, StableHolds
<1>6. ASSUME PredicateHolds(p, input, now)
      PROVE  PredicateHolds(p, input, t % Ticks)
  <2>1. \A i \in Elements(config.inputs) :
          t - LastChange(i, story) < Ticks /\ s.lastEval - LastChange(i, story) < Ticks
    BY IdleAges
  <2>2. Means(p, story, s.lastEval)
    BY <1>2, <1>6, <2>1, PredicateMirrored
  <2>3. PICK n \in DOMAIN story :
          /\ s.lastEval - story[n].at >= p.hold
          /\ \A l \in n..Len(story) : story[l].levels[p.input] = p.level
    BY <2>2 DEF Means, StableMeans
  <2>4. story[n].at \in Nat
    BY Mirrored
  <2>5. t - story[n].at >= p.hold
    <3>1. p.hold \in Nat
      BY <1>3, Words
    <3> QED
      BY <1>2, <2>3, <2>4, <3>1
  <2>6. Means(p, story, t)
    BY <2>3, <2>5 DEF Means, StableMeans
  <2> QED
    BY <1>2, <2>1, <2>6, PredicateMirrored
<1>7. ASSUME ~PredicateHolds(p, input, now)
      PROVE  ~PredicateHolds(p, input, t % Ticks)
  <2>1. CASE ~input.valid \/ input.level # p.level
    BY <2>1, <1>5
  <2>2. CASE input.valid /\ input.level = p.level
    <3>1. ~(Elapsed(now, input.since) >= p.hold)
      BY <2>2, <1>5, <1>7
    <3>2. ~StableHolds(p, input, now)
      BY <3>1 DEF StableHolds
    <3>3. PredicateDeadlines(p, input, now) = {(input.since + p.hold) % Ticks}
      BY <2>2, <3>2 DEF PredicateDeadlines
    <3>4. Waited(PredicateDeadlines(p, input, now), now, k)
      BY NoneDue
    <3>5. IsFuture(now, (input.since + p.hold) % Ticks)
            => k < Elapsed((input.since + p.hold) % Ticks, now)
      BY <3>3, <3>4 DEF Waited
    <3>6. input.since \in TickType
      BY <1>4 DEF InputRecords
    <3> HIDE DEF k, input, now
    <3>7. ~(Elapsed((now + k) % Ticks, input.since) >= p.hold)
      BY <1>2, <1>3, <3>1, <3>5, <3>6, NotYet
    <3> QED
      BY <1>2, <1>5, <3>7
  <2> QED
    BY <2>1, <2>2
<1> QED
  BY <1>6, <1>7

LEMMA PeriodicRests ==
  ASSUME Compiles(config), NEW s, NEW story, Mirrors(s, story), NEW t, Idle(s, story, t),
         story # <<>>, NEW r \in EnabledRules(config), NEW p \in Predicates(r), p.kind # "StableLevel"
  PROVE  PredicateHolds(p, s.inputs[p.input], s.lastNow)
           <=> PredicateHolds(p, s.inputs[p.input], t % Ticks)
<1> DEFINE k == t - s.lastEval
           input == s.inputs[p.input]
           now == s.lastNow
           E == EdgesIn(p.input, story)
<1>1. s \in DecoderStates(config)
  BY Mirrored
<1>2. /\ s.lastEval \in Nat /\ now \in TickType /\ now = s.lastEval % Ticks
      /\ t \in Nat /\ t >= s.lastEval /\ k \in Nat /\ s.lastEval + k = t
  BY IdleTimes
<1>3. /\ p.input \in Elements(config.inputs)
      /\ PeriodicTyped(p)
  BY <1>1, PredicateTypes DEF PeriodicTyped
<1>4. input \in InputRecords /\ InputMeans(input, story, p.input)
  BY <1>3, Mirrored
<1>5. \A i \in Elements(config.inputs) :
        t - LastChange(i, story) < Ticks /\ s.lastEval - LastChange(i, story) < Ticks
  BY IdleAges
<1>6. \A u : Means(p, story, u) <=> EdgesMean(p, E, u)
  BY DEF Means, PeriodicMeans, EdgesMean, Newest
<1>7. E \in Seq(Nat)
  BY <1>4 DEF InputMeans
<1>8. PredicateHolds(p, input, now) <=> EdgesMean(p, E, s.lastEval)
  BY <1>2, <1>5, <1>6, PredicateMirrored
<1>9. PredicateHolds(p, input, t % Ticks) <=> EdgesMean(p, E, t)
  BY <1>2, <1>5, <1>6, PredicateMirrored
<1>10. ASSUME EdgesMean(p, E, t)
       PROVE  EdgesMean(p, E, s.lastEval)
  <2>1. s.lastEval <= t
    BY <1>2
  <2> HIDE DEF E
  <2> QED
    BY <1>2, <1>3, <1>7, <1>10, <2>1, MeansEarlier
<1>11. ASSUME PredicateHolds(p, input, now)
       PROVE  EdgesMean(p, E, t)
  <2>1. PeriodicHolds(p, input, now) /\ input.valid
    BY <1>11 DEF PredicateHolds
  <2>2. input.edges # <<>> /\ RingHolds(p, input.edges, now)
    BY <2>1 DEF PeriodicHolds, RingHolds
  <2>3. E # <<>> /\ Len(input.edges) = IF Len(E) < EdgeCapacity THEN Len(E) ELSE EdgeCapacity
    <3>1. Len(input.edges) = IF Len(E) < EdgeCapacity THEN Len(E) ELSE EdgeCapacity
      BY <1>4 DEF InputMeans
    <3>2. input.edges \in Seq(TickType)
      BY <1>4 DEF InputRecords
    <3>3. Len(input.edges) # 0
      BY <2>2, <3>2
    <3> HIDE DEF E, input
    <3>4. E # <<>>
      BY <1>7, <3>1, <3>3, Words
    <3> QED
      BY <3>1, <3>4
  <2>4. RingOf(input.edges, E, s.lastEval)
    <3>1. story \in Seq(StoryRecords) /\ Ordered(story)
      BY Mirrored
    <3>2. Newest(story).at <= s.lastEval
      BY Mirrored
    <3>3. s.lastEval - LastChange(p.input, story) < Ticks
      BY <1>3, IdleAges
    <3> QED
      BY <1>2, <1>3, <1>4, <2>3, <3>1, <3>2, <3>3, RingIs
  <2>5. PredicateDeadlines(p, input, now)
          = {(Newest(input.edges) + p.gap) % Ticks,
             (RunOldest(p, input.edges, now) + p.window + 1) % Ticks}
    BY <2>1 DEF PredicateDeadlines
  <2>6. Waited(PredicateDeadlines(p, input, now), now, k)
    BY NoneDue
  <2>7. t = s.lastEval + k
    BY <1>2
  <2> HIDE DEF E, k, input, now
  <2> QED
    BY <1>2, <1>3, <2>2, <2>3, <2>4, <2>5, <2>6, <2>7, RingWaits
<1> QED
  BY <1>8, <1>9, <1>10, <1>11

LEMMA EvidenceRests ==
  ASSUME Compiles(config), NEW s, NEW story, Mirrors(s, story), NEW t, Idle(s, story, t),
         NEW r \in EnabledRules(config), NEW p \in Predicates(r)
  PROVE  PredicateHolds(p, s.inputs[p.input], s.lastNow)
           <=> PredicateHolds(p, s.inputs[p.input], t % Ticks)
<1>1. CASE story # <<>>
  BY <1>1, StableRests, PeriodicRests
<1>2. CASE story = <<>>
  <2>1. p.input \in Elements(config.inputs)
    BY PredicateTypes
  <2>2. s.inputs[p.input].valid = FALSE
    BY <1>2, <2>1, Mirrored DEF InputMeans
  <2> QED
    BY <2>2 DEF PredicateHolds
<1> QED
  BY <1>1, <1>2

LEMMA RulesRest ==
  ASSUME Compiles(config), NEW s, NEW story, Mirrors(s, story), NEW t, Idle(s, story, t)
  PROVE  Holding(config, s.inputs, s.lastNow) = Holding(config, s.inputs, t % Ticks)
<1>1. ASSUME NEW r \in EnabledRules(config)
      PROVE  ExpressionHolds(r, s.inputs, s.lastNow) <=> ExpressionHolds(r, s.inputs, t % Ticks)
  <2>1. \A g \in Elements(r.groups) : Elements(g) \subseteq Predicates(r)
    BY DEF Predicates
  <2>2. \A p \in Predicates(r) : PredicateHolds(p, s.inputs[p.input], s.lastNow)
                                   <=> PredicateHolds(p, s.inputs[p.input], t % Ticks)
    BY EvidenceRests
  <2> QED
    BY <2>1, <2>2, Zenon DEF ExpressionHolds
<1> QED
  BY <1>1 DEF Holding

LEMMA PhasesRest ==
  ASSUME Compiles(config), NEW s, NEW story, Mirrors(s, story), NEW t, Idle(s, story, t)
  PROVE  Settled(config, s, t % Ticks) = s.phases
<1> DEFINE k == t - s.lastEval
           now == s.lastNow
           holds == Holding(config, s.inputs, now)
<1>1. s \in DecoderStates(config)
  BY Mirrored
<1>2. now \in TickType /\ k \in Nat /\ (now + k) % Ticks = t % Ticks
  BY IdleTimes
<1>3. s.phases \in [RuleIds(config) -> PhaseRecords]
  BY <1>1 DEF DecoderStates
<1>4. holds = Holding(config, s.inputs, t % Ticks)
  BY RulesRest
<1>5. Rested(config, s)
  BY Mirrored
<1>6. \A r \in RulesFor(config, "Movement") :
        Pass(r, s.phases[r.id], r \in holds, now) = s.phases[r.id]
  BY <1>5, Zenon DEF Rested, Holding
<1> HIDE DEF k, now, holds
<1>7. ASSUME NEW id \in RuleIds(config)
      PROVE  Settle(RuleOf(config, id), s.phases[id], RuleOf(config, id) \in holds, t % Ticks)
               = s.phases[id]
  <2> DEFINE r == RuleOf(config, id)
             m == s.phases[id]
             held == r \in holds
  <2>1. r \in RulesFor(config, "Movement") /\ r.id = id
    BY <1>1, IdIsKnown
  <2>2. LifecycleIsValid(r) /\ r \in EnabledRules(config) /\ r.kind = "Movement"
    BY <1>1, <2>1, RuleIsKnown DEF RulesFor
  <2>3. m \in PhaseRecords
    BY <1>3
  <2>4. Pass(r, m, held, now) = m
    BY <1>6, <2>1
  <2>5. Waited(LifecycleDeadlines(r, m), now, k)
    BY <2>1, <2>2, NoneDue DEF now, k
  <2>6. held \in BOOLEAN
    OBVIOUS
  <2>7. \A at \in LifecycleDeadlines(r, m) : IsFuture(now, at) => k < Elapsed(at, now)
    BY <2>5 DEF Waited
  <2> HIDE DEF r, m, held
  <2>8. \A h \in BOOLEAN :
          Pass(r, m, h, now) = m => Settle(r, m, h, (now + k) % Ticks) = m
    BY <1>2, <2>2, <2>3, <2>7, RestsUntilDue
  <2>9. Settle(r, m, held, (now + k) % Ticks) = m
    BY <2>4, <2>6, <2>8, Zenon
  <2>10. Settle(r, m, held, t % Ticks) = m
    BY <1>2, <2>9
  <2> QED
    BY <2>10, Zenon DEF r, m, held
<1>8. Settled(config, s, t % Ticks)
        = [id \in RuleIds(config) |->
             Settle(RuleOf(config, id), s.phases[id], RuleOf(config, id) \in holds, t % Ticks)]
  <2>1. DOMAIN s.phases = RuleIds(config)
    BY <1>3
  <2> QED
    BY <1>4, <2>1, Zenon DEF Settled
<1>9. Settled(config, s, t % Ticks) = [id \in RuleIds(config) |-> s.phases[id]]
  BY <1>7, <1>8, Zenon
<1> QED
  BY <1>3, <1>9

LEMMA InvMirrors ==
  ASSUME DecoderInv, d.lastNow # NoTick
  PROVE  Mirrors(d, heard)
<1>1. /\ d \in DecoderStates(config) /\ clock \in Nat
      /\ d.lastNow = d.lastEval % Ticks
  BY EvaluatedInTime
<1>2. heard \in Seq(StoryRecords) /\ Ordered(heard)
  BY <1>1, SamplesAreRecords DEF DecoderInv, SamplesOK, Ordered
<1>3. \A i \in Elements(config.inputs) : InputMeans(d.inputs[i], heard, i)
  BY InputOKIs DEF DecoderInv
<1>4. Rested(config, d) /\ (heard # <<>> => Newest(heard).at <= d.lastEval)
  BY DEF DecoderInv, TimesOK
<1> QED
  BY <1>1, <1>2, <1>3, <1>4 DEF Mirrors

LEMMA InvWakeUps ==
  ASSUME DecoderInv
  PROVE  WakeUpsSuffice
<1> SUFFICES ASSUME NEW t \in d.lastEval..(d.lastEval + Half - 1),
                    d.lastNow # NoTick, Quiet(t), d.deadline # NoTick => t < DueAt(d)
             PROVE  /\ Advance(config, d, t).phases = d.phases
                    /\ Advance(config, d, t).result = d.result
  BY Zenon DEF WakeUpsSuffice
<1>1. Compiles(config) /\ d \in DecoderStates(config)
  BY EvaluatedInTime
<1>2. d.lastEval \in Nat
  BY <1>1 DEF DecoderStates
<1>3. t \in Nat /\ t - d.lastEval \in 0..(Half - 1)
  BY <1>2, Words
<1>4. Mirrors(d, heard) /\ Idle(d, heard, t)
  <2>1. heard # <<>> => \A i \in Elements(config.inputs) : t - ChangedAt(i) < Ticks
    BY DEF Quiet
  <2>2. heard # <<>> => \A i \in Elements(config.inputs) : t - LastChange(i, heard) < Ticks
    BY <2>1, InputOKIs
  <2> QED
    BY <1>3, <2>2, InvMirrors DEF Idle
<1>5. d.lastNow = d.lastEval % Ticks
  BY <1>4, Mirrored
<1>6. Accepts(d, t)
  <2>1. t \in Int /\ d.lastEval \in Int /\ t - d.lastEval \in TickType
    BY <1>2, <1>3, Words
  <2>2. Elapsed(t % Ticks, d.lastEval % Ticks) = t - d.lastEval
    BY <2>1, ElapsedTime
  <2>3. t - d.lastEval < Half
    BY <1>2, <1>3, Words
  <2> QED
    BY <1>5, <2>2, <2>3 DEF Accepts
<1>7. Advance(config, d, t) = Evaluate(config, d, t)
  BY <1>6 DEF Advance
<1> DEFINE e == Evaluate(config, d, t)
<1>8. /\ e.phases = Settled(config, d, t % Ticks)
      /\ e.result = Arbitrate(config, d.inputs, Settled(config, d, t % Ticks),
                              Holding(config, d.inputs, t % Ticks))
  <2>1. LET now == t % Ticks
            settled == Settled(config, d, now)
        IN e = [inputs |-> d.inputs, phases |-> settled,
                result |-> Arbitrate(config, d.inputs, settled, Holding(config, d.inputs, now)),
                deadline |-> Earliest(now, Waits(config, d.inputs, settled, now)),
                lastNow |-> now, lastEval |-> t,
                late |-> d.late \/ (d.deadline # NoTick /\ DueAt(d) < t)]
    BY <1>1, EvaluateFields, Zenon
  <2> HIDE DEF e
  <2> QED
    BY <2>1
<1> HIDE DEF e
<1>9. d.result = Arbitrate(config, d.inputs, d.phases, Holding(config, d.inputs, d.lastNow))
  BY <1>4, Zenon DEF Mirrors, Rested, Holding
<1>10. e.phases = d.phases /\ e.result = d.result
  BY <1>1, <1>4, <1>8, <1>9, RulesRest, PhasesRest
<1> QED
  BY <1>7, <1>10 DEF e

\* Being evaluated at the deadline it asks for is enough: until then another
\* evaluation would change nothing (next_deadline, and the passes of evaluate).
THEOREM WakeUpsAreEnough == Spec => []WakeUpsSuffice
<1>1. DecoderInv => WakeUpsSuffice
  BY InvWakeUps
<1> QED
  BY <1>1, DecoderInvariant, PTL
=============================================================================
