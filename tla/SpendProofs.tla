----------------------------- MODULE SpendProofs -----------------------------
(***************************************************************************)
(* Proofs about SpendRules for any length of day, costs, rules and ledger. *)
(*                                                                         *)
(* Only Typed has to be inductive; the rest holds of every typed ledger    *)
(* and clock.  What a ledger has cost between two times is a sum, and what *)
(* the median says comes from the values at its two ranks: the facts about *)
(* both are those of module Aggregates.                                    *)
(***************************************************************************)
EXTENDS SpendRules, Aggregates, SequenceTheorems

\* The ledger's events have a time and a cost, or none.
Event == [ts : Nat, cost : Costs \cup {None}]

Typed == config \in Configs /\ ledger \in Seq(Event) /\ now \in Nat

LEMMA TypedInit == Init => Typed
BY DEF Init, Typed

\* A backfill that writes keeps each row's time and leaves a cost that is there a cost.
LEMMA Filled ==
  ASSUME Typed, NEW b \in Backfills, BackfillCommit(b), NEW i \in DOMAIN ledger
  PROVE  /\ i \in DOMAIN ledger' /\ ledger'[i] \in Event /\ ledger'[i].ts = ledger[i].ts
         /\ ledger[i].cost # None => ledger'[i].cost # None
         /\ i \notin loaded[b] => ledger'[i] = ledger[i]
<1>1. PICK fill \in [loaded[b] -> Costs \cup {None}] :
         ledger' = [k \in DOMAIN ledger |->
                       IF k \in loaded[b] /\ fill[k] # None THEN [ledger[k] EXCEPT !.cost = fill[k]]
                                                         ELSE ledger[k]]
  BY DEF BackfillCommit
<1>2. ledger[i] \in Event /\ i \in DOMAIN ledger'
  BY <1>1 DEF Typed
<1>3. CASE i \in loaded[b] /\ fill[i] # None
  <2>1. fill[i] \in Costs
    BY <1>3
  <2>2. ledger'[i] = [ledger[i] EXCEPT !.cost = fill[i]]
    BY <1>1, <1>3
  <2>3. QED
    BY <1>2, <1>3, <2>1, <2>2 DEF Event
<1>4. CASE ~(i \in loaded[b] /\ fill[i] # None)
  BY <1>1, <1>2, <1>4
<1>5. QED
  BY <1>3, <1>4

LEMMA TypedStep ==
  ASSUME Typed, [Next]_vars
  PROVE  Typed'
<1>1. CASE Record
  <2>1. PICK cost \in Costs \cup {None} : ledger' = Append(ledger, [ts |-> now, cost |-> cost])
    BY <1>1 DEF Record
  <2>2. [ts |-> now, cost |-> cost] \in Event
    BY DEF Typed, Event
  <2>3. QED
    BY <1>1, <2>1, <2>2 DEF Record, Typed
<1>2. ASSUME NEW b \in Backfills, BackfillLoad(b)
      PROVE  Typed'
  BY <1>2 DEF BackfillLoad, Typed
<1>3. ASSUME NEW b \in Backfills, BackfillCommit(b)
      PROVE  Typed'
  <2>1. /\ Len(ledger) \in Nat /\ DOMAIN ledger = 1 .. Len(ledger)
        /\ \A i \in DOMAIN ledger : ledger[i] \in Event
    BY DEF Typed
  <2>2. /\ DOMAIN ledger' = DOMAIN ledger
        /\ \A i \in DOMAIN ledger : ledger'[i] \in Event
        /\ ledger' = [i \in 1 .. Len(ledger) |-> ledger'[i]]
    <3>1. ASSUME NEW i \in DOMAIN ledger
          PROVE  ledger'[i] \in Event
      BY <1>3, <2>1, Filled
    <3>2. QED
      BY <1>3, <2>1, <3>1 DEF BackfillCommit
  <2>3. ledger' \in Seq(Event)
    BY <2>1, <2>2
  <2>4. QED
    BY <1>3, <2>3 DEF BackfillCommit, Typed
<1>4. CASE Tick
  BY <1>4 DEF Tick, Typed
<1>5. CASE UNCHANGED vars
  BY <1>5 DEF vars, Typed
<1>6. QED
  BY <1>1, <1>2, <1>3, <1>4, <1>5 DEF Next

LEMMA TypedAlways == Spec => []Typed
<1>1. QED
  BY TypedInit, TypedStep, PTL DEF Spec

-----------------------------------------------------------------------------
(* What has been spent between two times.                                  *)

LEMMA Floors ==
  ASSUME Typed
  PROVE  /\ config.budget # None => config.budget \in Int
         /\ Floor \in Int
         /\ Floor <= 0 => config.floor # None /\ config.floor < 0
<1>1. /\ config.budget \in Int \cup {None} /\ config.floor \in Int \cup {None}
      /\ DefaultFloor \in Nat /\ DefaultFloor > 0
  BY RuleConstants DEF Typed
<1>2. QED
  BY <1>1 DEF Floor

\* The same of any ledger l.
CountedIn(l, start, end) == {i \in DOMAIN l : start <= l[i].ts /\ l[i].ts < end /\ l[i].cost # None}

SpendIn(l, start, end) == SumFunction([i \in CountedIn(l, start, end) |-> l[i].cost])

LEMMA OfLedger ==
  \A start, end : /\ Counted(start, end) = CountedIn(ledger, start, end)
                  /\ Spend(start, end) = SpendIn(ledger, start, end)
BY DEF Counted, CountedIn, Spend, SpendIn, Within

\* The counted costs are natural numbers.
LEMMA CountedCosts ==
  ASSUME NEW l \in Seq(Event), NEW start, NEW end
  PROVE  /\ IsFiniteSet(CountedIn(l, start, end))
         /\ \A i \in CountedIn(l, start, end) : l[i].cost \in Nat /\ l[i].ts \in Nat
         /\ SpendIn(l, start, end) \in Nat
         /\ SpendIn(l, start, end) = 0 <=> \A i \in CountedIn(l, start, end) : l[i].cost = 0
<1>1. /\ DOMAIN l = 1 .. Len(l) /\ Len(l) \in Nat
      /\ \A i \in DOMAIN l : l[i] \in Event
  OBVIOUS
<1>2. IsFiniteSet(CountedIn(l, start, end))
  <2>1. IsFiniteSet(1 .. Len(l))
    BY <1>1, FS_Interval
  <2>2. CountedIn(l, start, end) \in SUBSET (1 .. Len(l))
    BY <1>1 DEF CountedIn
  <2>3. QED
    BY <2>1, <2>2, FS_Subset
<1>3. \A i \in CountedIn(l, start, end) : l[i].cost \in Nat /\ l[i].ts \in Nat
  BY <1>1, RuleConstants DEF CountedIn, Event
<1> DEFINE f == [i \in CountedIn(l, start, end) |-> l[i].cost]
<1>4. SpendIn(l, start, end) = SumFunctionOnSet(f, CountedIn(l, start, end))
  BY DEF SpendIn, SumFunction
<1>5. \A i \in CountedIn(l, start, end) : f[i] = l[i].cost /\ f[i] \in Nat
  BY <1>3
<1> HIDE DEF f
<1>6. SumFunctionOnSet(f, CountedIn(l, start, end)) \in Nat
  BY <1>2, <1>5, SumNat
<1>7. SumFunctionOnSet(f, CountedIn(l, start, end)) = 0
         <=> \A i \in CountedIn(l, start, end) : f[i] = 0
  BY <1>2, <1>5, SumZero
<1>8. QED
  BY <1>2, <1>3, <1>4, <1>5, <1>6, <1>7

LEMMA Days == Day \in Nat /\ Day > 0
BY RuleConstants

LEMMA Midnights ==
  ASSUME NEW t \in Nat
  PROVE  Midnight(t) \in Nat /\ Midnight(t) <= t /\ t < Midnight(t) + Day
<1>1. Day \in Nat /\ Day > 0
  BY Days
<1>2. t % Day \in 0 .. Day - 1 /\ t = Day * (t \div Day) + (t % Day) /\ t \div Day \in Nat
  BY <1>1
<1>3. Day * (t \div Day) \in Nat
  BY <1>1, <1>2
<1>4. QED
  BY <1>1, <1>2, <1>3 DEF Midnight

-----------------------------------------------------------------------------
(* Silence.                                                                *)

\* Something was spent in a time in which the spend is not 0.
LEMMA SpendHasEvent ==
  ASSUME NEW l \in Seq(Event), NEW start, NEW end, SpendIn(l, start, end) > 0
  PROVE  \E i \in DOMAIN l : /\ l[i].cost # None /\ l[i].cost > 0
                             /\ l[i].ts \in Nat /\ start <= l[i].ts /\ l[i].ts < end
<1>1. SpendIn(l, start, end) # 0
  OBVIOUS
<1>2. PICK i \in CountedIn(l, start, end) : l[i].cost # 0
  BY <1>1, CountedCosts
<1>3. l[i].cost > 0 /\ l[i].ts \in Nat
  BY <1>2, CountedCosts
<1>4. QED
  BY <1>3 DEF CountedIn

LEMMA SilentLedger == Typed => SilenceNeverFires
<1> DEFINE spent == \E i \in DOMAIN ledger : /\ ledger[i].cost # None /\ ledger[i].cost > 0
                                             /\ now - Day <= ledger[i].ts /\ ledger[i].ts < now
<1> SUFFICES ASSUME Typed, ~spent
             PROVE  /\ BudgetFired => config.budget <= 0
                    /\ SpikeFired => config.floor # None /\ config.floor < 0
  BY DEF SilenceNeverFires
<1>1. ASSUME NEW start \in Int, now - Day <= start
      PROVE  SpendIn(ledger, start, now) = 0
  <2>1. CASE SpendIn(ledger, start, now) > 0
    <3>1. PICK i \in DOMAIN ledger : /\ ledger[i].cost # None /\ ledger[i].cost > 0
                                     /\ ledger[i].ts \in Nat
                                     /\ start <= ledger[i].ts /\ ledger[i].ts < now
      BY <2>1, SpendHasEvent DEF Typed
    <3>2. now - Day <= ledger[i].ts /\ ledger[i].ts < now
      BY <1>1, <3>1, RuleConstants DEF Typed
    <3>3. QED
      BY <3>1, <3>2
  <2>2. SpendIn(ledger, start, now) \in Nat
    BY CountedCosts DEF Typed
  <2>3. QED
    BY <2>1, <2>2
<1> HIDE DEF spent
<1>2. ASSUME BudgetFired
      PROVE  config.budget <= 0
  <2>1. Midnight(now) \in Int /\ now - Day <= Midnight(now)
    <3>1. Midnight(now) \in Nat /\ now < Midnight(now) + Day
      BY Midnights DEF Typed
    <3>2. QED
      BY <3>1, Days DEF Typed
  <2>2. Today = 0
    BY <1>1, <2>1, OfLedger DEF Today
  <2>3. QED
    BY <1>2, <2>2, Floors DEF BudgetFired
<1>3. ASSUME SpikeFired
      PROVE  config.floor # None /\ config.floor < 0
  <2>1. now - Day \in Int /\ now - Day <= now - Day
    BY Days DEF Typed
  <2>2. Trailing = 0
    BY <1>1, <2>1, OfLedger DEF Trailing
  <2>3. QED
    BY <1>3, <2>2, Floors DEF SpikeFired
<1>4. QED
  BY <1>2, <1>3

\* A ledger that has been silent for a day raises no alert, unless the configuration asks
\* for it outright: a budget of 0 or less, or a floor below 0.
THEOREM SilenceIsQuiet == Spec => []SilenceNeverFires
BY TypedAlways, SilentLedger, PTL

-----------------------------------------------------------------------------
(* The budget.                                                             *)

\* A ledger in which every counted event is still counted, at no lower cost, has no less.
LEMMA SpendGrows ==
  ASSUME NEW l \in Seq(Event), NEW m \in Seq(Event), NEW start, NEW end, NEW end2,
         \A i \in CountedIn(l, start, end) :
            i \in CountedIn(m, start, end2) /\ l[i].cost <= m[i].cost
  PROVE  SpendIn(l, start, end) <= SpendIn(m, start, end2)
<1> DEFINE C == CountedIn(l, start, end)
           D == CountedIn(m, start, end2)
           f == [i \in C |-> l[i].cost]
           g == [i \in D |-> m[i].cost]
<1>1. C \in SUBSET D /\ IsFiniteSet(C) /\ IsFiniteSet(D)
  BY CountedCosts
<1>2. \A i \in D : g[i] \in Nat
  BY CountedCosts
<1>3. \A i \in C : f[i] \in Nat /\ g[i] \in Nat /\ f[i] <= g[i]
  BY CountedCosts
<1>4. SpendIn(l, start, end) = SumFunctionOnSet(f, C)
  BY DEF SpendIn, SumFunction
<1>5. SpendIn(m, start, end2) = SumFunctionOnSet(g, D)
  BY DEF SpendIn, SumFunction
<1> HIDE DEF C, D, f, g
<1>6. SumFunctionOnSet(f, C) <= SumFunctionOnSet(g, C)
  BY <1>1, <1>3, SumLeq
<1>7. SumFunctionOnSet(g, C) <= SumFunctionOnSet(g, D)
  BY <1>1, <1>2, SumSubset
<1>8. /\ SumFunctionOnSet(f, C) \in Nat /\ SumFunctionOnSet(g, C) \in Nat
      /\ SumFunctionOnSet(g, D) \in Nat
  BY <1>1, <1>2, <1>3, SumNat
<1>9. QED
  BY <1>4, <1>5, <1>6, <1>7, <1>8

\* A step keeps every event, its time, and that it has a cost; only a backfill's write
\* changes a cost, and time does not go back.
LEMMA EventsStay ==
  ASSUME Typed, [Next]_vars
  PROVE  /\ now' \in Nat /\ now <= now' /\ config' = config
         /\ \A i \in DOMAIN ledger :
               /\ i \in DOMAIN ledger' /\ ledger'[i].ts = ledger[i].ts
               /\ ledger[i].cost # None => ledger'[i].cost # None
               /\ \/ ledger'[i].cost = ledger[i].cost
                  \/ \E b \in Backfills : i \in loaded[b]
<1>1. CASE Record
  <2>1. PICK cost \in Costs \cup {None} : ledger' = Append(ledger, [ts |-> now, cost |-> cost])
    BY <1>1 DEF Record
  <2>2. [ts |-> now, cost |-> cost] \in Event
    BY DEF Typed, Event
  <2>3. \A i \in DOMAIN ledger : i \in DOMAIN ledger' /\ ledger'[i] = ledger[i]
    BY <2>1, <2>2, AppendProperties DEF Typed
  <2>4. QED
    BY <1>1, <2>3 DEF Record, Typed
<1>2. ASSUME NEW b \in Backfills, BackfillLoad(b)
      PROVE  ledger' = ledger /\ now' = now /\ config' = config
  BY <1>2 DEF BackfillLoad
<1>3. ASSUME NEW b \in Backfills, BackfillCommit(b)
      PROVE  /\ now' = now /\ config' = config
             /\ \A i \in DOMAIN ledger :
                   /\ i \in DOMAIN ledger' /\ ledger'[i].ts = ledger[i].ts
                   /\ ledger[i].cost # None => ledger'[i].cost # None
                   /\ i \notin loaded[b] => ledger'[i] = ledger[i]
  <2>1. now' = now /\ config' = config
    BY <1>3 DEF BackfillCommit
  <2>2. QED
    BY <1>3, <2>1, Filled
<1>4. CASE Tick
  BY <1>4 DEF Tick, Typed
<1>5. CASE UNCHANGED vars
  BY <1>5 DEF vars, Typed
<1>6. now \in Nat
  BY DEF Typed
<1>7. QED
  BY <1>1, <1>2, <1>3, <1>4, <1>5, <1>6 DEF Next

\* Until midnight a budget that has been reached stays reached, whatever is recorded or
\* backfilled, unless a backfill writes a lower cost over a row priced since it was loaded.
THEOREM BudgetStays == Spec => BudgetHolds
<1> DEFINE lowered == \E b \in Backfills : \E i \in loaded[b] : Lowered(b, i)
<1>1. ASSUME Typed, [Next]_vars, BudgetFired, Midnight(now') = Midnight(now), ~lowered
      PROVE  BudgetFired'
  <2>1. Typed' /\ now' \in Nat /\ now <= now' /\ config' = config
    BY <1>1, TypedStep, EventsStay
  <2>2. PICK start \in Nat : start = Midnight(now)
    BY <1>1, Midnights DEF Typed
  <2>3. ASSUME NEW i \in CountedIn(ledger, start, now)
        PROVE  i \in CountedIn(ledger', start, now') /\ ledger[i].cost <= ledger'[i].cost
    <3>1. /\ i \in DOMAIN ledger /\ ledger[i].cost # None
          /\ start <= ledger[i].ts /\ ledger[i].ts < now
      BY DEF CountedIn
    <3>2. ledger[i].ts \in Nat /\ ledger[i].cost \in Nat
      BY <1>1, CountedCosts DEF Typed
    <3>3. i \in DOMAIN ledger' /\ ledger'[i].ts = ledger[i].ts /\ ledger'[i].cost # None
      BY <1>1, <3>1, EventsStay
    <3>4. i \in CountedIn(ledger', start, now')
      BY <1>1, <2>1, <3>1, <3>2, <3>3 DEF CountedIn, Typed
    <3>5. ledger'[i].cost \in Nat
      BY <2>1, <3>4, CountedCosts DEF Typed
    <3>6. ledger'[i].cost = ledger[i].cost \/ \E b \in Backfills : i \in loaded[b]
      BY <1>1, <3>1, EventsStay
    <3>7. ASSUME NEW b \in Backfills, i \in loaded[b]
          PROVE  ~(ledger'[i].cost < ledger[i].cost)
      BY <1>1, <3>1, <3>7 DEF Lowered
    <3>8. ledger[i].cost <= ledger'[i].cost
      BY <3>2, <3>5, <3>6, <3>7
    <3>9. QED
      BY <3>4, <3>8
  <2>4. SpendIn(ledger, start, now) <= SpendIn(ledger', start, now')
    BY <1>1, <2>1, <2>3, SpendGrows DEF Typed
  <2>5. SpendIn(ledger, start, now) \in Nat /\ SpendIn(ledger', start, now') \in Nat
    BY <1>1, <2>1, CountedCosts DEF Typed
  <2>6. Today = SpendIn(ledger, start, now)
    BY <2>2, OfLedger DEF Today
  <2>7. Today' = SpendIn(ledger', start, now')
    <3>1. Today' = SpendIn(ledger', Midnight(now'), now')
      BY DEF Today, Midnight, Spend, SpendIn, Counted, CountedIn, Within
    <3>2. QED
      BY <1>1, <2>2, <3>1
  <2>8. QED
    BY <1>1, <2>1, <2>4, <2>5, <2>6, <2>7, Floors DEF BudgetFired
<1>2. Typed /\ [Next]_vars =>
         [BudgetFired /\ Midnight(now') = Midnight(now) => BudgetFired' \/ lowered]_vars
  BY <1>1
<1>3. QED
  BY <1>2, TypedAlways, PTL DEF Spec, BudgetHolds

-----------------------------------------------------------------------------
(* The days of the baseline.                                               *)

\* What is spent up to a time and from it on.
LEMMA SpendSplits ==
  ASSUME NEW l \in Seq(Event), NEW a \in Int, NEW b \in Int, NEW c \in Int, a <= b, b <= c
  PROVE  SpendIn(l, a, c) = SpendIn(l, a, b) + SpendIn(l, b, c)
<1> DEFINE A == CountedIn(l, a, b)
           B == CountedIn(l, b, c)
           C == CountedIn(l, a, c)
           f == [i \in C |-> l[i].cost]
           g == [i \in A |-> l[i].cost]
           h == [i \in B |-> l[i].cost]
<1>1. /\ IsFiniteSet(A) /\ IsFiniteSet(B) /\ IsFiniteSet(C)
      /\ \A i \in A \cup B \cup C : l[i].cost \in Nat /\ l[i].ts \in Nat
  BY CountedCosts
<1>2. A \cup B = C /\ A \cap B = {}
  BY <1>1 DEF CountedIn
<1>3. /\ SpendIn(l, a, c) = SumFunctionOnSet(f, C)
      /\ SpendIn(l, a, b) = SumFunctionOnSet(g, A)
      /\ SpendIn(l, b, c) = SumFunctionOnSet(h, B)
  BY DEF SpendIn, SumFunction
<1>4. /\ \A i \in C : f[i] = l[i].cost
      /\ \A i \in A : g[i] = l[i].cost
      /\ \A i \in B : h[i] = l[i].cost
  OBVIOUS
<1> HIDE DEF A, B, C, f, g, h
<1>5. SumFunctionOnSet(f, A) = SumFunctionOnSet(g, A)
  BY <1>1, <1>2, <1>4, SumSame
<1>6. SumFunctionOnSet(f, B) = SumFunctionOnSet(h, B)
  BY <1>1, <1>2, <1>4, SumSame
<1>7. SumFunctionOnSet(f, A \cup B) = SumFunctionOnSet(f, A) + SumFunctionOnSet(f, B)
  <2>1. \A i \in A \cup B : f[i] \in Nat
    BY <1>1, <1>2, <1>4
  <2>2. QED
    BY <1>1, <1>2, <2>1, SumUnion
<1>8. QED
  BY <1>2, <1>3, <1>5, <1>6, <1>7

\* The day of each age, in terms of today's midnight.
LEMMA DayTotals ==
  ASSUME Typed, NEW a \in Ages
  PROVE  /\ a \in Nat
         /\ DayTotal(a) = SpendIn(ledger, Midnight(now) - a * Day, Midnight(now) - (a - 1) * Day)
         /\ DayTotal(a) \in Nat
<1>1. a \in Nat /\ Midnight(now) \in Nat /\ Day \in Nat
  <2>1. Midnight(now) \in Nat
    BY Midnights DEF Typed
  <2>2. a \in Nat
    BY DEF Ages
  <2>3. QED
    BY <2>1, <2>2, Days
<1>2. Midnight(now) - a * Day + Day = Midnight(now) - (a - 1) * Day
  BY <1>1
<1>3. DayTotal(a) = SpendIn(ledger, Midnight(now) - a * Day, Midnight(now) - (a - 1) * Day)
  BY <1>2, OfLedger DEF DayTotal
<1>4. QED
  BY <1>1, <1>3, CountedCosts DEF Typed

\* The youngest n days and today add up to the spend since the oldest of them began.
LEMMA DaysShare == Typed => DaysPartition
<1> SUFFICES ASSUME Typed PROVE DaysPartition
  OBVIOUS
<1> DEFINE m == Midnight(now)
           f == [a \in Ages |-> DayTotal(a)]
           since(n) == SpendIn(ledger, m - n * Day, now)
           P == {n \in Nat : n <= BaselineDays =>
                                SumFunctionOnSet(f, 1 .. n) + Today = since(n)}
<1>1. m \in Nat /\ m <= now /\ Day \in Nat /\ BaselineDays \in Nat /\ now \in Nat
  <2>1. m \in Nat /\ m <= now /\ now \in Nat
    BY Midnights DEF Typed
  <2>2. QED
    BY <2>1, RuleConstants
<1>2. /\ \A a \in Ages : f[a] = DayTotal(a) /\ f[a] \in Nat
      /\ DOMAIN f = Ages
  BY DayTotals
<1>3. Today = SpendIn(ledger, m, now)
  BY OfLedger DEF Today
<1> HIDE DEF m, f
<1>4. 0 \in P
  <2>1. SumFunctionOnSet(f, 1 .. 0) = 0
    BY SumEmpty
  <2>2. m - 0 * Day = m
    BY <1>1
  <2>3. Today \in Nat
    BY <1>3, CountedCosts DEF Typed
  <2>4. QED
    BY <1>3, <2>1, <2>2, <2>3
<1>5. ASSUME NEW n \in P, n < BaselineDays
      PROVE  n + 1 \in P
  <2>1. n \in Nat /\ n + 1 \in Ages /\ SumFunctionOnSet(f, 1 .. n) + Today = since(n)
    BY <1>1, <1>5 DEF Ages
  <2>2. SumFunctionOnSet(f, 1 .. n + 1) = f[n + 1] + SumFunctionOnSet(f, 1 .. n)
    <3>1. PICK S : S = 1 .. n
      OBVIOUS
    <3>2. IsFiniteSet(S) /\ n + 1 \notin S /\ S \cup {n + 1} = 1 .. n + 1
      <4>1. IsFiniteSet(S)
        BY <2>1, <3>1, FS_Interval
      <4>2. n + 1 \notin S /\ S \cup {n + 1} = 1 .. n + 1
        BY <2>1, <3>1
      <4>3. QED
        BY <4>1, <4>2
    <3>3. \A a \in S \cup {n + 1} : f[a] \in Nat
      BY <1>1, <1>2, <1>5, <2>1, <3>1 DEF Ages
    <3>4. QED
      BY <3>1, <3>2, <3>3, SumAdd
  <2>3. f[n + 1] = SpendIn(ledger, m - (n + 1) * Day, m - n * Day)
    <3>1. (n + 1) - 1 = n
      BY <2>1
    <3>2. QED
      BY <1>2, <2>1, <3>1, DayTotals DEF m
  <2>4. since(n + 1) = f[n + 1] + since(n)
    <3>1. PICK k \in Nat : k = n * Day
      BY <1>1, <2>1
    <3>2. (n + 1) * Day = k + Day
      BY <1>1, <2>1, <3>1
    <3>3. /\ m - (k + Day) \in Int /\ m - k \in Int
          /\ m - (k + Day) <= m - k /\ m - k <= now
      BY <1>1, <3>1
    <3>4. SpendIn(ledger, m - (k + Day), now)
             = SpendIn(ledger, m - (k + Day), m - k) + SpendIn(ledger, m - k, now)
      BY <1>1, <3>3, SpendSplits DEF Typed
    <3>5. QED
      BY <2>3, <3>1, <3>2, <3>4
  <2>5. /\ f[n + 1] \in Nat /\ Today \in Nat /\ since(n) \in Nat
        /\ SumFunctionOnSet(f, 1 .. n) \in Nat
    <3>1. \A a \in 1 .. n : f[a] \in Nat
      BY <1>1, <1>2, <1>5, <2>1 DEF Ages
    <3>2. IsFiniteSet(1 .. n)
      BY <2>1, FS_Interval
    <3>3. SumFunctionOnSet(f, 1 .. n) \in Nat
      BY <3>1, <3>2, SumNat
    <3>4. QED
      BY <1>2, <1>3, <2>1, <3>3, CountedCosts DEF Typed
  <2> HIDE DEF since
  <2>6. SumFunctionOnSet(f, 1 .. n + 1) + Today = since(n + 1)
    BY <2>1, <2>2, <2>4, <2>5
  <2>7. QED
    BY <2>1, <2>6
<1>6. BaselineDays \in P
  <2>1. P \in SUBSET Nat
    OBVIOUS
  <2> HIDE DEF P
  <2>2. QED
    BY <1>1, <1>4, <1>5, <2>1, FromZero
<1>7. SumFunctionOnSet(f, Ages) + Today = since(BaselineDays)
  BY <1>1, <1>6 DEF Ages
<1>8. SumFunction(f) = SumFunctionOnSet(f, Ages)
  BY <1>2 DEF SumFunction
<1>9. QED
  BY <1>7, <1>8, OfLedger DEF DaysPartition, f, m

\* Over the days of the baseline and today every priced event counts once.
THEOREM DaysShareSpend == Spec => []DaysPartition
BY TypedAlways, DaysShare, PTL

-----------------------------------------------------------------------------
(* The median.                                                             *)

\* The value at a rank is a day's total; fewer days than the rank are below it, and at
\* least as many are no more than it.
LEMMA RankedIs ==
  ASSUME Typed, NEW k \in Nat, 1 <= k, k <= BaselineDays
  PROVE  /\ Ranked(k) \in Nat
         /\ Cardinality({a \in Ages : DayTotal(a) < Ranked(k)}) < k
         /\ Cardinality({a \in Ages : DayTotal(a) <= Ranked(k)}) >= k
<1> DEFINE f == [a \in Ages |-> DayTotal(a)]
<1>1. IsFiniteSet(Ages) /\ Cardinality(Ages) = BaselineDays
  BY FS_Interval, RuleConstants DEF Ages
<1>2. f \in [Ages -> Nat] /\ \A a \in Ages : f[a] = DayTotal(a)
  BY DayTotals
<1> HIDE DEF f
<1>3. PICK x \in Ages : /\ Cardinality({y \in Ages : f[y] < f[x]}) < k
                        /\ Cardinality({y \in Ages : f[y] <= f[x]}) >= k
  <2>1. PICK S : S = Ages
    OBVIOUS
  <2>2. PICK g : g = f
    OBVIOUS
  <2>3. IsFiniteSet(S) /\ g \in [S -> Nat] /\ k <= Cardinality(S)
    BY <1>1, <1>2, <2>1, <2>2
  <2>4. PICK x \in S : AtRank(S, g, k, g[x])
    BY <2>3, RankExists
  <2>5. QED
    BY <2>1, <2>2, <2>4 DEF AtRank
<1>4. /\ {y \in Ages : f[y] < f[x]} = {a \in Ages : DayTotal(a) < DayTotal(x)}
      /\ {y \in Ages : f[y] <= f[x]} = {a \in Ages : DayTotal(a) <= DayTotal(x)}
  BY <1>2
<1>5. \E v \in {DayTotal(a) : a \in Ages} : /\ Cardinality({a \in Ages : DayTotal(a) < v}) < k
                                            /\ Cardinality({a \in Ages : DayTotal(a) <= v}) >= k
  BY <1>3, <1>4
<1>6. /\ Ranked(k) \in {DayTotal(a) : a \in Ages}
      /\ Cardinality({a \in Ages : DayTotal(a) < Ranked(k)}) < k
      /\ Cardinality({a \in Ages : DayTotal(a) <= Ranked(k)}) >= k
  BY <1>5 DEF Ranked
<1>7. QED
  BY <1>6, DayTotals

\* Counting days.
LEMMA CountDays ==
  ASSUME NEW S \in SUBSET Ages
  PROVE  /\ IsFiniteSet(S) /\ Cardinality(S) \in Nat
         /\ \A T \in SUBSET S : Cardinality(T) <= Cardinality(S)
         /\ Cardinality(Ages \ S) = BaselineDays - Cardinality(S)
<1>1. IsFiniteSet(Ages) /\ Cardinality(Ages) = BaselineDays
  BY FS_Interval, RuleConstants DEF Ages
<1>2. IsFiniteSet(S) /\ Cardinality(S) \in Nat
  BY <1>1, FS_Subset, FS_CardinalityType
<1>3. \A T \in SUBSET S : Cardinality(T) <= Cardinality(S)
  BY <1>2, FS_Subset
<1>4. Cardinality(Ages \ S) = Cardinality(Ages) - Cardinality(Ages \cap S) /\ Ages \cap S = S
  BY <1>1, FS_Difference
<1>5. QED
  BY <1>1, <1>2, <1>3, <1>4

\* The two ranks of the median.
Lower == (BaselineDays + 1) \div 2
Upper == (BaselineDays + 2) \div 2

LEMMA MedianRanks ==
  ASSUME BaselineDays >= 1
  PROVE  /\ Lower \in Nat /\ 1 <= Lower /\ Lower <= Upper
         /\ Upper \in Nat /\ Upper <= BaselineDays
         /\ BaselineDays <= 2 * Lower /\ 2 * Upper <= BaselineDays + 2
BY RuleConstants DEF Lower, Upper

\* The values at those ranks.
LEMMA RankedAtRanks ==
  ASSUME Typed, BaselineDays >= 1
  PROVE  /\ Ranked(Lower) \in Nat /\ Ranked(Upper) \in Nat
         /\ Cardinality({a \in Ages : DayTotal(a) < Ranked(Lower)}) < Lower
         /\ Cardinality({a \in Ages : DayTotal(a) <= Ranked(Lower)}) >= Lower
         /\ Cardinality({a \in Ages : DayTotal(a) < Ranked(Upper)}) < Upper
         /\ Cardinality({a \in Ages : DayTotal(a) <= Ranked(Upper)}) >= Upper
<1>1. PICK k, n \in Nat : k = Lower /\ n = Upper
  BY MedianRanks
<1>2. 1 <= k /\ k <= BaselineDays /\ 1 <= n /\ n <= BaselineDays
  <2>1. BaselineDays \in Nat
    BY RuleConstants
  <2>2. QED
    BY <1>1, <2>1, MedianRanks
<1>3. /\ Ranked(k) \in Nat
      /\ Cardinality({a \in Ages : DayTotal(a) < Ranked(k)}) < k
      /\ Cardinality({a \in Ages : DayTotal(a) <= Ranked(k)}) >= k
  BY <1>2, RankedIs
<1>4. /\ Ranked(n) \in Nat
      /\ Cardinality({a \in Ages : DayTotal(a) < Ranked(n)}) < n
      /\ Cardinality({a \in Ages : DayTotal(a) <= Ranked(n)}) >= n
  BY <1>2, RankedIs
<1>5. QED
  BY <1>1, <1>3, <1>4

LEMMA MedianIs ==
  ASSUME Typed, BaselineDays >= 1
  PROVE  /\ TwiceMedian = Ranked(Lower) + Ranked(Upper)
         /\ Ranked(Lower) <= Ranked(Upper)
<1>1. TwiceMedian = Ranked(Lower) + Ranked(Upper)
  BY DEF TwiceMedian, Lower, Upper
<1> DEFINE below == {a \in Ages : DayTotal(a) < Ranked(Lower)}
           upTo == {a \in Ages : DayTotal(a) <= Ranked(Upper)}
<1>2. /\ Ranked(Lower) \in Nat /\ Ranked(Upper) \in Nat
      /\ Cardinality(below) < Lower /\ Cardinality(upTo) >= Upper
  BY RankedAtRanks
<1>3. CASE ~(Ranked(Lower) <= Ranked(Upper))
  <2>1. \A a \in Ages : DayTotal(a) \in Nat
    BY DayTotals
  <2>2. upTo \in SUBSET below /\ below \in SUBSET Ages
    BY <1>2, <1>3, <2>1
  <2>3. /\ Cardinality(upTo) <= Cardinality(below)
        /\ Cardinality(upTo) \in Nat /\ Cardinality(below) \in Nat
    BY <2>2, CountDays
  <2>4. QED
    BY <1>2, <2>3, MedianRanks
<1>4. QED
  BY <1>1, <1>3

\* With a rule and a multiplier above 0.
LEMMA HalfOfDaysAbove ==
  ASSUME Typed, BaselineDays >= 1, MultNum > 0
  PROVE  HalfTheDays
<1> DEFINE under == {a \in Ages : MultDen * Trailing >= MultNum * DayTotal(a)}
           lo == Ranked(Lower)
           hi == Ranked(Upper)
           t == MultDen * Trailing
<1>1. lo \in Nat /\ hi \in Nat /\ lo <= hi /\ TwiceMedian = lo + hi
  BY MedianIs, RankedAtRanks
<1>2. MultNum \in Nat /\ MultDen \in Nat /\ MultNum > 0
  BY RuleConstants
<1>3. t \in Nat /\ 2 * MultDen * Trailing = 2 * t
  <2>1. Trailing \in Nat
    BY OfLedger, CountedCosts DEF Trailing, Typed
  <2>2. QED
    BY <1>2, <2>1
<1>4. OverThreshold <=> 2 * t >= MultNum * lo + MultNum * hi
  <2>1. MultNum * TwiceMedian = MultNum * lo + MultNum * hi
    BY <1>1, <1>2
  <2>2. QED
    BY <1>3, <2>1 DEF OverThreshold
<1>5. \A v, w \in Nat : v <= w => MultNum * v \in Nat /\ MultNum * w \in Nat /\ MultNum * v <= MultNum * w
  BY <1>2
<1>6. \A a \in Ages : DayTotal(a) \in Nat
  BY DayTotals
<1>7. under \in SUBSET Ages /\ \A a \in Ages : a \in under <=> t >= MultNum * DayTotal(a)
  OBVIOUS
<1>8. /\ Cardinality({a \in Ages : DayTotal(a) < hi}) < Upper
      /\ Cardinality({a \in Ages : DayTotal(a) <= lo}) >= Lower
  BY RankedAtRanks
<1> HIDE DEF lo, hi, t, under
<1>9. CASE OverThreshold
  <2>1. t >= MultNum * lo
    BY <1>1, <1>3, <1>4, <1>5, <1>9
  <2>2. {a \in Ages : DayTotal(a) <= lo} \in SUBSET under
    <3>1. ASSUME NEW a \in Ages, DayTotal(a) <= lo
          PROVE  t >= MultNum * DayTotal(a)
      BY <1>1, <1>3, <1>5, <1>6, <2>1, <3>1
    <3>2. QED
      BY <1>7, <3>1
  <2>3. /\ Cardinality({a \in Ages : DayTotal(a) <= lo}) <= Cardinality(under)
        /\ Cardinality({a \in Ages : DayTotal(a) <= lo}) \in Nat /\ Cardinality(under) \in Nat
    BY <1>7, <2>2, CountDays
  <2>4. 2 * Cardinality(under) >= BaselineDays
    BY <1>8, <2>3, MedianRanks, RuleConstants
  <2>5. QED
    BY <1>9, <2>4 DEF HalfTheDays, under
<1>10. CASE ~OverThreshold
  <2>1. t < MultNum * hi
    BY <1>1, <1>3, <1>4, <1>5, <1>10
  <2>2. under \in SUBSET {a \in Ages : DayTotal(a) < hi}
    <3>1. ASSUME NEW a \in under
          PROVE  DayTotal(a) < hi
      <4>1. a \in Ages /\ t >= MultNum * DayTotal(a) /\ DayTotal(a) \in Nat
        BY <1>6, <1>7
      <4>2. CASE hi <= DayTotal(a)
        BY <1>1, <1>3, <1>5, <2>1, <4>1, <4>2
      <4>3. QED
        BY <1>1, <4>1, <4>2
    <3>2. QED
      BY <1>7, <3>1
  <2>3. /\ Cardinality(under) <= Cardinality({a \in Ages : DayTotal(a) < hi})
        /\ Cardinality(under) \in Nat /\ Cardinality({a \in Ages : DayTotal(a) < hi}) \in Nat
        /\ Cardinality(Ages \ under) = BaselineDays - Cardinality(under)
    BY <1>7, <2>2, CountDays
  <2>4. 2 * Cardinality(Ages \ under) >= BaselineDays
    BY <1>8, <2>3, MedianRanks, RuleConstants
  <2>5. QED
    BY <1>10, <2>4 DEF HalfTheDays, under
<1>11. QED
  BY <1>9, <1>10

\* Without days there is no half of them; a negative multiple is under any spend.
LEMMA HalfOfDays == Typed => HalfTheDays
<1> SUFFICES ASSUME Typed PROVE HalfTheDays
  OBVIOUS
<1> DEFINE under == {a \in Ages : MultDen * Trailing >= MultNum * DayTotal(a)}
<1>1. /\ BaselineDays \in Nat /\ MultNum \in Int /\ MultNum # 0 /\ MultDen \in Nat
      /\ IsFiniteSet(Ages) /\ Cardinality(Ages) = BaselineDays
  BY FS_Interval, RuleConstants DEF Ages
<1>2. CASE BaselineDays = 0
  <2>1. Ages = {}
    BY <1>2 DEF Ages
  <2>2. under = {} /\ Ages \ under = {}
    BY <2>1
  <2>3. Cardinality(under) = 0 /\ Cardinality(Ages \ under) = 0
    BY <2>2, FS_EmptySet
  <2> HIDE DEF under
  <2>4. 2 * Cardinality(under) >= BaselineDays /\ 2 * Cardinality(Ages \ under) >= BaselineDays
    BY <1>2, <2>3
  <2>5. QED
    BY <2>4 DEF HalfTheDays, under
<1>3. CASE BaselineDays >= 1 /\ MultNum < 0
  <2>1. PICK t \in Nat : t = MultDen * Trailing
    <3>1. Trailing \in Nat
      BY OfLedger, CountedCosts DEF Trailing, Typed
    <3>2. QED
      BY <1>1, <3>1
  <2>2. \A v \in Nat : MultNum * v \in Int /\ MultNum * v <= 0
    BY <1>1, <1>3
  <2>3. under = Ages
    <3>1. \A a \in Ages : t >= MultNum * DayTotal(a)
      BY <2>1, <2>2, DayTotals
    <3>2. QED
      BY <2>1, <3>1
  <2>4. OverThreshold
    <3>1. TwiceMedian \in Nat
      BY <1>3, MedianIs, RankedAtRanks
    <3>2. 2 * MultDen * Trailing = 2 * t
      <4>1. Trailing \in Nat
        BY OfLedger, CountedCosts DEF Trailing, Typed
      <4>2. QED
        BY <1>1, <2>1, <4>1
    <3>3. QED
      BY <2>2, <3>1, <3>2 DEF OverThreshold
  <2> HIDE DEF under
  <2>5. 2 * Cardinality(under) >= BaselineDays
    BY <1>1, <2>3
  <2>6. QED
    BY <2>4, <2>5 DEF HalfTheDays, under
<1>4. CASE BaselineDays >= 1 /\ MultNum > 0
  BY <1>4, HalfOfDaysAbove
<1>5. QED
  BY <1>1, <1>2, <1>3, <1>4

\* A spike is over the multiple of at least half of the days, and one that is not over
\* the threshold is under that of at least half of them.
THEOREM HalfOverHalfUnder == Spec => []HalfTheDays
BY TypedAlways, HalfOfDays, PTL

LEMMA ResumedUsage == Typed => ResumedUsageFires
<1> DEFINE silent == {a \in Ages : Counted(Midnight(now) - a * Day, Midnight(now) - (a - 1) * Day) = {}}
<1> SUFFICES ASSUME Typed, 2 * Cardinality(silent) > BaselineDays
             PROVE  SpikeFired <=> Trailing >= Floor
  BY DEF ResumedUsageFires
<1>1. \A a \in silent : a \in Ages /\ DayTotal(a) = 0
  BY DayTotals, OfLedger, CountedCosts DEF Typed
<1>2. silent \in SUBSET Ages
  OBVIOUS
<1> HIDE DEF silent
<1>3. BaselineDays >= 1 /\ Cardinality(silent) >= Upper
  <2>1. Cardinality(silent) \in Nat /\ 2 * Cardinality(silent) > BaselineDays
    BY <1>2, CountDays
  <2>2. BaselineDays \in Nat
    BY RuleConstants
  <2>3. Cardinality(Ages \ silent) = BaselineDays - Cardinality(silent)
        /\ Cardinality(Ages \ silent) \in Nat
    BY <1>2, CountDays
  <2>4. BaselineDays >= 1
    BY <2>1, <2>2, <2>3
  <2>5. QED
    BY <2>1, <2>2, <2>4, MedianRanks
<1>4. ASSUME NEW k \in Nat, 1 <= k, k <= Upper
      PROVE  Ranked(k) = 0
  <2> DEFINE below == {a \in Ages : DayTotal(a) < Ranked(k)}
  <2>1. Ranked(k) \in Nat /\ Cardinality(below) < k
    <3>1. BaselineDays \in Nat
      BY RuleConstants
    <3>2. k <= BaselineDays
      BY <1>3, <1>4, <3>1, MedianRanks
    <3>3. QED
      BY <1>4, <3>2, RankedIs
  <2>2. CASE Ranked(k) # 0
    <3>1. silent \in SUBSET below /\ below \in SUBSET Ages
      BY <1>1, <2>1, <2>2
    <3>2. /\ Cardinality(silent) <= Cardinality(below)
          /\ Cardinality(silent) \in Nat /\ Cardinality(below) \in Nat
      BY <3>1, CountDays
    <3>3. QED
      BY <1>3, <1>4, <2>1, <3>2, MedianRanks
  <2>3. QED
    BY <2>2
<1>5. TwiceMedian = 0
  <2>1. Ranked(Lower) = 0 /\ Ranked(Upper) = 0
    BY <1>3, <1>4, MedianRanks
  <2>2. QED
    BY <1>3, <2>1, MedianIs
<1>6. OverThreshold
  <2>1. Trailing \in Nat
    BY OfLedger, CountedCosts DEF Trailing, Typed
  <2>2. 2 * MultDen * Trailing >= 0
    BY <2>1, RuleConstants
  <2>3. MultNum * TwiceMedian = 0
    BY <1>5, RuleConstants
  <2>4. QED
    BY <2>2, <2>3 DEF OverThreshold
<1>7. QED
  BY <1>3, <1>6 DEF SpikeFired

\* "The min-spend floor is the sole noise gate" (D26): where most days recorded
\* nothing, the floor alone decides.
THEOREM FloorAlone == Spec => []ResumedUsageFires
BY TypedAlways, ResumedUsage, PTL
=============================================================================
