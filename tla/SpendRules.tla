----------------------------- MODULE SpendRules -----------------------------
(***************************************************************************)
(* The verdicts of the two alert rules (evaluate_rules of alerts.py) over  *)
(* a ledger that grows while time passes: the daily budget, and the spike  *)
(* of the trailing 24 hours over the median of the last days' totals.      *)
(*                                                                         *)
(* Costs are natural numbers of one unit (no rate is negative); a day is   *)
(* Day ticks of the clock.  The amounts of ledgerlm.toml are any number:   *)
(* load_config takes a budget of 0 and a negative floor as they are.       *)
(***************************************************************************)
EXTENDS Integers, Sequences, FiniteSets, FiniteSetsExt

CONSTANTS Day,            \* ticks in a day
          Costs,          \* what an event may cost
          Configs,        \* the configured daily_budget_usd and min_spend_floor_usd
          MultNum,        \* spike_multiplier, a fraction; 0 would be the default (99)
          MultDen,
          BaselineDays,   \* baseline_days, 0 for less: no spike rule then
          DefaultFloor,
          None,
          Backfills,      \* runs of ledgerlm prices backfill that may overlap
          MaxTime,        \* bound on the clock
          MaxEvents       \* bound on the ledger

ASSUME RuleConstants == /\ Day \in Nat \ {0}
                        /\ Costs \subseteq Nat
                        /\ Configs \subseteq [budget : Int \cup {None}, floor : Int \cup {None}]
                        /\ MultNum \in Int \ {0} /\ MultDen \in Nat \ {0}
                        /\ BaselineDays \in Nat
                        /\ DefaultFloor \in Nat \ {0}
                        /\ None \notin Int
                        /\ MaxTime \in Nat /\ MaxEvents \in Nat

VARIABLES config,   \* what ledgerlm.toml says, None for a missing key
          ledger,   \* llm_events: [ts, cost], cost None while unpriced
          loaded,   \* the rows each backfill has loaded and not yet written
          now

vars == <<config, ledger, loaded, now>>

\* load_config: a floor of 0 is falsy, so it becomes the default like a missing one.
MutFloorAsGiven == IF config.floor = None THEN DefaultFloor ELSE config.floor
Floor == IF config.floor \in {None, 0} THEN DefaultFloor ELSE config.floor

-----------------------------------------------------------------------------
(* _window_spend: priced spend in [start, end).                            *)

MutWithinClosed(i, start, end) == start <= ledger[i].ts /\ ledger[i].ts <= end
Within(i, start, end) == start <= ledger[i].ts /\ ledger[i].ts < end

Counted(start, end) == {i \in DOMAIN ledger : Within(i, start, end) /\ ledger[i].cost # None}

Spend(start, end) == SumFunction([i \in Counted(start, end) |-> ledger[i].cost])

(* The budget rule: spend since midnight.                                  *)

Midnight(t) == t - (t % Day)

MutTodayTrailing == Spend(now - Day, now)
Today == Spend(Midnight(now), now)

BudgetFired == config.budget # None /\ Today >= config.budget

(* The spike rule.                                                         *)

\* The total of the day that lies age days before today; empty days count as 0.
MutDayTotalNeverEmpty(age) ==
    LET day == Midnight(now) - age * Day
        total == Spend(day, day + Day)
    IN  IF total = 0 THEN Floor ELSE total

DayTotal(age) == LET day == Midnight(now) - age * Day IN Spend(day, day + Day)

Ages == 1 .. BaselineDays

\* The k-th smallest of the daily totals.
Ranked(k) == CHOOSE v \in {DayTotal(a) : a \in Ages} :
                /\ Cardinality({a \in Ages : DayTotal(a) < v}) < k
                /\ Cardinality({a \in Ages : DayTotal(a) <= v}) >= k

\* statistics.median, doubled: the mean of the two middle ones if there are two.
MutTwiceMedianMean == (2 * SumFunction([a \in Ages |-> DayTotal(a)])) \div BaselineDays

TwiceMedian == Ranked((BaselineDays + 1) \div 2) + Ranked((BaselineDays + 2) \div 2)

Trailing == Spend(now - Day, now)

OverThreshold == 2 * MultDen * Trailing >= MultNum * TwiceMedian

SpikeFired == BaselineDays >= 1 /\ OverThreshold /\ Trailing >= Floor

-----------------------------------------------------------------------------
Init == /\ config \in Configs
        /\ ledger = <<>>
        /\ loaded = [b \in Backfills |-> {}]
        /\ now = 0

\* A call is recorded, priced or not.
Record == /\ Len(ledger) < MaxEvents
          /\ \E cost \in Costs \cup {None} : ledger' = Append(ledger, [ts |-> now, cost |-> cost])
          /\ UNCHANGED <<config, loaded, now>>

\* A backfill loads the rows that are unpriced.
BackfillLoad(b) == /\ loaded[b] = {}
                   /\ loaded' = [loaded EXCEPT ![b] = {i \in DOMAIN ledger : ledger[i].cost = None}]
                   /\ UNCHANGED <<config, ledger, now>>

\* It writes what it could price of them by primary key, whatever is there by now.
BackfillCommit(b) ==
    /\ \E fill \in [loaded[b] -> Costs \cup {None}] :
          ledger' = [i \in DOMAIN ledger |->
                        IF i \in loaded[b] /\ fill[i] # None THEN [ledger[i] EXCEPT !.cost = fill[i]]
                                                          ELSE ledger[i]]
    /\ loaded' = [loaded EXCEPT ![b] = {}]
    /\ UNCHANGED <<config, now>>

Tick == /\ now < MaxTime
        /\ now' = now + 1
        /\ UNCHANGED <<config, ledger, loaded>>

Next == \/ Record
        \/ \E b \in Backfills : BackfillLoad(b) \/ BackfillCommit(b)
        \/ Tick

Spec == Init /\ [][Next]_vars

-----------------------------------------------------------------------------
(* Properties.                                                             *)

\* A row that a backfill lowers, written over the cost another has given it since.
Lowered(b, i) == /\ i \in loaded[b] /\ ledger[i].cost # None
                 /\ ledger'[i].cost < ledger[i].cost

\* Until midnight a budget that has been reached stays reached whatever is recorded or
\* backfilled, so that a later check of the day cannot miss it, but for one case: a
\* backfill writes a lower cost over a row that another has priced since it was loaded.
BudgetHolds == [][BudgetFired /\ Midnight(now') = Midnight(now) =>
                     BudgetFired' \/ \E b \in Backfills : \E i \in loaded[b] : Lowered(b, i)]_vars

\* The days and today share out the spend: over the days of the baseline and today
\* every priced event counts once, those of midnight included.
DaysPartition ==
    SumFunction([a \in Ages |-> DayTotal(a)]) + Today = Spend(Midnight(now) - BaselineDays * Day, now)

\* A ledger that has been silent for a day raises no alert, nothing spent against an
\* empty baseline being no spike, unless the configuration says so outright: a budget of
\* 0 or less, or a floor below 0.  A floor of 0 does not.
SilenceNeverFires ==
    \/ \E i \in DOMAIN ledger : /\ ledger[i].cost # None /\ ledger[i].cost > 0
                               /\ now - Day <= ledger[i].ts /\ ledger[i].ts < now
    \/ /\ BudgetFired => config.budget <= 0
       /\ SpikeFired => config.floor # None /\ config.floor < 0

\* A spike is over the multiple of at least half of the days, and one that is not
\* over the threshold is under that of at least half of them.
HalfTheDays ==
    LET under == {a \in Ages : MultDen * Trailing >= MultNum * DayTotal(a)}
    IN  IF OverThreshold THEN 2 * Cardinality(under) >= BaselineDays
                         ELSE 2 * Cardinality(Ages \ under) >= BaselineDays

\* "The min-spend floor is the sole noise gate" (D26): where most days recorded
\* nothing, the floor alone decides.
ResumedUsageFires ==
    LET today == Midnight(now)
        silent == {a \in Ages : Counted(today - a * Day, today - (a - 1) * Day) = {}}
    IN  2 * Cardinality(silent) > BaselineDays => (SpikeFired <=> Trailing >= Floor)
=============================================================================
