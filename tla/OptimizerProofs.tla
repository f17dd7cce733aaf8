--------------------------- MODULE OptimizerProofs ---------------------------
(***************************************************************************)
(* Proofs about Optimizer for any calls, prices, features, percentile and  *)
(* commands running beside the report.                                     *)
(*                                                                         *)
(* A report only reads, so everything PricesProofs shows of the ledger     *)
(* holds beside it.  Counting relates what two of its SELECTs found to the *)
(* ledger in between, in which a priced row stays priced; Bought, Flagged  *)
(* and Saved say what each analysis has made of what it read, whatever has *)
(* happened to the ledger since.                                           *)
(***************************************************************************)
EXTENDS Optimizer, PricesProofs

\* The report's record, whole.
Whole == report = [pc |-> report.pc, begun |-> report.begun, window |-> report.window,
                   priced |-> report.priced, unpriced |-> report.unpriced,
                   candidates |-> report.candidates, seen |-> report.seen,
                   heavy |-> report.heavy, repeated |-> report.repeated,
                   savings |-> report.savings]

Fields == {"begun", "window", "priced", "unpriced", "candidates", "seen", "heavy",
           "repeated", "savings"}

\* A SELECT goes from one place to the next and changes the fields it names only.
Moves(from, to, changed) == /\ report.pc = from /\ report'.pc = to /\ UNCHANGED vars
                            /\ \A f \in Fields \ changed : report'[f] = report[f]

\* The priced rows of the moment, and what is read of them: those of the groups shown.
PricedNow == [c \in {d \in Recorded : Priced(d)} |-> rows[c]]

Shows(priced, shown) == /\ shown \in Dearest(PricedNow)
                        /\ priced = Restrict(PricedNow, {c \in DOMAIN PricedNow : GroupOf(c) \in shown})

LEMMA WholeStep ==
  ASSUME Whole, [ReportNext]_reportVars
  PROVE  /\ Whole'
         /\ \/ [Next]_vars /\ UNCHANGED report
            \/ /\ Moves("idle", "priced", {"begun", "window"})
               /\ report'.begun = Recorded /\ report'.window = {c \in Recorded : ~Priced(c)}
            \/ /\ Moves("priced", "unpriced", {"priced"})
               /\ \E shown : Shows(report'.priced, shown)
            \/ /\ Moves("unpriced", "rates", {"unpriced"})
               /\ report'.unpriced = {c \in Recorded : ~Priced(c)}
            \/ Moves("rates", "sizes", {"candidates"}) /\ SelectRates
            \/ Moves("sizes", "heavy", {"seen"}) /\ report'.seen = Recorded
            \/ Moves("heavy", "repeats", {"heavy"}) /\ report'.heavy = Heavy(report.seen)
            \/ Moves("repeats", "savings", {"repeated"}) /\ report'.repeated = Repeated
            \/ /\ Moves("savings", "done", {"savings"})
               /\ report'.savings = [S \in report.repeated |-> Estimate(S)]
<1>1. CASE [Next]_vars /\ UNCHANGED report
  BY <1>1 DEF Whole
<1>2. CASE SelectWindow
  BY <1>2 DEF SelectWindow, Select, Whole, Moves, Fields
<1>3. CASE SelectPriced
  <2>1. PICK shown \in Dearest(PricedNow) :
           Select("priced", "unpriced",
                  [report EXCEPT !.priced =
                      Restrict(PricedNow, {c \in DOMAIN PricedNow : GroupOf(c) \in shown})])
    BY <1>3 DEF SelectPriced, PricedNow
  <2>2. PICK priced : priced = Restrict(PricedNow, {c \in DOMAIN PricedNow : GroupOf(c) \in shown})
    OBVIOUS
  <2>3. Moves("priced", "unpriced", {"priced"}) /\ report'.priced = priced /\ Whole'
    BY <2>1, <2>2 DEF Select, Whole, Moves, Fields
  <2>4. QED
    BY <2>2, <2>3 DEF Shows
<1>4. CASE SelectUnpriced
  BY <1>4 DEF SelectUnpriced, Select, Whole, Moves, Fields
<1>5. CASE SelectRates
  BY <1>5 DEF SelectRates, Select, Whole, Moves, Fields
<1>6. CASE SelectSizes
  BY <1>6 DEF SelectSizes, Select, Whole, Moves, Fields
<1>7. CASE SelectHeavy
  BY <1>7 DEF SelectHeavy, Select, Whole, Moves, Fields
<1>8. CASE SelectRepeats
  BY <1>8 DEF SelectRepeats, Select, Whole, Moves, Fields
<1>9. CASE SelectCacheRates
  BY <1>9 DEF SelectCacheRates, Select, Whole, Moves, Fields
<1>10. CASE UNCHANGED reportVars
  BY <1>1, <1>10 DEF reportVars
<1>11. QED
  BY <1>1, <1>2, <1>3, <1>4, <1>5, <1>6, <1>7, <1>8, <1>9, <1>10 DEF ReportNext

-----------------------------------------------------------------------------
(* A report only reads.                                                    *)

\* With a report beside it the ledger does what it does without: every theorem of
\* PricesProofs holds beside a report.
THEOREM ReportOnlyReads == ReportSpec => Spec
<1>1. ReportInit => Init
  BY DEF ReportInit
<1>2. [ReportNext]_reportVars => [Next]_vars
  BY DEF ReportNext, reportVars, Select, SelectWindow, SelectPriced, SelectUnpriced,
     SelectRates, SelectSizes, SelectHeavy, SelectRepeats, SelectCacheRates
<1>3. QED
  BY <1>1, <1>2, PTL DEF ReportSpec, Spec

LEMMA LedgerSound == ReportSpec => [](Shaped /\ Sounded)
BY ReportOnlyReads, SoundedAlways, PTL

LEMMA RecordedIs == \A c : c \in Recorded <=> c \in Calls /\ rows[c] # <<>>
BY DEF Recorded

-----------------------------------------------------------------------------
(* Every row counted once.                                                 *)

\* The groups are as many as their cut allows.
LEMMA GroupsFinite ==
  ASSUME NEW S \in SUBSET Calls
  PROVE  IsFiniteSet(GroupsOf(S)) /\ Cardinality(GroupsOf(S)) \in Nat
<1> DEFINE f == [c \in S |-> GroupOf(c)]
<1>1. IsFiniteSet(S)
  BY PriceConstants, FS_Subset
<1>2. f \in Surjection(S, GroupsOf(S))
  BY DEF GroupsOf, Surjection
<1>3. IsFiniteSet(GroupsOf(S))
  BY <1>1, <1>2, FS_Surjection
<1>4. QED
  BY <1>3, FS_CardinalityType

\* The rows read are those that are priced, in a group shown; each group shown has some,
\* and if one is not shown GroupLimit others are.
LEMMA ShownGroups ==
  ASSUME NEW priced, NEW shown, Shows(priced, shown)
  PROVE  /\ \A c : c \in DOMAIN priced <=> c \in Calls /\ Priced(c) /\ GroupOf(c) \in shown
         /\ \A c \in DOMAIN priced : priced[c] = rows[c]
         /\ GroupsOf(DOMAIN priced) = shown
         /\ \A c \in Calls : Priced(c) /\ GroupOf(c) \notin shown => Cardinality(shown) = GroupLimit
<1>1. \A c : c \in DOMAIN PricedNow <=> c \in Calls /\ Priced(c)
  BY RecordedIs DEF PricedNow, Priced
<1>2. /\ \A c : c \in DOMAIN priced <=> c \in Calls /\ Priced(c) /\ GroupOf(c) \in shown
      /\ \A c \in DOMAIN priced : priced[c] = PricedNow[c]
  BY <1>1 DEF Shows, Restrict
<1>3. \A c \in DOMAIN priced : priced[c] = rows[c]
  BY <1>2, RecordedIs DEF PricedNow, Priced
<1> DEFINE groups == GroupsOf(DOMAIN PricedNow)
<1>4. /\ shown \in SUBSET groups
      /\ Cardinality(shown) = Min({Cardinality(groups), GroupLimit})
  BY DEF Shows, Dearest
<1>5. GroupsOf(DOMAIN priced) = shown
  BY <1>1, <1>2, <1>4 DEF GroupsOf
<1>6. IsFiniteSet(groups) /\ Cardinality(groups) \in Nat
  <2>1. DOMAIN PricedNow \in SUBSET Calls
    BY <1>1
  <2>2. QED
    BY <2>1, GroupsFinite
<1>7. ASSUME NEW c \in Calls, Priced(c), GroupOf(c) \notin shown
      PROVE  Cardinality(shown) = GroupLimit
  <2>1. GroupOf(c) \in groups
    BY <1>1, <1>7 DEF GroupsOf
  <2> HIDE DEF groups
  <2>2. Cardinality(shown) # Cardinality(groups)
    BY <1>4, <1>6, <1>7, <2>1, FS_Subset
  <2>3. Min({Cardinality(groups), GroupLimit}) \in {Cardinality(groups), GroupLimit}
    <3>1. PICK n \in Nat : n = Cardinality(groups)
      BY <1>6
    <3>2. GroupLimit \in Nat
      BY ReportConstants
    <3>3. \E m \in {n, GroupLimit} : \A k \in {n, GroupLimit} : m <= k
      BY <3>2
    <3>4. Min({n, GroupLimit}) \in {n, GroupLimit}
      BY <3>3 DEF Min
    <3>5. QED
      BY <3>1, <3>4
  <2>4. QED
    BY <1>4, <2>2, <2>3
<1>8. QED
  BY <1>2, <1>3, <1>5, <1>7

\* What the report has, or will have, in the figures of the table.
Covered == LET shown == GroupsOf(DOMAIN report.priced) IN
           \A c \in report.begun \ report.window :
              \/ c \in DOMAIN report.priced
              \/ GroupOf(c) \notin shown /\ Cardinality(shown) = GroupLimit

Counting ==
    /\ DOMAIN report.priced \subseteq Calls /\ \A c \in DOMAIN report.priced : Priced(c)
    /\ DOMAIN report.priced \cap report.unpriced = {}
    /\ report.begun \subseteq Calls /\ \A c \in report.begun \ report.window : Priced(c)
    /\ report.pc \in {"idle", "priced", "unpriced"} => report.unpriced = {}
    /\ report.pc \in {"idle", "priced"} \/ Covered

LEMMA CountingInit == ReportInit => Whole /\ Counting
<1> SUFFICES ASSUME ReportInit PROVE Whole /\ Counting
  OBVIOUS
<1>1. /\ Whole /\ report.pc = "idle" /\ report.priced = <<>> /\ report.unpriced = {}
      /\ report.begun = {}
  BY DEF ReportInit, Whole
<1>2. DOMAIN report.priced = {}
  BY <1>1
<1>3. QED
  BY <1>1, <1>2 DEF Counting

LEMMA CountingStep ==
  ASSUME Shaped, Sounded, Whole, Counting, [ReportNext]_reportVars
  PROVE  Counting'
<1>1. CASE [Next]_vars /\ UNCHANGED report
  <2>1. \A c \in Calls : Priced(c) => Priced(c)'
    BY <1>1, PricedStays
  <2>2. Covered' <=> Covered
    BY <1>1 DEF Covered, GroupsOf, GroupOf
  <2>3. QED
    BY <1>1, <2>1, <2>2 DEF Counting
<1>2. ASSUME UNCHANGED vars
      PROVE  \A c : Priced(c)' <=> Priced(c)
  BY <1>2 DEF Priced, vars
<1>3. CASE /\ Moves("idle", "priced", {"begun", "window"})
           /\ report'.begun = Recorded /\ report'.window = {c \in Recorded : ~Priced(c)}
  <2>1. report'.priced = report.priced /\ report'.unpriced = report.unpriced
    BY <1>3 DEF Moves, Fields
  <2>2. /\ \A c : Priced(c)' <=> Priced(c)
        /\ report.pc = "idle" /\ report'.pc = "priced"
    BY <1>2, <1>3 DEF Moves
  <2>3. \A c \in report'.begun \ report'.window : Priced(c)
    BY <1>3
  <2>4. report'.begun \subseteq Calls
    BY <1>3, RecordedIs
  <2>5. QED
    BY <2>1, <2>2, <2>3, <2>4 DEF Counting
<1>4. CASE /\ Moves("priced", "unpriced", {"priced"})
           /\ \E shown : Shows(report'.priced, shown)
  <2>1. /\ report'.begun = report.begun /\ report'.window = report.window
        /\ report'.unpriced = report.unpriced
    BY <1>4 DEF Moves, Fields
  <2>2. /\ \A c : Priced(c)' <=> Priced(c)
        /\ report.pc = "priced" /\ report'.pc = "unpriced"
    BY <1>2, <1>4 DEF Moves
  <2>3. PICK shown : Shows(report'.priced, shown)
    BY <1>4
  <2>4. /\ \A c : c \in DOMAIN report'.priced <=> c \in Calls /\ Priced(c) /\ GroupOf(c) \in shown
        /\ GroupsOf(DOMAIN report'.priced) = shown
        /\ \A c \in Calls : Priced(c) /\ GroupOf(c) \notin shown => Cardinality(shown) = GroupLimit
    BY <2>3, ShownGroups
  <2>5. \A c \in report'.begun \ report'.window :
           \/ c \in DOMAIN report'.priced
           \/ GroupOf(c) \notin shown /\ Cardinality(shown) = GroupLimit
    BY <2>1, <2>4 DEF Counting
  <2>6. Covered'
    BY <2>4, <2>5 DEF Covered, GroupsOf, GroupOf
  <2>7. QED
    BY <2>1, <2>2, <2>4, <2>6 DEF Counting
<1>5. CASE /\ Moves("unpriced", "rates", {"unpriced"})
           /\ report'.unpriced = {c \in Recorded : ~Priced(c)}
  <2>1. /\ report'.begun = report.begun /\ report'.window = report.window
        /\ report'.priced = report.priced
    BY <1>5 DEF Moves, Fields
  <2>2. /\ \A c : Priced(c)' <=> Priced(c)
        /\ report.pc = "unpriced" /\ report'.pc = "rates"
    BY <1>2, <1>5 DEF Moves
  <2>3. \A c \in report'.unpriced : ~Priced(c)
    BY <1>5
  <2>4. Covered' <=> Covered
    BY <2>1 DEF Covered, GroupsOf, GroupOf
  <2>5. QED
    BY <2>1, <2>2, <2>3, <2>4 DEF Counting
<1>6. ASSUME NEW from, NEW to, NEW changed, Moves(from, to, changed),
             changed \cap {"begun", "window", "priced", "unpriced"} = {},
             from \notin {"idle", "priced", "unpriced"},
             to \notin {"idle", "priced", "unpriced"}
      PROVE  Counting'
  <2>1. /\ report'.begun = report.begun /\ report'.window = report.window
        /\ report'.priced = report.priced /\ report'.unpriced = report.unpriced
        /\ report.pc = from /\ report'.pc = to
    BY <1>6 DEF Moves, Fields
  <2>2. \A c : Priced(c)' <=> Priced(c)
    BY <1>2, <1>6 DEF Moves
  <2>3. Covered' <=> Covered
    BY <2>1 DEF Covered, GroupsOf, GroupOf
  <2>4. QED
    BY <1>6, <2>1, <2>2, <2>3 DEF Counting
<1>7. QED
  BY <1>1, <1>3, <1>4, <1>5, <1>6, WholeStep

\* No row is both in a group's cost and in the unpriced count beside it, and each row
\* of the start is in a group's cost or in the banner's count, even one priced meanwhile,
\* unless its whole group gives way to GroupLimit others.
THEOREM EachCountedOnce == ReportSpec => []CountedOnce
<1>1. ReportInit => Whole /\ Counting
  BY CountingInit
<1>2. Shaped /\ Sounded /\ Whole /\ Counting /\ [ReportNext]_reportVars => Whole' /\ Counting'
  BY WholeStep, CountingStep
<1>3. Counting => CountedOnce
  BY DEF Counting, Covered, CountedOnce
<1>4. QED
  BY <1>1, <1>2, <1>3, LedgerSound, PTL DEF ReportSpec

-----------------------------------------------------------------------------
(* Candidates are cheaper.                                                 *)

\* What CandidatesCheaper says of one candidate.
Amount(c, r) == SumFunction([b \in Used(Tokens[c]) |-> Tokens[c][b] * r[b]])

Cheaper(priced, g, rates) ==
    LET calls == Members(g, DOMAIN priced)
    IN  /\ \A c \in calls : Covers(rates, Tokens[c])
        /\ 2 * SumFunction([c \in calls |-> Amount(c, rates)]) <=
             2 * SumFunction([c \in calls |-> Amount(c, priced[c].snapshot)])
               + Scale * (Cardinality(calls) - 1)

\* The tokens of calls whose usage is known, bucket by bucket.
LEMMA UsageSums ==
  ASSUME NEW C \in SUBSET Calls, \A c \in C : Tokens[c] # None
  PROVE  /\ IsFiniteSet(C)
         /\ \A c \in C : Tokens[c] \in Amounts /\ \A b \in Buckets : TokensOf(c, b) = Tokens[c][b]
         /\ \A b \in Buckets : SumOver(C, b) = SumFunctionOnSet([c \in C |-> Tokens[c][b]], C)
         /\ Usage(C) \in Amounts
         /\ \A b \in Buckets : Usage(C)[b] = SumOver(C, b)
         /\ \A c \in C : Used(Tokens[c]) \subseteq Used(Usage(C))
<1>1. IsFiniteSet(C)
  BY PriceConstants, FS_Subset
<1>2. \A c \in C : Tokens[c] \in Amounts /\ \A b \in Buckets : TokensOf(c, b) = Tokens[c][b]
  BY PriceConstants DEF TokensOf, Amounts
<1>3. ASSUME NEW b \in Buckets
      PROVE  /\ SumOver(C, b) = SumFunctionOnSet([c \in C |-> Tokens[c][b]], C)
             /\ SumOver(C, b) \in Nat
             /\ SumOver(C, b) = 0 <=> \A c \in C : Tokens[c][b] = 0
  <2> DEFINE f == [c \in C |-> Tokens[c][b]]
  <2>1. [c \in C |-> TokensOf(c, b)] = f
    BY <1>2
  <2>2. SumOver(C, b) = SumFunctionOnSet(f, C)
    BY <2>1 DEF SumOver, SumFunction
  <2>3. \A c \in C : f[c] = Tokens[c][b] /\ f[c] \in Nat
    BY <1>2 DEF Amounts
  <2> HIDE DEF f
  <2>4. SumFunctionOnSet(f, C) \in Nat
    BY <1>1, <2>3, SumNat
  <2>5. SumFunctionOnSet(f, C) = 0 <=> \A c \in C : f[c] = 0
    BY <1>1, <2>3, SumZero
  <2>6. QED
    BY <2>2, <2>3, <2>4, <2>5 DEF f
<1>4. /\ Usage(C) \in Amounts
      /\ \A b \in Buckets : Usage(C)[b] = SumOver(C, b)
  BY <1>3 DEF Usage, Amounts
<1>5. \A c \in C : Used(Tokens[c]) \subseteq Used(Usage(C))
  BY <1>3, <1>4 DEF Used
<1>6. QED
  BY <1>1, <1>2, <1>3, <1>4, <1>5

\* At the same rates the calls come to what their usage comes to.
LEMMA UsageAmount ==
  ASSUME NEW C \in SUBSET Calls, \A c \in C : Tokens[c] # None,
         NEW rates \in Rates, Covers(rates, Usage(C))
  PROVE  /\ \A c \in C : Covers(rates, Tokens[c]) /\ Amount(c, rates) \in Nat
         /\ SumFunction([b \in Used(Usage(C)) |-> Usage(C)[b] * rates[b]])
               = SumFunctionOnSet([c \in C |-> Amount(c, rates)], C)
<1>1. PICK U : U = Used(Usage(C))
  OBVIOUS
<1>2. U \in SUBSET Buckets /\ IsFiniteSet(U) /\ \A b \in U : rates[b] \in Nat
  <2>1. U \in SUBSET Buckets
    BY <1>1 DEF Used
  <2>2. \A b \in U : rates[b] # None
    BY <1>1 DEF Covers
  <2>3. QED
    BY <2>1, <2>2, PriceConstants, FS_Subset DEF Rates
<1>3. IsFiniteSet(C) /\ \A c \in C : /\ Tokens[c] \in Amounts
                                     /\ Used(Tokens[c]) \in SUBSET U
  BY <1>1, UsageSums
<1>4. \A c \in C : Covers(rates, Tokens[c])
  BY <1>1, <1>3 DEF Covers
<1>5. \A c \in C : \A b \in U : Tokens[c][b] * rates[b] \in Nat
  BY <1>2, <1>3 DEF Amounts
<1> DEFINE m == [c \in C |-> [b \in U |-> Tokens[c][b] * rates[b]]]
           w == [b \in U |-> Usage(C)[b] * rates[b]]
           a == [c \in C |-> Amount(c, rates)]
           rowSums == [c \in C |-> SumFunctionOnSet(m[c], U)]
           col(b) == [c \in C |-> m[c][b]]
           colSums == [b \in U |-> SumFunctionOnSet(col(b), C)]
<1>6. m \in [C -> [U -> Nat]]
  BY <1>5
<1>7. \A c \in C : \A b \in U : m[c][b] = Tokens[c][b] * rates[b]
  OBVIOUS
<1> HIDE DEF m
<1>8. SumFunctionOnSet(rowSums, C) = SumFunctionOnSet(colSums, U)
  BY <1>2, <1>3, <1>6, SumSwap
<1>9. ASSUME NEW c \in C
      PROVE  SumFunctionOnSet(m[c], U) = Amount(c, rates) /\ Amount(c, rates) \in Nat
  <2>1. PICK T \in SUBSET U : T = Used(Tokens[c])
    BY <1>3
  <2>2. PICK f : f = m[c]
    OBVIOUS
  <2>3. \A b \in U : f[b] = Tokens[c][b] * rates[b] /\ f[b] \in Nat
    BY <1>5, <1>7, <2>2
  <2>4. \A b \in U \ T : f[b] = 0
    <3>1. \A b \in U \ T : Tokens[c][b] = 0
      BY <1>2, <2>1 DEF Used
    <3>2. QED
      BY <1>2, <2>3, <3>1
  <2>5. SumFunctionOnSet(f, U) = SumFunctionOnSet(f, T)
    BY <1>2, <2>3, <2>4, SumOfPart
  <2> DEFINE h == [b \in T |-> Tokens[c][b] * rates[b]]
  <2>6. Amount(c, rates) = SumFunctionOnSet(h, T)
    BY <2>1 DEF Amount, SumFunction
  <2>7. \A b \in T : f[b] \in Nat /\ f[b] = h[b]
    BY <2>3
  <2>8. IsFiniteSet(T)
    BY <1>2, FS_Subset
  <2> HIDE DEF h
  <2>9. SumFunctionOnSet(f, T) = SumFunctionOnSet(h, T) /\ SumFunctionOnSet(f, T) \in Nat
    BY <2>7, <2>8, SumSame, SumNat
  <2>10. QED
    BY <2>2, <2>5, <2>6, <2>9
<1>10. ASSUME NEW b \in U
       PROVE  SumFunctionOnSet(col(b), C) = Usage(C)[b] * rates[b]
  <2> DEFINE f == [c \in C |-> Tokens[c][b]]
  <2>1. b \in Buckets /\ rates[b] \in Nat
    BY <1>2
  <2>2. Usage(C)[b] = SumFunctionOnSet(f, C)
    BY <2>1, UsageSums
  <2>3. \A c \in C : f[c] = Tokens[c][b] /\ f[c] \in Nat
    BY <1>3, <2>1 DEF Amounts
  <2>4. \A c \in C : col(b)[c] = rates[b] * f[c]
    BY <1>7, <2>1, <2>3
  <2> HIDE DEF f, col
  <2>5. SumFunctionOnSet(col(b), C) = rates[b] * SumFunctionOnSet(f, C)
    BY <1>3, <2>1, <2>3, <2>4, SumTimes
  <2>6. SumFunctionOnSet(f, C) \in Nat
    BY <1>3, <2>3, SumNat
  <2>7. QED
    BY <2>1, <2>2, <2>5, <2>6
<1>11. rowSums = a
  BY <1>9
<1>12. colSums = w
  BY <1>10
<1>13. SumFunction([b \in Used(Usage(C)) |-> Usage(C)[b] * rates[b]]) = SumFunctionOnSet(w, U)
  BY <1>1 DEF SumFunction
<1>14. QED
  BY <1>4, <1>8, <1>9, <1>11, <1>12, <1>13

\* Costs are rounded one by one: together they are at most half a quantum each off.
LEMMA CostsNear ==
  ASSUME NEW C \in SUBSET Calls, NEW priced,
         \A c \in C : priced[c].cost # None /\ Sound(c, priced[c])
  PROVE  /\ \A c \in C : Amount(c, priced[c].snapshot) \in Nat /\ priced[c].cost \in Nat
         /\ 2 * (Scale * SumFunctionOnSet([c \in C |-> priced[c].cost], C))
               <= 2 * SumFunctionOnSet([c \in C |-> Amount(c, priced[c].snapshot)], C)
                    + Scale * Cardinality(C)
<1> DEFINE cost == [c \in C |-> priced[c].cost]
           a == [c \in C |-> Amount(c, priced[c].snapshot)]
           scaled == [c \in C |-> (2 * Scale) * priced[c].cost]
           twice == [c \in C |-> 2 * Amount(c, priced[c].snapshot)]
           slack == [c \in C |-> Scale]
           bound == [c \in C |-> 2 * Amount(c, priced[c].snapshot) + Scale]
<1>1. IsFiniteSet(C) /\ Scale \in Nat /\ 2 * Scale \in Nat
  BY PriceConstants, FS_Subset
<1>2. ASSUME NEW c \in C
      PROVE  /\ a[c] \in Nat /\ cost[c] \in Nat
             /\ scaled[c] = (2 * Scale) * cost[c] /\ scaled[c] \in Nat
             /\ twice[c] = 2 * a[c] /\ twice[c] \in Nat
             /\ bound[c] = twice[c] + slack[c] /\ bound[c] \in Nat
             /\ slack[c] = Scale /\ slack[c] \in Nat
             /\ scaled[c] <= bound[c]
  <2>1. PICK r : r = priced[c].snapshot
    OBVIOUS
  <2>2. Tokens[c] \in Amounts /\ \A b \in Used(Tokens[c]) : r[b] \in Nat
    BY <2>1, PriceConstants DEF Sound, Amounts
  <2>3. Amount(c, r) \in Nat
    BY <2>2, UsedAmounts DEF Amount
  <2>4. priced[c].cost = Quantize(Amount(c, r))
    BY <2>1 DEF Sound, Cost, Amount
  <2>5. PICK n \in Nat : n = Amount(c, r)
    BY <2>3
  <2>6. PICK q : q = Quantize(n)
    OBVIOUS
  <2>7. q \in Nat /\ 2 * (Scale * q) <= 2 * n + Scale
    BY <2>6, QuantizeNear
  <2>8. 2 * (Scale * q) = (2 * Scale) * q /\ (2 * Scale) * q \in Nat
    BY <1>1, <2>7
  <2>9. /\ a[c] = n /\ cost[c] = q /\ scaled[c] = (2 * Scale) * q /\ twice[c] = 2 * n
        /\ bound[c] = 2 * n + Scale /\ slack[c] = Scale
    BY <2>1, <2>4, <2>5, <2>6
  <2> HIDE DEF a, cost, scaled, twice, bound, slack
  <2>10. QED
    BY <1>1, <2>7, <2>8, <2>9
<1>3. \A c \in C : Amount(c, priced[c].snapshot) \in Nat /\ priced[c].cost \in Nat
  BY <1>2
<1> HIDE DEF a, cost, scaled, twice, bound, slack
<1>4. SumFunctionOnSet(scaled, C) = (2 * Scale) * SumFunctionOnSet(cost, C)
  <2>1. PICK k \in Nat : k = 2 * Scale
    BY <1>1
  <2>2. \A c \in C : cost[c] \in Nat /\ scaled[c] = k * cost[c]
    BY <1>2, <2>1
  <2>3. SumFunctionOnSet(scaled, C) = k * SumFunctionOnSet(cost, C)
    BY <1>1, <2>2, SumTimes
  <2>4. QED
    BY <2>1, <2>3
<1>5. SumFunctionOnSet(twice, C) = 2 * SumFunctionOnSet(a, C)
  BY <1>1, <1>2, SumTimes
<1>6. SumFunctionOnSet(slack, C) = Scale * Cardinality(C)
  BY <1>1, <1>2, SumConstant
<1>7. SumFunctionOnSet(bound, C) = SumFunctionOnSet(twice, C) + SumFunctionOnSet(slack, C)
  BY <1>1, <1>2, SumPlus
<1>8. SumFunctionOnSet(scaled, C) <= SumFunctionOnSet(bound, C)
  BY <1>1, <1>2, SumLeq
<1>9. SumFunctionOnSet(cost, C) \in Nat
  BY <1>1, <1>2, SumNat
<1>10. 2 * (Scale * SumFunctionOnSet(cost, C)) = (2 * Scale) * SumFunctionOnSet(cost, C)
  BY <1>1, <1>9
<1>11. 2 * (Scale * SumFunctionOnSet(cost, C))
          <= 2 * SumFunctionOnSet(a, C) + Scale * Cardinality(C)
  BY <1>4, <1>5, <1>6, <1>7, <1>8, <1>10
<1>12. QED
  BY <1>3, <1>11 DEF a, cost

\* A pair whose cost for the usage is lower is a cheaper one.
LEMMA LowerIsCheaper ==
  ASSUME NEW priced, DOMAIN priced \subseteq Calls,
         \A c \in DOMAIN priced : priced[c].cost # None /\ Sound(c, priced[c]),
         NEW g, NEW rates \in Rates,
         Covers(rates, Usage(Members(g, DOMAIN priced))),
         Cost(rates, Usage(Members(g, DOMAIN priced))) < Current(priced, g)
  PROVE  Cheaper(priced, g, rates)
<1>1. PICK C \in SUBSET Calls : C = Members(g, DOMAIN priced) /\ C \subseteq DOMAIN priced
  BY DEF Members
<1>2. \A c \in C : Tokens[c] # None /\ priced[c].cost # None /\ Sound(c, priced[c])
  BY <1>1 DEF Sound
<1>3. /\ IsFiniteSet(C) /\ Usage(C) \in Amounts /\ Scale \in Nat /\ Scale > 0
      /\ Cardinality(C) \in Nat
  <2>1. IsFiniteSet(C) /\ Usage(C) \in Amounts
    BY <1>2, UsageSums
  <2>2. Cardinality(C) \in Nat
    BY <2>1, FS_CardinalityType
  <2>3. Scale \in Nat /\ Scale > 0
    BY PriceConstants
  <2>4. QED
    BY <2>1, <2>2, <2>3
<1>4. \A c \in C : Covers(rates, Tokens[c]) /\ Amount(c, rates) \in Nat
  BY <1>1, <1>2, UsageAmount
<1> DEFINE w == SumFunction([b \in Used(Usage(C)) |-> Usage(C)[b] * rates[b]])
           new == SumFunctionOnSet([c \in C |-> Amount(c, rates)], C)
           old == SumFunctionOnSet([c \in C |-> Amount(c, priced[c].snapshot)], C)
           paid == SumFunctionOnSet([c \in C |-> priced[c].cost], C)
<1>5. w = new
  BY <1>1, <1>2, UsageAmount
<1>6. Quantize(w) < paid
  <2>1. Cost(rates, Usage(C)) = Quantize(w)
    BY DEF Cost
  <2>2. Current(priced, g) = paid
    BY <1>1 DEF Current, SumFunction
  <2>3. QED
    BY <1>1, <2>1, <2>2
<1>7. \A c \in C : Amount(c, priced[c].snapshot) \in Nat /\ priced[c].cost \in Nat
  BY <1>2, CostsNear
<1>8. 2 * (Scale * paid) <= 2 * old + Scale * Cardinality(C)
  BY <1>2, CostsNear
<1>9. old \in Nat /\ new \in Nat /\ paid \in Nat
  <2> DEFINE f == [c \in C |-> Amount(c, rates)]
             h == [c \in C |-> Amount(c, priced[c].snapshot)]
             p == [c \in C |-> priced[c].cost]
  <2>1. \A c \in C : f[c] \in Nat /\ h[c] \in Nat /\ p[c] \in Nat
    BY <1>4, <1>7
  <2> HIDE DEF f, h, p
  <2>2. /\ SumFunctionOnSet(f, C) \in Nat /\ SumFunctionOnSet(h, C) \in Nat
        /\ SumFunctionOnSet(p, C) \in Nat
    BY <1>3, <2>1, SumNat
  <2>3. QED
    BY <2>2 DEF f, h, p
<1>10. /\ SumFunction([c \in Members(g, DOMAIN priced) |-> Amount(c, rates)]) = new
       /\ SumFunction([c \in Members(g, DOMAIN priced) |-> Amount(c, priced[c].snapshot)]) = old
  BY <1>1 DEF SumFunction
<1> HIDE DEF w, new, old, paid
<1>11. 2 * new <= 2 * old + Scale * (Cardinality(C) - 1)
  <2>1. PICK q : q = Quantize(w)
    OBVIOUS
  <2>2. q \in Nat /\ 2 * new - Scale <= 2 * (Scale * q)
    BY <1>5, <1>9, <2>1, QuantizeNear
  <2>3. q + 1 <= paid
    BY <1>6, <1>9, <2>1, <2>2
  <2>4. Scale * (q + 1) <= Scale * paid
    <3>1. PICK d \in Nat : paid = (q + 1) + d
      <4>1. paid - (q + 1) \in Nat /\ paid = (q + 1) + (paid - (q + 1))
        BY <1>9, <2>2, <2>3
      <4>2. QED
        BY <4>1
    <3>2. Scale * paid = Scale * (q + 1) + Scale * d
      BY <1>3, <2>2, <3>1
    <3>3. Scale * d \in Nat /\ Scale * (q + 1) \in Nat
      BY <1>3, <2>2
    <3>4. QED
      BY <3>2, <3>3
  <2>5. Scale * (q + 1) = Scale * q + Scale
    BY <1>3, <2>2
  <2>6. Scale * (Cardinality(C) - 1) = Scale * Cardinality(C) - Scale
    BY <1>3
  <2>7. Scale * q \in Nat /\ Scale * paid \in Nat /\ Scale * Cardinality(C) \in Nat
    BY <1>3, <1>9, <2>2
  <2>8. QED
    BY <1>3, <1>8, <1>9, <2>2, <2>4, <2>5, <2>6, <2>7
<1>12. QED
  BY <1>1, <1>4, <1>10, <1>11 DEF Cheaper

\* The rows the report has read are priced and sound, and what it has concluded from
\* them holds of the prices it has read; until then there are no candidates.
Bought ==
    /\ DOMAIN report.priced \subseteq Calls
    /\ \A c \in DOMAIN report.priced :
           report.priced[c].cost # None /\ Sound(c, report.priced[c])
    /\ report.pc \in {"idle", "priced", "unpriced", "rates"} => DOMAIN report.candidates = {}
    /\ \A g \in DOMAIN report.candidates : \A k \in DOMAIN report.candidates[g] :
           k # g[3] /\ Cheaper(report.priced, g, report.candidates[g][k])

LEMMA BoughtInit == ReportInit => Whole /\ Bought
<1> SUFFICES ASSUME ReportInit PROVE Whole /\ Bought
  OBVIOUS
<1>1. Whole /\ report.priced = <<>> /\ report.candidates = <<>>
  BY DEF ReportInit, Whole
<1>2. DOMAIN report.priced = {} /\ DOMAIN report.candidates = {}
  BY <1>1
<1>3. QED
  BY <1>1, <1>2 DEF Bought

LEMMA BoughtStep ==
  ASSUME Shaped, Sounded, Whole, Bought, [ReportNext]_reportVars
  PROVE  Bought'
<1>1. ASSUME report'.priced = report.priced, report'.candidates = report.candidates,
             \/ report'.pc = report.pc
             \/ report'.pc \notin {"idle", "priced", "unpriced", "rates"}
             \/ report.pc \in {"idle", "priced", "unpriced", "rates"}
      PROVE  Bought'
  BY <1>1 DEF Bought
<1>2. CASE /\ Moves("priced", "unpriced", {"priced"})
           /\ \E shown : Shows(report'.priced, shown)
  <2>1. report'.candidates = report.candidates /\ report.pc = "priced" /\ report'.pc = "unpriced"
    BY <1>2 DEF Moves, Fields
  <2>2. \A c \in DOMAIN report'.priced : /\ c \in Calls /\ rows[c] # <<>> /\ rows[c].cost # None
                                         /\ report'.priced[c] = rows[c]
    <3>1. PICK shown : Shows(report'.priced, shown)
      BY <1>2
    <3>2. QED
      BY <3>1, ShownGroups DEF Priced
  <2>3. DOMAIN report'.candidates = {}
    BY <2>1 DEF Bought
  <2>4. QED
    BY <2>1, <2>2, <2>3 DEF Bought, Sounded
<1>3. CASE Moves("rates", "sizes", {"candidates"}) /\ SelectRates
  <2>1. report'.priced = report.priced /\ report'.pc = "sizes"
    BY <1>3 DEF Moves, Fields
  <2> DEFINE groups == GroupsOf(DOMAIN report.priced)
  <2>2. report'.candidates =
           [g \in groups |-> [k \in Candidates(report.priced, g) |-> prices[k]]]
    BY <1>3 DEF SelectRates, Select, Whole
  <2>3. ASSUME NEW g \in groups, NEW k \in Candidates(report.priced, g)
        PROVE  k # g[3] /\ Cheaper(report.priced, g, prices[k])
    <3>1. /\ k \in Keys /\ k # g[3] /\ prices[k] # None
          /\ Covers(prices[k], Usage(Members(g, DOMAIN report.priced)))
          /\ Cost(prices[k], Usage(Members(g, DOMAIN report.priced))) < Current(report.priced, g)
      BY <2>3 DEF Candidates
    <3>2. PICK rates \in Rates : rates = prices[k]
      BY <3>1 DEF Shaped
    <3>3. PICK priced : priced = report.priced
      OBVIOUS
    <3>4. Cheaper(priced, g, rates)
      BY <3>1, <3>2, <3>3, LowerIsCheaper DEF Bought
    <3>5. QED
      BY <3>1, <3>2, <3>3, <3>4
  <2> HIDE DEF groups
  <2>4. \A g \in DOMAIN report'.candidates : \A k \in DOMAIN report'.candidates[g] :
            k # g[3] /\ Cheaper(report.priced, g, report'.candidates[g][k])
    BY <2>2, <2>3
  <2>5. QED
    BY <2>1, <2>4 DEF Bought
<1>4. QED
  BY <1>1, <1>2, <1>3, WholeStep DEF Moves, Fields

\* "Current" and "what-if" cover the same calls, and a candidate makes them no dearer,
\* half a quantum of rounding for each call but one aside.
THEOREM CandidatesAreCheaper == ReportSpec => []CandidatesCheaper
<1>1. ReportInit => Whole /\ Bought
  BY BoughtInit
<1>2. Shaped /\ Sounded /\ Whole /\ Bought /\ [ReportNext]_reportVars => Whole' /\ Bought'
  BY WholeStep, BoughtStep
<1>3. Bought => CandidatesCheaper
  BY DEF Bought, CandidatesCheaper, Cheaper, Amount
<1>4. QED
  BY <1>1, <1>2, <1>3, LedgerSound, PTL DEF ReportSpec

-----------------------------------------------------------------------------
(* Few calls are token-heavy.                                              *)

LEMMA TokensNat ==
  ASSUME NEW c \in Calls, NEW b \in Buckets
  PROVE  TokensOf(c, b) \in Nat
BY PriceConstants DEF TokensOf

\* The rank of the percentile is one of the ranks, and no less than its share.
LEMMA RankIs ==
  ASSUME NEW n \in Nat, n # 0
  PROVE  /\ Rank(n) \in Nat /\ 1 <= Rank(n) /\ Rank(n) <= n
         /\ PctNum * n <= PctDen * Rank(n)
<1>1. PctNum \in Nat /\ PctDen \in Nat /\ 1 <= PctNum /\ PctNum <= PctDen
  BY ReportConstants
<1>2. PICK x \in Nat : x = PctNum * n
  BY <1>1
<1>3. 1 <= x
  BY <1>1, <1>2
<1>4. PICK r, m \in Nat : /\ r = Rank(n) /\ x + PctDen - 1 = PctDen * r + m /\ m < PctDen
  <2>1. x + PctDen - 1 \in Nat
    BY <1>1, <1>3
  <2> DEFINE y == x + PctDen - 1
  <2>2. y = PctDen * (y \div PctDen) + (y % PctDen) /\ y \div PctDen \in Nat
        /\ y % PctDen \in 0 .. PctDen - 1
    BY <1>1, <2>1
  <2>3. Rank(n) = y \div PctDen
    BY <1>2 DEF Rank
  <2>4. QED
    BY <1>1, <2>2, <2>3
<1>5. PctDen * r \in Nat
  BY <1>1, <1>4
<1>6. x <= PctDen * r
  BY <1>1, <1>4, <1>5
<1>7. 1 <= r
  <2>1. CASE r = 0
    BY <1>1, <1>3, <1>4, <2>1
  <2>2. QED
    BY <1>4, <2>1
<1>8. r <= n
  <2>1. CASE r >= n + 1
    <3>1. PICK d \in Nat : r = n + 1 + d
      <4>1. r - (n + 1) \in Nat /\ r = n + 1 + (r - (n + 1))
        BY <1>4, <2>1
      <4>2. QED
        BY <4>1
    <3>2. PctDen * r = PctDen * n + PctDen + PctDen * d /\ PctDen * d \in Nat
      BY <1>1, <3>1
    <3>3. x <= PctDen * n
      <4>1. PICK e \in Nat : PctDen = PctNum + e
        <5>1. PctDen - PctNum \in Nat /\ PctDen = PctNum + (PctDen - PctNum)
          BY <1>1
        <5>2. QED
          BY <5>1
      <4>2. PctDen * n = x + e * n /\ e * n \in Nat
        BY <1>1, <1>2, <4>1
      <4>3. QED
        BY <1>2, <4>2
    <3>4. PctDen * n \in Nat
      BY <1>1
    <3>5. QED
      BY <1>1, <1>2, <1>4, <3>2, <3>3, <3>4
  <2>2. QED
    BY <1>4, <2>1
<1>9. QED
  BY <1>2, <1>4, <1>6, <1>7, <1>8

\* The threshold of a feature's calls is at the rank of the percentile.
LEMMA ThresholdIs ==
  ASSUME NEW S \in SUBSET Calls, S # {}
  PROVE  /\ IsFiniteSet(S) /\ Cardinality(S) \in Nat /\ Cardinality(S) # 0
         /\ Threshold(S) \in Nat
         /\ Cardinality({c \in S : TokensOf(c, Input) <= Threshold(S)}) >= Rank(Cardinality(S))
<1> DEFINE f == [c \in S |-> TokensOf(c, Input)]
<1>1. IsFiniteSet(S) /\ Cardinality(S) \in Nat /\ Cardinality(S) # 0
  BY PriceConstants, FS_Subset, FS_CardinalityType, FS_EmptySet
<1>2. f \in [S -> Nat] /\ \A c \in S : f[c] = TokensOf(c, Input) /\ f[c] \in Nat
  BY TokensNat, ReportConstants
<1> HIDE DEF f
<1>3. PICK k \in Nat : k = Rank(Cardinality(S)) /\ 1 <= k /\ k <= Cardinality(S)
  BY <1>1, RankIs
<1>4. PICK g \in [S -> Nat] : g = f
  BY <1>2
<1>5. PICK x \in S : AtRank(S, g, k, g[x])
  BY <1>1, <1>3, RankExists
<1>6. \A v : /\ {y \in S : g[y] < v} = {c \in S : TokensOf(c, Input) < v}
             /\ {y \in S : g[y] <= v} = {c \in S : TokensOf(c, Input) <= v}
  BY <1>2, <1>4
<1>7. \E v \in {TokensOf(c, Input) : c \in S} :
         /\ Cardinality({c \in S : TokensOf(c, Input) < v}) < Rank(Cardinality(S))
         /\ Cardinality({c \in S : TokensOf(c, Input) <= v}) >= Rank(Cardinality(S))
  <2>1. g[x] \in {TokensOf(c, Input) : c \in S}
    BY <1>2, <1>4
  <2>2. QED
    BY <1>3, <1>5, <1>6, <2>1 DEF AtRank
<1>8. /\ Threshold(S) \in {TokensOf(c, Input) : c \in S}
      /\ Cardinality({c \in S : TokensOf(c, Input) <= Threshold(S)}) >= Rank(Cardinality(S))
  BY <1>7 DEF Threshold
<1>9. Threshold(S) \in Nat
  BY <1>2, <1>8
<1>10. QED
  BY <1>1, <1>8, <1>9

\* Every flagged call is over the threshold of its feature's calls, as they were when
\* the percentile was taken; before that none is flagged.
Flagged ==
    /\ report.seen \subseteq Calls
    /\ report.pc \in {"idle", "priced", "unpriced", "rates", "sizes", "heavy"} =>
           report.heavy = {}
    /\ \A c \in report.heavy : LET peers == OfFeature(FeatureOf[c], report.seen) IN
           c \in Calls /\ peers # {} /\ TokensOf(c, Input) > Threshold(peers)

LEMMA FlaggedInit == ReportInit => Whole /\ Flagged
<1> SUFFICES ASSUME ReportInit PROVE Whole /\ Flagged
  OBVIOUS
<1>1. Whole /\ report.seen = {} /\ report.heavy = {}
  BY DEF ReportInit, Whole
<1>2. QED
  BY <1>1 DEF Flagged

LEMMA FlaggedStep ==
  ASSUME Whole, Flagged, [ReportNext]_reportVars
  PROVE  Flagged'
<1>1. ASSUME report'.seen = report.seen, report'.heavy = report.heavy,
             \/ report'.pc = report.pc
             \/ report'.pc \notin {"idle", "priced", "unpriced", "rates", "sizes", "heavy"}
             \/ report.pc \in {"idle", "priced", "unpriced", "rates", "sizes", "heavy"}
      PROVE  Flagged'
  BY <1>1 DEF Flagged
<1>2. CASE Moves("sizes", "heavy", {"seen"}) /\ report'.seen = Recorded
  <2>1. report'.heavy = report.heavy /\ report.pc = "sizes" /\ report'.pc = "heavy"
    BY <1>2 DEF Moves, Fields
  <2>2. report'.heavy = {} /\ report'.seen \subseteq Calls
    BY <1>2, <2>1, RecordedIs DEF Flagged
  <2>3. QED
    BY <2>2 DEF Flagged
<1>3. CASE Moves("heavy", "repeats", {"heavy"}) /\ report'.heavy = Heavy(report.seen)
  <2>1. report'.seen = report.seen /\ report'.pc = "repeats"
    BY <1>3 DEF Moves, Fields
  <2>2. \A c \in report'.heavy : LET peers == OfFeature(FeatureOf[c], report.seen) IN
            c \in Calls /\ peers # {} /\ TokensOf(c, Input) > Threshold(peers)
    BY <1>3, RecordedIs DEF Heavy
  <2>3. QED
    BY <2>1, <2>2 DEF Flagged
<1>4. QED
  BY <1>1, <1>2, <1>3, WholeStep DEF Moves, Fields

LEMMA FlaggedAreFew == Flagged => FewHeavy
<1> SUFFICES ASSUME Flagged, NEW c \in report.heavy
             PROVE  LET peers == OfFeature(FeatureOf[c], report.seen)
                        flagged == peers \cap report.heavy
                    IN  /\ PctDen * Cardinality(flagged)
                              <= (PctDen - PctNum) * Cardinality(peers)
                        /\ \E d \in peers : TokensOf(d, Input) < TokensOf(c, Input)
  BY DEF FewHeavy
<1>1. PICK peers \in SUBSET Calls : peers = OfFeature(FeatureOf[c], report.seen)
  BY DEF Flagged, OfFeature
<1>2. c \in Calls /\ peers # {} /\ TokensOf(c, Input) > Threshold(peers)
  BY <1>1 DEF Flagged
<1> DEFINE flagged == peers \cap report.heavy
           low == {d \in peers : TokensOf(d, Input) <= Threshold(peers)}
<1>3. /\ IsFiniteSet(peers) /\ Cardinality(peers) \in Nat /\ Cardinality(peers) # 0
      /\ Threshold(peers) \in Nat /\ Cardinality(low) >= Rank(Cardinality(peers))
  BY <1>2, ThresholdIs
<1>4. \A d \in peers : TokensOf(d, Input) \in Nat
  BY TokensNat, ReportConstants
<1>5. low \in SUBSET peers /\ flagged \in SUBSET (peers \ low)
  <2>1. ASSUME NEW d \in flagged
        PROVE  d \notin low
    <3>1. FeatureOf[d] = FeatureOf[c]
      BY <1>1 DEF OfFeature
    <3>2. TokensOf(d, Input) > Threshold(peers)
      BY <1>1, <3>1 DEF Flagged
    <3>3. QED
      BY <1>3, <1>4, <3>2
  <2>2. QED
    BY <2>1
<1> HIDE DEF flagged, low
<1>6. /\ IsFiniteSet(low) /\ Cardinality(low) \in Nat
      /\ Cardinality(flagged) \in Nat
      /\ Cardinality(flagged) <= Cardinality(peers) - Cardinality(low)
  <2>1. IsFiniteSet(low) /\ Cardinality(low) \in Nat
    BY <1>3, <1>5, FS_Subset, FS_CardinalityType
  <2>2. PICK rest : rest = peers \ low
    OBVIOUS
  <2>3. IsFiniteSet(rest) /\ Cardinality(rest) = Cardinality(peers) - Cardinality(low)
    <3>1. /\ IsFiniteSet(peers \ low)
          /\ Cardinality(peers \ low) = Cardinality(peers) - Cardinality(peers \cap low)
      BY <1>3, FS_Difference
    <3>2. peers \cap low = low
      BY <1>5
    <3>3. QED
      BY <2>2, <3>1, <3>2
  <2>4. IsFiniteSet(flagged) /\ Cardinality(flagged) <= Cardinality(rest)
    BY <1>5, <2>2, <2>3, FS_Subset
  <2>5. Cardinality(flagged) \in Nat
    BY <2>4, FS_CardinalityType
  <2>6. QED
    BY <2>1, <2>3, <2>4, <2>5
<1>7. PctDen * Cardinality(flagged) <= (PctDen - PctNum) * Cardinality(peers)
  <2>1. PICK n, k, m, r \in Nat : /\ n = Cardinality(peers) /\ k = Cardinality(flagged)
                                  /\ m = Cardinality(low) /\ r = Rank(n)
    BY <1>3, <1>6, RankIs
  <2>2. PctNum \in Nat /\ PctDen \in Nat
    BY ReportConstants
  <2>3. PctNum * n <= PctDen * r /\ n # 0
    BY <1>3, <2>1, RankIs
  <2>4. k + r <= n
    BY <1>3, <1>6, <2>1
  <2>5. PICK d \in Nat : n = k + r + d
    <3>1. n - (k + r) \in Nat /\ n = k + r + (n - (k + r))
      BY <2>1, <2>4
    <3>2. QED
      BY <3>1
  <2>6. PctDen * n = PctDen * k + PctDen * r + PctDen * d
    BY <2>1, <2>2, <2>5
  <2>7. /\ PctDen * n \in Nat /\ PctDen * k \in Nat /\ PctDen * r \in Nat
        /\ PctDen * d \in Nat /\ PctNum * n \in Nat
    BY <2>1, <2>2, <2>5
  <2>8. (PctDen - PctNum) * n = PctDen * n - PctNum * n
    BY <2>1, <2>2
  <2>9. QED
    BY <2>1, <2>3, <2>6, <2>7, <2>8
<1>8. \E d \in peers : TokensOf(d, Input) < TokensOf(c, Input)
  <2>1. low # {}
    <3>1. 1 <= Rank(Cardinality(peers)) /\ Rank(Cardinality(peers)) \in Nat
      BY <1>3, RankIs
    <3>2. Cardinality(low) # 0
      BY <1>3, <1>6, <3>1
    <3>3. QED
      BY <3>2, FS_EmptySet
  <2>2. PICK d \in low : TRUE
    BY <2>1
  <2>3. d \in peers /\ TokensOf(d, Input) <= Threshold(peers)
    BY <2>2 DEF low
  <2>4. TokensOf(c, Input) \in Nat /\ TokensOf(d, Input) \in Nat
    BY <1>2, <1>4, <2>3, TokensNat, ReportConstants
  <2>5. QED
    BY <1>2, <1>3, <2>3, <2>4
<1>9. QED
  BY <1>1, <1>7, <1>8 DEF flagged

\* At most the share the percentile leaves of a feature's calls is token-heavy, and
\* never the smallest of them.
THEOREM HeavyAreFew == ReportSpec => []FewHeavy
<1>1. ReportInit => Whole /\ Flagged
  BY FlaggedInit
<1>2. Whole /\ Flagged /\ [ReportNext]_reportVars => Whole' /\ Flagged'
  BY WholeStep, FlaggedStep
<1>3. QED
  BY <1>1, <1>2, FlaggedAreFew, PTL DEF ReportSpec

-----------------------------------------------------------------------------
(* Savings are conservative.                                               *)

\* A set of repeated calls, none of which has read from the cache.
Uncached(S) == /\ S \subseteq Calls /\ S # {}
               /\ \A c \in S : TokensOf(c, CacheRead) = 0

LEMMA RepeatedIs ==
  ASSUME NEW S \in Repeated
  PROVE  Uncached(S)
<1>1. PICK c \in Recorded : S = SamePrompt(c) /\ SumOver(SamePrompt(c), CacheRead) = 0
  BY DEF Repeated
<1>2. S \in SUBSET Calls /\ c \in S /\ SumOver(S, CacheRead) = 0
  BY <1>1, RecordedIs DEF SamePrompt
<1> DEFINE f == [d \in S |-> TokensOf(d, CacheRead)]
<1>3. IsFiniteSet(S) /\ \A d \in S : f[d] = TokensOf(d, CacheRead) /\ f[d] \in Nat
  <2>1. IsFiniteSet(S)
    BY <1>2, PriceConstants, FS_Subset
  <2>2. \A d \in S : TokensOf(d, CacheRead) \in Nat
    BY <1>2, TokensNat, ReportConstants
  <2>3. QED
    BY <2>1, <2>2
<1>4. SumOver(S, CacheRead) = SumFunctionOnSet(f, S)
  BY DEF SumOver, SumFunction
<1> HIDE DEF f
<1>5. \A d \in S : f[d] = 0
  BY <1>2, <1>3, <1>4, SumZero
<1>6. QED
  BY <1>2, <1>3, <1>5 DEF Uncached

\* Whichever call is left out, the tokens of the others are at least those counted.
LEMMA LargestLeftOut ==
  ASSUME NEW S \in SUBSET Calls, NEW first \in S
  PROVE  RepeatTokens(S) <= SumOver(S \ {first}, Input)
<1> DEFINE f == [c \in S |-> TokensOf(c, Input)]
           g == [c \in S \ {first} |-> TokensOf(c, Input)]
           sizes == {TokensOf(c, Input) : c \in S}
<1>1. IsFiniteSet(S) /\ IsFiniteSet(S \ {first})
  BY PriceConstants, FS_Subset, FS_RemoveElement
<1>2. /\ f \in [S -> Nat] /\ \A c \in S : f[c] = TokensOf(c, Input) /\ f[c] \in Nat
      /\ \A c \in S \ {first} : g[c] = f[c]
  BY TokensNat, ReportConstants
<1>3. /\ SumOver(S, Input) = SumFunctionOnSet(f, S)
      /\ SumOver(S \ {first}, Input) = SumFunctionOnSet(g, S \ {first})
  BY DEF SumOver, SumFunction
<1> HIDE DEF f, g
<1>4. PICK h \in [S -> Nat] : h = f
  BY <1>2
<1>5. PICK x \in S : \A y \in S : h[y] <= h[x]
  BY <1>1, GreatestExists
<1>6. \E v \in sizes : \A u \in sizes : v >= u
  <2>1. h[x] \in sizes /\ \A u \in sizes : h[x] >= u
    BY <1>2, <1>4, <1>5
  <2>2. QED
    BY <2>1
<1>7. Max(sizes) \in sizes /\ \A u \in sizes : Max(sizes) >= u
  BY <1>6 DEF Max
<1>8. Max(sizes) \in Nat /\ Max(sizes) >= f[first]
  BY <1>2, <1>7
<1>9. SumFunctionOnSet(f, S) = f[first] + SumFunctionOnSet(f, S \ {first})
  BY <1>1, <1>2, SumRemove
<1>10. SumFunctionOnSet(g, S \ {first}) = SumFunctionOnSet(f, S \ {first})
  BY <1>1, <1>2, SumSame
<1>11. SumFunctionOnSet(f, S \ {first}) \in Nat /\ f[first] \in Nat
  BY <1>1, <1>2, SumNat
<1>12. RepeatTokens(S) = SumFunctionOnSet(f, S) - Max(sizes)
  BY <1>3 DEF RepeatTokens
<1> HIDE DEF sizes
<1>13. QED
  BY <1>3, <1>8, <1>9, <1>10, <1>11, <1>12

\* The prompts the report has found repeated, and what it has estimated of them.
Saved ==
    /\ \A S \in report.repeated : Uncached(S)
    /\ \A S \in DOMAIN report.savings : report.savings[S] # None =>
           /\ Uncached(S)
           /\ \A first \in S : report.savings[S].tokens <= SumOver(S \ {first}, Input)

LEMMA SavedInit == ReportInit => Whole /\ Saved
<1> SUFFICES ASSUME ReportInit PROVE Whole /\ Saved
  OBVIOUS
<1>1. Whole /\ report.repeated = {} /\ report.savings = <<>>
  BY DEF ReportInit, Whole
<1>2. DOMAIN report.savings = {}
  BY <1>1
<1>3. QED
  BY <1>1, <1>2 DEF Saved

LEMMA SavedStep ==
  ASSUME Whole, Saved, [ReportNext]_reportVars
  PROVE  Saved'
<1>1. CASE report'.repeated = report.repeated /\ report'.savings = report.savings
  BY <1>1 DEF Saved
<1>2. CASE Moves("repeats", "savings", {"repeated"}) /\ report'.repeated = Repeated
  <2>1. report'.savings = report.savings
    BY <1>2 DEF Moves, Fields
  <2>2. \A S \in report'.repeated : Uncached(S)
    BY <1>2, RepeatedIs
  <2>3. QED
    BY <2>1, <2>2 DEF Saved
<1>3. CASE /\ Moves("savings", "done", {"savings"})
           /\ report'.savings = [S \in report.repeated |-> Estimate(S)]
  <2>1. report'.repeated = report.repeated
    BY <1>3 DEF Moves, Fields
  <2>2. ASSUME NEW S \in report.repeated, report'.savings[S] # None
        PROVE  /\ Uncached(S)
               /\ \A first \in S : report'.savings[S].tokens <= SumOver(S \ {first}, Input)
    <3>1. Uncached(S)
      BY <2>2 DEF Saved
    <3>2. report'.savings[S] = Estimate(S)
      BY <1>3, <2>2
    <3>3. report'.savings[S].tokens = RepeatTokens(S)
      BY <2>2, <3>2 DEF Estimate
    <3>4. QED
      BY <3>1, <3>3, LargestLeftOut DEF Uncached
  <2>3. DOMAIN report'.savings = report.repeated
    BY <1>3
  <2>4. QED
    BY <2>1, <2>2, <2>3 DEF Saved
<1>4. QED
  BY <1>1, <1>2, <1>3, WholeStep DEF Moves, Fields

\* The estimate is of a prompt no call of which had cache reads, and whichever call
\* would have written the cache, the others would have read at least as much from it.
THEOREM SavingsAreConservative == ReportSpec => []SavingsConservative
<1>1. ReportInit => Whole /\ Saved
  BY SavedInit
<1>2. Whole /\ Saved /\ [ReportNext]_reportVars => Whole' /\ Saved'
  BY WholeStep, SavedStep
<1>3. Saved => SavingsConservative
  BY DEF Saved, Uncached, SavingsConservative
<1>4. QED
  BY <1>1, <1>2, <1>3, PTL DEF ReportSpec
=============================================================================
