------------------------------ MODULE Optimizer ------------------------------
(***************************************************************************)
(* The optimizer report (build_report of optimizer.py): five SELECTs of    *)
(* events and two of prices, one after the other, over a ledger in which   *)
(* calls are recorded and prices are set and backfilled meanwhile.  Each   *)
(* SELECT sees the ledger of its own moment.                               *)
(*                                                                         *)
(* The filters, the same for every SELECT, are left out, and so are the    *)
(* lengths at which the lists of candidates, calls and prompts are cut,    *)
(* which only shorten what is shown of them.  The number of groups is not: *)
(* the rows of the groups left out are in no figure of the table.          *)
(***************************************************************************)
EXTENDS Prices

CONSTANTS ProjectOf,    \* the project of each call
          FeatureOf,    \* its feature
          HashOf,       \* the prompt hash of each call, or None
          Input,        \* the buckets the analyses look at
          CacheRead,
          PctNum,       \* the percentile of token-heavy calls, a fraction (0.95)
          PctDen,
          MinRepeats,   \* min_repeats
          GroupLimit    \* how many groups the what-if table shows (DEFAULT_GROUP_LIMIT)

ASSUME ReportConstants ==
    /\ DOMAIN ProjectOf = Calls /\ DOMAIN FeatureOf = Calls /\ DOMAIN HashOf = Calls
    /\ Input \in Buckets /\ CacheRead \in Buckets /\ Input # CacheRead
    /\ PctDen \in Nat \ {0} /\ PctNum \in 1 .. PctDen
    /\ MinRepeats \in Nat \ {0} /\ GroupLimit \in Nat

VARIABLE report   \* what the report has read and concluded so far

reportVars == <<report, vars>>

-----------------------------------------------------------------------------
Recorded == {c \in Calls : rows[c] # <<>>}

\* The columns of an event: unknown usage is recorded as no tokens.
TokensOf(c, b) == IF Tokens[c] = None THEN 0 ELSE Tokens[c][b]

SumOver(S, b) == SumFunction([c \in S |-> TokensOf(c, b)])

(* whatif_repricing.                                                       *)

\* project, feature, (provider, model)
GroupOf(c) == <<ProjectOf[c], FeatureOf[c], KeyOf[c]>>

GroupsOf(S) == {GroupOf(c) : c \in S}

Members(g, S) == {c \in S : GroupOf(c) = g}

\* The group's buckets, summed over its priced rows.
MutUsageUncached(S) == [b \in Buckets |-> IF b = Input THEN SumOver(S, b) ELSE 0]
Usage(S) == [b \in Buckets |-> SumOver(S, b)]

Current(priced, g) == SumFunction([c \in Members(g, DOMAIN priced) |-> priced[c].cost])

\* The GroupLimit groups that cost most, all of them if there are no more; which of
\* those that cost the same is open.
Dearest(priced) ==
    LET groups == GroupsOf(DOMAIN priced) IN
    {shown \in SUBSET groups :
        /\ Cardinality(shown) = Min({Cardinality(groups), GroupLimit})
        /\ \A g \in shown : \A other \in groups \ shown : Current(priced, other) <= Current(priced, g)}

\* The other pairs at which the same buckets have a price, and a lower one.
Candidates(priced, g) ==
    LET usage == Usage(Members(g, DOMAIN priced)) IN
    {k \in Keys \ {g[3]} : /\ prices[k] # None /\ Covers(prices[k], usage)
                           /\ Cost(prices[k], usage) < Current(priced, g)}

(* token_heavy_calls.                                                      *)

\* The value at rank ceil(p * n) of the feature's input sizes (_p95_nearest_rank).
MutRankRoundedDown(n) == IF PctNum * n < PctDen THEN 1 ELSE (PctNum * n) \div PctDen
Rank(n) == (PctNum * n + PctDen - 1) \div PctDen

Threshold(S) ==
    CHOOSE v \in {TokensOf(c, Input) : c \in S} :
        /\ Cardinality({c \in S : TokensOf(c, Input) < v}) < Rank(Cardinality(S))
        /\ Cardinality({c \in S : TokensOf(c, Input) <= v}) >= Rank(Cardinality(S))

OfFeature(f, S) == {c \in S : FeatureOf[c] = f}

\* Of a feature the first SELECT has not seen, no call is flagged.
Heavy(seen) == {c \in Recorded : LET peers == OfFeature(FeatureOf[c], seen) IN
                                 peers # {} /\ TokensOf(c, Input) > Threshold(peers)}

(* cache_candidates.                                                       *)

SamePrompt(c) == {d \in Recorded : KeyOf[d] = KeyOf[c] /\ HashOf[d] = HashOf[c]}

\* Prompts repeated often enough without a single cache read.
Repeated == {SamePrompt(c) : c \in {d \in Recorded :
                /\ HashOf[d] # None
                /\ Cardinality(SamePrompt(d)) >= MinRepeats
                /\ SumOver(SamePrompt(d), CacheRead) = 0}}

\* "total minus one call's worth": that of the largest.
MutRepeatTokensMinusLeast(S) == SumOver(S, Input) - Min({TokensOf(c, Input) : c \in S})
RepeatTokens(S) == SumOver(S, Input) - Max({TokensOf(c, Input) : c \in S})

Estimate(S) ==
    LET rates == prices[KeyOf[CHOOSE c \in S : TRUE]] IN
    IF rates = None THEN None
    ELSE IF rates[CacheRead] = None THEN None
    ELSE [tokens |-> RepeatTokens(S), perToken |-> rates[Input] - rates[CacheRead]]

-----------------------------------------------------------------------------
\* One SELECT of the report, with what is made of it.
Select(from, to, read) == /\ report.pc = from
                          /\ report' = [read EXCEPT !.pc = to]
                          /\ UNCHANGED vars

\* build_report: the banner's count of unpriced rows.
SelectWindow ==
    Select("idle", "priced", [report EXCEPT !.begun = Recorded,
                                            !.window = {c \in Recorded : ~Priced(c)}])

SelectPriced ==
    LET priced == [c \in {d \in Recorded : Priced(d)} |-> rows[c]] IN
    \E shown \in Dearest(priced) :
        Select("priced", "unpriced",
               [report EXCEPT !.priced = Restrict(priced, {c \in DOMAIN priced : GroupOf(c) \in shown})])

MutSelectUnpricedAll ==
    Select("unpriced", "rates", [report EXCEPT !.unpriced = Recorded])

SelectUnpriced ==
    Select("unpriced", "rates",
           [report EXCEPT !.unpriced = {c \in Recorded : ~Priced(c)}])

SelectRates ==
    Select("rates", "sizes",
           [report EXCEPT !.candidates =
               [g \in GroupsOf(DOMAIN report.priced) |->
                   [k \in Candidates(report.priced, g) |-> prices[k]]]])

SelectSizes == Select("sizes", "heavy", [report EXCEPT !.seen = Recorded])

SelectHeavy ==
    Select("heavy", "repeats", [report EXCEPT !.heavy = Heavy(report.seen)])

SelectRepeats == Select("repeats", "savings", [report EXCEPT !.repeated = Repeated])

SelectCacheRates ==
    Select("savings", "done",
           [report EXCEPT !.savings = [S \in report.repeated |-> Estimate(S)]])

ReportInit == /\ Init
              /\ report = [pc |-> "idle", begun |-> {}, window |-> {}, priced |-> <<>>,
                           unpriced |-> {}, candidates |-> <<>>, seen |-> {}, heavy |-> {},
                           repeated |-> {}, savings |-> <<>>]

ReportNext == \/ SelectWindow \/ SelectPriced \/ SelectUnpriced \/ SelectRates
              \/ SelectSizes \/ SelectHeavy \/ SelectRepeats \/ SelectCacheRates
              \/ Next /\ UNCHANGED report

ReportSpec == ReportInit /\ [][ReportNext]_reportVars

-----------------------------------------------------------------------------
(* Properties.                                                             *)

\* No row is both in a group's cost and in the unpriced count beside it, though they
\* come from different moments; and each row there was at the start is in a group's
\* cost or in the count of the banner, even one priced between the SELECTs, unless its
\* whole group is left out because GroupLimit others are shown.
CountedOnce ==
    report.pc \notin {"idle", "priced", "unpriced"} =>
        LET shown == GroupsOf(DOMAIN report.priced) IN
        /\ DOMAIN report.priced \cap report.unpriced = {}
        /\ \A c \in report.begun \ report.window :
              \/ c \in DOMAIN report.priced
              \/ GroupOf(c) \notin shown /\ Cardinality(shown) = GroupLimit

\* "Current" and "what-if" cover the same calls: the rates of a candidate price every
\* bucket of each of the group's calls, and make them no dearer, half a quantum of
\* rounding for each call but one aside: a group of one call is never dearer.
CandidatesCheaper ==
    \A g \in DOMAIN report.candidates : \A k \in DOMAIN report.candidates[g] :
        LET calls == Members(g, DOMAIN report.priced)
            rates == report.candidates[g][k]
            amount(c, r) == SumFunction([b \in Used(Tokens[c]) |-> Tokens[c][b] * r[b]])
        IN  /\ k # g[3]
            /\ \A c \in calls : Covers(rates, Tokens[c])
            /\ 2 * SumFunction([c \in calls |-> amount(c, rates)]) <=
                 2 * SumFunction([c \in calls |-> amount(c, report.priced[c].snapshot)])
                   + Scale * (Cardinality(calls) - 1)

\* At most the share the percentile leaves of a feature's calls is token-heavy, of
\* those that were there when the percentile was taken; and no feature has its
\* smallest call flagged, however few calls there are.
FewHeavy ==
    \A c \in report.heavy :
        LET peers == OfFeature(FeatureOf[c], report.seen)
            flagged == peers \cap report.heavy
        IN  /\ PctDen * Cardinality(flagged) <= (PctDen - PctNum) * Cardinality(peers)
            /\ \E d \in peers : TokensOf(d, Input) < TokensOf(c, Input)

\* The estimate is of a prompt no call of which had cache reads, and whichever call
\* would have written the cache, the other calls had at least as many input tokens to
\* read from it ("conservative: drop the largest call").
SavingsConservative ==
    \A S \in DOMAIN report.savings : report.savings[S] # None =>
        /\ \A c \in S : TokensOf(c, CacheRead) = 0
        /\ \A first \in S : report.savings[S].tokens <= SumOver(S \ {first}, Input)
=============================================================================
