------------------------------- MODULE Charts ------------------------------
(***************************************************************************)
(* The charts of a dashboard page: static/app.js in the browser, and the   *)
(* two endpoints of dashboard/app.py that answer its fetches.              *)
(*                                                                         *)
(* A change of a filter swaps the page's content for a fragment with new   *)
(* canvases.  app.js then fetches each canvas's data and builds its chart  *)
(* when the answer arrives: after any number of further swaps, in any      *)
(* order, or never, if the answer is an error.  The one thing shared by    *)
(* the canvases of one id is the registry of live Chart objects.           *)
(*                                                                         *)
(* Colours, fonts and sizes are left out; an amount is an integer number   *)
(* of quanta of cost.                                                      *)
(***************************************************************************)
EXTENDS Integers, Sequences, FiniteSets, SequencesExt, FiniteSetsExt

CONSTANTS Ids,        \* the ids of a page's canvases
          Kind,       \* the data-chart of each
          Filters,    \* values of the filter form
          Calls,      \* events of the ledger
          Matches,    \* the events each filter lets through
          Label,      \* the day or group of an event on the chart of an id
          CostOf,     \* an event's cost once it has a price
          Unit,       \* quanta in the smallest figure displayed
          Cap,        \* groups an endpoint answers with, at most
          Start,      \* ledgers the page may be loaded on
          MaxPages,   \* bound on the contents shown one after the other
          None

\* What is recorded of the events, and which of them have a cost.
Ledgers == {l \in [calls : SUBSET Calls, priced : SUBSET Calls] : l.priced \subseteq l.calls}

ASSUME ChartConstants ==
    /\ Kind \in [Ids -> {"line", "hbar"}]
    /\ IsFiniteSet(Calls) /\ Matches \in [Filters -> SUBSET Calls]
    /\ Label \in [Ids -> [Calls -> Nat]] /\ CostOf \in [Calls -> Nat]
    /\ Unit \in Nat \ {0} /\ Cap \in Nat \ {0} /\ MaxPages \in Nat \ {0}
    /\ None \notin [id : Ids, gen : 1 .. MaxPages]
    /\ Start \subseteq Ledgers /\ None \notin [of : [id : Ids, filters : Filters], asOf : Ledgers]

\* A canvas element: its id and the content that brought it.
Canvas == [id : Ids, gen : 1 .. MaxPages]

\* l has all that m had.
AtLeast(l, m) == m.calls \subseteq l.calls /\ m.priced \subseteq l.priced

VARIABLES pages,     \* the contents shown so far; the last one is on the screen
          history,   \* the contents htmx has saved for the Back button
          fetch,     \* each canvas's fetch and the ledger it was answered from
          registry,  \* the canvas of the registered Chart of each id, or None
          chart,     \* the live Chart on each canvas, or None
          ledger

vars == <<pages, history, fetch, registry, chart, ledger>>

-----------------------------------------------------------------------------
(* The endpoints.                                                          *)

\* What the canvas's data-endpoint asks for.
Endpoint(c) == [id |-> c.id, filters |-> pages[c.gen].filters]

\* The events of one day or group.
Under(e, l, label) == {k \in l.calls \cap Matches[e.filters] : Label[e.id][k] = label}

\* SUM(cost_usd) skips unpriced events; without any other it is NULL, drawn as 0.
Row(e, l, label) ==
    LET calls == Under(e, l, label)
    IN  [label    |-> label,
         null     |-> calls \cap l.priced = {},
         value    |-> SumFunctionOnSet(CostOf, calls \cap l.priced),
         unpriced |-> Cardinality(calls \ l.priced)]

\* Days in order; groups by cost, the dearest first and NULL last.
InOrder(kind, a, b) == IF kind = "line" THEN a.label <= b.label
                       ELSE b.null \/ (~a.null /\ a.value >= b.value)

\* rows[:20], on the endpoint of the groups only.
Capped(kind, s) == IF kind = "line" THEN s ELSE SubSeq(s, 1, Min({Cap, Len(s)}))

\* The answers an endpoint may give: SQL leaves the order of ties open.
Answers(e, l) ==
    LET rows == {Row(e, l, label) : label \in {Label[e.id][k] : k \in l.calls \cap Matches[e.filters]}}
    IN  {Capped(Kind[e.id], s) : s \in {s \in SetToSeqs(rows) :
            \A i, j \in DOMAIN s : i < j => InOrder(Kind[e.id], s[i], s[j])}}

-----------------------------------------------------------------------------
(* What a chart displays.                                                  *)

\* Two to four decimals: to the nearest displayed unit, halves up.
Money(v) == ((v + Unit \div 2) \div Unit) * Unit

MutBaseOptionsLabelY(horizontal) ==
    [indexAxis |-> IF horizontal THEN "y" ELSE "x",
     label     |-> "y",
     scales    |-> IF horizontal THEN [x |-> "value", y |-> "category"]
                                 ELSE [x |-> "category", y |-> "value"]]

BaseOptions(horizontal) ==
    [indexAxis |-> IF horizontal THEN "y" ELSE "x",
     label     |-> IF horizontal THEN "x" ELSE "y",
     scales    |-> IF horizontal THEN [x |-> "value", y |-> "category"]
                                 ELSE [x |-> "category", y |-> "value"]]

Config(kind) == IF kind = "line" THEN [type |-> "line", options |-> BaseOptions(FALSE)]
                                 ELSE [type |-> "bar", options |-> BaseOptions(kind = "hbar")]

\* Chart.js: where it puts the i-th value.
Parsed(config, data, i) ==
    IF config.options.indexAxis = "x" THEN [x |-> i, y |-> data[i].value]
                                      ELSE [x |-> data[i].value, y |-> i]

\* The tooltip of the i-th point or bar: its figure, and how many calls it says
\* are excluded.
Tooltip(config, data, i) ==
    [figure   |-> Money(Parsed(config, data, i)[config.options.label]),
     excluded |-> IF data[i].unpriced > 0 THEN data[i].unpriced ELSE 0]

-----------------------------------------------------------------------------
(* The browser.                                                            *)

NotAsked == [at |-> "none", asOf |-> [calls |-> {}, priced |-> {}]]

\* initCharts: one fetch per canvas of the content.
InitCharts(fetches, gen) ==
    [c \in Canvas |-> IF c.gen = gen THEN [NotAsked EXCEPT !.at = "asked"] ELSE fetches[c]]

\* The page is loaded with any filters in its URL; DOMContentLoaded.
Init == /\ ledger \in Start
        /\ \E f \in Filters : pages = <<[filters |-> f, since |-> ledger, restored |-> FALSE]>>
        /\ history = <<>>
        /\ fetch = InitCharts([c \in Canvas |-> NotAsked], 1)
        /\ registry = [id \in Ids |-> None]
        /\ chart = [c \in Canvas |-> None]

\* The filter form was submitted and its answer replaces the content (hx-push-url
\* saves the old one for Back); htmx:afterSwap starts the fetches of its canvases.
Swap(f) == /\ Len(pages) < MaxPages
           /\ pages' = Append(pages, [filters |-> f, since |-> ledger, restored |-> FALSE])
           /\ history' = Append(history, Len(pages))
           /\ fetch' = InitCharts(fetch, Len(pages) + 1)
           /\ UNCHANGED <<registry, chart, ledger>>

\* The Back button: htmx puts the saved HTML back, canvases without their drawings.
\* It is no swap: nothing starts a fetch.
Back == /\ history # <<>> /\ Len(pages) < MaxPages
        /\ pages' = Append(pages, [pages[Last(history)] EXCEPT !.restored = TRUE])
        /\ history' = Front(history)
        /\ UNCHANGED <<fetch, registry, chart, ledger>>

\* The endpoint answers from the ledger of this moment.
Serve(c) == /\ fetch[c].at = "asked"
            /\ fetch' = [fetch EXCEPT ![c] = [at |-> "answered", asOf |-> ledger]]
            /\ UNCHANGED <<pages, history, registry, chart, ledger>>

\* No answer, or an error page, which is not JSON: logged to the console, and
\* nothing drawn.
Refuse(c) == /\ fetch[c].at = "asked"
             /\ fetch' = [fetch EXCEPT ![c].at = "failed"]
             /\ UNCHANGED <<pages, history, registry, chart, ledger>>

\* buildChart: the Chart registered under the id is destroyed, and the new one
\* drawn and registered.
MutBuildChartKeepsOld(c, data) ==
    /\ chart' = [chart EXCEPT ![c] = data]
    /\ registry' = [registry EXCEPT ![c.id] = c]

MutBuildChartById(c, data) ==
    LET shown == [id |-> c.id, gen |-> Len(pages)]
    IN  /\ chart' = [d \in Canvas |-> IF d = shown THEN data
                                      ELSE IF d = registry[c.id] THEN None ELSE chart[d]]
        /\ registry' = [registry EXCEPT ![c.id] = shown]

MutBuildChartOneSlot(c, data) ==
    LET slot == CHOOSE id \in Ids : TRUE
    IN  /\ chart' = [d \in Canvas |-> IF d = c THEN data
                                      ELSE IF d = registry[slot] THEN None ELSE chart[d]]
        /\ registry' = [registry EXCEPT ![slot] = c]

BuildChart(c, data) ==
    /\ chart' = [d \in Canvas |-> IF d = c THEN data
                                  ELSE IF d = registry[c.id] THEN None ELSE chart[d]]
    /\ registry' = [registry EXCEPT ![c.id] = c]

\* The answer arrives, whether or not its canvas is still on the page.
Arrive(c) == /\ fetch[c].at = "answered"
             /\ BuildChart(c, [of |-> Endpoint(c), asOf |-> fetch[c].asOf])
             /\ fetch' = [fetch EXCEPT ![c] = [NotAsked EXCEPT !.at = "drawn"]]
             /\ UNCHANGED <<pages, history, ledger>>

\* A call is recorded, priced or not, or a backfill prices it.
Write == /\ ledger' \in {l \in Ledgers : AtLeast(l, ledger) /\ l # ledger}
         /\ UNCHANGED <<pages, history, fetch, registry, chart>>

Next == \/ \E f \in Filters : Swap(f)
        \/ Back
        \/ \E c \in Canvas : Serve(c) \/ Refuse(c) \/ Arrive(c)
        \/ Write

Spec == Init /\ [][Next]_vars

-----------------------------------------------------------------------------
(* Properties.                                                             *)

Stages  == {"none", "asked", "answered", "drawn", "failed"}
Page    == [filters : Filters, since : Ledgers, restored : BOOLEAN]
Drawing == [of : [id : Ids, filters : Filters], asOf : Ledgers]

\* The shape of the state: only canvases of contents shown so far have been fetched
\* for, and the contents saved for Back have been shown.
TypeOK ==
    /\ pages \in Seq(Page) /\ Len(pages) \in 1 .. MaxPages
    /\ history \in Seq(1 .. Len(pages))
    /\ fetch \in [Canvas -> [at : Stages, asOf : Ledgers]]
    /\ \A c \in Canvas : fetch[c].at # "none" => c.gen <= Len(pages)
    /\ registry \in [Ids -> Canvas \cup {None}]
    /\ chart \in [Canvas -> Drawing \cup {None}]
    /\ ledger \in Ledgers

\* Whatever the order of the answers, a canvas shows the data of its own endpoint
\* under its own page's filters, and no older than that page: a late answer of an
\* earlier page never fills a later page's chart.
OwnFreshData ==
    \A c \in Canvas : chart[c] # None => /\ chart[c].of = Endpoint(c)
                                         /\ AtLeast(chart[c].asOf, pages[c.gen].since)

\* One live Chart per id, the registered one: no Chart is lost to the registry (it
\* would keep its canvas, listeners and animation alive), and the registry never
\* holds a destroyed one.
OneLiveChart == \A c \in Canvas : chart[c] # None <=> registry[c.id] = c

\* A canvas on the screen whose fetch is over and that shows no chart came from the
\* Back button, had its fetch fail, or has been overtaken by the late answer of an
\* earlier content's canvas of its id; nothing else leaves or makes it blank.
BlankExplained ==
    \A c \in Canvas :
        c.gen = Len(pages) /\ chart[c] = None /\ fetch[c].at \notin {"asked", "answered"} =>
            \/ pages[c.gen].restored
            \/ fetch[c].at = "failed"
            \/ registry[c.id] # None /\ registry[c.id].gen < c.gen

\* What the events of a day or group have cost, for the filters of the canvas's page.
Spent(c, label) == SumFunctionOnSet(CostOf,
                                    Under(Endpoint(c), chart[c].asOf, label) \cap chart[c].asOf.priced)

\* A tooltip's figure is the spend of its label to half a displayed unit; it says how
\* many calls the figure leaves out; the axis of the spend is the one with amounts;
\* and no group left off the chart has spent more than one on it.
Honest(c, data) ==
    LET config == Config(Kind[c.id])
    IN  /\ \A i \in DOMAIN data :
              LET tip == Tooltip(config, data, i)
                  off == tip.figure - Spent(c, data[i].label)
              IN  /\ 2 * off <= Unit /\ 2 * off >= - Unit
                  /\ tip.excluded = Cardinality(Under(Endpoint(c), chart[c].asOf, data[i].label)
                                                \ chart[c].asOf.priced)
        /\ config.options.scales[config.options.label] = "value"
        /\ \A k \in chart[c].asOf.calls \cap Matches[Endpoint(c).filters] :
              \/ \E i \in DOMAIN data : data[i].label = Label[c.id][k]
              \/ /\ Len(data) = Cap
                 /\ \A i \in DOMAIN data : Spent(c, data[i].label) >= Spent(c, Label[c.id][k])

\* Every chart on a canvas, in either order of tied groups, says what its page's
\* filters select, from the tooltip's figures to the groups it leaves out.
FiguresHonest ==
    \A c \in Canvas : chart[c] # None =>
        \A data \in Answers(chart[c].of, chart[c].asOf) : Honest(c, data)

\* Every fetch has been answered or has failed.
Quiet == \A c \in Canvas : fetch[c].at \notin {"asked", "answered"}

\* "filter changes re-render charts from fresh fragments" (app.js): once everything
\* has arrived, every canvas of the content on the screen whose data came shows it.
ChartsReRender ==
    Quiet => \A c \in Canvas : c.gen = Len(pages) /\ fetch[c].at = "drawn" => chart[c] # None
=============================================================================
