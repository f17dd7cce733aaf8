---------------------------- MODULE ChartsProofs ----------------------------
(***************************************************************************)
(* Proofs about Charts for any canvases, filters, ledgers and number of    *)
(* contents.                                                               *)
(*                                                                         *)
(* TypeOK is inductive by itself.  On top of it:                           *)
(*   - the ledger, and every answer under way, has all that was there when *)
(*     the content was shown (Grown), which gives OwnFreshData;            *)
(*   - a Chart is registered under its own id, was drawn from its own      *)
(*     answer, and once something is drawn under an id the registry is     *)
(*     never empty there (Placed), which gives OneLiveChart and            *)
(*     BlankExplained.                                                     *)
(* Besides, what an answer holds (a row of each label of the ledger that   *)
(* was read, in order, cut at Cap) and Grown give FiguresHonest.           *)
(***************************************************************************)
EXTENDS Charts, Aggregates, SequenceTheorems, TLAPS

CanvasStep(c) == Serve(c) \/ Refuse(c) \/ Arrive(c)

\* Every step is a swap, a Back, one of a canvas's fetch, a write or a stutter.
LEMMA StepCases ==
  ASSUME [Next]_vars
  PROVE  \/ \E f \in Filters : Swap(f)
         \/ Back
         \/ \E c \in Canvas : CanvasStep(c)
         \/ Write
         \/ UNCHANGED vars
BY DEF Next, CanvasStep

-----------------------------------------------------------------------------
(* Types.                                                                  *)

LEMMA NoneIsNothing == None \notin Canvas /\ None \notin Drawing
BY ChartConstants DEF Canvas, Drawing

LEMMA NotAskedType == NotAsked \in [at : Stages, asOf : Ledgers]
BY DEF NotAsked, Stages, Ledgers

\* A content appended to the pages: they, and the places saved for Back, keep
\* their shape.
LEMMA AppendPage ==
  ASSUME TypeOK, NEW p \in Page, Len(pages) < MaxPages,
         pages' = Append(pages, p)
  PROVE  /\ pages' \in Seq(Page) /\ Len(pages') = Len(pages) + 1
         /\ Len(pages') \in 1 .. MaxPages
         /\ \A g \in 1 .. Len(pages) : pages'[g] = pages[g]
         /\ pages'[Len(pages) + 1] = p
         /\ Seq(1 .. Len(pages)) \subseteq Seq(1 .. Len(pages'))
<1>1. /\ pages' \in Seq(Page) /\ Len(pages') = Len(pages) + 1
      /\ \A g \in 1 .. Len(pages) : pages'[g] = pages[g]
      /\ pages'[Len(pages) + 1] = p
  BY AppendProperties DEF TypeOK
<1>2. Len(pages) \in Nat /\ MaxPages \in Nat
  BY ChartConstants DEF TypeOK
<1>3. Len(pages') \in 1 .. MaxPages /\ 1 .. Len(pages) \subseteq 1 .. Len(pages')
  BY <1>1, <1>2
<1>4. \A S, T : S \subseteq T => Seq(S) \subseteq Seq(T)
  OBVIOUS
<1>5. QED
  BY <1>1, <1>3, <1>4

LEMMA InitChartsType ==
  ASSUME NEW f \in [Canvas -> [at : Stages, asOf : Ledgers]], NEW gen
  PROVE  /\ InitCharts(f, gen) \in [Canvas -> [at : Stages, asOf : Ledgers]]
         /\ \A c \in Canvas : InitCharts(f, gen)[c] = IF c.gen = gen THEN [NotAsked EXCEPT !.at = "asked"]
                                                               ELSE f[c]
         /\ \A c \in Canvas : c.gen = gen => InitCharts(f, gen)[c].at = "asked"
BY NotAskedType DEF InitCharts, NotAsked, Stages

LEMMA TypeInit == Init => TypeOK
<1> SUFFICES ASSUME Init PROVE TypeOK
  OBVIOUS
<1>1. ledger \in Ledgers
  BY ChartConstants DEF Init
<1>2. PICK f \in Filters : pages = <<[filters |-> f, since |-> ledger, restored |-> FALSE]>>
  BY DEF Init
<1>3. pages \in Seq(Page) /\ Len(pages) = 1
  BY <1>1, <1>2 DEF Page
<1>4. Len(pages) \in 1 .. MaxPages
  BY <1>3, ChartConstants
<1>5. [c \in Canvas |-> NotAsked] \in [Canvas -> [at : Stages, asOf : Ledgers]]
  BY NotAskedType
<1>6. fetch \in [Canvas -> [at : Stages, asOf : Ledgers]]
  BY <1>5, InitChartsType DEF Init
<1>7. \A c \in Canvas : fetch[c].at # "none" => c.gen <= Len(pages)
  <2>1. \A c \in Canvas : c.gen # 1 => fetch[c] = NotAsked
    BY <1>5, InitChartsType DEF Init
  <2>2. QED
    BY <1>3, <2>1 DEF NotAsked
<1>8. QED
  BY <1>1, <1>3, <1>4, <1>6, <1>7 DEF Init, TypeOK

LEMMA TypeSwap ==
  ASSUME TypeOK, NEW f \in Filters, Swap(f)
  PROVE  TypeOK'
<1>1. [filters |-> f, since |-> ledger, restored |-> FALSE] \in Page
  BY DEF TypeOK, Page
<1>2. /\ pages' \in Seq(Page) /\ Len(pages') = Len(pages) + 1
      /\ Len(pages') \in 1 .. MaxPages
      /\ Seq(1 .. Len(pages)) \subseteq Seq(1 .. Len(pages'))
  BY <1>1, AppendPage DEF Swap
<1>3. history' \in Seq(1 .. Len(pages'))
  <2>1. Len(pages) \in 1 .. Len(pages')
    BY <1>2 DEF TypeOK
  <2>2. QED
    BY <1>2, <2>1 DEF TypeOK, Swap
<1>4. fetch' \in [Canvas -> [at : Stages, asOf : Ledgers]]
  BY InitChartsType DEF TypeOK, Swap
<1>5. \A c \in Canvas : fetch'[c].at # "none" => c.gen <= Len(pages')
  <2> SUFFICES ASSUME NEW c \in Canvas, fetch'[c].at # "none"
               PROVE  c.gen <= Len(pages')
    OBVIOUS
  <2>1. c.gen = Len(pages) + 1 \/ fetch'[c] = fetch[c]
    BY InitChartsType DEF TypeOK, Swap
  <2>2. c.gen \in Nat /\ Len(pages) \in Nat
    BY DEF Canvas, TypeOK
  <2>3. fetch'[c] = fetch[c] => c.gen <= Len(pages)
    BY DEF TypeOK
  <2>4. QED
    BY <1>2, <2>1, <2>2, <2>3
<1>6. QED
  BY <1>2, <1>3, <1>4, <1>5 DEF TypeOK, Swap

LEMMA TypeBack ==
  ASSUME TypeOK, Back
  PROVE  /\ TypeOK'
         /\ pages' = Append(pages, [pages[Last(history)] EXCEPT !.restored = TRUE])
         /\ Last(history) \in 1 .. Len(pages)
         /\ [pages[Last(history)] EXCEPT !.restored = TRUE] \in Page
<1>1. Len(history) \in Nat \ {0} /\ \A i \in 1 .. Len(history) : history[i] \in 1 .. Len(pages)
  BY EmptySeq, ElementOfSeq DEF TypeOK, Back
<1>2. Last(history) \in 1 .. Len(pages)
  BY <1>1 DEF Last
<1>3. pages[Last(history)] \in Page
  BY <1>2, ElementOfSeq DEF TypeOK
<1>4. [pages[Last(history)] EXCEPT !.restored = TRUE] \in Page
  BY <1>3 DEF Page
<1>5. /\ pages' \in Seq(Page) /\ Len(pages') = Len(pages) + 1
      /\ Len(pages') \in 1 .. MaxPages
      /\ Seq(1 .. Len(pages)) \subseteq Seq(1 .. Len(pages'))
  BY <1>4, AppendPage DEF Back
<1>6. Front(history) \in Seq(1 .. Len(pages))
  <2>1. /\ 1 \in 1 .. Len(history) + 1
        /\ Len(history) - 1 \in 1 - 1 .. Len(history)
    BY <1>1
  <2>2. SubSeq(history, 1, Len(history) - 1) \in Seq(1 .. Len(pages))
    BY <1>1, <2>1, SubSeqProperties DEF TypeOK
  <2>3. QED
    BY <2>2 DEF Front
<1>7. history' \in Seq(1 .. Len(pages'))
  BY <1>5, <1>6 DEF Back
<1>8. \A c \in Canvas : fetch'[c].at # "none" => c.gen <= Len(pages')
  <2>1. \A c \in Canvas : c.gen \in Nat
    BY DEF Canvas
  <2>2. QED
    BY <1>5, <2>1 DEF TypeOK, Back
<1>9. TypeOK'
  BY <1>5, <1>7, <1>8 DEF TypeOK, Back
<1>10. QED
  BY <1>2, <1>4, <1>9 DEF Back

\* What an answer draws.
LEMMA AnswerType ==
  ASSUME TypeOK, NEW c \in Canvas, fetch[c].at # "none"
  PROVE  /\ c.id \in Ids /\ c.gen \in 1 .. Len(pages)
         /\ pages[c.gen] \in Page
         /\ [of |-> Endpoint(c), asOf |-> fetch[c].asOf] \in Drawing
<1>1. c.id \in Ids /\ c.gen \in 1 .. Len(pages)
  BY DEF TypeOK, Canvas
<1>2. pages[c.gen] \in Page
  BY <1>1, ElementOfSeq DEF TypeOK
<1>3. fetch[c].asOf \in Ledgers
  BY DEF TypeOK
<1>4. QED
  BY <1>1, <1>2, <1>3 DEF Endpoint, Drawing, Page

LEMMA TypeCanvas ==
  ASSUME TypeOK, NEW c \in Canvas, CanvasStep(c)
  PROVE  TypeOK'
<1>1. CASE Serve(c)
  <2>1. [at |-> "answered", asOf |-> ledger] \in [at : Stages, asOf : Ledgers]
    BY DEF TypeOK, Stages
  <2>2. fetch' \in [Canvas -> [at : Stages, asOf : Ledgers]]
    BY <1>1, <2>1 DEF TypeOK, Serve
  <2>3. \A d \in Canvas : fetch'[d].at # "none" => fetch[d].at # "none"
    BY <1>1 DEF TypeOK, Serve
  <2>4. QED
    BY <1>1, <2>2, <2>3 DEF TypeOK, Serve
<1>2. CASE Refuse(c)
  <2>1. fetch' \in [Canvas -> [at : Stages, asOf : Ledgers]]
    BY <1>2 DEF TypeOK, Refuse, Stages
  <2>2. \A d \in Canvas : fetch'[d].at # "none" => fetch[d].at # "none"
    BY <1>2 DEF TypeOK, Refuse
  <2>3. QED
    BY <1>2, <2>1, <2>2 DEF TypeOK, Refuse
<1>3. CASE Arrive(c)
  <2>1. fetch[c].at # "none"
    BY <1>3 DEF Arrive
  <2>2. [NotAsked EXCEPT !.at = "drawn"] \in [at : Stages, asOf : Ledgers]
    BY NotAskedType DEF NotAsked, Stages
  <2>3. fetch' \in [Canvas -> [at : Stages, asOf : Ledgers]]
    BY <1>3, <2>2 DEF TypeOK, Arrive
  <2>4. \A d \in Canvas : fetch'[d].at # "none" => fetch[d].at # "none"
    BY <1>3 DEF TypeOK, Arrive
  <2>5. chart' \in [Canvas -> Drawing \cup {None}]
    BY <1>3, <2>1, AnswerType DEF TypeOK, Arrive, BuildChart
  <2>6. registry' \in [Ids -> Canvas \cup {None}]
    BY <1>3 DEF TypeOK, Arrive, BuildChart
  <2>7. QED
    BY <1>3, <2>3, <2>4, <2>5, <2>6 DEF TypeOK, Arrive
<1>4. QED
  BY <1>1, <1>2, <1>3 DEF CanvasStep

LEMMA TypeStep ==
  ASSUME TypeOK, [Next]_vars
  PROVE  TypeOK'
<1>1. CASE \E f \in Filters : Swap(f)
  BY <1>1, TypeSwap
<1>2. CASE Back
  BY <1>2, TypeBack
<1>3. CASE \E c \in Canvas : CanvasStep(c)
  BY <1>3, TypeCanvas
<1>4. CASE Write
  BY <1>4 DEF TypeOK, Write
<1>5. CASE UNCHANGED vars
  BY <1>5 DEF TypeOK, vars
<1>6. QED
  BY StepCases, <1>1, <1>2, <1>3, <1>4, <1>5

\* The state of the page keeps its shape: what is fetched for, saved, registered
\* or drawn belongs to a content that has been shown.
THEOREM ChartTypes == Spec => []TypeOK
<1>1. Init => TypeOK
  BY TypeInit
<1>2. TypeOK /\ [Next]_vars => TypeOK'
  BY TypeStep
<1>3. QED
  BY <1>1, <1>2, PTL DEF Spec

-----------------------------------------------------------------------------
(* Whose data a chart shows.                                               *)

Grown == /\ \A g \in 1 .. Len(pages) : AtLeast(ledger, pages[g].since)
         /\ \A c \in Canvas : fetch[c].at = "answered" =>
                AtLeast(fetch[c].asOf, pages[c.gen].since)
         /\ \A c \in Canvas : chart[c] # None => fetch[c].at = "drawn"
         /\ OwnFreshData

LEMMA GrownInit == Init => Grown
<1> SUFFICES ASSUME Init PROVE Grown
  OBVIOUS
<1>1. PICK f \in Filters : pages = <<[filters |-> f, since |-> ledger, restored |-> FALSE]>>
  BY DEF Init
<1>2. \A g \in 1 .. Len(pages) : AtLeast(ledger, pages[g].since)
  BY <1>1 DEF AtLeast
<1>3. \A c \in Canvas : fetch[c].at # "answered"
  <2> SUFFICES ASSUME NEW c \in Canvas PROVE fetch[c].at # "answered"
    OBVIOUS
  <2>1. fetch[c] = [NotAsked EXCEPT !.at = "asked"] \/ fetch[c] = NotAsked
    BY DEF Init, InitCharts
  <2>2. QED
    BY <2>1 DEF NotAsked
<1>4. QED
  BY <1>2, <1>3 DEF Grown, OwnFreshData, Init

\* A content is appended: nothing changes for the canvases of earlier ones.
LEMMA GrownAppend ==
  ASSUME TypeOK, Grown, NEW p \in Page, Len(pages) < MaxPages,
         pages' = Append(pages, p), AtLeast(ledger, p.since),
         \A c \in Canvas : fetch'[c] = fetch[c]
                           \/ (fetch[c].at = "none" /\ fetch'[c].at = "asked"),
         UNCHANGED <<chart, ledger>>
  PROVE  Grown'
<1>1. /\ Len(pages) \in Nat /\ Len(pages') = Len(pages) + 1
      /\ \A g \in 1 .. Len(pages) : pages'[g] = pages[g]
      /\ pages'[Len(pages) + 1] = p
  BY AppendPage DEF TypeOK
<1>2. \A g \in 1 .. Len(pages') : AtLeast(ledger, pages'[g].since)
  <2> SUFFICES ASSUME NEW g \in 1 .. Len(pages') PROVE AtLeast(ledger, pages'[g].since)
    OBVIOUS
  <2>1. g \in 1 .. Len(pages) \/ g = Len(pages) + 1
    BY <1>1
  <2>2. QED
    BY <1>1, <2>1 DEF Grown
<1>3. \A c \in Canvas : fetch[c].at # "none" => pages'[c.gen] = pages[c.gen]
  BY <1>1, AnswerType
<1>4. ASSUME NEW c \in Canvas, fetch'[c].at = "answered"
      PROVE  AtLeast(fetch'[c].asOf, pages'[c.gen].since)
  <2>1. fetch'[c] = fetch[c]
    BY <1>4
  <2>2. QED
    BY <1>3, <1>4, <2>1 DEF Grown
<1>5. ASSUME NEW c \in Canvas, chart[c] # None
      PROVE  /\ fetch'[c].at = "drawn"
             /\ chart[c].of = Endpoint(c)'
             /\ AtLeast(chart[c].asOf, pages'[c.gen].since)
  <2>1. fetch[c].at = "drawn" /\ fetch'[c] = fetch[c]
    BY <1>5 DEF Grown
  <2>2. pages'[c.gen] = pages[c.gen]
    BY <1>3, <2>1
  <2>3. QED
    BY <1>5, <2>1, <2>2 DEF Grown, OwnFreshData, Endpoint
<1>6. QED
  BY <1>2, <1>4, <1>5 DEF Grown, OwnFreshData

LEMMA GrownStep ==
  ASSUME TypeOK, Grown, [Next]_vars
  PROVE  Grown'
<1>1. ASSUME NEW f \in Filters, Swap(f)
      PROVE  Grown'
  <2>1. [filters |-> f, since |-> ledger, restored |-> FALSE] \in Page
    BY DEF TypeOK, Page
  <2>2. \A c \in Canvas : fetch'[c] = fetch[c]
                          \/ (fetch[c].at = "none" /\ fetch'[c].at = "asked")
    <3> SUFFICES ASSUME NEW c \in Canvas, fetch'[c] # fetch[c]
                 PROVE  fetch[c].at = "none" /\ fetch'[c].at = "asked"
      OBVIOUS
    <3>1. c.gen = Len(pages) + 1 /\ fetch'[c].at = "asked"
      <4>1. /\ fetch \in [Canvas -> [at : Stages, asOf : Ledgers]]
            /\ fetch' = InitCharts(fetch, Len(pages) + 1)
        BY <1>1 DEF TypeOK, Swap
      <4>2. c.gen # Len(pages) + 1 => fetch'[c] = fetch[c]
        BY <4>1, InitChartsType
      <4>3. c.gen = Len(pages) + 1
        BY <4>2
      <4>4. fetch'[c].at = "asked"
        BY <4>1, <4>3, InitChartsType
      <4>5. QED
        BY <4>3, <4>4
    <3>2. Len(pages) \in Nat
      BY DEF TypeOK
    <3>3. QED
      BY <3>1, <3>2 DEF TypeOK
  <2>3. QED
    BY <1>1, <2>1, <2>2, GrownAppend DEF Swap, AtLeast
<1>2. CASE Back
  <2>1. /\ Last(history) \in 1 .. Len(pages)
        /\ [pages[Last(history)] EXCEPT !.restored = TRUE] \in Page
        /\ pages' = Append(pages, [pages[Last(history)] EXCEPT !.restored = TRUE])
    BY <1>2, TypeBack
  <2>2. PICK p \in Page : p = pages[Last(history)]
    BY <2>1, ElementOfSeq DEF TypeOK
  <2>3. [p EXCEPT !.restored = TRUE].since = p.since
    BY <2>2 DEF Page
  <2>4. QED
    BY <1>2, <2>1, <2>2, <2>3, GrownAppend DEF Back, Grown
<1>3. ASSUME NEW c \in Canvas, Serve(c)
      PROVE  Grown'
  <2>1. c.gen \in 1 .. Len(pages)
    BY <1>3, AnswerType DEF Serve
  <2>2. \A d \in Canvas : fetch'[d] = IF d = c THEN [at |-> "answered", asOf |-> ledger]
                                                ELSE fetch[d]
    BY <1>3 DEF TypeOK, Serve
  <2>3. chart[c] = None
    BY <1>3 DEF Grown, Serve
  <2>4. QED
    BY <1>3, <2>1, <2>2, <2>3 DEF Grown, OwnFreshData, Serve, Endpoint
<1>4. ASSUME NEW c \in Canvas, Refuse(c)
      PROVE  Grown'
  <2>1. \A d \in Canvas : d # c => fetch'[d] = fetch[d]
    BY <1>4 DEF TypeOK, Refuse
  <2>2. fetch'[c].at = "failed" /\ chart[c] = None
    BY <1>4 DEF TypeOK, Refuse, Grown
  <2>3. QED
    BY <1>4, <2>1, <2>2 DEF Grown, OwnFreshData, Refuse, Endpoint
<1>5. ASSUME NEW c \in Canvas, Arrive(c)
      PROVE  Grown'
  <2>1. \A d \in Canvas : d # c => fetch'[d] = fetch[d] /\ (chart'[d] = chart[d] \/ chart'[d] = None)
    BY <1>5 DEF TypeOK, Arrive, BuildChart
  <2>2. fetch'[c].at = "drawn"
    BY <1>5 DEF TypeOK, Arrive, NotAsked
  <2>3. chart'[c] = [of |-> Endpoint(c), asOf |-> fetch[c].asOf]
    BY <1>5 DEF TypeOK, Arrive, BuildChart
  <2>4. AtLeast(fetch[c].asOf, pages[c.gen].since)
    BY <1>5 DEF Grown, Arrive
  <2>5. UNCHANGED <<pages, ledger>>
    BY <1>5 DEF Arrive
  <2>6. OwnFreshData'
    BY <2>1, <2>3, <2>4, <2>5 DEF Grown, OwnFreshData, Endpoint
  <2>7. QED
    BY <2>1, <2>2, <2>5, <2>6 DEF Grown
<1>6. CASE Write
  <2>1. AtLeast(ledger', ledger)
    BY <1>6 DEF Write
  <2>2. \A g \in 1 .. Len(pages) : AtLeast(ledger', pages[g].since)
    BY <2>1 DEF Grown, AtLeast
  <2>3. QED
    BY <1>6, <2>2 DEF Grown, OwnFreshData, Write, Endpoint
<1>7. CASE UNCHANGED vars
  BY <1>7 DEF Grown, OwnFreshData, Endpoint, vars
<1>8. QED
  BY StepCases, <1>1, <1>2, <1>3, <1>4, <1>5, <1>6, <1>7 DEF CanvasStep

\* Whatever the order of the answers, a canvas shows the data of its own endpoint
\* under its own page's filters, computed after the page was shown.
THEOREM ChartsShowOwnData == Spec => []OwnFreshData
<1>1. Init => TypeOK /\ Grown
  BY TypeInit, GrownInit
<1>2. TypeOK /\ Grown /\ [Next]_vars => TypeOK' /\ Grown'
  BY TypeStep, GrownStep
<1>3. Grown => OwnFreshData
  BY DEF Grown
<1>4. QED
  BY <1>1, <1>2, <1>3, PTL DEF Spec

-----------------------------------------------------------------------------
(* The registry.                                                           *)

Placed == /\ \A id \in Ids : registry[id] # None => registry[id].id = id
          /\ \A c \in Canvas : fetch[c].at = "drawn" => registry[c.id] # None
          /\ \A c \in Canvas : c.gen <= Len(pages) /\ fetch[c].at = "none" =>
                 pages[c.gen].restored
          /\ OneLiveChart

LEMMA PlacedInit == Init => Placed
<1> SUFFICES ASSUME Init PROVE Placed
  OBVIOUS
<1>1. PICK f \in Filters : pages = <<[filters |-> f, since |-> ledger, restored |-> FALSE]>>
  BY DEF Init
<1>2. ASSUME NEW c \in Canvas
      PROVE  fetch[c].at # "drawn" /\ (c.gen = 1 => fetch[c].at = "asked")
  BY DEF Init, InitCharts, NotAsked
<1>3. ASSUME NEW c \in Canvas, c.gen <= Len(pages)
      PROVE  c.gen = 1
  BY <1>1, <1>3 DEF Canvas
<1>4. ASSUME NEW c \in Canvas
      PROVE  chart[c] = None /\ registry[c.id] = None /\ c # None
  BY NoneIsNothing DEF Init, Canvas
<1>5. QED
  BY <1>2, <1>3, <1>4 DEF Placed, OneLiveChart, Init

\* A content is appended, and its canvases are fetched for or it is a restored one.
LEMMA PlacedAppend ==
  ASSUME TypeOK, Placed, NEW p \in Page, Len(pages) < MaxPages,
         pages' = Append(pages, p),
         \A c \in Canvas :
            \/ fetch'[c] = fetch[c] /\ (c.gen = Len(pages) + 1 => p.restored)
            \/ fetch'[c].at = "asked",
         UNCHANGED <<chart, registry>>
  PROVE  Placed'
<1>1. /\ Len(pages) \in Nat /\ Len(pages') = Len(pages) + 1
      /\ \A g \in 1 .. Len(pages) : pages'[g] = pages[g]
      /\ pages'[Len(pages) + 1] = p
  BY AppendPage DEF TypeOK
<1>2. ASSUME NEW c \in Canvas, c.gen <= Len(pages'), fetch'[c].at = "none"
      PROVE  pages'[c.gen].restored
  <2>1. fetch'[c] = fetch[c] /\ (c.gen = Len(pages) + 1 => p.restored)
    BY <1>2
  <2>2. c.gen \in 1 .. Len(pages) \/ c.gen = Len(pages) + 1
    BY <1>1, <1>2 DEF Canvas
  <2>3. CASE c.gen \in 1 .. Len(pages)
    BY <1>1, <1>2, <2>1, <2>3 DEF Placed
  <2>4. QED
    BY <1>1, <2>1, <2>2, <2>3
<1>3. ASSUME NEW c \in Canvas, fetch'[c].at = "drawn"
      PROVE  registry[c.id] # None
  <2>1. fetch'[c] = fetch[c]
    BY <1>3
  <2>2. QED
    BY <1>3, <2>1 DEF Placed
<1>4. QED
  BY <1>2, <1>3 DEF Placed, OneLiveChart

\* The Chart of one canvas takes the place of the registered one of its id.
LEMMA PlacedArrive ==
  ASSUME TypeOK, Placed, NEW c \in Canvas, Arrive(c)
  PROVE  Placed'
<1>1. c.id \in Ids /\ [of |-> Endpoint(c), asOf |-> fetch[c].asOf] \in Drawing
  BY AnswerType DEF Arrive
<1>2. \A id \in Ids : registry'[id] = IF id = c.id THEN c ELSE registry[id]
  BY DEF TypeOK, Arrive, BuildChart
<1>3. /\ chart'[c] # None
      /\ \A d \in Canvas : d # c => chart'[d] = IF d = registry[c.id] THEN None ELSE chart[d]
  BY <1>1, NoneIsNothing DEF TypeOK, Arrive, BuildChart
<1>4. /\ \A d \in Canvas : d # c => fetch'[d] = fetch[d]
      /\ fetch'[c].at = "drawn"
  BY DEF TypeOK, Arrive, NotAsked
<1>5. c # None /\ \A d \in Canvas : d.id \in Ids
  BY NoneIsNothing DEF Canvas
<1>6. ASSUME NEW d \in Canvas
      PROVE  chart'[d] # None <=> registry'[d.id] = d
  <2>1. CASE d = c
    BY <1>1, <1>2, <1>3, <2>1
  <2>2. CASE d # c /\ d.id = c.id
    BY <1>1, <1>2, <1>3, <2>2 DEF Placed, OneLiveChart
  <2>3. CASE d.id # c.id
    <3>1. d # registry[c.id]
      BY <1>1, <2>3, NoneIsNothing DEF Placed
    <3>2. QED
      BY <1>2, <1>3, <1>5, <2>3, <3>1 DEF Placed, OneLiveChart
  <2>4. QED
    BY <2>1, <2>2, <2>3
<1>7. ASSUME NEW d \in Canvas, fetch'[d].at = "drawn"
      PROVE  registry'[d.id] # None
  BY <1>2, <1>4, <1>5, <1>7 DEF Placed
<1>8. \A id \in Ids : registry'[id] # None => registry'[id].id = id
  BY <1>2 DEF Placed
<1>9. \A d \in Canvas : d.gen <= Len(pages') /\ fetch'[d].at = "none" => pages'[d.gen].restored
  BY <1>4 DEF Placed, Arrive
<1>10. QED
  BY <1>6, <1>7, <1>8, <1>9 DEF Placed, OneLiveChart

LEMMA PlacedStep ==
  ASSUME TypeOK, Placed, [Next]_vars
  PROVE  Placed'
<1>1. ASSUME NEW f \in Filters, Swap(f)
      PROVE  Placed'
  <2>1. [filters |-> f, since |-> ledger, restored |-> FALSE] \in Page
    BY DEF TypeOK, Page
  <2>2. \A c \in Canvas : \/ fetch'[c] = fetch[c] /\ c.gen # Len(pages) + 1
                          \/ fetch'[c].at = "asked"
    BY <1>1, InitChartsType DEF TypeOK, Swap
  <2>3. QED
    BY <1>1, <2>1, <2>2, PlacedAppend DEF Swap
<1>2. CASE Back
  <2>1. /\ [pages[Last(history)] EXCEPT !.restored = TRUE] \in Page
        /\ pages' = Append(pages, [pages[Last(history)] EXCEPT !.restored = TRUE])
    BY <1>2, TypeBack
  <2>2. PICK p \in Page : p = pages[Last(history)]
    BY <1>2, TypeBack, ElementOfSeq DEF TypeOK
  <2>3. [p EXCEPT !.restored = TRUE].restored
    BY DEF Page
  <2>4. QED
    BY <1>2, <2>1, <2>2, <2>3, PlacedAppend DEF Back
<1>3. ASSUME NEW c \in Canvas, Serve(c) \/ Refuse(c)
      PROVE  Placed'
  <2>1. /\ \A d \in Canvas : d # c => fetch'[d] = fetch[d]
        /\ fetch'[c].at \in {"answered", "failed"}
        /\ UNCHANGED <<pages, chart, registry>>
    BY <1>3 DEF TypeOK, Serve, Refuse
  <2>2. QED
    BY <2>1 DEF Placed, OneLiveChart
<1>4. ASSUME NEW c \in Canvas, Arrive(c)
      PROVE  Placed'
  BY <1>4, PlacedArrive
<1>5. CASE Write \/ UNCHANGED vars
  BY <1>5 DEF Placed, OneLiveChart, Write, vars
<1>6. QED
  BY StepCases, <1>1, <1>2, <1>3, <1>4, <1>5 DEF CanvasStep

\* A canvas that is blank although its fetch is over was not fetched for, failed,
\* or has lost its place in the registry to an older canvas.
LEMMA BlankReasons ==
  ASSUME TypeOK, Grown, Placed
  PROVE  BlankExplained
<1> SUFFICES ASSUME NEW c \in Canvas, c.gen = Len(pages), chart[c] = None,
                    fetch[c].at \notin {"asked", "answered"},
                    fetch[c].at # "failed", ~pages[c.gen].restored
             PROVE  registry[c.id] # None /\ registry[c.id].gen < c.gen
  BY DEF BlankExplained
<1>1. c.id \in Ids /\ c.gen \in Nat
  BY DEF Canvas
<1>2. fetch[c].at = "drawn"
  <2>1. fetch[c].at \in Stages
    BY DEF TypeOK
  <2>2. fetch[c].at # "none"
    BY <1>1 DEF Placed
  <2>3. QED
    BY <2>1, <2>2 DEF Stages
<1>3. PICK d \in Canvas : d = registry[c.id] /\ d.id = c.id /\ d # c
  BY <1>1, <1>2 DEF TypeOK, Placed, OneLiveChart
<1>4. d.gen \in Nat /\ d.gen <= Len(pages)
  <2>1. chart[d] # None
    BY <1>3 DEF Placed, OneLiveChart
  <2>2. fetch[d].at # "none"
    BY <2>1 DEF Grown
  <2>3. d.gen <= Len(pages)
    BY <2>2 DEF TypeOK
  <2>4. QED
    BY <2>3 DEF Canvas
<1>5. d.gen # c.gen
  BY <1>3 DEF Canvas
<1>6. QED
  BY <1>1, <1>2, <1>3, <1>4, <1>5 DEF Placed

LEMMA PlacedAlways == Spec => [](TypeOK /\ Grown /\ Placed)
<1>1. Init => TypeOK /\ Grown /\ Placed
  BY TypeInit, GrownInit, PlacedInit
<1>2. TypeOK /\ Grown /\ Placed /\ [Next]_vars => TypeOK' /\ Grown' /\ Placed'
  BY TypeStep, GrownStep, PlacedStep
<1>3. QED
  BY <1>1, <1>2, PTL DEF Spec

\* One live Chart per id, the registered one.
THEOREM OneChartPerId == Spec => []OneLiveChart
<1>1. Placed => OneLiveChart
  BY DEF Placed
<1>2. QED
  BY <1>1, PlacedAlways, PTL

\* Nothing but the Back button, a failed fetch or the late answer of an earlier
\* canvas leaves a canvas on the screen without its chart.
THEOREM BlanksExplained == Spec => []BlankExplained
<1>1. TypeOK /\ Grown /\ Placed => BlankExplained
  BY BlankReasons
<1>2. QED
  BY <1>1, PlacedAlways, PTL

-----------------------------------------------------------------------------
(* What a chart says.                                                      *)

\* The labels and the rows of an endpoint's answer, before any order or cut.
Labels(e, l) == {Label[e.id][k] : k \in l.calls \cap Matches[e.filters]}

Total(e, l, label) == SumFunctionOnSet(CostOf, Under(e, l, label) \cap l.priced)

LEMMA RowIs ==
  ASSUME NEW l \in Ledgers, NEW e, NEW label
  PROVE  /\ Row(e, l, label).label = label
         /\ Row(e, l, label).value = Total(e, l, label)
         /\ Total(e, l, label) \in Nat
         /\ Row(e, l, label).null => Total(e, l, label) = 0
         /\ Row(e, l, label).null \in BOOLEAN
         /\ Row(e, l, label).unpriced = Cardinality(Under(e, l, label) \ l.priced)
         /\ Row(e, l, label).unpriced \in Nat
<1> DEFINE calls == Under(e, l, label)
<1>1. calls \in SUBSET Calls /\ IsFiniteSet(calls)
  <2>1. calls \in SUBSET Calls
    BY DEF Under, Ledgers
  <2>2. QED
    BY <2>1, ChartConstants, FS_Subset
<1>2. IsFiniteSet(calls \cap l.priced) /\ IsFiniteSet(calls \ l.priced)
  BY <1>1, FS_Subset
<1>3. \A k \in calls \cap l.priced : CostOf[k] \in Nat
  BY <1>1, ChartConstants
<1>4. Total(e, l, label) \in Nat
  BY <1>2, <1>3, SumNat DEF Total
<1>5. calls \cap l.priced = {} => Total(e, l, label) = 0
  BY SumEmpty DEF Total
<1>6. Cardinality(calls \ l.priced) \in Nat
  BY <1>2, FS_CardinalityType
<1>7. QED
  BY <1>4, <1>5, <1>6 DEF Row, Total

\* An answer is a sequence without repetition of all the rows, or its first Cap ones.
LEMMA AnswerRows ==
  ASSUME NEW l \in Ledgers, NEW e, e.id \in Ids, e.filters \in Filters,
         NEW data \in Answers(e, l)
  PROVE  \E n \in Nat : \E s \in [1 .. n -> {Row(e, l, label) : label \in Labels(e, l)}] :
            /\ \A label \in Labels(e, l) : \E i \in 1 .. n : s[i] = Row(e, l, label)
            /\ \A i, j \in 1 .. n : i < j => InOrder(Kind[e.id], s[i], s[j])
            /\ data = Capped(Kind[e.id], s)
<1> DEFINE rows == {Row(e, l, label) : label \in Labels(e, l)}
<1>1. PICK s \in SetToSeqs(rows) :
         /\ \A i, j \in DOMAIN s : i < j => InOrder(Kind[e.id], s[i], s[j])
         /\ data = Capped(Kind[e.id], s)
  BY DEF Answers, Labels
<1>2. IsFiniteSet(rows)
  <2> DEFINE C == l.calls \cap Matches[e.filters]
             f == [k \in C |-> Row(e, l, Label[e.id][k])]
  <2>1. IsFiniteSet(C)
    <3>1. C \in SUBSET Calls
      BY DEF Ledgers
    <3>2. QED
      BY <3>1, ChartConstants, FS_Subset
  <2>2. f \in Surjection(C, rows)
    BY DEF Surjection, Labels
  <2> HIDE DEF f, C, rows
  <2>3. QED
    BY <2>1, <2>2, FS_Surjection
<1> HIDE DEF rows
<1>3. PICK n \in Nat : n = Cardinality(rows)
  BY <1>2, FS_CardinalityType
<1>4. s \in [1 .. n -> rows] /\ \A i, j \in 1 .. n : i # j => s[i] # s[j]
  BY <1>3 DEF SetToSeqs
<1>5. s \in Surjection(1 .. n, rows)
  <2>1. s \in Injection(1 .. n, rows)
    BY <1>4 DEF Injection, IsInjective
  <2>2. Cardinality(1 .. n) = Cardinality(rows)
    BY <1>3, FS_Interval
  <2>3. QED
    BY <1>2, <2>1, <2>2, FS_Injection
<1>6. \A row \in rows : \E i \in 1 .. n : s[i] = row
  BY <1>5 DEF Surjection
<1>7. \A label \in Labels(e, l) : \E i \in 1 .. n : s[i] = Row(e, l, label)
  BY <1>6 DEF rows
<1>8. \A i, j \in 1 .. n : i < j => InOrder(Kind[e.id], s[i], s[j])
  BY <1>1, <1>4
<1>9. QED
  BY <1>1, <1>4, <1>7, <1>8 DEF rows

\* d is the first m of the n rows of s, which are all of them unless the chart of
\* the groups is cut at Cap.
CutTo(kind, s, n, m, d) ==
  /\ Len(d) = m /\ DOMAIN d = 1 .. m
  /\ \A i \in 1 .. m : d[i] = s[i]
  /\ m # n => kind # "line" /\ m = Cap

\* What the cut leaves: everything, or on the chart of the groups the first Cap rows.
LEMMA CappedIs ==
  ASSUME NEW R, NEW n \in Nat, NEW s \in [1 .. n -> R], NEW kind
  PROVE  \E m \in 0 .. n : CutTo(kind, s, n, m, Capped(kind, s))
<1> USE DEF CutTo
<1>1. s \in Seq(R) /\ Len(s) = n /\ DOMAIN s = 1 .. n
  BY IsASeq
<1>2. CASE kind = "line"
  BY <1>1, <1>2 DEF Capped
<1>3. CASE kind # "line"
  <2>1. Cap \in Nat /\ n \in Nat
    BY ChartConstants
  <2>2. PICK m \in 0 .. n : m = Min({Cap, n}) /\ (m # n => m = Cap)
    <3>1. \E x \in {Cap, n} : \A y \in {Cap, n} : x <= y
      BY <2>1
    <3>2. Min({Cap, n}) \in {Cap, n} /\ \A y \in {Cap, n} : Min({Cap, n}) <= y
      BY <3>1 DEF Min
    <3>3. QED
      BY <2>1, <3>2
  <2>3. Capped(kind, s) = SubSeq(s, 1, m)
    BY <1>1, <1>3, <2>2 DEF Capped
  <2>4. \A i \in 1 .. m : s[i] \in R
    BY <2>2
  <2>5. Len(SubSeq(s, 1, m)) = m /\ DOMAIN SubSeq(s, 1, m) = 1 .. m
    BY <2>2, <2>4
  <2>6. \A i \in 1 .. m : SubSeq(s, 1, m)[i] = s[i]
    BY <2>2, <2>4
  <2>7. QED
    BY <1>3, <2>2, <2>3, <2>5, <2>6
<1>4. QED
  BY <1>2, <1>3

\* Money is off by no more than half a displayed unit.
LEMMA MoneyNear ==
  ASSUME NEW v \in Nat
  PROVE  2 * (Money(v) - v) <= Unit /\ 2 * (Money(v) - v) >= - Unit
<1>1. Unit \in Nat /\ Unit > 0
  BY ChartConstants
<1>2. PICK h \in Nat : h = Unit \div 2 /\ 2 * h <= Unit /\ Unit <= 2 * h + 1
  BY <1>1
<1>3. PICK q, r \in Nat : q = (v + h) \div Unit /\ v + h = Unit * q + r /\ r < Unit
  <2>1. v + h \in Nat
    BY <1>2
  <2> DEFINE y == v + h
  <2>2. /\ y = Unit * (y \div Unit) + (y % Unit) /\ y \div Unit \in Nat
        /\ y % Unit \in 0 .. Unit - 1
    BY <1>1, <2>1
  <2>3. QED
    BY <1>1, <2>2
<1>4. Money(v) = Unit * q
  BY <1>1, <1>2, <1>3 DEF Money
<1>5. Unit * q \in Nat
  BY <1>1, <1>3
<1>6. QED
  BY <1>1, <1>2, <1>3, <1>4, <1>5

\* What the tooltip and the axes of a chart say of data that rows of the answer.
LEMMA TooltipIs ==
  ASSUME NEW kind \in {"line", "hbar"}, NEW data, NEW i
  PROVE  /\ Tooltip(Config(kind), data, i).figure = Money(data[i].value)
         /\ Tooltip(Config(kind), data, i).excluded
               = IF data[i].unpriced > 0 THEN data[i].unpriced ELSE 0
         /\ Config(kind).options.scales[Config(kind).options.label] = "value"
BY DEF Tooltip, Parsed, Config, BaseOptions

LEMMA AnswersAreHonest ==
  ASSUME NEW c \in Canvas, NEW l \in Ledgers, chart[c].asOf = l, Endpoint(c).filters \in Filters,
         NEW data \in Answers(Endpoint(c), l)
  PROVE  Honest(c, data)
<1>1. PICK e : e = Endpoint(c)
  OBVIOUS
<1>2. e.id = c.id /\ c.id \in Ids /\ e.filters \in Filters
  BY <1>1 DEF Endpoint, Canvas
<1>3. PICK kind \in {"line", "hbar"} : kind = Kind[c.id]
  BY <1>2, ChartConstants
<1>4. \A label : /\ Row(e, l, label).label = label
                 /\ Row(e, l, label).value = Total(e, l, label)
                 /\ Total(e, l, label) \in Nat
                 /\ Row(e, l, label).null => Total(e, l, label) = 0
                 /\ Row(e, l, label).unpriced = Cardinality(Under(e, l, label) \ l.priced)
                 /\ Row(e, l, label).unpriced \in Nat
  BY RowIs
<1> DEFINE R == {Row(e, l, label) : label \in Labels(e, l)}
<1>5. \A row \in R : /\ row.value = Total(e, l, row.label) /\ Total(e, l, row.label) \in Nat
                     /\ row.null => row.value = 0
                     /\ row.unpriced = Cardinality(Under(e, l, row.label) \ l.priced)
                     /\ row.unpriced \in Nat
  BY <1>4
<1>6. \E n \in Nat : \E s \in [1 .. n -> R] :
         /\ \A label \in Labels(e, l) : \E i \in 1 .. n : s[i] = Row(e, l, label)
         /\ \A i, j \in 1 .. n : i < j => InOrder(kind, s[i], s[j])
         /\ data = Capped(kind, s)
  BY <1>1, <1>2, <1>3, AnswerRows
<1> HIDE DEF R
<1>7. PICK n \in Nat : \E s \in [1 .. n -> R] :
         /\ \A label \in Labels(e, l) : \E i \in 1 .. n : s[i] = Row(e, l, label)
         /\ \A i, j \in 1 .. n : i < j => InOrder(kind, s[i], s[j])
         /\ data = Capped(kind, s)
  BY <1>6
<1>8. PICK s \in [1 .. n -> R] :
         /\ \A label \in Labels(e, l) : \E i \in 1 .. n : s[i] = Row(e, l, label)
         /\ \A i, j \in 1 .. n : i < j => InOrder(kind, s[i], s[j])
         /\ data = Capped(kind, s)
  BY <1>7
<1>9. PICK m \in 0 .. n : /\ Len(data) = m /\ DOMAIN data = 1 .. m
                          /\ \A i \in 1 .. m : data[i] = s[i]
                          /\ m # n => kind # "line" /\ m = Cap
  <2>1. \E m \in 0 .. n : CutTo(kind, s, n, m, Capped(kind, s))
    BY CappedIs
  <2>2. QED
    BY <1>8, <2>1 DEF CutTo
<1>10. \A label : Spent(c, label) = Total(e, l, label)
  BY <1>1 DEF Spent, Total
<1>11. ASSUME NEW i \in 1 .. n
      PROVE  /\ s[i].value = Total(e, l, s[i].label) /\ Total(e, l, s[i].label) \in Nat
             /\ s[i].null => s[i].value = 0
             /\ s[i].unpriced = Cardinality(Under(e, l, s[i].label) \ l.priced)
             /\ s[i].unpriced \in Nat
  BY <1>5
<1>12. ASSUME NEW i \in DOMAIN data
      PROVE  LET tip == Tooltip(Config(kind), data, i)
                 off == tip.figure - Spent(c, data[i].label)
             IN  /\ 2 * off <= Unit /\ 2 * off >= - Unit
                 /\ tip.excluded = Cardinality(Under(e, l, data[i].label) \ l.priced)
  <2>1. i \in 1 .. n /\ data[i] = s[i]
    BY <1>9
  <2>2. PICK v \in Nat : v = data[i].value /\ v = Spent(c, data[i].label)
    BY <1>10, <1>11, <2>1
  <2>3. Tooltip(Config(kind), data, i).figure = Money(v)
    <3>1. Tooltip(Config(kind), data, i).figure = Money(data[i].value)
      BY TooltipIs
    <3>2. QED
      BY <2>2, <3>1
  <2>4. 2 * (Money(v) - v) <= Unit /\ 2 * (Money(v) - v) >= - Unit
    BY MoneyNear
  <2>5. Tooltip(Config(kind), data, i).excluded = data[i].unpriced
    <3>1. Tooltip(Config(kind), data, i).excluded
             = IF data[i].unpriced > 0 THEN data[i].unpriced ELSE 0
      BY TooltipIs
    <3>2. data[i].unpriced \in Nat
      BY <1>11, <2>1
    <3>3. QED
      BY <3>1, <3>2
  <2>6. QED
    BY <1>11, <2>1, <2>2, <2>3, <2>4, <2>5
<1>13. ASSUME NEW k \in l.calls \cap Matches[e.filters],
             ~\E i \in DOMAIN data : data[i].label = Label[c.id][k]
      PROVE  /\ Len(data) = Cap
             /\ \A i \in DOMAIN data : Spent(c, data[i].label) >= Spent(c, Label[c.id][k])
  <2>1. PICK label \in Labels(e, l) : label = Label[c.id][k]
    BY <1>2 DEF Labels
  <2>2. PICK j \in 1 .. n : s[j] = Row(e, l, label)
    BY <1>8
  <2>3. s[j].label = label
    BY <1>4, <2>2
  <2>4. ~(j \in 1 .. m)
    BY <1>9, <1>13, <2>1, <2>3
  <2>5. m # n /\ kind = "hbar" /\ Len(data) = Cap
    BY <1>9, <2>4
  <2>6. ASSUME NEW i \in DOMAIN data
        PROVE  Spent(c, data[i].label) >= Spent(c, label)
    <3>1. i \in 1 .. n /\ i < j /\ data[i] = s[i]
      BY <1>9, <2>4, <2>6
    <3>2. s[j].null \/ s[i].value >= s[j].value
      BY <1>8, <2>5, <3>1 DEF InOrder
    <3>3. /\ s[i].value = Spent(c, data[i].label) /\ s[i].value \in Nat
          /\ s[j].value = Spent(c, label) /\ s[j].value \in Nat
          /\ s[j].null => s[j].value = 0
      BY <1>10, <1>11, <2>3, <3>1
    <3>4. QED
      BY <3>2, <3>3
  <2>7. QED
    BY <2>1, <2>5, <2>6
<1>14. Config(kind).options.scales[Config(kind).options.label] = "value"
  BY TooltipIs
<1>15. QED
  BY <1>1, <1>3, <1>12, <1>13, <1>14 DEF Honest

\* Every chart on a canvas says what its page's filters select: the tooltip's figures,
\* the calls they leave out, the axis of the amounts and the groups left off.
THEOREM ChartsAreHonest == Spec => []FiguresHonest
<1>1. TypeOK /\ Grown => FiguresHonest
  <2> SUFFICES ASSUME TypeOK, Grown, NEW c \in Canvas, chart[c] # None,
                      NEW data \in Answers(chart[c].of, chart[c].asOf)
               PROVE  Honest(c, data)
    BY DEF FiguresHonest
  <2>1. chart[c].of = Endpoint(c)
    BY DEF Grown, OwnFreshData
  <2>2. chart[c].asOf \in Ledgers /\ chart[c].of.filters \in Filters
    BY DEF TypeOK, Drawing
  <2>3. PICK l \in Ledgers : l = chart[c].asOf
    BY <2>2
  <2>4. QED
    BY <2>1, <2>2, <2>3, AnswersAreHonest
<1>2. QED
  BY <1>1, PlacedAlways, PTL
=============================================================================
