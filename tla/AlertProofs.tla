---------------------------- MODULE AlertProofs -----------------------------
(***************************************************************************)
(* Proofs about AlertChecks for any evaluators, rules and bounds.          *)
(*                                                                         *)
(* TypeOK is inductive by itself.  On top of it:                           *)
(*   - an answer that says ok has landed, and a retry about to be stored   *)
(*     has landed for the very firing it retried (AnswersTrue), which      *)
(*     gives DeliveredMeansLanded;                                         *)
(*   - a check about to fire a rule has no firing of its own of that rule  *)
(*     younger than the cooldown (ClearToFire), which gives                *)
(*     OwnFiringsSpaced.                                                   *)
(***************************************************************************)
EXTENDS AlertChecks, SequenceTheorems, WellFoundedInduction, TLAPS

EvaluatorStep(e) == Begin(e) \/ Step(e) \/ Abort(e)

\* Every step is one of an evaluator, of the receiver, of the clock or a stutter.
LEMMA StepCases ==
  ASSUME [Next]_vars
  PROVE  \/ \E e \in Evaluators : EvaluatorStep(e)
         \/ Flip \/ Tick
         \/ UNCHANGED vars
BY DEF Next, EvaluatorStep

-----------------------------------------------------------------------------
(* Types.                                                                  *)

Running(c) == c.pc # "idle" => c.todo # <<>>

\* The current rule is one that is configured, and so are those left.
LEMMA RestOfRules ==
  ASSUME NEW s \in Seq(RuleSet), s # <<>>
  PROVE  /\ Head(s) \in RuleSet
         /\ Tail(s) \in Seq(RuleSet)
         /\ Len(s) > 1 => Tail(s) # <<>>
<1>1. Head(s) \in RuleSet /\ Tail(s) \in Seq(RuleSet) /\ Len(Tail(s)) = Len(s) - 1
  BY HeadTailProperties
<1>2. Len(s) \in Nat /\ (Tail(s) = <<>> => Len(Tail(s)) = 0)
  OBVIOUS
<1>3. QED
  BY <1>1, <1>2

LEMMA RulesType == Rules \in Seq(RuleSet) /\ Rules # <<>>
<1>1. Rules \in Seq(STRING) /\ Rules # <<>>
  BY AlertConstants
<1>2. \A i \in 1 .. Len(Rules) : Rules[i] \in RuleSet
  BY <1>1 DEF RuleSet
<1>3. QED
  BY <1>1, <1>2

LEMMA IdleType == Idle \in Check /\ Running(Idle)
BY AlertConstants DEF Idle, Check, Labels, Answer, NoAnswer, Running

\* Going on keeps a check well-formed and leaves it nothing to retry.
LEMMA NextRuleType ==
  ASSUME NEW c \in Check, c.todo # <<>>
  PROVE  /\ NextRule(c) \in Check
         /\ Running(NextRule(c))
         /\ NextRule(c).pc \in {"idle", "rule"}
         /\ NextRule(c).post = NoAnswer
<1>1. /\ Tail(c.todo) \in Seq(RuleSet)
      /\ Len(c.todo) > 1 => Tail(c.todo) # <<>>
  BY RestOfRules DEF Check
<1>2. QED
  BY <1>1, IdleType DEF NextRule, Idle, Check, Labels, Answer, NoAnswer, Running

LEMMA DecideType ==
  ASSUME NEW c \in Check, c.todo # <<>>
  PROVE  /\ Decide(c) \in Check
         /\ Running(Decide(c))
         /\ Decide(c).pc \in {"idle", "rule", "post"}
         /\ Decide(c).pc = "post" =>
               /\ c.gov = 0
               /\ Decide(c).todo = c.todo /\ Decide(c).asOf = c.asOf
BY NextRuleType DEF Decide, Check, Labels, Running

\* What the lookup finds is a firing of the rule, or none.
LEMMA GoverningType ==
  ASSUME NEW rule, NEW time, NEW g \in Governing(rule, time), g # 0
  PROVE  g \in Ids /\ firings[g].rule = rule
BY DEF Governing, Latest

LEMMA AnswersType ==
  ASSUME NEW a \in Answers
  PROVE  a \in Answer /\ (a.ok => a.landed)
<1>1. CASE ~Webhook
  <2>1. a = [landed |-> FALSE, ok |-> FALSE]
    BY <1>1 DEF Answers, NoAnswer
  <2>2. QED
    BY <2>1 DEF Answer
<1>2. CASE Webhook /\ up
  <2>1. a = [landed |-> TRUE, ok |-> TRUE]
    BY <1>2 DEF Answers
  <2>2. QED
    BY <2>1 DEF Answer
<1>3. CASE Webhook /\ ~up
  <2>1. PICK b \in BOOLEAN : a = [landed |-> b, ok |-> FALSE]
    BY <1>3 DEF Answers
  <2>2. QED
    BY <2>1 DEF Answer
<1>4. QED
  BY <1>1, <1>2, <1>3

LEMMA InitTypes == Init => TypeOK
<1>1. SUFFICES ASSUME Init PROVE TypeOK
  OBVIOUS
<1>2. firings \in Seq(Firing)
  BY <1>1 DEF Init
<1>3. QED
  BY <1>1, <1>2, IdleType, AlertConstants DEF Init, TypeOK, Idle

\* What a retry may do to a firing: mark it as landed or as delivered.
Marks(f, g) == /\ f \in Firing
               /\ f.rule = g.rule /\ f.at = g.at /\ f.by = g.by
               /\ g.landed => f.landed
               /\ g.delivered => f.delivered

\* The firings after a step: none gone, none changed but by marks.
Kept == /\ firings' \in Seq(Firing)
        /\ Len(firings') >= Len(firings)
        /\ \A i \in Ids : i \in DOMAIN firings' /\ Marks(firings'[i], firings[i])

LEMMA SameKept ==
  ASSUME TypeOK, UNCHANGED firings
  PROVE  Kept
<1>1. \A i \in Ids : firings[i] \in Firing
  BY DEF TypeOK, Ids
<1>2. QED
  BY <1>1 DEF Kept, Marks, TypeOK, Ids

LEMMA MarkedKept ==
  ASSUME TypeOK, NEW g \in Ids, NEW f, Marks(f, firings[g]),
         firings' = [firings EXCEPT ![g] = f]
  PROVE  Kept
<1>1. firings \in Seq(Firing) /\ g \in 1 .. Len(firings) /\ f \in Firing
  BY DEF TypeOK, Marks, Ids
<1>2. /\ firings' \in Seq(Firing)
      /\ Len(firings') = Len(firings)
      /\ \A i \in 1 .. Len(firings) : firings'[i] = IF i = g THEN f ELSE firings[i]
  BY <1>1, ExceptSeq
<1>3. \A i \in 1 .. Len(firings) : firings[i] \in Firing
  BY <1>1
<1>4. QED
  BY <1>1, <1>2, <1>3 DEF Kept, Marks, Ids

LEMMA AppendedKept ==
  ASSUME TypeOK, NEW f \in Firing, firings' = Append(firings, f)
  PROVE  Kept
<1>1. firings \in Seq(Firing)
  BY DEF TypeOK
<1>2. /\ firings' \in Seq(Firing)
      /\ Len(firings') = Len(firings) + 1
      /\ \A i \in 1 .. Len(firings) : firings'[i] = firings[i]
  BY <1>1, AppendProperties
<1>3. \A i \in 1 .. Len(firings) : firings[i] \in Firing
  BY <1>1
<1>4. QED
  BY <1>1, <1>2, <1>3 DEF Kept, Marks, Ids

LEMMA RetryPostKept ==
  ASSUME TypeOK, NEW e \in Evaluators, RetryPost(e)
  PROVE  Kept
<1> DEFINE g == check[e].gov
<1>1. PICK a \in Answers :
         firings' = [firings EXCEPT ![g] = [firings[g] EXCEPT !.landed = firings[g].landed \/ a.landed]]
  BY DEF RetryPost
<1>2. g \in Ids /\ firings[g] \in Firing
  BY DEF RetryPost, TypeOK, Ids
<1>3. Marks([firings[g] EXCEPT !.landed = firings[g].landed \/ a.landed], firings[g])
  BY <1>2 DEF Marks, Firing
<1>4. QED
  BY <1>1, <1>2, <1>3, MarkedKept

LEMMA RetryCommitKept ==
  ASSUME TypeOK, NEW e \in Evaluators, RetryCommit(e)
  PROVE  Kept
<1> DEFINE g == check[e].gov
           ok == check[e].post.ok
<1>1. firings' = [firings EXCEPT ![g] = [firings[g] EXCEPT !.delivered = firings[g].delivered \/ ok]]
  BY DEF RetryCommit
<1>2. g \in Ids /\ firings[g] \in Firing
  BY DEF RetryCommit, TypeOK, Ids
<1>3. Marks([firings[g] EXCEPT !.delivered = firings[g].delivered \/ ok], firings[g])
  BY <1>2 DEF Marks, Firing
<1>4. QED
  BY <1>1, <1>2, <1>3, MarkedKept

\* The row of a new firing.
Fired(e) == [rule |-> Head(check[e].todo), at |-> check[e].asOf,
             delivered |-> check[e].post.ok, landed |-> check[e].post.landed, by |-> e]

LEMMA FiredType ==
  ASSUME TypeOK, NEW e \in Evaluators, check[e].pc # "idle"
  PROVE  Fired(e) \in Firing
<1>1. check[e] \in Check /\ check[e].todo # <<>>
  BY DEF TypeOK
<1>2. Head(check[e].todo) \in RuleSet
  BY <1>1, RestOfRules DEF Check
<1>3. QED
  BY <1>1, <1>2 DEF Fired, Firing, Check, Answer

LEMMA PersistKept ==
  ASSUME TypeOK, NEW e \in Evaluators, Persist(e)
  PROVE  Kept
<1>1. firings' = Append(firings, Fired(e)) /\ check[e].pc # "idle"
  BY DEF Persist, Fired
<1>2. QED
  BY <1>1, FiredType, AppendedKept

LEMMA FiringsKept ==
  ASSUME TypeOK, [Next]_vars
  PROVE  Kept
<1>1. ASSUME NEW e \in Evaluators, EvaluatorStep(e) PROVE Kept
  <2>1. CASE RetryPost(e)
    BY <2>1, RetryPostKept
  <2>2. CASE RetryCommit(e)
    BY <2>2, RetryCommitKept
  <2>3. CASE Persist(e)
    BY <2>3, PersistKept
  <2>4. CASE Begin(e) \/ Govern(e) \/ Post(e) \/ Abort(e)
    BY <2>4, SameKept DEF Begin, Govern, Post, Abort
  <2>5. QED
    BY <1>1, <2>1, <2>2, <2>3, <2>4 DEF EvaluatorStep, Step
<1>2. CASE Flip \/ Tick \/ UNCHANGED vars
  BY <1>2, SameKept DEF Flip, Tick, vars
<1>3. QED
  BY <1>1, <1>2, StepCases

\* What the check of an evaluator may be after its step.
Sound(c) == /\ c \in Check
            /\ Running(c)
            /\ c.pc \in {"retry", "retried"} =>
                  c.gov \in DOMAIN firings' /\ firings'[c.gov].rule = Head(c.todo)

LEMMA GovernSound ==
  ASSUME TypeOK, NEW e \in Evaluators, Govern(e)
  PROVE  \E c : Becomes(e, c) /\ Sound(c)
<1>1. PICK g \in Governing(Head(check[e].todo), check[e].asOf) :
         LET c == [check[e] EXCEPT !.gov = g]
         IN  IF g # 0 /\ ~firings[g].delivered /\ Webhook
             THEN Becomes(e, [c EXCEPT !.pc = "retry"])
             ELSE Becomes(e, Decide(c))
  BY DEF Govern
<1> DEFINE c == [check[e] EXCEPT !.gov = g]
<1>2. g # 0 => g \in Ids /\ firings[g].rule = Head(check[e].todo)
  BY GoverningType
<1>3. g \in Nat
  BY <1>2 DEF TypeOK, Ids
<1>4. check[e] \in Check /\ check[e].todo # <<>> /\ UNCHANGED firings
  BY DEF TypeOK, Govern
<1>5. c \in Check /\ c.todo = check[e].todo /\ c.gov = g
  BY <1>3, <1>4 DEF Check
<1>6. CASE g # 0 /\ ~firings[g].delivered /\ Webhook
  <2>1. Becomes(e, [c EXCEPT !.pc = "retry"])
    BY <1>1, <1>6
  <2>2. Sound([c EXCEPT !.pc = "retry"])
    BY <1>2, <1>4, <1>5, <1>6 DEF Sound, Check, Labels, Running, Ids
  <2>3. QED
    BY <2>1, <2>2
<1>7. CASE ~(g # 0 /\ ~firings[g].delivered /\ Webhook)
  <2>1. Becomes(e, Decide(c))
    BY <1>1, <1>7
  <2>2. Sound(Decide(c))
    BY <1>4, <1>5, DecideType DEF Sound
  <2>3. QED
    BY <2>1, <2>2
<1>8. QED
  BY <1>6, <1>7

LEMMA CheckSound ==
  ASSUME TypeOK, NEW e \in Evaluators, EvaluatorStep(e)
  PROVE  \E c : Becomes(e, c) /\ Sound(c)
<1>1. check[e] \in Check /\ Running(check[e])
  BY DEF TypeOK, Running
<1>2. Kept
  BY FiringsKept DEF EvaluatorStep, Next
<1>3. CASE Begin(e)
  <2>1. PICK fired \in SUBSET RuleSet :
           Becomes(e, [Idle EXCEPT !.pc = "rule", !.todo = Rules, !.asOf = now, !.over = fired])
    BY <1>3 DEF Begin
  <2>2. Sound([Idle EXCEPT !.pc = "rule", !.todo = Rules, !.asOf = now, !.over = fired])
    BY RulesType, IdleType DEF Sound, TypeOK, Idle, Check, Labels, Running
  <2>3. QED
    BY <2>1, <2>2
<1>4. CASE Govern(e)
  BY <1>4, GovernSound
<1>5. CASE RetryPost(e)
  <2>1. PICK a \in Answers : Becomes(e, [check[e] EXCEPT !.pc = "retried", !.post = a])
    BY <1>5 DEF RetryPost
  <2>2. check[e].gov \in Ids /\ firings[check[e].gov].rule = Head(check[e].todo)
    BY <1>5 DEF RetryPost, TypeOK
  <2>3. Sound([check[e] EXCEPT !.pc = "retried", !.post = a])
    BY <1>1, <1>2, <1>5, <2>2, AnswersType
    DEF Sound, Kept, Marks, Check, Labels, Running, RetryPost
  <2>4. QED
    BY <2>1, <2>3
<1>6. CASE RetryCommit(e)
  <2>1. check[e].todo # <<>> /\ Becomes(e, Decide(check[e]))
    BY <1>6 DEF RetryCommit, TypeOK
  <2>2. QED
    BY <1>1, <2>1, DecideType DEF Sound
<1>7. CASE Post(e)
  <2>1. PICK a \in Answers : Becomes(e, [check[e] EXCEPT !.pc = "posted", !.post = a])
    BY <1>7 DEF Post
  <2>2. Sound([check[e] EXCEPT !.pc = "posted", !.post = a])
    BY <1>1, <1>7, AnswersType DEF Sound, Check, Labels, Running, Post
  <2>3. QED
    BY <2>1, <2>2
<1>8. CASE Persist(e)
  <2>1. check[e].todo # <<>> /\ Becomes(e, NextRule(check[e]))
    BY <1>8 DEF Persist, TypeOK
  <2>2. QED
    BY <1>1, <2>1, NextRuleType DEF Sound
<1>9. CASE Abort(e)
  BY <1>9, IdleType DEF Abort, Sound, Idle
<1>10. QED
  BY <1>3, <1>4, <1>5, <1>6, <1>7, <1>8, <1>9 DEF EvaluatorStep, Step

LEMMA NextTypes ==
  ASSUME TypeOK, [Next]_vars
  PROVE  TypeOK'
<1>1. Kept
  BY FiringsKept
<1>2. /\ up' \in BOOLEAN /\ now' \in 0 .. MaxTime /\ faults' \in 0 .. MaxFaults
  <2>1. ASSUME NEW e \in Evaluators, EvaluatorStep(e)
        PROVE  /\ UNCHANGED <<up, now>>
               /\ faults' = faults \/ (faults < MaxFaults /\ faults' = faults + 1)
    <3>1. CASE Abort(e)
      BY <3>1 DEF Abort
    <3>2. CASE Begin(e) \/ Govern(e) \/ Post(e)
      BY <3>2 DEF Begin, Govern, Post
    <3>3. CASE RetryPost(e) \/ RetryCommit(e) \/ Persist(e)
      BY <3>3 DEF RetryPost, RetryCommit, Persist
    <3>4. QED
      BY <2>1, <3>1, <3>2, <3>3 DEF EvaluatorStep, Step
  <2>2. CASE \E e \in Evaluators : EvaluatorStep(e)
    BY <2>1, <2>2, AlertConstants DEF TypeOK
  <2>3. CASE Flip \/ Tick \/ UNCHANGED vars
    <3>1. CASE Flip
      <4>1. up' = ~up /\ UNCHANGED <<now, faults>>
        BY <3>1 DEF Flip
      <4>2. up' \in BOOLEAN
        BY <4>1
      <4>3. QED
        BY <4>1, <4>2 DEF TypeOK
    <3>2. CASE Tick
      BY <3>2, AlertConstants DEF TypeOK, Tick
    <3>3. CASE UNCHANGED vars
      BY <3>3 DEF TypeOK, vars
    <3>4. QED
      BY <2>3, <3>1, <3>2, <3>3
  <2>4. QED
    BY <2>2, <2>3, StepCases
<1>3. ASSUME NEW e \in Evaluators, EvaluatorStep(e) PROVE TypeOK'
  <2>1. PICK c : Becomes(e, c) /\ Sound(c)
    BY <1>3, CheckSound
  <2>2. check' \in [Evaluators -> Check]
    BY <2>1 DEF Becomes, Sound, TypeOK
  <2>3. \A d \in Evaluators : check'[d] = IF d = e THEN c ELSE check[d]
    BY <2>1 DEF Becomes, TypeOK
  <2>4. ASSUME NEW d \in Evaluators
        PROVE  /\ check'[d].pc # "idle" => check'[d].todo # <<>>
               /\ check'[d].pc \in {"retry", "retried"} =>
                     /\ check'[d].gov \in DOMAIN firings'
                     /\ firings'[check'[d].gov].rule = Head(check'[d].todo)
    <3>1. CASE d = e
      BY <2>1, <2>3, <3>1 DEF Sound, Running
    <3>2. CASE d # e
      BY <1>1, <2>3, <3>2 DEF Kept, Marks, TypeOK
    <3>3. QED
      BY <3>1, <3>2
  <2>5. QED
    BY <1>1, <1>2, <2>2, <2>4 DEF TypeOK, Kept, Ids
<1>4. CASE Flip \/ Tick \/ UNCHANGED vars
  <2>1. UNCHANGED <<check, firings>>
    BY <1>4 DEF Flip, Tick, vars
  <2>2. QED
    BY <1>2, <2>1 DEF TypeOK, Ids
<1>5. QED
  BY <1>3, <1>4, StepCases

\* The checks, the firings and the clock of alert evaluation keep their shape,
\* whatever evaluators, rules and faults there are (alerts.py check_alerts).
THEOREM AlertTypes == Safe => []TypeOK
BY InitTypes, NextTypes, PTL DEF Safe

\* The firings are an append-only record: no step of any evaluator moves a firing in
\* time or takes a delivery back (alerts.py check_alerts, _retry_undelivered).
THEOREM FiringsAppendOnly == Safe => FiringsOnlyGrow
<1>1. TypeOK /\ [Next]_vars =>
         [/\ Len(firings') >= Len(firings)
          /\ \A i \in Ids : /\ firings'[i].at = firings[i].at
                            /\ firings[i].delivered => firings'[i].delivered]_vars
  BY FiringsKept DEF Kept, Marks
<1>2. QED
  BY <1>1, AlertTypes, PTL DEF Safe, FiringsOnlyGrow

-----------------------------------------------------------------------------
(* The delivery trail.                                                     *)

\* The answer in hand is true, and once a retry has an ok, its firing has landed.
AnswersTrue ==
    /\ DeliveredMeansLanded
    /\ \A e \in Evaluators : check[e].post.ok =>
          /\ check[e].post.landed
          /\ check[e].pc = "retried" => firings[check[e].gov].landed

LEMMA NoOk == ~NoAnswer.ok
BY DEF NoAnswer

LEMMA DecideForgets ==
  ASSUME NEW c \in Check, c.todo # <<>>
  PROVE  Decide(c).pc # "retried" /\ Decide(c).post \in {c.post, NoAnswer}
BY NextRuleType, DecideType DEF Decide, Check

\* Every evaluator but the one that steps keeps its check, and its firings keep
\* what they are.
LEMMA OthersKeep ==
  ASSUME TypeOK, NEW e \in Evaluators, EvaluatorStep(e)
  PROVE  \A d \in Evaluators \ {e} : check'[d] = check[d]
<1>1. PICK c : Becomes(e, c)
  BY CheckSound
<1>2. QED
  BY <1>1 DEF Becomes, TypeOK

\* The check in hand after its own step.
LEMMA OwnAnswer ==
  ASSUME TypeOK, AnswersTrue, NEW e \in Evaluators, EvaluatorStep(e), check'[e].post.ok
  PROVE  /\ check'[e].post.landed
         /\ check'[e].pc = "retried" => firings'[check'[e].gov].landed
<1>1. check[e] \in Check /\ (check[e].pc # "idle" => check[e].todo # <<>>)
  BY DEF TypeOK
<1>2. \A c : Becomes(e, c) => check'[e] = c
  BY DEF Becomes, TypeOK
<1>3. \A c : c.post = NoAnswer => ~c.post.ok
  BY NoOk
<1>4. CASE Begin(e) \/ Abort(e)
  <2>1. Idle.post = NoAnswer
    BY DEF Idle
  <2>2. CASE Abort(e)
    <3>1. check'[e] = Idle
      BY <1>2, <2>2 DEF Abort
    <3>2. QED
      BY <1>3, <2>1, <3>1
  <2>3. CASE Begin(e)
    <3>1. PICK fired \in SUBSET RuleSet :
             check'[e] = [Idle EXCEPT !.pc = "rule", !.todo = Rules, !.asOf = now, !.over = fired]
      BY <1>2, <2>3 DEF Begin
    <3>2. check'[e].post = Idle.post
      BY <3>1 DEF Idle
    <3>3. QED
      BY <1>3, <2>1, <3>2
  <2>4. QED
    BY <1>4, <2>2, <2>3
<1>5. CASE Govern(e)
  <2>1. PICK g : LET c == [check[e] EXCEPT !.gov = g]
                 IN  \/ Becomes(e, [c EXCEPT !.pc = "retry"])
                     \/ Becomes(e, Decide(c)) /\ (g = 0 \/ g \in Ids)
    BY <1>5, GoverningType DEF Govern
  <2> DEFINE c == [check[e] EXCEPT !.gov = g]
  <2>2. CASE Becomes(e, [c EXCEPT !.pc = "retry"])
    <3>1. check'[e] = [c EXCEPT !.pc = "retry"]
      BY <1>2, <2>2
    <3>2. check'[e].pc = "retry" /\ check'[e].post = check[e].post
      BY <1>1, <3>1 DEF Check
    <3>3. QED
      BY <3>2 DEF AnswersTrue
  <2>3. CASE Becomes(e, Decide(c)) /\ (g = 0 \/ g \in Ids)
    <3>1. c \in Check /\ c.todo # <<>> /\ c.post = check[e].post
      <4>1. g \in Nat
        BY <2>3 DEF TypeOK, Ids
      <4>2. check[e].todo # <<>>
        BY <1>1, <1>5 DEF Govern
      <4>3. QED
        BY <1>1, <4>1, <4>2 DEF Check
    <3>2. check'[e] = Decide(c)
      BY <1>2, <2>3
    <3>3. check'[e].pc # "retried" /\ check'[e].post \in {check[e].post, NoAnswer}
      BY <3>1, <3>2, DecideForgets
    <3>4. QED
      BY <1>3, <3>3 DEF AnswersTrue
  <2>4. QED
    BY <2>1, <2>2, <2>3
<1>6. CASE RetryPost(e)
  <2>1. PICK a \in Answers :
           /\ Becomes(e, [check[e] EXCEPT !.pc = "retried", !.post = a])
           /\ firings' = [firings EXCEPT ![check[e].gov].landed = @ \/ a.landed]
    BY <1>6 DEF RetryPost
  <2>2. check'[e].post = a /\ check'[e].gov = check[e].gov
    BY <1>1, <1>2, <2>1 DEF Check
  <2>3. a.landed
    BY <2>2, AnswersType
  <2>4. check[e].gov \in 1 .. Len(firings) /\ firings[check[e].gov] \in Firing
    BY <1>6 DEF RetryPost, TypeOK, Ids
  <2>5. firings'[check[e].gov].landed
    <3> DEFINE g == check[e].gov
               f == [firings[g] EXCEPT !.landed = @ \/ a.landed]
    <3>1. f.landed /\ firings' = [firings EXCEPT ![g] = f]
      BY <2>1, <2>3, <2>4 DEF Firing
    <3>2. firings'[g] = f
      BY <2>4, <3>1 DEF TypeOK
    <3>3. QED
      BY <3>1, <3>2
  <2>6. QED
    BY <2>2, <2>3, <2>5
<1>7. CASE RetryCommit(e)
  <2>1. check'[e].pc # "retried" /\ check'[e].post \in {check[e].post, NoAnswer}
    BY <1>1, <1>2, <1>7, DecideForgets DEF RetryCommit
  <2>2. QED
    BY <1>3, <2>1 DEF AnswersTrue
<1>8. CASE Post(e)
  <2>1. PICK a \in Answers : Becomes(e, [check[e] EXCEPT !.pc = "posted", !.post = a])
    BY <1>8 DEF Post
  <2>2. check'[e].pc = "posted" /\ check'[e].post = a
    BY <1>1, <1>2, <2>1 DEF Check
  <2>3. QED
    BY <2>2, AnswersType
<1>9. CASE Persist(e)
  <2>1. check'[e].post = NoAnswer
    BY <1>1, <1>2, <1>9, NextRuleType DEF Persist
  <2>2. QED
    BY <1>3, <2>1
<1>10. QED
  BY <1>4, <1>5, <1>6, <1>7, <1>8, <1>9 DEF EvaluatorStep, Step

\* A delivered firing of the next state was delivered before, or is one whose retry
\* or whose own webhook has just been answered.
LEMMA DeliveredLanded ==
  ASSUME TypeOK, AnswersTrue, NEW e \in Evaluators, EvaluatorStep(e)
  PROVE  DeliveredMeansLanded'
<1>1. SUFFICES ASSUME NEW i \in DOMAIN firings', firings'[i].delivered
               PROVE  firings'[i].landed
  BY DEF DeliveredMeansLanded, Ids
<1>2. Kept
  BY FiringsKept DEF EvaluatorStep, Next
<1>3. \A j \in Ids : firings[j].delivered => firings'[j].landed
  BY <1>2 DEF Kept, Marks, AnswersTrue, DeliveredMeansLanded
<1>4. firings \in Seq(Firing)
  BY DEF TypeOK
<1>5. CASE UNCHANGED firings
  BY <1>1, <1>3, <1>5 DEF Ids
<1>6. CASE RetryPost(e)
  <2>1. PICK a \in Answers : firings' = [firings EXCEPT ![check[e].gov].landed = @ \/ a.landed]
    BY <1>6 DEF RetryPost
  <2>2. check[e].gov \in Ids /\ firings[check[e].gov] \in Firing
    BY <1>6 DEF RetryPost, TypeOK, Ids
  <2>3. i \in Ids
    BY <1>1, <1>4, <2>1 DEF Ids
  <2>4. firings'[i].delivered = firings[i].delivered
    BY <1>4, <2>1, <2>2, <2>3 DEF Ids, Firing
  <2>5. QED
    BY <1>1, <1>3, <2>3, <2>4
<1>7. CASE RetryCommit(e)
  <2> DEFINE g == check[e].gov
             f == [firings[g] EXCEPT !.delivered = @ \/ check[e].post.ok]
  <2>1. firings' = [firings EXCEPT ![g] = f]
    BY <1>7 DEF RetryCommit
  <2>2. g \in Ids /\ firings[g] \in Firing
    BY <1>7 DEF RetryCommit, TypeOK, Ids
  <2>3. i \in Ids
    BY <1>1, <1>4, <2>1 DEF Ids
  <2>4. CASE i # g
    <3>1. firings'[i] = firings[i]
      BY <1>4, <2>1, <2>2, <2>3, <2>4 DEF Ids
    <3>2. QED
      BY <1>1, <1>3, <2>3, <3>1
  <2>5. CASE i = g
    <3>1. firings'[g] = f
      BY <1>4, <2>1, <2>2 DEF Ids
    <3>2. f.delivered = (firings[g].delivered \/ check[e].post.ok) /\ f.landed = firings[g].landed
      BY <2>2 DEF Firing
    <3>3. CASE firings[g].delivered
      BY <1>3, <2>2, <2>5, <3>3
    <3>4. CASE check[e].post.ok
      BY <1>7, <2>5, <3>1, <3>2, <3>4 DEF RetryCommit, AnswersTrue
    <3>5. QED
      BY <1>1, <2>5, <3>1, <3>2, <3>3, <3>4
  <2>6. QED
    BY <2>4, <2>5
<1>8. CASE Persist(e)
  <2>1. firings' = Append(firings, Fired(e)) /\ Fired(e) \in Firing
    BY <1>8, FiredType DEF Persist, Fired
  <2>2. i \in Ids \/ i = Len(firings) + 1
    BY <1>1, <1>4, <2>1, AppendProperties DEF Ids
  <2>3. CASE i \in Ids
    <3>1. firings'[i] = firings[i]
      BY <1>4, <2>1, <2>3, AppendProperties DEF Ids
    <3>2. QED
      BY <1>1, <1>3, <2>3, <3>1
  <2>4. CASE i = Len(firings) + 1
    <3>1. firings'[i] = Fired(e)
      BY <1>4, <2>1, <2>4, AppendProperties
    <3>2. QED
      BY <1>1, <3>1 DEF Fired, AnswersTrue
  <2>5. QED
    BY <2>2, <2>3, <2>4
<1>9. CASE Begin(e) \/ Govern(e) \/ Post(e) \/ Abort(e)
  BY <1>5, <1>9 DEF Begin, Govern, Post, Abort
<1>10. QED
  BY <1>6, <1>7, <1>8, <1>9 DEF EvaluatorStep, Step

LEMMA AnswersStep ==
  ASSUME TypeOK, AnswersTrue, [Next]_vars
  PROVE  AnswersTrue'
<1>1. Kept
  BY FiringsKept
<1>2. ASSUME NEW e \in Evaluators, EvaluatorStep(e) PROVE AnswersTrue'
  <2>1. ASSUME NEW d \in Evaluators, check'[d].post.ok
        PROVE  /\ check'[d].post.landed
               /\ check'[d].pc = "retried" => firings'[check'[d].gov].landed
    <3>1. CASE d = e
      BY <1>2, <2>1, <3>1, OwnAnswer
    <3>2. CASE d # e
      <4>1. check'[d] = check[d]
        BY <1>2, <3>2, OthersKeep
      <4>2. check[d].pc = "retried" => check[d].gov \in Ids
        BY DEF TypeOK
      <4>3. QED
        BY <1>1, <2>1, <4>1, <4>2 DEF AnswersTrue, Kept, Marks
    <3>3. QED
      BY <3>1, <3>2
  <2>2. QED
    BY <1>2, <2>1, DeliveredLanded DEF AnswersTrue
<1>3. CASE Flip \/ Tick \/ UNCHANGED vars
  <2>1. UNCHANGED <<check, firings>>
    BY <1>3 DEF Flip, Tick, vars
  <2>2. QED
    BY <2>1 DEF AnswersTrue, DeliveredMeansLanded, Ids
<1>4. QED
  BY <1>2, <1>3, StepCases

\* "Delivered" in the audit trail is the truth for every firing of every evaluator: its
\* own webhook has arrived (alerts.py deliver_webhook, _retry_undelivered).
THEOREM DeliveryIsTrue == Safe => []DeliveredMeansLanded
<1>1. Init => AnswersTrue
  <2>1. SUFFICES ASSUME Init PROVE AnswersTrue
    OBVIOUS
  <2>2. DOMAIN firings = {} /\ \A e \in Evaluators : check[e].post = NoAnswer
    BY <2>1 DEF Init, Idle
  <2>3. QED
    BY <2>2, NoOk DEF AnswersTrue, DeliveredMeansLanded, Ids
<1>2. TypeOK /\ AnswersTrue /\ [Next]_vars => AnswersTrue'
  BY AnswersStep
<1>3. AnswersTrue => DeliveredMeansLanded
  BY DEF AnswersTrue
<1>4. QED
  BY <1>1, <1>2, <1>3, AlertTypes, PTL DEF Safe

-----------------------------------------------------------------------------
(* The cooldown.                                                           *)

\* A check about to fire is past the cooldown of all its own firings of the rule.
ClearToFire ==
    \A e \in Evaluators : check[e].pc \in {"post", "posted"} =>
        \A i \in Ids : /\ firings[i].rule = Head(check[e].todo)
                       /\ firings[i].by = e
                       => check[e].asOf >= firings[i].at + Cooldown

LEMMA FiringOf ==
  ASSUME TypeOK
  PROVE  \A i \in Ids : i # 0 /\ firings[i] \in Firing
<1>1. firings \in Seq(Firing)
  BY DEF TypeOK
<1>2. QED
  BY <1>1, ElementOfSeq, LenProperties DEF Ids

\* No firing of a rule is later than all its latest ones: their times are bounded.
LEMMA LatestExists ==
  ASSUME TypeOK, NEW k \in Ids
  PROVE  \E i \in Latest(firings[k].rule) : firings[k].at <= firings[i].at
<1> DEFINE Same == {i \in Ids : firings[i].rule = firings[k].rule}
           Left == {MaxTime - firings[i].at : i \in Same}
<1>1. \A i \in Ids : firings[i].at \in 0 .. MaxTime
  BY FiringOf DEF Firing
<1>2. Left \subseteq Nat /\ Left # {}
  BY <1>1, AlertConstants
<1>3. PICK m \in Left : \A n \in Left : ~(<<n, m>> \in OpToRel(<, Nat))
  <2> HIDE DEF Left
  <2>1. QED
    BY <1>2, NatLessThanWellFounded, WFMin
<1>4. \A n \in Left : m <= n
  <2>1. SUFFICES ASSUME NEW n \in Left PROVE m <= n
    OBVIOUS
  <2>2. n \in Nat /\ m \in Nat
    BY <1>2, <1>3
  <2>3. ~(n < m)
    <3> HIDE DEF Left
    <3>1. <<n, m>> \notin {ss \in Nat \X Nat : ss[1] < ss[2]}
      BY <1>3 DEF OpToRel
    <3>2. QED
      BY <2>2, <3>1
  <2>4. QED
    BY <2>2, <2>3
<1>5. PICK i \in Same : m = MaxTime - firings[i].at
  OBVIOUS
<1>6. \A j \in Same : firings[j].at <= firings[i].at
  <2>1. SUFFICES ASSUME NEW j \in Same PROVE firings[j].at <= firings[i].at
    OBVIOUS
  <2>2. m <= MaxTime - firings[j].at
    BY <1>4
  <2>3. QED
    BY <1>1, <1>5, <2>2, AlertConstants
<1>7. QED
  BY <1>6 DEF Latest

\* Where no firing governs, every firing of the rule is past its cooldown.
LEMMA NoneGoverns ==
  ASSUME TypeOK, NEW time \in Nat, NEW rule, 0 \in Governing(rule, time),
         NEW k \in Ids, firings[k].rule = rule
  PROVE  time >= firings[k].at + Cooldown
<1>1. \A i \in Ids : i # 0 /\ firings[i].at \in Nat
  BY FiringOf DEF Firing
<1>2. \A i \in Latest(rule) : i \in Ids /\ ~InCooldown(i, time)
  BY <1>1 DEF Governing, Latest
<1>3. PICK i \in Latest(rule) : firings[k].at <= firings[i].at
  BY LatestExists
<1>4. firings[i].at + Cooldown <= time
  BY <1>1, <1>2, AlertConstants DEF InCooldown
<1>5. QED
  BY <1>1, <1>2, <1>3, <1>4, AlertConstants

\* Only a check that stores its row adds a firing.
LEMMA NewFiring ==
  ASSUME TypeOK, NEW e \in Evaluators, EvaluatorStep(e), NEW i \in DOMAIN firings', i \notin Ids
  PROVE  Persist(e) /\ i = Len(firings) + 1 /\ firings'[i] = Fired(e)
<1>1. firings \in Seq(Firing)
  BY DEF TypeOK
<1>2. CASE RetryPost(e)
  BY <1>1, <1>2 DEF RetryPost, Ids
<1>3. CASE RetryCommit(e)
  BY <1>1, <1>3 DEF RetryCommit, Ids
<1>4. CASE Begin(e) \/ Govern(e) \/ Post(e) \/ Abort(e)
  BY <1>4 DEF Begin, Govern, Post, Abort, Ids
<1>5. CASE Persist(e)
  <2>1. firings' = Append(firings, Fired(e)) /\ Fired(e) \in Firing
    BY <1>5, FiredType DEF Persist, Fired
  <2>2. i = Len(firings) + 1
    BY <1>1, <2>1, AppendProperties DEF Ids
  <2>3. QED
    BY <1>1, <1>5, <2>1, <2>2, AppendProperties
<1>6. QED
  BY <1>2, <1>3, <1>4, <1>5 DEF EvaluatorStep, Step

LEMMA OwnClear ==
  ASSUME TypeOK, ClearToFire, NEW e \in Evaluators, EvaluatorStep(e),
         check'[e].pc \in {"post", "posted"}, NEW k \in Ids,
         firings[k].rule = Head(check'[e].todo), firings[k].by = e
  PROVE  check'[e].asOf >= firings[k].at + Cooldown
<1>1. check[e] \in Check /\ (check[e].pc # "idle" => check[e].todo # <<>>)
  BY DEF TypeOK
<1>2. \A c : Becomes(e, c) => check'[e] = c
  BY DEF Becomes, TypeOK
<1>3. CASE Govern(e)
  <2>1. PICK g \in Governing(Head(check[e].todo), check[e].asOf) :
           LET c == [check[e] EXCEPT !.gov = g]
           IN  \/ Becomes(e, [c EXCEPT !.pc = "retry"])
               \/ Becomes(e, Decide(c))
    BY <1>3 DEF Govern
  <2> DEFINE c == [check[e] EXCEPT !.gov = g]
  <2>2. g \in Nat
    BY GoverningType DEF TypeOK, Ids
  <2>3. /\ c \in Check /\ c.todo # <<>> /\ c.gov = g
        /\ c.todo = check[e].todo /\ c.asOf = check[e].asOf
    BY <1>1, <1>3, <2>2 DEF Check, Govern
  <2>4. check'[e] # [c EXCEPT !.pc = "retry"]
    BY <2>3 DEF Check
  <2>5. check'[e] = Decide(c)
    BY <1>2, <2>1, <2>4
  <2>6. Decide(c).pc = "post"
    BY <2>3, <2>5, DecideType
  <2>7. g = 0 /\ check'[e].todo = check[e].todo /\ check'[e].asOf = check[e].asOf
    BY <2>3, <2>5, <2>6, DecideType
  <2>8. check[e].asOf \in Nat
    BY <1>1 DEF Check
  <2>9. QED
    BY <2>1, <2>7, <2>8, NoneGoverns
<1>4. CASE RetryCommit(e)
  <2>1. check'[e] = Decide(check[e]) /\ check[e].gov # 0 /\ check[e].todo # <<>>
    BY <1>1, <1>2, <1>4 DEF RetryCommit, TypeOK, Ids
  <2>2. QED
    BY <1>1, <2>1, DecideType
<1>5. CASE Post(e)
  <2>1. PICK a : check'[e] = [check[e] EXCEPT !.pc = "posted", !.post = a]
    BY <1>2, <1>5 DEF Post
  <2>2. check'[e].todo = check[e].todo /\ check'[e].asOf = check[e].asOf
    BY <1>1, <2>1 DEF Check
  <2>3. QED
    BY <1>5, <2>2 DEF Post, ClearToFire
<1>6. CASE RetryPost(e)
  <2>1. PICK a : check'[e] = [check[e] EXCEPT !.pc = "retried", !.post = a]
    BY <1>2, <1>6 DEF RetryPost
  <2>2. QED
    BY <1>1, <2>1 DEF Check
<1>7. CASE Persist(e)
  <2>1. check'[e] = NextRule(check[e]) /\ check[e].todo # <<>>
    BY <1>1, <1>2, <1>7 DEF Persist
  <2>2. QED
    BY <1>1, <2>1, NextRuleType
<1>8. CASE Begin(e)
  <2>1. PICK fired \in SUBSET RuleSet :
           check'[e] = [Idle EXCEPT !.pc = "rule", !.todo = Rules, !.asOf = now, !.over = fired]
    BY <1>2, <1>8 DEF Begin
  <2>2. QED
    BY <2>1 DEF Idle
<1>9. CASE Abort(e)
  <2>1. check'[e] = Idle
    BY <1>2, <1>9 DEF Abort
  <2>2. QED
    BY <2>1 DEF Idle
<1>10. QED
  BY <1>3, <1>4, <1>5, <1>6, <1>7, <1>8, <1>9 DEF EvaluatorStep, Step

LEMMA ClearStep ==
  ASSUME TypeOK, ClearToFire, [Next]_vars
  PROVE  ClearToFire'
<1>1. Kept
  BY FiringsKept
<1>2. ASSUME NEW e \in Evaluators, EvaluatorStep(e) PROVE ClearToFire'
  <2>1. SUFFICES ASSUME NEW d \in Evaluators, check'[d].pc \in {"post", "posted"},
                        NEW i \in DOMAIN firings',
                        firings'[i].rule = Head(check'[d].todo), firings'[i].by = d
                 PROVE  check'[d].asOf >= firings'[i].at + Cooldown
    BY DEF ClearToFire, Ids
  <2>2. CASE i \in Ids
    <3>1. /\ firings'[i].rule = firings[i].rule
          /\ firings'[i].by = firings[i].by
          /\ firings'[i].at = firings[i].at
      BY <1>1, <2>2 DEF Kept, Marks
    <3>2. CASE d = e
      BY <1>2, <2>1, <2>2, <3>1, <3>2, OwnClear
    <3>3. CASE d # e
      <4>1. check'[d] = check[d]
        BY <1>2, <3>3, OthersKeep
      <4>2. QED
        BY <2>1, <2>2, <3>1, <4>1 DEF ClearToFire
    <3>4. QED
      BY <3>2, <3>3
  <2>3. CASE i \notin Ids
    <3>1. Persist(e) /\ firings'[i] = Fired(e)
      BY <1>2, <2>3, NewFiring
    <3>2. d = e
      BY <2>1, <3>1 DEF Fired
    <3>3. check'[e] = NextRule(check[e])
      BY <3>1 DEF Persist, Becomes, TypeOK
    <3>4. check'[e].pc \notin {"post", "posted"}
      BY <3>1, <3>3, NextRuleType DEF TypeOK, Persist
    <3>5. QED
      BY <2>1, <3>2, <3>4
  <2>4. QED
    BY <2>2, <2>3
<1>3. CASE Flip \/ Tick \/ UNCHANGED vars
  <2>1. UNCHANGED <<check, firings>>
    BY <1>3 DEF Flip, Tick, vars
  <2>2. QED
    BY <2>1 DEF ClearToFire, Ids
<1>4. QED
  BY <1>2, <1>3, StepCases

LEMMA SpacedStep ==
  ASSUME TypeOK, ClearToFire, OwnFiringsSpaced, [Next]_vars
  PROVE  OwnFiringsSpaced'
<1>1. Kept
  BY FiringsKept
<1>2. ASSUME NEW e \in Evaluators, EvaluatorStep(e) PROVE OwnFiringsSpaced'
  <2>1. SUFFICES ASSUME NEW i \in DOMAIN firings', NEW j \in DOMAIN firings', i < j,
                        firings'[i].rule = firings'[j].rule, firings'[i].by = firings'[j].by
                 PROVE  firings'[j].at >= firings'[i].at + Cooldown
    BY DEF OwnFiringsSpaced, Ids
  <2>2. \A k \in Ids : /\ firings'[k].rule = firings[k].rule
                       /\ firings'[k].by = firings[k].by
                       /\ firings'[k].at = firings[k].at
    BY <1>1 DEF Kept, Marks
  <2>3. CASE i \in Ids /\ j \in Ids
    BY <2>1, <2>2, <2>3 DEF OwnFiringsSpaced
  <2>4. CASE j \notin Ids
    <3>1. Persist(e) /\ j = Len(firings) + 1 /\ firings'[j] = Fired(e)
      BY <1>2, <2>4, NewFiring
    <3>2. i \in Ids
      BY <1>2, <2>1, <3>1, NewFiring
    <3>3. firings[i].rule = Head(check[e].todo) /\ firings[i].by = e /\ firings'[j].at = check[e].asOf
      BY <2>1, <2>2, <3>1, <3>2 DEF Fired
    <3>4. QED
      BY <2>2, <3>1, <3>2, <3>3 DEF ClearToFire, Persist
  <2>5. CASE i \notin Ids /\ j \in Ids
    <3>1. i = Len(firings) + 1
      BY <1>2, <2>5, NewFiring
    <3>2. j <= Len(firings) /\ Len(firings) \in Nat
      BY <2>5 DEF TypeOK, Ids
    <3>3. QED
      BY <2>1, <3>1, <3>2 DEF Ids
  <2>6. QED
    BY <2>3, <2>4, <2>5
<1>3. CASE Flip \/ Tick \/ UNCHANGED vars
  <2>1. UNCHANGED firings
    BY <1>3 DEF Flip, Tick, vars
  <2>2. QED
    BY <2>1 DEF OwnFiringsSpaced, Ids
<1>4. QED
  BY <1>2, <1>3, StepCases

\* One evaluator never fires a rule twice within the cooldown, however many others
\* store firings between its lookup and its own row, and over any crashes
\* (alerts.py check_alerts, _governing_firing).
THEOREM CooldownKept == Safe => []OwnFiringsSpaced
<1>1. Init => ClearToFire /\ OwnFiringsSpaced
  <2>1. SUFFICES ASSUME Init PROVE ClearToFire /\ OwnFiringsSpaced
    OBVIOUS
  <2>2. DOMAIN firings = {}
    BY <2>1 DEF Init
  <2>3. QED
    BY <2>2 DEF ClearToFire, OwnFiringsSpaced, Ids
<1>2. TypeOK /\ ClearToFire /\ OwnFiringsSpaced /\ [Next]_vars
        => ClearToFire' /\ OwnFiringsSpaced'
  BY ClearStep, SpacedStep
<1>3. QED
  BY <1>1, <1>2, AlertTypes, PTL DEF Safe
=============================================================================
