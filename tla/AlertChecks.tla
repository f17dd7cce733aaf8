----------------------------- MODULE AlertChecks ----------------------------
(***************************************************************************)
(* Alert evaluation: check_alerts of alerts.py, the one path behind        *)
(* `ledgerlm alerts check` and the dashboard's background tick.            *)
(*                                                                         *)
(* A check reads the clock and the rules' verdicts once, then goes through *)
(* the rules.  For each it looks up the firing that governs the cooldown,  *)
(* retries that one's webhook if it was not delivered (D25), and for a new *)
(* firing posts the webhook first and stores the row afterwards.  Another  *)
(* evaluator, a crash or a failed commit can come between any two steps.   *)
(*                                                                         *)
(* The spend behind a verdict is left out (module SpendRules has it): a    *)
(* check may find any rule over or under its threshold.                    *)
(***************************************************************************)
EXTENDS Naturals, Sequences, FiniteSets

CONSTANTS Evaluators,   \* who runs checks: cron jobs, the dashboard loop
          Looping,      \* those that check again by themselves: the dashboard
          Rules,        \* the rules configured, in the order they are evaluated
          Webhook,      \* a webhook_url is configured
          Cooldown,     \* cooldown_minutes
          MaxTime,      \* bound on the clock
          MaxFaults     \* bound on crashes and failed commits

ASSUME AlertConstants == /\ Looping \subseteq Evaluators
                         /\ Rules \in Seq(STRING) /\ Rules # <<>>
                         /\ Webhook \in BOOLEAN
                         /\ Cooldown \in Nat /\ MaxTime \in Nat /\ MaxFaults \in Nat

VARIABLES check,     \* the check each evaluator is running
          firings,   \* the rows of alert_firings; landed and by are history
          up,        \* the webhook's receiver is reachable
          now,
          faults     \* crashes and failed commits so far

vars == <<check, firings, up, now, faults>>

Ids == DOMAIN firings
RuleSet == {Rules[i] : i \in DOMAIN Rules}

NoAnswer == [landed |-> FALSE, ok |-> FALSE]

\* A check: where it is, the rules it has yet to handle (the current one first),
\* its `now`, the rules whose verdict was "fired", the governing firing it loaded
\* (0 for none) and what came of its last POST.
Idle == [pc |-> "idle", todo |-> <<>>, asOf |-> 0, over |-> {}, gov |-> 0, post |-> NoAnswer]

Becomes(e, c) == check' = [check EXCEPT ![e] = c]

Init == /\ check = [e \in Evaluators |-> Idle]
        /\ firings = <<>>
        /\ up \in BOOLEAN
        /\ now = 0
        /\ faults = 0

\* evaluate_rules: one reading of the clock and of the spend for all rules.
Begin(e) == /\ check[e].pc = "idle"
            /\ \E fired \in SUBSET RuleSet :
                  Becomes(e, [Idle EXCEPT !.pc = "rule", !.todo = Rules,
                                          !.asOf = now, !.over = fired])
            /\ UNCHANGED <<firings, up, now, faults>>

\* Go on to the next rule, or end the check after the last.
MutNextRuleOnePast(c) ==
    IF c.todo # <<>>
    THEN [Idle EXCEPT !.pc = "rule", !.todo = Tail(c.todo), !.asOf = c.asOf, !.over = c.over]
    ELSE Idle

NextRule(c) ==
    IF Len(c.todo) > 1
    THEN [Idle EXCEPT !.pc = "rule", !.todo = Tail(c.todo), !.asOf = c.asOf, !.over = c.over]
    ELSE Idle

\* ORDER BY fired_at DESC LIMIT 1: any of the latest when several tie.
Latest(rule) ==
    {i \in Ids : /\ firings[i].rule = rule
                 /\ \A j \in Ids : firings[j].rule = rule => firings[j].at <= firings[i].at}

\* The latest firing governs while the check's clock is inside its cooldown.
MutInCooldownIfDelivered(i, time) ==
    firings[i].delivered /\ time < firings[i].at + Cooldown
InCooldown(i, time) == time < firings[i].at + Cooldown

Governing(rule, time) ==
    LET live == {i \in Latest(rule) : InCooldown(i, time)}
    IN  IF live = {} THEN {0} ELSE live

\* What follows the lookup and the retry: no alert, a suppressed one or a new one.
Decide(c) == IF Head(c.todo) \in c.over /\ c.gov = 0 THEN [c EXCEPT !.pc = "post"]
                                                     ELSE NextRule(c)

MutGovernRetriesSuppressedOnly(e) ==
    /\ check[e].pc = "rule"
    /\ \E g \in Governing(Head(check[e].todo), check[e].asOf) :
          LET c == [check[e] EXCEPT !.gov = g]
          IN  IF g # 0 /\ ~firings[g].delivered /\ Webhook /\ Head(c.todo) \in c.over
              THEN Becomes(e, [c EXCEPT !.pc = "retry"])
              ELSE Becomes(e, Decide(c))
    /\ UNCHANGED <<firings, up, now, faults>>

Govern(e) ==
    /\ check[e].pc = "rule"
    /\ \E g \in Governing(Head(check[e].todo), check[e].asOf) :
          LET c == [check[e] EXCEPT !.gov = g]
          IN  IF g # 0 /\ ~firings[g].delivered /\ Webhook
              THEN Becomes(e, [c EXCEPT !.pc = "retry"])
              ELSE Becomes(e, Decide(c))
    /\ UNCHANGED <<firings, up, now, faults>>

\* deliver_webhook: with the receiver down the POST fails, but it may be the
\* answer that was lost.
Answers == IF ~Webhook THEN {NoAnswer}
           ELSE IF up  THEN {[landed |-> TRUE, ok |-> TRUE]}
                       ELSE {[landed |-> b, ok |-> FALSE] : b \in BOOLEAN}

RetryPost(e) ==
    /\ check[e].pc = "retry"
    /\ \E a \in Answers :
          /\ Becomes(e, [check[e] EXCEPT !.pc = "retried", !.post = a])
          /\ firings' = [firings EXCEPT ![check[e].gov].landed = @ \/ a.landed]
    /\ UNCHANGED <<up, now, faults>>

\* The row was loaded undelivered, so only a success is an UPDATE of the column:
\* a failed retry does not undo another evaluator's delivery.
MutRetryCommitOverwrites(e) ==
    /\ check[e].pc = "retried"
    /\ firings' = [firings EXCEPT ![check[e].gov].delivered = check[e].post.ok]
    /\ Becomes(e, Decide(check[e]))
    /\ UNCHANGED <<up, now, faults>>

RetryCommit(e) ==
    /\ check[e].pc = "retried"
    /\ firings' = [firings EXCEPT ![check[e].gov].delivered = @ \/ check[e].post.ok]
    /\ Becomes(e, Decide(check[e]))
    /\ UNCHANGED <<up, now, faults>>

\* The new firing's webhook goes out before its row exists.
Post(e) ==
    /\ check[e].pc = "post"
    /\ \E a \in Answers : Becomes(e, [check[e] EXCEPT !.pc = "posted", !.post = a])
    /\ UNCHANGED <<firings, up, now, faults>>

MutPersistDelivered(e) ==
    /\ check[e].pc = "posted"
    /\ firings' = Append(firings, [rule |-> Head(check[e].todo), at |-> check[e].asOf,
                                   delivered |-> Webhook,
                                   landed |-> check[e].post.landed, by |-> e])
    /\ Becomes(e, NextRule(check[e]))
    /\ UNCHANGED <<up, now, faults>>

Persist(e) ==
    /\ check[e].pc = "posted"
    /\ firings' = Append(firings, [rule |-> Head(check[e].todo), at |-> check[e].asOf,
                                   delivered |-> check[e].post.ok,
                                   landed |-> check[e].post.landed, by |-> e])
    /\ Becomes(e, NextRule(check[e]))
    /\ UNCHANGED <<up, now, faults>>

\* The process dies, or a statement or commit raises and ends the check: cron and
\* the dashboard loop both come back with a new one.  A webhook that went out for a
\* row not yet stored has left no trace.
Abort(e) == /\ check[e].pc # "idle" /\ faults < MaxFaults
            /\ faults' = faults + 1
            /\ Becomes(e, Idle)
            /\ UNCHANGED <<firings, up, now>>

Flip == /\ up' = ~up
        /\ UNCHANGED <<check, firings, now, faults>>

Tick == /\ now < MaxTime
        /\ now' = now + 1
        /\ UNCHANGED <<check, firings, up, faults>>

Step(e) == Govern(e) \/ RetryPost(e) \/ RetryCommit(e) \/ Post(e) \/ Persist(e)

Next == \/ \E e \in Evaluators : Begin(e) \/ Step(e) \/ Abort(e)
        \/ Flip
        \/ Tick

\* A check that began goes on (the POST has a timeout), and the dashboard loop
\* begins another one after its sleep.  A cron job need never run again.
Fairness == /\ \A e \in Evaluators : WF_vars(Step(e))
            /\ \A e \in Looping : WF_vars(Begin(e))

Safe == Init /\ [][Next]_vars
Spec == Safe /\ Fairness

-----------------------------------------------------------------------------
(* Properties.                                                             *)

Labels  == {"idle", "rule", "retry", "retried", "post", "posted"}
Answer  == [landed : BOOLEAN, ok : BOOLEAN]
Firing  == [rule : RuleSet, at : 0 .. MaxTime, delivered : BOOLEAN,
            landed : BOOLEAN, by : Evaluators]
Check   == [pc : Labels, todo : Seq(RuleSet), asOf : 0 .. MaxTime, over : SUBSET RuleSet,
            gov : Nat, post : Answer]

\* The shape of the state; a running check has a rule in hand, and one that retries
\* has an existing firing of that rule to retry.
TypeOK == /\ check \in [Evaluators -> Check]
          /\ \A e \in Evaluators : check[e].pc # "idle" => check[e].todo # <<>>
          /\ \A e \in Evaluators :
                check[e].pc \in {"retry", "retried"} =>
                    /\ check[e].gov \in Ids
                    /\ firings[check[e].gov].rule = Head(check[e].todo)
          /\ firings \in Seq(Firing)
          /\ up \in BOOLEAN
          /\ now \in 0 .. MaxTime
          /\ faults \in 0 .. MaxFaults

\* One evaluator never fires a rule twice within a cooldown, over any crashes and
\* whatever other evaluators store meanwhile; n evaluators racing each other
\* (README.md warns of two) therefore fire at most n times.
OwnFiringsSpaced ==
    \A i, j \in Ids :
        /\ i < j
        /\ firings[i].rule = firings[j].rule
        /\ firings[i].by = firings[j].by
        => firings[j].at >= firings[i].at + Cooldown

\* The delivery audit trail is true: delivered means that the webhook of this very
\* firing has arrived.
DeliveredMeansLanded == \A i \in Ids : firings[i].delivered => firings[i].landed

\* Firings are an append-only record and a delivery is never taken back, not even
\* by a slower evaluator whose own retry failed.
FiringsOnlyGrow ==
    [][/\ Len(firings') >= Len(firings)
       /\ \A i \in Ids : /\ firings'[i].at = firings[i].at
                         /\ firings[i].delivered => firings'[i].delivered]_vars

\* The firings of a rule at some time that have not been delivered.
Undelivered(rule, time) == {i \in Ids : /\ firings[i].rule = rule
                                        /\ firings[i].at = time
                                        /\ ~firings[i].delivered}

\* The firing of a rule at some time is the one that every check finds governing.
Governs(rule, time) == \A i \in Ids : firings[i].rule = rule /\ firings[i].at = time =>
                                          Latest(rule) = {i} /\ InCooldown(i, now)

\* While an evaluator keeps checking, the receiver is reachable and the firing still
\* governs its rule, an undelivered firing is delivered in the end, whether or not
\* the rule is still over its threshold.
GetsThrough ==
    \A rule \in RuleSet, time \in 0 .. MaxTime :
        <>[](up /\ Governs(rule, time)) =>
            (Undelivered(rule, time) # {} ~> Undelivered(rule, time) = {})

\* "An undelivered firing is retried once per subsequent check until it lands"
\* (check_alerts, D25): with an evaluator that keeps checking and a receiver that
\* stays reachable, every firing is delivered in the end.
RetriedUntilLanded ==
    \A rule \in RuleSet, time \in 0 .. MaxTime :
        <>[]up => (Undelivered(rule, time) # {} ~> Undelivered(rule, time) = {})
=============================================================================
