------------------------- MODULE WrappedCallProofs --------------------------
(***************************************************************************)
(* Proofs about WrappedCall for any set of kinds of call and any bound on  *)
(* the clock.                                                              *)
(*                                                                         *)
(* TypeOK is inductive by itself.  On top of it, one invariant for each    *)
(* property:                                                               *)
(*   - Single: the flag _finished and the threads past its check say how   *)
(*     many attempts at an event there have been (OneEventPerCall);        *)
(*   - Ended: what a thread past the check is about to record agrees with  *)
(*     how the stream has ended (StatusFaithful);                          *)
(*   - Used: the collector holds the usage of what the wrapper has taken   *)
(*     (UsageFaithful);                                                    *)
(*   - Timed: what the first-token time, and each thread past the check of *)
(*     _finished, knows of the content taken and delivered so far          *)
(*     (FirstTokenFaithful);                                               *)
(*   - Relayed: what has been delivered is what has been taken, less the   *)
(*     event _handle is at and the swallowed chunk (CallerStreamUntouched). *)
(* Used and Relayed, and the first part of Timed, hold even for threads    *)
(* that share a stream.                                                    *)
(***************************************************************************)
EXTENDS WrappedCall, SequenceTheorems, TLAPS

\* What no step changes.
Fixed == UNCHANGED <<call, script>>

LEMMA StepCases ==
  ASSUME [Next]_vars
  PROVE  \/ PlainReturns \/ PlainRaises \/ Open \/ OpenRaises
         \/ Pull \/ PullEvent \/ Stamp \/ HandOver \/ PullStops \/ PullRaises
         \/ Close \/ ExitRaising \/ CloseSdk \/ CloseInner \/ Forget
         \/ SetFinished \/ ReadLatency \/ ReadFirst \/ Finishing
         \/ HelperTakes \/ HelperExit
         \/ Tick \/ UNCHANGED vars
BY DEF Next, Over

LEMMA NothingMoves ==
  ASSUME UNCHANGED vars
  PROVE  UNCHANGED <<call, script, pos, phase, pulling, saw, delivered, closing, closed, known,
                     completed, first, finished, pend, events, unbuilt, now>>
BY DEF vars, streamVars, collectorVars, finishVars, eventVars

-----------------------------------------------------------------------------
(* Types.                                                                  *)

Records == [status : Statuses, usage : SUBSET Whole, first : 0 .. MaxTime \cup {None},
            latency : 0 .. MaxTime, got : Seq(EventTypes), taken : Nat,
            ended : {None, "stop", "raise"}]

Pending == [by : {"consumer", "closer"}, status : Statuses, at : Steps,
            latency : 0 .. MaxTime, first : 0 .. MaxTime \cup {None}, got : Seq(EventTypes)]

LEMMA KindType ==
  ASSUME NEW k \in Kinds
  PROVE  /\ k.api \in Apis
         /\ k.style \in {"sync", "async", "threads"}
BY CallConstants DEF Apis

LEMMA ShortSeqs ==
  ASSUME NEW S, NEW a \in S, NEW b \in S, NEW c \in S, NEW d \in S
  PROVE  /\ <<a>> \in Seq(S) /\ Len(<<a>>) \in Nat
         /\ <<a, b>> \in Seq(S) /\ Len(<<a, b>>) \in Nat
         /\ <<a, b, c>> \in Seq(S) /\ Len(<<a, b, c>>) \in Nat
         /\ <<a, b, c, d>> \in Seq(S) /\ Len(<<a, b, c, d>>) \in Nat
OBVIOUS

LEMMA ScriptType ==
  ASSUME NEW api \in Apis, NEW s \in Scripts(api)
  PROVE  s \in Seq(EventTypes) /\ Len(s) \in Nat
<1>1. api \in {"anthropic", "chat", "responses"}
  BY DEF Apis
<1>2. CASE api = "anthropic"
  <2>1. s \in {<<"message_start", "content", "message_delta", "message_stop">>,
              <<"message_start", "message_delta", "message_stop">>}
    BY <1>2 DEF Scripts
  <2>2. <<"message_start", "content", "message_delta", "message_stop">> \in Seq(EventTypes) /\ Len(<<"message_start", "content", "message_delta", "message_stop">>) \in Nat
    BY ShortSeqs DEF EventTypes
  <2>3. <<"message_start", "message_delta", "message_stop">> \in Seq(EventTypes) /\ Len(<<"message_start", "message_delta", "message_stop">>) \in Nat
    BY ShortSeqs DEF EventTypes
  <2>4. QED
    BY <2>1, <2>2, <2>3
<1>3. CASE api = "chat"
  <2>1. s \in {<<"chunk", "usage_chunk">>,
              <<"chunk", "chunk_with_usage">>,
              <<"chunk">>}
    BY <1>3 DEF Scripts
  <2>2. <<"chunk", "usage_chunk">> \in Seq(EventTypes) /\ Len(<<"chunk", "usage_chunk">>) \in Nat
    BY ShortSeqs DEF EventTypes
  <2>3. <<"chunk", "chunk_with_usage">> \in Seq(EventTypes) /\ Len(<<"chunk", "chunk_with_usage">>) \in Nat
    BY ShortSeqs DEF EventTypes
  <2>4. <<"chunk">> \in Seq(EventTypes) /\ Len(<<"chunk">>) \in Nat
    BY ShortSeqs DEF EventTypes
  <2>5. QED
    BY <2>1, <2>2, <2>3, <2>4
<1>4. CASE api = "responses"
  <2>1. s \in {<<"created", "text_delta", "completed">>,
              <<"created", "incomplete">>}
    BY <1>4 DEF Scripts
  <2>2. <<"created", "text_delta", "completed">> \in Seq(EventTypes) /\ Len(<<"created", "text_delta", "completed">>) \in Nat
    BY ShortSeqs DEF EventTypes
  <2>3. <<"created", "incomplete">> \in Seq(EventTypes) /\ Len(<<"created", "incomplete">>) \in Nat
    BY ShortSeqs DEF EventTypes
  <2>4. QED
    BY <2>1, <2>2, <2>3
<1>5. QED
  BY <1>1, <1>2, <1>3, <1>4

LEMMA CarriesType == \A e : Carries(e) \subseteq Whole
BY DEF Carries, Whole

\* An attempt made now, and the event it leaves, are records of the right shape.
LEMMA AttemptType ==
  ASSUME TypeOK, NEW by \in {"consumer", "closer"}, NEW status \in Statuses
  PROVE  /\ Attempt(by, status) \in Pending
         /\ Attempt(by, status).by = by /\ Attempt(by, status).status = status
         /\ Attempt(by, status).at = "checked" /\ Attempt(by, status).latency = now
         /\ Attempt(by, status).first = None /\ Attempt(by, status).got = delivered
BY DEF TypeOK, Attempt, Pending, Steps

LEMMA EventType ==
  ASSUME TypeOK, NEW p \in Pending, NEW usage \in SUBSET Whole
  PROVE  /\ Event(p, usage) \in Records
         /\ Event(p, usage).status = p.status /\ Event(p, usage).usage = usage
         /\ Event(p, usage).first = p.first /\ Event(p, usage).latency = p.latency
         /\ Event(p, usage).got = p.got /\ Event(p, usage).taken = pos
         /\ Event(p, usage).ended = saw
<1>1. /\ p.status \in Statuses /\ p.first \in 0 .. MaxTime \cup {None}
      /\ p.latency \in 0 .. MaxTime /\ p.got \in Seq(EventTypes)
  BY DEF Pending
<1>2. pos \in Nat /\ saw \in {None, "stop", "raise"}
  BY KindType, ScriptType DEF TypeOK
<1>3. QED
  BY <1>1, <1>2 DEF Event, Records

\* A call of _finish takes one of its three steps before the event is made.
Advances(p, q) ==
    /\ p \in pend /\ pend' = (pend \ {p}) \cup {q}
    /\ q.by = p.by /\ q.status = p.status /\ q.got = p.got
    /\ UNCHANGED <<call, script, pos, phase, pulling, saw, delivered, closing, closed, known,
                   completed, first, events, unbuilt, now>>

LEMMA FlagSet ==
  ASSUME TypeOK, SetFinished
  PROVE  \E p \in Pending, q \in Pending :
            /\ Advances(p, q) /\ finished' = TRUE
            /\ p.at = "checked" /\ q.at = "flagged" /\ q.latency = p.latency /\ q.first = p.first
<1>1. PICK p \in pend : /\ p.at = "checked"
                        /\ finished' = TRUE
                        /\ pend' = (pend \ {p}) \cup {[p EXCEPT !.at = "flagged"]}
  BY DEF SetFinished, Becomes
<1>2. p \in Pending
  BY DEF TypeOK, Pending
<1>3. PICK q : q = [p EXCEPT !.at = "flagged"]
  OBVIOUS
<1>4. /\ q \in Pending /\ q.by = p.by /\ q.status = p.status /\ q.got = p.got
      /\ q.at = "flagged" /\ q.latency = p.latency /\ q.first = p.first
  BY <1>2, <1>3 DEF Pending, Steps
<1>5. UNCHANGED <<call, script, pos, phase, pulling, saw, delivered, closing, closed, known,
                  completed, first, events, unbuilt, now>>
  BY DEF SetFinished, streamVars, collectorVars, eventVars
<1>6. Advances(p, q)
  BY <1>1, <1>3, <1>4, <1>5 DEF Advances
<1>7. QED
  BY <1>1, <1>2, <1>4, <1>6

LEMMA LatencyRead ==
  ASSUME TypeOK, ReadLatency
  PROVE  \E p \in Pending, q \in Pending :
            /\ Advances(p, q) /\ finished' = finished
            /\ p.at = "flagged" /\ q.at = "timed" /\ q.latency = now /\ q.first = p.first
<1>1. PICK p \in pend : /\ p.at = "flagged"
                        /\ pend' = (pend \ {p}) \cup
                                       {[p EXCEPT !.at = "timed", !.latency = now]}
  BY DEF ReadLatency, Becomes
<1>2. p \in Pending /\ now \in 0 .. MaxTime
  BY DEF TypeOK, Pending
<1>3. PICK q : q = [p EXCEPT !.at = "timed", !.latency = now]
  OBVIOUS
<1>4. /\ q \in Pending /\ q.by = p.by /\ q.status = p.status /\ q.got = p.got
      /\ q.at = "timed" /\ q.latency = now /\ q.first = p.first
  BY <1>2, <1>3 DEF Pending, Steps
<1>5. UNCHANGED <<call, script, pos, phase, pulling, saw, delivered, closing, closed, known,
                  completed, first, events, unbuilt, now, finished>>
  BY DEF ReadLatency, streamVars, collectorVars, eventVars
<1>6. Advances(p, q)
  BY <1>1, <1>3, <1>4, <1>5 DEF Advances
<1>7. QED
  BY <1>1, <1>2, <1>4, <1>5, <1>6

LEMMA FirstRead ==
  ASSUME TypeOK, ReadFirst
  PROVE  \E p \in Pending, q \in Pending :
            /\ Advances(p, q) /\ finished' = finished
            /\ p.at = "timed" /\ q.at = "read" /\ q.latency = p.latency /\ q.first = first
<1>1. PICK p \in pend : /\ p.at = "timed"
                        /\ pend' = (pend \ {p}) \cup {[p EXCEPT !.at = "read", !.first = first]}
  BY DEF ReadFirst, Becomes
<1>2. p \in Pending /\ first \in 0 .. MaxTime \cup {None}
  BY DEF TypeOK, Pending
<1>3. PICK q : q = [p EXCEPT !.at = "read", !.first = first]
  OBVIOUS
<1>4. /\ q \in Pending /\ q.by = p.by /\ q.status = p.status /\ q.got = p.got
      /\ q.at = "read" /\ q.latency = p.latency /\ q.first = first
  BY <1>2, <1>3 DEF Pending, Steps
<1>5. UNCHANGED <<call, script, pos, phase, pulling, saw, delivered, closing, closed, known,
                  completed, first, events, unbuilt, now, finished>>
  BY DEF ReadFirst, streamVars, collectorVars, eventVars
<1>6. Advances(p, q)
  BY <1>1, <1>3, <1>4, <1>5 DEF Advances
<1>7. QED
  BY <1>1, <1>2, <1>4, <1>5, <1>6

\* And the last one, which makes the event.
LEMMA Finished ==
  ASSUME TypeOK, Finishing
  PROVE  \E p \in Pending :
            /\ p \in pend /\ p.at = "read" /\ pend' = pend \ {p}
            /\ Emit(Event(p, known)) /\ Event(p, known) \in Records
            /\ UNCHANGED <<call, script, pos, phase, pulling, saw, delivered, closing, closed,
                           known, completed, first, finished, now>>
<1>1. PICK p \in pend : p.at = "read" /\ pend' = pend \ {p} /\ Emit(Event(p, known))
  BY DEF Finishing
<1>2. p \in Pending /\ known \in SUBSET Whole
  BY DEF TypeOK, Pending
<1>3. Event(p, known) \in Records
  BY <1>2, EventType
<1>4. UNCHANGED <<call, script, pos, phase, pulling, saw, delivered, closing, closed, known,
                  completed, first, finished, now>>
  BY DEF Finishing, streamVars, collectorVars
<1>5. QED
  BY <1>1, <1>2, <1>3, <1>4

\* An event that is not a raw stream's is made in one step.
LEMMA MadeAtOnce ==
  ASSUME TypeOK, PlainReturns \/ PlainRaises \/ HelperExit
  PROVE  \E p \in Pending, usage \in SUBSET Whole :
            /\ Emit(Event(p, usage)) /\ Event(p, usage) \in Records
            /\ p.first = None /\ p.got = delivered
            /\ \/ /\ Mode = "plain" /\ phase = "new" /\ phase' \in {"gone", "raised"}
                  /\ p.status \in {"ok", "error"} /\ finished' = finished
               \/ /\ Mode = "helper" /\ phase = "open" /\ phase' = "gone" /\ usage = known
                  /\ p.status = "ok" => completed
                  /\ finished' = TRUE
            /\ UNCHANGED <<call, script, pos, pulling, saw, delivered, closing, closed, known,
                           completed, first, pend, now>>
<1> USE DEF streamVars, collectorVars
<1>1. CASE PlainReturns
  <2>1. PICK p \in Pending : p = Attempt("consumer", "ok")
    BY AttemptType DEF Statuses
  <2>2. p.first = None /\ p.got = delivered /\ p.status = "ok" /\ Whole \in SUBSET Whole
    BY <2>1, AttemptType DEF Statuses
  <2>3. Emit(Event(p, Whole)) /\ Event(p, Whole) \in Records
    BY <1>1, <2>1, <2>2, EventType DEF PlainReturns
  <2>4. QED
    BY <1>1, <2>2, <2>3 DEF PlainReturns
<1>2. CASE PlainRaises
  <2>1. PICK p \in Pending : p = Attempt("consumer", "error")
    BY AttemptType DEF Statuses
  <2>2. p.first = None /\ p.got = delivered /\ p.status = "error" /\ {} \in SUBSET Whole
    BY <2>1, AttemptType DEF Statuses
  <2>3. Emit(Event(p, {})) /\ Event(p, {}) \in Records
    BY <1>2, <2>1, <2>2, EventType DEF PlainRaises
  <2>4. QED
    BY <1>2, <2>2, <2>3 DEF PlainRaises
<1>3. CASE HelperExit
  <2>1. PICK status \in Statuses : /\ Emit(Event(Attempt("consumer", status), known))
                                   /\ status = "ok" => completed
    BY <1>3 DEF HelperExit, Statuses
  <2>2. PICK p \in Pending : p = Attempt("consumer", status)
    BY AttemptType
  <2>3. /\ p.first = None /\ p.got = delivered /\ p.status = status
        /\ known \in SUBSET Whole
    BY <2>2, AttemptType DEF TypeOK
  <2>4. Emit(Event(p, known)) /\ Event(p, known) \in Records
    BY <2>1, <2>2, <2>3, EventType
  <2>5. Mode = "helper" /\ phase = "open" /\ phase' = "gone" /\ finished' = TRUE
    BY <1>3 DEF HelperExit, Helper
  <2>6. UNCHANGED <<call, script, pos, pulling, saw, delivered, closing, closed, known,
                    completed, first, pend, now>>
    BY <1>3 DEF HelperExit
  <2>7. QED
    BY <2>1, <2>3, <2>4, <2>5, <2>6
<1>4. QED
  BY <1>1, <1>2, <1>3

LEMMA EmitType ==
  ASSUME TypeOK, NEW e \in Records, Emit(e)
  PROVE  events' \in Seq(Records) /\ unbuilt' \in Nat
<1>1. events \in Seq(Records) /\ unbuilt \in Nat
  BY DEF TypeOK, Records
<1>2. QED
  BY <1>1, AppendProperties DEF Emit

LEMMA FinishType ==
  ASSUME TypeOK, NEW by \in {"consumer", "closer"}, NEW status \in Statuses, Finish(by, status)
  PROVE  pend' \subseteq Pending
BY AttemptType DEF TypeOK, Finish, Pending

LEMMA TypeInit == Init => TypeOK
<1> SUFFICES ASSUME Init PROVE TypeOK
  OBVIOUS
<1>1. Len(script) \in Nat
  BY KindType, ScriptType DEF Init
<1>2. 0 \in 0 .. MaxTime /\ 0 \in 0 .. Len(script)
  BY <1>1, CallConstants
<1>3. <<>> \in Seq(EventTypes) /\ events \in Seq(Records)
  BY DEF Init
<1>4. QED
  BY <1>2, <1>3 DEF Init, TypeOK, Records, Handling

\* One more event of the script is taken.
LEMMA TakeType ==
  ASSUME TypeOK, pos < Len(script)
  PROVE  /\ script[pos + 1] \in EventTypes /\ pos + 1 > 0
         /\ pos + 1 \in 0 .. Len(script)
         /\ Append(delivered, script[pos + 1]) \in Seq(EventTypes)
         /\ known \cup Carries(script[pos + 1]) \subseteq Whole
<1>1. script \in Seq(EventTypes) /\ Len(script) \in Nat
  BY KindType, ScriptType DEF TypeOK
<1>2. pos \in 0 .. Len(script) /\ pos + 1 \in 1 .. Len(script)
  BY <1>1 DEF TypeOK
<1>3. script[pos + 1] \in EventTypes
  BY <1>1, <1>2, ElementOfSeq
<1>4. QED
  BY <1>1, <1>2, <1>3, CarriesType DEF TypeOK

LEMMA TypeStep ==
  ASSUME TypeOK, [Next]_vars
  PROVE  TypeOK'
<1> USE DEF streamVars, collectorVars, finishVars, eventVars
<1>1. CASE PlainReturns \/ PlainRaises \/ HelperExit
  <2>1. PICK p \in Pending, usage \in SUBSET Whole :
            /\ Emit(Event(p, usage)) /\ Event(p, usage) \in Records
            /\ phase' \in {"gone", "raised"} /\ finished' \in BOOLEAN
            /\ UNCHANGED <<call, script, pos, pulling, saw, delivered, closing, closed, known,
                           completed, first, pend, now>>
    BY <1>1, MadeAtOnce DEF TypeOK
  <2>2. events' \in Seq(Records) /\ unbuilt' \in Nat
    BY <2>1, EmitType
  <2>3. Handling' = Handling
    BY <2>1 DEF Handling
  <2>4. QED
    BY <2>1, <2>2, <2>3 DEF TypeOK, Records
<1>2. CASE Open \/ OpenRaises
  BY <1>2 DEF TypeOK, Open, OpenRaises, Handling
<1>3. CASE Pull
  BY <1>3 DEF TypeOK, Pull, Handling
<1>4. CASE PullEvent
  <2>1. pos' \in 0 .. Len(script) /\ pos' > 0 /\ known' \subseteq Whole
    BY <1>4, TakeType DEF PullEvent, TypeOK
  <2>2. completed' \in BOOLEAN /\ pulling' = "observed"
    BY <1>4 DEF PullEvent, TypeOK
  <2>3. UNCHANGED <<call, script, phase, saw, delivered, closing, closed, first, finished, pend,
                    events, unbuilt, now>>
    BY <1>4 DEF PullEvent
  <2>4. QED
    BY <2>1, <2>2, <2>3 DEF TypeOK
<1>5. CASE Stamp
  <2>1. first' \in 0 .. MaxTime \cup {None}
    BY <1>5 DEF Stamp, TypeOK
  <2>2. pulling' = "stamped" /\ pos > 0
    BY <1>5 DEF Stamp, TypeOK, Handling
  <2>3. UNCHANGED <<call, script, phase, pos, saw, delivered, closing, closed, known, completed,
                    finished, pend, events, unbuilt, now>>
    BY <1>5 DEF Stamp
  <2>4. QED
    BY <2>1, <2>2, <2>3 DEF TypeOK
<1>6. CASE HandOver
  <2>1. script[pos] \in EventTypes /\ delivered \in Seq(EventTypes)
    <3>1. script \in Seq(EventTypes) /\ Len(script) \in Nat
      BY KindType, ScriptType DEF TypeOK
    <3>2. pos \in 1 .. Len(script)
      BY <1>6, <3>1 DEF HandOver, TypeOK, Handling
    <3>3. QED
      BY <3>1, <3>2, ElementOfSeq DEF TypeOK
  <2>2. delivered' \in Seq(EventTypes)
    BY <1>6, <2>1, AppendProperties DEF HandOver
  <2>3. pulling' \in {"none", "waiting"}
    BY <1>6 DEF HandOver
  <2>4. UNCHANGED <<call, script, phase, pos, saw, closing, closed, known, completed, first,
                    finished, pend, events, unbuilt, now>>
    BY <1>6 DEF HandOver
  <2>5. ~Handling'
    BY <2>3 DEF Handling
  <2>6. QED
    BY <2>2, <2>3, <2>4, <2>5 DEF TypeOK
<1>7. CASE PullStops \/ PullRaises
  <2>1. pend' \subseteq Pending
    BY <1>7, FinishType DEF PullStops, PullRaises, Statuses
  <2>2. pulling' = "none" /\ saw' \in {"stop", "raise"}
    BY <1>7 DEF PullStops, PullRaises
  <2>3. UNCHANGED <<call, script, phase, pos, delivered, closing, closed, known, completed,
                    first, finished, events, unbuilt, now>>
    BY <1>7 DEF PullStops, PullRaises
  <2>4. QED
    BY <2>1, <2>2, <2>3 DEF TypeOK, Pending, Handling
<1>8. CASE Close \/ ExitRaising
  <2>1. pend' \subseteq Pending
    BY <1>8, FinishType DEF Close, ExitRaising, Statuses
  <2>2. closing' = TRUE /\ UNCHANGED <<call, script, phase, pos, pulling, saw, delivered, closed,
                                       known, completed, first, finished, events, unbuilt, now>>
    BY <1>8 DEF Close, ExitRaising
  <2>3. QED
    BY <2>1, <2>2 DEF TypeOK, Pending, Handling
<1>9. CASE CloseSdk \/ CloseInner
  BY <1>9 DEF TypeOK, CloseSdk, CloseInner, Handling
<1>10. CASE Forget
  <2>1. pend' \subseteq Pending
    BY <1>10, FinishType DEF Forget, Statuses
  <2>2. QED
    BY <1>10, <2>1 DEF TypeOK, Forget, Pending, Handling
<1>11. ASSUME NEW p, NEW q \in Pending, Advances(p, q), finished' \in BOOLEAN
       PROVE  TypeOK'
  <2>1. pend' \subseteq Pending
    BY <1>11 DEF Advances, TypeOK, Pending
  <2>2. QED
    BY <1>11, <2>1 DEF Advances, TypeOK, Pending, Handling
<1>12. CASE SetFinished
  BY <1>11, <1>12, FlagSet
<1>13. CASE ReadLatency
  BY <1>11, <1>13, LatencyRead DEF TypeOK
<1>14. CASE ReadFirst
  BY <1>11, <1>14, FirstRead DEF TypeOK
<1>15. CASE Finishing
  <2>1. PICK p \in Pending :
            /\ pend' = pend \ {p}
            /\ Emit(Event(p, known)) /\ Event(p, known) \in Records
            /\ UNCHANGED <<call, script, pos, phase, pulling, saw, delivered, closing, closed,
                           known, completed, first, finished, now>>
    BY <1>15, Finished
  <2>2. events' \in Seq(Records) /\ unbuilt' \in Nat
    BY <2>1, EmitType
  <2>3. pend' \subseteq pend /\ Handling' = Handling
    BY <2>1 DEF Handling
  <2>4. QED
    BY <2>1, <2>2, <2>3 DEF TypeOK, Records
<1>16. CASE HelperTakes
  <2>1. /\ pos' \in 0 .. Len(script) /\ pos' > 0 /\ known' \subseteq Whole
        /\ delivered' \in Seq(EventTypes)
    BY <1>16, TakeType DEF HelperTakes, TypeOK
  <2>2. completed' \in BOOLEAN
    BY <1>16 DEF HelperTakes, TypeOK
  <2>3. UNCHANGED <<call, script, phase, pulling, saw, closing, closed, first, finished, pend,
                    events, unbuilt, now>>
    BY <1>16 DEF HelperTakes
  <2>4. QED
    BY <2>1, <2>2, <2>3 DEF TypeOK
<1>17. CASE Tick
  BY <1>17, CallConstants DEF TypeOK, Tick, Handling
<1>18. CASE UNCHANGED vars
  BY <1>18, NothingMoves DEF TypeOK, Handling
<1>19. QED
  BY StepCases, <1>1, <1>2, <1>3, <1>4, <1>5, <1>6, <1>7, <1>8, <1>9, <1>10, <1>12, <1>13,
     <1>14, <1>15, <1>16, <1>17, <1>18

\* The state of a call keeps its shape, and what it records is an event.
THEOREM CallTypes == Spec => []TypeOK
<1>1. Init => TypeOK
  BY TypeInit
<1>2. TypeOK /\ [Next]_vars => TypeOK'
  BY TypeStep
<1>3. QED
  BY <1>1, <1>2, PTL DEF Spec

-----------------------------------------------------------------------------
(* One attempt per call.                                                   *)

\* Threads of one call apart, at most one attempt is under way or made, and
\* _finished tells which.
Single ==
    call.style # "threads" =>
        /\ \A p, q \in pend : p = q
        /\ Attempts \in {0, 1}
        /\ pend # {} => Attempts = 0
        /\ \A p \in pend : finished <=> p.at # "checked"
        /\ ~finished /\ phase \in {"new", "open"} => Attempts = 0
        /\ finished /\ pend = {} => Attempts = 1
        /\ phase = "gone" /\ pend = {} => Attempts = 1
        /\ Mode # "raw" => pend = {}
        /\ phase = "new" \/ (Mode # "raw" /\ phase = "open") => pend = {} /\ ~finished

\* An event is made, or fails to be: one more attempt.
LEMMA OneMore ==
  ASSUME TypeOK, NEW e, Emit(e)
  PROVE  Attempts' = Attempts + 1 /\ Attempts \in Nat
<1>1. events \in Seq(Records) /\ unbuilt \in Nat /\ Len(events) \in Nat
  BY DEF TypeOK, Records
<1>2. CASE events' = Append(events, e) /\ UNCHANGED unbuilt
  <2>1. Len(events') = Len(events) + 1
    BY <1>1, <1>2
  <2>2. QED
    BY <1>1, <1>2, <2>1 DEF Attempts
<1>3. CASE unbuilt' = unbuilt + 1 /\ UNCHANGED events
  BY <1>1, <1>3 DEF Attempts
<1>4. QED
  BY <1>2, <1>3 DEF Emit

LEMMA SingleInit == Init => Single
<1> SUFFICES ASSUME Init PROVE Single
  OBVIOUS
<1>1. Attempts = 0
  BY DEF Init, Attempts
<1>2. QED
  BY <1>1 DEF Init, Single

\* A raw stream's finish is called, by whoever may: nothing is recorded yet.
LEMMA SingleFinish ==
  ASSUME TypeOK, Single, Raw, NEW by \in {"consumer", "closer"}, NEW status \in Statuses,
         Free(by), Finish(by, status), phase' \in {"open", "gone"},
         UNCHANGED <<call, finished, events, unbuilt>>
  PROVE  Single'
<1>1. Mode' = Mode /\ Mode = "raw" /\ Attempts' = Attempts
  BY DEF Mode, Raw, Attempts
<1> SUFFICES ASSUME call.style # "threads" PROVE Single'
  BY DEF Single
<1>2. pend = {} /\ phase = "open"
  BY DEF Free, Raw
<1>3. CASE finished
  BY <1>1, <1>2, <1>3 DEF Single, Finish
<1>4. CASE ~finished
  <2>1. PICK p : p = Attempt(by, status)
    OBVIOUS
  <2>2. pend' = {p} /\ p.at = "checked"
    BY <1>2, <1>4, <2>1, AttemptType DEF Finish
  <2>3. Attempts = 0
    BY <1>2, <1>4 DEF Single
  <2>4. QED
    BY <1>1, <1>2, <1>4, <2>2, <2>3 DEF Single
<1>5. QED
  BY <1>3, <1>4

\* A thread inside _finish takes a step: the flag is set once it is past "checked".
LEMMA SingleAdvance ==
  ASSUME Single, NEW p, NEW q, Advances(p, q),
         \/ p.at = "checked" /\ q.at # "checked" /\ finished'
         \/ p.at # "checked" /\ q.at # "checked" /\ UNCHANGED finished
  PROVE  Single'
<1>1. /\ p \in pend /\ pend' = (pend \ {p}) \cup {q} /\ UNCHANGED <<call, phase>>
      /\ Mode' = Mode /\ Attempts' = Attempts
  BY DEF Advances, Mode, Attempts
<1> SUFFICES ASSUME call.style # "threads" PROVE Single'
  BY <1>1 DEF Single
<1>2. pend = {p} /\ Attempts = 0 /\ Mode = "raw" /\ phase # "new"
  BY <1>1 DEF Single
<1>3. pend' = {q} /\ finished'
  BY <1>1, <1>2 DEF Single
<1>4. QED
  BY <1>1, <1>2, <1>3 DEF Single

\* Nothing that Single speaks of moves.
LEMMA SingleSame ==
  ASSUME Single, UNCHANGED <<call, phase, finished, pend, events, unbuilt>>
  PROVE  Single'
BY DEF Single, Mode, Attempts

LEMMA SingleStep ==
  ASSUME TypeOK, Single, [Next]_vars
  PROVE  Single'
<1> USE DEF streamVars, collectorVars, finishVars, eventVars
<1>1. CASE PlainReturns \/ PlainRaises \/ HelperExit
  <2>1. PICK p \in Pending, usage \in SUBSET Whole :
            /\ Emit(Event(p, usage))
            /\ \/ /\ Mode = "plain" /\ phase = "new" /\ phase' \in {"gone", "raised"}
                  /\ finished' = finished
               \/ /\ Mode = "helper" /\ phase = "open" /\ phase' = "gone" /\ finished' = TRUE
            /\ UNCHANGED <<call, pend>>
    BY <1>1, MadeAtOnce
  <2>2. Attempts' = Attempts + 1 /\ Mode' = Mode
    BY <2>1, OneMore DEF Mode
  <2>3. CASE call.style # "threads"
    <3>1. pend = {} /\ ~finished /\ Attempts = 0
      BY <2>1, <2>3 DEF Single
    <3>2. QED
      BY <2>1, <2>2, <3>1 DEF Single
  <2>4. CASE call.style = "threads"
    BY <2>1, <2>4 DEF Single
  <2>5. QED
    BY <2>3, <2>4
<1>2. CASE Open \/ OpenRaises
  <2>1. /\ Mode' = Mode /\ Attempts' = Attempts
        /\ phase = "new" /\ phase' \in {"open", "raised"}
        /\ UNCHANGED <<call, finished, pend>>
    BY <1>2 DEF Open, OpenRaises, Mode, Attempts
  <2>2. QED
    BY <2>1 DEF Single
<1>3. CASE Pull \/ PullEvent \/ Stamp \/ HandOver \/ CloseSdk \/ CloseInner \/ HelperTakes \/ Tick
  <2>1. UNCHANGED <<call, phase, finished, pend, events, unbuilt>>
    BY <1>3 DEF Pull, PullEvent, Stamp, HandOver, CloseSdk, CloseInner, HelperTakes, Tick
  <2>2. QED
    BY <2>1, SingleSame
<1>4. CASE PullStops \/ PullRaises
  <2>1. PICK status \in Statuses : Finish("consumer", status)
    BY <1>4 DEF PullStops, PullRaises, Statuses
  <2>2. /\ Raw /\ Free("consumer") /\ phase' \in {"open", "gone"}
        /\ UNCHANGED <<call, finished, events, unbuilt>>
    BY <1>4 DEF PullStops, PullRaises, Raw
  <2>3. QED
    BY <2>1, <2>2, SingleFinish
<1>5. CASE Close \/ ExitRaising
  <2>1. PICK status \in Statuses : Finish("closer", status)
    BY <1>5 DEF Close, ExitRaising, Statuses
  <2>2. /\ Raw /\ Free("closer") /\ phase' \in {"open", "gone"}
        /\ UNCHANGED <<call, finished, events, unbuilt>>
    BY <1>5 DEF Close, ExitRaising, MayClose, Raw
  <2>3. QED
    BY <2>1, <2>2, SingleFinish
<1>6. CASE Forget
  <2>1. /\ Raw /\ Free("consumer") /\ phase' = "gone"
        /\ Finish("consumer", "stream_abandoned")
        /\ UNCHANGED <<call, finished, events, unbuilt>>
    BY <1>6 DEF Forget, Forgotten, Free
  <2>2. QED
    BY <2>1, SingleFinish DEF Statuses
<1>7. CASE SetFinished
  <2>1. PICK p \in Pending, q \in Pending :
            Advances(p, q) /\ finished' = TRUE /\ p.at = "checked" /\ q.at = "flagged"
    BY <1>7, FlagSet
  <2>2. QED
    BY <2>1, SingleAdvance
<1>8. CASE ReadLatency
  <2>1. PICK p \in Pending, q \in Pending :
            Advances(p, q) /\ finished' = finished /\ p.at = "flagged" /\ q.at = "timed"
    BY <1>8, LatencyRead
  <2>2. QED
    BY <2>1, SingleAdvance
<1>9. CASE ReadFirst
  <2>1. PICK p \in Pending, q \in Pending :
            Advances(p, q) /\ finished' = finished /\ p.at = "timed" /\ q.at = "read"
    BY <1>9, FirstRead
  <2>2. QED
    BY <2>1, SingleAdvance
<1>10. CASE Finishing
  <2>1. PICK p \in Pending :
            /\ p \in pend /\ p.at = "read" /\ pend' = pend \ {p} /\ Emit(Event(p, known))
            /\ UNCHANGED <<call, phase, finished>>
    BY <1>10, Finished
  <2>2. Attempts' = Attempts + 1 /\ Mode' = Mode
    BY <2>1, OneMore DEF Mode
  <2>3. CASE call.style # "threads"
    <3>1. Attempts = 0 /\ pend' = {} /\ Mode = "raw" /\ phase # "new" /\ finished
      BY <2>1, <2>3 DEF Single
    <3>2. QED
      BY <2>1, <2>2, <2>3, <3>1 DEF Single
  <2>4. CASE call.style = "threads"
    BY <2>1, <2>4 DEF Single
  <2>5. QED
    BY <2>3, <2>4
<1>11. CASE UNCHANGED vars
  BY <1>11, SingleSame, NothingMoves
<1>12. QED
  BY StepCases, <1>1, <1>2, <1>3, <1>4, <1>5, <1>6, <1>7, <1>8, <1>9, <1>10, <1>11

LEMMA SingleAlways == Spec => [](TypeOK /\ Single)
<1>1. Init => TypeOK /\ Single
  BY TypeInit, SingleInit
<1>2. TypeOK /\ Single /\ [Next]_vars => TypeOK' /\ Single'
  BY TypeStep, SingleStep
<1>3. QED
  BY <1>1, <1>2, PTL DEF Spec

\* Exactly one attempt at an event per call, over any order of exhaustion, failure,
\* close, with-block exit and garbage collection.
THEOREM OneEvent == Spec => []OneEventPerCall
<1>1. Single => OneEventPerCall
  BY DEF Single, OneEventPerCall
<1>2. QED
  BY <1>1, SingleAlways, PTL

-----------------------------------------------------------------------------
(* The status recorded.                                                    *)

\* What a status claims of the stream's end.
Claims(status, end) ==
    /\ status = "ok" /\ Mode = "raw" => end = "stop"
    /\ status = "ok" /\ Mode = "helper" => completed
    /\ status = "stream_abandoned" => end = None
    /\ status = "error" /\ Mode = "raw" => closing \/ closed \/ end = "raise"

Ended ==
    call.style # "threads" =>
        /\ \A p \in pend : Claims(p.status, saw)
        /\ saw # None /\ pend = {} => finished
        /\ Mode # "raw" => saw = None
        /\ \A i \in DOMAIN events : Claims(events[i].status, events[i].ended)

LEMMA EndedInit == Init => Ended
BY DEF Init, Ended

\* An event joins those recorded, or fails to.
LEMMA OldOrNew ==
  ASSUME TypeOK, NEW e \in Records, Emit(e), NEW i \in DOMAIN events'
  PROVE  (i \in DOMAIN events /\ events'[i] = events[i]) \/ events'[i] = e
<1>1. events \in Seq(Records)
  BY DEF TypeOK, Records
<1>2. CASE events' = Append(events, e)
  <2>1. /\ Len(events') = Len(events) + 1 /\ Len(events) \in Nat
        /\ DOMAIN events' = 1 .. Len(events') /\ DOMAIN events = 1 .. Len(events)
        /\ \A j \in 1 .. Len(events) : events'[j] = events[j]
        /\ events'[Len(events) + 1] = e
    BY <1>1, <1>2, AppendProperties, LenProperties
  <2>2. i \in 1 .. Len(events) \/ i = Len(events) + 1
    BY <2>1
  <2>3. QED
    BY <2>1, <2>2
<1>3. QED
  BY <1>2 DEF Emit

\* The end is the one the status claims, and what was claimed of other ends stays.
LEMMA EndedFinish ==
  ASSUME TypeOK, Single, Ended, Raw, NEW by \in {"consumer", "closer"}, NEW status \in Statuses,
         Free(by), Finish(by, status),
         \/ status = "ok" /\ saw' = "stop"
         \/ status = "error" /\ (saw' = "raise" \/ (closing' /\ saw' = saw))
         \/ status = "stream_abandoned" /\ saw' = saw,
         closing => closing', closed => closed',
         UNCHANGED <<call, completed, finished, events>>
  PROVE  Ended'
<1>1. Mode' = Mode /\ Mode = "raw"
  BY DEF Mode, Raw
<1> SUFFICES ASSUME call.style # "threads" PROVE Ended'
  BY DEF Ended
<1>2. pend = {}
  BY DEF Free
<1>3. \A i \in DOMAIN events' : Claims(events[i].status, events[i].ended)'
  BY <1>1 DEF Ended, Claims
<1>4. CASE finished
  BY <1>1, <1>2, <1>3, <1>4 DEF Ended, Finish
<1>5. CASE ~finished
  <2>1. pend' = {Attempt(by, status)} /\ saw = None
    BY <1>2, <1>5 DEF Finish, Ended
  <2>2. \A p \in pend' : p.status = status
    BY <2>1, AttemptType
  <2>3. (\A p \in pend : Claims(p.status, saw))'
    BY <1>1, <2>1, <2>2 DEF Claims
  <2>4. QED
    BY <1>1, <1>3, <2>1, <2>3 DEF Ended
<1>6. QED
  BY <1>4, <1>5

LEMMA EndedSame ==
  ASSUME Ended, UNCHANGED <<call, saw, finished, events>>,
         \A p \in pend' : \E o \in pend : p.status = o.status,
         pend' = {} => pend = {},
         completed => completed', closing \/ closed => closing' \/ closed'
  PROVE  Ended'
<1>1. \A status, end : Claims(status, end) => Claims(status, end)'
  BY DEF Claims, Mode
<1>2. QED
  BY <1>1 DEF Ended, Mode

\* A thread inside _finish takes a step.
LEMMA EndedAdvance ==
  ASSUME Ended, NEW p, NEW q, Advances(p, q),
         (finished => finished') \/ finished' = finished
  PROVE  Ended'
<1>1. /\ p \in pend /\ pend' = (pend \ {p}) \cup {q} /\ q.status = p.status
      /\ UNCHANGED <<call, saw, completed, closing, closed, events>> /\ Mode' = Mode
  BY DEF Advances, Mode
<1>2. \A status, end : Claims(status, end)' <=> Claims(status, end)
  BY <1>1 DEF Claims
<1>3. QED
  BY <1>1, <1>2 DEF Ended

LEMMA EndedStep ==
  ASSUME TypeOK, Single, Ended, [Next]_vars
  PROVE  Ended'
<1> USE DEF streamVars, collectorVars, finishVars, eventVars
<1>1. CASE PlainReturns \/ PlainRaises \/ HelperExit
  <2>1. PICK p \in Pending, usage \in SUBSET Whole :
            /\ Emit(Event(p, usage)) /\ Event(p, usage) \in Records
            /\ \/ Mode = "plain" /\ p.status \in {"ok", "error"} /\ finished' = finished
               \/ Mode = "helper" /\ (p.status = "ok" => completed) /\ finished' = TRUE
            /\ UNCHANGED <<call, saw, closing, closed, completed, pend>>
    BY <1>1, MadeAtOnce
  <2>2. PICK e \in Records : e = Event(p, usage)
    BY <2>1
  <2>3. e.status = p.status /\ e.ended = saw
    BY <2>2, EventType
  <2>4. \A i \in DOMAIN events' : \/ events'[i] = e
                                  \/ i \in DOMAIN events /\ events'[i] = events[i]
    BY <2>1, <2>2, OldOrNew
  <2>5. Mode' = Mode
    BY <2>1 DEF Mode
  <2>6. \A st, end : Claims(st, end)' <=> Claims(st, end)
    BY <2>1, <2>5 DEF Claims
  <2>7. call.style # "threads" => Claims(p.status, saw)
    BY <2>1 DEF Claims, Ended
  <2>8. QED
    BY <2>1, <2>3, <2>4, <2>5, <2>6, <2>7 DEF Ended
<1>2. CASE Open \/ OpenRaises
  BY <1>2, EndedSame DEF Open, OpenRaises
<1>3. CASE Pull \/ PullEvent \/ Stamp \/ HandOver \/ CloseSdk \/ CloseInner \/ HelperTakes \/ Tick
  <2>1. UNCHANGED <<call, saw, finished, pend, events>>
    BY <1>3 DEF Pull, PullEvent, Stamp, HandOver, CloseSdk, CloseInner, HelperTakes, Tick
  <2>2. completed => completed'
    BY <1>3 DEF Pull, PullEvent, Stamp, HandOver, CloseSdk, CloseInner, HelperTakes, Tick
  <2>3. closing \/ closed => closing' \/ closed'
    BY <1>3 DEF Pull, PullEvent, Stamp, HandOver, CloseSdk, CloseInner, HelperTakes, Tick
  <2>4. QED
    BY <2>1, <2>2, <2>3, EndedSame
<1>4. CASE PullStops
  BY <1>4, EndedFinish DEF PullStops, Raw, Statuses
<1>5. CASE PullRaises
  BY <1>5, EndedFinish DEF PullRaises, Raw, Statuses
<1>6. CASE Close
  BY <1>6, EndedFinish DEF Close, MayClose, Statuses
<1>7. CASE ExitRaising
  BY <1>7, EndedFinish DEF ExitRaising, MayClose, Statuses
<1>8. CASE Forget
  <2>1. Raw /\ Free("consumer")
    BY <1>8 DEF Forget, Forgotten, Free
  <2>2. QED
    BY <1>8, <2>1, EndedFinish DEF Forget, Statuses
<1>9. CASE SetFinished
  BY <1>9, FlagSet, EndedAdvance
<1>10. CASE ReadLatency
  BY <1>10, LatencyRead, EndedAdvance
<1>11. CASE ReadFirst
  BY <1>11, FirstRead, EndedAdvance
<1>12. CASE Finishing
  <2>1. PICK p \in Pending :
            /\ p \in pend /\ p.at = "read" /\ pend' = pend \ {p}
            /\ Emit(Event(p, known)) /\ Event(p, known) \in Records
            /\ UNCHANGED <<call, saw, closing, closed, completed, finished>>
    BY <1>12, Finished
  <2>2. Mode' = Mode /\ known \in SUBSET Whole
    BY <2>1 DEF Mode, TypeOK
  <2>3. PICK e \in Records : e = Event(p, known)
    BY <2>1
  <2>4. e.status = p.status /\ e.ended = saw
    BY <2>2, <2>3, EventType
  <2>5. \A i \in DOMAIN events' : \/ events'[i] = e
                                  \/ i \in DOMAIN events /\ events'[i] = events[i]
    BY <2>1, <2>3, OldOrNew
  <2>6. \A status, end : Claims(status, end)' <=> Claims(status, end)
    BY <2>1, <2>2 DEF Claims
  <2>7. call.style # "threads" => finished
    BY <2>1 DEF Single
  <2>8. QED
    BY <2>1, <2>2, <2>4, <2>5, <2>6, <2>7 DEF Ended
<1>13. CASE UNCHANGED vars
  BY <1>13, EndedSame, NothingMoves
<1>14. QED
  BY StepCases, <1>1, <1>2, <1>3, <1>4, <1>5, <1>6, <1>7, <1>8, <1>9, <1>10, <1>11, <1>12, <1>13

\* An event's status agrees with how the stream ended: "ok" only at its end,
\* "stream_abandoned" only before the caller was told of an end.
THEOREM StatusTrue == Spec => []StatusFaithful
<1>1. Init => Ended
  BY EndedInit
<1>2. TypeOK /\ Single /\ Ended /\ [Next]_vars => Ended'
  BY EndedStep
<1>3. Ended => StatusFaithful
  BY DEF Ended, Claims, StatusFaithful
<1>4. QED
  BY <1>1, <1>2, <1>3, SingleAlways, PTL DEF Spec

-----------------------------------------------------------------------------
(* The usage recorded.                                                     *)

Used == /\ Mode # "plain" => known = UsageIn(SubSeq(script, 1, pos))
        /\ \A p \in pend : p.status = "ok" => p.by = "consumer" /\ pos = Len(script)
        /\ Mode = "helper" /\ completed => known = Whole
        /\ UsageFaithful

LEMMA ScriptSeq ==
  ASSUME TypeOK
  PROVE  script \in Seq(EventTypes) /\ Len(script) \in Nat /\ pos \in 0 .. Len(script)
BY KindType, ScriptType DEF TypeOK

\* The usage of the first n events.
LEMMA UsageOfPrefix ==
  ASSUME TypeOK, NEW n \in 0 .. Len(script)
  PROVE  UsageIn(SubSeq(script, 1, n)) = UNION {Carries(script[i]) : i \in 1 .. n}
<1>1. script \in Seq(EventTypes) /\ Len(script) \in Nat /\ n \in Nat
  BY ScriptSeq
<1>2. 1 \in 1 .. Len(script) + 1 /\ n \in 1 - 1 .. Len(script)
  BY <1>1
<1>3. /\ SubSeq(script, 1, n) \in Seq(EventTypes)
      /\ Len(SubSeq(script, 1, n)) = n
      /\ \A i \in 1 .. n : SubSeq(script, 1, n)[i] = script[i]
  <2>1. /\ SubSeq(script, 1, n) \in Seq(EventTypes)
        /\ Len(SubSeq(script, 1, n)) = IF 1 <= n THEN n - 1 + 1 ELSE 0
        /\ \A i \in 1 .. n - 1 + 1 : SubSeq(script, 1, n)[i] = script[1 + i - 1]
    BY <1>1, <1>2, SubSeqProperties
  <2>2. QED
    BY <1>1, <2>1
<1>4. DOMAIN SubSeq(script, 1, n) = 1 .. n
  BY <1>3, LenProperties
<1>5. QED
  BY <1>3, <1>4 DEF UsageIn

LEMMA UsageOfMore ==
  ASSUME TypeOK, pos < Len(script)
  PROVE  UsageIn(SubSeq(script, 1, pos + 1))
            = UsageIn(SubSeq(script, 1, pos)) \cup Carries(script[pos + 1])
<1>1. pos \in Nat /\ pos + 1 \in 0 .. Len(script)
  BY ScriptSeq
<1>2. 1 .. pos + 1 = 1 .. pos \cup {pos + 1}
  BY <1>1
<1>3. QED
  BY <1>1, <1>2, UsageOfPrefix, ScriptSeq

LEMMA UsageOfAll ==
  ASSUME TypeOK
  PROVE  SubSeq(script, 1, Len(script)) = script
BY ScriptSeq, SubSeqFull

\* A helper's stream starts with its message_start and holds a message_delta.
LEMMA HelperScript ==
  ASSUME TypeOK, Mode = "helper"
  PROVE  /\ Len(script) \in Nat \ {0} /\ script[1] = "message_start"
         /\ \E i \in 1 .. Len(script) : script[i] = "message_delta"
<1>1. call.api = "anthropic"
  BY DEF Mode
<1>2. script \in {<<"message_start", "content", "message_delta", "message_stop">>,
                 <<"message_start", "message_delta", "message_stop">>}
  BY <1>1 DEF TypeOK, Scripts
<1>3. CASE script = <<"message_start", "content", "message_delta", "message_stop">>
  <2>1. Len(script) = 4 /\ script[1] = "message_start" /\ script[3] = "message_delta"
    BY <1>3
  <2>2. QED
    BY <2>1
<1>4. CASE script = <<"message_start", "message_delta", "message_stop">>
  <2>1. Len(script) = 3 /\ script[1] = "message_start" /\ script[2] = "message_delta"
    BY <1>4
  <2>2. QED
    BY <2>1
<1>5. QED
  BY <1>2, <1>3, <1>4

LEMMA CarriesHalves == Carries("message_start") = {"input"} /\ Carries("message_delta") = {"output"}
BY DEF Carries

LEMMA HelperUsage ==
  ASSUME TypeOK, Mode = "helper"
  PROVE  UsageIn(script) = Whole
<1>1. /\ DOMAIN script = 1 .. Len(script) /\ Len(script) \in Nat \ {0}
      /\ script[1] = "message_start"
  BY HelperScript, ScriptSeq, LenProperties
<1>2. PICK i \in 1 .. Len(script) : script[i] = "message_delta"
  BY HelperScript
<1>3. 1 \in DOMAIN script /\ i \in DOMAIN script
  BY <1>1
<1>4. Carries(script[1]) \subseteq UsageIn(script) /\ Carries(script[i]) \subseteq UsageIn(script)
  BY <1>3 DEF UsageIn
<1>5. UsageIn(script) \subseteq Whole
  BY CarriesType DEF UsageIn
<1>6. QED
  BY <1>1, <1>2, <1>4, <1>5, CarriesHalves DEF Whole

LEMMA UsedInit == Init => Used
<1> SUFFICES ASSUME Init PROVE Used
  OBVIOUS
<1>1. UsageIn(SubSeq(script, 1, pos)) = UNION {Carries(script[i]) : i \in 1 .. 0}
  <2>1. TypeOK /\ pos = 0
    BY TypeInit DEF Init
  <2>2. 0 \in 0 .. Len(script)
    BY <2>1, ScriptSeq
  <2>3. QED
    BY <2>1, <2>2, UsageOfPrefix
<1>2. 1 .. 0 = {}
  OBVIOUS
<1>3. UNION {Carries(script[i]) : i \in 1 .. 0} = {}
  BY <1>2
<1>4. QED
  BY <1>1, <1>3 DEF Init, Used, UsageFaithful

\* Nothing that Used speaks of moves; a thread inside _finish may take a step.
LEMMA UsedSame ==
  ASSUME Used, UNCHANGED <<call, script, pos, known, completed, events>>,
         \A p \in pend' : \/ p.status # "ok"
                          \/ \E o \in pend : p.status = o.status /\ p.by = o.by
  PROVE  Used'
BY DEF Used, UsageFaithful, Mode

LEMMA UsedAdvance ==
  ASSUME Used, NEW p, NEW q, Advances(p, q)
  PROVE  Used'
<1>1. UNCHANGED <<call, script, pos, known, completed, events>>
  BY DEF Advances
<1>2. ASSUME NEW r \in pend' PROVE \E o \in pend : r.status = o.status /\ r.by = o.by
  <2>1. p \in pend /\ pend' = (pend \ {p}) \cup {q} /\ q.by = p.by /\ q.status = p.status
    BY DEF Advances
  <2>2. r \in pend \/ r = q
    BY <1>2, <2>1
  <2>3. QED
    BY <2>1, <2>2
<1>3. QED
  BY <1>1, <1>2, UsedSame

\* An event made of what the collector holds now.
LEMMA UsedEmit ==
  ASSUME TypeOK, Used, NEW p \in Pending,
         Mode # "plain", Emit(Event(p, known)),
         p.status = "ok" => known = UsageIn(script),
         UNCHANGED <<call, script>>
  PROVE  UsageFaithful'
<1>1. PICK e : e = Event(p, known)
  OBVIOUS
<1>2. e \in Records /\ e.status = p.status /\ e.usage = known /\ e.taken = pos
  BY <1>1, EventType DEF TypeOK
<1>3. \A i \in DOMAIN events' : events'[i] = e \/ (i \in DOMAIN events /\ events'[i] = events[i])
  BY <1>1, <1>2, OldOrNew
<1>4. known = UsageIn(SubSeq(script, 1, pos)) /\ Mode' = Mode
  BY DEF Used, Mode
<1>5. QED
  BY <1>2, <1>3, <1>4 DEF Used, UsageFaithful

\* One more event is taken, and its usage with it.
LEMMA UsedTake ==
  ASSUME TypeOK, Used, Mode # "plain", pos < Len(script),
         pos' = pos + 1, known' = known \cup Carries(script[pos + 1]),
         Mode = "helper" /\ completed' => completed \/ script[pos + 1] = "message_delta",
         \A p \in pend : p.status # "ok",
         UNCHANGED <<call, script, pend, events>>
  PROVE  Used'
<1>1. Mode' = Mode
  BY DEF Mode
<1>2. known' = UsageIn(SubSeq(script, 1, pos'))
  BY UsageOfMore DEF Used
<1>3. ASSUME Mode = "helper", completed' PROVE known' = Whole
  <2>1. known' \subseteq Whole
    BY TakeType
  <2>2. CASE completed
    BY <1>3, <2>1, <2>2 DEF Used
  <2>3. CASE script[pos + 1] = "message_delta"
    <3>1. script[1] = "message_start" /\ pos \in Nat /\ pos # 0 /\ pos \in 0 .. Len(script)
      BY <1>3, <2>3, HelperScript, ScriptSeq
    <3>2. Carries(script[1]) \subseteq known
      <4>1. known = UNION {Carries(script[i]) : i \in 1 .. pos}
        BY <3>1, UsageOfPrefix DEF Used
      <4>2. 1 \in 1 .. pos
        BY <3>1
      <4>3. QED
        BY <4>1, <4>2
    <3>3. QED
      BY <2>1, <2>3, <3>1, <3>2, CarriesHalves DEF Whole
  <2>4. QED
    BY <1>3, <2>2, <2>3
<1>4. UsageFaithful'
  BY <1>1 DEF Used, UsageFaithful
<1>5. QED
  BY <1>1, <1>2, <1>3, <1>4 DEF Used

\* While a thread is about to record the end of the stream, no other one pulls.
LEMMA NoEndPending ==
  ASSUME Used, Free("consumer")
  PROVE  \A p \in pend : p.status # "ok"
BY DEF Used, Free

LEMMA UsedStep ==
  ASSUME TypeOK, Used, [Next]_vars
  PROVE  Used'
<1> USE DEF streamVars, collectorVars, finishVars, eventVars
<1>1. CASE PlainReturns \/ PlainRaises \/ HelperExit
  <2>1. PICK p \in Pending, usage \in SUBSET Whole :
            /\ Emit(Event(p, usage))
            /\ Mode = "plain" \/ (Mode = "helper" /\ usage = known /\ (p.status = "ok" => completed))
            /\ UNCHANGED <<call, script, pos, known, completed, pend>>
    BY <1>1, MadeAtOnce
  <2>2. Mode' = Mode
    BY <2>1 DEF Mode
  <2>3. CASE Mode = "plain"
    BY <2>1, <2>2, <2>3 DEF Used, UsageFaithful
  <2>4. CASE Mode = "helper"
    <3>1. Emit(Event(p, known)) /\ (p.status = "ok" => known = UsageIn(script))
      BY <2>1, <2>4, HelperUsage DEF Used
    <3>2. UsageFaithful'
      BY <2>1, <2>4, <3>1, UsedEmit
    <3>3. QED
      BY <2>1, <2>2, <3>2 DEF Used
  <2>5. QED
    BY <2>1, <2>3, <2>4
<1>2. CASE Open \/ OpenRaises
  BY <1>2, UsedSame DEF Open, OpenRaises
<1>3. CASE Pull \/ Stamp \/ HandOver \/ CloseSdk \/ CloseInner \/ Tick
  <2>1. UNCHANGED <<call, script, pos, known, completed, events, pend>>
    BY <1>3 DEF Pull, Stamp, HandOver, CloseSdk, CloseInner, Tick
  <2>2. QED
    BY <2>1, UsedSame
<1>4. CASE PullEvent
  <2>1. /\ Mode = "raw" /\ pos < Len(script)
        /\ pos' = pos + 1 /\ known' = known \cup Carries(script[pos + 1])
        /\ UNCHANGED <<call, script, pend, events>>
    BY <1>4 DEF PullEvent, Raw
  <2>2. \A p \in pend : p.status # "ok"
    BY <1>4, NoEndPending DEF PullEvent
  <2>3. QED
    BY <2>1, <2>2, UsedTake
<1>5. CASE PullStops
  <2>1. /\ UNCHANGED <<call, script, pos, known, completed, events>> /\ pos = Len(script)
        /\ Mode' = Mode
    BY <1>5 DEF PullStops, Mode
  <2>2. \A p \in pend' : p \in pend \/ p.by = "consumer"
    BY <1>5, AttemptType DEF PullStops, Finish, Statuses
  <2>3. QED
    BY <2>1, <2>2 DEF Used, UsageFaithful
<1>6. CASE PullRaises \/ Close \/ ExitRaising \/ Forget
  <2>1. UNCHANGED <<call, script, pos, known, completed, events>>
    BY <1>6 DEF PullRaises, Close, ExitRaising, Forget
  <2>2. PICK by \in {"consumer", "closer"}, status \in {"error", "stream_abandoned"} :
            Finish(by, status)
    BY <1>6 DEF PullRaises, Close, ExitRaising, Forget
  <2>3. Attempt(by, status).status # "ok"
    BY AttemptType DEF Statuses
  <2>4. \A p \in pend' : p \in pend \/ p.status # "ok"
    BY <2>2, <2>3 DEF Finish
  <2>5. QED
    BY <2>1, <2>4, UsedSame
<1>7. CASE SetFinished \/ ReadLatency \/ ReadFirst
  BY <1>7, FlagSet, LatencyRead, FirstRead, UsedAdvance
<1>8. CASE Finishing
  <2>1. PICK p \in Pending :
            /\ p \in pend /\ pend' = pend \ {p} /\ Emit(Event(p, known))
            /\ UNCHANGED <<call, script, pos, known, completed>>
    BY <1>8, Finished
  <2>2. Mode' = Mode
    BY <2>1 DEF Mode
  <2>3. UsageFaithful'
    <3>1. CASE Mode = "plain"
      BY <2>2, <3>1 DEF UsageFaithful
    <3>2. CASE Mode # "plain"
      <4>1. p.status = "ok" => known = UsageIn(script)
        BY <2>1, <3>2, UsageOfAll DEF Used
      <4>2. QED
        BY <2>1, <3>2, <4>1, UsedEmit
    <3>3. QED
      BY <3>1, <3>2
  <2>4. QED
    BY <2>1, <2>2, <2>3 DEF Used
<1>9. CASE HelperTakes
  <2>1. /\ Mode = "helper" /\ pos < Len(script)
        /\ pos' = pos + 1 /\ known' = known \cup Carries(script[pos + 1])
        /\ completed' = (completed \/ script[pos + 1] = "message_delta")
        /\ UNCHANGED <<call, script, pend, events>>
    BY <1>9 DEF HelperTakes, Helper
  <2>2. CASE \A p \in pend : p.status # "ok"
    BY <2>1, <2>2, UsedTake
  <2>3. CASE \E p \in pend : p.status = "ok"
    BY <2>1, <2>3, ScriptSeq DEF Used
  <2>4. QED
    BY <2>2, <2>3
<1>10. CASE UNCHANGED vars
  BY <1>10, UsedSame, NothingMoves
<1>11. QED
  BY StepCases, <1>1, <1>2, <1>3, <1>4, <1>5, <1>6, <1>7, <1>8, <1>9, <1>10

\* A streamed call's event holds the usage of all the wrapper has taken, and that
\* of an "ok" event all the provider sent, even with threads that share the stream.
THEOREM UsageTrue == Spec => []UsageFaithful
<1>1. Init => TypeOK /\ Used
  BY TypeInit, UsedInit
<1>2. TypeOK /\ Used /\ [Next]_vars => TypeOK' /\ Used'
  BY TypeStep, UsedStep
<1>3. Used => UsageFaithful
  BY DEF Used
<1>4. QED
  BY <1>1, <1>2, <1>3, PTL DEF Spec

-----------------------------------------------------------------------------
(* The time to the first token.                                            *)

\* _handle is about to hand over an event with content.
AtContent == pulling = "stamped" /\ ~Swallows(script[pos]) /\ IsContent(script[pos])

\* What a thread past the check of _finished knows of the first token.
Promised(p) ==
    /\ Mode = "raw" /\ HasContent(p.got) => first # None /\ (p.at = "read" => p.first # None)
    /\ p.first # None => first # None
    /\ call.style # "threads" =>
           /\ p.got = delivered
           /\ first # None => first <= p.latency
           /\ p.first # None => p.first = first

Timed == /\ first # None => /\ Mode = "raw" /\ first <= now
                            /\ \E j \in 1 .. pos : IsContent(script[j])
         /\ Mode = "raw" /\ (HasContent(delivered) \/ AtContent) => first # None
         /\ call.style # "threads" /\ first # None => HasContent(delivered) \/ AtContent
         /\ call.style # "threads" /\ pend # {} => ~Handling
         /\ pend # {} => Mode = "raw"
         /\ \A p \in pend : Promised(p)
         /\ FirstTokenFaithful

LEMMA TimedInit == Init => Timed
BY DEF Init, Timed, HasContent, AtContent, FirstTokenFaithful

LEMMA ContentOfPrefix ==
  ASSUME TypeOK, NEW j \in 1 .. pos, IsContent(script[j])
  PROVE  HasContent(SubSeq(script, 1, pos))
<1>1. script \in Seq(EventTypes) /\ Len(script) \in Nat /\ pos \in 1 .. Len(script)
  BY ScriptSeq
<1>2. 1 \in 1 .. Len(script) + 1 /\ pos \in 1 - 1 .. Len(script)
  BY <1>1
<1>3. /\ SubSeq(script, 1, pos) \in Seq(EventTypes)
      /\ Len(SubSeq(script, 1, pos)) = IF 1 <= pos THEN pos - 1 + 1 ELSE 0
      /\ \A i \in 1 .. pos - 1 + 1 : SubSeq(script, 1, pos)[i] = script[1 + i - 1]
  BY <1>1, <1>2, SubSeqProperties
<1>4. SubSeq(script, 1, pos)[j] = script[j] /\ j \in 1 .. Len(SubSeq(script, 1, pos))
  BY <1>1, <1>3
<1>5. DOMAIN SubSeq(script, 1, pos) = 1 .. Len(SubSeq(script, 1, pos))
  BY <1>3, LenProperties
<1>6. QED
  BY <1>4, <1>5 DEF HasContent

LEMMA HasContentMore ==
  ASSUME NEW s \in Seq(EventTypes), NEW e \in EventTypes
  PROVE  HasContent(Append(s, e)) <=> HasContent(s) \/ IsContent(e)
<1>1. /\ Append(s, e) \in Seq(EventTypes) /\ Len(s) \in Nat
      /\ Len(Append(s, e)) = Len(s) + 1
      /\ \A i \in 1 .. Len(s) : Append(s, e)[i] = s[i]
      /\ Append(s, e)[Len(s) + 1] = e
  BY AppendProperties, LenProperties
<1>2. DOMAIN s = 1 .. Len(s) /\ DOMAIN Append(s, e) = 1 .. Len(s) + 1
  BY <1>1, LenProperties
<1>3. Len(s) + 1 \in 1 .. Len(s) + 1 /\ \A i \in 1 .. Len(s) + 1 : i \in 1 .. Len(s) \/ i = Len(s) + 1
  BY <1>1
<1>4. \A i \in 1 .. Len(s) : i \in 1 .. Len(s) + 1
  BY <1>1
<1>5. QED
  BY <1>1, <1>2, <1>3, <1>4 DEF HasContent

LEMMA FaithfulSame ==
  ASSUME FirstTokenFaithful, UNCHANGED <<call, script, events>>
  PROVE  FirstTokenFaithful'
BY DEF FirstTokenFaithful, Mode

\* Content taken and delivered stays as it is, and so does _first_token_ms; the clock
\* may move, and threads may take a step in _finish.
LEMMA TimedSame ==
  ASSUME TypeOK, Timed, UNCHANGED <<call, script, pos, delivered, first, events>>,
         AtContent' <=> AtContent, now' \in Nat, now' >= now,
         call.style # "threads" /\ pend' # {} => ~Handling',
         pend' # {} => Mode = "raw",
         \A p \in pend' : Promised(p)
  PROVE  Timed'
<1>1. now \in Nat /\ (first # None => first \in Nat)
  BY CallConstants DEF TypeOK
<1>2. Mode' = Mode /\ HasContent(delivered') = HasContent(delivered)
  BY DEF Mode
<1>3. FirstTokenFaithful'
  BY FaithfulSame DEF Timed
<1>4. \A p \in pend' : Promised(p)'
  BY <1>2 DEF Promised
<1>5. first' # None => first' <= now'
  BY <1>1 DEF Timed
<1>6. QED
  BY <1>2, <1>3, <1>4, <1>5 DEF Timed

\* A raw stream's finish is called, by whoever may.
LEMMA TimedFinish ==
  ASSUME TypeOK, Timed, Raw, NEW by \in {"consumer", "closer"}, NEW status \in Statuses,
         Finish(by, status), call.style # "threads" => ~Handling,
         Handling' <=> Handling, AtContent' <=> AtContent,
         UNCHANGED <<call, script, pos, delivered, first, events, now>>
  PROVE  Timed'
<1>1. PICK a : a = Attempt(by, status)
  OBVIOUS
<1>2. a.at = "checked" /\ a.latency = now /\ a.first = None /\ a.got = delivered
  BY <1>1, AttemptType
<1>3. Mode = "raw"
  BY DEF Raw
<1>4. Promised(a)
  BY <1>2, <1>3 DEF Promised, Timed
<1>5. \A p \in pend' : p \in pend \/ p = a
  BY <1>1 DEF Finish
<1>6. \A p \in pend' : Promised(p)
  BY <1>4, <1>5 DEF Timed
<1>7. now' \in Nat /\ now' >= now
  BY CallConstants DEF TypeOK
<1>8. QED
  BY <1>3, <1>6, <1>7, TimedSame

\* A thread inside _finish takes a step, and knows what it should.
LEMMA TimedAdvance ==
  ASSUME TypeOK, Timed, NEW p, NEW q, Advances(p, q), Promised(q)
  PROVE  Timed'
<1>1. /\ p \in pend /\ pend' = (pend \ {p}) \cup {q}
      /\ UNCHANGED <<call, script, pos, pulling, delivered, first, events, now>>
  BY DEF Advances
<1>2. (AtContent' <=> AtContent) /\ (Handling' <=> Handling)
  BY <1>1 DEF AtContent, Handling, Swallows, Injected
<1>3. \A r \in pend' : Promised(r)
  BY <1>1 DEF Timed
<1>4. pend # {} /\ now' \in Nat /\ now' >= now
  BY <1>1, CallConstants DEF TypeOK
<1>5. call.style # "threads" /\ pend' # {} => ~Handling'
  BY <1>2, <1>4 DEF Timed
<1>6. Mode = "raw"
  BY <1>4 DEF Timed
<1>7. QED
  BY <1>1, <1>2, <1>3, <1>4, <1>5, <1>6, TimedSame

\* An event is made, and tells the truth of the first token.
LEMMA TimedEmit ==
  ASSUME TypeOK, Timed, NEW p \in Pending, NEW usage \in SUBSET Whole, Emit(Event(p, usage)),
         Mode = "raw" /\ HasContent(p.got) => p.first # None,
         p.first # None => Mode = "raw" /\ \E j \in 1 .. pos : IsContent(script[j]),
         p.first # None /\ call.style # "threads" => HasContent(p.got) /\ p.first <= p.latency,
         UNCHANGED <<call, script>>
  PROVE  FirstTokenFaithful'
<1>1. PICK e : e = Event(p, usage)
  OBVIOUS
<1>2. /\ e \in Records /\ e.first = p.first /\ e.latency = p.latency /\ e.got = p.got
      /\ e.taken = pos
  BY <1>1, EventType
<1>3. \A i \in DOMAIN events' : events'[i] = e \/ (i \in DOMAIN events /\ events'[i] = events[i])
  BY <1>1, <1>2, OldOrNew
<1>4. Mode' = Mode
  BY DEF Mode
<1>5. p.first # None => HasContent(SubSeq(script, 1, pos))
  BY ContentOfPrefix
<1> DEFINE Fine(r) ==
        /\ Mode = "raw" /\ HasContent(r.got) => r.first # None
        /\ r.first # None => Mode = "raw" /\ HasContent(SubSeq(script, 1, r.taken))
        /\ r.first # None /\ call.style # "threads" => HasContent(r.got) /\ r.first <= r.latency
<1>6. Fine(e)
  BY <1>2, <1>5
<1>7. \A i \in DOMAIN events : Fine(events[i])
  BY DEF Timed, FirstTokenFaithful
<1> HIDE DEF Fine
<1>8. \A i \in DOMAIN events' : Fine(events'[i])
  BY <1>3, <1>6, <1>7
<1>9. QED
  BY <1>4, <1>8 DEF Fine, FirstTokenFaithful

LEMMA TimedStep ==
  ASSUME TypeOK, Timed, [Next]_vars
  PROVE  Timed'
<1> USE DEF streamVars, collectorVars, finishVars, eventVars
<1>1. now \in Nat /\ now >= now /\ now \in 0 .. MaxTime /\ now # None
  BY CallConstants DEF TypeOK
<1>2. CASE PlainReturns \/ PlainRaises \/ HelperExit
  <2>1. PICK p \in Pending, usage \in SUBSET Whole :
            /\ Emit(Event(p, usage))
            /\ p.first = None /\ Mode # "raw"
            /\ UNCHANGED <<call, script, pos, pulling, delivered, first, pend, now>>
    BY <1>2, MadeAtOnce
  <2>2. FirstTokenFaithful'
    BY <2>1, TimedEmit
  <2>3. /\ Mode' = Mode /\ HasContent(delivered') = HasContent(delivered) /\ pend = {}
    BY <2>1 DEF Mode, Timed
  <2>4. first = None
    BY <2>1 DEF Timed
  <2>5. QED
    BY <2>1, <2>2, <2>3, <2>4 DEF Timed
<1>3. ASSUME UNCHANGED <<call, script, pos, delivered, first, events, pend>>,
             now' \in Nat, now' >= now, AtContent' <=> AtContent, Handling' <=> Handling
      PROVE  Timed'
  BY <1>3, TimedSame DEF Timed
<1>4. CASE Open \/ OpenRaises \/ CloseSdk \/ CloseInner \/ Tick \/ UNCHANGED vars
  <2>1. /\ UNCHANGED <<call, script, pos, pulling, delivered, first, events, pend>>
        /\ now' \in Nat /\ now' >= now
    BY <1>1, <1>4, NothingMoves DEF Open, OpenRaises, CloseSdk, CloseInner, Tick
  <2>2. (AtContent' <=> AtContent) /\ (Handling' <=> Handling)
    BY <2>1 DEF AtContent, Handling, Swallows, Injected
  <2>3. QED
    BY <1>3, <2>1, <2>2
<1>5. CASE Pull
  <2>1. /\ UNCHANGED <<call, script, pos, delivered, first, events, pend, now>>
        /\ pulling = "none" /\ pulling' = "waiting"
    BY <1>5 DEF Pull
  <2>2. ~AtContent' /\ ~AtContent /\ ~Handling' /\ ~Handling
    BY <2>1 DEF AtContent, Handling
  <2>3. now' \in Nat /\ now' >= now
    BY <1>1, <2>1
  <2>4. QED
    BY <1>3, <2>1, <2>2, <2>3
<1>6. CASE PullEvent
  <2>1. /\ UNCHANGED <<call, script, delivered, first, events, pend, now>>
        /\ pulling = "waiting" /\ pulling' = "observed" /\ pos' = pos + 1
        /\ Free("consumer")
    BY <1>6 DEF PullEvent
  <2>2. ~AtContent' /\ ~AtContent
    BY <2>1 DEF AtContent
  <2>3. call.style # "threads" => pend' = {}
    BY <2>1 DEF Free
  <2>4. Mode' = Mode /\ HasContent(delivered') = HasContent(delivered)
    BY <2>1 DEF Mode
  <2>5. FirstTokenFaithful'
    BY <2>1, FaithfulSame DEF Timed
  <2>6. \A p \in pend' : Promised(p)'
    BY <2>1, <2>4 DEF Promised, Timed
  <2>7. \A j \in 1 .. pos : j \in 1 .. pos'
    BY <2>1, ScriptSeq
  <2>8. QED
    BY <2>1, <2>2, <2>3, <2>4, <2>5, <2>6, <2>7 DEF Timed
<1>7. CASE Stamp
  <2>1. /\ UNCHANGED <<call, script, pos, delivered, events, pend, now>>
        /\ Mode = "raw" /\ pulling = "observed" /\ pulling' = "stamped"
        /\ first' = IF ~Swallows(script[pos]) /\ first = None /\ IsContent(script[pos])
                    THEN now ELSE first
    BY <1>7 DEF Stamp, Raw
  <2>2. /\ ~AtContent /\ Handling
        /\ AtContent' <=> ~Swallows(script[pos]) /\ IsContent(script[pos])
    BY <2>1 DEF AtContent, Handling, Swallows, Injected
  <2>3. pos \in 1 .. pos
    BY <2>2, ScriptSeq DEF TypeOK
  <2>4. Mode' = Mode /\ HasContent(delivered') = HasContent(delivered)
    BY <2>1 DEF Mode
  <2>5. FirstTokenFaithful'
    BY <2>1, FaithfulSame DEF Timed
  <2>6. call.style # "threads" => pend' = {}
    BY <2>1, <2>2 DEF Timed
  <2>7. first # None => first' = first
    BY <2>1
  <2>8. \A p \in pend' : Promised(p)'
    BY <2>1, <2>4, <2>6, <2>7 DEF Promised, Timed
  <2>9. first' # None => first' = first \/ (first' = now /\ IsContent(script[pos]) /\ AtContent')
    BY <2>1, <2>2
  <2>10. AtContent' => first' # None
    BY <1>1, <2>1, <2>2
  <2>11. first' # None => /\ Mode' = "raw" /\ first' <= now'
                          /\ \E j \in 1 .. pos' : IsContent(script[j])'
    <3>1. CASE first' = first
      BY <2>1, <2>4, <3>1 DEF Timed
    <3>2. CASE first' = now /\ IsContent(script[pos])
      BY <1>1, <2>1, <2>3, <2>4, <3>2
    <3>3. QED
      BY <2>9, <3>1, <3>2
  <2>12. Mode' = "raw" /\ (HasContent(delivered') \/ AtContent') => first' # None
    BY <2>4, <2>7, <2>10 DEF Timed
  <2>13. call'.style # "threads" /\ first' # None => HasContent(delivered') \/ AtContent'
    BY <2>1, <2>2, <2>4, <2>9 DEF Timed
  <2>14. QED
    BY <2>1, <2>4, <2>5, <2>6, <2>8, <2>11, <2>12, <2>13 DEF Timed
<1>8. CASE HandOver
  <2>1. /\ UNCHANGED <<call, script, pos, first, events, pend, now>>
        /\ Mode = "raw" /\ pulling = "stamped" /\ pulling' \in {"waiting", "none"}
        /\ delivered' = IF Swallows(script[pos]) THEN delivered
                        ELSE Append(delivered, script[pos])
    BY <1>8 DEF HandOver, Raw
  <2>2. /\ ~AtContent' /\ Handling
        /\ AtContent <=> ~Swallows(script[pos]) /\ IsContent(script[pos])
    BY <2>1 DEF AtContent, Handling
  <2>3. script[pos] \in EventTypes
    <3>1. script \in Seq(EventTypes) /\ pos \in 1 .. Len(script)
      BY <2>2, ScriptSeq DEF TypeOK
    <3>2. QED
      BY <3>1, ElementOfSeq
  <2>4. HasContent(delivered') <=> HasContent(delivered) \/ AtContent
    <3>1. CASE Swallows(script[pos])
      BY <2>1, <2>2, <3>1
    <3>2. CASE ~Swallows(script[pos])
      BY <2>1, <2>2, <2>3, <3>2, HasContentMore DEF TypeOK
    <3>3. QED
      BY <3>1, <3>2
  <2>5. Mode' = Mode
    BY <2>1 DEF Mode
  <2>6. FirstTokenFaithful'
    BY <2>1, FaithfulSame DEF Timed
  <2>7. call.style # "threads" => pend' = {}
    BY <2>1, <2>2 DEF Timed
  <2>8. \A p \in pend' : Promised(p)'
    BY <2>1, <2>5, <2>7 DEF Promised, Timed
  <2>9. QED
    BY <2>1, <2>2, <2>4, <2>5, <2>6, <2>7, <2>8 DEF Timed
<1>9. CASE PullStops \/ PullRaises
  <2>1. /\ Raw /\ pulling = "waiting" /\ pulling' = "none"
        /\ \E status \in Statuses : Finish("consumer", status)
        /\ UNCHANGED <<call, script, pos, delivered, first, events, now>>
    BY <1>9 DEF PullStops, PullRaises, Statuses
  <2>2. ~AtContent' /\ ~AtContent /\ ~Handling' /\ ~Handling
    BY <2>1 DEF AtContent, Handling
  <2>3. QED
    BY <2>1, <2>2, TimedFinish
<1>10. CASE Close \/ ExitRaising \/ Forget
  <2>1. /\ Raw
        /\ \E by \in {"consumer", "closer"}, status \in Statuses : Finish(by, status)
        /\ UNCHANGED <<call, script, pos, pulling, delivered, first, events, now>>
    BY <1>10 DEF Close, ExitRaising, Forget, MayClose, Forgotten, Statuses
  <2>2. call.style # "threads" => ~Handling
    <3>1. CASE Forget
      BY <3>1 DEF Forget, Forgotten, Handling
    <3>2. CASE MayClose
      <4>1. call.style \in {"sync", "async", "threads"}
        BY KindType DEF TypeOK
      <4>2. QED
        BY <3>2, <4>1 DEF MayClose, Handling
    <3>3. QED
      BY <1>10, <3>1, <3>2 DEF Close, ExitRaising
  <2>3. (AtContent' <=> AtContent) /\ (Handling' <=> Handling)
    BY <2>1 DEF AtContent, Handling, Swallows, Injected
  <2>4. QED
    BY <2>1, <2>2, <2>3, TimedFinish
<1>11. CASE SetFinished
  <2>1. PICK p \in Pending, q \in Pending :
            /\ Advances(p, q)
            /\ p.at = "checked" /\ q.at = "flagged" /\ q.latency = p.latency /\ q.first = p.first
    BY <1>11, FlagSet
  <2>2. Promised(p) /\ q.got = p.got
    BY <2>1 DEF Advances, Timed
  <2>3. QED
    BY <2>1, <2>2, TimedAdvance DEF Promised
<1>12. CASE ReadLatency
  <2>1. PICK p \in Pending, q \in Pending :
            /\ Advances(p, q)
            /\ p.at = "flagged" /\ q.at = "timed" /\ q.latency = now /\ q.first = p.first
    BY <1>12, LatencyRead
  <2>2. Promised(p) /\ q.got = p.got
    BY <2>1 DEF Advances, Timed
  <2>3. first # None => first <= q.latency
    BY <2>1 DEF Timed
  <2>4. Promised(q)
    BY <2>1, <2>2, <2>3 DEF Promised
  <2>5. QED
    BY <2>1, <2>4, TimedAdvance
<1>13. CASE ReadFirst
  <2>1. PICK p \in Pending, q \in Pending :
            /\ Advances(p, q)
            /\ p.at = "timed" /\ q.at = "read" /\ q.latency = p.latency /\ q.first = first
    BY <1>13, FirstRead
  <2>2. Promised(p) /\ q.got = p.got
    BY <2>1 DEF Advances, Timed
  <2>3. QED
    BY <2>1, <2>2, TimedAdvance DEF Promised
<1>14. CASE Finishing
  <2>1. PICK p \in Pending :
            /\ p \in pend /\ p.at = "read" /\ pend' = pend \ {p}
            /\ Emit(Event(p, known))
            /\ UNCHANGED <<call, script, pos, pulling, delivered, first, now>>
    BY <1>14, Finished
  <2>2. known \in SUBSET Whole /\ Mode = "raw" /\ Promised(p)
    BY <2>1 DEF TypeOK, Timed
  <2>3. Mode = "raw" /\ HasContent(p.got) => p.first # None
    BY <2>1, <2>2 DEF Promised
  <2>4. p.first # None => first # None /\ \E j \in 1 .. pos : IsContent(script[j])
    BY <2>2 DEF Promised, Timed
  <2>5. p.first # None /\ call.style # "threads" => HasContent(p.got) /\ p.first <= p.latency
    <3> SUFFICES ASSUME p.first # None, call.style # "threads"
                 PROVE  HasContent(p.got) /\ p.first <= p.latency
      OBVIOUS
    <3>1. ~AtContent
      BY <2>1 DEF Timed, AtContent, Handling
    <3>2. HasContent(delivered) /\ p.got = delivered
      BY <2>2, <2>4, <3>1 DEF Timed, Promised
    <3>3. p.first <= p.latency
      BY <2>2, <2>4 DEF Promised
    <3>4. QED
      BY <3>2, <3>3
  <2>6. FirstTokenFaithful'
    BY <2>1, <2>2, <2>3, <2>4, <2>5, TimedEmit
  <2>7. /\ Mode' = Mode /\ (AtContent' <=> AtContent) /\ (Handling' <=> Handling)
        /\ HasContent(delivered') = HasContent(delivered)
    BY <2>1 DEF Mode, AtContent, Handling, Swallows, Injected
  <2>8. \A r \in pend' : Promised(r)'
    BY <2>1, <2>7 DEF Promised, Timed
  <2>9. pend' # {} => pend # {}
    BY <2>1
  <2>10. QED
    BY <2>1, <2>6, <2>7, <2>8, <2>9 DEF Timed
<1>15. CASE HelperTakes
  <2>1. /\ Mode = "helper" /\ Mode' = Mode
        /\ UNCHANGED <<call, script, first, events, pend, now>>
    BY <1>15 DEF HelperTakes, Helper, Mode
  <2>2. FirstTokenFaithful'
    BY <2>1, FaithfulSame DEF Timed
  <2>3. first' = None /\ pend' = {}
    BY <2>1 DEF Timed
  <2>4. QED
    BY <2>1, <2>2, <2>3 DEF Timed
<1>16. QED
  BY StepCases, <1>2, <1>4, <1>5, <1>6, <1>7, <1>8, <1>9, <1>10, <1>11, <1>12, <1>13, <1>14, <1>15

\* Content that reached the caller of a raw stream before its finish was called has
\* left a first_token_ms, and there is none without content taken, even with threads
\* that share the stream; for any other stream it tells just what the caller got, and
\* is at most latency_ms.
THEOREM FirstTokenTrue == Spec => []FirstTokenFaithful
<1>1. Init => TypeOK /\ Timed
  BY TypeInit, TimedInit
<1>2. TypeOK /\ Timed /\ [Next]_vars => TypeOK' /\ Timed'
  BY TypeStep, TimedStep
<1>3. Timed => FirstTokenFaithful
  BY DEF Timed
<1>4. QED
  BY <1>1, <1>2, <1>3, PTL DEF Spec

-----------------------------------------------------------------------------
(* What the caller is handed.                                              *)

\* How many of the events sent are the caller's.
Shows == IF Injected /\ script[Len(script)] = "usage_chunk" THEN Len(script) - 1 ELSE Len(script)

\* How many of those it should have been handed: _handle is still at the last one.
HandedOf(n) == IF n <= Shows THEN n ELSE Shows

Handed == HandedOf(IF Handling THEN pos - 1 ELSE pos)

Relayed == /\ delivered = SubSeq(script, 1, Handed)
           /\ saw = "stop" => pos = Len(script) /\ ~Handling
           /\ pulling # "none" => Mode = "raw" /\ saw # "stop"

\* No stream is empty, and a usage chunk ends its stream.
LEMMA ChunkIsLast ==
  ASSUME TypeOK
  PROVE  /\ Len(script) # 0
         /\ \A i \in 1 .. Len(script) : script[i] = "usage_chunk" => i = Len(script)
<1>1. \/ script = <<"message_start", "content", "message_delta", "message_stop">>
      \/ script = <<"message_start", "message_delta", "message_stop">>
      \/ script = <<"chunk", "usage_chunk">> \/ script = <<"chunk", "chunk_with_usage">>
      \/ script = <<"chunk">>
      \/ script = <<"created", "text_delta", "completed">>
      \/ script = <<"created", "incomplete">>
  BY KindType DEF TypeOK, Scripts, Apis
<1>2. CASE script = <<"message_start", "content", "message_delta", "message_stop">>
  BY <1>2
<1>3. CASE script = <<"message_start", "message_delta", "message_stop">>
  BY <1>3
<1>4. CASE script = <<"chunk", "usage_chunk">>
  <2>1. Len(script) = 2 /\ script[1] = "chunk"
    BY <1>4
  <2>2. QED
    BY <2>1
<1>5. CASE script = <<"chunk", "chunk_with_usage">>
  BY <1>5
<1>6. CASE script = <<"chunk">>
  BY <1>6
<1>7. CASE script = <<"created", "text_delta", "completed">>
  BY <1>7
<1>8. CASE script = <<"created", "incomplete">>
  BY <1>8
<1>9. QED
  BY <1>1, <1>2, <1>3, <1>4, <1>5, <1>6, <1>7, <1>8

LEMMA ShowsType ==
  ASSUME TypeOK
  PROVE  Shows \in 0 .. Len(script) /\ Handed \in 0 .. Shows
<1>1. pos \in Nat /\ Len(script) \in Nat /\ (Handling => pos > 0)
  BY ScriptSeq DEF TypeOK
<1>2. Shows \in 0 .. Len(script)
  BY <1>1, ChunkIsLast DEF Shows
<1>3. QED
  BY <1>1, <1>2 DEF Handed, HandedOf

LEMMA ExpectedShows ==
  ASSUME TypeOK
  PROVE  Expected = SubSeq(script, 1, Shows)
BY UsageOfAll DEF Expected, Shows, Last, Front

\* An event is handed on unless it is the chunk the caller did not ask for.
LEMMA NextHanded ==
  ASSUME TypeOK, NEW n \in 1 .. Len(script)
  PROVE  /\ Swallows(script[n]) => Shows = n - 1
         /\ ~Swallows(script[n]) => n <= Shows
<1>1. n \in Nat /\ Len(script) \in Nat
  BY ScriptSeq
<1>2. ASSUME Swallows(script[n]) PROVE Shows = n - 1
  <2>1. Injected /\ script[n] = "usage_chunk" /\ n = Len(script)
    BY <1>1, <1>2, ChunkIsLast DEF Swallows
  <2>2. QED
    BY <1>1, <2>1 DEF Shows
<1>3. ASSUME ~Swallows(script[n]) PROVE n <= Shows
  <2>1. CASE Injected /\ script[Len(script)] = "usage_chunk"
    <3>1. n # Len(script)
      BY <1>3, <2>1 DEF Swallows
    <3>2. QED
      BY <1>1, <2>1, <3>1 DEF Shows
  <2>2. CASE ~(Injected /\ script[Len(script)] = "usage_chunk")
    BY <1>1, <2>2 DEF Shows
  <2>3. QED
    BY <2>1, <2>2
<1>4. QED
  BY <1>2, <1>3

LEMMA RelayedInit == Init => Relayed
<1> SUFFICES ASSUME Init PROVE Relayed
  OBVIOUS
<1>1. TypeOK /\ pos = 0 /\ delivered = <<>> /\ saw = None
  BY TypeInit DEF Init
<1>2. pulling = "none" /\ Handed = 0
  BY <1>1, ShowsType DEF Handed, HandedOf, Handling, Init
<1>3. QED
  BY <1>1, <1>2, SubSeqEmpty, CallConstants DEF Relayed

\* Nothing that Relayed speaks of moves.
LEMMA RelayedSame ==
  ASSUME Relayed, UNCHANGED <<call, script, pos, pulling, saw, delivered>>
  PROVE  Relayed'
<1>1. Shows' = Shows /\ Handling' = Handling /\ Mode' = Mode
  BY DEF Shows, Injected, Handling, Mode
<1>2. Handed' = Handed
  BY <1>1 DEF Handed, HandedOf
<1>3. QED
  BY <1>1, <1>2 DEF Relayed

\* Event n is handed on if it is the caller's.
LEMMA RelayedNext ==
  ASSUME TypeOK, NEW n \in 1 .. Len(script), delivered = SubSeq(script, 1, HandedOf(n - 1)),
         delivered' = IF Swallows(script[n]) THEN delivered ELSE Append(delivered, script[n])
  PROVE  delivered' = SubSeq(script, 1, HandedOf(n))
<1>1. /\ n \in Nat /\ Len(script) \in Nat /\ script \in Seq(EventTypes)
      /\ Shows \in 0 .. Len(script)
  BY ScriptSeq, ShowsType
<1>2. CASE Swallows(script[n])
  BY <1>1, <1>2, NextHanded DEF HandedOf
<1>3. CASE ~Swallows(script[n])
  <2>1. HandedOf(n - 1) = n - 1 /\ HandedOf(n) = n
    BY <1>1, <1>3, NextHanded DEF HandedOf
  <2>2. delivered' = Append(SubSeq(script, 1, n - 1), script[n])
    BY <1>3, <2>1
  <2>3. delivered \in Seq(EventTypes) /\ delivered = SubSeq(script, 1, n - 1)
    BY <2>1 DEF TypeOK
  <2>4. script[n] \in EventTypes
    BY <1>1, ElementOfSeq
  <2>5. Append(SubSeq(script, 1, n - 1), script[n]) = SubSeq(script, 1, n - 1) \o <<script[n]>>
    BY <2>3, <2>4, AppendIsConcat
  <2>6. SubSeq(script, 1, n) = SubSeq(script, 1, n - 1) \o <<script[n]>>
    <3>1. 1 \in 1 .. Len(script)
      BY <1>1
    <3>2. QED
      BY <1>1, <3>1, SubSeqRecursiveSecond
  <2>7. QED
    BY <2>1, <2>2, <2>5, <2>6
<1>4. QED
  BY <1>2, <1>3

LEMMA RelayedStep ==
  ASSUME TypeOK, Relayed, [Next]_vars
  PROVE  Relayed'
<1> USE DEF streamVars, collectorVars, finishVars, eventVars
<1>1. CASE \/ Open \/ OpenRaises \/ Close \/ ExitRaising \/ CloseSdk \/ CloseInner \/ Forget
           \/ Tick \/ UNCHANGED vars
  <2>1. UNCHANGED <<call, script, pos, pulling, saw, delivered>>
    BY <1>1, NothingMoves DEF Open, OpenRaises, Close, ExitRaising, CloseSdk, CloseInner,
       Forget, Tick
  <2>2. QED
    BY <2>1, RelayedSame
<1>2. CASE PlainReturns \/ PlainRaises \/ HelperExit
  <2>1. UNCHANGED <<call, script, pos, pulling, saw, delivered>>
    BY <1>2, MadeAtOnce
  <2>2. QED
    BY <2>1, RelayedSame
<1>3. CASE SetFinished \/ ReadLatency \/ ReadFirst
  <2>1. UNCHANGED <<call, script, pos, pulling, saw, delivered>>
    BY <1>3, FlagSet, LatencyRead, FirstRead DEF Advances
  <2>2. QED
    BY <2>1, RelayedSame
<1>4. CASE Finishing
  <2>1. UNCHANGED <<call, script, pos, pulling, saw, delivered>>
    BY <1>4, Finished
  <2>2. QED
    BY <2>1, RelayedSame
<1>5. ASSUME UNCHANGED <<call, script>> PROVE Shows' = Shows /\ Mode' = Mode
  BY <1>5 DEF Shows, Injected, Mode
<1>6. /\ pos \in Nat /\ Len(script) \in Nat /\ script \in Seq(EventTypes)
      /\ Handling => pos \in 1 .. Len(script)
  BY ScriptSeq DEF TypeOK
<1>7. CASE Pull \/ PullStops \/ PullRaises
  <2>1. /\ UNCHANGED <<call, script, pos, delivered>> /\ Mode = "raw"
        /\ pulling \in {"none", "waiting"} /\ pulling' \in {"none", "waiting"}
        /\ pulling' # "none" => saw' = None
        /\ saw' = "stop" => pos = Len(script)
    BY <1>7, CallConstants DEF Pull, PullStops, PullRaises, Raw
  <2>2. ~Handling /\ ~Handling'
    BY <2>1 DEF Handling
  <2>3. Handed' = Handed
    BY <1>5, <2>1, <2>2 DEF Handed, HandedOf
  <2>4. QED
    BY <1>5, <2>1, <2>2, <2>3, CallConstants DEF Relayed
<1>8. CASE PullEvent
  <2>1. /\ UNCHANGED <<call, script, delivered, saw>> /\ Mode = "raw"
        /\ pulling = "waiting" /\ pulling' = "observed" /\ pos' = pos + 1
    BY <1>8 DEF PullEvent, Raw
  <2>2. ~Handling /\ Handling' /\ pos' - 1 = pos
    BY <1>6, <2>1 DEF Handling
  <2>3. Handed' = Handed
    BY <1>5, <2>1, <2>2 DEF Handed, HandedOf
  <2>4. saw # "stop"
    BY <2>1 DEF Relayed
  <2>5. QED
    BY <1>5, <2>1, <2>3, <2>4 DEF Relayed
<1>9. CASE Stamp
  <2>1. /\ UNCHANGED <<call, script, pos, delivered, saw>>
        /\ pulling = "observed" /\ pulling' = "stamped"
    BY <1>9 DEF Stamp
  <2>2. Handling /\ Handling'
    BY <2>1 DEF Handling
  <2>3. Handed' = Handed
    BY <1>5, <2>1, <2>2 DEF Handed, HandedOf
  <2>4. QED
    BY <1>5, <2>1, <2>2, <2>3 DEF Relayed
<1>10. CASE HandOver
  <2>1. /\ UNCHANGED <<call, script, pos, saw>> /\ Mode = "raw"
        /\ pulling = "stamped" /\ pulling' \in {"none", "waiting"}
        /\ delivered' = IF Swallows(script[pos]) THEN delivered
                        ELSE Append(delivered, script[pos])
    BY <1>10 DEF HandOver, Raw
  <2>2. Handling /\ ~Handling'
    BY <2>1 DEF Handling
  <2>3. delivered' = SubSeq(script, 1, HandedOf(pos))
    BY <1>6, <2>1, <2>2, RelayedNext DEF Relayed, Handed
  <2>4. HandedOf(pos) = Handed'
    BY <1>5, <2>1, <2>2 DEF Handed, HandedOf
  <2>5. saw # "stop"
    BY <2>1 DEF Relayed
  <2>6. QED
    BY <1>5, <2>1, <2>2, <2>3, <2>4, <2>5 DEF Relayed
<1>11. CASE HelperTakes
  <2>1. /\ UNCHANGED <<call, script, pulling, saw>> /\ Mode = "helper"
        /\ pos < Len(script) /\ pos' = pos + 1
        /\ delivered' = Append(delivered, script[pos + 1])
    BY <1>11 DEF HelperTakes, Helper
  <2>2. ~Swallows(script[pos + 1])
    BY <2>1 DEF Mode, Swallows, Injected
  <2>3. ~Handling /\ ~Handling'
    BY <2>1 DEF Relayed, Handling
  <2>4. pos + 1 \in 1 .. Len(script) /\ pos + 1 - 1 = pos
    BY <1>6, <2>1
  <2>5. delivered' = SubSeq(script, 1, HandedOf(pos + 1))
    <3>1. PICK n : n = pos + 1
      OBVIOUS
    <3>2. n \in 1 .. Len(script)
      BY <2>4, <3>1
    <3>3. n - 1 = pos
      BY <1>6, <3>1
    <3>4. delivered = SubSeq(script, 1, HandedOf(n - 1))
      BY <2>3, <3>3 DEF Relayed, Handed
    <3>5. delivered' = IF Swallows(script[n]) THEN delivered ELSE Append(delivered, script[n])
      BY <2>1, <2>2, <3>1
    <3>6. delivered' = SubSeq(script, 1, HandedOf(n))
      BY <3>2, <3>4, <3>5, RelayedNext
    <3>7. QED
      BY <3>1, <3>6
  <2>6. HandedOf(pos + 1) = Handed'
    BY <1>5, <2>1, <2>3 DEF Handed, HandedOf
  <2>7. saw # "stop"
    BY <1>6, <2>1 DEF Relayed
  <2>8. QED
    BY <1>5, <2>1, <2>5, <2>6, <2>7 DEF Relayed
<1>12. QED
  BY StepCases, <1>1, <1>2, <1>3, <1>4, <1>7, <1>8, <1>9, <1>10, <1>11

\* A prefix of the events is a prefix of a longer one.
LEMMA PrefixOfPrefix ==
  ASSUME TypeOK, NEW n \in 0 .. Len(script), NEW k \in 0 .. n
  PROVE  IsPrefix(SubSeq(script, 1, k), SubSeq(script, 1, n))
<1>1. script \in Seq(EventTypes) /\ Len(script) \in Nat /\ n \in Nat /\ k \in Nat
  BY ScriptSeq
<1>2. ASSUME NEW j \in 0 .. Len(script)
      PROVE  SubSeq(script, 1, j) \in Seq(EventTypes) /\ Len(SubSeq(script, 1, j)) = j
  <2>1. 1 \in Int /\ j \in Int /\ \A i \in 1 .. j : script[i] \in EventTypes
    BY <1>1
  <2>2. /\ SubSeq(script, 1, j) \in Seq(EventTypes)
        /\ Len(SubSeq(script, 1, j)) = IF 1 <= j THEN j - 1 + 1 ELSE 0
    BY <2>1, SubSeqProperties
  <2>3. QED
    BY <1>1, <2>2
<1>3. k \in 0 .. Len(script)
  BY <1>1
<1>4. SubSeq(SubSeq(script, 1, k), 1, k) = SubSeq(script, 1, k)
  BY <1>2, <1>3, SubSeqFull
<1>5. SubSeq(SubSeq(script, 1, n), 1, k) = SubSeq(script, 1, k)
  <2>1. CASE k = 0
    BY <1>1, <2>1, SubSeqEmpty
  <2>2. CASE k # 0
    <3>1. /\ 1 \in 1 .. Len(script) /\ n \in 1 .. Len(script)
          /\ 1 \in 1 .. n - 1 + 1 /\ k \in 1 .. n - 1 + 1
          /\ 1 + 1 - 1 = 1 /\ 1 + k - 1 = k
      BY <1>1, <2>2
    <3>2. SubSeq(SubSeq(script, 1, n), 1, k) = SubSeq(script, 1 + 1 - 1, 1 + k - 1)
      BY <1>1, <3>1, SubSeqOfSubSeq
    <3>3. QED
      BY <3>1, <3>2
  <2>3. QED
    BY <2>1, <2>2
<1>6. QED
  BY <1>1, <1>2, <1>3, <1>4, <1>5 DEF IsPrefix

\* The caller of a wrapped client is handed what the unwrapped one would hand it, in
\* order, and told of the end only at the end, even by threads that share a stream.
THEOREM HostUntouched == Spec => []CallerStreamUntouched
<1>1. Init => TypeOK /\ Relayed
  BY TypeInit, RelayedInit
<1>2. TypeOK /\ Relayed /\ [Next]_vars => TypeOK' /\ Relayed'
  BY TypeStep, RelayedStep
<1>3. TypeOK /\ Relayed => CallerStreamUntouched
  <2> SUFFICES ASSUME TypeOK, Relayed PROVE CallerStreamUntouched
    OBVIOUS
  <2>1. IsPrefix(delivered, Expected)
    BY ShowsType, ExpectedShows, PrefixOfPrefix DEF Relayed
  <2>2. saw = "stop" => delivered = Expected
    BY ShowsType, ScriptSeq, ExpectedShows DEF Relayed, Handed, HandedOf
  <2>3. QED
    BY <2>1, <2>2 DEF CallerStreamUntouched
<1>4. QED
  BY <1>1, <1>2, <1>3, PTL DEF Spec

=============================================================================
