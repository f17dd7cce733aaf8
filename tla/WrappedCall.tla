----------------------------- MODULE WrappedCall ----------------------------
(***************************************************************************)
(* One call through a wrapped client, from the SDK request to the ledger   *)
(* event it leaves: wrapper.py, streaming.py and the stream collectors of  *)
(* providers/.  Wrappers of different calls share nothing, so one call of  *)
(* each kind shows all there is; Init chooses the kind.                    *)
(*                                                                         *)
(* A streamed call is a race between the provider, which sends events and  *)
(* may fail at any point, and the program that wrapped the client, which   *)
(* pulls, closes, leaves its with-block or forgets the stream.  With an    *)
(* asyncio stream the second can happen while a pull waits; with threads   *)
(* it can also happen inside _RecordingBase._handle and _finish, so both   *)
(* are modelled one read or write of a shared field at a time.             *)
(***************************************************************************)
EXTENDS Naturals, Sequences, SequencesExt

CONSTANTS Kinds,       \* the calls Init chooses from
          MaxTime,     \* bound on the clock
          None

VARIABLES call,        \* the call made: api, path, streamed, optedIn, style
          script,      \* what the provider will send on this stream
          pos,         \* events of it the wrapper has taken
          phase,       \* new | open | raised (create() raised) | gone
          pulling,     \* __next__ or __anext__: none | waiting (for the provider) |
                       \* observed | stamped (inside _handle)
          saw,         \* how the stream ended for the caller: None | stop | raise
          delivered,   \* events handed to the caller
          closing,     \* a close is past its _finish, or inside it
          closed,      \* the SDK's stream has been closed
          known,       \* usage the collector holds
          completed,   \* StreamCollector.completed
          first,       \* _first_token_ms
          finished,    \* _finished
          pend,        \* threads past the check of _finished, and what they have read
          events,      \* events given to Recorder.record
          unbuilt,     \* events that could not be built: logged, and swallowed
          now

collectorVars == <<known, completed, first>>
streamVars    == <<pos, pulling, saw, delivered, closing, closed>>
eventVars     == <<events, unbuilt>>
finishVars    == <<finished, pend, eventVars>>
vars == <<call, script, phase, streamVars, collectorVars, finishVars, now>>

-----------------------------------------------------------------------------
(* The SDKs, as far as the wrapper depends on them.                        *)

Apis == {"anthropic", "chat", "responses"}

EventTypes == {"message_start", "content", "message_delta", "message_stop",
               "chunk", "usage_chunk", "chunk_with_usage",
               "created", "text_delta", "completed", "incomplete"}

\* What a provider may stream, usage last or in two halves or not at all.
Scripts(api) ==
    CASE api = "anthropic" -> {<<"message_start", "content", "message_delta", "message_stop">>,
                               <<"message_start", "message_delta", "message_stop">>}
      [] api = "chat"      -> {<<"chunk", "usage_chunk">>, <<"chunk", "chunk_with_usage">>,
                               <<"chunk">>}
      [] api = "responses" -> {<<"created", "text_delta", "completed">>,
                               <<"created", "incomplete">>}

\* The halves of the usage an event carries.
Carries(e) == CASE e = "message_start" -> {"input"}
                [] e = "message_delta" -> {"output"}
                [] e \in {"usage_chunk", "chunk_with_usage", "completed", "incomplete"}
                       -> {"input", "output"}
                [] OTHER -> {}

UsageIn(s) == UNION {Carries(s[i]) : i \in DOMAIN s}

Whole == {"input", "output"}                      \* usage of a plain response

ASSUME CallConstants ==
    /\ Kinds \subseteq [api : Apis, path : {"create", "stream"}, streamed : BOOLEAN,
                        optedIn : BOOLEAN, style : {"sync", "async", "threads"}]
    /\ MaxTime \in Nat /\ None \notin Nat \cup {"stop", "raise"}

-----------------------------------------------------------------------------
(* The collectors.                                                         *)

IsContent(e) == e \in {"content", "chunk", "chunk_with_usage", "text_delta"}

\* message_stop, a chat chunk with usage, response.completed.
Completes(e) == e \in {"message_stop", "usage_chunk", "chunk_with_usage", "completed"}

\* Chat only: prepare_stream asks for the usage chunk unless the caller did.
Injected == call.api = "chat" /\ ~call.optedIn

MutSwallowsUnasked(e) == call.api = "chat" /\ e = "usage_chunk"
Swallows(e) == Injected /\ e = "usage_chunk"      \* a chunk with usage, no choices

\* What the caller would see had it used the client unwrapped.  The usage chunk is
\* the last one, if there is one.
Expected == IF Injected /\ Last(script) = "usage_chunk" THEN Front(script) ELSE script

-----------------------------------------------------------------------------
(* Dispatch: _instrument.                                                  *)

Mode == IF call.path = "stream"
        THEN IF call.api = "anthropic" THEN "helper" ELSE "unrecorded"
        ELSE IF call.streamed THEN "raw" ELSE "plain"

\* A call of _finish that found _finished unset; "stream_abandoned" stands for status
\* "error" with that error_type, "error" for one with any other.  at is how far the call
\* has come; got is history: what the caller had been handed when it was made.
Steps == {"checked", "flagged", "timed", "read"}
Attempt(by, status) ==
    [by |-> by, status |-> status, at |-> "checked", latency |-> now, first |-> None,
     got |-> delivered]

\* The event an attempt leaves.  taken and ended are history: what the wrapper had
\* taken and how the stream had ended.
Event(p, usage) ==
    [status |-> p.status, usage |-> usage, first |-> p.first, latency |-> p.latency,
     got |-> p.got, taken |-> pos, ended |-> saw]

\* Hashing the prompt or normalizing the usage may raise: no event then, and no
\* drop counted, but nothing reaches the caller.
Emit(e) == \/ events' = Append(events, e) /\ UNCHANGED unbuilt
           \/ unbuilt' = unbuilt + 1 /\ UNCHANGED events

Init == /\ call \in Kinds
        /\ script \in Scripts(call.api)
        /\ pos = 0
        /\ phase = "new"
        /\ pulling = "none"
        /\ saw = None
        /\ delivered = <<>>
        /\ closing = FALSE
        /\ closed = FALSE
        /\ known = {}
        /\ completed = FALSE
        /\ first = None
        /\ finished = FALSE
        /\ pend = {}
        /\ events = <<>>
        /\ unbuilt = 0
        /\ now = 0

\* A plain call returns: one event with the response's usage.
PlainReturns == /\ phase = "new" /\ Mode = "plain"
                /\ Emit(Event(Attempt("consumer", "ok"), Whole))
                /\ phase' = "gone"
                /\ UNCHANGED <<call, script, streamVars, collectorVars, finished, pend, now>>

\* A plain call raises: one event, status error, before the exception goes on.
PlainRaises == /\ phase = "new" /\ Mode = "plain"
               /\ Emit(Event(Attempt("consumer", "error"), {}))
               /\ phase' = "raised"
               /\ UNCHANGED <<call, script, streamVars, collectorVars, finished, pend, now>>

\* create(stream=True), or __enter__ of the helper, returns a stream.
Open == /\ phase = "new" /\ Mode # "plain"
        /\ phase' = "open"
        /\ UNCHANGED <<call, script, streamVars, collectorVars, finishVars, now>>

\* It raises instead: nothing encloses it, the exception goes to the caller.
OpenRaises == /\ phase = "new" /\ Mode # "plain"
              /\ phase' = "raised"
              /\ UNCHANGED <<call, script, streamVars, collectorVars, finishVars, now>>

-----------------------------------------------------------------------------
(* RecordingStream and AsyncRecordingStream.                               *)

Raw == phase = "open" /\ Mode = "raw"

Handling == pulling \in {"observed", "stamped"}

\* Only threads can act while another is inside _finish, and a thread only one
\* step at a time.
Free(by) == IF call.style = "threads" THEN \A p \in pend : p.by # by ELSE pend = {}

\* Close or leave the with-block: for a plain iterator only between two pulls, for an
\* asyncio one also while a pull waits.
MayClose == /\ Raw /\ Free("closer") /\ ~closing
            /\ call.style = "sync" => pulling = "none"
            /\ call.style = "async" => ~Handling

\* The check of _finished; the four actions that follow are the rest of _finish.
Finish(by, status) ==
    pend' = IF finished THEN pend ELSE pend \cup {Attempt(by, status)}

Becomes(p, q) == pend' = (pend \ {p}) \cup {q}

MutSetFinishedNever == \E p \in pend :
    /\ p.at = "checked"
    /\ Becomes(p, [p EXCEPT !.at = "flagged"])
    /\ UNCHANGED <<call, script, phase, streamVars, collectorVars, finished, eventVars, now>>

SetFinished == \E p \in pend :
    /\ p.at = "checked"
    /\ finished' = TRUE
    /\ Becomes(p, [p EXCEPT !.at = "flagged"])
    /\ UNCHANGED <<call, script, phase, streamVars, collectorVars, eventVars, now>>

\* The arguments of _finish_cb, from left to right.
ReadLatency == \E p \in pend :
    /\ p.at = "flagged"
    /\ Becomes(p, [p EXCEPT !.at = "timed", !.latency = now])
    /\ UNCHANGED <<call, script, phase, streamVars, collectorVars, finished, eventVars, now>>

ReadFirst == \E p \in pend :
    /\ p.at = "timed"
    /\ Becomes(p, [p EXCEPT !.at = "read", !.first = first])
    /\ UNCHANGED <<call, script, phase, streamVars, collectorVars, finished, eventVars, now>>

\* _finish_cb: the event, with what the collector holds by now.
Finishing == \E p \in pend :
    /\ p.at = "read"
    /\ pend' = pend \ {p}
    /\ Emit(Event(p, known))
    /\ UNCHANGED <<call, script, phase, streamVars, collectorVars, finished, now>>

Pull == /\ Raw /\ Free("consumer") /\ pulling = "none" /\ saw = None
        /\ call.style = "sync" => ~closing
        /\ pulling' = "waiting"
        /\ UNCHANGED <<call, script, phase, pos, saw, delivered, closing, closed, collectorVars,
                       finishVars, now>>

\* The provider's next event comes, and _handle has the collector observe it.
MutPullEventDropsSwallowed ==
    /\ Raw /\ Free("consumer") /\ pulling = "waiting" /\ ~closed /\ pos < Len(script)
    /\ LET e == script[pos + 1] IN
       /\ pos' = pos + 1
       /\ known' = IF Swallows(e) THEN known ELSE known \cup Carries(e)
       /\ completed' = (completed \/ Completes(e))
    /\ pulling' = "observed"
    /\ UNCHANGED <<call, script, phase, saw, delivered, closing, closed, first, finishVars, now>>

PullEvent ==
    /\ Raw /\ Free("consumer") /\ pulling = "waiting" /\ ~closed /\ pos < Len(script)
    /\ pos' = pos + 1
    /\ known' = known \cup Carries(script[pos + 1])
    /\ completed' = (completed \/ Completes(script[pos + 1]))
    /\ pulling' = "observed"
    /\ UNCHANGED <<call, script, phase, saw, delivered, closing, closed, first, finishVars, now>>

\* The rest of _handle: the time of the first event with content.
MutStampFirstOfAll ==
    /\ Raw /\ pulling = "observed"
    /\ first' = IF ~Swallows(script[pos]) /\ first = None THEN now ELSE first
    /\ pulling' = "stamped"
    /\ UNCHANGED <<call, script, phase, pos, saw, delivered, closing, closed, known, completed,
                   finishVars, now>>

Stamp ==
    /\ Raw /\ pulling = "observed"
    /\ first' = IF ~Swallows(script[pos]) /\ first = None /\ IsContent(script[pos])
                THEN now ELSE first
    /\ pulling' = "stamped"
    /\ UNCHANGED <<call, script, phase, pos, saw, delivered, closing, closed, known, completed,
                   finishVars, now>>

\* The event goes to the caller, or the pull goes on with the next one.
HandOver ==
    /\ Raw /\ pulling = "stamped"
    /\ IF Swallows(script[pos]) THEN pulling' = "waiting" /\ UNCHANGED delivered
       ELSE pulling' = "none" /\ delivered' = Append(delivered, script[pos])
    /\ UNCHANGED <<call, script, phase, pos, saw, closing, closed, collectorVars, finishVars, now>>

PullStops == /\ Raw /\ Free("consumer") /\ pulling = "waiting" /\ ~closed /\ pos = Len(script)
             /\ Finish("consumer", "ok")
             /\ pulling' = "none"
             /\ saw' = "stop"
             /\ UNCHANGED <<call, script, phase, pos, delivered, closing, closed, collectorVars,
                            finished, eventVars, now>>

\* The provider fails, the task is cancelled, or the stream was closed under it.
MutPullRaisesUnrecorded ==
    /\ Raw /\ Free("consumer") /\ pulling = "waiting"
    /\ pulling' = "none"
    /\ saw' = "raise"
    /\ UNCHANGED <<call, script, phase, pos, delivered, closing, closed, collectorVars,
                   finishVars, now>>

PullRaises == /\ Raw /\ Free("consumer") /\ pulling = "waiting"
              /\ Finish("consumer", "error")
              /\ pulling' = "none"
              /\ saw' = "raise"
              /\ UNCHANGED <<call, script, phase, pos, delivered, closing, closed, collectorVars,
                             finished, eventVars, now>>

\* close(), aclose(), or the end of the with-block without an exception: the event is
\* recorded first.
Close == /\ MayClose
         /\ Finish("closer", "stream_abandoned")
         /\ closing' = TRUE
         /\ UNCHANGED <<call, script, phase, pos, pulling, saw, delivered, closed, collectorVars,
                        finished, eventVars, now>>

\* An exception of the caller's own leaves the with-block.
ExitRaising == /\ MayClose
               /\ Finish("closer", "error")
               /\ closing' = TRUE
               /\ UNCHANGED <<call, script, phase, pos, pulling, saw, delivered, closed,
                              collectorVars, finished, eventVars, now>>

\* After its _finish, a close closes the SDK's stream, or leaves the SDK's with-block.
CloseSdk == /\ closing /\ Free("closer")
            /\ closed' = TRUE
            /\ closing' = FALSE
            /\ UNCHANGED <<call, script, phase, pos, pulling, saw, delivered, collectorVars,
                           finishVars, now>>

\* close() of an async stream is the SDK's own, reached through __getattr__.
CloseInner == /\ MayClose /\ call.style = "async" /\ ~closed
              /\ closed' = TRUE
              /\ UNCHANGED <<call, script, phase, pos, pulling, saw, delivered, closing,
                             collectorVars, finishVars, now>>

\* Nothing refers to the wrapper any more: __del__.
Forgotten == Raw /\ pend = {} /\ pulling = "none" /\ ~closing

MutForgetSilently ==
    /\ Forgotten
    /\ phase' = "gone"
    /\ UNCHANGED <<call, script, streamVars, collectorVars, finishVars, now>>

Forget == /\ Forgotten
          /\ Finish("consumer", "stream_abandoned")
          /\ phase' = "gone"
          /\ UNCHANGED <<call, script, streamVars, collectorVars, finished, eventVars, now>>

-----------------------------------------------------------------------------
(* RecordingStreamManager: the caller holds the SDK's own stream, which     *)
(* accumulates a snapshot however it is consumed.                           *)

Helper == phase = "open" /\ Mode = "helper"

HelperTakes == /\ Helper /\ pos < Len(script)
               /\ pos' = pos + 1
               /\ delivered' = Append(delivered, script[pos + 1])
               /\ known' = known \cup Carries(script[pos + 1])
               /\ completed' = (completed \/ script[pos + 1] = "message_delta")
               /\ UNCHANGED <<call, script, phase, pulling, saw, closing, closed, first, finishVars,
                              now>>

\* __exit__ records first and then leaves the SDK's manager; the snapshot has a
\* stop_reason once the message_delta is in.
HelperExit == /\ Helper
              /\ \E status \in {"error",                       \* with an exception
                              IF completed THEN "ok" ELSE "stream_abandoned"} :
                    Emit(Event(Attempt("consumer", status), known))
              /\ finished' = TRUE
              /\ phase' = "gone"
              /\ UNCHANGED <<call, script, streamVars, collectorVars, pend, now>>

-----------------------------------------------------------------------------
Tick == /\ phase \in {"new", "open"} \/ pend # {}
        /\ now < MaxTime
        /\ now' = now + 1
        /\ UNCHANGED <<call, script, phase, streamVars, collectorVars, finishVars>>

\* The call is over, or its stream is of the kind that is passed through.
Over == /\ pend = {}
        /\ phase \in {"gone", "raised"} \/ (phase = "open" /\ Mode = "unrecorded")
        /\ UNCHANGED vars

Next == \/ PlainReturns \/ PlainRaises \/ Open \/ OpenRaises
        \/ Pull \/ PullEvent \/ Stamp \/ HandOver \/ PullStops \/ PullRaises
        \/ Close \/ ExitRaising \/ CloseSdk \/ CloseInner \/ Forget
        \/ SetFinished \/ ReadLatency \/ ReadFirst \/ Finishing
        \/ HelperTakes \/ HelperExit
        \/ Tick \/ Over

\* A pull comes back (the SDK has timeouts), a thread inside _handle, _finish or close
\* goes on, and the caller lets go of what it opened: CPython then runs __del__ at once.
Fairness == /\ WF_vars(PullEvent \/ PullStops \/ PullRaises)
            /\ WF_vars(Stamp \/ HandOver)
            /\ WF_vars(SetFinished \/ ReadLatency \/ ReadFirst \/ Finishing)
            /\ WF_vars(CloseSdk)
            /\ WF_vars(Forget)
            /\ WF_vars(HelperExit)

Spec == Init /\ [][Next]_vars /\ Fairness

-----------------------------------------------------------------------------
(* Properties.                                                             *)

Statuses == {"ok", "error", "stream_abandoned"}

\* The shape of the state.
TypeOK == /\ call \in Kinds /\ script \in Scripts(call.api)
          /\ pos \in 0 .. Len(script)
          /\ phase \in {"new", "open", "raised", "gone"}
          /\ pulling \in {"none", "waiting", "observed", "stamped"}
          /\ Handling => pos > 0
          /\ closing \in BOOLEAN /\ closed \in BOOLEAN
          /\ saw \in {None, "stop", "raise"} /\ delivered \in Seq(EventTypes)
          /\ known \subseteq Whole /\ completed \in BOOLEAN
          /\ first \in 0 .. MaxTime \cup {None}
          /\ finished \in BOOLEAN
          /\ pend \subseteq [by : {"consumer", "closer"}, status : Statuses, at : Steps,
                             latency : 0 .. MaxTime, first : 0 .. MaxTime \cup {None},
                             got : Seq(EventTypes)]
          /\ events \in Seq([status : Statuses, usage : SUBSET Whole,
                             first : 0 .. MaxTime \cup {None}, latency : 0 .. MaxTime,
                             got : Seq(EventTypes), taken : Nat, ended : {None, "stop", "raise"}])
          /\ unbuilt \in Nat
          /\ now \in 0 .. MaxTime

Attempts == Len(events) + unbuilt

\* Exactly one ledger event per stream, or one attempt at it that failed, whichever
\* of exhaustion, failure, close, with-block exit and garbage collection come
\* together (streaming.py, module docstring).  Threads that share a stream are left
\* out: two of them can both pass the check of _finished.
OneEventPerCall ==
    call.style # "threads" =>
        /\ \A p, q \in pend : p = q
        /\ pend # {} => Attempts = 0
        /\ Attempts <= 1
        /\ phase = "gone" /\ pend = {} => Attempts = 1

\* The caller sees what it would have seen unwrapped: every event, in order, less
\* the usage chunk it did not ask for; and the end only at the end (D12).
CallerStreamUntouched ==
    /\ IsPrefix(delivered, Expected)
    /\ saw = "stop" => delivered = Expected

\* An event holds the usage of everything the wrapper had taken by then, swallowed
\* chunks included, and that of an ok event is all the provider sent: a streamed
\* call costs what its plain twin costs.
UsageFaithful ==
    \A i \in DOMAIN events :
        Mode # "plain" =>
            /\ events[i].usage = UsageIn(SubSeq(script, 1, events[i].taken))
            /\ events[i].status = "ok" => events[i].usage = UsageIn(script)

HasContent(s) == \E j \in DOMAIN s : IsContent(s[j])

\* Content that reached the caller of a raw stream before its end, failure or close
\* began to be recorded has left a first_token_ms, and there is none without content
\* the wrapper has taken.  Threads that share a stream apart, first_token_ms tells
\* just what the caller got, and never exceeds latency_ms.  (A close in one thread
\* takes the latency before it reads the time that _handle sets in another, which
\* hands the event over later still: streaming.py 45, 53 and 77.)
FirstTokenFaithful ==
    \A i \in DOMAIN events : LET e == events[i] IN
        /\ Mode = "raw" /\ HasContent(e.got) => e.first # None
        /\ e.first # None => Mode = "raw" /\ HasContent(SubSeq(script, 1, e.taken))
        /\ e.first # None /\ call.style # "threads" => HasContent(e.got) /\ e.first <= e.latency

\* A raw stream is "ok" only when the caller was told it had ended, a helper one
\* only when the whole message was in, and "stream_abandoned" only when the caller
\* left before it was told of an end or a failure.
StatusFaithful ==
    call.style # "threads" =>
        \A i \in DOMAIN events :
            /\ events[i].status = "ok" /\ Mode = "raw" => events[i].ended = "stop"
            /\ events[i].status = "ok" /\ Mode = "helper" => completed
            /\ events[i].status = "stream_abandoned" => events[i].ended = None
            /\ events[i].status = "error" /\ Mode = "raw" =>
                   closing \/ closed \/ events[i].ended = "raise"

\* Every stream the caller was given is recorded in the end, even one it closes
\* through the SDK or just forgets, unless its event cannot be built.
StreamsRecorded == phase = "open" /\ Mode \in {"raw", "helper"} ~> Attempts > 0

\* Every call the provider answered or refused leaves an event, streamed or not.
FailuresRecorded == phase = "raised" /\ Mode # "unrecorded" => Attempts = 1
=============================================================================
