--------------------------- MODULE MCWrappedCall ----------------------------
(* Every kind of call: three APIs, both paths, streamed or not, the chat     *)
(* usage chunk asked for or injected, each style of consumption.             *)
EXTENDS WrappedCall

\* Calls consumed and closed by one thread.
MCSyncKinds ==
    [api : {"anthropic"}, path : {"create"}, streamed : {TRUE},
     optedIn : {FALSE}, style : {"sync"}]

MCKinds ==
    {k \in [api : Apis, path : {"create", "stream"}, streamed : BOOLEAN,
            optedIn : BOOLEAN, style : {"sync", "async", "threads"}] :
        /\ k.path = "stream" => k.api # "chat" /\ ~k.streamed
        /\ k.optedIn => k.api = "chat" /\ k.streamed
        /\ k.style = "threads" => k.streamed}
=============================================================================
