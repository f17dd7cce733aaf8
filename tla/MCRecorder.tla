----------------------------- MODULE MCRecorder -----------------------------
(* Two threads share a client's recorder in one process; another process    *)
(* uses a recorder of its own on the same ledger file.                      *)
EXTENDS Recorder, TLC

CONSTANTS c1, c2, c3, r1, r2, p1, p2

MCRecorderOf == (c1 :> r1) @@ (c2 :> r1) @@ (c3 :> r2)
MCProcessOf  == (r1 :> p1) @@ (r2 :> p2)
MCStartDbs   == {{}, 1 .. Rev0001}

\* The race of tests/test_resilience.py: two recorders of one process, no ledger.
MCOwnRecorder == (c1 :> r1) @@ (c3 :> r2)
MCOneProcess  == (r1 :> p1) @@ (r2 :> p1)
MCEmptyDb     == {{}}
=============================================================================
