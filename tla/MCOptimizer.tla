----------------------------- MODULE MCOptimizer -----------------------------
(* One prompt sent three times to a model that lacks a cache rate, which is *)
(* completed while the report runs; another model is cheaper, mostly.       *)
EXTENDS Optimizer, TLC

CONSTANTS c1, c2, c3, p, A, B, s1, b1, i1

MCProcessOf == [c \in Calls |-> p]
MCKeyOf     == [c \in Calls |-> A]
MCBuckets   == {"input", "cache"}
MCTokens    == [c \in Calls |-> CASE c = c1 -> [input |-> 2, cache |-> 0]
                                  [] c = c2 -> [input |-> 3, cache |-> 0]
                                  [] c = c3 -> [input |-> 1, cache |-> 2]]
MCSetKey    == [s \in Setters |-> A]
MCAsked     == [s \in Setters |-> [input |-> 5, cache |-> 2]]
MCSeed      == (A :> [input |-> 4, cache |-> None]) @@ (B :> [input |-> 3, cache |-> None])
MCProjectOf == [c \in Calls |-> IF c = c3 THEN "other" ELSE "one"]
MCFeatureOf == [c \in Calls |-> "f"]
MCHashOf    == [c \in Calls |-> "h"]
=============================================================================
