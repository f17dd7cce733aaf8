------------------------------ MODULE MCPrices ------------------------------
(* Three events of two models and one without usage; a user corrects one    *)
(* model's price, the seed file has both, and a bucket lacks a seed rate.    *)
EXTENDS Prices, TLC

CONSTANTS c1, c2, c3, c4, pA, pB, A, B, s1, s2, b1, b2, i1

MCProcessOf == [c \in Calls |-> IF c \in {c1, c2} THEN pA ELSE pB]
MCKeyOf     == [c \in Calls |-> IF c = c3 THEN B ELSE A]
MCBuckets   == {"input", "cache"}
MCTokens    == [c \in Calls |-> CASE c = c1 -> [input |-> 1, cache |-> 2]
                                  [] c = c2 -> [input |-> 3, cache |-> 0]
                                  [] c = c3 -> [input |-> 1, cache |-> 0]
                                  [] c = c4 -> None]
MCSetKey    == [s \in Setters |-> A]
MCAsked     == [s \in Setters |-> IF s = s1 THEN [input |-> 2, cache |-> 3]
                                            ELSE [input |-> 1, cache |-> 1]]
MCSeed      == (A :> [input |-> 1, cache |-> None]) @@ (B :> [input |-> 1, cache |-> None])
=============================================================================
