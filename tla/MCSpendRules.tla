----------------------------- MODULE MCSpendRules -----------------------------
(* Values for TLC: a budget with a floor of 0, a budget of 0 with a         *)
(* negative floor, and no budget with the default floor.                    *)
EXTENDS SpendRules

MCConfigs == {[budget |-> 3, floor |-> 0],
              [budget |-> 0, floor |-> -1],
              [budget |-> None, floor |-> None]}
=============================================================================
