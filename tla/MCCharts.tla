------------------------------ MODULE MCCharts ------------------------------
(* The overview page with its line of days and one chart of groups, two      *)
(* filters, and three calls: of two days, and of three groups with room for  *)
(* two.  One call has no price when the page is loaded.                      *)
EXTENDS Charts

CONSTANTS day, provider, all, some, k1, k2, k3

MCKind    == (day :> "line") @@ (provider :> "hbar")
MCMatches == (all :> {k1, k2, k3}) @@ (some :> {k2, k3})
MCLabel   == (day :> (k1 :> 1 @@ k2 :> 1 @@ k3 :> 2))
             @@ (provider :> (k1 :> 1 @@ k2 :> 2 @@ k3 :> 3))
MCCost    == (k1 :> 7) @@ (k2 :> 9) @@ (k3 :> 12)
MCStart   == {[calls |-> {k1, k2, k3}, priced |-> {k1, k3}]}
=============================================================================
