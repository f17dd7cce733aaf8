--------------------------- MODULE MCAlertChecks ----------------------------
(* The dashboard loop and a cron job over one ledger, with one rule.        *)
EXTENDS AlertChecks

CONSTANTS dashboard, cron

OneRule == <<"spike">>
=============================================================================
