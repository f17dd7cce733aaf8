SPECIFICATION Spec
CONSTANTS
    dashboard = dashboard
    cron = cron
    Evaluators = {dashboard, cron}
    Looping = {dashboard}
    Rules <- OneRule
    Webhook = TRUE
    Cooldown = 1
    MaxTime = 1
    MaxFaults = 1
INVARIANTS
    TypeOK
    OwnFiringsSpaced
    DeliveredMeansLanded
PROPERTIES
    FiringsOnlyGrow
    GetsThrough
CHECK_DEADLOCK FALSE
