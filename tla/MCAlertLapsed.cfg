SPECIFICATION Spec
CONSTANTS
    dashboard = dashboard
    cron = cron
    Evaluators = {dashboard}
    Looping = {dashboard}
    Rules <- OneRule
    Webhook = TRUE
    Cooldown = 2
    MaxTime = 2
    MaxFaults = 0
PROPERTIES
    RetriedUntilLanded
CHECK_DEADLOCK FALSE
