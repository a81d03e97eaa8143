SPECIFICATION HealthFairSpec
CONSTANTS
    APP_DEADLINE = 4
    LATE = 2
    PERIOD = 2
    TIMEOUT = 1
    CSP_DEADLINE = 6
    INTERVAL = 1
    WDT_TIMEOUT = 4
    COUNTER_MAX = 2
    MaxOperator = 1
INVARIANTS
    HealthTypeOK
    NoSpuriousReset
    OnTimeUntilFault
PROPERTIES
    DeadRouterResets
    HungAppResets
