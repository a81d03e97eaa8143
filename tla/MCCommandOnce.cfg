\* Ticketed and plain commands and settings whose save may fail, repeated and late,
\* with a restart at any step.
SPECIFICATION Spec
CONSTANTS
    s1 = s1
    p0 = p0
    d1 = d1
    Bad = Bad
    Kinds = {"reboot", "hk_define", "noop"}
    Retry = {TRUE, FALSE}
    Shells = {s1}
    Pins = {p0}
    DefaultPin = p0
    Entries = {d1}
    ATTEMPTS = 2
    TICKETS = 1
    LIFETIME = 1
    DELAY = 1
    BUDGET = 1
    Attempts = {}
    MaxOps = 2
    MaxRuns = 2
    MaxBoots = 1
    MaxTime = 1
PROPERTIES TicketedOnce AckedSettingSurvives
CHECK_DEADLOCK FALSE
