\* A remote shell and the node's own, pins, lost and late requests, and restarts that
\* use up the boot budget.
SPECIFICATION Spec
CONSTANTS
    s1 = s1
    p0 = p0
    p1 = p1
    d1 = d1
    Bad = Bad
    Kinds = {"reboot", "golden_install"}
    Retry = {FALSE}
    Shells = {s1}
    Pins = {p0, p1}
    DefaultPin = p0
    Entries = {d1}
    ATTEMPTS = 1
    TICKETS = 1
    LIFETIME = 1
    DELAY = 1
    BUDGET = 1
    Attempts = {0, 2}
    MaxOps = 2
    MaxRuns = 1
    MaxBoots = 2
    MaxTime = 2
INVARIANTS RestartsAreAskedFor
 
CHECK_DEADLOCK FALSE
