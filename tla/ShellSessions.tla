--------------------------- MODULE ShellSessions ---------------------------
(***************************************************************************)
(* One shell and one other node.  The shell runs one command at a time:    *)
(* uploads (FwuShell), clocks and identities (ClockShell) and the log      *)
(* (LogShell).  A restart of the other node takes away its transfer and    *)
(* its time together.                                                      *)
(***************************************************************************)
EXTENDS FwuShell, ClockShell, LogShell

CONSTANTS
    MaxOps,       \* bound: commands typed
    MaxRestarts   \* bound: restarts of the other node

VARIABLES ops, restarts

vars == <<fwuVars, clockVars, logVars, ops, restarts>>

Init == FwuInit /\ ClockInit /\ LogInit /\ ops = 0 /\ restarts = 0

Free == fwu.phase = "idle" /\ clk.phase = "idle" /\ log.phase = "idle"

TypeUpload == (TypeSend \/ TypeFwu) /\ UNCHANGED <<clockVars, logVars>>
TypeTime == (TypeClock \/ TypeSync \/ \E t \in SetTimes : SetClock(t)) /\ UNCHANGED <<fwuVars, logVars>>
TypeLog == (TypeHistory \/ \E l \in Levels : SetLevel(l)) /\ UNCHANGED <<fwuVars, clockVars>>

Typed ==
    /\ Free /\ ops < MaxOps
    /\ TypeUpload \/ TypeTime \/ TypeLog
    /\ ops' = ops + 1 /\ UNCHANGED restarts

ShellStep ==
    /\ \/ FwuStep /\ UNCHANGED <<clockVars, logVars>>
       \/ ClockStep /\ UNCHANGED <<fwuVars, logVars>>
       \/ ReadRecord /\ UNCHANGED <<fwuVars, clockVars>>
    /\ UNCHANGED <<ops, restarts>>

Restart ==
    /\ restarts < MaxRestarts
    /\ restarts' = restarts + 1
    /\ FwuRestart /\ ClockRestart
    /\ UNCHANGED <<logVars, ops>>

Others ==
    /\ \/ FwuOthers /\ UNCHANGED <<clockVars, logVars>>
       \/ ClockOthers /\ UNCHANGED <<fwuVars, logVars>>
       \/ Write /\ UNCHANGED <<fwuVars, clockVars>>
    /\ UNCHANGED <<ops, restarts>>

Next == Typed \/ ShellStep \/ Others \/ Restart

Spec == Init /\ [][Next]_vars

\* Every exchange of the shell has a timeout and every loop an end; nothing is
\* assumed of the other node.
FairSpec == Spec /\ WF_vars(ShellStep)

\* Type correctness of the three parts; one command runs at a time.
TypeOK ==
    /\ FwuTypeOK /\ ClockTypeOK /\ LogTypeOK
    /\ ops \in 0..MaxOps /\ restarts \in 0..MaxRestarts
    /\ fwu.phase # "idle" => clk.phase = "idle" /\ log.phase = "idle"
    /\ clk.phase # "idle" => log.phase = "idle"

\* A clock once set is not unset by a hand-over, late or repeated: only a restart
\* takes the time away from a node (csp clock sync refuses when this node's own
\* clock is not set).
HandOverKeepsTime == [][IsSet(there) /\ ~IsSet(there') => restarts' = restarts + 1]_vars

\* The prompt comes back, whoever does not answer and however fast others log.
PromptReturns == ~Free ~> Free
=============================================================================
