----------------------------- MODULE ClockShell -----------------------------
(***************************************************************************)
(* The clock and identity commands of app/src/shell/shell_csp.c: csp clock *)
(* set, csp clock <node>, csp clock <node> sync and csp ident <node>.  The  *)
(* exchange with the node is external: a write may come late or twice, and *)
(* its answer carries what the node reads back.                            *)
(***************************************************************************)
EXTENDS Naturals

CONSTANTS
    INT32_MAX,    \* the last second that can be set
    SetTimes      \* what is typed after csp clock set

ASSUME ClockAssumption == SetTimes \subseteq Nat

UNSET == 0
IsSet(c) == c # UNSET

VARIABLES
    here, there,  \* the clocks, in seconds; both run with Tick
    handed,       \* writes sent to the node
    clk           \* the clock command that the shell runs

clocks == <<here, there>>
clockVars == <<clocks, handed, clk>>

ClockIdle == [cmd |-> "none", phase |-> "idle", value |-> UNSET, reply |-> UNSET, printed |-> UNSET,
              answer |-> "none"]

ClockInit ==
    /\ here = UNSET /\ there = UNSET
    /\ handed = {}
    /\ clk = ClockIdle

ClockStart(cmd, phase, value) ==
    /\ clk.phase = "idle"
    /\ clk' = [ClockIdle EXCEPT !.cmd = cmd, !.phase = phase, !.value = value]

ClockEnd(printed, answer) == clk' = [ClockIdle EXCEPT !.cmd = clk.cmd, !.printed = printed, !.answer = answer]

InRange(t) == t > 0 /\ t <= INT32_MAX

\* csp clock set: the time is taken, and read back to be printed; or it is out
\* of range, or the clock does not take it.
SetClock(t) ==
    /\ clk.phase = "idle"
    /\ \/ /\ InRange(t)
          /\ here' = t
          /\ clk' = [ClockIdle EXCEPT !.cmd = "set", !.printed = t, !.answer = "done"]
       \/ /\ clk' = [ClockIdle EXCEPT !.cmd = "set", !.answer = "error"]
          /\ UNCHANGED here
    /\ UNCHANGED <<there, handed>>

TypeClock == \E cmd \in {"read", "ident"} : ClockStart(cmd, cmd, UNSET) /\ UNCHANGED <<clocks, handed>>

\* A plausible defect: this node's clock is handed over whatever it reads.
TypeSync_unchecked ==
    /\ ClockStart("sync", "write", here)
    /\ handed' = handed \cup {here}
    /\ UNCHANGED clocks

\* csp clock <node> sync: this node's time as it was when the command was typed.
TypeSync ==
    /\ IF IsSet(here)
       THEN ClockStart("sync", "write", here) /\ handed' = handed \cup {here}
       ELSE /\ clk.phase = "idle" /\ clk' = [ClockIdle EXCEPT !.cmd = "sync", !.answer = "error"]
            /\ UNCHANGED handed
    /\ UNCHANGED clocks

\* The node takes a time that was handed over, now or long after.
NodeTakes(t) ==
    /\ there' = t
    /\ clk' = IF clk.phase = "write" /\ clk.value = t THEN [clk EXCEPT !.reply = t, !.phase = "written"] ELSE clk
    /\ UNCHANGED <<here, handed>>

SyncAnswered == clk.phase = "written" /\ ClockEnd(clk.reply, "done") /\ UNCHANGED <<clocks, handed>>

ReadAnswered == clk.phase = "read" /\ ClockEnd(there, "done") /\ UNCHANGED <<clocks, handed>>

\* csp ident: the identity is printed, and the clock is a second exchange.
Identified ==
    /\ clk.phase = "ident"
    /\ clk' = [clk EXCEPT !.phase = "read"]
    /\ UNCHANGED <<clocks, handed>>

\* No answer; csp ident is content with half of what it asked for.
ClockSilence ==
    /\ clk.phase \in {"read", "ident", "write", "written"}
    /\ ClockEnd(UNSET, IF clk.cmd = "ident" /\ clk.phase = "read" THEN "done" ELSE "error")
    /\ UNCHANGED <<clocks, handed>>

Tock(c) == IF IsSet(c) THEN c + 1 ELSE c

\* A second passes everywhere, until one of the clocks is at its last.
Tick ==
    /\ here < INT32_MAX /\ there < INT32_MAX /\ (IsSet(here) \/ IsSet(there))
    /\ here' = Tock(here) /\ there' = Tock(there)
    /\ UNCHANGED <<handed, clk>>

\* The other node restarts without its time.
ClockRestart == there' = UNSET /\ UNCHANGED <<here, handed, clk>>

ClockStep == SyncAnswered \/ ReadAnswered \/ Identified \/ ClockSilence
ClockOthers == Tick \/ \E t \in handed : NodeTakes(t)

----------------------------------------------------------------------------
(* Properties. *)

\* Clocks hold what their 32 bits can, whatever is typed.
ClockTypeOK == here \in 0..INT32_MAX /\ there \in 0..INT32_MAX /\ clk.printed \in 0..INT32_MAX
=============================================================================
