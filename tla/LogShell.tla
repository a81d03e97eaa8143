------------------------------ MODULE LogShell ------------------------------
(***************************************************************************)
(* log history and log level of app/src/shell/shell_system.c.  The shell   *)
(* takes the window of the ring once and reads record after record, while  *)
(* every other thread may log.  The ring is external: a record is found by *)
(* its number until CAPACITY newer ones were written.  A ring that a reset *)
(* kept may count records that are not in it.                              *)
(***************************************************************************)
EXTENDS Naturals, Sequences

CONSTANTS
    LOG_CAPACITY, \* records in the ring
    MAX_READ,     \* KFSW_LOG_HISTORY_MAX_READ
    LEVEL_MAX,    \* 4, logging off
    Levels,       \* what is typed as a level
    RETAINED,     \* records that a ring kept over a reset may count
    MaxRecords    \* bound: records written

ASSUME LogAssumption == LOG_CAPACITY \in Nat /\ MAX_READ \in Nat /\ RETAINED \in Nat

VARIABLES
    written,      \* records written so far; they are numbered from 0
    lost,         \* those of them that the ring counts and does not hold
    level,        \* the level of a module
    log           \* the log command that the shell runs

logVars == <<written, lost, level, log>>

LogIdle == [cmd |-> "none", phase |-> "idle", first |-> 0, end |-> 0, next |-> 0, rows |-> <<>>, answer |-> "none"]

LogInit ==
    /\ written \in 0..RETAINED /\ lost \in SUBSET {n \in 0..RETAINED : n < written}
    /\ level = 0 /\ log = LogIdle

Oldest == IF written > LOG_CAPACITY THEN written - LOG_CAPACITY ELSE 0

\* kfsw_log_history_get()
Served(n) == n >= Oldest /\ n \notin lost

\* kfsw_log_history_window(): at most so many of the newest records.
TypeHistory ==
    /\ log.phase = "idle"
    /\ LET first == IF written > MAX_READ + Oldest THEN written - MAX_READ ELSE Oldest IN
       log' = [LogIdle EXCEPT !.cmd = "history", !.phase = "reading", !.first = first, !.end = written, !.next = first]
    /\ UNCHANGED <<written, lost, level>>

LogEnd(answer) == log' = [log EXCEPT !.phase = "idle", !.answer = answer]

\* A plausible defect: a record that is gone is passed over.
ReadRecord_skips ==
    /\ log.phase = "reading"
    /\ IF log.next = log.end THEN LogEnd("done")
       ELSE log' = [log EXCEPT !.next = @ + 1, !.rows = IF Served(log.next) THEN Append(@, log.next) ELSE @]
    /\ UNCHANGED <<written, lost, level>>

\* The next record, or "Log history changed during read; retry".
ReadRecord ==
    /\ log.phase = "reading"
    /\ IF log.next = log.end THEN LogEnd("done")
       ELSE IF ~Served(log.next) THEN LogEnd("changed")
       ELSE log' = [log EXCEPT !.next = @ + 1, !.rows = Append(@, log.next)]
    /\ UNCHANGED <<written, lost, level>>

\* log level <module> <level>
SetLevel(l) ==
    /\ log.phase = "idle"
    /\ \/ /\ l <= LEVEL_MAX
          /\ log' = [LogIdle EXCEPT !.cmd = "level", !.answer = "done"] /\ level' = l
       \/ /\ log' = [LogIdle EXCEPT !.cmd = "level", !.answer = "error"] /\ UNCHANGED level
    /\ UNCHANGED <<written, lost>>

\* Another thread logs.  The level holds back the lines of its own module only, and
\* no marker, so that a record may be written whatever it is.
Write ==
    /\ written < MaxRecords
    /\ written' = written + 1
    /\ UNCHANGED <<lost, level, log>>

----------------------------------------------------------------------------
(* Properties. *)

LogTypeOK == level \in 0..LEVEL_MAX /\ Len(log.rows) <= MAX_READ /\ log.next \in log.first..log.end

\* log history prints records without a gap, from the first of the window on;
\* unless it says that the log changed it prints the whole window, although the
\* ring may have gone round while it read.  It stops only at a record that is not in
\* the ring any more, or that a ring kept over a reset never had.
HistoryHasNoGap ==
    log.cmd = "history" =>
        /\ \A i \in DOMAIN log.rows : log.rows[i] = log.first + i - 1
        /\ log.answer = "done" => Len(log.rows) = log.end - log.first
        /\ log.answer = "changed" => ~Served(log.next)
=============================================================================
