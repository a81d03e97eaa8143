---------------------------- MODULE CommandLink ----------------------------
(***************************************************************************)
(* Commands sent to a node over CSP (app/src/shell/shell_command.c and     *)
(* app/src/commands/command_definitions.c): the shell asks, once or with a *)
(* ticket and retries; the node runs the handler and replies; reboot and   *)
(* golden_install schedule a restart that takes the link down a little     *)
(* later.  What was sent stays on the link, so that it may arrive never,    *)
(* late, out of order or several times; the node may restart at any step.  *)
(*                                                                         *)
(* The ticket table, the housekeeping settings, the work queue and the boot *)
(* budget belong to other repositories and are external here.               *)
(***************************************************************************)
EXTENDS Integers, Sequences, FiniteSets

CONSTANTS
    Kinds,            \* the commands that are typed
    Retry,            \* whether --retry is given, a set of Booleans
    Shells,           \* shells of other nodes that send commands to this one
    Pins,             \* pin that may be quoted or set
    DefaultPin,       \* the reboot_pin of a node that was never given one
    Entries,          \* what a report may collect
    Bad,              \* a report number or an entry list that the node cannot use
    ATTEMPTS,         \* attempts in each phase of a ticketed command (3)
    TICKETS,          \* tickets the node keeps (8)
    LIFETIME,         \* how long it keeps one (60 s)
    DELAY,            \* KFSW_COMMAND_REBOOT_DELAY_MS
    BUDGET,           \* boot_attempts_max
    Attempts,         \* what is typed after golden attempts
    MaxOps,           \* bound: commands typed
    MaxRuns,          \* bound: runs of one command's handler
    MaxBoots,         \* bound: restarts
    MaxTime           \* bound: the clock

ASSUME LinkAssumption ==
    /\ Kinds \subseteq {"reboot", "golden_install", "hk_define", "hk_period", "hk_clear", "noop"}
    /\ Retry \subseteq BOOLEAN /\ DefaultPin \in Pins /\ Bad \notin Entries
    /\ ATTEMPTS \in Nat \ {0} /\ TICKETS \in Nat \ {0} /\ LIFETIME \in Nat /\ DELAY \in Nat
    /\ BUDGET \in Nat /\ Attempts \subseteq Nat
    /\ MaxOps \in Nat /\ MaxRuns \in Nat /\ MaxBoots \in Nat /\ MaxTime \in Nat

VARIABLES
    cmd,              \* the commands typed so far: kind, argument and --retry
    told,             \* what the shell said about each
    runs,             \* history: the runs of each one's handler
    call,             \* the exchange each shell is waiting in
    requests, replies,   \* everything that was sent
    now,
    boot,             \* restarts so far
    pin,              \* system_reboot_pin
    rebootAt,         \* when reboot_work is due
    commanded,        \* history: the boots that reboot_work ended, and when
    left,             \* boot_attempts_left
    filled,           \* history: what it was last set to, and in which boot
    install, image,   \* the recovery image: asked for, and running
    report, saved,    \* a housekeeping report: in RAM and in the settings file
    acked,            \* history: the last setting that was answered with OK
    tickets, issued   \* the ticket table, and how many were given out

typed == <<cmd, told, runs>>
wire == <<requests, replies>>
reset == <<boot, commanded, image>>
budget == <<left, filled>>
effects == <<rebootAt, install, report, saved, acked, budget>>
table == <<tickets, issued>>
vars == <<typed, call, wire, now, reset, pin, effects, table>>

Never == -1
NoReport == [entries |-> {}, period |-> 0]
Idle == [op |-> 0, phase |-> "idle", tries |-> 0, ticket |-> 0]

Restarting == {"reboot", "golden_install"}
Setting == {"hk_define", "hk_period", "hk_clear"}
Arguments(kind) ==
    CASE kind \in Restarting -> Pins
      [] kind = "hk_define"  -> Entries \cup {Bad}
      [] kind \in Setting    -> {1, Bad}
      [] OTHER               -> {0}
Commands == UNION {[kind : {k}, arg : Arguments(k)] : k \in Kinds}

Init ==
    /\ cmd = <<>> /\ told = <<>> /\ runs = <<>>
    /\ call = [s \in Shells |-> Idle]
    /\ requests = {} /\ replies = {} /\ now = 0
    /\ boot = 0 /\ pin = DefaultPin /\ rebootAt = Never /\ commanded = {}
    /\ left = BUDGET /\ filled = [level |-> BUDGET, boot |-> 0]
    /\ install = FALSE /\ image = "flight"
    /\ report = NoReport /\ saved = NoReport /\ acked = NoReport
    /\ tickets = {} /\ issued = 0

----------------------------------------------------------------------------
(* The handlers of command_definitions.c: what each does and its status.   *)

pin_matches(quoted) == quoted = pin

\* A plausible defect: k_work_reschedule(), which starts the delay again.
k_work_schedule_again == rebootAt' = now + DELAY

\* k_work_schedule() leaves an item alone that is already scheduled; it fails only
\* for one that is being cancelled, which nothing does to reboot_work.
k_work_schedule == rebootAt' = IF rebootAt = Never THEN now + DELAY ELSE rebootAt

command_reboot(quoted, status) ==
    /\ IF pin_matches(quoted)
       THEN status = "ok" /\ k_work_schedule
       ELSE status = "denied" /\ UNCHANGED rebootAt
    /\ UNCHANGED <<install, report, saved, acked, budget>>

\* boot_attempts_left is set in the boot b.
Fill(n, b) == left' = n /\ filled' = [level |-> n, boot |-> b]

\* A plausible defect: the restart is scheduled although the install failed.
command_golden_install_regardless(quoted, status) ==
    /\ pin_matches(quoted)
    /\ status \in {"ok", "failed"}
    /\ install' = (install \/ status = "ok")
    /\ k_work_schedule
    /\ UNCHANGED <<report, saved, acked, budget>>

command_golden_install(quoted, status) ==
    /\ \/ /\ ~pin_matches(quoted)
          /\ status = "denied"
          /\ UNCHANGED <<rebootAt, install, budget>>
       \/ /\ pin_matches(quoted)
          /\ status \in {"denied", "failed"}       \* kfsw_golden_install(): no image, or an error
          /\ UNCHANGED <<rebootAt, install, budget>>
       \/ /\ pin_matches(quoted)
          /\ status = "ok" /\ image = "flight"     \* the recovery image cannot install itself
          /\ install' = TRUE
          /\ Fill(BUDGET, boot) \/ UNCHANGED budget    \* it refills the budget, if that can be stored
          /\ k_work_schedule
    /\ UNCHANGED <<report, saved, acked>>

NewReport(kind, arg) ==
    CASE kind = "hk_define" -> [report EXCEPT !.entries = {arg}]
      [] kind = "hk_period" -> [report EXCEPT !.period = arg]
      [] kind = "hk_clear"  -> NoReport

\* A plausible defect: KFSW_HK_APPLIED_UNSAVED is taken for success.
command_hk_unsaved_is_ok(kind, arg, status) ==
    /\ arg # Bad
    /\ status = "ok"
    /\ report' = NewReport(kind, arg) /\ acked' = report'
    /\ saved' \in {saved, report'}
    /\ UNCHANGED <<rebootAt, install, budget>>

\* command_hk_define(), command_hk_period() and command_hk_clear().
command_hk(kind, arg, status) ==
    /\ \/ /\ arg = Bad
          /\ status = "invalid"
          /\ UNCHANGED <<report, saved, acked>>
       \/ /\ arg # Bad
          /\ status = "failed"                     \* the service refused it
          /\ UNCHANGED <<report, saved, acked>>
       \/ /\ arg # Bad
          /\ status = "failed"                     \* KFSW_HK_APPLIED_UNSAVED
          /\ report' = NewReport(kind, arg)
          /\ UNCHANGED <<saved, acked>>
       \/ /\ arg # Bad
          /\ status = "ok"
          /\ report' = NewReport(kind, arg) /\ saved' = report' /\ acked' = report'
    /\ UNCHANGED <<rebootAt, install, budget>>

\* command_noop() and the other handlers that only read.
command_noop(status) == status = "ok" /\ UNCHANGED effects

Statuses == {"ok", "denied", "failed", "invalid"}

\* app_commands: the handler of each command, run under the command mutex.
Invoke(c, status) ==
    \/ c.kind = "reboot" /\ command_reboot(c.arg, status)
    \/ c.kind = "golden_install" /\ command_golden_install(c.arg, status)
    \/ c.kind \in Setting /\ command_hk(c.kind, c.arg, status)
    \/ c.kind \notin Restarting \cup Setting /\ command_noop(status)

\* A run: what it said, whether it was given the pin then in force, and when it was.
Run(c, status) == [status |-> status, matched |-> c.arg = pin, boot |-> boot, at |-> now]

Handler(o, status) ==
    /\ Len(runs[o]) < MaxRuns
    /\ Invoke(cmd[o], status)
    /\ runs' = [runs EXCEPT ![o] = Append(@, Run(cmd[o], status))]

----------------------------------------------------------------------------
(* The shell: kfsw_shell_run_command().  A line that it refuses itself (an  *)
(* unknown name, a wrong number of arguments, one it cannot parse) sends    *)
(* nothing and is left out.                                                 *)

Ask(o, phase, ticket) ==
    requests' = requests \cup {[op |-> o, phase |-> phase, ticket |-> ticket]}

\* A plausible defect: the flag is dropped on the way to the service.
FirstPhase_oneshot(retry) == "legacy"

\* invoke_remote()
FirstPhase(retry) == IF retry THEN "prepare" ELSE "legacy"

\* golden install passes on its pin and nothing after it.
MayRetry(kind) == kind # "golden_install"

RunCommand(s, c, retry) ==
    /\ retry => MayRetry(c.kind)
    /\ call[s] = Idle /\ Len(cmd) < MaxOps
    /\ cmd' = Append(cmd, [kind |-> c.kind, arg |-> c.arg, retry |-> retry])
    /\ told' = Append(told, "none")
    /\ runs' = Append(runs, <<>>)
    /\ call' = [call EXCEPT ![s] = [op |-> Len(cmd) + 1, phase |-> FirstPhase(retry),
                                    tries |-> 1, ticket |-> 0]]
    /\ Ask(Len(cmd) + 1, FirstPhase(retry), 0)
    /\ UNCHANGED <<replies, now, reset, pin, effects, table>>

\* A plausible defect: an answer is enough, whatever its status.
Verdict_answered(status) == "ok"

\* The shell says ok only for KFSW_COMMAND_OK, and names any other status.
Verdict(status) == status

Done(s, verdict) ==
    /\ told' = [told EXCEPT ![call[s].op] = verdict]
    /\ call' = [call EXCEPT ![s] = Idle]

\* kfsw_command_invoke_remote(), kfsw_command_invoke_remote_retry(): only a reply to
\* this exchange counts.
Replied(s, r) ==
    /\ r.op = call[s].op /\ r.phase = call[s].phase
    /\ IF r.phase = "prepare" /\ r.status = "ok"
       THEN /\ call' = [call EXCEPT ![s] = [@ EXCEPT !.phase = "execute", !.tries = 1,
                                                     !.ticket = r.ticket]]
            /\ Ask(r.op, "execute", r.ticket)
            /\ UNCHANGED told
       ELSE /\ Done(s, Verdict(r.status))
            /\ UNCHANGED requests
    /\ UNCHANGED <<cmd, runs, replies, now, reset, pin, effects, table>>

\* The same bytes again.
TryAgain(s) ==
    /\ call[s].phase \in {"prepare", "execute"} /\ call[s].tries < ATTEMPTS
    /\ call' = [call EXCEPT ![s].tries = @ + 1]
    /\ Ask(call[s].op, call[s].phase, call[s].ticket)
    /\ UNCHANGED <<typed, replies, now, reset, pin, effects, table>>

GiveUp(s) ==
    /\ call[s].phase # "idle"
    /\ call[s].phase # "legacy" => call[s].tries = ATTEMPTS
    /\ Done(s, "no answer")
    /\ UNCHANGED <<cmd, runs, wire, now, reset, pin, effects, table>>

\* Node 0 is this node: the handler runs in the shell's own thread.
RunHere(c) ==
    /\ Len(cmd) < MaxOps
    /\ cmd' = Append(cmd, [kind |-> c.kind, arg |-> c.arg, retry |-> FALSE])
    /\ \E status \in Statuses :
          /\ Invoke(c, status)
          /\ told' = Append(told, Verdict(status))
          /\ runs' = Append(runs, <<Run(c, status)>>)
    /\ UNCHANGED <<call, wire, now, reset, pin, table>>

----------------------------------------------------------------------------
(* The command server of the node (external).                               *)

Live == {t \in tickets : now < t.until}

Reply(m, status, ticket) ==
    replies' = replies \cup {[op |-> m.op, phase |-> m.phase, status |-> status, ticket |-> ticket]}

ServeLegacy(m) ==
    /\ m.phase = "legacy"
    /\ \E status \in Statuses : Handler(m.op, status) /\ Reply(m, status, 0)
    /\ UNCHANGED <<cmd, told, call, requests, now, reset, pin, table>>

\* The same ticket for a repeated request; BUSY when every ticket is in use.
ServePrepare(m) ==
    /\ m.phase = "prepare"
    /\ \/ \E t \in Live :
            /\ t.op = m.op
            /\ Reply(m, "ok", t.id)
            /\ UNCHANGED table
       \/ /\ \A t \in Live : t.op # m.op
          /\ Cardinality(Live) < TICKETS
          /\ issued' = issued + 1
          /\ tickets' = Live \cup {[id |-> issued + 1, op |-> m.op, until |-> now + LIFETIME,
                                    result |-> "none"]}
          /\ Reply(m, "ok", issued + 1)
       \/ /\ \A t \in Live : t.op # m.op
          /\ Cardinality(Live) >= TICKETS
          /\ Reply(m, "busy", 0)
          /\ UNCHANGED table
    /\ UNCHANGED <<typed, call, requests, now, reset, pin, effects>>

\* The handler the first time, its recorded result after that, UNAVAILABLE for a
\* ticket that expired or that a restart discarded.
ServeExecute(m) ==
    /\ m.phase = "execute"
    /\ \/ \E t \in Live, status \in Statuses :
            /\ t.id = m.ticket /\ t.op = m.op /\ t.result = "none"
            /\ Handler(m.op, status)
            /\ tickets' = (tickets \ {t}) \cup {[t EXCEPT !.result = status]}
            /\ Reply(m, status, m.ticket)
            /\ UNCHANGED issued
       \/ \E t \in Live :
            /\ t.id = m.ticket /\ t.op = m.op /\ t.result # "none"
            /\ Reply(m, t.result, m.ticket)
            /\ UNCHANGED <<runs, effects, table>>
       \/ /\ \A t \in Live : t.id # m.ticket
          /\ Reply(m, "unavailable", m.ticket)
          /\ UNCHANGED <<runs, effects, table>>
    /\ UNCHANGED <<cmd, told, call, requests, now, reset, pin>>

----------------------------------------------------------------------------
(* Restarts, and the rest of the environment.                               *)

\* The early boot service.  A commanded restart is free.  Any other takes an attempt,
\* and when none is left brings the recovery image in, if there is one.  That image
\* takes no attempts, and refills them when it starts, if they can be stored.
Early(cause) ==
    \/ /\ install \/ image = "recovery"
       /\ image' = "recovery"
       /\ Fill(BUDGET, boot + 1) \/ UNCHANGED budget
    \/ /\ ~install /\ image = "flight" /\ cause = "command"
       /\ UNCHANGED <<image, budget>>
    \/ /\ ~install /\ image = "flight" /\ cause = "other" /\ left > 0
       /\ left' \in {left - 1, left}                \* as stored, if that can be
       /\ UNCHANGED <<image, filled>>
    \/ /\ ~install /\ image = "flight" /\ cause = "other" /\ left = 0
       /\ \/ image' = "recovery" /\ (Fill(BUDGET, boot + 1) \/ UNCHANGED budget)
          \/ UNCHANGED <<image, budget>>

\* RAM is lost: the tickets and the work queue start afresh, the pin is the one of the
\* last snapshot that was written, which may be any that was ever set, and the boot
\* loader acts on an install request.
Restart(cause) ==
    /\ boot < MaxBoots
    /\ boot' = boot + 1
    /\ pin' \in Pins
    /\ rebootAt' = Never
    /\ Early(cause)
    /\ install' = FALSE
    /\ report' = saved
    /\ tickets' = {}
    /\ UNCHANGED <<typed, call, wire, now, saved, acked, issued>>

\* A plausible defect: no note is left, and the next boot finds a reset that nothing
\* explains.
RebootWork_no_note ==
    /\ rebootAt # Never /\ now >= rebootAt
    /\ commanded' = commanded \cup {[boot |-> boot, at |-> now]}
    /\ Restart("other")

\* reboot_work_handler(): it leaves the note that makes the restart a commanded one.
RebootWork ==
    /\ rebootAt # Never /\ now >= rebootAt
    /\ commanded' = commanded \cup {[boot |-> boot, at |-> now]}
    /\ Restart("command")

\* Power, a watchdog or a fault; nothing was commanded.
OtherReset == Restart("other") /\ UNCHANGED commanded

\* The node was healthy for CONFIG_KFSW_BOOT_BUDGET_STABLE_S.
StableRun ==
    /\ image = "flight" /\ left < BUDGET
    /\ Fill(BUDGET, boot)
    /\ UNCHANGED <<typed, call, wire, now, reset, pin, rebootAt, install, report, saved, acked, table>>

\* golden attempts <count>: the owner of the count stores one in its range.
cmd_golden_attempts(n) ==
    /\ n <= BUDGET
    /\ Fill(n, boot)
    /\ UNCHANGED <<typed, call, wire, now, reset, pin, rebootAt, install, report, saved, acked, table>>

\* param set reboot_pin
SetPin ==
    /\ \E p \in Pins \ {pin} : pin' = p
    /\ UNCHANGED <<typed, call, wire, now, reset, effects, table>>

Tick ==
    /\ now < MaxTime
    /\ now' = now + 1
    /\ UNCHANGED <<typed, call, wire, reset, pin, effects, table>>

Shell(s) ==
    \/ \E c \in Commands, retry \in Retry : RunCommand(s, c, retry)
    \/ \E r \in replies : Replied(s, r)
    \/ TryAgain(s) \/ GiveUp(s)

Next ==
    \/ \E s \in Shells : Shell(s)
    \/ \E c \in Commands : RunHere(c)
    \/ \E m \in requests : ServeLegacy(m) \/ ServePrepare(m) \/ ServeExecute(m)
    \/ RebootWork \/ OtherReset \/ StableRun
    \/ \E n \in Attempts : cmd_golden_attempts(n)
    \/ SetPin \/ Tick

Spec == Init /\ [][Next]_vars

----------------------------------------------------------------------------
(* Properties. *)

Waiting == [op : 0..MaxOps, phase : {"idle", "legacy", "prepare", "execute"},
            tries : 0..ATTEMPTS, ticket : 0..issued]

\* Type correctness: the tables of shells, requests, replies and tickets.
TypeOK ==
    /\ Len(told) = Len(cmd) /\ Len(runs) = Len(cmd) /\ Len(cmd) <= MaxOps
    /\ call \in [Shells -> Waiting]
    /\ requests \subseteq [op : 1..Len(cmd), phase : {"legacy", "prepare", "execute"},
                           ticket : 0..issued]
    /\ replies \subseteq [op : 1..Len(cmd), phase : {"legacy", "prepare", "execute"},
                          status : Statuses \cup {"busy", "unavailable"}, ticket : 0..issued]
    /\ now \in 0..MaxTime /\ boot \in 0..MaxBoots
    /\ commanded \subseteq [boot : 0..(boot - 1), at : 0..now]
    /\ left \in 0..BUDGET /\ filled \in [level : 0..BUDGET, boot : 0..boot]
    /\ pin \in Pins /\ rebootAt \in {Never} \cup (0..(MaxTime + DELAY))
    /\ install \in BOOLEAN /\ image \in {"flight", "recovery"}
    /\ \A t \in tickets : t.id \in 1..issued /\ t.op \in 1..Len(cmd)

\* The runs of such commands that the node accepted with the pin then in force, and
\* when it accepted a restart in the boot b.
Runs(kinds) == UNION {{runs[o][i] : i \in 1..Len(runs[o])} : o \in {p \in 1..Len(cmd) : cmd[p].kind \in kinds}}
Accepted(kinds) == {r \in Runs(kinds) : r.status = "ok" /\ r.matched}
Asked(b) == {r.at : r \in {x \in Accepted(Restarting) : x.boot = b}}

\* command_reboot(), command_golden_install(): a restart is scheduled exactly when one
\* was accepted since the node came up, for a delay after the first that was, whatever
\* is asked later; and each boot that a command ended had accepted one, with the time
\* for its reply to leave.
RestartsAreAskedFor ==
    /\ rebootAt = Never <=> Asked(boot) = {}
    /\ rebootAt # Never => \E t \in Asked(boot) : t + DELAY = rebootAt
    /\ \A t \in Asked(boot) : rebootAt <= t + DELAY
    /\ \A c \in commanded : \E t \in Asked(c.boot) : t + DELAY <= c.at

\* The boots that no command ended since boot_attempts_left was last set.
Unexplained == {b \in filled.boot..(boot - 1) : \A c \in commanded : c.boot # b}

\* docs/architecture/fault-recovery.md: the recovery image comes in only after a
\* golden_install that was accepted in the boot that ends, or with a reset that no
\* command explains after as many of them as there were attempts; restarts by command
\* use up none, however many there are.
RecoveryIsEarned ==
    [][image' # image =>
          \/ \E r \in Accepted({"golden_install"}) : r.boot = boot
          \/ /\ commanded' = commanded
             /\ Cardinality(Unexplained) >= filled.level]_vars

\* command_hk_*(): whatever restarts the node, the report it comes back with is the
\* last setting that was answered with OK.
AckedSettingSurvives == [][boot' # boot => report' = acked]_vars

\* Ticketed commands keep the promise of RemoteOperation: how often each took effect,
\* and what its caller heard.
Tracked(o) == o <= Len(cmd) /\ cmd[o].retry
Took(o) ==
    IF Tracked(o) THEN Cardinality({i \in 1..Len(runs[o]) : runs[o][i].status = "ok"}) ELSE 0
Meaning(word) ==
    CASE word = "none" -> "none"
      [] word = "ok"   -> "yes"
      [] word \in {"denied", "invalid", "busy"} -> "no"
      [] OTHER -> "unknown"
Heard(o) == IF Tracked(o) THEN Meaning(told[o]) ELSE "none"
Promise == INSTANCE RemoteOperation WITH
    Ops <- 1..MaxOps,
    applied <- [o \in 1..MaxOps |-> Took(o)],
    answer <- [o \in 1..MaxOps |-> Heard(o)]

\* shell_command.c with --retry: a ticketed command takes effect at most once, a yes
\* is true, and a command reported as refused has had no effect and never will.
TicketedOnce == Promise!Spec
=============================================================================
