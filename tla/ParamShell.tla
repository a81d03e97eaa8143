----------------------------- MODULE ParamShell -----------------------------
(***************************************************************************)
(* The parameter commands of app/src/shell/shell_param.c, here and on      *)
(* another node: get, set, table, listall and whichtables.  The shell is   *)
(* one thread and runs one command at a time; every remote command is a    *)
(* series of exchanges.  While it waits, the sources that the other node   *)
(* samples change, its own shell and other writers act on it, and a write  *)
(* that nobody answered may still arrive.                                  *)
(*                                                                         *)
(* The remote half of the parameter service (descriptors, the read and the *)
(* write exchange, the lock) is external and modelled from its use here    *)
(* and from docs/services/index.md: reads are sampled value by value, a    *)
(* write is sent once and validated before it is applied.                  *)
(***************************************************************************)
EXTENDS SampledTables, Selections

CONSTANTS
    NAMES_MAX,    \* KFSW_PARAM_TABLE_NAMES_MAX
    WINDOW,       \* KFSW_PARAM_REMOTE_WINDOW
    Dash,         \* what is printed in place of a value
    GetNames, SetNames, SetValues, AskedTables,   \* what is tried
    FsStates, FsStart,   \* states of a filesystem, and the one at first
    MaxOps,       \* bound: commands typed
    MaxEvents     \* bound: changes of the sources

Here == 1
There == 2
Nodes == {Here, There}
Ops == 1..MaxOps

ASSUME ShellAssumption ==
    /\ NAMES_MAX \in Nat \ {0} /\ WINDOW \in Nat \ {0}
    /\ UINT32 \in Nat \ {0} /\ KB \in Nat \ {0}
    /\ GetNames \subseteq Params /\ SetNames \subseteq Params /\ AskedTables \subseteq TableIds
    /\ SetValues \subseteq Nat /\ Bitrates \subseteq Nat
    /\ MaxOps \in Nat /\ MaxEvents \in Nat

\* tests/unit/platform_storage: an unmounted filesystem reports neither capacity
\* nor free space.
ASSUME FsAssumption ==
    /\ FsStart \in FsStates
    /\ FsStates \subseteq [ok : BOOLEAN, ready : BOOLEAN, total : Nat, free : Nat]
    /\ \A f \in FsStates : ~f.ready => f.total = 0 /\ f.free = 0

VARIABLES
    src,          \* what the samplers of each node see
    cells,        \* the static variables behind its parameters
    told,         \* its watchdog driver's answer when last asked (history)
    old,          \* the other node does not serve its table list
    sh,           \* the command that the shell runs
    window,       \* the static buffer of cmd_param_table()
    req, reply,   \* the read exchange under way
    air,          \* writes sent and not arrived
    ack,          \* what the node answered to each write
    applied, answer,   \* effect and outcome of each command that writes
    seen,         \* sources of the node asked, since the command began (history)
    events

node == <<src, cells, told>>
link == <<req, reply, air, ack>>
vars == <<node, old, sh, window, link, applied, answer, seen, events>>

Column(table) == [i \in DOMAIN table |-> [name |-> table[i], value |-> Dash]]

Init ==
    /\ src = [n \in Nodes |->
                [ifs |-> <<[t \in TotalNames |-> 0], [t \in TotalNames |-> UINT32 - 1]>>,
                 errs |-> [e \in ErrorNames |-> 1], rdp |-> 0, packet |-> FALSE,
                 router |-> TRUE, wdOk |-> TRUE,
                 wd |-> [w \in Range(WatchdogTable) |-> IF w \in {"feeds", "since_feed_ms"} THEN 0 ELSE 1],
                 fs |-> FsStart, uptime |-> 0, buffers |-> 1, can |-> 1,
                 id |-> [i \in IdentityNames |-> n]]]
    /\ cells = [n \in Nodes |-> [p \in Params |-> 0]]
    /\ told = [n \in Nodes |-> <<>>]
    /\ old \in BOOLEAN
    /\ sh = [op |-> 0, kind |-> "none", node |-> Here, arg |-> 0, val |-> 0, phase |-> "done",
             names |-> <<>>, base |-> 0, rows |-> <<>>, result |-> "none"]
    /\ window = <<>> /\ req = <<>> /\ reply = <<>> /\ air = {}
    /\ ack = [o \in Ops |-> "none"]
    /\ applied = [o \in Ops |-> 0]
    /\ answer = [o \in Ops |-> "none"]
    /\ seen = {} /\ events = 0

----------------------------------------------------------------------------
(* Reading and writing a parameter of a node, under its table lock. *)

Read(n, p) ==
    /\ cells' = [cells EXCEPT ![n] = Sampled(p, src[n], @)]
    /\ told' = IF p \in Range(WatchdogTable)
               THEN [told EXCEPT ![n] = IF src[n].wdOk THEN src[n].wd ELSE <<>>] ELSE told
    /\ UNCHANGED src

Write(n, p, v) ==
    /\ Accepts(p, v)
    /\ \E s \in Effects(p, v, src[n]) : src' = [src EXCEPT ![n] = s]
    /\ cells' = [cells EXCEPT ![n][p] = v]
    /\ UNCHANGED told
    /\ seen' = IF n = sh.node THEN seen \cup {src'[n]} ELSE seen

\* What the shell is left with when a command ends.
End(rows, result) ==
    sh' = [sh EXCEPT !.phase = "done", !.rows = rows, !.result = result]

Answered(a) == answer' = [answer EXCEPT ![sh.op] = a]
\* kfsw_param_parse_text(): the text must fit the type that was read.
Parses(p, v) == p = "can_speed" \/ v < 256
NoWire == UNCHANGED <<link, applied, answer>>

----------------------------------------------------------------------------
(* A command is typed.  parse_param_node() takes the own address for no    *)
(* node at all, and parse_table_id() refuses what is not a table.          *)

Begin(kind, n, arg, val, phase, names) ==
    /\ sh.phase = "done" /\ sh.op < MaxOps
    /\ sh' = [op |-> sh.op + 1, kind |-> kind, node |-> n, arg |-> arg, val |-> val,
              phase |-> phase, names |-> names, base |-> 0, rows |-> <<>>, result |-> "none"]
    /\ seen' = {src[n]}
    /\ UNCHANGED <<node, old, window, air, ack, applied, answer, events>>

NoRequest == req' = <<>> /\ reply' = <<>>
Ask(names) == req' = names /\ reply' = <<>>

\* cmd_param_get(), cmd_param_set()
TypeGet(n, p) == Begin("get", n, p, 0, IF n = Here THEN "row" ELSE "get", <<p>>) /\ Ask(<<p>>)
TypeSet(n, p, v) == Begin("set", n, p, v, IF n = Here THEN "local_set" ELSE "get", <<p>>) /\ Ask(<<p>>)

\* cmd_param_table(), cmd_param_listall(), cmd_param_whichtables()
TypeTable(n, t) ==
    /\ Begin("table", n, t, 0, IF n = Here THEN "row" ELSE "names",
             IF n = Here THEN Definitions[t] ELSE <<>>)
    /\ NoRequest

AllNames == BoardTable \o TelemetryTable \o CspTable \o StorageTable \o WatchdogTable

TypeListall(n) ==
    /\ Begin("listall", n, 0, 0, IF n = Here THEN "row" ELSE "tables", IF n = Here THEN AllNames ELSE <<>>)
    /\ NoRequest

TypeWhichtables(n) ==
    Begin("whichtables", n, 0, 0, IF n = Here THEN "tables_here" ELSE "tables", <<>>) /\ NoRequest

Typed ==
    \E n \in Nodes :
        \/ \E p \in GetNames : TypeGet(n, p)
        \/ \E p \in SetNames, v \in SetValues : TypeSet(n, p, v)
        \/ \E t \in AskedTables : TypeTable(n, t)
        \/ TypeListall(n)
        \/ TypeWhichtables(n)

----------------------------------------------------------------------------
(* Commands on this node. *)

\* print_param_info(), or the one value of cmd_param_get().
LocalRow ==
    /\ sh.phase = "row"
    /\ LET p == sh.names[Len(sh.rows) + 1]
           rows == Append(sh.rows, [name |-> p, value |-> cells'[Here][p]]) IN
       /\ Read(Here, p)
       /\ IF Len(rows) = Len(sh.names) THEN End(rows, "ok") ELSE sh' = [sh EXCEPT !.rows = rows]
    /\ IF sh.kind = "set" THEN Answered("yes") ELSE UNCHANGED answer
    /\ UNCHANGED <<old, window, link, applied, seen, events>>

\* kfsw_param_set() and then kfsw_param_get(), which somebody may come between.
LocalSet ==
    /\ sh.phase = "local_set" /\ Parses(sh.arg, sh.val)
    /\ Write(Here, sh.arg, sh.val)
    /\ sh' = [sh EXCEPT !.phase = "row"]
    /\ applied' = [applied EXCEPT ![sh.op] = @ + 1]
    /\ UNCHANGED <<old, window, link, answer, events>>

\* The parameter was read for its type before its text or its value is refused.
LocalSetRefused ==
    /\ sh.phase = "local_set" /\ ~(Parses(sh.arg, sh.val) /\ Accepts(sh.arg, sh.val))
    /\ Read(Here, sh.arg)
    /\ End(<<>>, "refused")
    /\ Answered("no")
    /\ UNCHANGED <<old, window, link, applied, seen, events>>

Counts == [t \in TableIds |-> [name |-> t, value |-> Len(Definitions[t])]]

\* kfsw_param_visit_tables(print_table_info)
LocalTables ==
    /\ sh.phase = "tables_here"
    /\ End(Counts, "ok")
    /\ UNCHANGED <<node, old, window, seen, events>> /\ NoWire

----------------------------------------------------------------------------
(* Descriptors of the other node: one step for each exchange. *)

Walk(phase) == sh.phase = phase /\ UNCHANGED <<node, old, window, seen, events>> /\ NoWire

\* collect_table_names() over descriptors of the given names.
Collected_unfiltered(all) == SubSeq(all, 1, IF Len(all) < NAMES_MAX THEN Len(all) ELSE NAMES_MAX)
Collected_one_more(all) ==
    LET mine == Kept(all, Range(Definitions[sh.arg])) IN
    SubSeq(mine, 1, IF Len(mine) <= NAMES_MAX THEN Len(mine) ELSE NAMES_MAX + 1)
Collected(all) ==
    LET mine == Kept(all, Range(Definitions[sh.arg])) IN
    SubSeq(mine, 1, IF Len(mine) < NAMES_MAX THEN Len(mine) ELSE NAMES_MAX)

\* The static window is read next; no table is empty.
ReadWindow(base, names) ==
    LET last == IF base + WINDOW < Len(names) THEN base + WINDOW ELSE Len(names) IN
    req' = SubSeq(names, base + 1, last) /\ reply' = <<>>

\* kfsw_param_remote_visit_table(), or kfsw_param_remote_visit() on an older node
CollectNames ==
    /\ sh.phase = "names"
    /\ LET names == Collected(IF old THEN AllNames ELSE Definitions[sh.arg]) IN
       sh' = [sh EXCEPT !.phase = "window", !.names = names] /\ ReadWindow(0, names)
    /\ UNCHANGED <<node, old, window, air, ack, applied, answer, seen, events>>

\* list_remote_parameters(): the ids, then one table after another.
ListTables ==
    /\ Walk("tables") /\ sh.kind = "listall" /\ ~old
    /\ sh' = [sh EXCEPT !.phase = "visit"]

VisitTable ==
    /\ Walk("visit")
    /\ LET rows == sh.rows \o Column(Definitions[sh.base + 1]) IN
       IF sh.base + 1 = Len(Definitions) THEN End(rows, "ok")
       ELSE sh' = [sh EXCEPT !.rows = rows, !.base = @ + 1]

VisitAll ==
    /\ Walk("tables") /\ sh.kind = "listall" /\ old
    /\ End(Column(AllNames), "ok")

\* print_remote_tables(), which counts the descriptors of an older node itself.
tally_table(t) == Cardinality({i \in DOMAIN AllNames : AllNames[i] \in Range(Definitions[t])})

PrintTables ==
    /\ Walk("tables") /\ sh.kind = "whichtables"
    /\ End(IF old THEN [t \in TableIds |-> [name |-> t, value |-> tally_table(t)]] ELSE Counts, "ok")

\* No answer, or the cache of descriptors is full (-ENOSPC).
WalkFails ==
    /\ sh.phase \in {"names", "tables", "visit"}
    /\ Walk(sh.phase)
    /\ End(sh.rows, "failed")

----------------------------------------------------------------------------
(* Values of the other node. *)

\* The node samples the next value that it was asked for.
NodeSamples ==
    /\ sh.phase \in {"get", "window"} /\ sh.node = There
    /\ Len(reply) < Len(req)
    /\ Read(There, req[Len(reply) + 1])
    /\ reply' = Append(reply, cells'[There][req[Len(reply) + 1]])
    /\ UNCHANGED <<old, sh, window, req, air, ack, applied, answer, seen, events>>

Complete == reply # <<>> /\ Len(reply) = Len(req)

\* Rows for the names of this window, with values from buffer or without any.
WindowRows(readOk, buffer) ==
    [i \in 1..Len(req) |-> [name |-> sh.names[sh.base + i], value |-> IF readOk THEN buffer[i] ELSE Dash]]

\* The loop goes on after a window that could not be read.
NextWindow(rows) ==
    LET base == sh.base + WINDOW IN
    IF base < Len(sh.names)
    THEN sh' = [sh EXCEPT !.rows = rows, !.base = base] /\ ReadWindow(base, sh.names)
    ELSE End(rows, "ok") /\ UNCHANGED <<req, reply>>

PrintWindow ==
    /\ sh.phase = "window" /\ Complete
    /\ window' = reply
    /\ NextWindow(sh.rows \o WindowRows(TRUE, reply))
    /\ UNCHANGED <<node, old, air, ack, applied, answer, seen, events>>

\* A plausible defect: what the buffer holds is printed although the read failed.
WindowFails_prints_buffer ==
    /\ sh.phase = "window"
    /\ NextWindow(sh.rows \o WindowRows(Len(window) >= Len(req), window))
    /\ UNCHANGED <<node, old, window, air, ack, applied, answer, seen, events>>

\* A plausible defect: a window without an answer is asked for again.
WindowFails_asks_again ==
    /\ sh.phase = "window"
    /\ ReadWindow(sh.base, sh.names)
    /\ UNCHANGED <<node, old, sh, window, air, ack, applied, answer, seen, events>>

WindowFails ==
    /\ sh.phase = "window"
    /\ NextWindow(sh.rows \o WindowRows(FALSE, window))
    /\ UNCHANGED <<node, old, window, air, ack, applied, answer, seen, events>>

GetAnswered ==
    /\ sh.phase = "get" /\ sh.kind = "get" /\ Complete
    /\ End(<<[name |-> sh.arg, value |-> reply[1]]>>, "ok")
    /\ UNCHANGED <<node, old, window, seen, events>> /\ NoWire

\* The first exchange of a set or a get had no answer.
GetFails ==
    /\ sh.phase = "get"
    /\ End(<<>>, "failed")
    /\ IF sh.kind = "set" THEN Answered("unknown") ELSE UNCHANGED answer
    /\ UNCHANGED <<node, old, window, link, applied, seen, events>>

\* The value read gave the type, the text was parsed, and the write is sent.
SendSet ==
    /\ sh.phase = "get" /\ sh.kind = "set" /\ Complete /\ Parses(sh.arg, sh.val)
    /\ sh' = [sh EXCEPT !.phase = "set"]
    /\ air' = air \cup {[op |-> sh.op, name |-> sh.arg, val |-> sh.val]}
    /\ UNCHANGED <<node, old, window, req, reply, ack, applied, answer, seen, events>>

TextRefused ==
    /\ sh.phase = "get" /\ sh.kind = "set" /\ Complete /\ ~Parses(sh.arg, sh.val)
    /\ End(<<>>, "refused")
    /\ Answered("no")
    /\ UNCHANGED <<node, old, window, link, applied, seen, events>>

\* The write arrives, now or long after the shell stopped waiting.
NodeApplies(w) ==
    /\ Write(There, w.name, w.val)
    /\ air' = air \ {w}
    /\ applied' = [applied EXCEPT ![w.op] = @ + 1]
    /\ ack' = [ack EXCEPT ![w.op] = "yes"]
    /\ UNCHANGED <<old, sh, window, req, reply, answer, events>>

NodeRefuses(w) ==
    /\ ~Accepts(w.name, w.val)
    /\ air' = air \ {w}
    /\ ack' = [ack EXCEPT ![w.op] = "no"]
    /\ UNCHANGED <<node, old, sh, window, req, reply, applied, answer, seen, events>>

SetAnswered ==
    /\ sh.phase = "set" /\ ack[sh.op] # "none"
    /\ Answered(ack[sh.op])
    /\ IF ack[sh.op] = "yes" THEN End(<<[name |-> sh.arg, value |-> sh.val]>>, "ok") ELSE End(<<>>, "refused")
    /\ UNCHANGED <<node, old, window, link, applied, seen, events>>

\* A plausible defect: a write without an answer is reported as one that failed.
SetFails_says_no ==
    /\ sh.phase = "set"
    /\ End(<<>>, "failed")
    /\ Answered("no")
    /\ UNCHANGED <<node, old, window, link, applied, seen, events>>

SetFails ==
    /\ sh.phase = "set"
    /\ End(<<>>, "failed")
    /\ Answered("unknown")
    /\ UNCHANGED <<node, old, window, link, applied, seen, events>>

----------------------------------------------------------------------------
(* What goes on meanwhile. *)

\* Only the node that is asked matters to the command.
SourceChanges(n, s) ==
    /\ events < MaxEvents /\ s # src[n] /\ n = sh.node
    /\ events' = events + 1
    /\ src' = [src EXCEPT ![n] = s]
    /\ seen' = seen \cup {s}
    /\ UNCHANGED <<cells, told, old, sh, window, link, applied, answer>>

\* A packet, a packet lost for want of a connection, a feed, a mount or a
\* filesystem that fills up, a driver that does not answer.
Traffic(n) == SourceChanges(n, [src[n] EXCEPT !.ifs[1].tx_packets = (@ + 1) % UINT32])
NoConnection(n) == SourceChanges(n, [src[n] EXCEPT !.errs.conn_out = (@ + 1) % 256])
Fed(n) == SourceChanges(n, [src[n] EXCEPT !.wd.feeds = @ + 1, !.wd.since_feed_ms = 1])
DriverSilent(n) == SourceChanges(n, [src[n] EXCEPT !.wdOk = ~@])
Filesystem(n) == \E fs \in FsStates : SourceChanges(n, [src[n] EXCEPT !.fs = fs])

\* The shell of the node itself; here it is the thread that runs the commands.
ShellFree(n) == n = Here => sh.phase = "done"
cmd_csp_debug(n) == ShellFree(n) /\ \E b \in BOOLEAN : SourceChanges(n, [src[n] EXCEPT !.packet = b])
cmd_csp_rdp(n) == ShellFree(n) /\ \E l \in 0..2 : SourceChanges(n, [src[n] EXCEPT !.rdp = l])
cmd_csp_counters(n) ==
    ShellFree(n) /\ SourceChanges(n, [src[n] EXCEPT !.errs = [e \in ErrorNames |-> 0]])

\* Another node writes to this one, between a set and its read-back too.
OtherWrites ==
    /\ events < MaxEvents
    /\ events' = events + 1
    /\ \E p \in SetNames, v \in SetValues : Write(Here, p, v)
    /\ UNCHANGED <<old, sh, window, link, applied, answer>>

ShellStep ==
    \/ LocalRow \/ LocalSet \/ LocalSetRefused \/ LocalTables
    \/ CollectNames \/ ListTables \/ VisitTable \/ VisitAll \/ PrintTables \/ WalkFails
    \/ PrintWindow \/ WindowFails \/ GetAnswered \/ GetFails
    \/ SendSet \/ TextRefused \/ SetAnswered \/ SetFails

Environment ==
    \/ NodeSamples
    \/ \E w \in air : NodeApplies(w) \/ NodeRefuses(w)
    \/ OtherWrites
    \/ \E n \in Nodes : \/ Traffic(n) \/ NoConnection(n) \/ Fed(n) \/ DriverSilent(n)
                        \/ Filesystem(n) \/ cmd_csp_debug(n) \/ cmd_csp_rdp(n) \/ cmd_csp_counters(n)

Next == Typed \/ ShellStep \/ Environment

Spec == Init /\ [][Next]_vars

\* Every exchange of the shell has a timeout; nothing is assumed of the node.
FairSpec == Spec /\ WF_vars(ShellStep)

----------------------------------------------------------------------------
(* Properties. *)

\* Type correctness of the shell and of the exchange it waits in; the names that
\* were collected fit the arrays of struct param_list_context.
TypeOK ==
    /\ sh.op \in 0..MaxOps /\ sh.node \in Nodes
    /\ sh.phase \in {"done", "row", "local_set", "tables_here", "names", "tables", "visit",
                     "window", "get", "set"}
    /\ sh.node = There => Len(sh.names) <= NAMES_MAX
    /\ sh.base \in 0..Len(AllNames)
    /\ Len(req) <= WINDOW /\ Len(reply) <= Len(req)
    /\ applied \in [Ops -> Nat] /\ answer \in [Ops -> {"none", "yes", "no", "unknown"}]
    /\ events \in 0..MaxEvents

Truth(p, s) == Sampled(p, s, [q \in Params |-> 0])[p]

\* Every value that get, table and listall print (and a local set, after its
\* read-back) was true of the node that was asked, at some moment since the
\* command was typed: never a value of this node, of another parameter or of an
\* earlier window.  The one exception is a watchdog driver that did not answer.
RowsWereTrue ==
    sh.kind \in {"get", "table", "listall"} \/ (sh.kind = "set" /\ sh.node = Here) =>
        \A i \in DOMAIN sh.rows :
            LET r == sh.rows[i] IN
            \/ r.value = Dash
            \/ \E s \in seen : r.value = Truth(r.name, s)
            \/ r.name \in Range(WatchdogTable) /\ \E s \in seen : ~s.wdOk

Printed == [i \in DOMAIN sh.rows |-> sh.rows[i].name]
Least(a, b) == IF a < b THEN a ELSE b

\* A listing that ended without an error shows each parameter once, whether the
\* node serves its table list or not, in windows that failed too; only a remote
\* table beyond the limit of the shell is cut, at the limit.  One that stopped
\* at an error shows whole tables, from the first one on.
ListingIsWhole ==
    sh.phase = "done" =>
        /\ sh.kind = "table" /\ sh.result = "ok" =>
              Printed = SubSeq(Definitions[sh.arg], 1,
                               IF sh.node = Here THEN Len(Definitions[sh.arg])
                               ELSE Least(Len(Definitions[sh.arg]), NAMES_MAX))
        /\ sh.kind = "listall" /\ sh.result = "ok" => Range(Printed) = Params /\ IsInjective(Printed)
        /\ sh.kind = "listall" => \A t \in TableIds :
              Range(Definitions[t]) \cap Range(Printed) \in {{}, Range(Definitions[t])}
        /\ sh.kind = "whichtables" /\ sh.result = "ok" =>
              \A t \in TableIds : sh.rows[t] = [name |-> t, value |-> Cardinality(Range(Definitions[t]))]

Operation == INSTANCE RemoteOperation

\* A set takes effect at most once and means what it prints: a value, that the
\* node took it; a refusal, that it did not and never will; no answer, neither.
SetIsHonest == Operation!Spec

\* Although every value is sampled by itself, the cells of a table always fit
\* together: nothing is held of a filesystem that is not mounted, the used share
\* is a percentage, and the watchdog values are from one answer of the driver
\* unless device_bound says that it does not answer.
CellsFitTogether ==
    \A n \in Nodes :
        LET c == cells[n] IN
        /\ c.mounted = 0 => c.total_kb = 0 /\ c.free_kb = 0 /\ c.used_pct = 0
        /\ c.fs_mounted = 0 => c.fs_total_kb = 0 /\ c.fs_free_kb = 0
        /\ c.used_pct \in 0..100
        /\ c.device_bound = 1 => told[n] = Restrict(c, Range(WatchdogTable))

\* A command ends, whatever the other node does not answer.
CommandEnds == sh.phase # "done" ~> sh.phase = "done"
=============================================================================
