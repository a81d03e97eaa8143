------------------------------ MODULE HkShell ------------------------------
(***************************************************************************)
(* The housekeeping commands of app/src/shell/shell_hk.c and the entries   *)
(* that app/src/hk_entries.c parses for them and for the command service.  *)
(* Three threads act on one node's reports: its shell, which reads samples *)
(* one service call at a time, the collector, and the command server, with *)
(* what the shell of another node sent (define_remote()).                  *)
(*                                                                         *)
(* The housekeeping service is external.  It is modelled from its use here *)
(* and from docs/services/index.md: a changed definition discards the      *)
(* samples and the file, the file is a ring read oldest first, samples are *)
(* asked for by age, and every setting is saved when it is changed.        *)
(***************************************************************************)
EXTENDS Integers, Sequences, FiniteSets, SequencesExt, Selections

CONSTANTS
    REPORTS,      \* CONFIG_KFSW_HK_REPORTS
    ENTRIES,      \* CONFIG_KFSW_HK_ENTRIES
    BYTE, WORD,   \* values of an uint8_t and of an uint16_t
    TABLES,       \* values of a table number
    OFFSETS,      \* values of an offset
    TEXT,         \* KFSW_COMMAND_MAX_TEXT_SIZE
    TOKEN,        \* size of the token buffer of kfsw_app_hk_parse_entries()
    FLOOR,        \* CONFIG_KFSW_HK_BEACON_FLOOR_MS
    DEPTH, CAPACITY,   \* samples that RAM and a file hold
    Lines,        \* what is typed after the report of hk define
    Filters,      \* what is typed after the report of hk stored and extract
    Numbers, Values,   \* report numbers and settings that are typed
    Incomplete,   \* the samples with a value missing
    MaxOps, MaxRemote, MaxSamples   \* bounds

CLASS_MAX == 7
CLASS_DEFAULT == 4
LOCAL_NODE == 0

Reports == 0..(REPORTS - 1)

\* A word of a line: a class, numbers between colons, or anything else.
Words == [class : Nat, size : Nat, quoted : BOOLEAN] \cup [parts : Seq(Nat), size : Nat, quoted : BOOLEAN]
             \cup [size : Nat, quoted : BOOLEAN]

ASSUME HkAssumption ==
    /\ REPORTS \in 1..BYTE /\ ENTRIES \in Nat \ {0}
    /\ DEPTH \in Nat \ {0} /\ CAPACITY \in Nat \ {0} /\ FLOOR \in Nat
    /\ Numbers \subseteq Nat /\ Values \subseteq Nat
    /\ Lines \subseteq Seq(Words) /\ BYTE \in Nat /\ WORD \in Nat \ {0}
    /\ Filters \subseteq Seq([name : STRING, value : Nat])
    /\ MaxOps \in Nat /\ MaxRemote \in Nat /\ MaxSamples \in Nat

----------------------------------------------------------------------------
(* What is typed.  A line is a sequence of words: a class [class |-> n],    *)
(* parts [parts |-> <<numbers between colons>>], or junk without a colon,   *)
(* each with its size.  A word may be in one quoted argument with the word  *)
(* before it.                                                               *)

IsClass(w) == "class" \in DOMAIN w
IsParts(w) == "parts" \in DOMAIN w

\* A plausible defect: table and offset are counted from the front.
parse_entry_from_front(w) ==
    IF /\ IsParts(w) /\ Len(w.parts) \in 2..3 /\ \A i \in DOMAIN w.parts : w.parts[i] < WORD
       /\ w.parts[1] < TABLES /\ w.parts[2] < OFFSETS
    THEN <<[node |-> IF Len(w.parts) = 2 THEN LOCAL_NODE ELSE w.parts[1],
            table |-> w.parts[1], offset |-> w.parts[2]]>>
    ELSE <<>>

\* kfsw_app_hk_parse_entry(): the entry in a sequence, which is empty on an error.
parse_entry(w) ==
    LET n == Len(w.parts) IN
    IF /\ IsParts(w) /\ n \in 2..3 /\ \A i \in 1..n : w.parts[i] < WORD
       /\ w.parts[n - 1] < TABLES /\ w.parts[n] < OFFSETS
    THEN <<[node |-> IF n = 2 THEN LOCAL_NODE ELSE w.parts[1],
            table |-> w.parts[n - 1], offset |-> w.parts[n]]>>
    ELSE <<>>

AllParse(words) == \A i \in DOMAIN words : parse_entry(words[i]) # <<>>
Parsed(words) == [i \in DOMAIN words |-> parse_entry(words[i])[1]]

\* kfsw_app_hk_parse_class(): the class at the head of the words, and the rest.
parse_class(words) ==
    IF words # <<>> /\ IsClass(Head(words))
    THEN [ok |-> Head(words).class <= CLASS_MAX, class |-> Head(words).class, rest |-> Tail(words)]
    ELSE [ok |-> TRUE, class |-> CLASS_DEFAULT, rest |-> words]

\* A plausible defect: the last place of the array is never used.
parse_entries_one_less(words) ==
    IF words # <<>> /\ Len(words) < ENTRIES /\ AllParse(words)
       /\ \A i \in DOMAIN words : words[i].size < TOKEN
    THEN Parsed(words)
    ELSE <<>>

\* kfsw_app_hk_parse_entries()
parse_entries(words) ==
    IF words # <<>> /\ Len(words) <= ENTRIES /\ AllParse(words)
       /\ \A i \in DOMAIN words : words[i].size < TOKEN
    THEN Parsed(words)
    ELSE <<>>

None == [def |-> <<>>, class |-> CLASS_DEFAULT]

\* cmd_hk_define(): a class, then one entry in each argument.
LocalMeaning(line) ==
    LET first == parse_class(line) IN
    IF /\ first.ok /\ first.rest # <<>> /\ Len(first.rest) <= ENTRIES
       /\ (\A i \in DOMAIN line : ~line[i].quoted) /\ AllParse(first.rest)
    THEN [def |-> Parsed(first.rest), class |-> first.class]
    ELSE None

\* The bytes of the text that define_remote() joins the arguments to.
Length(line) ==
    LET upTo[i \in 0..Len(line)] == IF i = 0 THEN -1 ELSE upTo[i - 1] + 1 + line[i].size IN
    upTo[Len(line)]

\* define_remote(), and command_hk_define() that takes the text apart again.
RemoteMeaning(line) ==
    LET first == parse_class(line) IN
    IF Length(line) <= TEXT /\ first.ok /\ parse_entries(first.rest) # <<>>
    THEN [def |-> parse_entries(first.rest), class |-> first.class]
    ELSE None

\* What the words of a line say, however they were quoted and sent: a class, if the
\* first word is one, and an entry in each of the others.
EntryOf(p) ==
    [node |-> IF Len(p) = 3 THEN p[1] ELSE LOCAL_NODE, table |-> p[Len(p) - 1], offset |-> p[Len(p)]]
Says(line) ==
    LET entries == IF IsClass(line[1]) THEN Tail(line) ELSE line IN
    [def |-> [i \in DOMAIN entries |-> EntryOf(entries[i].parts)],
     class |-> IF IsClass(line[1]) THEN line[1].class ELSE CLASS_DEFAULT]

\* cmd_hk_define(): entries hold a colon, so a first argument with none is the report,
\* and the number before it a node, when more follows.
HasColon(w) == IsParts(w) /\ Len(w.parts) > 1
NamesNode(line) ==
    /\ Len(line) > 1 /\ \E i \in 2..Len(line) : ~line[i].quoted
    /\ ~IsClass(line[1])
    /\ \A i \in DOMAIN line : (\A j \in 2..i : line[j].quoted) => ~HasColon(line[i])

\* The report of such a line, and a number that no report has if it is no number.
ReportOf(line) ==
    IF IsParts(line[1]) /\ Len(line[1].parts) = 1 /\ ~line[2].quoted THEN line[1].parts[1] ELSE REPORTS

\* The lines tried, and how each is read: as a definition here and there, or as one
\* that names a node.
Readings ==
    [line \in Lines |->
        [here |-> LocalMeaning(line), there |-> RemoteMeaning(line),
         node |-> NamesNode(line), sent |-> IF NamesNode(line) THEN RemoteMeaning(Tail(line)) ELSE None]]

\* The arguments that a filter understands.  Each value is cut to the width of its
\* field: a sequence number to 16 bits, a time to 32, flags to 8.
FilterNames == {"from", "to", "since", "until", "skip"}
NoBound == [n \in FilterNames |-> 0]
Cut(name, value) ==
    CASE name \in {"from", "to"} -> value % WORD
      [] name = "skip"           -> value % BYTE
      [] OTHER                   -> value

\* A plausible defect: the upper bound is taken for the lower one.
parse_filter_swapped(args) ==
    LET upTo[i \in 0..Len(args)] ==
            IF i = 0 THEN NoBound
            ELSE [upTo[i - 1] EXCEPT ![IF args[i].name = "to" THEN "from" ELSE args[i].name] =
                     Cut(args[i].name, args[i].value)] IN
    upTo[Len(args)]

\* parse_filter(): a later argument replaces an earlier one.
parse_filter(args) ==
    LET upTo[i \in 0..Len(args)] ==
            IF i = 0 THEN NoBound
            ELSE [upTo[i - 1] EXCEPT ![args[i].name] = Cut(args[i].name, args[i].value)] IN
    upTo[Len(args)]

\* An argument that is not name=value, or has an unknown name, is refused.
FilterReads(args) == \A i \in DOMAIN args : args[i].name \in FilterNames

----------------------------------------------------------------------------
VARIABLES
    rep,          \* the settings of every report, in RAM
    saved,        \* the settings in the snapshot
    ram, file,    \* samples of every report: newest first, oldest first
    gen, taken,   \* number of the definition, and samples taken so far
    sh,           \* the command that the shell runs
    ops, remote,  \* commands typed here and there so far
    meant,        \* what was typed for the definition in force (history)
    since,        \* settings applied since the last one called saved (history)
    had           \* settings since hk show began (history)

settings == <<rep, saved, meant, since>>
samples == <<ram, file, gen, taken>>
vars == <<settings, samples, sh, ops, remote, had>>

Undefined == [def |-> <<>>, class |-> CLASS_DEFAULT, period |-> 0, store |-> 0, beacon |-> 0]
Idle == [cmd |-> "none", phase |-> "idle", number |-> 0, wanted |-> 0, args |-> <<>>, index |-> 0,
         rows |-> <<>>, held |-> <<>>, moved |-> FALSE, answer |-> "none"]

\* The reports were restored from a snapshot; the first is collected and stored.
Restored(r) == [def |-> <<[node |-> LOCAL_NODE, table |-> 1, offset |-> 0]>>, class |-> r % (CLASS_MAX + 1),
                period |-> IF r = 0 THEN FLOOR ELSE 0, store |-> IF r = 0 THEN FLOOR ELSE 0, beacon |-> 0]

Init ==
    /\ rep = [r \in Reports |-> Restored(r)]
    /\ saved = rep
    /\ ram = [r \in Reports |-> <<>>] /\ file = ram
    /\ gen = [r \in Reports |-> 0] /\ taken = gen
    /\ sh = Idle
    /\ ops = 0 /\ remote = 0
    /\ meant = [r \in Reports |-> [def |-> rep[r].def, class |-> rep[r].class]]
    /\ since = [r \in Reports |-> {rep[r]}]
    /\ had = [r \in Reports |-> {}]

----------------------------------------------------------------------------
(* Settings. *)

\* A plausible defect: a setting that was not saved counts as done.
setting_result_ignored(result) == IF result = "unsaved" THEN "done" ELSE result
setting_result(result) == result

\* A setting of report r is applied and then saved, or not: what is answered.
Apply(r, new, result) ==
    /\ result \in {"done", "unsaved"}
    /\ rep' = [rep EXCEPT ![r] = new]
    /\ saved' = IF result = "done" THEN rep' ELSE saved
    /\ since' = [since EXCEPT ![r] = IF setting_result(result) = "done" THEN {new} ELSE @ \cup {new}]
    /\ had' = IF sh.cmd = "show" THEN [had EXCEPT ![r] = @ \cup {new}] ELSE had

\* kfsw_hk_define_class(), kfsw_hk_clear(): samples of the old definition go.
Discard(r) ==
    /\ ram' = [ram EXCEPT ![r] = <<>>] /\ file' = [file EXCEPT ![r] = <<>>]
    /\ gen' = [gen EXCEPT ![r] = @ + 1]
    /\ UNCHANGED taken

Define(r, meaning, line, result) ==
    /\ Apply(r, [rep[r] EXCEPT !.def = meaning.def, !.class = meaning.class], result)
    /\ meant' = [meant EXCEPT ![r] = line]
    /\ Discard(r)

Clear(r, result) ==
    /\ Apply(r, Undefined, result)
    /\ meant' = [meant EXCEPT ![r] = None]
    /\ Discard(r)

IsDefined(r) == r \in Reports /\ rep[r].def # <<>>

\* The interval is 0 or at least the floor.
SetPeriod(r, v, result) ==
    IsDefined(r) /\ Apply(r, [rep[r] EXCEPT !.period = v], result) /\ UNCHANGED <<meant, samples>>
SetStore(r, v, result) ==
    /\ IsDefined(r) /\ v \notin 1..(FLOOR - 1)
    /\ Apply(r, [rep[r] EXCEPT !.store = v], result) /\ UNCHANGED <<meant, samples>>
SetBeacon(r, v, result) ==
    /\ IsDefined(r) /\ v \notin 1..(FLOOR - 1)
    /\ Apply(r, [rep[r] EXCEPT !.beacon = v], result) /\ UNCHANGED <<meant, samples>>
ClearStore(r, result) ==
    /\ IsDefined(r) /\ Apply(r, [rep[r] EXCEPT !.store = 0], result)
    /\ file' = [file EXCEPT ![r] = <<>>] /\ UNCHANGED <<meant, ram, gen, taken>>

----------------------------------------------------------------------------
(* Commands of one service call.  Only define compares the number itself   *)
(* with the reports; the others cut it to eight bits.                      *)

Type(cmd, number, line, answer) ==
    /\ sh.phase = "idle" /\ ops < MaxOps
    /\ ops' = ops + 1
    /\ sh' = [Idle EXCEPT !.cmd = cmd, !.number = number, !.args = line, !.answer = answer]
    /\ UNCHANGED remote

Byte(number) == number % BYTE

cmd_hk_define(number, line, result) ==
    /\ ~Readings[line].node
    /\ Type("define", number, line, setting_result(result))
    /\ number < REPORTS /\ Readings[line].here # None
    /\ Define(number, Readings[line].here, Says(line), result)

\* define_remote(): the line goes to the node of its number.  Node 0 is this one: the
\* handler of the command service reads the text here.
define_remote(node, line, result) ==
    /\ Readings[line].node /\ node = LOCAL_NODE
    /\ ReportOf(line) \in Reports /\ Readings[line].sent # None
    /\ Type("define_remote", ReportOf(line), line, setting_result(result))
    /\ Define(ReportOf(line), Readings[line].sent, Says(Tail(line)), result)

cmd_hk_clear(number, result) ==
    Type("clear", number, <<>>, setting_result(result)) /\ Byte(number) \in Reports /\ Clear(Byte(number), result)
cmd_hk_period(number, v, result) ==
    Type("period", number, <<>>, setting_result(result)) /\ SetPeriod(Byte(number), v, result)
cmd_hk_store(number, v, result) ==
    Type("store", number, <<>>, setting_result(result)) /\ SetStore(Byte(number), v, result)
cmd_hk_store_clear(number, result) ==
    Type("store_clear", number, <<>>, setting_result(result)) /\ ClearStore(Byte(number), result)
cmd_hk_beacon(number, v, result) ==
    Type("beacon", number, <<>>, setting_result(result)) /\ SetBeacon(Byte(number), v, result)

\* hk save: everything that was only in RAM is in the snapshot.
cmd_hk_save ==
    /\ Type("save", 0, <<>>, "done")
    /\ saved' = rep
    /\ since' = [r \in Reports |-> {rep[r]}]
    /\ UNCHANGED <<rep, meant, samples, had>>

\* What is refused leaves only its message: a line that is no definition, a
\* report that is not defined, an interval under the floor, a save that failed.  So
\* does a line that went to another node.
Refused(cmd, number, line) ==
    /\ Type(cmd, number, line, "error")
    /\ UNCHANGED <<settings, samples, had>>

DefineRefused(number, line) ==
    \/ /\ ~Readings[line].node /\ (number >= REPORTS \/ Readings[line].here = None)
       /\ Refused("define", number, line)
    \/ /\ Readings[line].node
       /\ number # LOCAL_NODE \/ ReportOf(line) \notin Reports \/ Readings[line].sent = None
       /\ Refused("define_remote", number, line)

SettingRefused(number, v) ==
    ~IsDefined(Byte(number)) \/ v \in 1..(FLOOR - 1)

----------------------------------------------------------------------------
(* Samples. *)

\* The collector, or hk collect: a sample of the definition in force.
Collect(r) ==
    /\ taken[r] < MaxSamples
    /\ LET s == [gen |-> gen[r], time |-> taken[r] + 1, flag |-> IF taken[r] + 1 \in Incomplete THEN 1 ELSE 0]
           grown == Append(file[r], s) IN
       /\ ram' = [ram EXCEPT ![r] = SubSeq(<<s>> \o @, 1, IF Len(@) < DEPTH THEN Len(@) + 1 ELSE DEPTH)]
       /\ file' = IF rep[r].store = 0 THEN file
                  ELSE [file EXCEPT ![r] = IF Len(grown) > CAPACITY THEN Tail(grown) ELSE grown]
    /\ taken' = [taken EXCEPT ![r] = @ + 1]
    /\ UNCHANGED <<gen, settings, had>>

cmd_hk_collect(number) ==
    /\ Type("collect", number, <<>>, "done")
    /\ IsDefined(Byte(number)) /\ Collect(Byte(number))

\* Commands that loop over service calls.
Start(cmd, number, wanted, args) ==
    /\ sh.phase = "idle" /\ ops < MaxOps
    /\ ops' = ops + 1
    /\ sh' = [Idle EXCEPT !.cmd = cmd, !.phase = cmd, !.number = number, !.wanted = wanted, !.args = args,
                          !.held = IF cmd = "get" /\ Byte(number) \in Reports THEN ram[Byte(number)] ELSE <<>>]
    /\ had' = IF cmd = "show" THEN [r \in Reports |-> {rep[r]}] ELSE had
    /\ UNCHANGED <<settings, samples, remote>>

\* The command ends; what it printed stays on the screen.
Stop(rows, answer) == sh' = [sh EXCEPT !.phase = "idle", !.rows = rows, !.answer = answer]
In(phase) == sh.phase = phase /\ UNCHANGED <<settings, samples, ops, remote, had>>

\* A plausible defect: ages are counted from one.
GetNext_from_one ==
    /\ In("get")
    /\ LET r == Byte(sh.number) IN
       IF sh.index < sh.wanted /\ r \in Reports /\ sh.index + 1 < Len(ram[r])
       THEN sh' = [sh EXCEPT !.rows = Append(@, ram[r][sh.index + 2]), !.index = @ + 1]
       ELSE Stop(sh.rows, "done")

\* The sample at one age more; the first that is not there ends the loop.
GetNext ==
    /\ In("get")
    /\ LET r == Byte(sh.number) IN
       IF sh.index < sh.wanted /\ r \in Reports /\ sh.index < Len(ram[r])
       THEN sh' = [sh EXCEPT !.rows = Append(@, ram[r][sh.index + 1]), !.index = @ + 1]
       ELSE Stop(sh.rows, "done")

\* A record of a report's samples.  One is taken at each time, and the sequence
\* number that it carries is cut to 16 bits.
Records == [gen : Nat, time : Nat, flag : 0..1]
Sequence(s) == s.time % WORD

\* The difference of two sequence numbers, as a signed 16-bit number, is not negative.
Reaches(a, b) == (a - b) % WORD < (WORD + 1) \div 2

\* What a filter of the service admits, and what it selects in the order of the file.
\* The flag of an incomplete sample is one bit of those that skip= names.
Admits(name, v, s) ==
    v # 0 => CASE name = "from"  -> Reaches(Sequence(s), v)
               [] name = "to"    -> Reaches(v, Sequence(s))
               [] name = "since" -> s.time >= v
               [] name = "until" -> s.time <= v
               [] name = "skip"  -> v % 2 = 1 => s.flag = 0
Admitted(f) == {s \in Records : \A name \in FilterNames : Admits(name, f[name], s)}
Selection(f, records) == Kept(records, Admitted(f))

\* The records that a read, a count or an extract of this command selects now.
Selected == Selection(parse_filter(sh.args), file[Byte(sh.number)])
HasFile == FilterReads(sh.args) /\ Byte(sh.number) \in Reports /\ file[Byte(sh.number)] # <<>>

\* hk stored: the records are counted before the first is read.
StoredCount ==
    /\ In("stored")
    /\ IF HasFile
       THEN sh' = [sh EXCEPT !.phase = "reading", !.held = file[Byte(sh.number)], !.moved = FALSE,
                             !.wanted = Len(Selected)]
       ELSE Stop(<<>>, "error")

\* A plausible defect: the loop goes up to what is there, not to what was counted.
StoredNext_uncounted ==
    /\ In("reading")
    /\ IF sh.index < Len(Selected)
       THEN sh' = [sh EXCEPT !.rows = Append(@, Selected[sh.index + 1]), !.index = @ + 1]
       ELSE Stop(sh.rows, "done")

\* The record at the next index of the selection as it is now.
StoredNext ==
    /\ In("reading")
    /\ IF sh.index < sh.wanted /\ sh.index < Len(Selected)
       THEN sh' = [sh EXCEPT !.rows = Append(@, Selected[sh.index + 1]), !.index = @ + 1]
       ELSE Stop(sh.rows, "done")

\* hk extract: the service counts and then writes, and refuses when the ring moved.
ExtractCount ==
    /\ In("extract")
    /\ IF HasFile
       THEN sh' = [sh EXCEPT !.phase = "writing", !.held = file[Byte(sh.number)], !.moved = FALSE,
                             !.wanted = Len(Selected)]
       ELSE Stop(<<>>, "error")
ExtractWrite ==
    /\ In("writing")
    /\ IF sh.moved THEN Stop(<<>>, "error") ELSE Stop(Selected, "done")

\* hk show: the definition of the next report, then calls for the rest of it.  A
\* report that was cleared in between shows what the variables were set to.
\* Before that, a plausible defect: variables set once, before the loop.
Fresh_carries(rows) ==
    IF rows = <<>> THEN [period |-> 0, class |-> CLASS_DEFAULT]
    ELSE [period |-> Last(rows).period, class |-> Last(rows).class]
Fresh(rows) == [period |-> 0, class |-> CLASS_DEFAULT]

ShowDefinition ==
    /\ In("show")
    /\ IF sh.index = REPORTS THEN Stop(sh.rows, "done")
       ELSE IF rep[sh.index].def = <<>> THEN sh' = [sh EXCEPT !.index = @ + 1]
       ELSE sh' = [sh EXCEPT !.phase = "period",
                             !.rows = Append(@, [report |-> sh.index, def |-> rep[sh.index].def,
                                                 period |-> Fresh(sh.rows).period, class |-> Fresh(sh.rows).class])]

ShowPeriod ==
    /\ In("period")
    /\ sh' = [sh EXCEPT !.phase = "class",
                        !.rows[Len(sh.rows)].period = IF rep[sh.index].def = <<>> THEN @ ELSE rep[sh.index].period]

ShowClass ==
    /\ In("class")
    /\ sh' = [sh EXCEPT !.phase = "show", !.index = @ + 1,
                        !.rows[Len(sh.rows)].class = IF rep[sh.index].def = <<>> THEN @ ELSE rep[sh.index].class]

----------------------------------------------------------------------------
(* The other threads. *)

\* A change of the file is seen by a command that reads it.
Moves == sh' = [sh EXCEPT !.moved = @ \/ file' # file]

Collector(r) == rep[r].period > 0 /\ Collect(r) /\ Moves /\ UNCHANGED <<ops, remote>>

\* Requests from another node's shell; the handlers refuse what is no byte.
Arrives == remote < MaxRemote /\ remote' = remote + 1 /\ UNCHANGED ops

command_hk_define(number, line, result) ==
    /\ Arrives /\ number \in Reports /\ Readings[line].there # None
    /\ Define(number, Readings[line].there, Says(line), result) /\ Moves
command_hk_period(number, v, result) == Arrives /\ number < BYTE /\ SetPeriod(number, v, result) /\ Moves
command_hk_clear(number, result) == Arrives /\ number \in Reports /\ Clear(number, result) /\ Moves

Setting(number, result) ==
    \/ \E line \in Lines : cmd_hk_define(number, line, result) \/ define_remote(number, line, result)
    \/ cmd_hk_clear(number, result) \/ cmd_hk_store_clear(number, result)
    \/ \E v \in Values : \/ cmd_hk_period(number, v, result) \/ cmd_hk_store(number, v, result)
                         \/ cmd_hk_beacon(number, v, result)

RemoteSetting(number, result) ==
    \/ \E line \in Lines : command_hk_define(number, line, result)
    \/ command_hk_clear(number, result)
    \/ \E v \in Values : command_hk_period(number, v, result)

Next ==
    \/ \E number \in Numbers :
          \/ \E result \in {"done", "unsaved"} : Setting(number, result) \/ RemoteSetting(number, result)
          \/ \E line \in Lines : DefineRefused(number, line)
          \/ \E v \in Values : SettingRefused(number, v) /\ Refused("setting", number, <<>>)
          \/ cmd_hk_collect(number)
          \/ \E wanted \in 1..(DEPTH + 1) : Start("get", number, wanted, <<>>)
          \/ \E args \in Filters : Start("stored", number, 0, args) \/ Start("extract", number, 0, args)
    \/ cmd_hk_save \/ Refused("save", 0, <<>>)
    \/ Start("show", 0, 0, <<>>)
    \/ GetNext \/ StoredCount \/ StoredNext \/ ExtractCount \/ ExtractWrite
    \/ ShowDefinition \/ ShowPeriod \/ ShowClass
    \/ \E r \in Reports : Collector(r)

Spec == Init /\ [][Next]_vars

----------------------------------------------------------------------------
(* Properties. *)

Setting_type == [period : Values \cup {0, FLOOR}, store : Values \cup {0, FLOOR}, beacon : Values \cup {0},
                 class : 0..CLASS_MAX, def : {rep[r].def : r \in Reports}]

\* Type correctness: settings in their ranges, no more samples than RAM and the
\* file hold, no more printed than was asked for or counted.
TypeOK ==
    /\ \A r \in Reports :
        /\ rep[r] \in Setting_type
        /\ Len(rep[r].def) <= ENTRIES
        /\ Len(ram[r]) <= DEPTH /\ Len(file[r]) <= CAPACITY /\ taken[r] <= MaxSamples
    /\ sh.cmd \in {"get", "stored"} => Len(sh.rows) <= sh.wanted
    /\ sh.index \in 0..(REPORTS + DEPTH + CAPACITY) /\ ops <= MaxOps /\ remote <= MaxRemote

\* Whoever defined a report last, in the shell of this node or of another, the
\* definition is what the words typed say: node, table and offset of each entry
\* in their order, and the class.
DefinedAsTyped ==
    \A r \in Reports : [def |-> rep[r].def, class |-> rep[r].class] = meant[r]

\* A line that the shell takes for this node is taken by another one too, unless
\* a word or the whole text is too long; what only the other one takes is a
\* quoted argument of several words.
RoutesAgree ==
    sh.cmd = "define" /\ sh.number < REPORTS =>
        LET line == sh.args
            short == (\A i \in DOMAIN line : line[i].size < TOKEN) /\ Length(line) <= TEXT
            plain == \A i \in DOMAIN line : ~line[i].quoted IN
        /\ sh.answer # "error" /\ short => Readings[line].there # None
        /\ sh.answer = "error" /\ plain => Readings[line].there = None

Adjacent(rows) == {i \in 1..(Len(rows) - 1) : rows[i].gen = rows[i + 1].gen}

\* hk get begins with the newest sample or a newer one and skips none on its way
\* back, although collections go on and shift every age: it may print one twice.
GetSkipsNothing ==
    sh.cmd = "get" =>
        /\ \A i \in Adjacent(sh.rows) : sh.rows[i + 1].time >= sh.rows[i].time - 1
        /\ sh.rows # <<>> /\ sh.held # <<>> /\ sh.rows[1].gen = sh.held[1].gen =>
              sh.rows[1].time >= sh.held[1].time

\* The value of the last argument of a name, as far as its field holds it.
Typed(name) == {Cut(name, sh.args[i].value) : i \in {j \in DOMAIN sh.args :
                   sh.args[j].name = name /\ \A k \in (j + 1)..Len(sh.args) : sh.args[k].name # name}}

\* hk stored and hk extract hand out only records that the last argument of each
\* name admits, cut to the width of its field and with zero for no bound, each newer
\* than the one before, and while the file does not change exactly the selection,
\* from the oldest on.
StoredIsSelection ==
    sh.cmd \in {"stored", "extract"} /\ sh.rows # <<>> =>
        /\ \A i \in DOMAIN sh.rows, name \in FilterNames :
              \A v \in Typed(name) : Admits(name, v, sh.rows[i])
        /\ \A i \in Adjacent(sh.rows) : sh.rows[i + 1].time > sh.rows[i].time
        /\ ~sh.moved => IsPrefix(sh.rows, Selection(parse_filter(sh.args), sh.held))
        /\ ~sh.moved /\ sh.phase = "idle" => Len(sh.rows) = sh.wanted

\* What hk show prints of a report, it had at some moment since hk show began, or
\* it is the preset value of a report that was cleared: never another report's.
ShowIsItsOwn ==
    sh.cmd = "show" => \A i \in DOMAIN sh.rows :
        LET row == sh.rows[i] IN
        /\ row.def \in {s.def : s \in had[row.report]}
        /\ row.period \in {0} \cup {s.period : s \in had[row.report]}
        /\ row.class \in {CLASS_DEFAULT} \cup {s.class : s \in had[row.report]}

\* The snapshot that a restart would read holds, for every report, the settings
\* that somebody was last told are done, or later ones: "Applied in RAM" is never
\* passed off as done.
DoneIsSaved == \A r \in Reports : saved[r] \in since[r]

\* A command typed here changes only the report of its number, and a number over
\* 255 that of its low byte; hk define refuses such a number.
OnlyNamedReport ==
    [][ops' # ops => \A r \in Reports : rep'[r] # rep[r] =>
          IF sh'.cmd = "define" THEN sh'.number = r ELSE sh'.number % BYTE = r]_vars
=============================================================================
