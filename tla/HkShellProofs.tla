---------------------------- MODULE HkShellProofs ----------------------------
(***************************************************************************)
(* The housekeeping shell, for every line that may be typed and any number *)
(* of reports, commands, requests from other nodes and samples: what a     *)
(* definition means, what is saved, and what hk get and hk show print.     *)
(***************************************************************************)
EXTENDS HkShell, SelectionsProofs, SequenceTheorems, TLAPS

Entries == [node : Nat, table : Nat, offset : Nat]

----------------------------------------------------------------------------
(* Reading a line. *)

\* A word has at most one kind.
LEMMA WordKinds ==
    ASSUME NEW w \in Words
    PROVE  /\ IsClass(w) => w.class \in Nat /\ ~IsParts(w)
           /\ IsParts(w) => w.parts \in Seq(Nat)
           /\ w.size \in Nat
  BY DEF Words, IsClass, IsParts

\* parse_entry() reads what the word says, and nothing of a class.
LEMMA EntryAsTyped ==
    ASSUME NEW w \in Words, parse_entry(w) # <<>>
    PROVE  parse_entry(w)[1] = EntryOf(w.parts) /\ EntryOf(w.parts) \in Entries /\ ~IsClass(w)
  <1>1. /\ IsParts(w) /\ Len(w.parts) \in 2..3
        /\ parse_entry(w)[1] = [node |-> IF Len(w.parts) = 2 THEN LOCAL_NODE ELSE w.parts[1],
                                table |-> w.parts[Len(w.parts) - 1], offset |-> w.parts[Len(w.parts)]]
    BY DEF parse_entry
  <1>2. Len(w.parts) = 2 \/ Len(w.parts) = 3
    BY <1>1
  <1>3. ~IsClass(w)
    BY <1>1, WordKinds
  <1>4. (IF Len(w.parts) = 2 THEN LOCAL_NODE ELSE w.parts[1]) = IF Len(w.parts) = 3 THEN w.parts[1] ELSE LOCAL_NODE
    BY <1>2, SMTT(40)
  <1>5. w.parts \in Seq(Nat)
    BY <1>1, WordKinds
  <1>6. \A k \in 1..Len(w.parts) : w.parts[k] \in Nat
    BY <1>5
  <1>7. w.parts[Len(w.parts) - 1] \in Nat /\ w.parts[Len(w.parts)] \in Nat
        /\ (Len(w.parts) = 3 => w.parts[1] \in Nat)
    <2>1. CASE Len(w.parts) = 2
      <3>1. w.parts[1] \in Nat /\ w.parts[2] \in Nat
        BY <1>6, <2>1
      <3> QED BY <2>1, <3>1
    <2>2. CASE Len(w.parts) = 3
      <3>1. w.parts[1] \in Nat /\ w.parts[2] \in Nat /\ w.parts[3] \in Nat
        BY <1>6, <2>2
      <3> QED BY <2>2, <3>1
    <2> QED BY <1>2, <2>1, <2>2
  <1>8. EntryOf(w.parts) \in Entries
    BY <1>7 DEF EntryOf, Entries, LOCAL_NODE
  <1>9. parse_entry(w)[1] = EntryOf(w.parts)
    BY <1>1, <1>4 DEF EntryOf
  <1> QED BY <1>3, <1>8, <1>9

\* What parse_class() leaves of a line: the whole of it, or all but a class.
LEMMA ClassThenEntries ==
    ASSUME NEW line \in Seq(Words), parse_class(line).ok, parse_class(line).rest # <<>>,
           AllParse(parse_class(line).rest)
    PROVE  /\ line # <<>>
           /\ parse_class(line).class = Says(line).class
           /\ Parsed(parse_class(line).rest) = Says(line).def
           /\ parse_class(line).rest \in Seq(Words)
           /\ parse_class(line).class \in 0..CLASS_MAX
           /\ Says(line).def \in Seq(Entries)
  <1>1. PICK rest : rest = parse_class(line).rest
    OBVIOUS
  <1>2. CASE line # <<>> /\ IsClass(line[1])
    <2>1. Head(line) = line[1] /\ line[1] \in Words /\ Tail(line) \in Seq(Words)
      BY <1>2
    <2>2. rest = Tail(line) /\ parse_class(line).class = line[1].class /\ line[1].class <= CLASS_MAX
      BY <1>1, <1>2, <2>1 DEF parse_class
    <2>3. Says(line).class = line[1].class
          /\ Says(line).def = [i \in DOMAIN rest |-> EntryOf(rest[i].parts)]
      BY <1>2, <2>2 DEF Says
    <2>4. rest \in Seq(Words)
      BY <2>1, <2>2
    <2>5. \A i \in DOMAIN rest : rest[i] \in Words
      BY <2>4
    <2>6. \A i \in DOMAIN rest : parse_entry(rest[i])[1] = EntryOf(rest[i].parts) /\ EntryOf(rest[i].parts) \in Entries
      BY <1>1, <2>5, EntryAsTyped DEF AllParse
    <2>7. Parsed(rest) = Says(line).def
      BY <2>3, <2>6 DEF Parsed
    <2>8. line[1].class \in 0..CLASS_MAX
      BY <1>2, <2>1, <2>2, WordKinds, SMTT(40) DEF CLASS_MAX
    <2>9. DOMAIN rest = 1..Len(rest) /\ Len(rest) \in Nat
      BY <2>4
    <2>10. Says(line).def \in Seq(Entries)
      BY <2>3, <2>6, <2>9
    <2> QED BY <1>1, <1>2, <2>2, <2>3, <2>4, <2>7, <2>8, <2>10
  <1>3. CASE ~(line # <<>> /\ IsClass(line[1]))
    <2>1. line # <<>> => Head(line) = line[1]
      OBVIOUS
    <2>2. rest = line /\ parse_class(line).class = CLASS_DEFAULT
      BY <1>1, <1>3, <2>1 DEF parse_class
    <2>3. line # <<>> /\ ~IsClass(line[1])
      BY <1>1, <1>3, <2>2
    <2>4. Says(line).class = CLASS_DEFAULT /\ Says(line).def = [i \in DOMAIN line |-> EntryOf(line[i].parts)]
      BY <2>3 DEF Says
    <2>5. \A i \in DOMAIN line : line[i] \in Words
      OBVIOUS
    <2>6. \A i \in DOMAIN line : parse_entry(line[i])[1] = EntryOf(line[i].parts) /\ EntryOf(line[i].parts) \in Entries
      BY <1>1, <2>2, <2>5, EntryAsTyped DEF AllParse
    <2>7. Parsed(line) = Says(line).def
      BY <2>4, <2>6 DEF Parsed
    <2>8. CLASS_DEFAULT \in 0..CLASS_MAX
      BY DEF CLASS_DEFAULT, CLASS_MAX
    <2>9. DOMAIN line = 1..Len(line) /\ Len(line) \in Nat
      OBVIOUS
    <2>10. Says(line).def \in Seq(Entries)
      BY <2>4, <2>6, <2>9
    <2> QED BY <1>1, <2>2, <2>3, <2>4, <2>7, <2>8, <2>10
  <1> QED BY <1>2, <1>3

\* Parsing keeps the number of words.
LEMMA ParsedLength ==
    ASSUME NEW words \in Seq(Words), words # <<>>
    PROVE  Len(Parsed(words)) = Len(words) /\ Parsed(words) # <<>>
  <1>1. DOMAIN words = 1..Len(words) /\ Len(words) \in Nat /\ Len(words) > 0
    OBVIOUS
  <1>2. PICK n \in Nat : n = Len(words)
    BY <1>1
  <1>3. Parsed(words) = [i \in 1..n |-> parse_entry(words[i])[1]]
    BY <1>1, <1>2 DEF Parsed
  <1>4. Len(Parsed(words)) = n
    BY <1>3
  <1> QED BY <1>1, <1>2, <1>4

\* hk define for this node: a line that is taken means what it says.
LEMMA ReadHere ==
    ASSUME NEW line \in Lines, LocalMeaning(line) # None
    PROVE  /\ LocalMeaning(line) = Says(line)
           /\ Says(line).def # <<>> /\ Len(Says(line).def) <= ENTRIES /\ Says(line).class \in 0..CLASS_MAX
           /\ Says(line).def \in Seq(Entries)
  <1>1. line \in Seq(Words)
    BY HkAssumption
  <1>2. PICK first : first = parse_class(line)
    OBVIOUS
  <1>3. /\ first.ok /\ first.rest # <<>> /\ Len(first.rest) <= ENTRIES /\ AllParse(first.rest)
        /\ LocalMeaning(line) = [def |-> Parsed(first.rest), class |-> first.class]
    BY <1>2 DEF LocalMeaning
  <1>4. /\ first.class = Says(line).class /\ Parsed(first.rest) = Says(line).def
        /\ first.rest \in Seq(Words) /\ first.class \in 0..CLASS_MAX /\ Says(line).def \in Seq(Entries)
    BY <1>1, <1>2, <1>3, ClassThenEntries
  <1>5. Len(Parsed(first.rest)) = Len(first.rest) /\ Parsed(first.rest) # <<>>
    BY <1>3, <1>4, ParsedLength
  <1>6. Says(line) = [def |-> Says(line).def, class |-> Says(line).class]
    BY DEF Says
  <1> QED BY <1>3, <1>4, <1>5, <1>6

\* hk define for another node, and what that one makes of the text.
LEMMA ReadThere ==
    ASSUME NEW line \in Seq(Words), RemoteMeaning(line) # None
    PROVE  /\ RemoteMeaning(line) = Says(line)
           /\ Says(line).def # <<>> /\ Len(Says(line).def) <= ENTRIES /\ Says(line).class \in 0..CLASS_MAX
           /\ Says(line).def \in Seq(Entries)
  <1>1. PICK first : first = parse_class(line)
    OBVIOUS
  <1>2. /\ first.ok /\ parse_entries(first.rest) # <<>>
        /\ RemoteMeaning(line) = [def |-> parse_entries(first.rest), class |-> first.class]
    BY <1>1 DEF RemoteMeaning
  <1>3. /\ first.rest # <<>> /\ Len(first.rest) <= ENTRIES /\ AllParse(first.rest)
        /\ parse_entries(first.rest) = Parsed(first.rest)
    BY <1>2 DEF parse_entries
  <1>4. /\ first.class = Says(line).class /\ Parsed(first.rest) = Says(line).def
        /\ first.rest \in Seq(Words) /\ first.class \in 0..CLASS_MAX /\ Says(line).def \in Seq(Entries)
    BY <1>1, <1>2, <1>3, ClassThenEntries
  <1>5. Len(Parsed(first.rest)) = Len(first.rest) /\ Parsed(first.rest) # <<>>
    BY <1>3, <1>4, ParsedLength
  <1>6. Says(line) = [def |-> Says(line).def, class |-> Says(line).class]
    BY DEF Says
  <1> QED BY <1>2, <1>3, <1>4, <1>5, <1>6

Short(line) == (\A i \in DOMAIN line : line[i].size < TOKEN) /\ Length(line) <= TEXT
Plain(line) == \A i \in DOMAIN line : ~line[i].quoted

\* The words that parse_class() leaves are words of the line.
LEMMA RestIsOfLine ==
    ASSUME NEW line \in Seq(Words), NEW i \in DOMAIN parse_class(line).rest
    PROVE  \E j \in DOMAIN line : parse_class(line).rest[i] = line[j]
  <1>1. CASE line # <<>> /\ IsClass(Head(line))
    <2>1. parse_class(line).rest = Tail(line)
      BY <1>1 DEF parse_class
    <2>2. /\ Tail(line) \in Seq(Words) /\ Len(Tail(line)) = Len(line) - 1
          /\ \A k \in 1..Len(Tail(line)) : Tail(line)[k] = line[k + 1]
      BY <1>1, HeadTailProperties
    <2>3. i \in 1..Len(Tail(line)) /\ Len(line) \in Nat
      BY <2>1, <2>2
    <2>4. i + 1 \in DOMAIN line
      BY <2>2, <2>3
    <2> QED BY <2>1, <2>2, <2>3, <2>4
  <1>2. CASE ~(line # <<>> /\ IsClass(Head(line)))
    <2>1. parse_class(line).rest = line
      BY <1>2 DEF parse_class
    <2> QED BY <2>1
  <1> QED BY <1>1, <1>2

\* The two ways agree on every line: what is taken here and is short enough is
\* taken there, and what is plain and refused here is refused there.
LEMMA WaysAgree ==
    ASSUME NEW line \in Lines
    PROVE  /\ LocalMeaning(line) # None /\ Short(line) => RemoteMeaning(line) # None
           /\ LocalMeaning(line) = None /\ Plain(line) => RemoteMeaning(line) = None
  <1>1. line \in Seq(Words)
    BY HkAssumption
  <1>2. PICK first : first = parse_class(line)
    OBVIOUS
  <1>3. ASSUME LocalMeaning(line) # None, Short(line) PROVE RemoteMeaning(line) # None
    <2>1. first.ok /\ first.rest # <<>> /\ Len(first.rest) <= ENTRIES /\ AllParse(first.rest)
      BY <1>2, <1>3 DEF LocalMeaning
    <2>2. \A i \in DOMAIN first.rest : first.rest[i].size < TOKEN
      BY <1>1, <1>2, <1>3, RestIsOfLine DEF Short
    <2>3. parse_entries(first.rest) = Parsed(first.rest)
      BY <2>1, <2>2 DEF parse_entries
    <2>4. first.rest \in Seq(Words)
      BY <1>1, <1>2, <2>1, ClassThenEntries
    <2>5. parse_entries(first.rest) # <<>>
      BY <2>1, <2>3, <2>4, ParsedLength
    <2>6. RemoteMeaning(line) = [def |-> parse_entries(first.rest), class |-> first.class]
      BY <1>2, <1>3, <2>1, <2>5 DEF RemoteMeaning, Short
    <2> QED BY <2>5, <2>6 DEF None
  <1>4. ASSUME LocalMeaning(line) = None, Plain(line), RemoteMeaning(line) # None PROVE FALSE
    <2>1. first.ok /\ parse_entries(first.rest) # <<>>
      BY <1>2, <1>4 DEF RemoteMeaning
    <2>2. first.rest # <<>> /\ Len(first.rest) <= ENTRIES /\ AllParse(first.rest)
      BY <2>1 DEF parse_entries
    <2>3. LocalMeaning(line) = [def |-> Parsed(first.rest), class |-> first.class]
      BY <1>2, <1>4, <2>1, <2>2 DEF LocalMeaning, Plain
    <2>4. first.rest \in Seq(Words)
      BY <1>1, <1>2, <2>1, <2>2, ClassThenEntries
    <2>5. Parsed(first.rest) # <<>>
      BY <2>2, <2>4, ParsedLength
    <2> QED BY <1>4, <2>3, <2>5 DEF None
  <1> QED BY <1>3, <1>4

----------------------------------------------------------------------------
(* The state.  A sequence of what is typed has no set of its own: the shell *)
(* is known by its fields.                                                  *)

A_Setting == [def : Seq(Entries), class : Nat, period : Nat, store : Nat, beacon : Nat]

Fields(x) ==
    x = [cmd |-> x.cmd, phase |-> x.phase, number |-> x.number, wanted |-> x.wanted, args |-> x.args,
         index |-> x.index, rows |-> x.rows, held |-> x.held, moved |-> x.moved, answer |-> x.answer]

Shapes ==
    /\ rep \in [Reports -> A_Setting] /\ saved \in [Reports -> A_Setting]
    /\ meant = [r \in Reports |-> meant[r]]
    /\ since \in [Reports -> SUBSET A_Setting] /\ had \in [Reports -> SUBSET A_Setting]
    /\ ram \in [Reports -> Seq(Records)] /\ file = [r \in Reports |-> file[r]]
    /\ gen \in [Reports -> Nat] /\ taken \in [Reports -> Nat]
    /\ Fields(sh) /\ sh.number \in Nat /\ ops \in Nat

\* Which command is in which phase.
Phases ==
    /\ sh.phase \in {"show", "period", "class"} => sh.cmd = "show"
    /\ sh.phase = "get" => sh.cmd = "get"
    /\ sh.phase \in {"stored", "reading"} => sh.cmd = "stored"
    /\ sh.phase \in {"extract", "writing"} => sh.cmd = "extract"

\* What was applied last is among what a snapshot may hold.
LastIsKept == \A r \in Reports : rep[r] \in since[r]

\* The settings of a report that somebody typed, or that were restored.
InRange(x) ==
    /\ x.period \in Values \cup {0, FLOOR} /\ x.store \in Values \cup {0, FLOOR} /\ x.beacon \in Values \cup {0}
    /\ x.class \in 0..CLASS_MAX /\ Len(x.def) <= ENTRIES

\* One change of the settings of report r, with what goes along with it.
Changes(r, new, result) ==
    /\ r \in Reports /\ new \in A_Setting /\ Apply(r, new, result)
    /\ InRange(rep[r]) => InRange(new)
    /\ meant' = [meant EXCEPT ![r] = [def |-> new.def, class |-> new.class]]
    /\ \/ UNCHANGED <<ram, gen, taken>> /\ file' \in {file, [file EXCEPT ![r] = <<>>]}
       \/ Discard(r)

\* Reports are numbers.
LEMMA ReportNumbers == Reports \subseteq Nat /\ REPORTS \in Nat /\ BYTE \in Nat \ {0} /\ Numbers \subseteq Nat
  BY HkAssumption DEF Reports

\* A definition or a clear.
LEMMA DefineChanges ==
    ASSUME Shapes, NEW r \in Reports, NEW meaning, NEW result,
           meaning = [def |-> meaning.def, class |-> meaning.class],
           meaning.def \in Seq(Entries), meaning.class \in 0..CLASS_MAX, Len(meaning.def) <= ENTRIES,
           Define(r, meaning, meaning, result)
    PROVE  \E new : Changes(r, new, result)
  <1>1. rep[r] \in A_Setting
    BY DEF Shapes
  <1>2. PICK new : new = [rep[r] EXCEPT !.def = meaning.def, !.class = meaning.class]
    OBVIOUS
  <1>3. meaning.class \in Nat
    BY DEF CLASS_MAX
  <1>4. new \in A_Setting /\ new.def = meaning.def /\ new.class = meaning.class
        /\ new.period = rep[r].period /\ new.store = rep[r].store /\ new.beacon = rep[r].beacon
    BY <1>1, <1>2, <1>3 DEF A_Setting
  <1>5. InRange(rep[r]) => InRange(new)
    BY <1>4 DEF InRange
  <1>6. Changes(r, new, result)
    BY <1>2, <1>4, <1>5 DEF Define, Changes
  <1> QED BY <1>6

\* A clear.
LEMMA ClearChanges ==
    ASSUME Shapes, NEW r \in Reports, NEW result, Clear(r, result)
    PROVE  Changes(r, Undefined, result)
  <1>1. Undefined \in A_Setting
    BY DEF Undefined, A_Setting, CLASS_DEFAULT
  <1>2. [def |-> Undefined.def, class |-> Undefined.class] = None
    BY DEF Undefined, None
  <1>3. InRange(Undefined)
    BY HkAssumption DEF InRange, Undefined, CLASS_DEFAULT, CLASS_MAX
  <1> QED BY <1>1, <1>2, <1>3 DEF Clear, Changes

\* A period, an interval or a cleared file: the definition stays.
LEMMA SettingChanges ==
    ASSUME Shapes, DefinedAsTyped, NEW r \in Reports, NEW new, NEW result, Apply(r, new, result),
           new \in A_Setting, new.def = rep[r].def, new.class = rep[r].class, InRange(rep[r]) => InRange(new),
           UNCHANGED <<meant, ram, gen, taken>>, file' \in {file, [file EXCEPT ![r] = <<>>]}
    PROVE  Changes(r, new, result)
  <1>1. meant[r] = [def |-> new.def, class |-> new.class]
    BY DEF DefinedAsTyped
  <1>2. meant' = [meant EXCEPT ![r] = meant[r]]
    BY DEF Shapes
  <1> QED BY <1>1, <1>2 DEF Changes

\* Each of them, whoever asked for it.
LEMMA ValueChanges ==
    ASSUME Shapes, DefinedAsTyped, NEW r, NEW v \in Values, NEW result,
           SetPeriod(r, v, result) \/ SetStore(r, v, result) \/ SetBeacon(r, v, result)
    PROVE  r \in Reports /\ \E new : Changes(r, new, result)
  <1>1. r \in Reports /\ v \in Nat /\ file' = file
    BY HkAssumption DEF SetPeriod, SetStore, SetBeacon, IsDefined, samples
  <1>2. rep[r] \in A_Setting
    BY <1>1 DEF Shapes
  <1>3. PICK new \in {[rep[r] EXCEPT !.period = v], [rep[r] EXCEPT !.store = v], [rep[r] EXCEPT !.beacon = v]} :
           Apply(r, new, result)
    BY DEF SetPeriod, SetStore, SetBeacon
  <1>4. new \in A_Setting /\ new.def = rep[r].def /\ new.class = rep[r].class
    BY <1>1, <1>2, <1>3 DEF A_Setting
  <1>5. UNCHANGED <<meant, ram, gen, taken>>
    BY DEF SetPeriod, SetStore, SetBeacon, samples
  <1>6. InRange(rep[r]) => InRange(new)
    BY <1>2, <1>3 DEF InRange, A_Setting
  <1>7. Changes(r, new, result)
    BY <1>1, <1>2, <1>3, <1>4, <1>5, <1>6, SettingChanges
  <1> QED BY <1>1, <1>7

\* hk store clear.
LEMMA ClearStoreChanges ==
    ASSUME Shapes, DefinedAsTyped, NEW r, NEW result, ClearStore(r, result)
    PROVE  r \in Reports /\ \E new : Changes(r, new, result)
  <1>1. r \in Reports
    BY DEF ClearStore, IsDefined
  <1>2. rep[r] \in A_Setting /\ file' = [file EXCEPT ![r] = <<>>]
    BY <1>1 DEF Shapes, ClearStore
  <1>3. PICK new : new = [rep[r] EXCEPT !.store = 0]
    OBVIOUS
  <1>4. new \in A_Setting /\ new.def = rep[r].def /\ new.class = rep[r].class
    BY <1>2, <1>3 DEF A_Setting
  <1>5. Apply(r, new, result) /\ UNCHANGED <<meant, ram, gen, taken>>
    BY <1>3 DEF ClearStore
  <1>6. InRange(rep[r]) => InRange(new)
    BY <1>2, <1>3 DEF InRange, A_Setting
  <1>7. Changes(r, new, result)
    BY <1>1, <1>2, <1>4, <1>5, <1>6, SettingChanges
  <1> QED BY <1>1, <1>7

\* A line that is taken, here or there, as a change.
LEMMA LineChanges ==
    ASSUME Shapes, NEW r \in Reports, NEW line \in Seq(Words), NEW result, NEW meaning,
           meaning = RemoteMeaning(line) \/ (meaning = LocalMeaning(line) /\ line \in Lines), meaning # None,
           Define(r, meaning, Says(line), result)
    PROVE  \E new : Changes(r, new, result)
  <1>1. /\ meaning = Says(line) /\ Says(line).def \in Seq(Entries) /\ Says(line).class \in 0..CLASS_MAX
        /\ Len(Says(line).def) <= ENTRIES
    BY ReadHere, ReadThere
  <1>2. Says(line) = [def |-> Says(line).def, class |-> Says(line).class]
    BY DEF Says
  <1> QED BY <1>1, <1>2, DefineChanges

\* What a setting typed here changes: the report of its number.
Named(cmd, number, line, r) ==
    /\ cmd \in {"define", "define_remote", "clear", "period", "store", "store_clear", "beacon"}
    /\ IF cmd = "define" THEN number = r /\ line \in Lines /\ LocalMeaning(line) # None
       ELSE Byte(number) = r

\* A report's number is its own low byte.
LEMMA ReportIsByte == ASSUME NEW r \in Reports PROVE r \in Nat /\ Byte(r) = r
  <1>1. r \in Nat /\ r < BYTE /\ BYTE \in Nat
    BY HkAssumption DEF Reports
  <1> QED BY <1>1 DEF Byte

\* A line that names a node has a definition after the report.
LEMMA RestOfNamed ==
    ASSUME NEW line \in Lines, NamesNode(line)
    PROVE  Tail(line) \in Seq(Words)
  <1>1. line \in Seq(Words) /\ line # <<>>
    BY HkAssumption DEF NamesNode
  <1> QED BY <1>1

\* A setting typed here, of whatever command, is a change of the report it names.
LEMMA TypedSettingChanges ==
    ASSUME Shapes, DefinedAsTyped, NEW typed \in Numbers, NEW result, Setting(typed, result)
    PROVE  \E number \in Nat : \E cmd, line, r, new :
              Named(cmd, number, line, r) /\ Type(cmd, number, line, result) /\ Changes(r, new, result)
  <1>1. PICK number \in Nat : number = typed /\ Reports \subseteq Nat /\ REPORTS \in Nat
    BY ReportNumbers
  <1>2. ASSUME NEW line \in Lines, cmd_hk_define(number, line, result)
        PROVE  \E r, new : /\ Named("define", number, line, r)
                           /\ Type("define", number, line, result) /\ Changes(r, new, result)
    <2>1. /\ Type("define", number, line, result) /\ number < REPORTS /\ LocalMeaning(line) # None
          /\ Define(number, LocalMeaning(line), Says(line), result)
      BY <1>2 DEF cmd_hk_define, setting_result, Readings
    <2>2. number \in Reports
      BY <1>1, <2>1 DEF Reports
    <2>3. \E new : Changes(number, new, result)
      <3>1. line \in Seq(Words)
        BY HkAssumption
      <3> QED BY <2>1, <2>2, <3>1, LineChanges
    <2> QED BY <2>1, <2>3 DEF Named
  <1>3. CASE cmd_hk_clear(number, result)
    <2>1. Type("clear", number, <<>>, result) /\ Byte(number) \in Reports /\ Clear(Byte(number), result)
      BY <1>3 DEF cmd_hk_clear, setting_result
    <2>2. Changes(Byte(number), Undefined, result)
      BY <2>1, ClearChanges
    <2>3. Named("clear", number, <<>>, Byte(number))
      BY DEF Named
    <2> QED BY <2>1, <2>2, <2>3
  <1>4. CASE cmd_hk_store_clear(number, result)
    <2>1. Type("store_clear", number, <<>>, result) /\ ClearStore(Byte(number), result)
      BY <1>4 DEF cmd_hk_store_clear, setting_result
    <2>2. \E new : Changes(Byte(number), new, result)
      BY <2>1, ClearStoreChanges
    <2>3. Named("store_clear", number, <<>>, Byte(number))
      BY DEF Named
    <2> QED BY <2>1, <2>2, <2>3
  <1>5. ASSUME NEW v \in Values, \/ cmd_hk_period(number, v, result) \/ cmd_hk_store(number, v, result)
                                 \/ cmd_hk_beacon(number, v, result)
        PROVE  \E cmd, r, new : Named(cmd, number, <<>>, r) /\ Type(cmd, number, <<>>, result) /\ Changes(r, new, result)
    <2>1. PICK cmd \in {"period", "store", "beacon"} : Type(cmd, number, <<>>, result)
      BY <1>5 DEF cmd_hk_period, cmd_hk_store, cmd_hk_beacon, setting_result
    <2>2. SetPeriod(Byte(number), v, result) \/ SetStore(Byte(number), v, result) \/ SetBeacon(Byte(number), v, result)
      BY <1>5 DEF cmd_hk_period, cmd_hk_store, cmd_hk_beacon
    <2>3. \E new : Changes(Byte(number), new, result)
      BY <2>2, ValueChanges
    <2>4. Named(cmd, number, <<>>, Byte(number))
      BY <2>1 DEF Named
    <2> QED BY <2>1, <2>3, <2>4
  <1>6. ASSUME NEW line \in Lines, define_remote(typed, line, result)
        PROVE  \E m \in Nat : \E r, new : /\ Named("define_remote", m, line, r)
                                         /\ Type("define_remote", m, line, result) /\ Changes(r, new, result)
    <2>1. PICK m : m = ReportOf(line)
      OBVIOUS
    <2>2. /\ Type("define_remote", m, line, result) /\ m \in Reports /\ NamesNode(line)
          /\ RemoteMeaning(Tail(line)) # None /\ Define(m, RemoteMeaning(Tail(line)), Says(Tail(line)), result)
      BY <1>6, <2>1 DEF define_remote, setting_result, Readings
    <2>3. Tail(line) \in Seq(Words)
      BY <2>2, RestOfNamed
    <2>4. \E new : Changes(m, new, result)
      BY <2>2, <2>3, LineChanges
    <2>5. m \in Nat /\ Named("define_remote", m, line, m)
      BY <2>2, ReportIsByte DEF Named
    <2> QED BY <2>2, <2>4, <2>5
  <1> QED BY <1>1, <1>2, <1>3, <1>4, <1>5, <1>6 DEF Setting

\* A setting that another node asks for.
LEMMA RemoteSettingChanges ==
    ASSUME Shapes, DefinedAsTyped, NEW number \in Numbers, NEW result, RemoteSetting(number, result)
    PROVE  Arrives /\ Moves /\ \E r, new : Changes(r, new, result) /\ (UNCHANGED samples \/ Discard(r))
  <1>1. ASSUME NEW line \in Lines, command_hk_define(number, line, result)
        PROVE  Arrives /\ Moves /\ \E r, new : Changes(r, new, result) /\ (UNCHANGED samples \/ Discard(r))
    <2>1. /\ Arrives /\ Moves /\ number \in Reports /\ RemoteMeaning(line) # None
          /\ Define(number, RemoteMeaning(line), Says(line), result)
      BY <1>1 DEF command_hk_define, Readings
    <2>2. \E new : Changes(number, new, result)
      <3>1. line \in Seq(Words)
        BY HkAssumption
      <3> QED BY <2>1, <3>1, LineChanges
    <2> QED BY <2>1, <2>2 DEF Define
  <1>2. CASE command_hk_clear(number, result)
    BY <1>2, ClearChanges DEF command_hk_clear, Clear
  <1>3. ASSUME NEW v \in Values, command_hk_period(number, v, result)
        PROVE  Arrives /\ Moves /\ \E r, new : Changes(r, new, result) /\ (UNCHANGED samples \/ Discard(r))
    BY <1>3, ValueChanges DEF command_hk_period, SetPeriod
  <1> QED BY <1>1, <1>2, <1>3 DEF RemoteSetting

----------------------------------------------------------------------------
(* The steps. *)

TypedChange ==
    \E number \in Nat : \E cmd, line, result, r, new :
        Named(cmd, number, line, r) /\ Type(cmd, number, line, result) /\ Changes(r, new, result)
RemoteChange ==
    Arrives /\ Moves /\ \E r, new, result : Changes(r, new, result) /\ (UNCHANGED samples \/ Discard(r))
ARefusal ==
    \E cmd \in {"define", "define_remote", "setting", "save"}, number \in Nat : \E line :
        /\ Refused(cmd, number, line)
        /\ cmd = "define" => line \in Lines /\ (number < REPORTS => LocalMeaning(line) = None)
AStart ==
    \E cmd \in {"get", "stored", "extract", "show"}, number \in Nat : \E wanted, args :
        /\ Start(cmd, number, wanted, args)
        /\ wanted \in Nat
        /\ cmd \in {"stored", "extract"} => args \in Filters

\* A command that reads the file has its rows to itself.
FileStep ==
    /\ StoredCount \/ StoredNext \/ ExtractCount \/ ExtractWrite
    /\ sh.cmd \in {"stored", "extract"} /\ sh'.phase \in {"idle", "reading", "writing"}
    /\ sh'.phase = "reading" => sh.cmd = "stored"
    /\ sh'.phase = "writing" => sh.cmd = "extract"
    /\ Fields(sh') /\ sh'.cmd = sh.cmd /\ sh'.number = sh.number
    /\ UNCHANGED <<settings, samples, ops, remote, had>>

\* The four steps that read the file.
LEMMA FileSteps ==
    ASSUME Shapes, Phases, StoredCount \/ StoredNext \/ ExtractCount \/ ExtractWrite
    PROVE  FileStep
  <1>1. Fields(sh)
    BY DEF Shapes
  <1>2. CASE StoredCount
    <2>1. sh.cmd = "stored" /\ UNCHANGED <<settings, samples, ops, remote, had>>
      BY <1>2 DEF StoredCount, In, Phases
    <2>2. PICK a, b, c, d, e, f : sh' \in {[sh EXCEPT !.phase = "reading", !.held = a, !.moved = b, !.wanted = c],
                                          [sh EXCEPT !.phase = "idle", !.rows = d, !.answer = e]}
      BY <1>2 DEF StoredCount, Stop
    <2> QED BY <1>1, <2>1, <2>2 DEF FileStep, Fields
  <1>3. CASE StoredNext
    <2>1. sh.cmd = "stored" /\ sh.phase = "reading" /\ UNCHANGED <<settings, samples, ops, remote, had>>
      BY <1>3 DEF StoredNext, In, Phases
    <2>2. PICK a, b, d, e : sh' \in {[sh EXCEPT !.rows = a, !.index = b],
                                    [sh EXCEPT !.phase = "idle", !.rows = d, !.answer = e]}
      BY <1>3 DEF StoredNext, Stop
    <2> QED BY <1>1, <2>1, <2>2 DEF FileStep, Fields
  <1>4. CASE ExtractCount
    <2>1. sh.cmd = "extract" /\ UNCHANGED <<settings, samples, ops, remote, had>>
      BY <1>4 DEF ExtractCount, In, Phases
    <2>2. PICK a, b, c, d, e : sh' \in {[sh EXCEPT !.phase = "writing", !.held = a, !.moved = b, !.wanted = c],
                                       [sh EXCEPT !.phase = "idle", !.rows = d, !.answer = e]}
      BY <1>4 DEF ExtractCount, Stop
    <2> QED BY <1>1, <2>1, <2>2 DEF FileStep, Fields
  <1>5. CASE ExtractWrite
    <2>1. sh.cmd = "extract" /\ UNCHANGED <<settings, samples, ops, remote, had>>
      BY <1>5 DEF ExtractWrite, In, Phases
    <2>2. PICK d, e : sh' = [sh EXCEPT !.phase = "idle", !.rows = d, !.answer = e]
      BY <1>5 DEF ExtractWrite, Stop
    <2> QED BY <1>1, <2>1, <2>2 DEF FileStep, Fields
  <1> QED BY <1>2, <1>3, <1>4, <1>5

\* The kinds of step.
LEMMA StepKinds ==
    ASSUME Shapes, Phases, DefinedAsTyped, [Next]_vars
    PROVE  \/ TypedChange \/ RemoteChange \/ ARefusal \/ cmd_hk_save
           \/ (\E number \in Numbers : cmd_hk_collect(number)) \/ AStart
           \/ GetNext \/ FileStep \/ ShowDefinition \/ ShowPeriod \/ ShowClass
           \/ (\E r \in Reports : Collector(r)) \/ UNCHANGED vars
  <1>1. Numbers \subseteq Nat /\ REPORTS \in Nat
    BY ReportNumbers
  <1>2. ASSUME NEW number \in Numbers, NEW result, Setting(number, result) PROVE TypedChange
    BY <1>2, TypedSettingChanges, Zenon DEF TypedChange
  <1>3. ASSUME NEW number \in Numbers, NEW result, RemoteSetting(number, result) PROVE RemoteChange
    BY <1>3, RemoteSettingChanges DEF RemoteChange
  <1>4. ASSUME NEW number \in Numbers, NEW line \in Lines, DefineRefused(number, line)
        PROVE  ARefusal
    <2>1. CASE Refused("define", number, line) /\ (number >= REPORTS \/ Readings[line].here = None)
      <3>1. number < REPORTS => LocalMeaning(line) = None
        BY <1>1, <2>1 DEF Readings
      <3> QED BY <1>1, <2>1, <3>1 DEF ARefusal
    <2>2. CASE Refused("define_remote", number, line)
      BY <1>1, <2>2 DEF ARefusal
    <2> QED BY <1>4, <2>1, <2>2 DEF DefineRefused
  <1>5. ASSUME NEW number \in Numbers, Refused("setting", number, <<>>) PROVE ARefusal
    BY <1>1, <1>5 DEF ARefusal
  <1>6. Refused("save", 0, <<>>) => ARefusal
    <2>1. 0 \in Nat
      OBVIOUS
    <2> QED BY <2>1 DEF ARefusal
  <1>7. ASSUME NEW number \in Numbers, NEW wanted, NEW args,
               \/ wanted \in 1..(DEPTH + 1) /\ Start("get", number, wanted, args)
               \/ /\ args \in Filters /\ wanted = 0
                  /\ Start("stored", number, wanted, args) \/ Start("extract", number, wanted, args)
        PROVE  AStart
    <2>1. 1..(DEPTH + 1) \subseteq Nat
      BY HkAssumption
    <2> QED BY <1>1, <1>7, <2>1 DEF AStart
  <1>8. Start("show", 0, 0, <<>>) => AStart
    <2>1. 0 \in Nat
      OBVIOUS
    <2> QED BY <2>1 DEF AStart
  <1>9. CASE UNCHANGED vars
    BY <1>9
  <1>10. CASE Next
    BY <1>2, <1>3, <1>4, <1>5, <1>6, <1>7, <1>8, <1>10, FileSteps DEF Next
  <1> QED BY <1>9, <1>10

----------------------------------------------------------------------------
(* What a step makes of the shell. *)

\* A command of one call.
LEMMA TypeShell ==
    ASSUME NEW cmd, NEW number, NEW line, NEW answer, Type(cmd, number, line, answer)
    PROVE  /\ Fields(sh') /\ sh'.cmd = cmd /\ sh'.phase = "idle" /\ sh'.number = number /\ sh'.args = line
           /\ sh'.answer = answer /\ sh'.rows = <<>> /\ sh'.held = <<>> /\ sh'.index = 0
           /\ sh.phase = "idle" /\ ops' = ops + 1 /\ UNCHANGED remote
  BY DEF Type, Idle, Fields

\* The first step of a loop.
LEMMA StartShell ==
    ASSUME NEW cmd, NEW number, NEW wanted, NEW args, Start(cmd, number, wanted, args)
    PROVE  /\ Fields(sh') /\ sh'.cmd = cmd /\ sh'.phase = cmd /\ sh'.number = number
           /\ sh'.rows = <<>> /\ sh'.index = 0 /\ sh'.wanted = wanted /\ sh'.args = args /\ ~sh'.moved
           /\ sh'.held = IF cmd = "get" /\ Byte(number) \in Reports THEN ram[Byte(number)] ELSE <<>>
           /\ had' = IF cmd = "show" THEN [r \in Reports |-> {rep[r]}] ELSE had
           /\ sh.phase = "idle" /\ ops' = ops + 1 /\ UNCHANGED <<settings, samples, remote>>
  BY DEF Start, Idle, Fields

\* Another thread's step: at most the mark that the file changed.
LEMMA MovesShell ==
    ASSUME Fields(sh), Moves
    PROVE  /\ Fields(sh') /\ sh'.cmd = sh.cmd /\ sh'.phase = sh.phase /\ sh'.number = sh.number
           /\ sh'.args = sh.args /\ sh'.answer = sh.answer /\ sh'.rows = sh.rows /\ sh'.held = sh.held
           /\ sh'.index = sh.index /\ sh'.wanted = sh.wanted /\ (~sh'.moved => ~sh.moved /\ file' = file)
  BY DEF Moves, Fields

\* One age more, or the end.
LEMMA GetShell ==
    ASSUME Fields(sh), GetNext
    PROVE  /\ Fields(sh') /\ sh'.cmd = sh.cmd /\ sh'.number = sh.number /\ sh'.held = sh.held
           /\ sh'.phase \in {"get", "idle"} /\ sh.phase = "get" /\ sh'.wanted = sh.wanted
           /\ UNCHANGED <<settings, samples, ops, remote, had>>
           /\ \/ sh'.rows = sh.rows /\ sh'.index = sh.index
              \/ /\ Byte(sh.number) \in Reports /\ sh.index < Len(ram[Byte(sh.number)]) /\ sh.index < sh.wanted
                 /\ sh'.rows = Append(sh.rows, ram[Byte(sh.number)][sh.index + 1]) /\ sh'.index = sh.index + 1
  <1>1. sh.phase = "get" /\ UNCHANGED <<settings, samples, ops, remote, had>>
    BY DEF GetNext, In
  <1>2. CASE sh.index < sh.wanted /\ Byte(sh.number) \in Reports /\ sh.index < Len(ram[Byte(sh.number)])
    <2>1. sh' = [sh EXCEPT !.rows = Append(@, ram[Byte(sh.number)][sh.index + 1]), !.index = @ + 1]
      BY <1>2 DEF GetNext
    <2> QED BY <1>1, <1>2, <2>1 DEF Fields
  <1>3. CASE ~(sh.index < sh.wanted /\ Byte(sh.number) \in Reports /\ sh.index < Len(ram[Byte(sh.number)]))
    <2>1. sh' = [sh EXCEPT !.phase = "idle", !.rows = sh.rows, !.answer = "done"]
      BY <1>3 DEF GetNext, Stop
    <2> QED BY <1>1, <2>1 DEF Fields
  <1> QED BY <1>2, <1>3

----------------------------------------------------------------------------
(* Samples. *)

\* RAM holds the samples of the definition in force, without a gap from the newest.
Ring ==
    \A r \in Reports : \A i \in 1..Len(ram[r]) : ram[r][i].gen = gen[r] /\ ram[r][i].time = taken[r] + 1 - i

Push(s, ring) == SubSeq(<<s>> \o ring, 1, IF Len(ring) < DEPTH THEN Len(ring) + 1 ELSE DEPTH)

\* A sample goes to the front of the ring and the oldest may fall out.
LEMMA Pushed ==
    ASSUME NEW s \in Records, NEW ring \in Seq(Records), NEW new,
           new = Push(s, ring)
    PROVE  /\ new \in Seq(Records) /\ Len(new) <= Len(ring) + 1 /\ Len(new) <= DEPTH
           /\ \A i \in 1..Len(new) : (i = 1 => new[i] = s) /\ (i # 1 => new[i] = ring[i - 1])
  <1>1. PICK n \in Nat : n = Len(ring)
    OBVIOUS
  <1>2. PICK all : all = <<s>> \o ring
    OBVIOUS
  <1>3. all \in Seq(Records) /\ Len(all) = n + 1
    BY <1>1, <1>2
  <1>4. \A i \in 1..(n + 1) : (i = 1 => all[i] = s) /\ (i # 1 => all[i] = ring[i - 1])
    BY <1>1, <1>2
  <1>5. PICK m \in 1..(n + 1) : m = IF n < DEPTH THEN n + 1 ELSE DEPTH
    BY HkAssumption
  <1>6. new = SubSeq(all, 1, m)
    BY <1>1, <1>2, <1>5 DEF Push
  <1>7. new \in Seq(Records) /\ Len(new) = m /\ \A i \in 1..m : new[i] = all[i]
    <2>1. 1 \in Int /\ m \in Int /\ \A i \in 1..m : all[i] \in Records
      BY <1>3, <1>5
    <2>2. /\ SubSeq(all, 1, m) \in Seq(Records) /\ Len(SubSeq(all, 1, m)) = IF 1 <= m THEN m - 1 + 1 ELSE 0
          /\ \A i \in 1..(m - 1 + 1) : SubSeq(all, 1, m)[i] = all[1 + i - 1]
      BY <2>1, SubSeqProperties
    <2> QED BY <1>5, <1>6, <2>2
  <1>8. m <= DEPTH
    BY <1>5, HkAssumption
  <1> QED BY <1>1, <1>4, <1>5, <1>7, <1>8

\* What one collection changes.
LEMMA Collected ==
    ASSUME Shapes, NEW r \in Reports, Collect(r)
    PROVE  /\ ram' \in [Reports -> Seq(Records)] /\ file' = [q \in Reports |-> file'[q]]
           /\ taken' \in [Reports -> Nat] /\ taken'[r] = taken[r] + 1
           /\ \A q \in Reports : q # r => ram'[q] = ram[q] /\ taken'[q] = taken[q]
           /\ Len(ram'[r]) <= Len(ram[r]) + 1 /\ Len(ram'[r]) <= DEPTH
           /\ \A i \in 1..Len(ram'[r]) :
                /\ i = 1 => ram'[r][i].gen = gen[r] /\ ram'[r][i].time = taken[r] + 1
                /\ i # 1 => ram'[r][i] = ram[r][i - 1]
           /\ UNCHANGED <<gen, settings, had>>
  <1>1. gen[r] \in Nat /\ taken[r] \in Nat /\ ram[r] \in Seq(Records) /\ ram \in [Reports -> Seq(Records)]
        /\ taken \in [Reports -> Nat] /\ file = [q \in Reports |-> file[q]]
    BY DEF Shapes
  <1>2. PICK s : s = [gen |-> gen[r], time |-> taken[r] + 1, flag |-> IF taken[r] + 1 \in Incomplete THEN 1 ELSE 0]
    OBVIOUS
  <1>3. s \in Records /\ s.gen = gen[r] /\ s.time = taken[r] + 1
    BY <1>1, <1>2 DEF Records
  <1>4. PICK new : new = Push(s, ram[r])
    OBVIOUS
  <1>5. ram' = [ram EXCEPT ![r] = new] /\ taken' = [taken EXCEPT ![r] = @ + 1] /\ UNCHANGED <<gen, settings, had>>
    BY <1>2, <1>4 DEF Collect, Push
  <1>6. /\ new \in Seq(Records) /\ Len(new) <= Len(ram[r]) + 1 /\ Len(new) <= DEPTH
        /\ \A i \in 1..Len(new) : (i = 1 => new[i] = s) /\ (i # 1 => new[i] = ram[r][i - 1])
    BY <1>1, <1>3, <1>4, Pushed
  <1>7. ram'[r] = new /\ taken'[r] = taken[r] + 1 /\ ram' \in [Reports -> Seq(Records)] /\ taken' \in [Reports -> Nat]
        /\ \A q \in Reports : q # r => ram'[q] = ram[q] /\ taken'[q] = taken[q]
    BY <1>1, <1>5, <1>6
  <1>8. file' = [q \in Reports |-> file'[q]]
    <2>1. PICK x : file' \in {file, [file EXCEPT ![r] = x]}
      BY DEF Collect
    <2> QED BY <1>1, <2>1
  <1> QED BY <1>3, <1>5, <1>6, <1>7, <1>8

\* A change of settings leaves the samples of a report or discards them.
LEMMA Discarded ==
    ASSUME Shapes, NEW r, NEW new, NEW result, Changes(r, new, result)
    PROVE  /\ ram' \in [Reports -> Seq(Records)] /\ gen' \in [Reports -> Nat] /\ UNCHANGED taken
           /\ file' = [q \in Reports |-> file'[q]]
           /\ \A q \in Reports : \/ ram'[q] = ram[q] /\ gen'[q] = gen[q]
                                 \/ ram'[q] = <<>> /\ gen'[q] = gen[q] + 1
  <1>1. CASE UNCHANGED <<ram, gen, taken>> /\ file' \in {file, [file EXCEPT ![r] = <<>>]}
    BY <1>1 DEF Shapes
  <1>2. CASE Discard(r)
    <2>1. ram' = [ram EXCEPT ![r] = <<>>] /\ file' = [file EXCEPT ![r] = <<>>]
          /\ gen' = [gen EXCEPT ![r] = @ + 1] /\ UNCHANGED taken /\ r \in Reports
      BY <1>2 DEF Discard, Changes
    <2>2. <<>> \in Seq(Records)
      OBVIOUS
    <2>3. ram' \in [Reports -> Seq(Records)] /\ gen' \in [Reports -> Nat]
      BY <2>1, <2>2 DEF Shapes
    <2>4. file' = [q \in Reports |-> file'[q]]
      BY <2>1 DEF Shapes
    <2>5. \A q \in Reports : \/ ram'[q] = ram[q] /\ gen'[q] = gen[q]
                             \/ ram'[q] = <<>> /\ gen'[q] = gen[q] + 1
      BY <2>1 DEF Shapes
    <2> QED BY <2>1, <2>3, <2>4, <2>5
  <1> QED BY <1>1, <1>2 DEF Changes

\* What a change applies to the settings.
LEMMA Applied ==
    ASSUME Shapes, NEW r, NEW new, NEW result, Changes(r, new, result)
    PROVE  /\ r \in Reports /\ new \in A_Setting /\ result # "error"
           /\ rep' \in [Reports -> A_Setting] /\ saved' \in [Reports -> A_Setting]
           /\ meant' = [q \in Reports |-> meant'[q]]
           /\ since' \in [Reports -> SUBSET A_Setting] /\ had' \in [Reports -> SUBSET A_Setting]
           /\ rep'[r] = new /\ meant'[r] = [def |-> new.def, class |-> new.class] /\ new \in since'[r]
           /\ \A q \in Reports : q # r => rep'[q] = rep[q] /\ meant'[q] = meant[q] /\ since'[q] = since[q]
           /\ saved' = rep' \/ (saved' = saved /\ since'[r] = since[r] \cup {new})
           /\ \A q \in Reports : had[q] \subseteq had'[q]
           /\ sh.cmd = "show" => new \in had'[r]
  <1>1. /\ r \in Reports /\ new \in A_Setting /\ result \in {"done", "unsaved"}
        /\ rep' = [rep EXCEPT ![r] = new] /\ saved' = (IF result = "done" THEN rep' ELSE saved)
        /\ since' = [since EXCEPT ![r] = IF result = "done" THEN {new} ELSE @ \cup {new}]
        /\ had' = (IF sh.cmd = "show" THEN [had EXCEPT ![r] = @ \cup {new}] ELSE had)
        /\ meant' = [meant EXCEPT ![r] = [def |-> new.def, class |-> new.class]]
    BY DEF Changes, Apply, setting_result
  <1>2. rep' \in [Reports -> A_Setting] /\ saved' \in [Reports -> A_Setting] /\ rep'[r] = new
        /\ \A q \in Reports : q # r => rep'[q] = rep[q]
    BY <1>1 DEF Shapes
  <1>3. meant' = [q \in Reports |-> meant'[q]] /\ meant'[r] = [def |-> new.def, class |-> new.class]
        /\ \A q \in Reports : q # r => meant'[q] = meant[q]
    BY <1>1 DEF Shapes
  <1>4. since[r] \subseteq A_Setting /\ had[r] \subseteq A_Setting
    BY <1>1 DEF Shapes
  <1>5. /\ since' \in [Reports -> SUBSET A_Setting] /\ new \in since'[r]
        /\ \A q \in Reports : q # r => since'[q] = since[q]
        /\ result # "done" => since'[r] = since[r] \cup {new}
    BY <1>1, <1>4 DEF Shapes
  <1>6. /\ had' \in [Reports -> SUBSET A_Setting] /\ \A q \in Reports : had[q] \subseteq had'[q]
        /\ sh.cmd = "show" => new \in had'[r]
    BY <1>1, <1>4 DEF Shapes
  <1> QED BY <1>1, <1>2, <1>3, <1>5, <1>6

\* hk show: the end, a report without a definition, or a row of its own.
LEMMA DefinitionShell ==
    ASSUME Fields(sh), ShowDefinition
    PROVE  /\ Fields(sh') /\ sh'.cmd = sh.cmd /\ sh'.number = sh.number /\ sh.phase = "show"
           /\ UNCHANGED <<settings, samples, ops, remote, had>>
           /\ \/ sh'.phase = "idle" /\ sh'.rows = sh.rows /\ sh'.index = sh.index
              \/ sh.index # REPORTS /\ sh'.phase = "show" /\ sh'.rows = sh.rows /\ sh'.index = sh.index + 1
              \/ /\ sh.index # REPORTS /\ sh'.phase = "period" /\ sh'.index = sh.index
                 /\ sh'.rows = Append(sh.rows, [report |-> sh.index, def |-> rep[sh.index].def,
                                                period |-> 0, class |-> CLASS_DEFAULT])
  <1>1. sh.phase = "show" /\ UNCHANGED <<settings, samples, ops, remote, had>>
    BY DEF ShowDefinition, In
  <1>2. CASE sh.index = REPORTS
    <2>1. sh' = [sh EXCEPT !.phase = "idle", !.rows = sh.rows, !.answer = "done"]
      BY <1>2 DEF ShowDefinition, Stop
    <2> QED BY <1>1, <2>1 DEF Fields
  <1>3. CASE sh.index # REPORTS /\ rep[sh.index].def = <<>>
    <2>1. sh' = [sh EXCEPT !.index = @ + 1]
      BY <1>3 DEF ShowDefinition
    <2> QED BY <1>1, <1>3, <2>1 DEF Fields
  <1>4. CASE sh.index # REPORTS /\ rep[sh.index].def # <<>>
    <2>1. PICK row : row = [report |-> sh.index, def |-> rep[sh.index].def, period |-> 0, class |-> CLASS_DEFAULT]
      OBVIOUS
    <2>2. sh' = [sh EXCEPT !.phase = "period", !.rows = Append(@, row)]
      BY <1>4, <2>1 DEF ShowDefinition, Fresh
    <2>3. Fields(sh') /\ sh'.cmd = sh.cmd /\ sh'.number = sh.number /\ sh'.phase = "period"
          /\ sh'.index = sh.index /\ sh'.rows = Append(sh.rows, row)
      BY <2>2 DEF Fields
    <2> QED BY <1>1, <1>4, <2>1, <2>3
  <1> QED BY <1>2, <1>3, <1>4

\* The period of the row that was printed last, and its class.
LEMMA RowShell ==
    ASSUME Fields(sh), ShowPeriod \/ ShowClass
    PROVE  /\ Fields(sh') /\ sh'.cmd = sh.cmd /\ sh'.number = sh.number
           /\ UNCHANGED <<settings, samples, ops, remote, had>>
           /\ \/ /\ sh.phase = "period" /\ sh'.phase = "class" /\ sh'.index = sh.index
                 /\ sh'.rows = [sh.rows EXCEPT ![Len(sh.rows)].period =
                                   IF rep[sh.index].def = <<>> THEN @ ELSE rep[sh.index].period]
              \/ /\ sh.phase = "class" /\ sh'.phase = "show" /\ sh'.index = sh.index + 1
                 /\ sh'.rows = [sh.rows EXCEPT ![Len(sh.rows)].class =
                                   IF rep[sh.index].def = <<>> THEN @ ELSE rep[sh.index].class]
  <1>1. UNCHANGED <<settings, samples, ops, remote, had>>
    BY DEF ShowPeriod, ShowClass, In
  <1>2. CASE ShowPeriod
    <2>1. PICK rows : rows = [sh.rows EXCEPT ![Len(sh.rows)].period =
                                   IF rep[sh.index].def = <<>> THEN @ ELSE rep[sh.index].period]
      OBVIOUS
    <2>2. sh.phase = "period" /\ sh' = [sh EXCEPT !.phase = "class", !.rows = rows]
      BY <1>2, <2>1 DEF ShowPeriod, In, Fields
    <2>3. Fields(sh') /\ sh'.cmd = sh.cmd /\ sh'.number = sh.number /\ sh'.phase = "class"
          /\ sh'.index = sh.index /\ sh'.rows = rows
      BY <2>2 DEF Fields
    <2> QED BY <1>1, <2>1, <2>2, <2>3
  <1>3. CASE ShowClass
    <2>1. PICK rows : rows = [sh.rows EXCEPT ![Len(sh.rows)].class =
                                   IF rep[sh.index].def = <<>> THEN @ ELSE rep[sh.index].class]
      OBVIOUS
    <2>2. sh.phase = "class" /\ sh' = [sh EXCEPT !.phase = "show", !.index = @ + 1, !.rows = rows]
      BY <1>3, <2>1 DEF ShowClass, In, Fields
    <2>3. Fields(sh') /\ sh'.cmd = sh.cmd /\ sh'.number = sh.number /\ sh'.phase = "show"
          /\ sh'.index = sh.index + 1 /\ sh'.rows = rows
      BY <2>2 DEF Fields
    <2> QED BY <1>1, <2>1, <2>2, <2>3
  <1> QED BY <1>2, <1>3

----------------------------------------------------------------------------
(* Definitions and the snapshot. *)

\* The snapshot may hold what was applied since the last setting called saved.
Settled == Shapes /\ Phases /\ DefinedAsTyped /\ LastIsKept /\ DoneIsSaved

\* What is restored are settings in their ranges.
LEMMA RestoredFits ==
    ASSUME NEW r \in Reports
    PROVE  Restored(r) \in A_Setting /\ InRange(Restored(r))
  <1>1. PICK e : e = [node |-> LOCAL_NODE, table |-> 1, offset |-> 0]
    OBVIOUS
  <1>2. e \in Entries
    BY <1>1 DEF Entries, LOCAL_NODE
  <1>3. <<e>> \in Seq(Entries) /\ Len(<<e>>) = 1 /\ r \in Nat /\ FLOOR \in Nat /\ 1 <= ENTRIES
    BY <1>2, ReportNumbers, HkAssumption
  <1>4. PICK c : c = r % (CLASS_MAX + 1)
    OBVIOUS
  <1>5. c \in 0..CLASS_MAX /\ c \in Nat
    BY <1>3, <1>4 DEF CLASS_MAX
  <1>6. Restored(r) = [def |-> <<e>>, class |-> c, period |-> IF r = 0 THEN FLOOR ELSE 0,
                       store |-> IF r = 0 THEN FLOOR ELSE 0, beacon |-> 0]
    BY <1>1, <1>4 DEF Restored
  <1>7. Restored(r) \in A_Setting
    BY <1>3, <1>5, <1>6 DEF A_Setting
  <1>8. InRange(Restored(r))
    BY <1>3, <1>5, <1>6 DEF InRange
  <1> QED BY <1>7, <1>8

\* The restored reports.
LEMMA InitSettled == Init => Settled
  <1> SUFFICES ASSUME Init PROVE Settled
    OBVIOUS
  <1>1. ASSUME NEW r \in Reports PROVE Restored(r) \in A_Setting
    BY RestoredFits
  <1>2. rep \in [Reports -> A_Setting] /\ saved = rep
    BY <1>1 DEF Init
  <1>3. since = [r \in Reports |-> {rep[r]}] /\ had = [r \in Reports |-> {}]
        /\ meant = [r \in Reports |-> [def |-> rep[r].def, class |-> rep[r].class]]
    BY DEF Init
  <1>4. since \in [Reports -> SUBSET A_Setting] /\ had \in [Reports -> SUBSET A_Setting]
        /\ meant = [r \in Reports |-> meant[r]]
    BY <1>2, <1>3
  <1>5. ram \in [Reports -> Seq(Records)] /\ file = [r \in Reports |-> file[r]]
        /\ gen \in [Reports -> Nat] /\ taken \in [Reports -> Nat] /\ ops \in Nat
    BY DEF Init
  <1>6. Fields(sh) /\ sh.number \in Nat /\ sh.phase = "idle"
    BY DEF Init, Idle, Fields
  <1>7. Shapes
    BY <1>2, <1>4, <1>5, <1>6 DEF Shapes
  <1>8. DefinedAsTyped /\ LastIsKept /\ DoneIsSaved
    BY <1>2, <1>3 DEF DefinedAsTyped, LastIsKept, DoneIsSaved
  <1> QED BY <1>6, <1>7, <1>8 DEF Settled, Phases

\* A change of one report: what is in force is what was typed, and it is the
\* snapshot's or newer than it.
LEMMA ChangeSettles ==
    ASSUME Settled, NEW r, NEW new, NEW result, Changes(r, new, result)
    PROVE  DefinedAsTyped' /\ LastIsKept' /\ DoneIsSaved'
  <1>1. /\ r \in Reports /\ rep'[r] = new /\ meant'[r] = [def |-> new.def, class |-> new.class] /\ new \in since'[r]
        /\ \A q \in Reports : q # r => rep'[q] = rep[q] /\ meant'[q] = meant[q] /\ since'[q] = since[q]
        /\ saved' = rep' \/ (saved' = saved /\ since'[r] = since[r] \cup {new})
    <2>1. Shapes
      BY DEF Settled
    <2> QED BY <2>1, Applied
  <1>2. ASSUME NEW q \in Reports PROVE [def |-> rep'[q].def, class |-> rep'[q].class] = meant'[q]
    <2>1. q # r => [def |-> rep[q].def, class |-> rep[q].class] = meant[q]
      BY DEF Settled, DefinedAsTyped
    <2> QED BY <1>1, <2>1
  <1>3. ASSUME NEW q \in Reports PROVE rep'[q] \in since'[q]
    <2>1. q # r => rep[q] \in since[q]
      BY DEF Settled, LastIsKept
    <2> QED BY <1>1, <2>1
  <1>4. ASSUME NEW q \in Reports PROVE saved'[q] \in since'[q]
    <2>1. saved[q] \in since[q]
      BY DEF Settled, DoneIsSaved
    <2>2. CASE saved' = rep'
      BY <1>3, <2>2
    <2>3. CASE saved' = saved /\ since'[r] = since[r] \cup {new}
      BY <1>1, <2>1, <2>3
    <2> QED BY <1>1, <2>2, <2>3
  <1> QED BY <1>2, <1>3, <1>4 DEF DefinedAsTyped, LastIsKept, DoneIsSaved

\* The settings do not change.
LEMMA SameSettings ==
    ASSUME Settled, UNCHANGED settings
    PROVE  DefinedAsTyped' /\ LastIsKept' /\ DoneIsSaved'
  BY DEF Settled, settings, DefinedAsTyped, LastIsKept, DoneIsSaved

\* Every step leaves the settings settled.
LEMMA SettledNext == Settled /\ [Next]_vars => Settled'
  <1> SUFFICES ASSUME Settled, [Next]_vars PROVE Settled'
    OBVIOUS
  <1>1. Shapes /\ Phases /\ DefinedAsTyped /\ Fields(sh) /\ ops \in Nat /\ sh.number \in Nat
    BY DEF Settled, Shapes
  <1>2. CASE TypedChange
    <2>1. PICK number \in Nat : \E cmd, line, result, r, new :
             Named(cmd, number, line, r) /\ Type(cmd, number, line, result) /\ Changes(r, new, result)
      BY <1>2 DEF TypedChange
    <2>2. PICK cmd, line, result, r, new :
             Named(cmd, number, line, r) /\ Type(cmd, number, line, result) /\ Changes(r, new, result)
      BY <2>1
    <2>3. number \in Nat /\ Fields(sh') /\ sh'.phase = "idle" /\ sh'.number = number /\ ops' = ops + 1
      BY <2>2, TypeShell, ReportNumbers
    <2>4. Shapes'
      <3>1. /\ rep' \in [Reports -> A_Setting] /\ saved' \in [Reports -> A_Setting]
            /\ meant' = [q \in Reports |-> meant'[q]]
            /\ since' \in [Reports -> SUBSET A_Setting] /\ had' \in [Reports -> SUBSET A_Setting]
        BY <1>1, <2>2, Applied
      <3>2. /\ ram' \in [Reports -> Seq(Records)] /\ gen' \in [Reports -> Nat] /\ UNCHANGED taken
            /\ file' = [q \in Reports |-> file'[q]]
        BY <1>1, <2>2, Discarded
      <3>3. ops' \in Nat
        BY <1>1, <2>3
      <3> QED BY <1>1, <2>3, <3>1, <3>2, <3>3 DEF Shapes
    <2>5. Phases'
      BY <2>3 DEF Phases
    <2> QED BY <2>2, <2>4, <2>5, ChangeSettles DEF Settled
  <1>3. CASE RemoteChange
    <2>1. PICK r, new, result : Changes(r, new, result)
      BY <1>3 DEF RemoteChange
    <2>2. Fields(sh') /\ sh'.cmd = sh.cmd /\ sh'.phase = sh.phase /\ sh'.number = sh.number /\ ops' = ops
      BY <1>1, <1>3, MovesShell DEF RemoteChange, Arrives
    <2>3. Shapes'
      BY <1>1, <2>1, <2>2, Applied, Discarded DEF Shapes
    <2>4. Phases'
      BY <1>1, <2>2 DEF Phases
    <2> QED BY <2>1, <2>3, <2>4, ChangeSettles DEF Settled
  <1>4. CASE ARefusal
    <2>1. PICK cmd \in {"define", "define_remote", "setting", "save"}, number \in Nat : \E line : Refused(cmd, number, line)
      BY <1>4 DEF ARefusal
    <2>2. PICK line : Refused(cmd, number, line)
      BY <2>1
    <2>3. Type(cmd, number, line, "error") /\ UNCHANGED <<settings, samples, had>>
      BY <2>2 DEF Refused
    <2>4. Fields(sh') /\ sh'.phase = "idle" /\ sh'.number = number /\ ops' = ops + 1
      BY <2>3, TypeShell
    <2>5. Shapes'
      BY <1>1, <2>3, <2>4 DEF Shapes, settings, samples
    <2>6. Phases'
      BY <2>4 DEF Phases
    <2> QED BY <2>3, <2>5, <2>6, SameSettings DEF Settled
  <1>5. CASE cmd_hk_save
    <2>1. Type("save", 0, <<>>, "done") /\ saved' = rep /\ since' = [r \in Reports |-> {rep[r]}]
          /\ UNCHANGED <<rep, meant, samples, had>>
      BY <1>5 DEF cmd_hk_save
    <2>2. Fields(sh') /\ sh'.phase = "idle" /\ sh'.number = 0 /\ ops' = ops + 1
      BY <2>1, TypeShell
    <2>3. since' \in [Reports -> SUBSET A_Setting] /\ saved' \in [Reports -> A_Setting]
      BY <1>1, <2>1 DEF Shapes
    <2>4. Shapes'
      BY <1>1, <2>1, <2>2, <2>3 DEF Shapes, samples
    <2>5. Phases'
      BY <2>2 DEF Phases
    <2>6. DefinedAsTyped' /\ LastIsKept' /\ DoneIsSaved'
      BY <1>1, <2>1 DEF DefinedAsTyped, LastIsKept, DoneIsSaved
    <2> QED BY <2>4, <2>5, <2>6 DEF Settled
  <1>6. ASSUME NEW number \in Numbers, cmd_hk_collect(number) PROVE Settled'
    <2>1. Type("collect", number, <<>>, "done") /\ Byte(number) \in Reports /\ Collect(Byte(number))
      BY <1>6 DEF cmd_hk_collect, IsDefined
    <2>2. number \in Nat /\ Fields(sh') /\ sh'.phase = "idle" /\ sh'.number = number /\ ops' = ops + 1
      BY <2>1, TypeShell, ReportNumbers
    <2>3. /\ ram' \in [Reports -> Seq(Records)] /\ file' = [q \in Reports |-> file'[q]]
          /\ taken' \in [Reports -> Nat] /\ UNCHANGED <<gen, settings, had>>
      BY <1>1, <2>1, Collected
    <2>4. Shapes'
      BY <1>1, <2>2, <2>3 DEF Shapes, settings
    <2>5. Phases'
      BY <2>2 DEF Phases
    <2> QED BY <2>3, <2>4, <2>5, SameSettings DEF Settled
  <1>7. CASE AStart
    <2>1. PICK cmd \in {"get", "stored", "extract", "show"}, number \in Nat :
             \E wanted, args : Start(cmd, number, wanted, args)
      BY <1>7 DEF AStart
    <2>2. PICK wanted, args : Start(cmd, number, wanted, args)
      BY <2>1
    <2>3. /\ Fields(sh') /\ sh'.cmd = cmd /\ sh'.phase = cmd /\ sh'.number = number /\ ops' = ops + 1
          /\ had' = (IF cmd = "show" THEN [r \in Reports |-> {rep[r]}] ELSE had)
          /\ UNCHANGED <<settings, samples, remote>>
      BY <2>2, StartShell
    <2>4. had' \in [Reports -> SUBSET A_Setting]
      BY <1>1, <2>3 DEF Shapes
    <2>5. Shapes'
      BY <1>1, <2>3, <2>4 DEF Shapes, settings, samples
    <2>6. Phases'
      BY <2>1, <2>3 DEF Phases
    <2> QED BY <2>3, <2>5, <2>6, SameSettings DEF Settled
  <1>8. ASSUME GetNext \/ FileStep \/ ShowDefinition \/ ShowPeriod \/ ShowClass PROVE Settled'
    <2>1. /\ Fields(sh') /\ sh'.cmd = sh.cmd /\ sh'.number = sh.number
          /\ UNCHANGED <<settings, samples, ops, remote, had>>
      BY <1>1, <1>8, GetShell, DefinitionShell, RowShell DEF FileStep
    <2>2. Shapes'
      BY <1>1, <2>1 DEF Shapes, settings, samples
    <2>3. Phases'
      <3>1. GetNext => sh.phase = "get" /\ sh'.phase \in {"get", "idle"}
        BY <1>1, GetShell
      <3>2. ShowDefinition => sh.phase = "show" /\ sh'.phase \in {"show", "period", "idle"}
        BY <1>1, DefinitionShell
      <3>3. ShowPeriod \/ ShowClass => sh.phase \in {"period", "class"} /\ sh'.phase \in {"show", "class"}
        BY <1>1, RowShell
      <3> QED BY <1>1, <1>8, <2>1, <3>1, <3>2, <3>3 DEF Phases, FileStep
    <2> QED BY <2>1, <2>2, <2>3, SameSettings DEF Settled
  <1>9. ASSUME NEW r \in Reports, Collector(r) PROVE Settled'
    <2>1. Collect(r) /\ Moves /\ UNCHANGED <<ops, remote>>
      BY <1>9 DEF Collector
    <2>2. Fields(sh') /\ sh'.cmd = sh.cmd /\ sh'.phase = sh.phase /\ sh'.number = sh.number
      BY <1>1, <2>1, MovesShell
    <2>3. /\ ram' \in [Reports -> Seq(Records)] /\ file' = [q \in Reports |-> file'[q]]
          /\ taken' \in [Reports -> Nat] /\ UNCHANGED <<gen, settings, had>>
      BY <1>1, <2>1, Collected
    <2>4. Shapes'
      BY <1>1, <2>1, <2>2, <2>3 DEF Shapes, settings
    <2>5. Phases'
      BY <1>1, <2>2 DEF Phases
    <2> QED BY <2>3, <2>4, <2>5, SameSettings DEF Settled
  <1>10. CASE UNCHANGED vars
    BY <1>10 DEF Settled, vars, settings, samples, Shapes, Phases, DefinedAsTyped, LastIsKept, DoneIsSaved
  <1> QED BY <1>1, <1>2, <1>3, <1>4, <1>5, <1>6, <1>7, <1>8, <1>9, <1>10, StepKinds

\* The settled state is an invariant.
LEMMA AlwaysSettled == Spec => []Settled
  BY InitSettled, SettledNext, PTL DEF Spec

\* Whoever defined a report last, its definition is what the words typed say: what
\* cmd_hk_define() stores of a line, and what command_hk_define() makes of the text
\* that define_remote() sent.
THEOREM DefinitionsAsTyped == Spec => []DefinedAsTyped
  <1>1. Settled => DefinedAsTyped
    BY DEF Settled
  <1> QED BY <1>1, AlwaysSettled, PTL

\* The snapshot holds for every report what somebody was last told is done, or a
\* later setting, whichever settings fail to be saved and whoever saves next.
THEOREM SettingsDoneAreSaved == Spec => []DoneIsSaved
  <1>1. Settled => DoneIsSaved
    BY DEF Settled
  <1> QED BY <1>1, AlwaysSettled, PTL

----------------------------------------------------------------------------
(* Two ways to define, and the report that a command names. *)

\* A definition was answered with an error exactly when its line is none for this node.
DefineAnswered ==
    sh.cmd = "define" =>
        /\ sh.args \in Lines
        /\ sh.number < REPORTS => (sh.answer = "error" <=> LocalMeaning(sh.args) = None)

\* Every step keeps the answer and the line together.
LEMMA DefineAnsweredNext == Settled /\ DefineAnswered /\ [Next]_vars => DefineAnswered'
  <1> SUFFICES ASSUME Settled, DefineAnswered, [Next]_vars PROVE DefineAnswered'
    OBVIOUS
  <1>1. Shapes /\ Phases /\ DefinedAsTyped /\ Fields(sh)
    BY DEF Settled, Shapes
  <1>2. CASE TypedChange
    <2>1. PICK number \in Nat : \E cmd, line, result, r, new :
             Named(cmd, number, line, r) /\ Type(cmd, number, line, result) /\ Changes(r, new, result)
      BY <1>2 DEF TypedChange
    <2>2. PICK cmd, line, result, r, new :
             Named(cmd, number, line, r) /\ Type(cmd, number, line, result) /\ Changes(r, new, result)
      BY <2>1
    <2>3. sh'.cmd = cmd /\ sh'.args = line /\ sh'.answer = result
      BY <2>2, TypeShell
    <2>4. result # "error"
      BY <1>1, <2>2, Applied
    <2>5. cmd = "define" => line \in Lines /\ LocalMeaning(line) # None
      BY <2>2 DEF Named
    <2> QED BY <2>3, <2>4, <2>5 DEF DefineAnswered
  <1>3. ASSUME RemoteChange \/ \E r \in Reports : Collector(r) PROVE DefineAnswered'
    <2>1. Moves
      BY <1>3 DEF RemoteChange, Collector
    <2>2. sh'.cmd = sh.cmd /\ sh'.args = sh.args /\ sh'.answer = sh.answer /\ sh'.number = sh.number
      BY <1>1, <2>1, MovesShell
    <2> QED BY <2>2 DEF DefineAnswered
  <1>4. CASE ARefusal
    <2>1. PICK cmd \in {"define", "define_remote", "setting", "save"}, number \in Nat : \E line :
             /\ Refused(cmd, number, line)
             /\ cmd = "define" => line \in Lines /\ (number < REPORTS => LocalMeaning(line) = None)
      BY <1>4 DEF ARefusal
    <2>2. PICK line :
             /\ Refused(cmd, number, line)
             /\ cmd = "define" => line \in Lines /\ (number < REPORTS => LocalMeaning(line) = None)
      BY <2>1
    <2>3. sh'.cmd = cmd /\ sh'.number = number /\ sh'.args = line /\ sh'.answer = "error"
      BY <2>2, TypeShell DEF Refused
    <2> QED BY <2>2, <2>3 DEF DefineAnswered
  <1>5. CASE cmd_hk_save
    <2>1. sh'.cmd = "save"
      BY <1>5, TypeShell DEF cmd_hk_save
    <2> QED BY <2>1 DEF DefineAnswered
  <1>6. ASSUME NEW number \in Numbers, cmd_hk_collect(number) PROVE DefineAnswered'
    <2>1. sh'.cmd = "collect"
      BY <1>6, TypeShell DEF cmd_hk_collect
    <2> QED BY <2>1 DEF DefineAnswered
  <1>7. CASE AStart
    <2>1. PICK cmd \in {"get", "stored", "extract", "show"}, number \in Nat :
             \E wanted, args : Start(cmd, number, wanted, args)
      BY <1>7 DEF AStart
    <2>2. PICK wanted, args : Start(cmd, number, wanted, args)
      BY <2>1
    <2>3. sh'.cmd = cmd
      BY <2>2, StartShell
    <2> QED BY <2>1, <2>3 DEF DefineAnswered
  <1>8. ASSUME GetNext \/ FileStep \/ ShowDefinition \/ ShowPeriod \/ ShowClass PROVE DefineAnswered'
    <2>1. sh'.cmd = sh.cmd
      BY <1>1, <1>8, GetShell, DefinitionShell, RowShell DEF FileStep
    <2>2. sh.phase \in {"get", "show", "period", "class"} \/ sh.cmd \in {"stored", "extract"}
      BY <1>1, <1>8, GetShell, DefinitionShell, RowShell DEF FileStep
    <2>3. sh.cmd # "define"
      BY <1>1, <2>2 DEF Phases
    <2> QED BY <2>1, <2>3 DEF DefineAnswered
  <1>9. CASE UNCHANGED vars
    BY <1>9 DEF DefineAnswered, vars
  <1> QED BY <1>1, <1>2, <1>3, <1>4, <1>5, <1>6, <1>7, <1>8, <1>9, StepKinds

\* A line that cmd_hk_define() takes for this node, define_remote() and
\* command_hk_define() take too, unless it is too long; what only they take is quoted.
THEOREM RoutesAlwaysAgree == Spec => []RoutesAgree
  <1>1. Init => DefineAnswered
    BY DEF Init, Idle, DefineAnswered
  <1>2. DefineAnswered => RoutesAgree
    <2> SUFFICES ASSUME DefineAnswered, sh.cmd = "define", sh.number < REPORTS PROVE RoutesAgree
      BY DEF RoutesAgree
    <2>1. PICK line \in Lines : line = sh.args
      BY DEF DefineAnswered
    <2>2. sh.answer = "error" <=> LocalMeaning(line) = None
      BY <2>1 DEF DefineAnswered
    <2>3. Readings[line].there = RemoteMeaning(line)
      BY DEF Readings
    <2>4. /\ LocalMeaning(line) # None /\ Short(line) => RemoteMeaning(line) # None
          /\ LocalMeaning(line) = None /\ Plain(line) => RemoteMeaning(line) = None
      BY WaysAgree
    <2> QED BY <2>1, <2>2, <2>3, <2>4 DEF RoutesAgree, Short, Plain
  <1> QED BY <1>1, <1>2, AlwaysSettled, DefineAnsweredNext, PTL DEF Spec

\* A command of this shell changes at most the report of its number: define the
\* number itself, the others its low byte (cmd_hk_define() and the uint8_t casts).
THEOREM OthersUntouched == Spec => OnlyNamedReport
  <1>1. ASSUME Settled, [Next]_vars, ops' # ops, NEW q \in Reports, rep'[q] # rep[q]
        PROVE  IF sh'.cmd = "define" THEN sh'.number = q ELSE sh'.number % BYTE = q
    <2>1. Shapes /\ Phases /\ DefinedAsTyped /\ Fields(sh)
      BY <1>1 DEF Settled, Shapes
    <2>2. CASE TypedChange
      <3>1. PICK number \in Nat : \E cmd, line, result, r, new :
               Named(cmd, number, line, r) /\ Type(cmd, number, line, result) /\ Changes(r, new, result)
        BY <2>2 DEF TypedChange
      <3>2. PICK cmd, line, result, r, new :
               Named(cmd, number, line, r) /\ Type(cmd, number, line, result) /\ Changes(r, new, result)
        BY <3>1
      <3>3. sh'.cmd = cmd /\ sh'.number = number
        BY <3>2, TypeShell
      <3>4. \A x \in Reports : x # r => rep'[x] = rep[x]
        BY <2>1, <3>2 DEF Changes, Apply, Shapes
      <3>5. q = r
        BY <1>1, <3>4
      <3>6. IF cmd = "define" THEN number = r ELSE number % BYTE = r
        BY <3>2 DEF Named, Byte
      <3> QED BY <3>3, <3>5, <3>6
    <2>3. ~RemoteChange
      BY <1>1 DEF RemoteChange, Arrives
    <2>4. ~ARefusal /\ ~cmd_hk_save /\ ~AStart
      BY <1>1 DEF ARefusal, Refused, settings, cmd_hk_save, AStart, Start
    <2>5. ~\E number \in Numbers : cmd_hk_collect(number)
      BY <1>1 DEF cmd_hk_collect, Collect, settings
    <2>6. ~(GetNext \/ FileStep \/ ShowDefinition \/ ShowPeriod \/ ShowClass)
      BY <1>1 DEF GetNext, FileStep, ShowDefinition, ShowPeriod, ShowClass, In, settings
    <2>7. (~\E r \in Reports : Collector(r)) /\ ~UNCHANGED vars
      BY <1>1 DEF Collector, vars, settings
    <2> QED BY <1>1, <2>1, <2>2, <2>3, <2>4, <2>5, <2>6, <2>7, StepKinds
  <1>2. Settled /\ [Next]_vars =>
           [ops' # ops => \A r \in Reports : rep'[r] # rep[r] =>
               IF sh'.cmd = "define" THEN sh'.number = r ELSE sh'.number % BYTE = r]_vars
    BY <1>1
  <1> QED BY <1>2, AlwaysSettled, PTL DEF Spec, OnlyNamedReport

----------------------------------------------------------------------------
(* hk get. *)

\* How far hk get is: what it printed last may be followed by the sample at its age.
GetAt(x, r) ==
    /\ x.index \in Nat /\ x.rows \in Seq(Records) /\ Len(x.rows) = x.index
    /\ x.rows # <<>> =>
          /\ r \in Reports /\ x.rows[x.index].gen <= gen[r]
          /\ x.rows[x.index].gen = gen[r] => x.rows[x.index].time <= taken[r] - x.index + 1
    /\ x.held # <<>> =>
          /\ r \in Reports /\ x.held \in Seq(Records) /\ x.held[1].gen <= gen[r]
          /\ x.held[1].gen = gen[r] => x.held[1].time <= taken[r]

\* What is printed so far: a sample is followed by the next older one or a newer one.
Followed(x) ==
    /\ \A i \in 1..(Len(x.rows) - 1) : x.rows[i].gen = x.rows[i + 1].gen => x.rows[i + 1].time >= x.rows[i].time - 1
    /\ x.rows # <<>> /\ x.held # <<>> /\ x.rows[1].gen = x.held[1].gen => x.rows[1].time >= x.held[1].time

Getting == sh.cmd = "get" => GetAt(sh, Byte(sh.number)) /\ Followed(sh)

\* A ring that only grew in front or was discarded keeps no gap.
LEMMA RingKept ==
    ASSUME Settled, Ring, [Next]_vars
    PROVE  Ring'
  <1>1. Shapes /\ Phases /\ DefinedAsTyped
    BY DEF Settled
  <1>2. ASSUME UNCHANGED samples PROVE Ring'
    BY <1>2 DEF samples, Ring
  <1>3. ASSUME NEW r, NEW new, NEW result, Changes(r, new, result) PROVE Ring'
    <2>1. /\ UNCHANGED taken
          /\ \A q \in Reports : \/ ram'[q] = ram[q] /\ gen'[q] = gen[q]
                                \/ ram'[q] = <<>> /\ gen'[q] = gen[q] + 1
      BY <1>1, <1>3, Discarded
    <2>2. ASSUME NEW q \in Reports, NEW i \in 1..Len(ram'[q])
          PROVE  ram'[q][i].gen = gen'[q] /\ ram'[q][i].time = taken'[q] + 1 - i
      <3>1. ram'[q] # <<>>
        BY <2>2
      <3>2. ram'[q] = ram[q] /\ gen'[q] = gen[q] /\ taken' = taken
        BY <2>1, <3>1
      <3> QED BY <2>2, <3>2 DEF Ring
    <2> QED BY <2>2 DEF Ring
  <1>4. ASSUME NEW r \in Reports, Collect(r) PROVE Ring'
    <2>1. /\ taken'[r] = taken[r] + 1 /\ gen' = gen /\ Len(ram'[r]) <= Len(ram[r]) + 1
          /\ \A q \in Reports : q # r => ram'[q] = ram[q] /\ taken'[q] = taken[q]
          /\ \A i \in 1..Len(ram'[r]) :
                /\ i = 1 => ram'[r][i].gen = gen[r] /\ ram'[r][i].time = taken[r] + 1
                /\ i # 1 => ram'[r][i] = ram[r][i - 1]
      BY <1>1, <1>4, Collected
    <2>2. ram[r] \in Seq(Records) /\ ram'[r] \in Seq(Records) /\ taken[r] \in Nat
      BY <1>1, <1>4, Collected DEF Shapes
    <2>3. PICK n \in Nat, m \in Nat : n = Len(ram[r]) /\ m = Len(ram'[r])
      BY <2>2
    <2>4. ASSUME NEW i \in 1..m PROVE ram'[r][i].gen = gen'[r] /\ ram'[r][i].time = taken'[r] + 1 - i
      <3>1. CASE i = 1
        BY <2>1, <2>2, <2>3, <3>1
      <3>2. CASE i # 1
        <4>1. i - 1 \in 1..n /\ ram'[r][i] = ram[r][i - 1]
          BY <2>1, <2>3, <3>2
        <4>2. ram[r][i - 1].gen = gen[r] /\ ram[r][i - 1].time = taken[r] + 1 - (i - 1)
          BY <2>3, <4>1 DEF Ring
        <4> QED BY <2>1, <2>2, <4>1, <4>2
      <3> QED BY <3>1, <3>2
    <2>5. ASSUME NEW q \in Reports, q # r, NEW i \in 1..Len(ram'[q])
          PROVE  ram'[q][i].gen = gen'[q] /\ ram'[q][i].time = taken'[q] + 1 - i
      BY <2>1, <2>5 DEF Ring
    <2> QED BY <2>3, <2>4, <2>5 DEF Ring
  <1>5. TypedChange \/ RemoteChange => \E r, new, result : Changes(r, new, result)
    BY DEF TypedChange, RemoteChange
  <1>6. (\E number \in Numbers : cmd_hk_collect(number)) \/ (\E r \in Reports : Collector(r))
           => \E r \in Reports : Collect(r)
    BY DEF cmd_hk_collect, Collector, IsDefined
  <1>7. ARefusal \/ cmd_hk_save \/ AStart \/ GetNext \/ FileStep \/ ShowDefinition \/ ShowPeriod \/ ShowClass
           \/ UNCHANGED vars => UNCHANGED samples
    BY DEF ARefusal, Refused, cmd_hk_save, AStart, Start, GetNext, FileStep, ShowDefinition, ShowPeriod, ShowClass,
           In, vars
  <1> QED BY <1>1, <1>2, <1>3, <1>4, <1>5, <1>6, <1>7, StepKinds

\* hk get is as far as it was, its rows and its first look are the same, and the
\* samples of its report went on or were discarded.
LEMMA GetWaits ==
    ASSUME Settled, Getting, sh.cmd = "get",
           Fields(sh'), sh'.rows = sh.rows, sh'.index = sh.index, sh'.held = sh.held, sh'.number = sh.number,
           \A q \in Reports : \/ gen'[q] = gen[q] /\ taken'[q] \in Nat /\ taken'[q] >= taken[q]
                              \/ gen'[q] = gen[q] + 1
    PROVE  Getting'
  <1>1. PICK r : r = Byte(sh.number)
    OBVIOUS
  <1>2. GetAt(sh, r) /\ Followed(sh) /\ Byte(sh'.number) = r
    BY <1>1 DEF Getting
  <1>3. Followed(sh')
    BY <1>2 DEF Followed
  <1>4. r \in Reports => gen[r] \in Nat /\ taken[r] \in Nat
    BY DEF Settled, Shapes
  <1>5. sh'.index \in Nat /\ sh'.rows \in Seq(Records) /\ Len(sh'.rows) = sh'.index
    BY <1>2 DEF GetAt
  <1>6. ASSUME sh.rows # <<>>
        PROVE  /\ r \in Reports /\ sh.rows[sh.index].gen <= gen'[r]
               /\ sh.rows[sh.index].gen = gen'[r] => sh.rows[sh.index].time <= taken'[r] - sh.index + 1
    <2>1. /\ r \in Reports /\ sh.rows[sh.index].gen <= gen[r]
          /\ sh.rows[sh.index].gen = gen[r] => sh.rows[sh.index].time <= taken[r] - sh.index + 1
      BY <1>2, <1>6 DEF GetAt
    <2>2. sh.rows[sh.index] \in Records /\ sh.index \in Nat
      <3>1. sh.index \in 1..Len(sh.rows) /\ sh.rows \in Seq(Records)
        BY <1>2, <1>6 DEF GetAt
      <3> QED BY <3>1
    <2>3. PICK g \in Nat, s \in Nat, k \in Nat : g = sh.rows[sh.index].gen /\ s = sh.rows[sh.index].time /\ k = sh.index
      BY <2>2 DEF Records
    <2>4. (gen'[r] = gen[r] /\ taken'[r] \in Nat /\ taken'[r] >= taken[r]) \/ gen'[r] = gen[r] + 1
      BY <2>1
    <2> QED BY <1>4, <2>1, <2>3, <2>4
  <1>7. ASSUME sh.held # <<>>
        PROVE  /\ r \in Reports /\ sh.held \in Seq(Records) /\ sh.held[1].gen <= gen'[r]
               /\ sh.held[1].gen = gen'[r] => sh.held[1].time <= taken'[r]
    <2>1. /\ r \in Reports /\ sh.held \in Seq(Records) /\ sh.held[1].gen <= gen[r]
          /\ sh.held[1].gen = gen[r] => sh.held[1].time <= taken[r]
      BY <1>2, <1>7 DEF GetAt
    <2>2. sh.held[1] \in Records
      BY <1>7, <2>1
    <2>3. PICK g \in Nat, s \in Nat : g = sh.held[1].gen /\ s = sh.held[1].time
      BY <2>2 DEF Records
    <2>4. (gen'[r] = gen[r] /\ taken'[r] \in Nat /\ taken'[r] >= taken[r]) \/ gen'[r] = gen[r] + 1
      BY <2>1
    <2> QED BY <1>4, <2>1, <2>3, <2>4
  <1>8. GetAt(sh, r)'
    BY <1>5, <1>6, <1>7 DEF GetAt
  <1> QED BY <1>2, <1>3, <1>8 DEF Getting

\* One more row: the sample at its age, which is the next older one or newer.
LEMMA GetGoesOn ==
    ASSUME Settled, Ring, Getting, sh.cmd = "get", GetNext
    PROVE  Getting'
  <1>1. PICK r : r = Byte(sh.number)
    OBVIOUS
  <1>2. Shapes /\ Fields(sh)
    BY DEF Settled, Shapes
  <1>3. /\ Fields(sh') /\ sh'.number = sh.number /\ sh'.held = sh.held
        /\ UNCHANGED <<settings, samples, ops, remote, had>>
        /\ \/ sh'.rows = sh.rows /\ sh'.index = sh.index
           \/ /\ r \in Reports /\ sh.index < Len(ram[r])
              /\ sh'.rows = Append(sh.rows, ram[r][sh.index + 1]) /\ sh'.index = sh.index + 1
    BY <1>1, <1>2, GetShell
  <1>4. gen' = gen /\ taken' = taken /\ \A q \in Reports : gen[q] \in Nat /\ taken[q] \in Nat
    BY <1>2, <1>3 DEF samples, Shapes
  <1>5. CASE sh'.rows = sh.rows /\ sh'.index = sh.index
    <2>1. \A q \in Reports : \/ gen'[q] = gen[q] /\ taken'[q] \in Nat /\ taken'[q] >= taken[q]
                             \/ gen'[q] = gen[q] + 1
      BY <1>4
    <2> QED BY <1>3, <1>5, <2>1, GetWaits
  <1>6. CASE /\ r \in Reports /\ sh.index < Len(ram[r])
             /\ sh'.rows = Append(sh.rows, ram[r][sh.index + 1]) /\ sh'.index = sh.index + 1
    <2>1. GetAt(sh, r) /\ Followed(sh)
      BY <1>1 DEF Getting
    <2>2. PICK n \in Nat : n = sh.index /\ n = Len(sh.rows)
      BY <2>1 DEF GetAt
    <2>3. ram[r] \in Seq(Records) /\ n + 1 \in 1..Len(ram[r])
      BY <1>2, <1>6, <2>2 DEF Shapes
    <2>4. PICK s \in Records : s = ram[r][n + 1]
      BY <2>3
    <2>5. s.gen = gen[r] /\ s.time = taken[r] - n
      <3>1. ram[r][n + 1].gen = gen[r] /\ ram[r][n + 1].time = taken[r] + 1 - (n + 1)
        BY <1>6, <2>3 DEF Ring
      <3>2. PICK k \in Nat : k = taken[r]
        BY <1>4, <1>6
      <3>3. k + 1 - (n + 1) = k - n
        OBVIOUS
      <3> QED BY <2>4, <3>1, <3>2, <3>3
    <2>6. sh.rows \in Seq(Records)
      BY <2>1 DEF GetAt
    <2>7. PICK rows : rows = Append(sh.rows, s)
      OBVIOUS
    <2>8. /\ rows \in Seq(Records) /\ Len(rows) = n + 1 /\ rows[n + 1] = s /\ rows # <<>>
          /\ \A i \in 1..n : rows[i] = sh.rows[i]
      BY <2>2, <2>6, <2>7
    <2>9. sh'.rows = rows /\ sh'.index = n + 1
      BY <1>6, <2>2, <2>4, <2>7
    <2>10. GetAt(sh, r)'
      <3>1. rows[n + 1].gen <= gen[r] /\ rows[n + 1].time <= taken[r] - (n + 1) + 1
        BY <1>4, <1>6, <2>5, <2>8
      <3>2. sh'.index \in Nat /\ sh'.rows \in Seq(Records) /\ Len(sh'.rows) = sh'.index
        BY <2>8, <2>9
      <3>3. sh.held # <<>> => /\ r \in Reports /\ sh.held \in Seq(Records) /\ sh.held[1].gen <= gen[r]
                              /\ sh.held[1].gen = gen[r] => sh.held[1].time <= taken[r]
        BY <2>1 DEF GetAt
      <3> QED BY <1>3, <1>4, <1>6, <2>9, <3>1, <3>2, <3>3 DEF GetAt
    <2>11. ASSUME NEW i \in 1..n, rows[i].gen = rows[i + 1].gen PROVE rows[i + 1].time >= rows[i].time - 1
      <3>1. CASE i < n
        <4>1. i \in 1..(Len(sh.rows) - 1) /\ rows[i] = sh.rows[i] /\ rows[i + 1] = sh.rows[i + 1]
          BY <2>2, <2>8, <3>1, SMTT(40)
        <4> QED BY <2>1, <2>11, <4>1 DEF Followed
      <3>2. CASE i = n
        <4>1. n # 0 /\ rows[n] = sh.rows[n] /\ rows[n + 1] = s /\ sh.rows # <<>>
          BY <2>2, <2>8, <3>2
        <4>2. sh.rows[n].gen = gen[r] => sh.rows[n].time <= taken[r] - n + 1
          BY <2>1, <2>2, <4>1 DEF GetAt
        <4>3. sh.rows[n] \in Records
          BY <2>2, <2>6, <4>1
        <4>4. PICK k \in Nat : k = sh.rows[n].time
          BY <4>3 DEF Records
        <4> QED BY <1>4, <1>6, <2>5, <2>11, <3>2, <4>1, <4>2, <4>4
      <3> QED BY <3>1, <3>2
    <2>12. ASSUME sh.held # <<>>, rows[1].gen = sh.held[1].gen PROVE rows[1].time >= sh.held[1].time
      <3>1. CASE n = 0
        <4>1. sh.held \in Seq(Records) /\ (sh.held[1].gen = gen[r] => sh.held[1].time <= taken[r])
          BY <2>1, <2>12 DEF GetAt
        <4>2. sh.held[1] \in Records
          BY <2>12, <4>1
        <4>3. PICK k \in Nat : k = sh.held[1].time
          BY <4>2 DEF Records
        <4> QED BY <1>4, <1>6, <2>5, <2>8, <2>12, <3>1, <4>1, <4>3
      <3>2. CASE n # 0
        <4>1. rows[1] = sh.rows[1] /\ sh.rows # <<>>
          BY <2>2, <2>8, <3>2
        <4> QED BY <2>1, <2>12, <4>1 DEF Followed
      <3> QED BY <3>1, <3>2
    <2>13. Followed(sh')
      <3>1. Len(sh'.rows) - 1 = n
        BY <2>8, <2>9
      <3> QED BY <1>3, <2>9, <2>11, <2>12, <3>1 DEF Followed
    <2> QED BY <1>1, <1>3, <2>10, <2>13 DEF Getting
  <1> QED BY <1>3, <1>5, <1>6

\* hk get begins with the ring as it is.
LEMMA GetStarts ==
    ASSUME Settled, Ring, NEW number \in Nat, NEW wanted, NEW args, Start("get", number, wanted, args)
    PROVE  Getting'
  <1>1. PICK r : r = Byte(number)
    OBVIOUS
  <1>2. /\ sh'.number = number /\ sh'.rows = <<>> /\ sh'.index = 0 /\ UNCHANGED samples
        /\ sh'.held = IF r \in Reports THEN ram[r] ELSE <<>>
    BY <1>1, StartShell
  <1>3. ASSUME sh'.held # <<>>
        PROVE  /\ r \in Reports /\ sh'.held \in Seq(Records) /\ sh'.held[1].gen <= gen'[r]
               /\ sh'.held[1].gen = gen'[r] => sh'.held[1].time <= taken'[r]
    <2>1. r \in Reports /\ sh'.held = ram[r] /\ gen' = gen /\ taken' = taken
      BY <1>2, <1>3 DEF samples
    <2>2. ram[r] \in Seq(Records) /\ gen[r] \in Nat /\ taken[r] \in Nat
      BY <2>1 DEF Settled, Shapes
    <2>3. 1 \in 1..Len(ram[r])
      BY <1>3, <2>1, <2>2
    <2>4. ram[r][1].gen = gen[r] /\ ram[r][1].time = taken[r] + 1 - 1
      BY <2>1, <2>3 DEF Ring
    <2> QED BY <2>1, <2>2, <2>4
  <1>4. <<>> \in Seq(Records) /\ Len(<<>>) = 0
    OBVIOUS
  <1>5. GetAt(sh, r)'
    BY <1>2, <1>3, <1>4 DEF GetAt
  <1>6. Followed(sh')
    BY <1>2, <1>4 DEF Followed
  <1> QED BY <1>1, <1>2, <1>5, <1>6 DEF Getting

\* Every step keeps what hk get has printed in order.
LEMMA GettingNext == Settled /\ Ring /\ Getting /\ [Next]_vars => Getting'
  <1> SUFFICES ASSUME Settled, Ring, Getting, [Next]_vars PROVE Getting'
    OBVIOUS
  <1>1. Shapes /\ Phases /\ DefinedAsTyped /\ Fields(sh) /\ \A q \in Reports : gen[q] \in Nat /\ taken[q] \in Nat
    BY DEF Settled, Shapes
  <1>2. ASSUME NEW cmd, NEW number, NEW line, NEW answer, Type(cmd, number, line, answer), cmd # "get"
        PROVE  Getting'
    BY <1>2, TypeShell DEF Getting
  <1>3. CASE TypedChange
    BY <1>2, <1>3 DEF TypedChange, Named
  <1>4. CASE RemoteChange
    <2>1. PICK r, new, result : Changes(r, new, result)
      BY <1>4 DEF RemoteChange
    <2>2. /\ Fields(sh') /\ sh'.cmd = sh.cmd /\ sh'.rows = sh.rows /\ sh'.index = sh.index
          /\ sh'.held = sh.held /\ sh'.number = sh.number
      BY <1>1, <1>4, MovesShell DEF RemoteChange
    <2>3. /\ UNCHANGED taken
          /\ \A q \in Reports : \/ ram'[q] = ram[q] /\ gen'[q] = gen[q]
                                \/ ram'[q] = <<>> /\ gen'[q] = gen[q] + 1
      BY <1>1, <2>1, Discarded
    <2>4. \A q \in Reports : \/ gen'[q] = gen[q] /\ taken'[q] \in Nat /\ taken'[q] >= taken[q]
                             \/ gen'[q] = gen[q] + 1
      BY <1>1, <2>3
    <2>5. sh.cmd = "get" => Getting'
      BY <2>2, <2>4, GetWaits
    <2> QED BY <2>2, <2>5 DEF Getting
  <1>5. ASSUME NEW r \in Reports, Collector(r) PROVE Getting'
    <2>1. Collect(r) /\ Moves
      BY <1>5 DEF Collector
    <2>2. /\ Fields(sh') /\ sh'.cmd = sh.cmd /\ sh'.rows = sh.rows /\ sh'.index = sh.index
          /\ sh'.held = sh.held /\ sh'.number = sh.number
      BY <1>1, <2>1, MovesShell
    <2>3. gen' = gen /\ taken'[r] = taken[r] + 1 /\ \A q \in Reports : q # r => taken'[q] = taken[q]
      BY <1>1, <2>1, Collected
    <2>4. \A q \in Reports : \/ gen'[q] = gen[q] /\ taken'[q] \in Nat /\ taken'[q] >= taken[q]
                             \/ gen'[q] = gen[q] + 1
      BY <1>1, <2>3
    <2>5. sh.cmd = "get" => Getting'
      BY <2>2, <2>4, GetWaits
    <2> QED BY <2>2, <2>5 DEF Getting
  <1>6. CASE ARefusal
    BY <1>2, <1>6 DEF ARefusal, Refused
  <1>7. CASE cmd_hk_save
    BY <1>2, <1>7 DEF cmd_hk_save
  <1>8. ASSUME NEW number \in Numbers, cmd_hk_collect(number) PROVE Getting'
    BY <1>2, <1>8 DEF cmd_hk_collect
  <1>9. CASE AStart
    <2>1. PICK cmd \in {"get", "stored", "extract", "show"}, number \in Nat :
             \E wanted, args : Start(cmd, number, wanted, args)
      BY <1>9 DEF AStart
    <2>2. PICK wanted, args : Start(cmd, number, wanted, args)
      BY <2>1
    <2>3. cmd # "get" => Getting'
      BY <2>2, StartShell DEF Getting
    <2>4. cmd = "get" => Getting'
      BY <2>2, GetStarts
    <2> QED BY <2>3, <2>4
  <1>10. CASE GetNext
    <2>1. sh.cmd = "get"
      BY <1>1, <1>10, GetShell DEF Phases
    <2> QED BY <1>10, <2>1, GetGoesOn
  <1>11. ASSUME FileStep \/ ShowDefinition \/ ShowPeriod \/ ShowClass PROVE Getting'
    <2>1. sh'.cmd = sh.cmd /\ (sh.cmd \in {"stored", "extract"} \/ sh.phase \in {"show", "period", "class"})
      BY <1>1, <1>11, DefinitionShell, RowShell DEF FileStep
    <2> QED BY <1>1, <2>1 DEF Phases, Getting
  <1>12. CASE UNCHANGED vars
    BY <1>12 DEF vars, samples, Getting, GetAt, Followed
  <1> QED BY <1>1, <1>3, <1>4, <1>5, <1>6, <1>7, <1>8, <1>9, <1>10, <1>11, <1>12, StepKinds

\* hk get skips no sample on its way back, however many collections shift the ages
\* under it and however often the report is defined anew (cmd_hk_get()).
THEOREM GetNeverSkips == Spec => []GetSkipsNothing
  <1>1. Init => Ring /\ Getting
    <2> SUFFICES ASSUME Init PROVE Ring /\ Getting
      OBVIOUS
    <2>1. sh.cmd = "none" /\ ram = [r \in Reports |-> <<>>]
      BY DEF Init, Idle
    <2>2. \A r \in Reports : 1..Len(ram[r]) = {}
      BY <2>1
    <2> QED BY <2>1, <2>2 DEF Ring, Getting
  <1>2. Getting => GetSkipsNothing
    <2> SUFFICES ASSUME Getting, sh.cmd = "get" PROVE GetSkipsNothing
      BY DEF GetSkipsNothing
    <2>1. Followed(sh)
      BY DEF Getting
    <2>2. \A i \in Adjacent(sh.rows) : i \in 1..(Len(sh.rows) - 1) /\ sh.rows[i].gen = sh.rows[i + 1].gen
      BY DEF Adjacent
    <2> QED BY <2>1, <2>2 DEF Followed, GetSkipsNothing
  <1> QED BY <1>1, <1>2, AlwaysSettled, RingKept, GettingNext, PTL DEF Spec

----------------------------------------------------------------------------
(* hk show. *)

A_Row == [report : Reports, def : Seq(Entries), period : Nat, class : Nat]

\* A row is made of settings in h, or of the preset values.
Own(row, h) ==
    /\ row.def \in {s.def : s \in h}
    /\ row.period \in {0} \cup {s.period : s \in h}
    /\ row.class \in {CLASS_DEFAULT} \cup {s.class : s \in h}

Rows(x) ==
    /\ x.rows \in Seq(A_Row) /\ x.index \in 0..REPORTS
    /\ x.phase \in {"period", "class"} =>
          x.index \in Reports /\ Len(x.rows) > 0 /\ x.rows[Len(x.rows)].report = x.index

Showing ==
    sh.cmd = "show" =>
        /\ \A r \in Reports : rep[r] \in had[r]
        /\ Rows(sh)
        /\ \A i \in 1..Len(sh.rows) : Own(sh.rows[i], had[sh.rows[i].report])

\* More settings that a report had: a row stays its own.
LEMMA OwnGrows ==
    ASSUME NEW row, NEW h, NEW g, h \subseteq g, Own(row, h)
    PROVE  Own(row, g)
  BY DEF Own

\* hk show stays where it is while settings are made elsewhere.
LEMMA ShowWaits ==
    ASSUME Showing, sh.cmd = "show", sh'.rows = sh.rows, sh'.index = sh.index, sh'.phase = sh.phase,
           \A q \in Reports : rep'[q] \in had'[q] /\ had[q] \subseteq had'[q]
    PROVE  Showing'
  <1>1. Rows(sh')
    BY DEF Showing, Rows
  <1>2. ASSUME NEW i \in 1..Len(sh.rows) PROVE Own(sh.rows[i], had'[sh.rows[i].report])
    <2>1. sh.rows[i] \in A_Row
      BY DEF Showing, Rows
    <2>2. sh.rows[i].report \in Reports
      BY <2>1 DEF A_Row
    <2>3. Own(sh.rows[i], had[sh.rows[i].report])
      BY DEF Showing
    <2> QED BY <2>2, <2>3, OwnGrows
  <1> QED BY <1>1, <1>2 DEF Showing

\* A setting of a report while hk show runs is one that the report had.
LEMMA ChangeIsHad ==
    ASSUME Shapes, \A q \in Reports : rep[q] \in had[q], sh.cmd = "show",
           NEW r, NEW new, NEW result, Changes(r, new, result)
    PROVE  \A q \in Reports : rep'[q] \in had'[q] /\ had[q] \subseteq had'[q]
  <1>1. /\ r \in Reports /\ rep' = [rep EXCEPT ![r] = new] /\ had' = [had EXCEPT ![r] = @ \cup {new}]
    BY DEF Changes, Apply
  <1> QED BY <1>1 DEF Shapes

\* A new row: the definition in force, and the preset values.
LEMMA ShowDefines ==
    ASSUME Settled, Showing, sh.cmd = "show", ShowDefinition
    PROVE  Showing'
  <1>1. Fields(sh) /\ rep \in [Reports -> A_Setting] /\ REPORTS \in Nat
    BY ReportNumbers DEF Settled, Shapes
  <1>2. /\ sh.phase = "show" /\ rep' = rep /\ had' = had
        /\ \/ sh'.phase = "idle" /\ sh'.rows = sh.rows /\ sh'.index = sh.index
           \/ sh.index # REPORTS /\ sh'.phase = "show" /\ sh'.rows = sh.rows /\ sh'.index = sh.index + 1
           \/ /\ sh.index # REPORTS /\ sh'.phase = "period" /\ sh'.index = sh.index
              /\ sh'.rows = Append(sh.rows, [report |-> sh.index, def |-> rep[sh.index].def,
                                             period |-> 0, class |-> CLASS_DEFAULT])
    BY <1>1, DefinitionShell DEF settings
  <1>3. /\ sh.rows \in Seq(A_Row) /\ sh.index \in 0..REPORTS /\ \A r \in Reports : rep[r] \in had[r]
        /\ \A i \in 1..Len(sh.rows) : Own(sh.rows[i], had[sh.rows[i].report])
    BY DEF Showing, Rows
  <1>4. CASE /\ sh'.rows = sh.rows
             /\ \/ sh'.phase = "idle" /\ sh'.index = sh.index
                \/ sh.index # REPORTS /\ sh'.phase = "show" /\ sh'.index = sh.index + 1
    <2>1. sh'.index \in 0..REPORTS
      BY <1>1, <1>3, <1>4
    <2> QED BY <1>2, <1>3, <1>4, <2>1 DEF Showing, Rows
  <1>5. CASE /\ sh.index # REPORTS /\ sh'.phase = "period" /\ sh'.index = sh.index
             /\ sh'.rows = Append(sh.rows, [report |-> sh.index, def |-> rep[sh.index].def,
                                            period |-> 0, class |-> CLASS_DEFAULT])
    <2>1. PICK row : row = [report |-> sh.index, def |-> rep[sh.index].def, period |-> 0, class |-> CLASS_DEFAULT]
      OBVIOUS
    <2>2. sh.index \in Reports
      BY <1>1, <1>3, <1>5 DEF Reports
    <2>3. rep[sh.index] \in A_Setting /\ rep[sh.index] \in had[sh.index]
      BY <1>1, <1>3, <2>2
    <2>4. row \in A_Row /\ row.report = sh.index /\ row.def = rep[sh.index].def /\ row.period = 0
          /\ row.class = CLASS_DEFAULT
      BY <2>1, <2>2, <2>3 DEF A_Row, A_Setting, CLASS_DEFAULT
    <2>5. Own(row, had[row.report])
      BY <2>3, <2>4 DEF Own
    <2>6. PICK n \in Nat : n = Len(sh.rows)
      BY <1>3
    <2>7. PICK rows : rows = Append(sh.rows, row)
      OBVIOUS
    <2>8. rows \in Seq(A_Row) /\ Len(rows) = n + 1 /\ rows[n + 1] = row /\ \A i \in 1..n : rows[i] = sh.rows[i]
      BY <1>3, <2>4, <2>6, <2>7
    <2>9. sh'.rows = rows
      BY <1>5, <2>1, <2>7
    <2>10. \A i \in 1..Len(rows) : Own(rows[i], had[rows[i].report])
      <3> SUFFICES ASSUME NEW i \in 1..(n + 1) PROVE Own(rows[i], had[rows[i].report])
        BY <2>8
      <3>1. CASE i = n + 1
        BY <2>5, <2>8, <3>1
      <3>2. CASE i # n + 1
        <4>1. i \in 1..n /\ rows[i] = sh.rows[i]
          BY <2>8, <3>2
        <4> QED BY <1>3, <2>6, <4>1
      <3> QED BY <3>1, <3>2
    <2>11. Rows(sh')
      <3>1. Len(rows) > 0 /\ rows[Len(rows)].report = sh.index
        BY <2>4, <2>8
      <3> QED BY <1>3, <1>5, <2>2, <2>8, <2>9, <3>1 DEF Rows
    <2> QED BY <1>2, <1>3, <2>9, <2>10, <2>11 DEF Showing
  <1> QED BY <1>2, <1>4, <1>5

\* The last row gets a value that the report has now, or keeps the one it had.
LEMMA RowCompleted ==
    ASSUME NEW rows \in Seq(A_Row), Len(rows) > 0, NEW new \in A_Row, NEW h \in [Reports -> SUBSET A_Setting],
           new.report = rows[Len(rows)].report, Own(new, h[new.report]),
           \A i \in 1..Len(rows) : Own(rows[i], h[rows[i].report])
    PROVE  LET all == [rows EXCEPT ![Len(rows)] = new] IN
           /\ all \in Seq(A_Row) /\ Len(all) = Len(rows) /\ all[Len(rows)] = new
           /\ \A i \in 1..Len(rows) : Own(all[i], h[all[i].report])
  <1> DEFINE all == [rows EXCEPT ![Len(rows)] = new]
  <1>1. PICK n \in Nat : n = Len(rows) /\ n > 0
    OBVIOUS
  <1>2. all \in Seq(A_Row) /\ Len(all) = n /\ all[n] = new /\ \A i \in 1..n : i # n => all[i] = rows[i]
    BY <1>1
  <1> HIDE DEF all
  <1>3. ASSUME NEW i \in 1..n PROVE Own(all[i], h[all[i].report])
    <2>1. CASE i = n
      BY <1>2, <2>1
    <2>2. CASE i # n
      BY <1>1, <1>2, <2>2
    <2> QED BY <2>1, <2>2
  <1> QED BY <1>1, <1>2, <1>3 DEF all

\* The period and the class of the row printed last.
LEMMA ShowCompletes ==
    ASSUME Settled, Showing, sh.cmd = "show", ShowPeriod \/ ShowClass
    PROVE  Showing'
  <1>1. Fields(sh) /\ rep \in [Reports -> A_Setting] /\ had \in [Reports -> SUBSET A_Setting] /\ REPORTS \in Nat
        /\ rep' = rep /\ had' = had
    BY ReportNumbers DEF Settled, Shapes, ShowPeriod, ShowClass, In, settings
  <1>2. \/ /\ sh.phase = "period" /\ sh'.phase = "class" /\ sh'.index = sh.index
           /\ sh'.rows = [sh.rows EXCEPT ![Len(sh.rows)].period =
                             IF rep[sh.index].def = <<>> THEN @ ELSE rep[sh.index].period]
        \/ /\ sh.phase = "class" /\ sh'.phase = "show" /\ sh'.index = sh.index + 1
           /\ sh'.rows = [sh.rows EXCEPT ![Len(sh.rows)].class =
                             IF rep[sh.index].def = <<>> THEN @ ELSE rep[sh.index].class]
    BY <1>1, RowShell
  <1>3. /\ sh.rows \in Seq(A_Row) /\ sh.index \in Reports /\ Len(sh.rows) > 0
        /\ sh.rows[Len(sh.rows)].report = sh.index /\ \A r \in Reports : rep[r] \in had[r]
        /\ \A i \in 1..Len(sh.rows) : Own(sh.rows[i], had[sh.rows[i].report])
    BY <1>2 DEF Showing, Rows
  <1>4. PICK n \in Nat : n = Len(sh.rows) /\ n > 0
    BY <1>3
  <1>5. PICK row \in A_Row : row = sh.rows[n]
    BY <1>3, <1>4
  <1>6. row.report = sh.index /\ Own(row, had[sh.index])
    BY <1>3, <1>4, <1>5
  <1>7. PICK now \in A_Setting : now = rep[sh.index] /\ now \in had[sh.index]
    BY <1>1, <1>3
  <1>8. PICK new : /\ new = (IF sh.phase = "period" THEN [row EXCEPT !.period = IF now.def = <<>> THEN @ ELSE now.period]
                             ELSE [row EXCEPT !.class = IF now.def = <<>> THEN @ ELSE now.class])
    OBVIOUS
  <1>9. new \in A_Row /\ new.report = row.report /\ new.def = row.def
        /\ new.period \in {row.period, now.period} /\ new.class \in {row.class, now.class}
    BY <1>8 DEF A_Row, A_Setting
  <1>10. Own(new, had[sh.index])
    BY <1>6, <1>7, <1>9 DEF Own
  <1>11. sh'.rows = [sh.rows EXCEPT ![n] = new]
    BY <1>2, <1>4, <1>5, <1>7, <1>8
  <1>12. PICK all : all = [sh.rows EXCEPT ![n] = new]
    OBVIOUS
  <1>13. /\ all \in Seq(A_Row) /\ Len(all) = n /\ all[n] = new
         /\ \A i \in 1..n : Own(all[i], had[all[i].report])
    BY <1>1, <1>3, <1>4, <1>5, <1>6, <1>9, <1>10, <1>12, RowCompleted
  <1>14. Rows(sh')
    <2>1. sh.index \in 0..REPORTS /\ sh.index + 1 \in 0..REPORTS
      BY <1>1, <1>3 DEF Reports
    <2> QED BY <1>2, <1>3, <1>4, <1>6, <1>9, <1>11, <1>12, <1>13, <2>1 DEF Rows
  <1> QED BY <1>1, <1>3, <1>11, <1>12, <1>13, <1>14 DEF Showing

\* Every step leaves the rows of hk show their reports' own.
LEMMA ShowingNext == Settled /\ Showing /\ [Next]_vars => Showing'
  <1> SUFFICES ASSUME Settled, Showing, [Next]_vars PROVE Showing'
    OBVIOUS
  <1>1. Shapes /\ Phases /\ DefinedAsTyped /\ Fields(sh)
    BY DEF Settled, Shapes
  <1>2. ASSUME NEW cmd, NEW number, NEW line, NEW answer, Type(cmd, number, line, answer), cmd # "show"
        PROVE  Showing'
    BY <1>2, TypeShell DEF Showing
  <1>3. CASE TypedChange
    BY <1>2, <1>3 DEF TypedChange, Named
  <1>4. CASE RemoteChange
    <2>1. PICK r, new, result : Changes(r, new, result)
      BY <1>4 DEF RemoteChange
    <2>2. sh'.cmd = sh.cmd /\ sh'.rows = sh.rows /\ sh'.index = sh.index /\ sh'.phase = sh.phase
      BY <1>1, <1>4, MovesShell DEF RemoteChange
    <2>3. ASSUME sh.cmd = "show" PROVE Showing'
      <3>1. \A q \in Reports : rep[q] \in had[q]
        BY <2>3 DEF Showing
      <3>2. \A q \in Reports : rep'[q] \in had'[q] /\ had[q] \subseteq had'[q]
        BY <1>1, <2>1, <2>3, <3>1, ChangeIsHad
      <3> QED BY <2>2, <2>3, <3>2, ShowWaits
    <2> QED BY <2>2, <2>3 DEF Showing
  <1>5. ASSUME NEW r \in Reports, Collector(r) PROVE Showing'
    <2>1. Collect(r) /\ Moves
      BY <1>5 DEF Collector
    <2>2. sh'.cmd = sh.cmd /\ sh'.rows = sh.rows /\ sh'.index = sh.index /\ sh'.phase = sh.phase
      BY <1>1, <2>1, MovesShell
    <2>3. rep' = rep /\ had' = had
      BY <2>1 DEF Collect, settings
    <2>4. ASSUME sh.cmd = "show" PROVE Showing'
      <3>1. \A q \in Reports : rep'[q] \in had'[q] /\ had[q] \subseteq had'[q]
        BY <2>3, <2>4 DEF Showing
      <3> QED BY <2>2, <2>4, <3>1, ShowWaits
    <2> QED BY <2>2, <2>4 DEF Showing
  <1>6. CASE ARefusal
    BY <1>2, <1>6 DEF ARefusal, Refused
  <1>7. CASE cmd_hk_save
    BY <1>2, <1>7 DEF cmd_hk_save
  <1>8. ASSUME NEW number \in Numbers, cmd_hk_collect(number) PROVE Showing'
    BY <1>2, <1>8 DEF cmd_hk_collect
  <1>9. CASE AStart
    <2>1. PICK cmd \in {"get", "stored", "extract", "show"}, number \in Nat :
             \E wanted, args : Start(cmd, number, wanted, args)
      BY <1>9 DEF AStart
    <2>2. PICK wanted, args : Start(cmd, number, wanted, args)
      BY <2>1
    <2>3. cmd # "show" => Showing'
      BY <2>2, StartShell DEF Showing
    <2>4. ASSUME cmd = "show" PROVE Showing'
      <3>1. sh'.phase = "show" /\ sh'.rows = <<>> /\ sh'.index = 0 /\ had' = [r \in Reports |-> {rep[r]}] /\ rep' = rep
        BY <2>2, <2>4, StartShell DEF settings
      <3>2. 0 \in 0..REPORTS /\ <<>> \in Seq(A_Row) /\ 1..Len(<<>>) = {}
        BY ReportNumbers
      <3>3. Rows(sh')
        BY <3>1, <3>2 DEF Rows
      <3> QED BY <3>1, <3>2, <3>3 DEF Showing
    <2> QED BY <2>3, <2>4
  <1>10. ASSUME GetNext \/ FileStep PROVE Showing'
    <2>1. sh'.cmd = sh.cmd /\ (sh.cmd \in {"stored", "extract"} \/ sh.phase = "get")
      BY <1>1, <1>10, GetShell DEF FileStep
    <2> QED BY <1>1, <2>1 DEF Phases, Showing
  <1>11. ASSUME ShowDefinition \/ ShowPeriod \/ ShowClass PROVE Showing'
    <2>1. sh.cmd = "show"
      BY <1>1, <1>11 DEF ShowDefinition, ShowPeriod, ShowClass, In, Phases
    <2> QED BY <1>11, <2>1, ShowDefines, ShowCompletes
  <1>12. CASE UNCHANGED vars
    BY <1>12 DEF vars, settings, Showing, Rows
  <1> QED BY <1>1, <1>3, <1>4, <1>5, <1>6, <1>7, <1>8, <1>9, <1>10, <1>11, <1>12, StepKinds

\* What hk show prints of a report, that report had since hk show began, or it is a
\* preset value: cmd_hk_show() never carries a value over from another report.
THEOREM ShowsItsOwn == Spec => []ShowIsItsOwn
  <1>1. Init => Showing
    BY DEF Init, Idle, Showing
  <1>2. Showing => ShowIsItsOwn
    <2> SUFFICES ASSUME Showing, sh.cmd = "show" PROVE ShowIsItsOwn
      BY DEF ShowIsItsOwn
    <2>1. sh.rows \in Seq(A_Row) /\ \A i \in 1..Len(sh.rows) : Own(sh.rows[i], had[sh.rows[i].report])
      BY DEF Showing, Rows
    <2>2. \A i \in DOMAIN sh.rows : Own(sh.rows[i], had[sh.rows[i].report])
      BY <2>1
    <2> QED BY <2>2 DEF ShowIsItsOwn, Own
  <1> QED BY <1>1, <1>2, AlwaysSettled, ShowingNext, PTL DEF Spec

----------------------------------------------------------------------------
(* What a filter reads of its arguments. *)

An_Argument == [name : STRING, value : Nat]

\* One argument more.
Bounded(f, arg) == [f EXCEPT ![arg.name] = Cut(arg.name, arg.value)]

\* The function that parse_filter() goes along, on the first n arguments.
IsFilter(g, args, n) ==
    g = [i \in 0..n |-> IF i = 0 THEN NoBound ELSE Bounded(g[i - 1], args[i])]

\* There is such a function for every number of arguments.
LEMMA FilterExists ==
    ASSUME NEW args
    PROVE  \A n \in Nat : \E g : IsFilter(g, args, n)
  <1> DEFINE P == {n \in Nat : \E g : IsFilter(g, args, n)}
  <1>1. 0 \in P
    <2>1. PICK g : g = [i \in 0..0 |-> NoBound]
      OBVIOUS
    <2>2. g = [i \in 0..0 |-> IF i = 0 THEN NoBound ELSE Bounded(g[i - 1], args[i])]
      BY <2>1
    <2> QED BY <2>2 DEF IsFilter
  <1>2. ASSUME NEW n \in Nat, n \in P PROVE n + 1 \in P
    <2>1. PICK g : IsFilter(g, args, n)
      BY <1>2
    <2>2. PICK last : last = Bounded(g[n], args[n + 1])
      OBVIOUS
    <2>3. PICK h : h = [i \in 0..(n + 1) |-> IF i = n + 1 THEN last ELSE g[i]]
      OBVIOUS
    <2>4. ASSUME NEW i \in 0..(n + 1)
          PROVE  h[i] = IF i = 0 THEN NoBound ELSE Bounded(h[i - 1], args[i])
      <3>1. CASE i = 0
        <4>1. 0 \in 0..n /\ g[0] = NoBound
          BY <2>1 DEF IsFilter
        <4> QED BY <2>3, <3>1, <4>1
      <3>2. CASE i \in 1..n
        <4>1. g[i] = Bounded(g[i - 1], args[i])
          BY <2>1, <3>2 DEF IsFilter
        <4>2. h[i] = g[i] /\ h[i - 1] = g[i - 1] /\ i # 0
          BY <2>3, <3>2
        <4> QED BY <4>1, <4>2
      <3>3. CASE i = n + 1
        <4>1. h[i] = last /\ h[i - 1] = g[n] /\ i # 0
          BY <2>3, <3>3
        <4> QED BY <2>2, <3>3, <4>1
      <3> QED BY <3>1, <3>2, <3>3
    <2>5. h = [i \in 0..(n + 1) |-> h[i]]
      BY <2>3
    <2>6. IsFilter(h, args, n + 1)
      BY <2>4, <2>5, Zenon DEF IsFilter
    <2> QED BY <2>6
  <1>3. \A n \in Nat : n \in P
    <2> HIDE DEF P
    <2> QED BY <1>1, <1>2, Induction
  <1> QED BY <1>3

\* The one that the definition chooses.
LEMMA FilterIs ==
    ASSUME NEW args, Len(args) \in Nat
    PROVE  \E g : IsFilter(g, args, Len(args)) /\ parse_filter(args) = g[Len(args)]
  <1> DEFINE f == CHOOSE f : IsFilter(f, args, Len(args))
  <1>1. IsFilter(f, args, Len(args))
    BY FilterExists
  <1>2. parse_filter(args) = f[Len(args)]
    BY DEF parse_filter, IsFilter, Bounded
  <1> QED BY <1>1, <1>2

\* The bound of a name is the value of the last argument that has the name.
LEMMA LastArgumentCounts ==
    ASSUME NEW args \in Seq(An_Argument), FilterReads(args), NEW j \in 1..Len(args),
           \A k \in (j + 1)..Len(args) : args[k].name # args[j].name
    PROVE  parse_filter(args)[args[j].name] = Cut(args[j].name, args[j].value)
  <1>1. PICK g : IsFilter(g, args, Len(args)) /\ parse_filter(args) = g[Len(args)]
    BY FilterIs
  <1>2. PICK n \in Nat : n = Len(args)
    OBVIOUS
  <1>3. \A i \in 1..n : args[i].name \in FilterNames
    BY <1>2 DEF FilterReads
  <1>4. \A i \in 1..n : g[i] = Bounded(g[i - 1], args[i])
    BY <1>1, <1>2 DEF IsFilter
  <1>5. g[0] = [x \in FilterNames |-> 0]
    BY <1>1, <1>2 DEF IsFilter, NoBound
  <1> DEFINE P == {m \in Nat : m <= n =>
                      DOMAIN g[m] = FilterNames /\ (j <= m => g[m][args[j].name] = Cut(args[j].name, args[j].value))}
  <1>6. 0 \in P
    BY <1>5
  <1>7. ASSUME NEW m \in Nat, m \in P PROVE m + 1 \in P
    <2>1. CASE m + 1 <= n
      <3>1. m + 1 \in 1..n /\ (m + 1) - 1 = m /\ m <= n
        BY <2>1
      <3>2. /\ g[m + 1] = [g[m] EXCEPT ![args[m + 1].name] = Cut(args[m + 1].name, args[m + 1].value)]
            /\ args[m + 1].name \in FilterNames
        <4>1. g[m + 1] = Bounded(g[m], args[m + 1]) /\ args[m + 1].name \in FilterNames
          BY <1>3, <1>4, <3>1
        <4> QED BY <4>1 DEF Bounded
      <3>3. DOMAIN g[m] = FilterNames /\ (j <= m => g[m][args[j].name] = Cut(args[j].name, args[j].value))
        BY <1>7, <3>1
      <3>4. DOMAIN g[m + 1] = FilterNames
        BY <3>2, <3>3
      <3>5. ASSUME j <= m + 1 PROVE g[m + 1][args[j].name] = Cut(args[j].name, args[j].value)
        <4>1. CASE j = m + 1
          BY <3>2, <3>3, <4>1
        <4>2. CASE j <= m
          <5>1. args[m + 1].name # args[j].name
            BY <1>2, <3>1, <4>2
          <5>2. args[j].name \in FilterNames
            BY <1>2, <1>3
          <5> QED BY <3>2, <3>3, <4>2, <5>1, <5>2
        <4> QED BY <3>5, <4>1, <4>2
      <3> QED BY <3>4, <3>5
    <2>2. CASE ~(m + 1 <= n)
      BY <2>2
    <2> QED BY <2>1, <2>2
  <1>8. \A m \in Nat : m \in P
    <2> HIDE DEF P
    <2> QED BY <1>6, <1>7, Induction
  <1>9. n \in P
    BY <1>8
  <1> QED BY <1>1, <1>2, <1>9

----------------------------------------------------------------------------
(* The order of a file. *)

\* Records of one definition, each newer than the one before, none newer than the last.
InOrder(f, g, n) ==
    /\ f \in Seq(Records)
    /\ \A i \in 1..Len(f) : f[i].gen = g /\ f[i].time <= n
    /\ \A i, j \in 1..Len(f) : i < j => f[i].time < f[j].time

\* What a selection has from place k + 1 on is newer than n.
Ahead(sel, n, k) == \A j \in (k + 1)..Len(sel) : sel[j].time > n

\* The files are in order and hold no more than they can.
Stores == \A r \in Reports : InOrder(file[r], gen[r], taken[r]) /\ Len(file[r]) <= CAPACITY

LEMMA NothingInOrder ==
    ASSUME NEW g, NEW n
    PROVE  InOrder(<<>>, g, n) /\ Len(<<>>) <= CAPACITY
  <1>1. <<>> \in Seq(Records) /\ Len(<<>>) = 0 /\ 0 <= CAPACITY
    BY HkAssumption
  <1> QED BY <1>1 DEF InOrder

LEMMA OneMoreInOrder ==
    ASSUME NEW f, NEW g, NEW n \in Nat, InOrder(f, g, n), NEW s \in Records, s.gen = g, s.time = n + 1
    PROVE  InOrder(Append(f, s), g, n + 1)
  <1>1. PICK l \in Nat : l = Len(f)
    BY DEF InOrder
  <1>2. PICK new : new = Append(f, s)
    OBVIOUS
  <1>3. f \in Seq(Records) /\ \A i \in 1..l : f[i] \in Records /\ f[i].gen = g /\ f[i].time <= n
    BY <1>1 DEF InOrder
  <1>4. \A i \in 1..l : f[i].time \in Nat
    BY <1>3 DEF Records
  <1>5. new \in Seq(Records) /\ Len(new) = l + 1 /\ new[l + 1] = s /\ \A i \in 1..l : new[i] = f[i]
    BY <1>1, <1>2, <1>3
  <1>6. ASSUME NEW i \in 1..(l + 1) PROVE new[i].gen = g /\ new[i].time <= n + 1
    <2>1. CASE i = l + 1
      BY <1>5, <2>1
    <2>2. CASE i # l + 1
      <3>1. i \in 1..l /\ new[i] = f[i]
        BY <1>5, <2>2
      <3> QED BY <1>3, <1>4, <3>1
    <2> QED BY <2>1, <2>2
  <1>7. ASSUME NEW i \in 1..(l + 1), NEW j \in 1..(l + 1), i < j PROVE new[i].time < new[j].time
    <2>1. i \in 1..l /\ new[i] = f[i] /\ f[i].time <= n /\ f[i].time \in Nat
      BY <1>3, <1>4, <1>5, <1>7
    <2>2. CASE j = l + 1
      BY <1>5, <2>1, <2>2
    <2>3. CASE j # l + 1
      <3>1. j \in 1..l /\ new[j] = f[j]
        BY <1>5, <2>3
      <3> QED BY <1>1, <1>7, <2>1, <3>1 DEF InOrder
    <2> QED BY <2>2, <2>3
  <1> QED BY <1>2, <1>5, <1>6, <1>7 DEF InOrder

LEMMA OneLessInOrder ==
    ASSUME NEW f, NEW g, NEW n \in Nat, InOrder(f, g, n), f # <<>>
    PROVE  InOrder(Tail(f), g, n)
  <1>1. PICK l \in Nat : l = Len(f)
    BY DEF InOrder
  <1>2. PICK t : t = Tail(f)
    OBVIOUS
  <1>3. f \in Seq(Records)
    BY DEF InOrder
  <1>4. t \in Seq(Records) /\ Len(t) = l - 1 /\ \A i \in 1..Len(t) : t[i] = f[i + 1]
    BY <1>1, <1>2, <1>3, HeadTailProperties
  <1>5. \A i \in 1..(l - 1) : i + 1 \in 1..l /\ t[i] = f[i + 1]
    BY <1>4
  <1>6. \A i \in 1..(l - 1) : t[i].gen = g /\ t[i].time <= n
    BY <1>1, <1>5 DEF InOrder
  <1>7. ASSUME NEW i \in 1..(l - 1), NEW j \in 1..(l - 1), i < j PROVE t[i].time < t[j].time
    <2>1. i + 1 < j + 1
      BY <1>7
    <2> QED BY <1>1, <1>5, <2>1 DEF InOrder
  <1> QED BY <1>2, <1>4, <1>6, <1>7 DEF InOrder

\* A selection of a file in order is in order too, and admitted.
LEMMA KeptInOrder ==
    ASSUME NEW f, NEW g, NEW n \in Nat, InOrder(f, g, n), NEW T
    PROVE  /\ InOrder(Kept(f, T), g, n) /\ Len(Kept(f, T)) <= Len(f)
           /\ \A i \in 1..Len(Kept(f, T)) : Kept(f, T)[i] \in T
  <1>1. f \in Seq(Records)
    BY DEF InOrder
  <1>2. PICK k : k = Kept(f, T) /\ k \in Seq(Records) /\ Part(k, f, T, Len(f))
    BY <1>1, KeptPart
  <1>3. ASSUME NEW a \in 1..Len(k) PROVE k[a] \in T /\ k[a].gen = g /\ k[a].time <= n
    <2>1. PICK i \in 1..Len(f) : k[a] = f[i] /\ f[i] \in T
      BY <1>2 DEF Part
    <2> QED BY <2>1 DEF InOrder
  <1>4. ASSUME NEW a \in 1..Len(k), NEW b \in 1..Len(k), a < b PROVE k[a].time < k[b].time
    <2>1. PICK i \in 1..Len(f), j \in 1..Len(f) : i < j /\ k[a] = f[i] /\ k[b] = f[j]
      BY <1>2, <1>4 DEF Part
    <2> QED BY <2>1 DEF InOrder
  <1>5. InOrder(k, g, n)
    BY <1>2, <1>3, <1>4 DEF InOrder
  <1> QED BY <1>2, <1>3, <1>5 DEF Part

\* A record more at the end is ahead of everything.
LEMMA AheadOfMore ==
    ASSUME NEW f \in Seq(Records), NEW T, NEW n \in Nat, NEW k \in Nat, Ahead(Kept(f, T), n, k),
           NEW s \in Records, s.time > n
    PROVE  Ahead(Kept(Append(f, s), T), n, k)
  <1>1. PICK sel : sel = Kept(f, T) /\ sel \in Seq(Records)
    BY KeptPart
  <1>2. Kept(Append(f, s), T) = IF s \in T THEN Append(sel, s) ELSE sel
    BY <1>1, KeptAppend
  <1>3. PICK new : new = Append(sel, s)
    OBVIOUS
  <1>4. PICK l \in Nat : l = Len(sel)
    BY <1>1
  <1>5. Len(new) = l + 1 /\ new[l + 1] = s /\ \A i \in 1..l : new[i] = sel[i]
    BY <1>1, <1>3, <1>4
  <1>6. Ahead(sel, n, k)
    BY <1>1
  <1>7. ASSUME NEW j \in (k + 1)..(l + 1) PROVE new[j].time > n
    <2>1. CASE j = l + 1
      BY <1>5, <2>1
    <2>2. CASE j # l + 1
      <3>1. j \in (k + 1)..l /\ new[j] = sel[j]
        BY <1>5, <2>2
      <3> QED BY <1>4, <1>6, <3>1 DEF Ahead
    <2> QED BY <2>1, <2>2
  <1>8. Ahead(new, n, k)
    BY <1>5, <1>7 DEF Ahead
  <1> QED BY <1>2, <1>3, <1>6, <1>8

\* Without the oldest record a selection is as far ahead, or one record further.
LEMMA AheadOfLess ==
    ASSUME NEW f \in Seq(Records), f # <<>>, NEW T, NEW n \in Nat, NEW k \in Nat, Ahead(Kept(f, T), n, k)
    PROVE  Ahead(Kept(Tail(f), T), n, k)
  <1>1. PICK sel : sel = Kept(f, T) /\ sel \in Seq(Records)
    BY KeptPart
  <1>2. PICK t : t = Kept(Tail(f), T)
    OBVIOUS
  <1>3. t \in Seq(Records) /\ \E d \in {0, 1} : Len(sel) = Len(t) + d /\ \A j \in 1..Len(t) : t[j] = sel[j + d]
    BY <1>1, <1>2, KeptTail
  <1>4. PICK d \in {0, 1} : Len(sel) = Len(t) + d /\ \A j \in 1..Len(t) : t[j] = sel[j + d]
    BY <1>3
  <1>5. PICK l \in Nat : l = Len(t)
    BY <1>3
  <1>6. ASSUME NEW j \in (k + 1)..l PROVE t[j].time > n
    <2>1. j \in 1..l /\ j + d \in (k + 1)..(l + d)
      OBVIOUS
    <2> QED BY <1>1, <1>4, <1>5, <2>1 DEF Ahead
  <1> QED BY <1>2, <1>5, <1>6 DEF Ahead

----------------------------------------------------------------------------
(* A file while others act. *)

\* Whoever reads the file of report q is not set back: the definition is another one,
\* or what was ahead of the reader still is.
GoesOn(q) ==
    \/ gen'[q] = gen[q] + 1
    \/ /\ gen'[q] = gen[q] /\ taken'[q] \in Nat /\ taken'[q] >= taken[q]
       /\ \A n, k \in Nat : \A T : n <= taken[q] /\ Ahead(Kept(file[q], T), n, k) => Ahead(Kept(file'[q], T), n, k)

\* The same file: nobody is set back.
LEMMA SameFileGoesOn ==
    ASSUME NEW q \in Reports, Shapes, gen'[q] = gen[q], taken'[q] = taken[q], file'[q] = file[q]
    PROVE  GoesOn(q)
  <1>1. taken[q] \in Nat
    BY DEF Shapes
  <1> QED BY <1>1 DEF GoesOn

\* A collection appends to the file of its report, or leaves it, and may drop the oldest record.
LEMMA CollectedFile ==
    ASSUME Shapes, Stores, NEW r \in Reports, Collect(r)
    PROVE  Stores' /\ \A q \in Reports : GoesOn(q)
  <1>1. gen[r] \in Nat /\ taken[r] \in Nat /\ file = [q \in Reports |-> file[q]] /\ taken \in [Reports -> Nat]
        /\ InOrder(file[r], gen[r], taken[r]) /\ Len(file[r]) <= CAPACITY /\ file[r] \in Seq(Records)
    BY DEF Shapes, Stores, InOrder
  <1>2. PICK s : s = [gen |-> gen[r], time |-> taken[r] + 1, flag |-> IF taken[r] + 1 \in Incomplete THEN 1 ELSE 0]
    OBVIOUS
  <1>3. s \in Records /\ s.gen = gen[r] /\ s.time = taken[r] + 1
    BY <1>1, <1>2 DEF Records
  <1>4. PICK grown : grown = Append(file[r], s)
    OBVIOUS
  <1>5. grown \in Seq(Records) /\ Len(grown) = Len(file[r]) + 1 /\ grown # <<>>
    BY <1>1, <1>3, <1>4
  <1>6. taken' = [taken EXCEPT ![r] = @ + 1] /\ gen' = gen
        /\ file' = IF rep[r].store = 0 THEN file
                   ELSE [file EXCEPT ![r] = IF Len(grown) > CAPACITY THEN Tail(grown) ELSE grown]
    BY <1>2, <1>4 DEF Collect
  <1>7. taken'[r] = taken[r] + 1 /\ \A q \in Reports : q # r => taken'[q] = taken[q] /\ file'[q] = file[q]
    BY <1>1, <1>6
  <1>8. \/ file'[r] = file[r]
        \/ file'[r] = grown /\ Len(grown) <= CAPACITY
        \/ file'[r] = Tail(grown)
    <2>1. Len(grown) \in Nat /\ CAPACITY \in Nat
      BY <1>5, HkAssumption
    <2> QED BY <1>1, <1>6, <2>1
  <1>9. InOrder(grown, gen[r], taken[r] + 1)
    BY <1>1, <1>3, <1>4, OneMoreInOrder
  <1>10. InOrder(Tail(grown), gen[r], taken[r] + 1) /\ Len(Tail(grown)) <= CAPACITY
    <2>1. InOrder(Tail(grown), gen[r], taken[r] + 1)
      BY <1>1, <1>5, <1>9, OneLessInOrder
    <2>2. Len(Tail(grown)) = Len(grown) - 1
      BY <1>5, HeadTailProperties
    <2>3. Len(file[r]) \in Nat
      BY <1>1
    <2> QED BY <1>1, <1>5, <2>1, <2>2, <2>3
  <1>11. InOrder(file[r], gen[r], taken[r] + 1)
    <2>1. \A i \in 1..Len(file[r]) : file[r][i] \in Records /\ file[r][i].time <= taken[r]
      BY <1>1 DEF InOrder
    <2>2. \A i \in 1..Len(file[r]) : file[r][i].time <= taken[r] + 1
      BY <1>1, <2>1 DEF Records
    <2> QED BY <1>1, <2>2 DEF InOrder
  <1>12. InOrder(file'[r], gen'[r], taken'[r]) /\ Len(file'[r]) <= CAPACITY
    BY <1>1, <1>6, <1>7, <1>8, <1>9, <1>10, <1>11
  <1>13. Stores'
    BY <1>6, <1>7, <1>12 DEF Stores
  <1>14. ASSUME NEW n \in Nat, NEW k \in Nat, NEW T, n <= taken[r], Ahead(Kept(file[r], T), n, k)
         PROVE  Ahead(Kept(file'[r], T), n, k)
    <2>1. s.time > n
      BY <1>1, <1>3, <1>14
    <2>2. Ahead(Kept(grown, T), n, k)
      BY <1>1, <1>3, <1>4, <1>14, <2>1, AheadOfMore
    <2>3. Ahead(Kept(Tail(grown), T), n, k)
      BY <1>5, <2>2, AheadOfLess
    <2> QED BY <1>8, <1>14, <2>2, <2>3
  <1>15. GoesOn(r)
    BY <1>1, <1>6, <1>7, <1>14 DEF GoesOn
  <1>16. ASSUME NEW q \in Reports, q # r PROVE GoesOn(q)
    BY <1>6, <1>7, <1>16, SameFileGoesOn
  <1> QED BY <1>13, <1>15, <1>16

\* A change of settings keeps a file or empties it.
LEMMA ChangedFile ==
    ASSUME Shapes, Stores, NEW r, NEW new, NEW result, Changes(r, new, result)
    PROVE  /\ Stores'
           /\ UNCHANGED samples \/ Discard(r) => \A q \in Reports : GoesOn(q)
  <1>1. r \in Reports /\ file = [q \in Reports |-> file[q]] /\ gen \in [Reports -> Nat]
    BY DEF Changes, Shapes
  <1>2. ASSUME UNCHANGED <<ram, gen, taken>>, file' \in {file, [file EXCEPT ![r] = <<>>]} PROVE Stores'
    <2>1. \A q \in Reports : file'[q] \in {file[q], <<>>}
      BY <1>1, <1>2
    <2> QED BY <1>2, <2>1, NothingInOrder DEF Stores
  <1>3. ASSUME Discard(r) PROVE Stores'
    <2>1. taken' = taken /\ \A q \in Reports : \/ q = r /\ file'[q] = <<>> /\ gen'[q] = gen[q] + 1
                                               \/ q # r /\ file'[q] = file[q] /\ gen'[q] = gen[q]
      BY <1>1, <1>3 DEF Discard
    <2> QED BY <2>1, NothingInOrder DEF Stores
  <1>4. ASSUME UNCHANGED samples \/ Discard(r), NEW q \in Reports PROVE GoesOn(q)
    <2>1. CASE UNCHANGED samples
      BY <2>1, SameFileGoesOn DEF samples
    <2>2. CASE Discard(r) /\ q = r
      BY <1>1, <2>2 DEF Discard, GoesOn
    <2>3. CASE Discard(r) /\ q # r
      <3>1. gen'[q] = gen[q] /\ taken'[q] = taken[q] /\ file'[q] = file[q]
        BY <1>1, <2>3 DEF Discard
      <3> QED BY <3>1, SameFileGoesOn
    <2> QED BY <1>4, <2>1, <2>2, <2>3
  <1>5. Stores'
    BY <1>2, <1>3 DEF Changes
  <1> QED BY <1>4, <1>5

\* Every step leaves the files in order.
LEMMA StoresKept ==
    ASSUME Settled, Stores, [Next]_vars
    PROVE  Stores'
  <1>1. Shapes /\ Phases /\ DefinedAsTyped
    BY DEF Settled
  <1>2. ASSUME UNCHANGED samples PROVE Stores'
    BY <1>2 DEF samples, Stores
  <1>3. TypedChange \/ RemoteChange => \E r, new, result : Changes(r, new, result)
    BY DEF TypedChange, RemoteChange
  <1>4. (\E number \in Numbers : cmd_hk_collect(number)) \/ (\E r \in Reports : Collector(r))
           => \E r \in Reports : Collect(r)
    BY DEF cmd_hk_collect, Collector, IsDefined
  <1>5. ARefusal \/ cmd_hk_save \/ AStart \/ GetNext \/ FileStep \/ ShowDefinition \/ ShowPeriod \/ ShowClass
           \/ UNCHANGED vars => UNCHANGED samples
    BY DEF ARefusal, Refused, cmd_hk_save, AStart, Start, GetNext, FileStep, ShowDefinition, ShowPeriod, ShowClass,
           In, vars
  <1> QED BY <1>1, <1>2, <1>3, <1>4, <1>5, CollectedFile, ChangedFile, StepKinds

----------------------------------------------------------------------------
(* hk stored and hk extract. *)

\* What the command asks for, and what that is of the file as it was counted.
Asked(x) == Admitted(parse_filter(x.args))
Wants(x) == Kept(x.held, Asked(x))

\* The file was there and its records were counted.
Counted(x) ==
    /\ Byte(x.number) \in Reports /\ FilterReads(x.args)
    /\ x.held \in Seq(Records) /\ Len(x.held) <= CAPACITY /\ x.wanted = Len(Wants(x))

Growing(rows) ==
    \A i \in 1..(Len(rows) - 1) : rows[i].gen = rows[i + 1].gen => rows[i + 1].time > rows[i].time

\* What a command has read of a file.
ReadSoFar(x) ==
    /\ x.args \in Seq(An_Argument) /\ x.rows \in Seq(Records) /\ x.wanted \in Nat
    /\ x.phase \in {"stored", "extract", "writing"} => x.rows = <<>>
    /\ x.index = IF x.cmd = "stored" THEN Len(x.rows) ELSE 0
    /\ x.cmd = "stored" => Len(x.rows) <= x.wanted
    /\ x.rows # <<>> \/ x.phase \in {"reading", "writing"} => Counted(x)
    /\ \A i \in 1..Len(x.rows) : x.rows[i] \in Asked(x)
    /\ Growing(x.rows)

\* As long as no file changes, it is the beginning of what was counted, and in the end all of it.
ReadAsCounted(x) ==
    ~x.moved => /\ Len(x.rows) <= x.wanted
                /\ \A i \in 1..Len(x.rows) : x.rows[i] = Wants(x)[i]
                /\ x.phase = "idle" /\ x.rows # <<>> => Len(x.rows) = x.wanted

\* A loop that reads has before it what is newer than its last row.
ReadsOn(x, r) ==
    /\ x.phase \in {"reading", "writing"} /\ ~x.moved => file[r] = x.held
    /\ x.phase = "reading" /\ x.rows # <<>> =>
          /\ x.rows[Len(x.rows)].gen <= gen[r]
          /\ x.rows[Len(x.rows)].gen = gen[r] =>
                /\ x.rows[Len(x.rows)].time <= taken[r]
                /\ Ahead(Kept(file[r], Asked(x)), x.rows[Len(x.rows)].time, Len(x.rows))

Reading ==
    sh.cmd \in {"stored", "extract"} => ReadSoFar(sh) /\ ReadAsCounted(sh) /\ ReadsOn(sh, Byte(sh.number))

\* The count, or the end when there is nothing to count.
LEMMA CountShell ==
    ASSUME Fields(sh), StoredCount \/ ExtractCount
    PROVE  /\ Fields(sh') /\ sh'.cmd = sh.cmd /\ sh'.number = sh.number /\ sh'.args = sh.args /\ sh'.index = sh.index
           /\ sh.phase \in {"stored", "extract"} /\ UNCHANGED samples
           /\ \/ /\ HasFile /\ sh'.phase = (IF sh.phase = "stored" THEN "reading" ELSE "writing")
                 /\ sh'.held = file[Byte(sh.number)] /\ sh'.wanted = Len(Selected) /\ sh'.rows = sh.rows
              \/ sh'.phase = "idle" /\ sh'.rows = <<>> /\ sh'.wanted = sh.wanted /\ sh'.held = sh.held
  <1>1. sh.phase \in {"stored", "extract"} /\ UNCHANGED samples
    BY DEF StoredCount, ExtractCount, In
  <1>2. PICK next : next = (IF sh.phase = "stored" THEN "reading" ELSE "writing")
    OBVIOUS
  <1>3. \/ HasFile /\ sh' = [sh EXCEPT !.phase = next, !.held = file[Byte(sh.number)], !.moved = FALSE,
                                       !.wanted = Len(Selected)]
        \/ sh' = [sh EXCEPT !.phase = "idle", !.rows = <<>>, !.answer = "error"]
    BY <1>2 DEF StoredCount, ExtractCount, In, Stop
  <1>4. CASE HasFile /\ sh' = [sh EXCEPT !.phase = next, !.held = file[Byte(sh.number)], !.moved = FALSE,
                                         !.wanted = Len(Selected)]
    BY <1>1, <1>2, <1>4 DEF Fields
  <1>5. CASE sh' = [sh EXCEPT !.phase = "idle", !.rows = <<>>, !.answer = "error"]
    BY <1>1, <1>5 DEF Fields
  <1> QED BY <1>3, <1>4, <1>5

\* One record more, or the end.
LEMMA NextShell ==
    ASSUME Fields(sh), StoredNext
    PROVE  /\ Fields(sh') /\ sh'.cmd = sh.cmd /\ sh'.number = sh.number /\ sh'.args = sh.args /\ sh'.held = sh.held
           /\ sh'.wanted = sh.wanted /\ sh'.moved = sh.moved
           /\ sh.phase = "reading" /\ UNCHANGED samples
           /\ \/ /\ sh.index < sh.wanted /\ sh.index < Len(Selected) /\ sh'.phase = sh.phase
                 /\ sh'.rows = Append(sh.rows, Selected[sh.index + 1]) /\ sh'.index = sh.index + 1
              \/ /\ ~(sh.index < sh.wanted /\ sh.index < Len(Selected))
                 /\ sh'.phase = "idle" /\ sh'.rows = sh.rows /\ sh'.index = sh.index
  <1>1. sh.phase = "reading" /\ UNCHANGED samples
    BY DEF StoredNext, In
  <1>2. CASE sh.index < sh.wanted /\ sh.index < Len(Selected)
    <2>1. sh' = [sh EXCEPT !.rows = Append(@, Selected[sh.index + 1]), !.index = @ + 1]
      BY <1>2 DEF StoredNext
    <2> QED BY <1>1, <1>2, <2>1 DEF Fields
  <1>3. CASE ~(sh.index < sh.wanted /\ sh.index < Len(Selected))
    <2>1. sh' = [sh EXCEPT !.phase = "idle", !.rows = sh.rows, !.answer = "done"]
      BY <1>3 DEF StoredNext, Stop
    <2> QED BY <1>1, <1>3, <2>1 DEF Fields
  <1> QED BY <1>2, <1>3

\* All of it at once, or nothing.
LEMMA WriteShell ==
    ASSUME Fields(sh), ExtractWrite
    PROVE  /\ Fields(sh') /\ sh'.cmd = sh.cmd /\ sh'.number = sh.number /\ sh'.args = sh.args /\ sh'.held = sh.held
           /\ sh'.wanted = sh.wanted /\ sh'.moved = sh.moved /\ sh'.index = sh.index
           /\ sh.phase = "writing" /\ sh'.phase = "idle" /\ UNCHANGED samples
           /\ sh'.rows = <<>> \/ (~sh.moved /\ sh'.rows = Selected)
  <1>1. sh.phase = "writing" /\ UNCHANGED samples
    BY DEF ExtractWrite, In
  <1>2. PICK rows, answer : /\ sh' = [sh EXCEPT !.phase = "idle", !.rows = rows, !.answer = answer]
                            /\ rows = <<>> \/ (~sh.moved /\ rows = Selected)
    BY DEF ExtractWrite, Stop
  <1> QED BY <1>1, <1>2 DEF Fields

\* What is selected now.
LEMMA SelectedIs == Selected = Kept(file[Byte(sh.number)], Asked(sh))
  BY DEF Selected, Selection, Asked

\* The command is as far as it was, and others acted.
LEMMA ReadWaits ==
    ASSUME Settled, Reading, sh.cmd \in {"stored", "extract"}, Fields(sh'),
           sh'.cmd = sh.cmd, sh'.phase = sh.phase, sh'.number = sh.number, sh'.args = sh.args,
           sh'.rows = sh.rows, sh'.held = sh.held, sh'.index = sh.index, sh'.wanted = sh.wanted,
           ~sh'.moved => ~sh.moved /\ file' = file,
           \A q \in Reports : GoesOn(q)
    PROVE  Reading'
  <1>1. PICK r : r = Byte(sh.number)
    OBVIOUS
  <1>2. ReadSoFar(sh) /\ ReadAsCounted(sh) /\ ReadsOn(sh, r) /\ Byte(sh'.number) = r
    BY <1>1 DEF Reading
  <1>3. Asked(sh') = Asked(sh) /\ Wants(sh') = Wants(sh) /\ (Counted(sh) => Counted(sh'))
    BY DEF Asked, Wants, Counted
  <1>4. ReadSoFar(sh')
    BY <1>2, <1>3 DEF ReadSoFar
  <1>5. ReadAsCounted(sh')
    BY <1>2, <1>3 DEF ReadAsCounted
  <1>6. ASSUME sh.phase = "reading", sh.rows # <<>>
        PROVE  /\ sh.rows[Len(sh.rows)].gen <= gen'[r]
               /\ sh.rows[Len(sh.rows)].gen = gen'[r] =>
                     /\ sh.rows[Len(sh.rows)].time <= taken'[r]
                     /\ Ahead(Kept(file'[r], Asked(sh)), sh.rows[Len(sh.rows)].time, Len(sh.rows))
    <2>1. r \in Reports /\ sh.rows \in Seq(Records)
      BY <1>1, <1>2, <1>6 DEF ReadSoFar, Counted
    <2>2. PICK k \in Nat, s \in Records : k = Len(sh.rows) /\ s = sh.rows[Len(sh.rows)]
      BY <1>6, <2>1
    <2>3. s.gen \in Nat /\ s.time \in Nat /\ gen[r] \in Nat /\ taken[r] \in Nat
      BY <2>1 DEF Records, Settled, Shapes
    <2>4. s.gen <= gen[r] /\ (s.gen = gen[r] => s.time <= taken[r] /\ Ahead(Kept(file[r], Asked(sh)), s.time, k))
      BY <1>2, <1>6, <2>2 DEF ReadsOn
    <2>5. CASE gen'[r] = gen[r] + 1
      BY <2>2, <2>3, <2>4, <2>5
    <2>6. CASE gen'[r] # gen[r] + 1
      <3>1. /\ gen'[r] = gen[r] /\ taken'[r] \in Nat /\ taken'[r] >= taken[r]
            /\ s.time <= taken[r] /\ Ahead(Kept(file[r], Asked(sh)), s.time, k) =>
                  Ahead(Kept(file'[r], Asked(sh)), s.time, k)
        BY <2>1, <2>2, <2>3, <2>6 DEF GoesOn
      <3> QED BY <2>2, <2>3, <2>4, <3>1
    <2> QED BY <2>5, <2>6
  <1>7. ReadsOn(sh, r)'
    BY <1>2, <1>3, <1>6 DEF ReadsOn
  <1> QED BY <1>2, <1>4, <1>5, <1>7 DEF Reading

\* The command begins.
LEMMA ReadStarts ==
    ASSUME NEW cmd, NEW number, NEW args \in Filters, NEW wanted \in Nat, Start(cmd, number, wanted, args)
    PROVE  Reading'
  <1>1. /\ sh'.cmd = cmd /\ sh'.phase = cmd /\ sh'.rows = <<>> /\ sh'.index = 0 /\ sh'.args = args /\ sh'.wanted = wanted
    BY StartShell
  <1>2. args \in Seq(An_Argument) /\ <<>> \in Seq(Records) /\ Len(<<>>) = 0
    BY HkAssumption DEF An_Argument
  <1> SUFFICES ASSUME cmd \in {"stored", "extract"} PROVE Reading'
    BY <1>1 DEF Reading
  <1>3. ReadSoFar(sh')
    BY <1>1, <1>2 DEF ReadSoFar, Growing
  <1>4. ReadAsCounted(sh')
    BY <1>1, <1>2 DEF ReadAsCounted
  <1>5. ReadsOn(sh, Byte(sh.number))'
    BY <1>1 DEF ReadsOn
  <1> QED BY <1>3, <1>4, <1>5 DEF Reading

\* The records are counted.
LEMMA ReadCounts ==
    ASSUME Settled, Stores, Reading, sh.cmd \in {"stored", "extract"}, StoredCount \/ ExtractCount
    PROVE  Reading'
  <1>1. PICK r : r = Byte(sh.number)
    OBVIOUS
  <1>2. /\ sh'.cmd = sh.cmd /\ Byte(sh'.number) = r /\ sh'.args = sh.args /\ sh'.index = sh.index
        /\ sh.phase \in {"stored", "extract"} /\ UNCHANGED samples
        /\ \/ /\ HasFile /\ sh'.phase = (IF sh.phase = "stored" THEN "reading" ELSE "writing")
              /\ sh'.held = file[r] /\ sh'.wanted = Len(Selected) /\ sh'.rows = sh.rows
           \/ sh'.phase = "idle" /\ sh'.rows = <<>> /\ sh'.wanted = sh.wanted /\ sh'.held = sh.held
    BY <1>1, CountShell DEF Settled, Shapes
  <1>3. sh.rows = <<>> /\ sh'.rows = <<>> /\ sh.args \in Seq(An_Argument) /\ sh.wanted \in Nat /\ sh'.index = 0
    BY <1>2 DEF Reading, ReadSoFar
  <1>4. <<>> \in Seq(Records) /\ Len(<<>>) = 0
    OBVIOUS
  <1>5. CASE sh'.phase = "idle"
    <2>1. sh'.wanted = sh.wanted
      BY <1>2, <1>5
    <2>2. ReadSoFar(sh')
      BY <1>2, <1>3, <1>4, <1>5, <2>1 DEF ReadSoFar, Growing
    <2>3. ReadAsCounted(sh') /\ ReadsOn(sh, r)'
      BY <1>3, <1>4, <1>5, <2>1 DEF ReadAsCounted, ReadsOn
    <2> QED BY <1>2, <2>2, <2>3 DEF Reading
  <1>6. CASE sh'.phase # "idle"
    <2>1. HasFile /\ sh'.phase \in {"reading", "writing"} /\ sh'.held = file[r] /\ sh'.wanted = Len(Selected)
      BY <1>2, <1>6
    <2>2. r \in Reports /\ FilterReads(sh'.args)
      BY <1>1, <1>2, <2>1 DEF HasFile
    <2>3. file[r] \in Seq(Records) /\ Len(file[r]) <= CAPACITY
      BY <2>2 DEF Stores, InOrder
    <2>4. sh'.wanted = Len(Wants(sh'))
      BY <1>1, <1>2, <2>1, SelectedIs DEF Wants, Asked
    <2>5. Counted(sh')
      BY <1>2, <2>1, <2>2, <2>3, <2>4 DEF Counted
    <2>6. sh'.wanted \in Nat
      <3>1. Wants(sh') \in Seq(Records)
        BY <2>1, <2>3, KeptPart DEF Wants
      <3> QED BY <2>4, <3>1
    <2>7. ReadSoFar(sh')
      BY <1>2, <1>3, <1>4, <2>5, <2>6 DEF ReadSoFar, Growing
    <2>8. ReadAsCounted(sh')
      BY <1>3, <1>4, <2>6 DEF ReadAsCounted
    <2>9. ReadsOn(sh, r)'
      BY <1>2, <1>3, <2>1 DEF ReadsOn, samples
    <2> QED BY <1>2, <2>7, <2>8, <2>9 DEF Reading
  <1> QED BY <1>5, <1>6

\* One record more: it is newer than the last row, because it is ahead of it.
LEMMA ReadGoesOn ==
    ASSUME Settled, Stores, Reading, StoredNext
    PROVE  Reading'
  <1>1. PICK r : r = Byte(sh.number)
    OBVIOUS
  <1>2. PICK sel : sel = Kept(file[r], Asked(sh))
    OBVIOUS
  <1>3. /\ sh'.cmd = sh.cmd /\ Byte(sh'.number) = r /\ sh'.args = sh.args /\ sh'.held = sh.held
        /\ sh'.wanted = sh.wanted /\ sh'.moved = sh.moved /\ sh.phase = "reading" /\ UNCHANGED samples
        /\ \/ /\ sh.index < sh.wanted /\ sh.index < Len(sel) /\ sh'.phase = sh.phase
              /\ sh'.rows = Append(sh.rows, sel[sh.index + 1]) /\ sh'.index = sh.index + 1
           \/ /\ ~(sh.index < sh.wanted /\ sh.index < Len(sel))
              /\ sh'.phase = "idle" /\ sh'.rows = sh.rows /\ sh'.index = sh.index
    BY <1>1, <1>2, NextShell, SelectedIs DEF Settled, Shapes
  <1>4. sh.cmd = "stored"
    BY <1>3 DEF Settled, Phases
  <1>5. ReadSoFar(sh) /\ ReadAsCounted(sh) /\ ReadsOn(sh, r)
    BY <1>1, <1>4 DEF Reading
  <1>6. /\ r \in Reports /\ Counted(sh) /\ sh.args \in Seq(An_Argument) /\ sh.rows \in Seq(Records)
        /\ sh.wanted \in Nat /\ sh.index = Len(sh.rows) /\ sh.index <= sh.wanted
    BY <1>1, <1>3, <1>4, <1>5 DEF ReadSoFar, Counted
  <1>7. PICK k \in Nat : k = sh.index /\ k = Len(sh.rows)
    BY <1>6
  <1>8. Asked(sh') = Asked(sh) /\ Wants(sh') = Wants(sh) /\ Counted(sh')
    BY <1>3, <1>6 DEF Asked, Wants, Counted
  <1>9. gen[r] \in Nat /\ taken[r] \in Nat /\ InOrder(file[r], gen[r], taken[r])
    BY <1>6 DEF Settled, Shapes, Stores
  <1>10. InOrder(sel, gen[r], taken[r]) /\ \A i \in 1..Len(sel) : sel[i] \in Asked(sh)
    BY <1>2, <1>9, KeptInOrder
  <1>11. ~sh.moved => sel = Wants(sh) /\ Len(sel) = sh.wanted
    BY <1>2, <1>3, <1>5, <1>6 DEF ReadsOn, Wants, Counted
  <1>12. CASE sh.index < sh.wanted /\ sh.index < Len(sel)
    <2>1. sh'.phase = "reading" /\ sh'.index = k + 1 /\ k < sh.wanted
          /\ sh'.rows = Append(sh.rows, sel[k + 1])
      BY <1>3, <1>7, <1>12
    <2>2. sel \in Seq(Records) /\ Len(sel) \in Nat /\ k + 1 \in 1..Len(sel)
      BY <1>7, <1>10, <1>12 DEF InOrder
    <2>3. PICK s : s = sel[k + 1]
      OBVIOUS
    <2>4. s \in Records /\ s \in Asked(sh) /\ s.gen = gen[r] /\ s.time <= taken[r] /\ s.time \in Nat
      <3>1. s \in Records
        BY <2>2, <2>3
      <3>2. s \in Asked(sh) /\ s.gen = gen[r] /\ s.time <= taken[r]
        BY <1>10, <2>2, <2>3 DEF InOrder
      <3>3. s.time \in Nat
        BY <3>1 DEF Records
      <3> QED BY <3>1, <3>2, <3>3
    <2>5. PICK new : new = sh'.rows
      OBVIOUS
    <2>6. /\ new \in Seq(Records) /\ Len(new) = k + 1 /\ new[k + 1] = s /\ new # <<>>
          /\ \A i \in 1..k : new[i] = sh.rows[i]
      BY <1>6, <1>7, <2>1, <2>3, <2>4, <2>5
    <2>7. ASSUME NEW i \in 1..(k + 1) PROVE new[i] \in Asked(sh)
      <3>1. CASE i = k + 1
        BY <2>4, <2>6, <3>1
      <3>2. CASE i # k + 1
        <4>1. i \in 1..k /\ new[i] = sh.rows[i]
          BY <2>6, <3>2
        <4> QED BY <1>5, <1>7, <4>1 DEF ReadSoFar
      <3> QED BY <3>1, <3>2
    <2>8. ASSUME NEW i \in 1..k, new[i].gen = new[i + 1].gen PROVE new[i + 1].time > new[i].time
      <3>1. CASE i = k
        <4>1. new[k] = sh.rows[k] /\ new[k + 1] = s /\ sh.rows[Len(sh.rows)] = new[k] /\ sh.rows # <<>>
          BY <1>6, <1>7, <2>6, <3>1
        <4>2. Ahead(sel, new[k].time, k)
          BY <1>2, <1>3, <1>5, <1>7, <2>4, <2>8, <3>1, <4>1 DEF ReadsOn
        <4>3. k + 1 \in (k + 1)..Len(sel)
          BY <2>2
        <4> QED BY <2>3, <3>1, <4>1, <4>2, <4>3 DEF Ahead
      <3>2. CASE i # k
        <4>1. i \in 1..(k - 1) /\ new[i] = sh.rows[i] /\ new[i + 1] = sh.rows[i + 1]
          BY <2>6, <3>2
        <4>2. Growing(sh.rows)
          BY <1>5 DEF ReadSoFar
        <4> QED BY <1>7, <2>8, <4>1, <4>2 DEF Growing
      <3> QED BY <3>1, <3>2
    <2>9. Growing(new)
      <3>1. Len(new) - 1 = k
        BY <2>6
      <3> QED BY <2>8, <3>1 DEF Growing
    <2>10. ReadSoFar(sh')
      BY <1>3, <1>4, <1>6, <1>8, <2>1, <2>5, <2>6, <2>7, <2>9 DEF ReadSoFar
    <2>11. ASSUME ~sh'.moved, NEW i \in 1..(k + 1) PROVE new[i] = Wants(sh)[i]
      <3>1. ~sh.moved
        BY <1>3, <2>11
      <3>2. CASE i = k + 1
        BY <1>11, <2>3, <2>6, <3>1, <3>2
      <3>3. CASE i # k + 1
        <4>1. i \in 1..k /\ new[i] = sh.rows[i]
          BY <2>6, <3>3
        <4> QED BY <1>5, <1>7, <3>1, <4>1 DEF ReadAsCounted
      <3> QED BY <3>2, <3>3
    <2>12. ReadAsCounted(sh')
      BY <1>3, <1>6, <1>8, <2>1, <2>5, <2>6, <2>11 DEF ReadAsCounted
    <2>13. Ahead(sel, s.time, k + 1)
      <3>1. ASSUME NEW j \in (k + 1 + 1)..Len(sel) PROVE sel[j].time > s.time
        <4>1. k + 1 \in 1..Len(sel) /\ j \in 1..Len(sel) /\ k + 1 < j
          BY <2>2
        <4>2. sel[k + 1].time < sel[j].time /\ sel[j] \in Records
          BY <1>10, <2>2, <4>1 DEF InOrder
        <4> QED BY <2>3, <2>4, <4>2 DEF Records
      <3> QED BY <3>1 DEF Ahead
    <2>14. ReadsOn(sh, r)'
      <3>1. file' = file /\ gen' = gen /\ taken' = taken
        BY <1>3 DEF samples
      <3>2. ~sh'.moved => file'[r] = sh'.held
        BY <1>3, <1>5, <3>1 DEF ReadsOn
      <3>3. sh'.rows[Len(sh'.rows)] = s /\ Len(sh'.rows) = k + 1
        BY <2>5, <2>6
      <3>4. Ahead(Kept(file'[r], Asked(sh')), s.time, k + 1)
        BY <1>2, <1>8, <2>13, <3>1
      <3>5. s.gen <= gen'[r] /\ s.time <= taken'[r]
        BY <1>9, <2>4, <3>1
      <3> QED BY <2>1, <3>2, <3>3, <3>4, <3>5 DEF ReadsOn
    <2> QED BY <1>3, <2>10, <2>12, <2>14 DEF Reading
  <1>13. CASE ~(sh.index < sh.wanted /\ sh.index < Len(sel))
    <2>1. sh'.phase = "idle" /\ sh'.rows = sh.rows /\ sh'.index = sh.index
      BY <1>3, <1>13
    <2>2. ReadSoFar(sh')
      BY <1>3, <1>5, <1>8, <2>1 DEF ReadSoFar
    <2>3. ~sh.moved => Len(sh.rows) = sh.wanted
      BY <1>6, <1>7, <1>11, <1>13
    <2>4. ReadAsCounted(sh')
      BY <1>3, <1>5, <1>8, <2>1, <2>3 DEF ReadAsCounted
    <2>5. ReadsOn(sh, r)'
      BY <2>1 DEF ReadsOn
    <2> QED BY <1>3, <2>2, <2>4, <2>5 DEF Reading
  <1> QED BY <1>12, <1>13

\* The service writes what it counted, since nothing changed in between.
LEMMA ReadWrites ==
    ASSUME Settled, Stores, Reading, ExtractWrite
    PROVE  Reading'
  <1>1. PICK r : r = Byte(sh.number)
    OBVIOUS
  <1>2. /\ sh'.cmd = sh.cmd /\ Byte(sh'.number) = r /\ sh'.args = sh.args /\ sh'.held = sh.held
        /\ sh'.wanted = sh.wanted /\ sh'.moved = sh.moved /\ sh'.index = sh.index
        /\ sh.phase = "writing" /\ sh'.phase = "idle"
        /\ sh'.rows = <<>> \/ (~sh.moved /\ sh'.rows = Kept(file[r], Asked(sh)))
    BY <1>1, WriteShell, SelectedIs DEF Settled, Shapes
  <1>3. sh.cmd = "extract"
    BY <1>2 DEF Settled, Phases
  <1>4. ReadSoFar(sh) /\ ReadAsCounted(sh) /\ ReadsOn(sh, r)
    BY <1>1, <1>3 DEF Reading
  <1>5. r \in Reports /\ Counted(sh) /\ sh.args \in Seq(An_Argument) /\ sh.wanted \in Nat /\ sh.index = 0
    BY <1>1, <1>2, <1>3, <1>4 DEF ReadSoFar, Counted
  <1>6. Asked(sh') = Asked(sh) /\ Wants(sh') = Wants(sh) /\ Counted(sh')
    BY <1>2, <1>5 DEF Asked, Wants, Counted
  <1>7. ReadsOn(sh, r)'
    BY <1>2 DEF ReadsOn
  <1>8. <<>> \in Seq(Records) /\ Len(<<>>) = 0
    OBVIOUS
  <1>9. CASE sh'.rows = <<>>
    <2>1. ReadSoFar(sh')
      BY <1>2, <1>3, <1>5, <1>8, <1>9 DEF ReadSoFar, Growing
    <2>2. ReadAsCounted(sh')
      BY <1>2, <1>5, <1>8, <1>9 DEF ReadAsCounted
    <2> QED BY <1>2, <1>7, <2>1, <2>2 DEF Reading
  <1>10. CASE sh'.rows # <<>>
    <2>1. PICK rows : rows = sh'.rows
      OBVIOUS
    <2>2. ~sh.moved /\ rows = Wants(sh) /\ rows = Kept(file[r], Asked(sh)) /\ Len(rows) = sh.wanted
      BY <1>2, <1>4, <1>5, <1>10, <2>1 DEF ReadsOn, Wants, Counted
    <2>3. gen[r] \in Nat /\ taken[r] \in Nat /\ InOrder(file[r], gen[r], taken[r])
      BY <1>5 DEF Settled, Shapes, Stores
    <2>4. InOrder(rows, gen[r], taken[r]) /\ \A i \in 1..Len(rows) : rows[i] \in Asked(sh)
      BY <2>2, <2>3, KeptInOrder
    <2>5. rows \in Seq(Records) /\ \A i \in 1..Len(rows) : rows[i].time \in Nat
      <3>1. rows \in Seq(Records)
        BY <2>4 DEF InOrder
      <3>2. \A i \in 1..Len(rows) : rows[i] \in Records
        BY <3>1
      <3> QED BY <3>1, <3>2 DEF Records
    <2>6. Growing(rows)
      <3>1. ASSUME NEW i \in 1..(Len(rows) - 1) PROVE rows[i + 1].time > rows[i].time
        <4>1. i \in 1..Len(rows) /\ i + 1 \in 1..Len(rows) /\ i < i + 1
          BY <2>5
        <4>2. rows[i].time < rows[i + 1].time
          BY <2>4, <4>1 DEF InOrder
        <4> QED BY <2>5, <4>1, <4>2
      <3> QED BY <3>1 DEF Growing
    <2>7. ReadSoFar(sh')
      BY <1>2, <1>3, <1>5, <1>6, <2>1, <2>4, <2>5, <2>6 DEF ReadSoFar
    <2>8. ReadAsCounted(sh')
      BY <1>2, <1>5, <1>6, <2>1, <2>2 DEF ReadAsCounted
    <2> QED BY <1>2, <1>7, <2>7, <2>8 DEF Reading
  <1> QED BY <1>9, <1>10

\* Every step keeps what was read a selection in order.
LEMMA ReadingNext == Settled /\ Stores /\ Reading /\ [Next]_vars => Reading'
  <1> SUFFICES ASSUME Settled, Stores, Reading, [Next]_vars PROVE Reading'
    OBVIOUS
  <1>1. Shapes /\ Phases /\ DefinedAsTyped /\ Fields(sh)
    BY DEF Settled, Shapes
  <1>2. ASSUME NEW cmd, NEW number, NEW line, NEW answer, Type(cmd, number, line, answer),
               cmd \notin {"stored", "extract"}
        PROVE  Reading'
    BY <1>2, TypeShell DEF Reading
  <1>3. CASE TypedChange
    BY <1>2, <1>3 DEF TypedChange, Named
  <1>4. ASSUME Moves, \A q \in Reports : GoesOn(q) PROVE Reading'
    <2>1. /\ Fields(sh') /\ sh'.cmd = sh.cmd /\ sh'.phase = sh.phase /\ sh'.number = sh.number
          /\ sh'.args = sh.args /\ sh'.rows = sh.rows /\ sh'.held = sh.held
          /\ sh'.index = sh.index /\ sh'.wanted = sh.wanted /\ (~sh'.moved => ~sh.moved /\ file' = file)
      BY <1>1, <1>4, MovesShell
    <2>2. sh.cmd \in {"stored", "extract"} => Reading'
      BY <1>4, <2>1, ReadWaits
    <2> QED BY <2>1, <2>2 DEF Reading
  <1>5. CASE RemoteChange
    <2>1. PICK r, new, result : Changes(r, new, result) /\ (UNCHANGED samples \/ Discard(r))
      BY <1>5 DEF RemoteChange
    <2>2. \A q \in Reports : GoesOn(q)
      BY <1>1, <2>1, ChangedFile
    <2> QED BY <1>4, <1>5, <2>2 DEF RemoteChange
  <1>6. ASSUME NEW r \in Reports, Collector(r) PROVE Reading'
    <2>1. Collect(r) /\ Moves
      BY <1>6 DEF Collector
    <2>2. \A q \in Reports : GoesOn(q)
      BY <1>1, <2>1, CollectedFile
    <2> QED BY <1>4, <2>1, <2>2
  <1>7. CASE ARefusal
    BY <1>2, <1>7 DEF ARefusal, Refused
  <1>8. CASE cmd_hk_save
    BY <1>2, <1>8 DEF cmd_hk_save
  <1>9. ASSUME NEW number \in Numbers, cmd_hk_collect(number) PROVE Reading'
    BY <1>2, <1>9 DEF cmd_hk_collect
  <1>10. CASE AStart
    <2>1. PICK cmd, number, wanted, args :
             /\ Start(cmd, number, wanted, args) /\ wanted \in Nat
             /\ cmd \in {"stored", "extract"} => args \in Filters
      BY <1>10 DEF AStart
    <2>2. cmd \in {"stored", "extract"} => Reading'
      BY <2>1, ReadStarts
    <2>3. cmd \notin {"stored", "extract"} => Reading'
      BY <2>1, StartShell DEF Reading
    <2> QED BY <2>2, <2>3
  <1>11. CASE FileStep
    BY <1>11, ReadCounts, ReadGoesOn, ReadWrites DEF FileStep
  <1>12. ASSUME GetNext \/ ShowDefinition \/ ShowPeriod \/ ShowClass PROVE Reading'
    <2>1. sh'.cmd = sh.cmd /\ sh.phase \in {"get", "show", "period", "class"}
      BY <1>1, <1>12, GetShell, DefinitionShell, RowShell
    <2> QED BY <1>1, <2>1 DEF Phases, Reading
  <1>13. CASE UNCHANGED vars
    BY <1>13 DEF vars, samples, Reading, ReadsOn
  <1> QED BY <1>1, <1>3, <1>5, <1>6, <1>7, <1>8, <1>9, <1>10, <1>11, <1>12, <1>13, StepKinds

\* What the last argument of a name says is what the filter asks.
LEMMA TypedCounts ==
    ASSUME sh.args \in Seq(An_Argument), FilterReads(sh.args), NEW name, NEW v \in Typed(name)
    PROVE  parse_filter(sh.args)[name] = v
  <1>1. PICK j \in DOMAIN sh.args : /\ v = Cut(name, sh.args[j].value) /\ sh.args[j].name = name
                                    /\ \A k \in (j + 1)..Len(sh.args) : sh.args[k].name # name
    BY DEF Typed
  <1>2. j \in 1..Len(sh.args)
    OBVIOUS
  <1> QED BY <1>1, <1>2, LastArgumentCounts

\* A record that the filter admits is one that the arguments admit.
LEMMA AskedAsTyped ==
    ASSUME sh.args \in Seq(An_Argument), FilterReads(sh.args), NEW s \in Asked(sh)
    PROVE  \A name \in FilterNames : \A v \in Typed(name) : Admits(name, v, s)
  <1>1. \A name \in FilterNames : Admits(name, parse_filter(sh.args)[name], s)
    BY DEF Asked, Admitted
  <1> QED BY <1>1, TypedCounts

\* What hk stored and hk extract hand out is admitted by the last argument of each
\* name, cut to its width, and in the order it was stored, and as long as the file stays as it was
\* counted it is the selection from its oldest record on, at the end all of it
\* (cmd_hk_stored(), cmd_hk_extract() and parse_filter()).
THEOREM StoredReadsSelection == Spec => []StoredIsSelection
  <1>1. Init => Stores /\ Reading
    <2> SUFFICES ASSUME Init PROVE Stores /\ Reading
      OBVIOUS
    <2>1. sh.cmd = "none" /\ \A r \in Reports : file[r] = <<>>
      BY DEF Init, Idle
    <2> QED BY <2>1, NothingInOrder DEF Stores, Reading
  <1>2. Reading => StoredIsSelection
    <2> SUFFICES ASSUME Reading, sh.cmd \in {"stored", "extract"}, sh.rows # <<>> PROVE StoredIsSelection
      BY DEF StoredIsSelection
    <2>1. ReadSoFar(sh) /\ ReadAsCounted(sh)
      BY DEF Reading
    <2>2. PICK rows : rows = sh.rows
      OBVIOUS
    <2>3. /\ rows \in Seq(Records) /\ sh.args \in Seq(An_Argument) /\ FilterReads(sh.args) /\ Growing(rows)
          /\ sh.held \in Seq(Records) /\ sh.wanted = Len(Wants(sh)) /\ \A i \in 1..Len(rows) : rows[i] \in Asked(sh)
      BY <2>1, <2>2 DEF ReadSoFar, Counted
    <2>4. DOMAIN rows = 1..Len(rows)
      BY <2>3
    <2>5. \A i \in DOMAIN rows, name \in FilterNames : \A v \in Typed(name) : Admits(name, v, rows[i])
      BY <2>3, <2>4, AskedAsTyped
    <2>6. \A i \in Adjacent(rows) : rows[i + 1].time > rows[i].time
      BY <2>3 DEF Adjacent, Growing
    <2>7. ASSUME ~sh.moved PROVE IsPrefix(rows, Wants(sh))
      <3>1. PICK t : t = Wants(sh) /\ t \in Seq(Records)
        BY <2>3, KeptPart DEF Wants
      <3>2. Len(rows) <= Len(t) /\ \A i \in 1..Len(rows) : rows[i] = t[i]
        BY <2>1, <2>2, <2>3, <2>7, <3>1 DEF ReadAsCounted
      <3>3. PICK n \in Nat : n = Len(rows)
        BY <2>3
      <3>4. SubSeq(rows, 1, n) = rows /\ SubSeq(t, 1, n) = [i \in 1..n |-> t[i]]
        BY <2>3, <3>1, <3>2, <3>3
      <3>5. rows = [i \in 1..n |-> rows[i]]
        BY <2>3, <3>3
      <3>6. rows = SubSeq(t, 1, n)
        BY <3>2, <3>3, <3>4, <3>5
      <3> QED BY <3>1, <3>2, <3>3, <3>4, <3>6 DEF IsPrefix
    <2>8. Wants(sh) = Selection(parse_filter(sh.args), sh.held)
      BY DEF Wants, Asked, Selection
    <2>9. ~sh.moved /\ sh.phase = "idle" => Len(rows) = sh.wanted
      BY <2>1, <2>2 DEF ReadAsCounted
    <2> QED BY <2>2, <2>5, <2>6, <2>7, <2>8, <2>9 DEF StoredIsSelection
  <1> QED BY <1>1, <1>2, AlwaysSettled, StoresKept, ReadingNext, PTL DEF Spec

----------------------------------------------------------------------------
(* Type correctness. *)

\* Settings in their ranges and no more samples than there is room for.
Limits == \A r \in Reports : InRange(rep[r]) /\ Len(ram[r]) <= DEPTH /\ taken[r] <= MaxSamples

\* A command that loops over nothing has no index, and hk get goes no further than was
\* asked for and than there are samples.
IndexFits ==
    /\ sh.cmd = "get" => sh.wanted \in Nat /\ sh.index <= sh.wanted /\ sh.index <= DEPTH
    /\ sh.cmd \notin {"get", "stored", "extract", "show"} => sh.index = 0

Bounds == ops <= MaxOps /\ remote \in Nat /\ remote <= MaxRemote

LEMMA LimitsKept ==
    ASSUME Settled, Limits, [Next]_vars
    PROVE  Limits'
  <1>1. Shapes /\ Phases /\ DefinedAsTyped
    BY DEF Settled
  <1>2. ASSUME UNCHANGED <<rep, samples>> PROVE Limits'
    BY <1>2 DEF samples, Limits
  <1>3. ASSUME NEW r, NEW new, NEW result, Changes(r, new, result) PROVE Limits'
    <2>1. r \in Reports /\ rep'[r] = new /\ \A q \in Reports : q # r => rep'[q] = rep[q]
      <3>1. r \in Reports /\ rep' = [rep EXCEPT ![r] = new]
        BY <1>3 DEF Changes, Apply
      <3> QED BY <1>1, <3>1 DEF Shapes
    <2>2. InRange(new)
      BY <1>3, <2>1 DEF Changes, Limits
    <2>3. UNCHANGED taken /\ \A q \in Reports : ram'[q] \in {ram[q], <<>>}
      BY <1>1, <1>3, Discarded
    <2>4. Len(<<>>) <= DEPTH
      BY HkAssumption
    <2> QED BY <2>1, <2>2, <2>3, <2>4 DEF Limits
  <1>4. ASSUME NEW r \in Reports, Collect(r) PROVE Limits'
    <2>1. /\ taken'[r] = taken[r] + 1 /\ Len(ram'[r]) <= DEPTH /\ rep' = rep
          /\ \A q \in Reports : q # r => ram'[q] = ram[q] /\ taken'[q] = taken[q]
      BY <1>1, <1>4, Collected DEF settings
    <2>2. taken[r] < MaxSamples /\ taken[r] \in Nat /\ MaxSamples \in Nat
      BY <1>1, <1>4, HkAssumption DEF Collect, Shapes
    <2>3. taken'[r] <= MaxSamples
      BY <2>1, <2>2
    <2> QED BY <2>1, <2>3 DEF Limits
  <1>5. TypedChange \/ RemoteChange => \E r, new, result : Changes(r, new, result)
    BY DEF TypedChange, RemoteChange
  <1>6. (\E number \in Numbers : cmd_hk_collect(number)) \/ (\E r \in Reports : Collector(r))
           => \E r \in Reports : Collect(r)
    BY DEF cmd_hk_collect, Collector, IsDefined
  <1>7. ARefusal \/ cmd_hk_save \/ AStart \/ GetNext \/ FileStep \/ ShowDefinition \/ ShowPeriod \/ ShowClass
           \/ UNCHANGED vars => UNCHANGED <<rep, samples>>
    BY DEF ARefusal, Refused, cmd_hk_save, AStart, Start, GetNext, FileStep, ShowDefinition, ShowPeriod, ShowClass,
           In, vars, settings
  <1> QED BY <1>1, <1>2, <1>3, <1>4, <1>5, <1>6, <1>7, StepKinds

LEMMA BoundsKept ==
    ASSUME Settled, Bounds, [Next]_vars
    PROVE  Bounds'
  <1>1. Shapes /\ Phases /\ DefinedAsTyped /\ ops \in Nat /\ MaxOps \in Nat /\ MaxRemote \in Nat
    BY HkAssumption DEF Settled, Shapes
  <1>2. ASSUME NEW cmd, NEW number, NEW line, NEW answer,
               Type(cmd, number, line, answer) \/ Start(cmd, number, line, answer)
        PROVE  Bounds'
    <2>1. ops < MaxOps /\ ops' = ops + 1 /\ remote' = remote
      BY <1>2 DEF Type, Start
    <2> QED BY <1>1, <2>1 DEF Bounds
  <1>3. ASSUME Arrives PROVE Bounds'
    <2>1. remote < MaxRemote /\ remote' = remote + 1 /\ ops' = ops
      BY <1>3 DEF Arrives
    <2> QED BY <1>1, <2>1 DEF Bounds
  <1>4. ASSUME UNCHANGED <<ops, remote>> PROVE Bounds'
    BY <1>4 DEF Bounds
  <1>5. TypedChange \/ ARefusal \/ cmd_hk_save \/ AStart \/ (\E number \in Numbers : cmd_hk_collect(number)) =>
           \E cmd, number, line, answer : Type(cmd, number, line, answer) \/ Start(cmd, number, line, answer)
    BY DEF TypedChange, ARefusal, Refused, cmd_hk_save, AStart, cmd_hk_collect
  <1>6. RemoteChange => Arrives
    BY DEF RemoteChange
  <1>7. GetNext \/ FileStep \/ ShowDefinition \/ ShowPeriod \/ ShowClass \/ (\E r \in Reports : Collector(r))
           \/ UNCHANGED vars => UNCHANGED <<ops, remote>>
    BY DEF GetNext, FileStep, ShowDefinition, ShowPeriod, ShowClass, In, Collector, vars
  <1> QED BY <1>1, <1>2, <1>3, <1>4, <1>5, <1>6, <1>7, StepKinds

LEMMA IndexFitsNext ==
    ASSUME Settled, Limits, Getting, IndexFits, [Next]_vars
    PROVE  IndexFits'
  <1>1. Shapes /\ Phases /\ DefinedAsTyped /\ Fields(sh) /\ DEPTH \in Nat
    BY HkAssumption DEF Settled, Shapes
  <1>2. ASSUME NEW cmd, NEW number, NEW line, NEW answer, Type(cmd, number, line, answer), cmd # "get"
        PROVE  IndexFits'
    BY <1>2, TypeShell DEF IndexFits
  <1>3. CASE TypedChange
    BY <1>2, <1>3 DEF TypedChange, Named
  <1>4. ASSUME Moves PROVE IndexFits'
    BY <1>1, <1>4, MovesShell DEF IndexFits
  <1>5. RemoteChange \/ (\E r \in Reports : Collector(r)) => Moves
    BY DEF RemoteChange, Collector
  <1>6. CASE ARefusal
    BY <1>2, <1>6 DEF ARefusal, Refused
  <1>7. CASE cmd_hk_save
    BY <1>2, <1>7 DEF cmd_hk_save
  <1>8. ASSUME NEW number \in Numbers, cmd_hk_collect(number) PROVE IndexFits'
    BY <1>2, <1>8 DEF cmd_hk_collect
  <1>9. CASE AStart
    <2>1. PICK cmd, number, wanted, args : Start(cmd, number, wanted, args) /\ wanted \in Nat
      BY <1>9 DEF AStart
    <2>2. sh'.index = 0 /\ sh'.wanted = wanted
      BY <2>1, StartShell
    <2> QED BY <1>1, <2>1, <2>2 DEF IndexFits
  <1>10. CASE GetNext
    <2>1. PICK r : r = Byte(sh.number)
      OBVIOUS
    <2>2. /\ sh'.cmd = sh.cmd /\ sh'.wanted = sh.wanted /\ sh.phase = "get"
          /\ \/ sh'.index = sh.index
             \/ /\ r \in Reports /\ sh.index < Len(ram[r]) /\ sh.index < sh.wanted
                /\ sh'.index = sh.index + 1
      BY <1>1, <1>10, <2>1, GetShell
    <2>3. sh.cmd = "get" /\ sh.index \in Nat /\ sh.wanted \in Nat
      BY <1>1, <2>2 DEF Phases, Getting, GetAt, IndexFits
    <2>4. CASE sh'.index = sh.index
      BY <2>2, <2>3, <2>4 DEF IndexFits
    <2>5. CASE sh'.index # sh.index
      <3>1. r \in Reports /\ sh.index < Len(ram[r]) /\ sh.index < sh.wanted /\ sh'.index = sh.index + 1
        BY <2>2, <2>5
      <3>2. ram[r] \in Seq(Records) /\ Len(ram[r]) <= DEPTH
        BY <1>1, <3>1 DEF Shapes, Limits
      <3>3. Len(ram[r]) \in Nat
        BY <3>2
      <3> QED BY <1>1, <2>2, <2>3, <3>1, <3>2, <3>3 DEF IndexFits
    <2> QED BY <2>4, <2>5
  <1>11. ASSUME FileStep \/ ShowDefinition \/ ShowPeriod \/ ShowClass PROVE IndexFits'
    <2>1. sh'.cmd = sh.cmd /\ (sh.cmd \in {"stored", "extract"} \/ sh.phase \in {"show", "period", "class"})
      BY <1>1, <1>11, DefinitionShell, RowShell DEF FileStep
    <2> QED BY <1>1, <2>1 DEF Phases, IndexFits
  <1>12. CASE UNCHANGED vars
    BY <1>12 DEF vars, IndexFits
  <1> QED BY <1>1, <1>3, <1>4, <1>5, <1>6, <1>7, <1>8, <1>9, <1>10, <1>11, <1>12, StepKinds

\* Type correctness: settings in their ranges, samples in their bounds, and no
\* command that hands out more than was asked for or counted (shell_hk.c).
THEOREM TypeCorrect == Spec => []TypeOK
  <1>1. Init => Ring /\ Getting /\ Showing /\ Stores /\ Reading /\ Limits /\ IndexFits /\ Bounds
    <2> SUFFICES ASSUME Init PROVE Ring /\ Getting /\ Showing /\ Stores /\ Reading /\ Limits /\ IndexFits /\ Bounds
      OBVIOUS
    <2>1. /\ sh.cmd = "none" /\ sh.index = 0 /\ ops = 0 /\ remote = 0
          /\ \A r \in Reports : rep[r] = Restored(r) /\ file[r] = <<>> /\ ram[r] = <<>> /\ taken[r] = 0
      BY DEF Init, Idle
    <2>2. Len(<<>>) = 0 /\ 1..Len(<<>>) = {} /\ DEPTH \in Nat /\ MaxSamples \in Nat /\ MaxOps \in Nat /\ MaxRemote \in Nat
      BY HkAssumption
    <2>3. Ring /\ Getting /\ Showing /\ Reading /\ IndexFits
      BY <2>1, <2>2 DEF Ring, Getting, Showing, Reading, IndexFits
    <2>4. Stores
      BY <2>1, NothingInOrder DEF Stores
    <2>5. Limits /\ Bounds
      BY <2>1, <2>2, RestoredFits DEF Limits, Bounds
    <2> QED BY <2>3, <2>4, <2>5
  <1>2. Settled /\ Ring /\ Getting /\ Showing /\ Stores /\ Reading /\ Limits /\ IndexFits /\ Bounds => TypeOK
    <2> SUFFICES ASSUME Settled, Getting, Showing, Stores, Reading, Limits, IndexFits, Bounds PROVE TypeOK
      OBVIOUS
    <2>1. REPORTS \in Nat /\ DEPTH \in Nat /\ CAPACITY \in Nat
      BY ReportNumbers, HkAssumption
    <2>2. ASSUME NEW r \in Reports
          PROVE  /\ rep[r] \in Setting_type /\ Len(rep[r].def) <= ENTRIES
                 /\ Len(ram[r]) <= DEPTH /\ Len(file[r]) <= CAPACITY /\ taken[r] <= MaxSamples
      <3>1. rep[r] \in A_Setting /\ InRange(rep[r])
        BY DEF Settled, Shapes, Limits
      <3>2. rep[r] \in Setting_type
        BY <3>1 DEF A_Setting, InRange, Setting_type
      <3> QED BY <3>1, <3>2 DEF Limits, InRange, Stores
    <2>3. ASSUME sh.cmd = "get" PROVE Len(sh.rows) <= sh.wanted /\ sh.index \in 0..(REPORTS + DEPTH + CAPACITY)
      <3>1. sh.index \in Nat /\ Len(sh.rows) = sh.index /\ sh.index <= sh.wanted /\ sh.index <= DEPTH
        BY <2>3 DEF Getting, GetAt, IndexFits
      <3> QED BY <2>1, <3>1
    <2>4. ASSUME sh.cmd \in {"stored", "extract"}
          PROVE  (sh.cmd = "stored" => Len(sh.rows) <= sh.wanted) /\ sh.index \in 0..(REPORTS + DEPTH + CAPACITY)
      <3>1. ReadSoFar(sh)
        BY <2>4 DEF Reading
      <3>2. sh.rows \in Seq(Records) /\ (sh.cmd = "stored" => Len(sh.rows) <= sh.wanted)
            /\ sh.index = (IF sh.cmd = "stored" THEN Len(sh.rows) ELSE 0)
        BY <3>1 DEF ReadSoFar
      <3>3. CASE sh.index = 0
        BY <2>1, <3>2, <3>3
      <3>4. CASE sh.index # 0
        <4>1. sh.cmd = "stored" /\ sh.index = Len(sh.rows) /\ sh.rows # <<>>
          BY <3>2, <3>4
        <4>2. sh.held \in Seq(Records) /\ Len(sh.held) <= CAPACITY /\ sh.wanted = Len(Wants(sh))
          BY <3>1, <4>1 DEF ReadSoFar, Counted
        <4>3. Wants(sh) \in Seq(Records) /\ Len(Wants(sh)) <= Len(sh.held)
          BY <4>2, KeptPart DEF Wants, Part
        <4>4. Len(Wants(sh)) \in Nat /\ Len(sh.held) \in Nat /\ Len(sh.rows) \in Nat
          BY <3>2, <4>2, <4>3
        <4>5. sh.index \in Nat /\ sh.index <= CAPACITY
          BY <2>1, <3>2, <4>1, <4>2, <4>3, <4>4
        <4> QED BY <2>1, <3>2, <4>5
      <3> QED BY <3>3, <3>4
    <2>5. ASSUME sh.cmd = "show" PROVE sh.index \in 0..(REPORTS + DEPTH + CAPACITY)
      <3>1. sh.index \in 0..REPORTS
        BY <2>5 DEF Showing, Rows
      <3> QED BY <2>1, <3>1
    <2>6. ASSUME sh.cmd \notin {"get", "stored", "extract", "show"} PROVE sh.index \in 0..(REPORTS + DEPTH + CAPACITY)
      <3>1. sh.index = 0
        BY <2>6 DEF IndexFits
      <3> QED BY <2>1, <3>1
    <2> QED BY <2>2, <2>3, <2>4, <2>5, <2>6 DEF TypeOK, Bounds
  <1> QED BY <1>1, <1>2, AlwaysSettled, RingKept, GettingNext, ShowingNext, StoresKept, ReadingNext, LimitsKept,
             IndexFitsNext, BoundsKept, PTL DEF Spec
=============================================================================
