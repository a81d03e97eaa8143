------------------------- MODULE CommandLinkProofs -------------------------
(***************************************************************************)
(* Commands over CSP, for every number of shells, commands, tickets and    *)
(* restarts: the types, the settings that survive a restart, what a restart *)
(* and the recovery image were asked for by, and the promise that a         *)
(* ticketed command keeps.                                                  *)
(***************************************************************************)
EXTENDS CommandLink, FiniteSetTheorems, TLAPS

Argument == UNION {Arguments(k) : k \in Kinds}
Typing == [kind : Kinds, arg : Argument, retry : BOOLEAN]
RunRecord == [status : Statuses, matched : BOOLEAN, boot : Nat, at : Nat]
Words == Statuses \cup {"none", "busy", "unavailable", "no answer"}
Phases == {"legacy", "prepare", "execute"}
Request(n, k) == [op : 1..n, phase : Phases, ticket : 0..k]
Answer(n, k) == [op : 1..n, phase : Phases, status : Statuses \cup {"busy", "unavailable"},
                 ticket : 0..k]
Ticket(n, k) == [id : 1..k, op : 1..n, until : Nat, result : Statuses \cup {"none"}]

\* The elements of the tables that TypeOK only counts.
Asking(s) == call[s].phase # "idle"
Elements ==
    /\ cmd \in Seq(Typing) /\ told \in Seq(Words) /\ runs \in Seq(Seq(RunRecord))
    /\ issued \in Nat
    /\ tickets \subseteq Ticket(Len(cmd), issued)
    /\ \A s \in Shells : Asking(s) => call[s].op \in 1..Len(cmd)

Typed == TypeOK /\ Elements

----------------------------------------------------------------------------
(* The inductive invariants. *)

\* A setting that was answered with OK is the one in the settings file.
AckedIsSaved == saved = acked

\* A run that was accepted was accepted in this boot or an earlier one.
Timed == \A r \in Accepted(Restarting) : r.boot \in 0..boot /\ r.at \in 0..now

\* The recovery image is asked for by a run of this boot.
InstallAsked == install => \E r \in Accepted({"golden_install"}) : r.boot = boot

\* Each attempt that is gone went with a boot that no command ended.
Spent == left + Cardinality(Unexplained) >= filled.level

\* A shell waits for a command that it has said nothing about, and for no other
\* shell's; a ticketed one is never asked for without its ticket.
CallsAreTheirOwn ==
    /\ \A s \in Shells : Asking(s) =>
          /\ told[call[s].op] = "none"
          /\ call[s].phase # "legacy" <=> cmd[call[s].op].retry
    /\ \A s, u \in Shells : Asking(s) /\ Asking(u) /\ call[s].op = call[u].op => s = u
    /\ \A m \in requests \cup replies : m.phase # "legacy" <=> cmd[m.op].retry

\* The requests to execute command o.
Executes(o) == {m \in requests : m.op = o /\ m.phase = "execute"}

\* No command is executed with two tickets.
OneTicket ==
    /\ \A s \in Shells : call[s].phase = "prepare" => Executes(call[s].op) = {}
    /\ \A s \in Shells : call[s].phase = "execute" =>
          \A m \in Executes(call[s].op) : m.ticket = call[s].ticket
    /\ \A m, n \in requests : m.phase = "execute" /\ n.phase = "execute" /\ m.op = n.op =>
          m.ticket = n.ticket

\* The node knows a ticket by its number, and records in it what the handler answered.
Ran(o, status) == Len(runs[o]) = 1 /\ runs[o][1].status = status
TicketsRecord ==
    /\ \A t, u \in tickets : t.id = u.id => t = u
    /\ \A t \in tickets : cmd[t.op].retry /\ (t.result # "none" => Ran(t.op, t.result))
    /\ \A m \in requests : m.phase = "execute" /\ runs[m.op] # <<>> =>
          \A t \in tickets : t.id = m.ticket => t.result # "none"

\* A ticketed command is run at most once, and only when asked to execute.
RunOnce ==
    \A o \in 1..Len(cmd) : cmd[o].retry => Len(runs[o]) <= 1 /\ (runs[o] # <<>> => Executes(o) # {})

\* What is answered, and what the shell says, is what the handler answered.
AnswersAreTrue ==
    /\ \A r \in replies :
          /\ r.phase = "prepare" => r.status \in {"ok", "busy"}
          /\ r.phase = "execute" => r.status # "busy"
          /\ r.phase = "execute" /\ r.status # "unavailable" => Ran(r.op, r.status)
    /\ \A o \in 1..Len(cmd) : cmd[o].retry =>
          /\ told[o] \in {"ok", "denied", "invalid"} => Ran(o, told[o])
          /\ told[o] = "busy" => Executes(o) = {}

Ticketed ==
    Typed /\ CallsAreTheirOwn /\ OneTicket /\ TicketsRecord /\ RunOnce /\ AnswersAreTrue

----------------------------------------------------------------------------
(* The handlers. *)

\* The steps that are nobody's command.
Environment ==
    \/ RebootWork \/ OtherReset \/ StableRun
    \/ \E n \in Attempts : cmd_golden_attempts(n)
    \/ SetPin \/ Tick

\* A run that is an accepted request to restart, and what its handler does.
Accepts(c, status) == c.kind \in Restarting /\ status = "ok" /\ c.arg = pin
Schedules(c) ==
    /\ k_work_schedule
    /\ \/ UNCHANGED install
       \/ install' = TRUE /\ c.kind = "golden_install"
    /\ Fill(BUDGET, boot) \/ UNCHANGED budget

\* A handler schedules a restart exactly when it accepts one with the pin, and leaves
\* the restart alone otherwise; either way what it acknowledged is what it saved.
LEMMA HandlerEffect ==
    ASSUME NEW c, NEW status, Invoke(c, status)
    PROVE  /\ IF Accepts(c, status) THEN Schedules(c) ELSE UNCHANGED <<rebootAt, install, budget>>
           /\ saved = acked => saved' = acked'
  <1>1. CASE c.kind = "reboot" /\ command_reboot(c.arg, status)
    BY <1>1 DEF command_reboot, pin_matches, Accepts, Schedules, Restarting
  <1>2. CASE c.kind = "golden_install" /\ command_golden_install(c.arg, status)
    BY <1>2 DEF command_golden_install, pin_matches, Accepts, Schedules, Restarting
  <1>3. CASE c.kind \in Setting /\ command_hk(c.kind, c.arg, status)
    BY <1>3 DEF command_hk, Accepts, Restarting, Setting
  <1>4. CASE c.kind \notin Restarting \cup Setting /\ command_noop(status)
    BY <1>4 DEF command_noop, effects, Accepts
  <1> QED BY <1>1, <1>2, <1>3, <1>4 DEF Invoke

\* What a handler may change, within its types.
EffectsOK ==
    /\ rebootAt \in {Never} \cup (0..(MaxTime + DELAY)) /\ install \in BOOLEAN
    /\ left \in 0..BUDGET /\ filled \in [level : 0..BUDGET, boot : 0..boot]

\* boot_attempts_left is set within its range.
LEMMA FillTyped ==
    ASSUME NEW n \in 0..BUDGET, NEW b \in Nat, b <= boot', boot' \in Nat, Fill(n, b)
    PROVE  left' \in 0..BUDGET /\ filled' \in [level : 0..BUDGET, boot : 0..boot']
  <1>1. b \in 0..boot'
    OBVIOUS
  <1> QED BY <1>1 DEF Fill

\* The effects of a handler stay within their types.
LEMMA EffectTyped ==
    ASSUME Typed, NEW c, NEW status, Invoke(c, status), UNCHANGED boot
    PROVE  EffectsOK'
  <1>0. EffectsOK /\ boot \in Nat
    BY LinkAssumption DEF EffectsOK, Typed, TypeOK
  <1>1. CASE Schedules(c)
    <2>1. rebootAt' \in {Never} \cup (0..(MaxTime + DELAY))
      BY <1>1, LinkAssumption DEF Schedules, k_work_schedule, Typed, TypeOK, Never
    <2>2. install' \in BOOLEAN
      BY <1>0, <1>1, Zenon DEF Schedules, EffectsOK
    <2>3. left' \in 0..BUDGET /\ filled' \in [level : 0..BUDGET, boot : 0..boot']
      <3>1. CASE Fill(BUDGET, boot)
        BY <1>0, <3>1, FillTyped, LinkAssumption
      <3>2. CASE UNCHANGED budget
        BY <1>0, <3>2 DEF budget, EffectsOK
      <3> QED BY <1>1, <3>1, <3>2 DEF Schedules
    <2> QED BY <2>1, <2>2, <2>3 DEF EffectsOK
  <1>2. CASE UNCHANGED <<rebootAt, install, budget>>
    BY <1>0, <1>2 DEF EffectsOK, budget
  <1> QED BY <1>1, <1>2, HandlerEffect

----------------------------------------------------------------------------
(* Types. *)

\* What was sent or issued keeps its type when more is typed or issued.
LEMMA TypesGrow ==
    ASSUME NEW n \in Nat, NEW k \in Nat, NEW n2 \in Nat, NEW k2 \in Nat, n <= n2, k <= k2
    PROVE  /\ Request(n, k) \subseteq Request(n2, k2)
           /\ Answer(n, k) \subseteq Answer(n2, k2)
           /\ Ticket(n, k) \subseteq Ticket(n2, k2)
  <1>1. 1..n \subseteq 1..n2 /\ 0..k \subseteq 0..k2 /\ 1..k \subseteq 1..k2
    OBVIOUS
  <1> QED BY <1>1 DEF Request, Answer, Ticket

\* TypeOK with the names of this module.
LEMMA TypedFacts ==
    ASSUME Typed
    PROVE  /\ Len(told) = Len(cmd) /\ Len(runs) = Len(cmd) /\ Len(cmd) \in Nat /\ Len(cmd) <= MaxOps
           /\ DOMAIN cmd = 1..Len(cmd) /\ DOMAIN told = 1..Len(cmd) /\ DOMAIN runs = 1..Len(cmd)
           /\ requests \subseteq Request(Len(cmd), issued)
           /\ replies \subseteq Answer(Len(cmd), issued)
           /\ issued \in Nat /\ now \in Nat
  BY LinkAssumption DEF Typed, TypeOK, Elements, Request, Answer, Phases

\* A handler's run is a run.
LEMMA RunTyped ==
    ASSUME Typed, NEW status \in Statuses, NEW c
    PROVE  /\ Run(c, status) \in RunRecord
           /\ Run(c, status).status = status /\ (Run(c, status).matched <=> c.arg = pin)
           /\ Run(c, status).boot = boot /\ Run(c, status).at = now
  <1>1. (c.arg = pin) \in BOOLEAN
    BY Zenon
  <1>2. boot \in Nat /\ now \in Nat
    BY LinkAssumption DEF Typed, TypeOK
  <1> QED BY <1>1, <1>2 DEF Run, RunRecord

\* The variables that handlers and the environment type apart from the tables.
Scalars ==
    /\ now \in 0..MaxTime /\ boot \in 0..MaxBoots
    /\ commanded \subseteq [boot : 0..(boot - 1), at : 0..now]
    /\ pin \in Pins /\ image \in {"flight", "recovery"}
    /\ EffectsOK

\* The tables of commands, shells, messages and tickets.
Tables ==
    /\ Len(told) = Len(cmd) /\ Len(runs) = Len(cmd) /\ Len(cmd) <= MaxOps
    /\ call \in [Shells -> Waiting]
    /\ requests \subseteq Request(Len(cmd), issued)
    /\ replies \subseteq Answer(Len(cmd), issued)

\* TypeOK, in two halves.
LEMMA Halves == Typed <=> Scalars /\ Tables /\ Elements
  BY DEF Typed, TypeOK, Scalars, EffectsOK, Tables, Elements, Request, Answer, Ticket, Phases

\* The program starts well typed.
LEMMA InitTyped == Init => Typed
  <1> SUFFICES ASSUME Init PROVE Scalars /\ Tables /\ Elements
    BY Halves
  <1>1. Scalars
    <2>1. install \in BOOLEAN /\ pin \in Pins
      BY LinkAssumption, Zenon DEF Init
    <2> QED BY <2>1, LinkAssumption DEF Init, Scalars, EffectsOK, Never
  <1>2. Elements
    BY DEF Init, Elements, Asking, Idle
  <1>3. Tables
    <2>1. Idle \in Waiting /\ call = [s \in Shells |-> Idle]
      BY LinkAssumption DEF Init, Waiting, Idle
    <2>2. Len(told) = 0 /\ Len(cmd) = 0 /\ Len(runs) = 0 /\ requests = {} /\ replies = {}
      BY DEF Init
    <2> QED BY <2>1, <2>2, LinkAssumption DEF Tables
  <1> QED BY <1>1, <1>2, <1>3

\* Typing a command adds one entry to each list and keeps the others.
LEMMA NewCommand ==
    ASSUME Typed, NEW c \in Typing, NEW w \in Words, NEW rs \in Seq(RunRecord), Len(cmd) < MaxOps,
           cmd' = Append(cmd, c), told' = Append(told, w), runs' = Append(runs, rs)
    PROVE  /\ cmd' \in Seq(Typing) /\ told' \in Seq(Words) /\ runs' \in Seq(Seq(RunRecord))
           /\ Len(cmd') = Len(cmd) + 1 /\ Len(told') = Len(cmd') /\ Len(runs') = Len(cmd')
           /\ Len(cmd') <= MaxOps
           /\ \A o \in 1..Len(cmd) : cmd'[o] = cmd[o] /\ told'[o] = told[o] /\ runs'[o] = runs[o]
           /\ cmd'[Len(cmd')] = c /\ told'[Len(cmd')] = w /\ runs'[Len(cmd')] = rs
  BY LinkAssumption, TypedFacts DEF Typed, Elements

\* A run of a handler is added to the runs of its command, and to no other's.
LEMMA NewRun ==
    ASSUME Typed, NEW o \in 1..Len(cmd), NEW status \in Statuses, Handler(o, status)
    PROVE  /\ runs' \in Seq(Seq(RunRecord)) /\ Len(runs') = Len(runs)
           /\ runs'[o] = Append(runs[o], Run(cmd[o], status))
           /\ \A p \in 1..Len(cmd) : p # o => runs'[p] = runs[p]
           /\ runs[o] \in Seq(RunRecord)
  <1> DEFINE r == Run(cmd[o], status)
  <1>1. r \in RunRecord
    BY RunTyped
  <1>2. runs' = [runs EXCEPT ![o] = Append(@, r)]
    BY DEF Handler
  <1>3. runs \in Seq(Seq(RunRecord)) /\ o \in 1..Len(runs) /\ DOMAIN runs = 1..Len(cmd)
    BY TypedFacts DEF Typed, Elements
  <1>4. runs[o] \in Seq(RunRecord)
    BY <1>3
  <1> HIDE DEF r
  <1>5. Append(runs[o], r) \in Seq(RunRecord)
    BY <1>1, <1>4
  <1>6. runs' \in Seq(Seq(RunRecord)) /\ Len(runs') = Len(runs)
    BY <1>2, <1>3, <1>5
  <1>7. runs'[o] = Append(runs[o], r) /\ \A p \in 1..Len(cmd) : p # o => runs'[p] = runs[p]
    BY <1>2, <1>3
  <1> QED BY <1>4, <1>6, <1>7 DEF r

\* What the shell says replaces nothing else, and the shell is idle again.
LEMMA SaysDone ==
    ASSUME Typed, NEW s \in Shells, call[s].op \in 1..Len(cmd), NEW w \in Words, Done(s, w)
    PROVE  /\ told' \in Seq(Words) /\ Len(told') = Len(told)
           /\ told'[call[s].op] = w
           /\ \A p \in 1..Len(cmd) : p # call[s].op => told'[p] = told[p]
           /\ call' \in [Shells -> Waiting]
           /\ call'[s] = Idle /\ \A u \in Shells : u # s => call'[u] = call[u]
  <1>1. Idle \in Waiting /\ call \in [Shells -> Waiting]
    BY LinkAssumption DEF Typed, TypeOK, Elements, Idle, Waiting
  <1>2. told \in Seq(Words) /\ Len(told) = Len(cmd) /\ DOMAIN told = 1..Len(cmd)
    BY TypedFacts DEF Typed, Elements
  <1>3. told' = [told EXCEPT ![call[s].op] = w] /\ call' = [call EXCEPT ![s] = Idle]
    BY DEF Done
  <1>4. told' \in Seq(Words) /\ Len(told') = Len(told)
    BY <1>2, <1>3
  <1>5. told'[call[s].op] = w /\ \A p \in 1..Len(cmd) : p # call[s].op => told'[p] = told[p]
    BY <1>2, <1>3
  <1>6. call' \in [Shells -> Waiting] /\ call'[s] = Idle /\ \A u \in Shells : u # s => call'[u] = call[u]
    BY <1>1, <1>3
  <1> QED BY <1>4, <1>5, <1>6

\* A shell's call.
LEMMA CallTyped ==
    ASSUME Typed, NEW s \in Shells
    PROVE  /\ call[s] \in Waiting /\ call[s].op \in 0..MaxOps /\ call[s].tries \in 0..ATTEMPTS
           /\ call[s].phase \in Phases \cup {"idle"} /\ call[s].ticket \in 0..issued
  <1>1. call[s] \in Waiting
    BY DEF Typed, TypeOK
  <1> QED BY <1>1 DEF Waiting, Phases

\* The same halves after a step.
LEMMA HalvesNext == Scalars' /\ Tables' /\ Elements' => Typed'
  BY DEF Typed, TypeOK, Scalars, EffectsOK, Tables, Elements, Request, Answer, Ticket, Phases

\* A larger ticket count and more commands leave every shell's call typed.
LEMMA WaitingGrows ==
    ASSUME issued \in Nat, issued' \in Nat, issued <= issued'
    PROVE  Waiting \subseteq Waiting'
  <1>1. 0..issued \subseteq 0..issued'
    OBVIOUS
  <1> QED BY <1>1 DEF Waiting

\* Every step keeps the types.
LEMMA NextTyped ==
    ASSUME Typed, [Next]_vars
    PROVE  Typed'
  <1> USE LinkAssumption
  <1>0. Scalars /\ Tables /\ Elements
    BY Halves
  <1>1. ASSUME NEW s \in Shells, NEW c \in Commands, NEW retry \in Retry, RunCommand(s, c, retry)
        PROVE  Typed'
    <2> DEFINE n == [kind |-> c.kind, arg |-> c.arg, retry |-> retry]
    <2>1. n \in Typing
      BY DEF Commands, Typing, Argument
    <2>2. "none" \in Words /\ <<>> \in Seq(RunRecord)
      BY DEF Words
    <2>3. cmd' = Append(cmd, n) /\ told' = Append(told, "none") /\ runs' = Append(runs, <<>>)
          /\ Len(cmd) < MaxOps /\ issued' = issued /\ tickets' = tickets /\ replies' = replies
      BY <1>1 DEF RunCommand, table
    <2>4. /\ cmd' \in Seq(Typing) /\ told' \in Seq(Words) /\ runs' \in Seq(Seq(RunRecord))
          /\ Len(cmd') = Len(cmd) + 1 /\ Len(told') = Len(cmd') /\ Len(runs') = Len(cmd')
          /\ Len(cmd') <= MaxOps
      <3> HIDE DEF n
      <3> QED BY <2>1, <2>2, <2>3, NewCommand
    <2>6. Len(cmd') \in 1..MaxOps
      BY <2>4, TypedFacts
    <2>7. [op |-> Len(cmd) + 1, phase |-> FirstPhase(retry), tries |-> 1, ticket |-> 0] \in Waiting
      BY <2>4, <2>6, TypedFacts DEF Waiting, FirstPhase
    <2>8. call' \in [Shells -> Waiting'] /\ issued' = issued
      BY <1>0, <1>1, <2>3, <2>7 DEF RunCommand, Tables, Waiting
    <2>a. \A u \in Shells : Asking(u)' => call'[u].op \in 1..Len(cmd')
      BY <1>0, <1>1, <2>4, <2>6, TypedFacts DEF RunCommand, Tables, Elements, Asking
    <2>5. Elements'
      BY <2>3, <2>4, <2>a, <1>0, TypedFacts, TypesGrow DEF Elements
    <2>9. requests' \subseteq Request(Len(cmd'), issued')
      <3>1. [op |-> Len(cmd) + 1, phase |-> FirstPhase(retry), ticket |-> 0] \in Request(Len(cmd'), issued')
        BY <2>3, <2>4, <2>6, TypedFacts DEF Request, Phases, FirstPhase
      <3>2. requests \subseteq Request(Len(cmd'), issued')
        BY <2>3, <2>4, TypedFacts, TypesGrow
      <3> QED BY <1>1, <3>1, <3>2 DEF RunCommand, Ask
    <2>10. replies' \subseteq Answer(Len(cmd'), issued')
      BY <2>3, <2>4, TypedFacts, TypesGrow
    <2>11. Tables'
      BY <2>4, <2>8, <2>9, <2>10 DEF Tables
    <2>12. Scalars'
      BY <1>0, <1>1 DEF RunCommand, Scalars, EffectsOK, reset, effects, budget
    <2> QED BY <2>5, <2>11, <2>12, HalvesNext
  <1>2. ASSUME NEW s \in Shells, NEW r \in replies, Replied(s, r)
        PROVE  Typed'
    <2>1. r \in Answer(Len(cmd), issued)
      BY TypedFacts
    <2>2. Scalars' /\ cmd' = cmd /\ runs' = runs /\ replies' = replies /\ tickets' = tickets /\ issued' = issued
      BY <1>0, <1>2 DEF Replied, Scalars, EffectsOK, reset, effects, budget, table
    <2>3. CASE r.phase = "prepare" /\ r.status = "ok"
      <3>1. [call[s] EXCEPT !.phase = "execute", !.tries = 1, !.ticket = r.ticket] \in Waiting
        <4>1. call[s] \in Waiting /\ r.ticket \in 0..issued /\ 1 \in 0..ATTEMPTS
          BY CallTyped, <2>1 DEF Answer
        <4> QED BY <4>1 DEF Waiting
      <3>2. call' = [call EXCEPT ![s] = [call[s] EXCEPT !.phase = "execute", !.tries = 1, !.ticket = r.ticket]]
        BY <1>2, <2>3 DEF Replied
      <3>3. call' \in [Shells -> Waiting]
        BY <1>0, <3>1, <3>2 DEF Tables
      <3>4. [op |-> r.op, phase |-> "execute", ticket |-> r.ticket] \in Request(Len(cmd), issued)
        BY <2>1 DEF Answer, Request, Phases
      <3>5. requests' \subseteq Request(Len(cmd), issued) /\ told' = told
        BY <1>2, <2>3, <3>4, TypedFacts DEF Replied, Ask
      <3>a. \A u \in Shells : Asking(u)' => call'[u].op \in 1..Len(cmd')
        BY <1>0, <1>2, <2>1, <2>2, <3>2, CallTyped DEF Tables, Waiting, Elements, Asking, Replied, Answer
      <3>6. Tables' /\ Elements'
        BY <1>0, <2>2, <3>3, <3>5, <3>a DEF Tables, Elements, Waiting
      <3> QED BY <2>2, <3>6, HalvesNext
    <2>4. CASE ~(r.phase = "prepare" /\ r.status = "ok")
      <3>1. Done(s, r.status) /\ requests' = requests
        BY <1>2, <2>4 DEF Replied, Verdict
      <3>2. r.status \in Words /\ call[s].op \in 1..Len(cmd)
        BY <1>2, <2>1 DEF Answer, Words, Replied
      <3>3. /\ told' \in Seq(Words) /\ Len(told') = Len(told) /\ call' \in [Shells -> Waiting]
            /\ call'[s] = Idle /\ \A u \in Shells : u # s => call'[u] = call[u]
        BY <3>1, <3>2, SaysDone
      <3>a. \A u \in Shells : Asking(u)' => call'[u].op \in 1..Len(cmd')
        <4>1. Idle.phase = "idle"
          BY DEF Idle
        <4> QED BY <1>0, <2>2, <3>3, <4>1 DEF Elements, Asking
      <3>4. Tables' /\ Elements'
        BY <1>0, <2>2, <3>1, <3>3, <3>a DEF Tables, Elements, Waiting
      <3> QED BY <2>2, <3>4, HalvesNext
    <2> QED BY <2>3, <2>4
  <1>3. ASSUME NEW s \in Shells, TryAgain(s)
        PROVE  Typed'
    <2>1. Scalars' /\ cmd' = cmd /\ told' = told /\ runs' = runs /\ replies' = replies
          /\ tickets' = tickets /\ issued' = issued
      BY <1>0, <1>3 DEF TryAgain, Scalars, EffectsOK, typed, reset, effects, budget, table
    <2>2. Asking(s) /\ call[s].phase \in {"prepare", "execute"} /\ call[s].tries + 1 \in 0..ATTEMPTS
      BY <1>3, CallTyped DEF TryAgain, Asking
    <2>3. call' = [call EXCEPT ![s] = [call[s] EXCEPT !.tries = call[s].tries + 1]]
      BY <1>3 DEF TryAgain
    <2>4. [call[s] EXCEPT !.tries = call[s].tries + 1] \in Waiting
      BY CallTyped, <2>2 DEF Waiting
    <2>5. call' \in [Shells -> Waiting]
      BY <1>0, <2>3, <2>4 DEF Tables
    <2>6. call[s].op \in 1..Len(cmd) /\ call[s].ticket \in 0..issued
      BY <1>0, <2>2, CallTyped DEF Elements
    <2>7. [op |-> call[s].op, phase |-> call[s].phase, ticket |-> call[s].ticket] \in Request(Len(cmd), issued)
      BY <2>2, <2>6 DEF Request, Phases
    <2>8. requests' \subseteq Request(Len(cmd), issued)
      BY <1>3, <2>7, TypedFacts DEF TryAgain, Ask
    <2>9. \A u \in Shells : Asking(u)' => call'[u].op \in 1..Len(cmd')
      BY <1>0, <2>1, <2>3, <2>6, CallTyped DEF Elements, Asking, Tables, Waiting
    <2>10. Tables' /\ Elements'
      BY <1>0, <2>1, <2>5, <2>8, <2>9 DEF Tables, Elements, Waiting
    <2> QED BY <2>1, <2>10, HalvesNext
  <1>4. ASSUME NEW s \in Shells, GiveUp(s)
        PROVE  Typed'
    <2>1. Scalars' /\ cmd' = cmd /\ runs' = runs /\ requests' = requests /\ replies' = replies
          /\ tickets' = tickets /\ issued' = issued
      BY <1>0, <1>4 DEF GiveUp, Scalars, EffectsOK, wire, reset, effects, budget, table
    <2>2. Done(s, "no answer") /\ "no answer" \in Words /\ call[s].op \in 1..Len(cmd)
      BY <1>0, <1>4 DEF GiveUp, Words, Elements, Asking
    <2>3. /\ told' \in Seq(Words) /\ Len(told') = Len(told) /\ call' \in [Shells -> Waiting]
          /\ call'[s] = Idle /\ \A u \in Shells : u # s => call'[u] = call[u]
      BY <2>2, SaysDone
    <2>4. \A u \in Shells : Asking(u)' => call'[u].op \in 1..Len(cmd')
      <3>1. Idle.phase = "idle"
        BY DEF Idle
      <3> QED BY <1>0, <2>1, <2>3, <3>1 DEF Elements, Asking
    <2>5. Tables' /\ Elements'
      BY <1>0, <2>1, <2>3, <2>4 DEF Tables, Elements, Waiting
    <2> QED BY <2>1, <2>5, HalvesNext
  <1>5. ASSUME NEW c \in Commands, RunHere(c)
        PROVE  Typed'
    <2>1. PICK status \in Statuses : /\ Invoke(c, status)
                                     /\ told' = Append(told, Verdict(status))
                                     /\ runs' = Append(runs, <<Run(c, status)>>)
      BY <1>5 DEF RunHere
    <2> DEFINE n == [kind |-> c.kind, arg |-> c.arg, retry |-> FALSE]
               rs == <<Run(c, status)>>
    <2>2. n \in Typing
      BY DEF Commands, Typing, Argument
    <2>3. status \in Words /\ Verdict(status) = status
      BY DEF Words, Verdict
    <2>4. rs \in Seq(RunRecord)
      <3> DEFINE r == Run(c, status)
      <3>1. r \in RunRecord
        BY RunTyped
      <3> HIDE DEF r
      <3>2. <<r>> \in Seq(RunRecord)
        BY <3>1
      <3> QED BY <3>2 DEF r
    <2>5. cmd' = Append(cmd, n) /\ Len(cmd) < MaxOps /\ call' = call /\ requests' = requests
          /\ replies' = replies /\ issued' = issued /\ tickets' = tickets
      BY <1>5 DEF RunHere, wire, table
    <2>6. /\ cmd' \in Seq(Typing) /\ told' \in Seq(Words) /\ runs' \in Seq(Seq(RunRecord))
          /\ Len(cmd') = Len(cmd) + 1 /\ Len(told') = Len(cmd') /\ Len(runs') = Len(cmd')
          /\ Len(cmd') <= MaxOps
      <3> HIDE DEF n, rs
      <3> QED BY <2>1, <2>2, <2>3, <2>4, <2>5, NewCommand DEF rs
    <2>7. \A u \in Shells : Asking(u)' => call'[u].op \in 1..Len(cmd')
      <3>1. 1..Len(cmd) \subseteq 1..Len(cmd')
        BY <2>6, TypedFacts
      <3>2. \A u \in Shells : Asking(u) => call[u].op \in 1..Len(cmd)
        BY <1>0 DEF Elements
      <3> QED BY <2>5, <3>1, <3>2 DEF Asking
    <2>8. Elements'
      BY <1>0, <2>5, <2>6, <2>7, TypedFacts, TypesGrow DEF Elements
    <2>9. requests' \subseteq Request(Len(cmd'), issued') /\ replies' \subseteq Answer(Len(cmd'), issued')
      BY <2>5, <2>6, TypedFacts, TypesGrow
    <2>10. Tables'
      BY <1>0, <2>5, <2>6, <2>9 DEF Tables, Waiting
    <2>11. Scalars'
      <3>1. EffectsOK'
        BY <1>5, <2>1, EffectTyped DEF RunHere, reset
      <3> QED BY <1>0, <1>5, <3>1 DEF RunHere, Scalars, reset
    <2> QED BY <2>8, <2>10, <2>11, HalvesNext
  <1>6. ASSUME NEW m \in requests, ServeLegacy(m)
        PROVE  Typed'
    <2>1. PICK status \in Statuses : Handler(m.op, status) /\ Reply(m, status, 0)
      BY <1>6 DEF ServeLegacy
    <2>2. /\ cmd' = cmd /\ told' = told /\ call' = call /\ requests' = requests
          /\ issued' = issued /\ tickets' = tickets
      BY <1>6 DEF ServeLegacy, table
    <2>3. m \in Request(Len(cmd), issued)
      BY TypedFacts
    <2>4. [op |-> m.op, phase |-> m.phase, status |-> status, ticket |-> 0] \in Answer(Len(cmd), issued)
      BY <2>3, TypedFacts DEF Request, Answer
    <2>5. replies' \subseteq Answer(Len(cmd), issued)
      BY <2>1, <2>4, TypedFacts DEF Reply
    <2>6. runs' \in Seq(Seq(RunRecord)) /\ Len(runs') = Len(runs)
      BY <2>1, <2>3, NewRun DEF Request
    <2>7. Tables' /\ Elements'
      BY <1>0, <2>2, <2>5, <2>6 DEF Tables, Elements, Asking, Waiting
    <2>8. EffectsOK'
      BY <1>6, <2>1, EffectTyped DEF Handler, ServeLegacy, reset
    <2>9. Scalars'
      BY <1>0, <1>6, <2>8 DEF ServeLegacy, Scalars, reset
    <2> QED BY <2>7, <2>9, HalvesNext
  <1>7. ASSUME NEW m \in requests, ServePrepare(m)
        PROVE  Typed'
    <2>1. /\ cmd' = cmd /\ told' = told /\ runs' = runs /\ call' = call /\ requests' = requests
          /\ Scalars'
      BY <1>0, <1>7 DEF ServePrepare, Scalars, EffectsOK, typed, reset, effects, budget
    <2>2. m \in Request(Len(cmd), issued)
      BY TypedFacts
    <2>3. ASSUME issued' \in Nat, issued <= issued', tickets' \subseteq Ticket(Len(cmd), issued'),
                 NEW w \in {"ok", "busy"}, NEW k \in 0..issued', Reply(m, w, k)
          PROVE  Typed'
      <3>1. [op |-> m.op, phase |-> m.phase, status |-> w, ticket |-> k] \in Answer(Len(cmd), issued')
        BY <2>2, <2>3 DEF Request, Answer, Statuses
      <3>2. requests \subseteq Request(Len(cmd), issued') /\ replies \subseteq Answer(Len(cmd), issued')
        BY <2>3, TypedFacts, TypesGrow
      <3>3. replies' \subseteq Answer(Len(cmd), issued')
        BY <2>3, <3>1, <3>2 DEF Reply
      <3>4. call' \in [Shells -> Waiting']
        BY <1>0, <2>1, <2>3, TypedFacts, WaitingGrows DEF Tables
      <3>5. Tables' /\ Elements'
        BY <1>0, <2>1, <2>3, <3>2, <3>3, <3>4 DEF Tables, Elements, Asking
      <3> QED BY <2>1, <3>5, HalvesNext
    <2>4. ASSUME NEW t \in Live, Reply(m, "ok", t.id), UNCHANGED table
          PROVE  Typed'
      <3>1. t.id \in 0..issued /\ issued' = issued /\ tickets' = tickets
        BY <1>0, <2>4 DEF Live, Elements, Ticket, table
      <3> QED BY <1>0, <2>3, <2>4, <3>1 DEF Elements
    <2>5. ASSUME issued' = issued + 1, Reply(m, "ok", issued + 1),
                 tickets' = Live \cup {[id |-> issued + 1, op |-> m.op, until |-> now + LIFETIME,
                                        result |-> "none"]}
          PROVE  Typed'
      <3>1. [id |-> issued + 1, op |-> m.op, until |-> now + LIFETIME, result |-> "none"]
               \in Ticket(Len(cmd), issued')
        BY <2>2, <2>5, TypedFacts DEF Ticket, Request
      <3>2. tickets \subseteq Ticket(Len(cmd), issued')
        BY <1>0, <2>5, TypedFacts, TypesGrow DEF Elements
      <3>3. tickets' \subseteq Ticket(Len(cmd), issued')
        BY <2>5, <3>1, <3>2 DEF Live
      <3>4. issued' \in Nat /\ issued <= issued' /\ issued + 1 \in 0..issued'
        BY <2>5, TypedFacts
      <3> QED BY <2>3, <2>5, <3>3, <3>4
    <2>6. ASSUME Reply(m, "busy", 0), UNCHANGED table
          PROVE  Typed'
      <3>1. 0 \in 0..issued /\ issued' = issued /\ tickets' = tickets
        BY <2>6, TypedFacts DEF table
      <3> QED BY <1>0, <2>3, <2>6, <3>1 DEF Elements
    <2> QED BY <1>7, <2>4, <2>5, <2>6 DEF ServePrepare
  <1>8. ASSUME NEW m \in requests, ServeExecute(m)
        PROVE  Typed'
    <2>1. /\ cmd' = cmd /\ told' = told /\ call' = call /\ requests' = requests
          /\ m \in Request(Len(cmd), issued)
      BY <1>8, TypedFacts DEF ServeExecute
    <2>2. ASSUME issued' = issued, tickets' \subseteq Ticket(Len(cmd), issued), Scalars',
                 runs' \in Seq(Seq(RunRecord)), Len(runs') = Len(runs),
                 NEW w \in Statuses \cup {"unavailable"}, Reply(m, w, m.ticket)
          PROVE  Typed'
      <3>1. [op |-> m.op, phase |-> m.phase, status |-> w, ticket |-> m.ticket] \in Answer(Len(cmd), issued)
        BY <2>1, <2>2 DEF Request, Answer
      <3>2. replies' \subseteq Answer(Len(cmd), issued)
        BY <2>2, <3>1, TypedFacts DEF Reply
      <3>3. Tables' /\ Elements'
        BY <1>0, <2>1, <2>2, <3>2 DEF Tables, Elements, Asking, Waiting
      <3> QED BY <2>2, <3>3, HalvesNext
    <2>3. ASSUME NEW t \in Live, NEW status \in Statuses, Handler(m.op, status),
                 tickets' = (tickets \ {t}) \cup {[t EXCEPT !.result = status]},
                 Reply(m, status, m.ticket), issued' = issued
          PROVE  Typed'
      <3>1. t \in Ticket(Len(cmd), issued) /\ tickets \subseteq Ticket(Len(cmd), issued)
        BY <1>0 DEF Live, Elements
      <3>2. [t EXCEPT !.result = status] \in Ticket(Len(cmd), issued)
        BY <3>1 DEF Ticket
      <3>3. tickets' \subseteq Ticket(Len(cmd), issued)
        BY <2>3, <3>1, <3>2
      <3>4. runs' \in Seq(Seq(RunRecord)) /\ Len(runs') = Len(runs)
        BY <2>1, <2>3, NewRun DEF Request
      <3>5. EffectsOK'
        BY <1>8, <2>3, EffectTyped DEF Handler, ServeExecute, reset
      <3>6. Scalars'
        BY <1>0, <1>8, <3>5 DEF ServeExecute, Scalars, reset
      <3> QED BY <2>2, <2>3, <3>3, <3>4, <3>6
    <2>4. ASSUME UNCHANGED <<runs, effects, table>>, NEW w \in Statuses \cup {"unavailable"},
                 Reply(m, w, m.ticket)
          PROVE  Typed'
      <3>1. Scalars'
        BY <1>0, <1>8, <2>4 DEF ServeExecute, Scalars, EffectsOK, reset, effects, budget
      <3>2. issued' = issued /\ tickets' = tickets /\ runs' = runs
        BY <2>4 DEF table
      <3> QED BY <1>0, <2>2, <2>4, <3>1, <3>2 DEF Elements
    <2>5. ASSUME NEW t \in Live, t.result # "none", Reply(m, t.result, m.ticket),
                 UNCHANGED <<runs, effects, table>>
          PROVE  Typed'
      <3>1. t.result \in Statuses
        BY <1>0, <2>5 DEF Live, Elements, Ticket
      <3> QED BY <2>4, <2>5, <3>1
    <2> QED BY <1>8, <2>3, <2>4, <2>5 DEF ServeExecute
  <1>9. ASSUME NEW cause, Restart(cause), commanded' \in {commanded, commanded \cup {[boot |-> boot, at |-> now]}}
        PROVE  Typed'
    <2>1. boot \in Nat /\ boot' = boot + 1 /\ boot' \in 0..MaxBoots /\ now' = now /\ now \in Nat
          /\ EffectsOK /\ image \in {"flight", "recovery"} /\ commanded \subseteq [boot : 0..(boot - 1), at : 0..now]
      BY <1>0, <1>9 DEF Restart, Scalars
    <2>2. commanded' \subseteq [boot : 0..(boot' - 1), at : 0..now']
      <3>1. 0..(boot - 1) \subseteq 0..(boot' - 1) /\ boot \in 0..(boot' - 1) /\ now \in 0..now
        BY <2>1
      <3>2. commanded \subseteq [boot : 0..(boot' - 1), at : 0..now]
            /\ [boot |-> boot, at |-> now] \in [boot : 0..(boot' - 1), at : 0..now]
        BY <2>1, <3>1
      <3> QED BY <1>9, <2>1, <3>2
    <2>3. left' \in 0..BUDGET /\ filled' \in [level : 0..BUDGET, boot : 0..boot']
      <3>1. ASSUME Fill(BUDGET, boot + 1)
            PROVE  left' \in 0..BUDGET /\ filled' \in [level : 0..BUDGET, boot : 0..boot']
        BY <2>1, <3>1, FillTyped
      <3>2. ASSUME left' \in {left, left - 1}, left' = left - 1 => left > 0, filled' = filled
            PROVE  left' \in 0..BUDGET /\ filled' \in [level : 0..BUDGET, boot : 0..boot']
        <4>1. 0..boot \subseteq 0..boot'
          BY <2>1
        <4>2. left \in 0..BUDGET /\ filled \in [level : 0..BUDGET, boot : 0..boot]
          BY <2>1 DEF EffectsOK
        <4>3. left' \in 0..BUDGET
          BY <3>2, <4>2
        <4> QED BY <3>2, <4>1, <4>2, <4>3
      <3>3. \/ Fill(BUDGET, boot + 1)
            \/ left' \in {left, left - 1} /\ (left' = left - 1 => left > 0) /\ filled' = filled
        <4>1. left # left - 1
          BY <2>1 DEF EffectsOK
        <4> QED BY <1>9, <4>1 DEF Restart, Early, budget
      <3> QED BY <3>1, <3>2, <3>3
    <2>4. image' \in {"flight", "recovery"}
      BY <1>9, <2>1 DEF Restart, Early
    <2>5. install' \in BOOLEAN
      BY <1>9, Zenon DEF Restart
    <2>6. Scalars'
      BY <1>0, <1>9, <2>1, <2>2, <2>3, <2>4, <2>5 DEF Restart, Scalars, EffectsOK
    <2>7. Tables' /\ Elements'
      BY <1>0, <1>9 DEF Restart, Tables, Elements, Asking, Waiting, typed, wire
    <2> QED BY <2>6, <2>7, HalvesNext
  <1>10. CASE SetPin \/ Tick
    <2>1. Scalars'
      <3>1. 0..now \subseteq 0..now' /\ now' \in 0..MaxTime
        BY <1>0, <1>10 DEF SetPin, Tick, Scalars
      <3>2. commanded' \subseteq [boot : 0..(boot' - 1), at : 0..now']
        BY <1>0, <1>10, <3>1 DEF SetPin, Tick, Scalars, reset
      <3>3. EffectsOK'
        BY <1>0, <1>10 DEF SetPin, Tick, Scalars, EffectsOK, reset, effects, budget
      <3> QED BY <1>0, <1>10, <3>1, <3>2, <3>3 DEF SetPin, Tick, Scalars, reset
    <2>2. Tables' /\ Elements'
      BY <1>0, <1>10 DEF SetPin, Tick, Tables, Elements, Asking, Waiting, typed, wire, table
    <2> QED BY <2>1, <2>2, HalvesNext
  <1>11. CASE UNCHANGED vars
    <2>1. Scalars' /\ Tables' /\ Elements'
      BY <1>0, <1>11 DEF vars, Scalars, EffectsOK, Tables, Elements, Asking, Waiting, typed, wire, reset,
                         effects, budget, table
    <2> QED BY <2>1, HalvesNext
  <1>12. CASE RebootWork \/ OtherReset
    BY <1>9, <1>12 DEF RebootWork, OtherReset
  <1>13. CASE StableRun \/ \E n \in Attempts : cmd_golden_attempts(n)
    <2>1. UNCHANGED <<typed, call, wire, now, reset, pin, rebootAt, install, table>>
          /\ \E n \in 0..BUDGET : Fill(n, boot)
      BY <1>13 DEF StableRun, cmd_golden_attempts
    <2>2. boot' = boot /\ boot \in Nat
      BY <1>0, <2>1 DEF reset, Scalars
    <2>3. left' \in 0..BUDGET /\ filled' \in [level : 0..BUDGET, boot : 0..boot']
      BY <2>1, <2>2, FillTyped
    <2>4. Scalars'
      BY <1>0, <2>1, <2>3 DEF Scalars, EffectsOK, reset
    <2>5. Tables' /\ Elements'
      BY <1>0, <2>1 DEF Tables, Elements, Asking, Waiting, typed, wire, table
    <2> QED BY <2>4, <2>5, HalvesNext
  <1> QED
    BY <1>1, <1>2, <1>3, <1>4, <1>5, <1>6, <1>7, <1>8, <1>10, <1>11, <1>12, <1>13 DEF Next, Shell

\* The tables of commands, calls, messages and tickets stay well formed, whatever is
\* typed, sent, lost, repeated or restarted.
THEOREM TypeCorrect == Spec => []TypeOK
  <1>1. Init => Typed
    BY InitTyped
  <1>2. Typed /\ [Next]_vars => Typed'
    BY NextTyped
  <1>3. Typed => TypeOK
    BY DEF Typed
  <1> QED BY <1>1, <1>2, <1>3, PTL DEF Spec

----------------------------------------------------------------------------
(* Settings that survive a restart. *)

\* Every step keeps the file at the last setting that was acknowledged.
LEMMA NextAckedIsSaved ==
    ASSUME AckedIsSaved, [Next]_vars
    PROVE  AckedIsSaved'
  <1>1. ASSUME NEW c, NEW status, Invoke(c, status)
        PROVE  AckedIsSaved'
    BY <1>1, HandlerEffect DEF AckedIsSaved
  <1>2. ASSUME NEW s \in Shells, Shell(s)
        PROVE  AckedIsSaved'
    BY <1>2 DEF AckedIsSaved, Shell, RunCommand, Replied, TryAgain, GiveUp, effects
  <1>3. ASSUME NEW m \in requests, ServeLegacy(m) \/ ServePrepare(m) \/ ServeExecute(m)
        PROVE  AckedIsSaved'
    <2>1. CASE ServeLegacy(m)
      BY <1>1, <2>1 DEF ServeLegacy, Handler
    <2>2. CASE ServePrepare(m)
      BY <2>2 DEF ServePrepare, effects, AckedIsSaved
    <2>3. CASE ServeExecute(m)
      BY <1>1, <2>3 DEF ServeExecute, Handler, effects, AckedIsSaved
    <2> QED BY <1>3, <2>1, <2>2, <2>3
  <1>4. ASSUME NEW c \in Commands, RunHere(c)
        PROVE  AckedIsSaved'
    BY <1>1, <1>4 DEF RunHere
  <1>5. CASE Environment
    BY <1>5 DEF Environment, RebootWork, OtherReset, StableRun, cmd_golden_attempts, SetPin, Tick,
                Restart, effects, AckedIsSaved
  <1>6. CASE UNCHANGED vars
    BY <1>6 DEF vars, effects, AckedIsSaved
  <1> QED BY <1>2, <1>3, <1>4, <1>5, <1>6 DEF Next, Environment

\* Only Restart moves the boot count, and it loads the settings file.
LEMMA BootLoadsTheFile ==
    ASSUME [Next]_vars, boot' # boot
    PROVE  report' = saved
  <1>1. ~UNCHANGED vars /\ ~(StableRun \/ (\E n \in Attempts : cmd_golden_attempts(n)) \/ SetPin \/ Tick)
    BY DEF vars, StableRun, cmd_golden_attempts, SetPin, Tick, reset
  <1>2. ASSUME NEW s \in Shells, Shell(s) PROVE FALSE
    BY <1>2 DEF Shell, RunCommand, Replied, TryAgain, GiveUp, reset
  <1>3. ASSUME NEW m \in requests, ServeLegacy(m) \/ ServePrepare(m) \/ ServeExecute(m) PROVE FALSE
    BY <1>3 DEF ServeLegacy, ServePrepare, ServeExecute, reset
  <1>4. ASSUME NEW c \in Commands, RunHere(c) PROVE FALSE
    BY <1>4 DEF RunHere, reset
  <1>5. CASE RebootWork \/ OtherReset
    BY <1>5 DEF RebootWork, OtherReset, Restart
  <1> QED BY <1>1, <1>2, <1>3, <1>4, <1>5 DEF Next

\* command_hk_*(): whatever restarts the node, and however many settings were applied
\* and not saved, it comes back with the last report that was answered with OK.
THEOREM AcknowledgedSurvives == Spec => AckedSettingSurvives
  <1>1. Init => AckedIsSaved
    BY DEF Init, AckedIsSaved
  <1>2. AckedIsSaved /\ [Next]_vars => AckedIsSaved'
    BY NextAckedIsSaved
  <1>3. AckedIsSaved /\ [Next]_vars => [boot' # boot => report' = acked]_vars
    BY BootLoadsTheFile DEF AckedIsSaved
  <1> QED BY <1>1, <1>2, <1>3, PTL DEF Spec, AckedSettingSurvives

----------------------------------------------------------------------------
(* What restarts and the recovery image were asked for by. *)

RunsOf(o) == {runs[o][i] : i \in 1..Len(runs[o])}

\* One more entry in a list of runs.
LEMMA OneMore ==
    ASSUME NEW list \in Seq(RunRecord), NEW r \in RunRecord
    PROVE  {Append(list, r)[i] : i \in 1..Len(Append(list, r))} = {list[i] : i \in 1..Len(list)} \cup {r}
  <1>1. /\ Len(Append(list, r)) = Len(list) + 1 /\ Append(list, r)[Len(list) + 1] = r
        /\ \A i \in 1..Len(list) : Append(list, r)[i] = list[i]
        /\ 1..(Len(list) + 1) = (1..Len(list)) \cup {Len(list) + 1}
    OBVIOUS
  <1> QED BY <1>1

\* A handler's run is a new accepted one exactly if it was answered with OK, for such
\* a command, and quoted the pin.
LEMMA AcceptedByRun ==
    ASSUME Typed, NEW o \in 1..Len(cmd), NEW status \in Statuses, Handler(o, status), cmd' = cmd,
           NEW kinds
    PROVE  Accepted(kinds)' = Accepted(kinds) \cup
              (IF cmd[o].kind \in kinds /\ status = "ok" /\ cmd[o].arg = pin
               THEN {Run(cmd[o], status)} ELSE {})
  <1> DEFINE r == Run(cmd[o], status)
  <1>1. r \in RunRecord /\ r.status = status /\ (r.matched <=> cmd[o].arg = pin)
    BY RunTyped
  <1>2. runs[o] \in Seq(RunRecord) /\ runs'[o] = Append(runs[o], r)
        /\ \A p \in 1..Len(cmd) : p # o => runs'[p] = runs[p]
    BY NewRun
  <1> HIDE DEF r
  <1>3. RunsOf(o)' = RunsOf(o) \cup {r}
    BY <1>1, <1>2, OneMore DEF RunsOf
  <1>4. \A p \in 1..Len(cmd) : p # o => RunsOf(p)' = RunsOf(p)
    BY <1>2 DEF RunsOf
  <1>5. Runs(kinds) = UNION {RunsOf(p) : p \in {q \in 1..Len(cmd) : cmd[q].kind \in kinds}}
        /\ Runs(kinds)' = UNION {RunsOf(p)' : p \in {q \in 1..Len(cmd) : cmd[q].kind \in kinds}}
    BY DEF Runs, RunsOf
  <1>6. Runs(kinds)' = Runs(kinds) \cup (IF cmd[o].kind \in kinds THEN {r} ELSE {})
    BY <1>3, <1>4, <1>5
  <1>7. Accepted(kinds)' = {x \in Runs(kinds)' : x.status = "ok" /\ x.matched}
    BY DEF Accepted
  <1> QED BY <1>1, <1>6, <1>7 DEF Accepted, r

\* A command that has just been typed brings the accepted runs that it starts with.
LEMMA AcceptedByTyping ==
    ASSUME Typed, NEW c \in Typing, NEW w \in Words, NEW rs \in Seq(RunRecord), Len(cmd) < MaxOps,
           cmd' = Append(cmd, c), told' = Append(told, w), runs' = Append(runs, rs), NEW kinds
    PROVE  Accepted(kinds)' = Accepted(kinds) \cup
              (IF c.kind \in kinds
               THEN {x \in {rs[i] : i \in 1..Len(rs)} : x.status = "ok" /\ x.matched}
               ELSE {})
  <1>0. PICK n : n = Len(cmd) + 1
    OBVIOUS
  <1>1. /\ Len(cmd') = n /\ 1..n = (1..Len(cmd)) \cup {n} /\ n \notin 1..Len(cmd)
        /\ \A o \in 1..Len(cmd) : cmd'[o] = cmd[o] /\ runs'[o] = runs[o]
        /\ cmd'[n] = c /\ runs'[n] = rs
    BY <1>0, NewCommand, TypedFacts
  <1>2. \A o \in 1..Len(cmd) : RunsOf(o)' = RunsOf(o)
    BY <1>1 DEF RunsOf
  <1>3. RunsOf(n)' = {rs[i] : i \in 1..Len(rs)}
    BY <1>1 DEF RunsOf
  <1>4. \A o : o \in 1..Len(cmd') <=> o = n \/ o \in 1..Len(cmd)
    BY <1>1
  <1>5. Runs(kinds) = UNION {RunsOf(p) : p \in {q \in 1..Len(cmd) : cmd[q].kind \in kinds}}
        /\ Runs(kinds)' = UNION {RunsOf(p)' : p \in {q \in 1..Len(cmd') : cmd'[q].kind \in kinds}}
    BY DEF Runs, RunsOf
  <1>6. Runs(kinds)' = Runs(kinds) \cup (IF c.kind \in kinds THEN RunsOf(n)' ELSE {})
    BY <1>1, <1>2, <1>4, <1>5
  <1>7. Accepted(kinds)' = {x \in Runs(kinds)' : x.status = "ok" /\ x.matched}
    BY DEF Accepted
  <1> QED BY <1>3, <1>6, <1>7 DEF Accepted

\* A step that leaves the commands and their runs alone leaves what was accepted alone.
LEMMA AcceptedKept ==
    ASSUME UNCHANGED <<cmd, runs>>, NEW kinds
    PROVE  Accepted(kinds)' = Accepted(kinds)
  BY DEF Accepted, Runs

\* Every step does one of these to what was accepted: nothing, or it runs a handler
\* whose run is accepted exactly if it is such a command, answered with OK, that quoted
\* the pin.
LEMMA NewlyAccepted ==
    ASSUME Typed, [Next]_vars
    PROVE  \/ UNCHANGED <<rebootAt, install, budget, reset, now>> /\ \A kinds : Accepted(kinds)' = Accepted(kinds)
           \/ Environment /\ \A kinds : Accepted(kinds)' = Accepted(kinds)
           \/ /\ UNCHANGED <<reset, now>>
              /\ \E c, status : /\ status \in Statuses /\ Invoke(c, status)
                                /\ \A kinds : Accepted(kinds)' = Accepted(kinds) \cup
                                      (IF c.kind \in kinds /\ status = "ok" /\ c.arg = pin
                                       THEN {Run(c, status)} ELSE {})
  <1>1. ASSUME NEW s \in Shells, NEW c \in Commands, NEW retry \in Retry, RunCommand(s, c, retry)
        PROVE  UNCHANGED <<rebootAt, install, budget, reset, now>> /\ \A kinds : Accepted(kinds)' = Accepted(kinds)
    <2> DEFINE n == [kind |-> c.kind, arg |-> c.arg, retry |-> retry]
    <2>1. n \in Typing
      BY LinkAssumption DEF Commands, Typing, Argument
    <2>2. "none" \in Words /\ <<>> \in Seq(RunRecord) /\ Len(<<>>) = 0 /\ 1..0 = {}
      BY DEF Words
    <2>3. cmd' = Append(cmd, n) /\ told' = Append(told, "none") /\ runs' = Append(runs, <<>>)
          /\ Len(cmd) < MaxOps /\ UNCHANGED <<rebootAt, install, budget, reset, now>>
      BY <1>1 DEF RunCommand, effects
    <2> HIDE DEF n
    <2>4. ASSUME NEW kinds PROVE Accepted(kinds)' = Accepted(kinds)
      <3>1. PICK rs : rs = <<>>
        OBVIOUS
      <3>2. rs \in Seq(RunRecord) /\ Len(rs) = 0 /\ runs' = Append(runs, rs)
        BY <2>2, <2>3, <3>1
      <3>3. Accepted(kinds)' = Accepted(kinds) \cup
               (IF n.kind \in kinds
                THEN {x \in {rs[i] : i \in 1..Len(rs)} : x.status = "ok" /\ x.matched} ELSE {})
        BY <2>1, <2>2, <2>3, <3>2, AcceptedByTyping
      <3>4. {x \in {rs[i] : i \in 1..Len(rs)} : x.status = "ok" /\ x.matched} = {}
        BY <2>2, <3>2
      <3> QED BY <3>3, <3>4
    <2> QED BY <2>3, <2>4
  <1>2. ASSUME NEW s \in Shells, (\E r \in replies : Replied(s, r)) \/ TryAgain(s) \/ GiveUp(s)
        PROVE  UNCHANGED <<rebootAt, install, budget, reset, now>> /\ \A kinds : Accepted(kinds)' = Accepted(kinds)
    <2>1. UNCHANGED <<rebootAt, install, budget, reset, now>> /\ UNCHANGED <<cmd, runs>>
      BY <1>2 DEF Replied, TryAgain, GiveUp, typed, effects
    <2> QED BY <2>1, AcceptedKept
  <1>3. ASSUME NEW c \in Commands, RunHere(c)
        PROVE  /\ UNCHANGED <<reset, now>>
               /\ \E status \in Statuses :
                     /\ Invoke(c, status)
                     /\ \A kinds : Accepted(kinds)' = Accepted(kinds) \cup
                           (IF c.kind \in kinds /\ status = "ok" /\ c.arg = pin THEN {Run(c, status)} ELSE {})
    <2>1. PICK status \in Statuses : /\ Invoke(c, status)
                                     /\ told' = Append(told, Verdict(status))
                                     /\ runs' = Append(runs, <<Run(c, status)>>)
      BY <1>3 DEF RunHere
    <2> DEFINE n == [kind |-> c.kind, arg |-> c.arg, retry |-> FALSE]
               r == Run(c, status)
    <2>2. n \in Typing /\ n.kind = c.kind
      BY DEF Commands, Typing, Argument
    <2>3. Verdict(status) \in Words
      BY DEF Words, Verdict
    <2>4. r \in RunRecord /\ r.status = status /\ (r.matched <=> c.arg = pin)
      BY RunTyped
    <2>5. cmd' = Append(cmd, n) /\ Len(cmd) < MaxOps /\ UNCHANGED <<reset, now>>
      BY <1>3 DEF RunHere
    <2>6. told' = Append(told, Verdict(status)) /\ runs' = Append(runs, <<r>>)
      BY <2>1
    <2> HIDE DEF n, r
    <2>7. <<r>> \in Seq(RunRecord) /\ {<<r>>[i] : i \in 1..Len(<<r>>)} = {r}
      BY <2>4
    <2>8. ASSUME NEW kinds
          PROVE  Accepted(kinds)' = Accepted(kinds) \cup
                    (IF c.kind \in kinds /\ status = "ok" /\ c.arg = pin THEN {r} ELSE {})
      <3>1. Accepted(kinds)' = Accepted(kinds) \cup
               (IF n.kind \in kinds
                THEN {x \in {<<r>>[i] : i \in 1..Len(<<r>>)} : x.status = "ok" /\ x.matched} ELSE {})
        BY <2>2, <2>3, <2>5, <2>6, <2>7, AcceptedByTyping
      <3> QED BY <2>2, <2>4, <2>7, <3>1
    <2> QED BY <2>1, <2>5, <2>8 DEF r
  <1>4. ASSUME NEW m \in requests, ServeLegacy(m) \/ ServePrepare(m) \/ ServeExecute(m)
        PROVE  \/ UNCHANGED <<rebootAt, install, budget, reset, now>> /\ \A kinds : Accepted(kinds)' = Accepted(kinds)
               \/ /\ UNCHANGED <<reset, now>>
                  /\ \E status \in Statuses :
                        /\ Invoke(cmd[m.op], status)
                        /\ \A kinds : Accepted(kinds)' = Accepted(kinds) \cup
                              (IF cmd[m.op].kind \in kinds /\ status = "ok" /\ cmd[m.op].arg = pin
                               THEN {Run(cmd[m.op], status)} ELSE {})
    <2>1. m.op \in 1..Len(cmd)
      BY TypedFacts DEF Request
    <2>2. cmd' = cmd /\ UNCHANGED <<reset, now>>
      BY <1>4 DEF ServeLegacy, ServePrepare, ServeExecute, typed
    <2>3. (\E status \in Statuses : Handler(m.op, status)) \/ UNCHANGED <<runs, rebootAt, install, budget>>
      BY <1>4 DEF ServeLegacy, ServePrepare, ServeExecute, typed, effects
    <2>4. CASE UNCHANGED <<runs, rebootAt, install, budget>>
      BY <2>2, <2>4, AcceptedKept
    <2>5. ASSUME NEW status \in Statuses, Handler(m.op, status)
          PROVE  /\ Invoke(cmd[m.op], status)
                 /\ \A kinds : Accepted(kinds)' = Accepted(kinds) \cup
                       (IF cmd[m.op].kind \in kinds /\ status = "ok" /\ cmd[m.op].arg = pin
                        THEN {Run(cmd[m.op], status)} ELSE {})
      BY <2>1, <2>2, <2>5, AcceptedByRun DEF Handler
    <2> QED BY <2>2, <2>3, <2>4, <2>5
  <1>5. CASE Environment
    <2>1. UNCHANGED <<cmd, runs>>
      BY <1>5 DEF Environment, RebootWork, OtherReset, Restart, StableRun, cmd_golden_attempts, SetPin, Tick, typed
    <2> QED BY <1>5, <2>1, AcceptedKept
  <1>6. CASE UNCHANGED vars
    <2>1. UNCHANGED <<cmd, runs>> /\ UNCHANGED <<rebootAt, install, budget, reset, now>>
      BY <1>6 DEF vars, typed, effects
    <2> QED BY <2>1, AcceptedKept
  <1>7. CASE \E s \in Shells : Shell(s)
    BY <1>1, <1>2, <1>7 DEF Shell
  <1>8. CASE \E c \in Commands : RunHere(c)
    BY <1>3, <1>8
  <1>9. CASE \E m \in requests : ServeLegacy(m) \/ ServePrepare(m) \/ ServeExecute(m)
    BY <1>4, <1>9
  <1> QED BY <1>5, <1>6, <1>7, <1>8, <1>9 DEF Next, Environment

\* An accepted request is one more moment at which this boot was asked to restart.
LEMMA AskedByRun ==
    ASSUME Typed, NEW c, NEW status \in Statuses, NEW b,
           Accepted(Restarting)' = Accepted(Restarting) \cup
              (IF c.kind \in Restarting /\ status = "ok" /\ c.arg = pin THEN {Run(c, status)} ELSE {})
    PROVE  Asked(b)' = Asked(b) \cup (IF Accepts(c, status) /\ b = boot THEN {now} ELSE {})
  <1> DEFINE r == Run(c, status)
  <1>1. r.boot = boot /\ r.at = now
    BY RunTyped
  <1> HIDE DEF r
  <1>2. Accepted(Restarting)' = Accepted(Restarting) \cup (IF Accepts(c, status) THEN {r} ELSE {})
    BY DEF Accepts, r
  <1> QED BY <1>1, <1>2 DEF Asked

\* What was accepted alike was asked alike.
LEMMA AskedKept ==
    ASSUME Accepted(Restarting)' = Accepted(Restarting), NEW b
    PROVE  Asked(b)' = Asked(b)
  BY DEF Asked

\* A boot is asked to restart only once it has begun, and before it is over.
LEMMA AskedInTime ==
    ASSUME Typed, Timed
    PROVE  /\ Asked(boot + 1) = {}
           /\ \A b : Asked(b) \subseteq 0..now
  <1>1. boot \in Nat
    BY LinkAssumption DEF Typed, TypeOK
  <1> QED BY <1>1 DEF Timed, Asked

\* Every step keeps the moment of each accepted run in the past.
LEMMA NextTimed ==
    ASSUME Typed, Timed, [Next]_vars
    PROVE  Timed'
  <1>0. boot \in Nat /\ now \in Nat
    BY LinkAssumption DEF Typed, TypeOK
  <1>1. CASE UNCHANGED <<rebootAt, install, budget, reset, now>> /\ \A kinds : Accepted(kinds)' = Accepted(kinds)
    BY <1>1 DEF Timed, reset
  <1>2. CASE Environment /\ \A kinds : Accepted(kinds)' = Accepted(kinds)
    <2>1. boot' \in {boot, boot + 1} /\ now' \in {now, now + 1}
      BY <1>2 DEF Environment, RebootWork, OtherReset, Restart, StableRun, cmd_golden_attempts, SetPin, Tick, reset
    <2>2. 0..boot \subseteq 0..boot' /\ 0..now \subseteq 0..now'
      BY <1>0, <2>1
    <2> QED BY <1>2, <2>2 DEF Timed
  <1>3. ASSUME NEW c, NEW status \in Statuses, UNCHANGED <<reset, now>>,
               \A kinds : Accepted(kinds)' = Accepted(kinds) \cup
                  (IF c.kind \in kinds /\ status = "ok" /\ c.arg = pin THEN {Run(c, status)} ELSE {})
        PROVE  Timed'
    <2>1. Run(c, status).boot = boot /\ Run(c, status).at = now
      BY RunTyped
    <2>2. \A x \in Accepted(Restarting)' : x \in Accepted(Restarting) \/ x = Run(c, status)
      BY <1>3
    <2>3. boot \in 0..boot /\ now \in 0..now /\ boot' = boot /\ now' = now
      BY <1>0, <1>3 DEF reset
    <2> QED BY <2>1, <2>2, <2>3 DEF Timed
  <1> QED BY <1>1, <1>2, <1>3, NewlyAccepted

\* Every step keeps restarts where they were asked for.
LEMMA NextAsked ==
    ASSUME Typed, Timed, RestartsAreAskedFor, [Next]_vars
    PROVE  RestartsAreAskedFor'
  <1>0. /\ boot \in Nat /\ now \in Nat /\ DELAY \in Nat /\ rebootAt \in Int /\ Never = -1
        /\ commanded \subseteq [boot : 0..(boot - 1), at : 0..now]
    BY LinkAssumption DEF Typed, TypeOK, Never
  <1>1. ASSUME UNCHANGED <<rebootAt, boot, commanded>>, \A kinds : Accepted(kinds)' = Accepted(kinds)
        PROVE  RestartsAreAskedFor'
    <2>1. \A b : Asked(b)' = Asked(b)
      BY <1>1, AskedKept
    <2>2. Asked(boot)' = Asked(boot) /\ \A c \in commanded : Asked(c.boot)' = Asked(c.boot)
      BY <1>1, <2>1 DEF Asked
    <2> QED BY <1>1, <2>1, <2>2 DEF RestartsAreAskedFor
  <1>2. ASSUME RebootWork \/ OtherReset, \A kinds : Accepted(kinds)' = Accepted(kinds)
        PROVE  RestartsAreAskedFor'
    <2>1. \A b : Asked(b)' = Asked(b)
      BY <1>2, AskedKept
    <2>2. boot' = boot + 1 /\ rebootAt' = Never
      BY <1>2 DEF RebootWork, OtherReset, Restart
    <2>3. Asked(boot') = {}
      BY <2>2, AskedInTime
    <2>4. Asked(boot)' = {}
      BY <1>2, <2>3 DEF Asked
    <2>5. \A x \in commanded' : \E t \in Asked(x.boot) : t + DELAY <= x.at
      <3>1. CASE OtherReset
        BY <3>1 DEF OtherReset, RestartsAreAskedFor
      <3>2. CASE RebootWork
        <4>1. PICK t \in Asked(boot) : t + DELAY = rebootAt
          BY <3>2 DEF RebootWork, RestartsAreAskedFor
        <4>2. t + DELAY <= now
          BY <3>2, <4>1 DEF RebootWork
        <4>3. commanded' = commanded \cup {[boot |-> boot, at |-> now]}
          BY <3>2 DEF RebootWork
        <4> QED BY <4>1, <4>2, <4>3 DEF RestartsAreAskedFor
      <3> QED BY <1>2, <3>1, <3>2
    <2>6. \A x \in commanded' : \E t \in Asked(x.boot)' : t + DELAY <= x.at
      BY <1>2, <2>5 DEF Asked
    <2> QED BY <2>2, <2>4, <2>6 DEF RestartsAreAskedFor
  <1>3. ASSUME NEW c, NEW status \in Statuses, Invoke(c, status), UNCHANGED <<reset, now>>,
               \A kinds : Accepted(kinds)' = Accepted(kinds) \cup
                  (IF c.kind \in kinds /\ status = "ok" /\ c.arg = pin THEN {Run(c, status)} ELSE {})
        PROVE  RestartsAreAskedFor'
    <2>1. ASSUME NEW b
          PROVE  Asked(b)' = Asked(b) \cup (IF Accepts(c, status) /\ b = boot THEN {now} ELSE {})
      BY <1>3, AskedByRun
    <2>2. boot' = boot /\ commanded' = commanded /\ now' = now
      BY <1>3 DEF reset
    <2>3. \A x \in commanded' : \E t \in Asked(x.boot)' : t + DELAY <= x.at
      <3>1. ASSUME NEW x \in commanded PROVE \E t \in Asked(x.boot)' : t + DELAY <= x.at
        <4>1. PICK t \in Asked(x.boot) : t + DELAY <= x.at
          BY DEF RestartsAreAskedFor
        <4>2. t \in Asked(x.boot)'
          BY <2>1, <4>1
        <4> QED BY <4>1, <4>2
      <3> QED BY <2>2, <3>1
    <2>4. CASE Accepts(c, status)
      <3>1. k_work_schedule /\ Asked(boot)' = Asked(boot) \cup {now}
        BY <1>3, <2>1, <2>2, <2>4, HandlerEffect DEF Schedules, Asked
      <3>2. Asked(boot) \subseteq 0..now
        BY AskedInTime
      <3>3. CASE rebootAt = Never
        <4>1. Asked(boot)' = {now} /\ rebootAt' = now + DELAY
          BY <3>1, <3>3 DEF RestartsAreAskedFor, k_work_schedule
        <4>2. rebootAt' # Never
          BY <1>0, <4>1
        <4> QED BY <1>0, <2>3, <4>1, <4>2 DEF RestartsAreAskedFor
      <3>4. CASE rebootAt # Never
        <4>1. rebootAt' = rebootAt
          BY <3>1, <3>4 DEF k_work_schedule
        <4>2. PICK t \in Asked(boot) : t + DELAY = rebootAt
          BY <3>4 DEF RestartsAreAskedFor
        <4>3. rebootAt <= now + DELAY
          BY <1>0, <3>2, <4>2
        <4> QED BY <2>3, <3>1, <3>4, <4>1, <4>2, <4>3 DEF RestartsAreAskedFor
      <3> QED BY <3>3, <3>4
    <2>5. CASE ~Accepts(c, status)
      <3>1. rebootAt' = rebootAt
        BY <1>3, <2>5, HandlerEffect
      <3>2. Asked(boot)' = Asked(boot)
        BY <2>1, <2>2, <2>5 DEF Asked
      <3> QED BY <2>3, <3>1, <3>2 DEF RestartsAreAskedFor
    <2> QED BY <2>4, <2>5
  <1>4. CASE UNCHANGED <<rebootAt, install, budget, reset, now>> /\ \A kinds : Accepted(kinds)' = Accepted(kinds)
    BY <1>1, <1>4 DEF reset
  <1>5. CASE Environment /\ \A kinds : Accepted(kinds)' = Accepted(kinds)
    <2>1. RebootWork \/ OtherReset \/ UNCHANGED <<rebootAt, boot, commanded>>
      BY <1>5 DEF Environment, StableRun, cmd_golden_attempts, SetPin, Tick, reset, effects
    <2> QED BY <1>1, <1>2, <1>5, <2>1
  <1> QED BY <1>3, <1>4, <1>5, NewlyAccepted

\* Every step keeps a request for the recovery image where it was accepted.
LEMMA NextInstallAsked ==
    ASSUME Typed, InstallAsked, [Next]_vars
    PROVE  InstallAsked'
  <1>1. ASSUME \A kinds : Accepted(kinds)' = Accepted(kinds), install' => install /\ boot' = boot
        PROVE  InstallAsked'
    BY <1>1 DEF InstallAsked
  <1>2. CASE Environment /\ \A kinds : Accepted(kinds)' = Accepted(kinds)
    <2>1. install' => install /\ boot' = boot
      BY <1>2 DEF Environment, RebootWork, OtherReset, Restart, StableRun, cmd_golden_attempts, SetPin,
                  Tick, reset, effects
    <2> QED BY <1>1, <1>2, <2>1
  <1>3. ASSUME NEW c, NEW status \in Statuses, Invoke(c, status), UNCHANGED <<reset, now>>,
               \A kinds : Accepted(kinds)' = Accepted(kinds) \cup
                  (IF c.kind \in kinds /\ status = "ok" /\ c.arg = pin THEN {Run(c, status)} ELSE {})
        PROVE  InstallAsked'
    <2>1. boot' = boot /\ Accepted({"golden_install"}) \subseteq Accepted({"golden_install"})'
      BY <1>3 DEF reset
    <2>2. CASE install' = install
      BY <2>1, <2>2 DEF InstallAsked
    <2>3. CASE Accepts(c, status) /\ c.kind = "golden_install"
      <3>1. Run(c, status) \in Accepted({"golden_install"})' /\ Run(c, status).boot = boot
        BY <1>3, <2>3, RunTyped DEF Accepts
      <3> QED BY <2>1, <3>1 DEF InstallAsked
    <2> QED BY <1>3, <2>2, <2>3, HandlerEffect DEF Schedules
  <1>4. CASE UNCHANGED <<rebootAt, install, budget, reset, now>> /\ \A kinds : Accepted(kinds)' = Accepted(kinds)
    BY <1>1, <1>4 DEF reset
  <1> QED BY <1>2, <1>3, <1>4, NewlyAccepted

\* command_reboot(), command_golden_install(): however commands are lost, repeated,
\* delayed or typed at the node, a restart is scheduled exactly when one was accepted
\* with the pin then in force since the node came up, is never moved by a later one,
\* and a boot that a command ended had accepted one a delay before.
THEOREM RestartsAsked == Spec => []RestartsAreAskedFor
  <1>1. Init => Typed /\ Timed /\ RestartsAreAskedFor
    <2> SUFFICES ASSUME Init PROVE Timed /\ RestartsAreAskedFor
      BY InitTyped
    <2>1. Accepted(Restarting) = {}
      BY DEF Init, Accepted, Runs
    <2> QED BY <2>1 DEF Init, Timed, RestartsAreAskedFor, Asked
  <1>2. Typed /\ Timed /\ RestartsAreAskedFor /\ [Next]_vars => (Typed /\ Timed /\ RestartsAreAskedFor)'
    BY NextTyped, NextTimed, NextAsked
  <1> QED BY <1>1, <1>2, PTL DEF Spec

----------------------------------------------------------------------------
(* The boot budget. *)

\* The boots that no command ended are finitely many.
LEMMA UnexplainedFinite == Typed => IsFiniteSet(Unexplained) /\ Cardinality(Unexplained) \in Nat
  <1> SUFFICES ASSUME Typed PROVE IsFiniteSet(Unexplained) /\ Cardinality(Unexplained) \in Nat
    OBVIOUS
  <1>1. filled.boot \in Int /\ boot - 1 \in Int
    BY LinkAssumption DEF Typed, TypeOK
  <1>2. IsFiniteSet(filled.boot..(boot - 1)) /\ Unexplained \subseteq filled.boot..(boot - 1)
    BY <1>1, FS_Interval DEF Unexplained
  <1>3. IsFiniteSet(Unexplained)
    BY <1>2, FS_Subset
  <1> QED BY <1>3, FS_CardinalityType

\* The same after a step.
LEMMA UnexplainedFiniteNext == Typed' => (Cardinality(Unexplained) \in Nat)'
  <1>1. Typed => Cardinality(Unexplained) \in Nat
    BY UnexplainedFinite
  <1> QED BY <1>1, PTL

\* A boot that a command ends is explained, and any other is one more that is not.
LEMMA NewlyUnexplained ==
    ASSUME Typed, boot' = boot + 1, UNCHANGED filled
    PROVE  /\ commanded' = commanded \cup {[boot |-> boot, at |-> now]} => Unexplained' = Unexplained
           /\ commanded' = commanded => Unexplained' = Unexplained \cup {boot} /\ boot \notin Unexplained
  <1>1. /\ boot \in Nat /\ filled.boot \in 0..boot /\ commanded \subseteq [boot : 0..(boot - 1), at : 0..now]
    BY LinkAssumption DEF Typed, TypeOK
  <1>2. /\ filled.boot..(boot' - 1) = (filled.boot..(boot - 1)) \cup {boot}
        /\ boot \notin filled.boot..(boot - 1)
        /\ \A c \in commanded : c.boot # boot
    BY <1>1
  <1>3. Unexplained' = {b \in (filled.boot..(boot - 1)) \cup {boot} : \A c \in commanded' : c.boot # b}
    BY <1>2 DEF Unexplained
  <1>4. ASSUME commanded' = commanded \cup {[boot |-> boot, at |-> now]} PROVE Unexplained' = Unexplained
    <2>1. \A c : c \in commanded' <=> c \in commanded \/ c = [boot |-> boot, at |-> now]
      BY <1>4
    <2>2. [boot |-> boot, at |-> now].boot = boot
      OBVIOUS
    <2>3. \A b : (\A c \in commanded' : c.boot # b) <=> (b # boot /\ \A c \in commanded : c.boot # b)
      BY <2>1, <2>2, Zenon
    <2> QED BY <1>2, <1>3, <2>3 DEF Unexplained
  <1>5. ASSUME commanded' = commanded PROVE Unexplained' = Unexplained \cup {boot} /\ boot \notin Unexplained
    BY <1>2, <1>3, <1>5 DEF Unexplained
  <1> QED BY <1>4, <1>5

\* A restart takes an attempt from the budget only with a boot that no command ended.
LEMMA RestartSpends ==
    ASSUME Typed, Spent, RebootWork \/ OtherReset, UNCHANGED filled,
           left' = left \/ (left' = left - 1 /\ OtherReset)
    PROVE  Spent'
  <1>1. boot' = boot + 1
    BY DEF RebootWork, OtherReset, Restart
  <1>2. left \in Int /\ filled.level \in Int /\ IsFiniteSet(Unexplained) /\ Cardinality(Unexplained) \in Nat
    BY UnexplainedFinite, LinkAssumption DEF Typed, TypeOK
  <1>3. CASE OtherReset
    <2>1. Unexplained' = Unexplained \cup {boot} /\ boot \notin Unexplained
      BY <1>1, <1>3, NewlyUnexplained DEF OtherReset
    <2>2. Cardinality(Unexplained') = Cardinality(Unexplained) + 1
      BY <1>2, <2>1, FS_AddElement
    <2> QED BY <1>2, <2>2 DEF Spent
  <1>4. CASE RebootWork /\ left' = left
    <2>1. Unexplained' = Unexplained
      BY <1>1, <1>4, NewlyUnexplained DEF RebootWork
    <2> QED BY <1>4, <2>1 DEF Spent
  <1> QED BY <1>3, <1>4

\* Every step keeps account of the attempts.
LEMMA NextSpent ==
    ASSUME Typed, Spent, [Next]_vars
    PROVE  Spent'
  <1>1. ASSUME NEW n \in Nat, NEW b, Fill(n, b)
        PROVE  Spent'
    <2>1. left' = n /\ filled'.level = n /\ Cardinality(Unexplained') \in Nat
      <3>1. Typed'
        BY NextTyped
      <3>2. Cardinality(Unexplained') \in Nat
        BY <3>1, UnexplainedFiniteNext
      <3> QED BY <1>1, <3>2 DEF Fill
    <2> QED BY <2>1 DEF Spent
  <1>2. ASSUME UNCHANGED <<budget, reset>>
        PROVE  Spent'
    BY <1>2 DEF Spent, Unexplained, budget, reset
  <1>3. CASE RebootWork \/ OtherReset
    <2>1. \/ \E b : Fill(BUDGET, b)
          \/ UNCHANGED filled /\ (left' = left \/ (left' = left - 1 /\ OtherReset))
      BY <1>3 DEF RebootWork, OtherReset, Restart, Early, budget
    <2> QED BY <1>1, <1>3, <2>1, RestartSpends, LinkAssumption
  <1>4. CASE StableRun \/ \E n \in Attempts : cmd_golden_attempts(n)
    BY <1>1, <1>4, LinkAssumption DEF StableRun, cmd_golden_attempts
  <1>5. CASE SetPin \/ Tick
    BY <1>2, <1>5 DEF SetPin, Tick, effects
  <1>6. ASSUME NEW c, NEW status, Invoke(c, status), UNCHANGED <<reset, now>>
        PROVE  Spent'
    BY <1>1, <1>2, <1>6, HandlerEffect, LinkAssumption DEF Schedules
  <1> QED BY <1>2, <1>3, <1>4, <1>5, <1>6, NewlyAccepted DEF Environment

\* Only a restart changes the image.
LEMMA ImageChanges ==
    ASSUME Typed, [Next]_vars, image' # image
    PROVE  \/ install
           \/ commanded' = commanded /\ left = 0
  <1>1. RebootWork \/ OtherReset
    BY NewlyAccepted DEF Environment, StableRun, cmd_golden_attempts, SetPin, Tick, reset
  <1>2. \E cause : Restart(cause) /\ (cause = "other" => commanded' = commanded)
    BY <1>1 DEF RebootWork, OtherReset
  <1> QED BY <1>2 DEF Restart, Early, Typed, TypeOK

\* docs/architecture/fault-recovery.md: whatever restarts, refills and commands come
\* before, the recovery image comes in only for a golden_install that was accepted in
\* the boot that ends, or for a reset that no command explains after as many of them
\* as there were attempts.
THEOREM RecoveryEarned == Spec => RecoveryIsEarned
  <1> DEFINE Inv == Typed /\ InstallAsked /\ Spent
  <1>1. Init => Inv
    <2> SUFFICES ASSUME Init PROVE InstallAsked /\ Spent
      BY InitTyped
    <2>1. Cardinality(Unexplained) \in Nat
      BY InitTyped, UnexplainedFinite
    <2> QED BY <2>1, LinkAssumption DEF Init, InstallAsked, Spent
  <1>2. Inv /\ [Next]_vars => Inv'
    BY NextTyped, NextInstallAsked, NextSpent
  <1>3. Inv /\ [Next]_vars => [image' # image =>
                                 \/ \E r \in Accepted({"golden_install"}) : r.boot = boot
                                 \/ /\ commanded' = commanded
                                    /\ Cardinality(Unexplained) >= filled.level]_vars
    <2> SUFFICES ASSUME Inv, [Next]_vars, image' # image
                 PROVE  \/ \E r \in Accepted({"golden_install"}) : r.boot = boot
                        \/ commanded' = commanded /\ Cardinality(Unexplained) >= filled.level
      OBVIOUS
    <2>1. CASE install
      BY <2>1 DEF InstallAsked
    <2>2. CASE commanded' = commanded /\ left = 0
      <3>1. Cardinality(Unexplained) \in Nat
        BY UnexplainedFinite
      <3> QED BY <2>2, <3>1 DEF Spent
    <2> QED BY <2>1, <2>2, ImageChanges
  <1> QED BY <1>1, <1>2, <1>3, PTL DEF Spec, RecoveryIsEarned

----------------------------------------------------------------------------
(* Ticketed commands. *)

\* What typing a command, at a shell or at the node, does to the lists.
LEMMA TypedOne ==
    ASSUME Typed, NEW c \in Commands,
           \/ \E s \in Shells, retry \in Retry : RunCommand(s, c, retry)
           \/ RunHere(c)
    PROVE  /\ Len(cmd') = Len(cmd) + 1 /\ 1..Len(cmd') = (1..Len(cmd)) \cup {Len(cmd) + 1}
           /\ Len(cmd) + 1 \notin 1..Len(cmd)
           /\ \A o \in 1..Len(cmd) : cmd'[o] = cmd[o] /\ told'[o] = told[o] /\ runs'[o] = runs[o]
           /\ UNCHANGED <<replies, tickets, issued>>
  <1>1. ASSUME NEW s \in Shells, NEW retry \in Retry, RunCommand(s, c, retry)
        PROVE  /\ Len(cmd') = Len(cmd) + 1
               /\ \A o \in 1..Len(cmd) : cmd'[o] = cmd[o] /\ told'[o] = told[o] /\ runs'[o] = runs[o]
               /\ UNCHANGED <<replies, tickets, issued>>
    <2> DEFINE n == [kind |-> c.kind, arg |-> c.arg, retry |-> retry]
    <2>1. cmd' = Append(cmd, n) /\ told' = Append(told, "none") /\ runs' = Append(runs, <<>>)
          /\ UNCHANGED <<replies, tickets, issued>>
      BY <1>1 DEF RunCommand, table
    <2> HIDE DEF n
    <2> QED BY <2>1, TypedFacts DEF Typed, Elements
  <1>2. ASSUME RunHere(c)
        PROVE  /\ Len(cmd') = Len(cmd) + 1
               /\ \A o \in 1..Len(cmd) : cmd'[o] = cmd[o] /\ told'[o] = told[o] /\ runs'[o] = runs[o]
               /\ UNCHANGED <<replies, tickets, issued>>
    <2>1. PICK n, w, rs : cmd' = Append(cmd, n) /\ told' = Append(told, w) /\ runs' = Append(runs, rs)
      BY <1>2 DEF RunHere
    <2>2. UNCHANGED <<replies, tickets, issued>>
      BY <1>2 DEF RunHere, wire, table
    <2> QED BY <2>1, <2>2, TypedFacts DEF Typed, Elements
  <1>3. Len(cmd) \in Nat
    BY TypedFacts
  <1>4. Len(cmd') = Len(cmd) + 1
    BY <1>1, <1>2
  <1> QED BY <1>1, <1>2, <1>3, <1>4

\* The last entries after RunCommand().
LEMMA TypedLast ==
    ASSUME Typed, NEW s \in Shells, NEW c \in Commands, NEW retry \in Retry, RunCommand(s, c, retry)
    PROVE  /\ cmd'[Len(cmd) + 1].retry = retry
           /\ told'[Len(cmd) + 1] = "none" /\ runs'[Len(cmd) + 1] = <<>>
           /\ ~Asking(s)
           /\ call'[s] = [op |-> Len(cmd) + 1, phase |-> FirstPhase(retry), tries |-> 1, ticket |-> 0]
           /\ \A u \in Shells : u # s => call'[u] = call[u]
           /\ requests' = requests \cup {[op |-> Len(cmd) + 1, phase |-> FirstPhase(retry), ticket |-> 0]}
  <1>1. cmd' = Append(cmd, [kind |-> c.kind, arg |-> c.arg, retry |-> retry])
        /\ told' = Append(told, "none") /\ runs' = Append(runs, <<>>) /\ call[s] = Idle
    BY DEF RunCommand
  <1>2. told'[Len(cmd) + 1] = "none" /\ runs'[Len(cmd) + 1] = <<>>
    BY <1>1, TypedFacts DEF Typed, Elements
  <1>3. cmd'[Len(cmd) + 1].retry = retry
    BY <1>1, TypedFacts DEF Typed, Elements
  <1>4. ~Asking(s)
    BY <1>1 DEF Asking, Idle
  <1>5. call \in [Shells -> Waiting]
    BY DEF Typed, TypeOK
  <1> QED BY <1>2, <1>3, <1>4, <1>5 DEF RunCommand, Ask

\* The last entries after RunHere().
LEMMA TypedHere ==
    ASSUME Typed, NEW c \in Commands, RunHere(c)
    PROVE  ~cmd'[Len(cmd) + 1].retry /\ UNCHANGED <<call, requests>>
  <1>1. cmd' = Append(cmd, [kind |-> c.kind, arg |-> c.arg, retry |-> FALSE])
    BY DEF RunHere
  <1>2. cmd'[Len(cmd) + 1] = [kind |-> c.kind, arg |-> c.arg, retry |-> FALSE]
    BY <1>1, TypedFacts DEF Typed, Elements
  <1> QED BY <1>2 DEF RunHere, wire

\* What a shell does with a reply: it goes on to execute, or it is done.
LEMMA RepliedCases ==
    ASSUME Typed, NEW s \in Shells, NEW r \in replies, Replied(s, r)
    PROVE  /\ Asking(s) /\ r.op = call[s].op /\ r.phase = call[s].phase /\ r.op \in 1..Len(cmd)
           /\ UNCHANGED <<cmd, runs, replies, tickets, issued>>
           /\ \/ /\ r.phase = "prepare" /\ r.status = "ok" /\ told' = told
                 /\ call'[s].op = r.op /\ call'[s].phase = "execute" /\ call'[s].ticket = r.ticket
                 /\ \A u \in Shells : u # s => call'[u] = call[u]
                 /\ requests' = requests \cup {[op |-> r.op, phase |-> "execute", ticket |-> r.ticket]}
              \/ /\ ~(r.phase = "prepare" /\ r.status = "ok")
                 /\ Done(s, r.status) /\ requests' = requests
  <1>1. r \in Answer(Len(cmd), issued)
    BY TypedFacts
  <1>2. Asking(s) /\ r.op = call[s].op /\ r.phase = call[s].phase /\ r.op \in 1..Len(cmd)
    BY <1>1 DEF Replied, Asking, Answer, Phases
  <1>3. UNCHANGED <<cmd, runs, replies, tickets, issued>>
    BY DEF Replied, table
  <1>4. CASE r.phase = "prepare" /\ r.status = "ok"
    <2>1. call' = [call EXCEPT ![s] = [call[s] EXCEPT !.phase = "execute", !.tries = 1, !.ticket = r.ticket]]
          /\ requests' = requests \cup {[op |-> r.op, phase |-> "execute", ticket |-> r.ticket]}
          /\ told' = told
      BY <1>4 DEF Replied, Ask
    <2>2. call \in [Shells -> Waiting] /\ call[s] \in Waiting
      BY CallTyped DEF Typed, TypeOK
    <2>3. call'[s] = [call[s] EXCEPT !.phase = "execute", !.tries = 1, !.ticket = r.ticket]
          /\ \A u \in Shells : u # s => call'[u] = call[u]
      BY <2>1, <2>2
    <2>4. call'[s].op = call[s].op /\ call'[s].phase = "execute" /\ call'[s].ticket = r.ticket
      BY <2>2, <2>3 DEF Waiting
    <2> QED BY <1>2, <1>3, <1>4, <2>1, <2>3, <2>4
  <1>5. CASE ~(r.phase = "prepare" /\ r.status = "ok")
    BY <1>2, <1>3, <1>5 DEF Replied, Verdict
  <1> QED BY <1>4, <1>5

\* A repeated request.
LEMMA TriedAgain ==
    ASSUME Typed, NEW s \in Shells, TryAgain(s)
    PROVE  /\ Asking(s) /\ call[s].phase \in {"prepare", "execute"}
           /\ UNCHANGED <<cmd, told, runs, replies, tickets, issued>>
           /\ \A u \in Shells : /\ call'[u].op = call[u].op /\ call'[u].phase = call[u].phase
                                /\ call'[u].ticket = call[u].ticket
           /\ requests' = requests \cup {[op |-> call[s].op, phase |-> call[s].phase, ticket |-> call[s].ticket]}
  <1>1. call \in [Shells -> Waiting] /\ call[s] \in Waiting
    BY CallTyped DEF Typed, TypeOK
  <1>2. call' = [call EXCEPT ![s] = [call[s] EXCEPT !.tries = call[s].tries + 1]]
    BY DEF TryAgain
  <1>3. \A u \in Shells : /\ call'[u].op = call[u].op /\ call'[u].phase = call[u].phase
                          /\ call'[u].ticket = call[u].ticket
    BY <1>1, <1>2 DEF Waiting
  <1> QED BY <1>3 DEF TryAgain, Asking, Ask, typed, table

\* The shell is done, with a reply or without.
LEMMA SaidDone ==
    ASSUME Typed, NEW s \in Shells, Asking(s), NEW w \in Words, Done(s, w)
    PROVE  /\ call[s].op \in 1..Len(cmd) /\ told'[call[s].op] = w
           /\ \A p \in 1..Len(cmd) : p # call[s].op => told'[p] = told[p]
           /\ ~Asking(s)' /\ \A u \in Shells : u # s => call'[u] = call[u]
           /\ \A u \in Shells : Asking(u)' => u # s /\ call'[u] = call[u] /\ Asking(u)
  <1>1. call[s].op \in 1..Len(cmd) /\ Idle.phase = "idle"
    BY DEF Typed, Elements, Idle
  <1>2. told'[call[s].op] = w /\ \A p \in 1..Len(cmd) : p # call[s].op => told'[p] = told[p]
    BY <1>1, SaysDone
  <1>3. call'[s] = Idle /\ \A u \in Shells : u # s => call'[u] = call[u]
    BY <1>1, SaysDone
  <1>4. ~Asking(s)'
    BY <1>1, <1>3 DEF Asking
  <1>5. \A u \in Shells : Asking(u)' => u # s /\ call'[u] = call[u] /\ Asking(u)
    BY <1>3, <1>4 DEF Asking
  <1> QED BY <1>1, <1>2, <1>3, <1>4, <1>5

\* The step that a restart, the clock or the pin makes for tickets and messages.
LEMMA Elsewhere ==
    ASSUME Environment \/ UNCHANGED vars
    PROVE  UNCHANGED <<cmd, told, runs, call, requests, replies, issued>> /\ tickets' \subseteq tickets
  BY DEF Environment, RebootWork, OtherReset, Restart, StableRun, cmd_golden_attempts, SetPin, Tick,
         vars, typed, wire, table

\* A request that the node serves is one of the requests, and it adds one reply to it.
LEMMA Served ==
    ASSUME Typed, NEW m \in requests, ServeLegacy(m) \/ ServePrepare(m) \/ ServeExecute(m)
    PROVE  /\ UNCHANGED <<cmd, told, call, requests>>
           /\ m.op \in 1..Len(cmd) /\ m.phase \in Phases /\ m.ticket \in 0..issued
           /\ \E w, k : replies' = replies \cup {[op |-> m.op, phase |-> m.phase, status |-> w, ticket |-> k]}
  <1>1. m \in Request(Len(cmd), issued)
    BY TypedFacts
  <1>2. m.op \in 1..Len(cmd) /\ m.phase \in Phases /\ m.ticket \in 0..issued
    BY <1>1 DEF Request
  <1>3. \E w, k : Reply(m, w, k)
    BY DEF ServeLegacy, ServePrepare, ServeExecute
  <1>4. UNCHANGED <<cmd, told, call, requests>>
    BY DEF ServeLegacy, ServePrepare, ServeExecute, typed
  <1> QED BY <1>2, <1>3, <1>4 DEF Reply

\* A request or a reply is about a command that was typed.
LEMMA AboutTyped ==
    ASSUME Typed
    PROVE  /\ \A m \in requests \cup replies : m.op \in 1..Len(cmd)
           /\ \A t \in tickets : t.op \in 1..Len(cmd) /\ t.id \in 1..issued
           /\ \A s \in Shells : Asking(s) => call[s].op \in 1..Len(cmd)
  BY TypedFacts DEF Request, Answer, Ticket, Typed, Elements

\* Every step leaves each call with its own shell.
LEMMA NextCalls ==
    ASSUME Typed, CallsAreTheirOwn, [Next]_vars
    PROVE  CallsAreTheirOwn'
  <1> USE AboutTyped DEF CallsAreTheirOwn
  <1>1. ASSUME NEW s \in Shells, NEW c \in Commands, NEW retry \in Retry, RunCommand(s, c, retry)
        PROVE  CallsAreTheirOwn'
    <2>1. PICK n : n = Len(cmd) + 1
      OBVIOUS
    <2>2. /\ n \notin 1..Len(cmd) /\ UNCHANGED replies
          /\ \A o \in 1..Len(cmd) : cmd'[o] = cmd[o] /\ told'[o] = told[o]
      BY <1>1, <2>1, TypedOne
    <2>3. /\ cmd'[n].retry = retry /\ told'[n] = "none" /\ ~Asking(s)
          /\ call'[s] = [op |-> n, phase |-> FirstPhase(retry), tries |-> 1, ticket |-> 0]
          /\ \A u \in Shells : u # s => call'[u] = call[u]
          /\ requests' = requests \cup {[op |-> n, phase |-> FirstPhase(retry), ticket |-> 0]}
      BY <1>1, <2>1, TypedLast
    <2>4. FirstPhase(retry) # "idle" /\ (FirstPhase(retry) # "legacy" <=> retry)
      BY DEF FirstPhase
    <2>5. call'[s].op = n /\ call'[s].phase = FirstPhase(retry)
      BY <2>3
    <2>6. \A u \in Shells : u # s /\ Asking(u)' => Asking(u) /\ call'[u] = call[u] /\ call'[u].op \in 1..Len(cmd)
      BY <2>3 DEF Asking
    <2>7. \A u \in Shells : Asking(u)' => told'[call'[u].op] = "none" /\ (call'[u].phase # "legacy" <=> cmd'[call'[u].op].retry)
      BY <2>2, <2>3, <2>4, <2>5, <2>6
    <2>8. \A u, v \in Shells : Asking(u)' /\ Asking(v)' /\ call'[u].op = call'[v].op => u = v
      BY <2>2, <2>5, <2>6
    <2>9. \A m \in requests' \cup replies' : m.phase # "legacy" <=> cmd'[m.op].retry
      <3>1. ASSUME NEW m \in requests \cup replies PROVE m.phase # "legacy" <=> cmd'[m.op].retry
        BY <2>2
      <3>2. \A m \in {[op |-> n, phase |-> FirstPhase(retry), ticket |-> 0]} : m.phase # "legacy" <=> cmd'[m.op].retry
        BY <2>3, <2>4
      <3> QED BY <2>2, <2>3, <3>1, <3>2
    <2> QED BY <2>7, <2>8, <2>9
  <1>2. ASSUME NEW s \in Shells, NEW w \in Words, Asking(s), Done(s, w), UNCHANGED <<cmd, requests, replies>>
        PROVE  CallsAreTheirOwn'
    <2>1. /\ \A p \in 1..Len(cmd) : p # call[s].op => told'[p] = told[p]
          /\ \A u \in Shells : Asking(u)' => u # s /\ call'[u] = call[u] /\ Asking(u)
      BY <1>2, SaidDone
    <2>2. \A u \in Shells : Asking(u)' => call[u].op # call[s].op
      BY <1>2, <2>1
    <2> QED BY <1>2, <2>1, <2>2
  <1>3. ASSUME NEW s \in Shells, NEW r \in replies, Replied(s, r)
        PROVE  CallsAreTheirOwn'
    <2>1. /\ Asking(s) /\ r.op = call[s].op /\ r.phase = call[s].phase
          /\ UNCHANGED <<cmd, replies>> /\ r.op \in 1..Len(cmd)
      BY <1>3, RepliedCases
    <2>2. CASE Done(s, r.status) /\ requests' = requests
      <3>1. r.status \in Words
        BY TypedFacts DEF Answer, Words
      <3> QED BY <1>2, <2>1, <2>2, <3>1
    <2>3. CASE /\ r.phase = "prepare" /\ told' = told
               /\ call'[s].op = r.op /\ call'[s].phase = "execute"
               /\ \A u \in Shells : u # s => call'[u] = call[u]
               /\ requests' = requests \cup {[op |-> r.op, phase |-> "execute", ticket |-> r.ticket]}
      <3>1. cmd[r.op].retry
        BY <2>1, <2>3
      <3>2. \A u \in Shells : call'[u].op = call[u].op /\ (Asking(u)' <=> Asking(u))
        BY <2>1, <2>3 DEF Asking
      <3>3. \A u \in Shells : call'[u].phase # "legacy" <=> call[u].phase # "legacy"
        BY <2>1, <2>3
      <3>4. \A m \in {[op |-> r.op, phase |-> "execute", ticket |-> r.ticket]} : m.phase # "legacy" <=> cmd'[m.op].retry
        BY <2>1, <3>1
      <3>5. \A m \in requests' \cup replies' : m.phase # "legacy" <=> cmd'[m.op].retry
        BY <2>1, <2>3, <3>4
      <3> QED BY <2>1, <2>3, <3>2, <3>3, <3>5
    <2> QED BY <1>3, <2>2, <2>3, RepliedCases
  <1>4. ASSUME NEW s \in Shells, TryAgain(s)
        PROVE  CallsAreTheirOwn'
    <2>1. /\ Asking(s) /\ call[s].phase \in {"prepare", "execute"} /\ UNCHANGED <<cmd, told, replies>>
          /\ \A u \in Shells : call'[u].op = call[u].op /\ call'[u].phase = call[u].phase
          /\ requests' = requests \cup {[op |-> call[s].op, phase |-> call[s].phase, ticket |-> call[s].ticket]}
      BY <1>4, TriedAgain
    <2>2. \A u \in Shells : Asking(u)' <=> Asking(u)
      BY <2>1 DEF Asking
    <2>3. \A m \in {[op |-> call[s].op, phase |-> call[s].phase, ticket |-> call[s].ticket]} :
             m.phase # "legacy" <=> cmd'[m.op].retry
      BY <2>1
    <2>4. \A m \in requests' \cup replies' : m.phase # "legacy" <=> cmd'[m.op].retry
      BY <2>1, <2>3
    <2> QED BY <2>1, <2>2, <2>4
  <1>5. ASSUME NEW s \in Shells, GiveUp(s)
        PROVE  CallsAreTheirOwn'
    BY <1>2, <1>5 DEF GiveUp, Asking, Words, wire
  <1>6. ASSUME NEW c \in Commands, RunHere(c)
        PROVE  CallsAreTheirOwn'
    <2>1. /\ UNCHANGED <<replies, call, requests>>
          /\ \A o \in 1..Len(cmd) : cmd'[o] = cmd[o] /\ told'[o] = told[o]
      BY <1>6, TypedOne, TypedHere
    <2>2. \A u \in Shells : Asking(u)' <=> Asking(u)
      BY <2>1 DEF Asking
    <2> QED BY <2>1, <2>2
  <1>7. ASSUME NEW m \in requests, ServeLegacy(m) \/ ServePrepare(m) \/ ServeExecute(m)
        PROVE  CallsAreTheirOwn'
    <2>1. UNCHANGED <<cmd, told, call, requests>>
      BY <1>7, Served
    <2>2. PICK w, k : replies' = replies \cup {[op |-> m.op, phase |-> m.phase, status |-> w, ticket |-> k]}
      BY <1>7, Served
    <2>3. \A r \in {[op |-> m.op, phase |-> m.phase, status |-> w, ticket |-> k]} : r.phase # "legacy" <=> cmd'[r.op].retry
      BY <2>1
    <2>4. \A r \in requests' \cup replies' : r.phase # "legacy" <=> cmd'[r.op].retry
      BY <2>1, <2>2, <2>3
    <2>5. \A u \in Shells : Asking(u)' <=> Asking(u)
      BY <2>1 DEF Asking
    <2> QED BY <2>1, <2>4, <2>5
  <1>8. CASE Environment \/ UNCHANGED vars
    <2>1. UNCHANGED <<cmd, told, call, requests, replies>>
      BY <1>8, Elsewhere
    <2> QED BY <2>1 DEF Asking
  <1> QED BY <1>1, <1>3, <1>4, <1>5, <1>6, <1>7, <1>8 DEF Next, Shell, Environment

\* Every step leaves each command with at most one ticket to execute it with.
LEMMA NextOneTicket ==
    ASSUME Typed, CallsAreTheirOwn, OneTicket, [Next]_vars
    PROVE  OneTicket'
  <1> USE AboutTyped DEF OneTicket, Executes
  <1>1. ASSUME NEW s \in Shells, NEW c \in Commands, NEW retry \in Retry, RunCommand(s, c, retry)
        PROVE  OneTicket'
    <2>1. PICK n : n = Len(cmd) + 1
      OBVIOUS
    <2>2. n \notin 1..Len(cmd)
      BY <1>1, <2>1, TypedOne
    <2>3. /\ call'[s] = [op |-> n, phase |-> FirstPhase(retry), tries |-> 1, ticket |-> 0]
          /\ \A u \in Shells : u # s => call'[u] = call[u]
          /\ requests' = requests \cup {[op |-> n, phase |-> FirstPhase(retry), ticket |-> 0]}
      BY <1>1, <2>1, TypedLast
    <2>4. FirstPhase(retry) # "execute"
      BY DEF FirstPhase
    <2>5. \A m \in requests' : m.phase = "execute" => m \in requests /\ m.op # n
      BY <2>2, <2>3, <2>4
    <2>6. call'[s].op = n /\ call'[s].phase # "execute"
      BY <2>3, <2>4
    <2>7. \A u \in Shells : u = s \/ call'[u] = call[u]
      BY <2>3
    <2> QED BY <2>5, <2>6, <2>7
  <1>2. ASSUME NEW s \in Shells, NEW w \in Words, Asking(s), Done(s, w), UNCHANGED requests
        PROVE  OneTicket'
    <2>1. /\ ~Asking(s)'
          /\ \A u \in Shells : u # s => call'[u] = call[u]
      BY <1>2, SaidDone
    <2>2. call'[s].phase = "idle"
      BY <2>1 DEF Asking
    <2>3. \A u \in Shells : u = s \/ call'[u] = call[u]
      BY <2>1
    <2> QED BY <1>2, <2>2, <2>3
  <1>3. ASSUME NEW s \in Shells, NEW r \in replies, Replied(s, r)
        PROVE  OneTicket'
    <2>1. Asking(s) /\ r.op = call[s].op /\ r.phase = call[s].phase /\ r.op \in 1..Len(cmd)
      BY <1>3, RepliedCases
    <2>2. CASE Done(s, r.status) /\ requests' = requests
      <3>1. r.status \in Words
        BY TypedFacts DEF Answer, Words
      <3> QED BY <1>2, <2>1, <2>2, <3>1
    <2>3. CASE /\ r.phase = "prepare"
               /\ call'[s].op = r.op /\ call'[s].phase = "execute" /\ call'[s].ticket = r.ticket
               /\ \A u \in Shells : u # s => call'[u] = call[u]
               /\ requests' = requests \cup {[op |-> r.op, phase |-> "execute", ticket |-> r.ticket]}
      <3>1. \A m \in requests : m.phase = "execute" => m.op # r.op
        BY <2>1, <2>3
      <3>2. \A m \in requests' : m.phase = "execute" =>
               (m.op = r.op /\ m.ticket = r.ticket) \/ (m \in requests /\ m.op # r.op)
        BY <2>3, <3>1
      <3>3. \A u \in Shells : u # s /\ Asking(u) => call[u].op # r.op
        BY <2>1 DEF CallsAreTheirOwn
      <3>4. \A u \in Shells : u # s => call'[u] = call[u] /\ (call[u].phase \in {"prepare", "execute"} => call[u].op # r.op)
        BY <2>3, <3>3 DEF Asking
      <3>5. \A u \in Shells : call'[u].phase = "prepare" => \A m \in requests' : ~(m.op = call'[u].op /\ m.phase = "execute")
        BY <2>3, <3>2, <3>4
      <3>6. \A u \in Shells : call'[u].phase = "execute" =>
               \A m \in requests' : m.op = call'[u].op /\ m.phase = "execute" => m.ticket = call'[u].ticket
        BY <2>3, <3>2, <3>4
      <3>7. \A m, n \in requests' : m.phase = "execute" /\ n.phase = "execute" /\ m.op = n.op => m.ticket = n.ticket
        BY <3>2
      <3> QED BY <3>5, <3>6, <3>7
    <2> QED BY <1>3, <2>2, <2>3, RepliedCases
  <1>4. ASSUME NEW s \in Shells, TryAgain(s)
        PROVE  OneTicket'
    <2>1. /\ Asking(s) /\ call[s].phase \in {"prepare", "execute"}
          /\ \A u \in Shells : call'[u].op = call[u].op /\ call'[u].phase = call[u].phase
                               /\ call'[u].ticket = call[u].ticket
          /\ requests' = requests \cup {[op |-> call[s].op, phase |-> call[s].phase, ticket |-> call[s].ticket]}
      BY <1>4, TriedAgain
    <2>2. \A u \in Shells : u # s /\ Asking(u) => call[u].op # call[s].op
      BY <2>1 DEF CallsAreTheirOwn
    <2>3. \A m \in requests' : m.phase = "execute" =>
             m \in requests \/ (call[s].phase = "execute" /\ m.op = call[s].op /\ m.ticket = call[s].ticket)
      BY <2>1
    <2>4. \A u \in Shells : call[u].phase \in {"prepare", "execute"} => Asking(u)
      BY DEF Asking
    <2>5. \A u \in Shells : call'[u].phase = "prepare" => \A m \in requests' : ~(m.op = call'[u].op /\ m.phase = "execute")
      BY <2>1, <2>2, <2>3, <2>4
    <2>6. \A u \in Shells : call'[u].phase = "execute" =>
             \A m \in requests' : m.op = call'[u].op /\ m.phase = "execute" => m.ticket = call'[u].ticket
      BY <2>1, <2>2, <2>3, <2>4
    <2>7. \A m, n \in requests' : m.phase = "execute" /\ n.phase = "execute" /\ m.op = n.op => m.ticket = n.ticket
      BY <2>3
    <2> QED BY <2>5, <2>6, <2>7
  <1>5. ASSUME NEW s \in Shells, GiveUp(s)
        PROVE  OneTicket'
    BY <1>2, <1>5 DEF GiveUp, Asking, Words, wire
  <1>6. ASSUME UNCHANGED <<call, requests>>
        PROVE  OneTicket'
    BY <1>6
  <1>7. ASSUME NEW m \in requests, ServeLegacy(m) \/ ServePrepare(m) \/ ServeExecute(m)
        PROVE  OneTicket'
    BY <1>6, <1>7, Served
  <1>8. ASSUME NEW c \in Commands, RunHere(c)
        PROVE  OneTicket'
    BY <1>6, <1>8, TypedHere
  <1>9. CASE Environment \/ UNCHANGED vars
    BY <1>6, <1>9, Elsewhere
  <1> QED BY <1>1, <1>3, <1>4, <1>5, <1>7, <1>8, <1>9 DEF Next, Shell, Environment

\* A ticket that has not been used yet belongs to a command that has not run.
LEMMA FirstRun ==
    ASSUME Typed, CallsAreTheirOwn, TicketsRecord, NEW m \in requests, m.phase = "execute",
           NEW t \in tickets, t.id = m.ticket, t.result = "none"
    PROVE  runs[m.op] = <<>> /\ cmd[m.op].retry
  BY DEF CallsAreTheirOwn, TicketsRecord

\* The handler's first run is the command's only one.
LEMMA ExecutedRun ==
    ASSUME Typed, NEW o \in 1..Len(cmd), runs[o] = <<>>, NEW status \in Statuses, Handler(o, status)
    PROVE  Ran(o, status)' /\ runs'[o] # <<>>
  <1> DEFINE r == Run(cmd[o], status)
  <1>1. runs'[o] = Append(<<>>, r)
    BY NewRun
  <1>2. r.status = status
    BY RunTyped
  <1> HIDE DEF r
  <1>3. runs'[o] = <<r>>
    BY <1>1
  <1> QED BY <1>2, <1>3 DEF Ran

\* The three things that the node does with a request to execute.
LEMMA ExecuteCases ==
    ASSUME Ticketed, NEW m \in requests, ServeExecute(m)
    PROVE  /\ m.phase = "execute" /\ m.op \in 1..Len(cmd) /\ cmd[m.op].retry
           /\ \/ \E t \in tickets, status \in Statuses :
                   /\ t.id = m.ticket /\ t.op = m.op /\ t.result = "none"
                   /\ runs[m.op] = <<>> /\ Handler(m.op, status) /\ Ran(m.op, status)' /\ runs'[m.op] # <<>>
                   /\ \A o \in 1..Len(cmd) : o # m.op => runs'[o] = runs[o]
                   /\ tickets' = (tickets \ {t}) \cup {[t EXCEPT !.result = status]}
                   /\ Reply(m, status, m.ticket)
              \/ /\ UNCHANGED <<runs, tickets>>
                 /\ \E w : /\ w # "busy" /\ (w # "unavailable" => Ran(m.op, w))
                           /\ Reply(m, w, m.ticket)
  <1> USE DEF Ticketed
  <1>1. m.phase = "execute" /\ m.op \in 1..Len(cmd) /\ cmd[m.op].retry
    BY AboutTyped DEF ServeExecute, CallsAreTheirOwn
  <1>2. ASSUME NEW t \in Live, NEW status \in Statuses,
               t.id = m.ticket, t.op = m.op, t.result = "none", Handler(m.op, status),
               tickets' = (tickets \ {t}) \cup {[t EXCEPT !.result = status]},
               Reply(m, status, m.ticket)
        PROVE  /\ runs[m.op] = <<>> /\ Ran(m.op, status)' /\ runs'[m.op] # <<>>
               /\ \A o \in 1..Len(cmd) : o # m.op => runs'[o] = runs[o]
               /\ t \in tickets
    <2>1. t \in tickets
      BY DEF Live
    <2>2. runs[m.op] = <<>>
      BY <1>1, <1>2, <2>1, FirstRun
    <2>3. PICK o \in 1..Len(cmd) : o = m.op
      BY <1>1
    <2>4. Ran(o, status)' /\ runs'[o] # <<>>
      BY <1>2, <2>2, <2>3, ExecutedRun
    <2>5. \A p \in 1..Len(cmd) : p # o => runs'[p] = runs[p]
      BY <1>2, <2>3, NewRun
    <2> QED BY <2>1, <2>2, <2>3, <2>4, <2>5 DEF Ran
  <1>3. ASSUME NEW t \in Live, t.op = m.op, t.result # "none", Reply(m, t.result, m.ticket)
        PROVE  t.result # "busy" /\ Ran(m.op, t.result)
    <2>1. t \in tickets /\ t.result \in Statuses
      BY <1>3 DEF Live, Typed, Elements, Ticket
    <2> QED BY <1>3, <2>1 DEF TicketsRecord, Statuses
  <1>4. \/ \E t \in Live, status \in Statuses :
              /\ t.id = m.ticket /\ t.op = m.op /\ t.result = "none" /\ Handler(m.op, status)
              /\ tickets' = (tickets \ {t}) \cup {[t EXCEPT !.result = status]}
              /\ Reply(m, status, m.ticket)
        \/ \E t \in Live : /\ t.op = m.op /\ t.result # "none" /\ Reply(m, t.result, m.ticket)
                           /\ UNCHANGED <<runs, tickets>>
        \/ Reply(m, "unavailable", m.ticket) /\ UNCHANGED <<runs, tickets>>
    BY DEF ServeExecute, table
  <1>5. CASE \E t \in Live, status \in Statuses :
              /\ t.id = m.ticket /\ t.op = m.op /\ t.result = "none" /\ Handler(m.op, status)
              /\ tickets' = (tickets \ {t}) \cup {[t EXCEPT !.result = status]}
              /\ Reply(m, status, m.ticket)
    BY <1>1, <1>2, <1>5
  <1>6. CASE \E t \in Live : /\ t.op = m.op /\ t.result # "none" /\ Reply(m, t.result, m.ticket)
                             /\ UNCHANGED <<runs, tickets>>
    BY <1>1, <1>3, <1>6
  <1>7. CASE Reply(m, "unavailable", m.ticket) /\ UNCHANGED <<runs, tickets>>
    BY <1>1, <1>7
  <1> QED BY <1>4, <1>5, <1>6, <1>7

\* A plain request runs the handler of a plain command only.
LEMMA LegacyRun ==
    ASSUME Typed, CallsAreTheirOwn, NEW m \in requests, ServeLegacy(m)
    PROVE  /\ m.phase = "legacy" /\ m.op \in 1..Len(cmd) /\ ~cmd[m.op].retry
           /\ \A o \in 1..Len(cmd) : cmd[o].retry => runs'[o] = runs[o]
           /\ UNCHANGED <<cmd, told, requests, tickets, issued>>
  <1>1. m.phase = "legacy" /\ m.op \in 1..Len(cmd) /\ ~cmd[m.op].retry
    BY AboutTyped DEF ServeLegacy, CallsAreTheirOwn
  <1>2. PICK status \in Statuses : Handler(m.op, status)
    BY DEF ServeLegacy
  <1>3. \A o \in 1..Len(cmd) : o # m.op => runs'[o] = runs[o]
    BY <1>1, <1>2, NewRun
  <1> QED BY <1>1, <1>3 DEF ServeLegacy, table

\* Every step keeps the tickets true to what ran.
LEMMA NextTickets ==
    ASSUME Ticketed, [Next]_vars
    PROVE  TicketsRecord'
  <1> USE AboutTyped DEF Ticketed
  <1>1. ASSUME UNCHANGED tickets,
               \A t \in tickets : cmd'[t.op] = cmd[t.op] /\ runs'[t.op] = runs[t.op],
               \A m \in requests' : m.phase = "execute" /\ runs'[m.op] # <<>> =>
                  \E n \in requests : n.phase = "execute" /\ n.ticket = m.ticket /\ runs[n.op] # <<>>
        PROVE  TicketsRecord'
    <2>1. \A t, u \in tickets' : t.id = u.id => t = u
      BY <1>1 DEF TicketsRecord
    <2>2. \A t \in tickets' : cmd'[t.op].retry /\ (t.result # "none" => Ran(t.op, t.result)')
      BY <1>1 DEF TicketsRecord, Ran
    <2>3. \A m \in requests' : m.phase = "execute" /\ runs'[m.op] # <<>> =>
             \A t \in tickets' : t.id = m.ticket => t.result # "none"
      BY <1>1 DEF TicketsRecord
    <2> QED BY <2>1, <2>2, <2>3 DEF TicketsRecord
  <1>2. ASSUME NEW s \in Shells, NEW c \in Commands, NEW retry \in Retry, RunCommand(s, c, retry)
        PROVE  TicketsRecord'
    <2>1. /\ \A o \in 1..Len(cmd) : cmd'[o] = cmd[o] /\ runs'[o] = runs[o]
          /\ UNCHANGED tickets
      BY <1>2, TypedOne
    <2>2. PICK n : requests' = requests \cup {[op |-> n, phase |-> FirstPhase(retry), ticket |-> 0]}
      BY <1>2, TypedLast
    <2>3. \A m \in requests' : m.phase = "execute" => m \in requests
      BY <2>2 DEF FirstPhase
    <2> QED BY <1>1, <2>1, <2>3
  <1>3. ASSUME NEW c \in Commands, RunHere(c)
        PROVE  TicketsRecord'
    <2>1. /\ \A o \in 1..Len(cmd) : cmd'[o] = cmd[o] /\ runs'[o] = runs[o]
          /\ UNCHANGED <<tickets, requests>>
      BY <1>3, TypedOne, TypedHere
    <2> QED BY <1>1, <2>1
  <1>4. ASSUME NEW s \in Shells, NEW r \in replies, Replied(s, r)
        PROVE  TicketsRecord'
    <2>1. /\ Asking(s) /\ r.op = call[s].op /\ r.phase = call[s].phase /\ r.op \in 1..Len(cmd)
          /\ UNCHANGED <<cmd, runs, tickets>>
      BY <1>4, RepliedCases
    <2>2. CASE requests' = requests
      BY <1>1, <2>1, <2>2
    <2>3. CASE /\ r.phase = "prepare"
               /\ requests' = requests \cup {[op |-> r.op, phase |-> "execute", ticket |-> r.ticket]}
      <3>1. Executes(r.op) = {}
        BY <2>1, <2>3 DEF OneTicket
      <3>2. cmd[r.op].retry
        BY <2>1, <2>3 DEF CallsAreTheirOwn
      <3>3. runs[r.op] = <<>>
        BY <2>1, <3>1, <3>2 DEF RunOnce
      <3>4. \A m \in requests' : m.phase = "execute" /\ runs'[m.op] # <<>> => m \in requests
        BY <2>1, <2>3, <3>3
      <3> QED BY <1>1, <2>1, <3>4
    <2> QED BY <1>4, <2>2, <2>3, RepliedCases
  <1>5. ASSUME NEW s \in Shells, TryAgain(s)
        PROVE  TicketsRecord'
    <2>1. /\ Asking(s) /\ UNCHANGED <<cmd, runs, tickets>>
          /\ requests' = requests \cup {[op |-> call[s].op, phase |-> call[s].phase, ticket |-> call[s].ticket]}
      BY <1>5, TriedAgain
    <2>2. ASSUME call[s].phase = "execute", runs[call[s].op] # <<>>
          PROVE  \E n \in requests : n.phase = "execute" /\ n.ticket = call[s].ticket /\ runs[n.op] # <<>>
      <3>1. call[s].op \in 1..Len(cmd) /\ cmd[call[s].op].retry
        BY <2>1, <2>2 DEF CallsAreTheirOwn
      <3>2. Executes(call[s].op) # {}
        BY <2>2, <3>1 DEF RunOnce
      <3>3. PICK n \in requests : n.op = call[s].op /\ n.phase = "execute"
        BY <3>2 DEF Executes
      <3>4. n.ticket = call[s].ticket
        BY <2>2, <3>3 DEF OneTicket, Executes
      <3> QED BY <2>2, <3>3, <3>4
    <2>3. \A m \in requests' : m \in requests \/ (m.op = call[s].op /\ m.phase = call[s].phase /\ m.ticket = call[s].ticket)
      BY <2>1
    <2>4. \A m \in requests' : m.phase = "execute" /\ runs'[m.op] # <<>> =>
             \E n \in requests : n.phase = "execute" /\ n.ticket = m.ticket /\ runs[n.op] # <<>>
      BY <2>1, <2>2, <2>3
    <2> QED BY <1>1, <2>1, <2>4
  <1>6. ASSUME NEW s \in Shells, GiveUp(s)
        PROVE  TicketsRecord'
    BY <1>1, <1>6 DEF GiveUp, wire, table
  <1>7. ASSUME NEW m \in requests, ServeLegacy(m)
        PROVE  TicketsRecord'
    <2>1. /\ \A o \in 1..Len(cmd) : cmd[o].retry => runs'[o] = runs[o]
          /\ UNCHANGED <<cmd, requests, tickets>>
      BY <1>7, LegacyRun
    <2>2. \A t \in tickets : cmd[t.op].retry
      BY DEF TicketsRecord
    <2>3. \A n \in requests : n.phase = "execute" => cmd[n.op].retry
      BY DEF CallsAreTheirOwn
    <2> QED BY <1>1, <2>1, <2>2, <2>3
  <1>8. ASSUME NEW m \in requests, ServePrepare(m)
        PROVE  TicketsRecord'
    <2>1. UNCHANGED <<cmd, runs, requests>> /\ m.phase = "prepare"
      BY <1>8 DEF ServePrepare, typed
    <2>2. CASE UNCHANGED tickets
      BY <1>1, <2>1, <2>2
    <2>3. CASE tickets' = Live \cup {[id |-> issued + 1, op |-> m.op, until |-> now + LIFETIME,
                                      result |-> "none"]}
      <3>1. PICK t : t = [id |-> issued + 1, op |-> m.op, until |-> now + LIFETIME, result |-> "none"]
        OBVIOUS
      <3>2. t.id = issued + 1 /\ t.op = m.op /\ t.result = "none"
        BY <3>1
      <3>3. tickets' \subseteq tickets \cup {t}
        BY <2>3, <3>1 DEF Live
      <3>4. \A u \in tickets : u.id # t.id
        BY <3>2, TypedFacts
      <3>5. cmd[t.op].retry
        BY <2>1, <3>2 DEF CallsAreTheirOwn
      <3>6. \A n \in requests : n.ticket # t.id
        BY <3>2, TypedFacts DEF Request
      <3>7. \A u, v \in tickets' : u.id = v.id => u = v
        BY <3>3, <3>4 DEF TicketsRecord
      <3>8. \A u \in tickets' : cmd'[u.op].retry /\ (u.result # "none" => Ran(u.op, u.result)')
        BY <2>1, <3>2, <3>3, <3>5 DEF TicketsRecord, Ran
      <3>9. \A n \in requests' : n.phase = "execute" /\ runs'[n.op] # <<>> =>
               \A u \in tickets' : u.id = n.ticket => u.result # "none"
        BY <2>1, <3>3, <3>6 DEF TicketsRecord
      <3> QED BY <3>7, <3>8, <3>9 DEF TicketsRecord
    <2> QED BY <1>8, <2>2, <2>3 DEF ServePrepare, table
  <1>9. ASSUME NEW m \in requests, ServeExecute(m)
        PROVE  TicketsRecord'
    <2>1. m.phase = "execute" /\ m.op \in 1..Len(cmd) /\ cmd[m.op].retry /\ UNCHANGED <<cmd, requests>>
      BY <1>9, ExecuteCases DEF ServeExecute
    <2>2. CASE UNCHANGED <<runs, tickets>>
      BY <1>1, <2>1, <2>2
    <2>3. ASSUME NEW t \in tickets, NEW status \in Statuses,
                 t.id = m.ticket, t.op = m.op, runs[m.op] = <<>>, Ran(m.op, status)', runs'[m.op] # <<>>,
                 \A o \in 1..Len(cmd) : o # m.op => runs'[o] = runs[o],
                 tickets' = (tickets \ {t}) \cup {[t EXCEPT !.result = status]}
          PROVE  TicketsRecord'
      <3>1. PICK v : v = [t EXCEPT !.result = status]
        OBVIOUS
      <3>2. t \in Ticket(Len(cmd), issued) /\ status # "none"
        BY DEF Typed, Elements, Statuses
      <3>3. v.id = t.id /\ v.op = t.op /\ v.result = status
        BY <3>1, <3>2 DEF Ticket
      <3>4. tickets' = (tickets \ {t}) \cup {v}
        BY <2>3, <3>1
      <3>5. \A a, b \in tickets' : a.id = b.id => a = b
        BY <3>3, <3>4 DEF TicketsRecord
      <3>6. \A a \in tickets : a.op = m.op => a.result = "none"
        BY <2>3 DEF TicketsRecord, Ran
      <3>7. \A a \in tickets' : cmd'[a.op].retry /\ (a.result # "none" => Ran(a.op, a.result)')
        BY <2>1, <2>3, <3>3, <3>4, <3>6 DEF TicketsRecord, Ran
      <3>8. \A n \in requests' : n.phase = "execute" /\ runs'[n.op] # <<>> =>
               \A a \in tickets' : a.id = n.ticket => a.result # "none"
        <4> SUFFICES ASSUME NEW n \in requests, n.phase = "execute", runs'[n.op] # <<>>,
                            NEW a \in tickets', a.id = n.ticket
                     PROVE  a.result # "none"
          BY <2>1
        <4>1. CASE a = v
          BY <3>2, <3>3, <4>1
        <4>2. CASE a # v
          <5>1. a \in tickets /\ a # t
            BY <3>4, <4>2
          <5>2. a.id # t.id
            BY <5>1 DEF TicketsRecord
          <5>3. n.op # m.op
            BY <2>1, <2>3, <5>2 DEF OneTicket
          <5>4. runs[n.op] # <<>>
            BY <2>3, <5>3
          <5> QED BY <5>1, <5>4 DEF TicketsRecord
        <4> QED BY <4>1, <4>2
      <3> QED BY <3>5, <3>7, <3>8 DEF TicketsRecord
    <2> QED BY <1>9, <2>2, <2>3, ExecuteCases
  <1>10. CASE Environment \/ UNCHANGED vars
    <2>1. UNCHANGED <<cmd, runs, requests>> /\ tickets' \subseteq tickets
      BY <1>10, Elsewhere
    <2> QED BY <2>1 DEF TicketsRecord, Ran
  <1> QED BY <1>2, <1>3, <1>4, <1>5, <1>6, <1>7, <1>8, <1>9, <1>10 DEF Next, Shell, Environment

\* A request is never taken back.
LEMMA RequestsStay ==
    ASSUME Typed, [Next]_vars
    PROVE  requests \subseteq requests'
  <1>1. ASSUME NEW s \in Shells, Shell(s)
        PROVE  requests \subseteq requests'
    BY <1>1 DEF Shell, RunCommand, Replied, TryAgain, GiveUp, Ask, wire
  <1>2. ASSUME NEW m \in requests, ServeLegacy(m) \/ ServePrepare(m) \/ ServeExecute(m)
        PROVE  requests \subseteq requests'
    BY <1>2, Served
  <1>3. ASSUME NEW c \in Commands, RunHere(c)
        PROVE  requests \subseteq requests'
    BY <1>3, TypedHere
  <1>4. CASE Environment \/ UNCHANGED vars
    BY <1>4, Elsewhere
  <1> QED BY <1>1, <1>2, <1>3, <1>4 DEF Next, Environment

\* Every step runs a ticketed command at most once.
LEMMA NextRunOnce ==
    ASSUME Ticketed, [Next]_vars
    PROVE  RunOnce'
  <1> USE AboutTyped DEF Ticketed
  <1>1. \A o : Executes(o) # {} => Executes(o)' # {}
    BY RequestsStay DEF Executes
  <1>2. ASSUME UNCHANGED cmd, \A o \in 1..Len(cmd) : cmd[o].retry => runs'[o] = runs[o]
        PROVE  RunOnce'
    BY <1>1, <1>2 DEF RunOnce
  <1>3. ASSUME NEW c \in Commands, RunHere(c) \/ \E s \in Shells, retry \in Retry : RunCommand(s, c, retry)
        PROVE  RunOnce'
    <2>1. /\ 1..Len(cmd') = (1..Len(cmd)) \cup {Len(cmd) + 1}
          /\ \A o \in 1..Len(cmd) : cmd'[o] = cmd[o] /\ runs'[o] = runs[o]
      BY <1>3, TypedOne
    <2>2. cmd'[Len(cmd) + 1].retry => runs'[Len(cmd) + 1] = <<>>
      BY <1>3, TypedLast, TypedHere
    <2>3. Len(<<>>) = 0
      OBVIOUS
    <2>4. \A o \in 1..Len(cmd) : cmd'[o].retry => Len(runs'[o]) <= 1 /\ (runs'[o] # <<>> => Executes(o)' # {})
      BY <1>1, <2>1 DEF RunOnce
    <2>5. \A o \in 1..Len(cmd') : cmd'[o].retry => Len(runs'[o]) <= 1 /\ (runs'[o] # <<>> => Executes(o)' # {})
      BY <2>1, <2>2, <2>3, <2>4
    <2> QED BY <2>5 DEF RunOnce
  <1>4. ASSUME NEW s \in Shells, (\E r \in replies : Replied(s, r)) \/ TryAgain(s) \/ GiveUp(s)
        PROVE  RunOnce'
    <2>1. UNCHANGED <<cmd, runs>>
      BY <1>4 DEF Replied, TryAgain, GiveUp, typed
    <2> QED BY <1>2, <2>1
  <1>5. ASSUME NEW m \in requests, ServeLegacy(m) \/ ServePrepare(m)
        PROVE  RunOnce'
    <2>1. CASE ServeLegacy(m)
      BY <1>2, <2>1, LegacyRun
    <2>2. CASE ServePrepare(m)
      BY <1>2, <2>2 DEF ServePrepare, typed
    <2> QED BY <1>5, <2>1, <2>2
  <1>6. ASSUME NEW m \in requests, ServeExecute(m)
        PROVE  RunOnce'
    <2>1. m.phase = "execute" /\ m.op \in 1..Len(cmd) /\ UNCHANGED <<cmd, requests>>
      BY <1>6, ExecuteCases DEF ServeExecute
    <2>2. CASE UNCHANGED runs
      BY <1>2, <2>1, <2>2
    <2>3. ASSUME NEW status \in Statuses, Ran(m.op, status)',
                 \A o \in 1..Len(cmd) : o # m.op => runs'[o] = runs[o]
          PROVE  RunOnce'
      <3>1. Len(runs'[m.op]) = 1
        BY <2>3 DEF Ran
      <3>2. ASSUME NEW o \in 1..Len(cmd), cmd[o].retry
            PROVE  Len(runs'[o]) <= 1 /\ (runs'[o] # <<>> => Executes(o)' # {})
        <4>1. CASE o = m.op
          <5>1. m \in {n \in requests' : n.op = o /\ n.phase = "execute"}
            BY <2>1, <4>1
          <5>2. Executes(o)' # {}
            BY <5>1 DEF Executes
          <5>3. Len(runs'[o]) = 1
            BY <3>1, <4>1
          <5> QED BY <5>2, <5>3
        <4>2. CASE o # m.op
          BY <1>1, <2>3, <3>2, <4>2 DEF RunOnce
        <4> QED BY <4>1, <4>2
      <3> QED BY <2>1, <3>2 DEF RunOnce
    <2> QED BY <1>6, <2>2, <2>3, ExecuteCases
  <1>7. CASE Environment \/ UNCHANGED vars
    BY <1>2, <1>7, Elsewhere
  <1> QED BY <1>3, <1>4, <1>5, <1>6, <1>7 DEF Next, Shell, Environment

\* The two halves of AnswersAreTrue: what the node answers, and what the shell says.
RepliesAreTrue ==
    \A r \in replies :
        /\ r.phase = "prepare" => r.status \in {"ok", "busy"}
        /\ r.phase = "execute" => r.status # "busy"
        /\ r.phase = "execute" /\ r.status # "unavailable" => Ran(r.op, r.status)
ToldIsTrue ==
    \A o \in 1..Len(cmd) : cmd[o].retry =>
        /\ told[o] \in {"ok", "denied", "invalid"} => Ran(o, told[o])
        /\ told[o] = "busy" => Executes(o) = {}

\* What a reply says and what a caller was told are the two halves of AnswersAreTrue.
LEMMA AnswerHalves == AnswersAreTrue <=> RepliesAreTrue /\ ToldIsTrue
  BY DEF AnswersAreTrue, RepliesAreTrue, ToldIsTrue

\* The same in the state that a step leads to.
LEMMA AnswerHalvesNext == AnswersAreTrue' <=> RepliesAreTrue' /\ ToldIsTrue'
  BY DEF AnswersAreTrue, RepliesAreTrue, ToldIsTrue

\* What is known to have run stays so.
LEMMA RanStays ==
    ASSUME Ticketed, [Next]_vars, NEW o \in 1..Len(cmd), cmd[o].retry, NEW status, Ran(o, status)
    PROVE  Ran(o, status)'
  <1> USE AboutTyped DEF Ticketed
  <1>1. ASSUME runs'[o] = runs[o] PROVE Ran(o, status)'
    BY <1>1 DEF Ran
  <1>2. runs[o] # <<>>
    BY DEF Ran
  <1>3. ASSUME NEW c \in Commands, RunHere(c) \/ \E s \in Shells, retry \in Retry : RunCommand(s, c, retry)
        PROVE  Ran(o, status)'
    BY <1>1, <1>3, TypedOne
  <1>4. ASSUME NEW s \in Shells, (\E r \in replies : Replied(s, r)) \/ TryAgain(s) \/ GiveUp(s)
        PROVE  Ran(o, status)'
    BY <1>1, <1>4 DEF Replied, TryAgain, GiveUp, typed
  <1>5. ASSUME NEW m \in requests, ServeLegacy(m) \/ ServePrepare(m)
        PROVE  Ran(o, status)'
    BY <1>1, <1>5, LegacyRun DEF ServePrepare, typed
  <1>6. ASSUME NEW m \in requests, ServeExecute(m)
        PROVE  Ran(o, status)'
    BY <1>1, <1>2, <1>6, ExecuteCases
  <1>7. CASE Environment \/ UNCHANGED vars
    BY <1>1, <1>7, Elsewhere
  <1> QED BY <1>3, <1>4, <1>5, <1>6, <1>7 DEF Next, Shell, Environment

\* Every step leaves the replies true.
LEMMA NextReplies ==
    ASSUME Ticketed, [Next]_vars
    PROVE  RepliesAreTrue'
  <1> USE AboutTyped DEF Ticketed
  <1>1. RepliesAreTrue /\ \A r \in replies : r.phase = "execute" => cmd[r.op].retry
    BY AnswerHalves DEF CallsAreTheirOwn
  <1>2. \A r \in replies : r.phase = "execute" /\ r.status # "unavailable" => Ran(r.op, r.status)'
    BY <1>1, RanStays DEF RepliesAreTrue
  <1>3. ASSUME UNCHANGED replies PROVE RepliesAreTrue'
    BY <1>1, <1>2, <1>3 DEF RepliesAreTrue
  <1>4. ASSUME NEW m \in requests, NEW w, NEW k, Reply(m, w, k),
               m.phase = "prepare" => w \in {"ok", "busy"},
               m.phase = "execute" => w # "busy" /\ (w # "unavailable" => Ran(m.op, w)')
        PROVE  RepliesAreTrue'
    <2>1. PICK r : r = [op |-> m.op, phase |-> m.phase, status |-> w, ticket |-> k]
      OBVIOUS
    <2>2. r.op = m.op /\ r.phase = m.phase /\ r.status = w /\ replies' = replies \cup {r}
      BY <1>4, <2>1 DEF Reply
    <2> QED BY <1>1, <1>2, <1>4, <2>2 DEF RepliesAreTrue
  <1>5. ASSUME NEW c \in Commands, RunHere(c) \/ \E s \in Shells, retry \in Retry : RunCommand(s, c, retry)
        PROVE  RepliesAreTrue'
    BY <1>3, <1>5, TypedOne
  <1>6. ASSUME NEW s \in Shells, (\E r \in replies : Replied(s, r)) \/ TryAgain(s) \/ GiveUp(s)
        PROVE  RepliesAreTrue'
    BY <1>3, <1>6 DEF Replied, TryAgain, GiveUp, wire
  <1>7. ASSUME NEW m \in requests, ServeLegacy(m)
        PROVE  RepliesAreTrue'
    BY <1>4, <1>7 DEF ServeLegacy
  <1>8. ASSUME NEW m \in requests, ServePrepare(m)
        PROVE  RepliesAreTrue'
    BY <1>4, <1>8 DEF ServePrepare
  <1>9. ASSUME NEW m \in requests, ServeExecute(m)
        PROVE  RepliesAreTrue'
    <2>1. m.phase = "execute" /\ m.op \in 1..Len(cmd) /\ cmd[m.op].retry
      BY <1>9, ExecuteCases
    <2>2. ASSUME NEW w, w # "busy", w # "unavailable" => Ran(m.op, w), Reply(m, w, m.ticket)
          PROVE  RepliesAreTrue'
      <3>1. w # "unavailable" => Ran(m.op, w)'
        BY <2>1, <2>2, RanStays
      <3> QED BY <1>4, <2>1, <2>2, <3>1
    <2>3. ASSUME NEW status \in Statuses, Ran(m.op, status)', Reply(m, status, m.ticket)
          PROVE  RepliesAreTrue'
      BY <1>4, <2>1, <2>3 DEF Statuses
    <2> QED BY <1>9, <2>2, <2>3, ExecuteCases
  <1>10. CASE Environment \/ UNCHANGED vars
    BY <1>3, <1>10, Elsewhere
  <1> QED BY <1>5, <1>6, <1>7, <1>8, <1>9, <1>10 DEF Next, Shell, Environment

\* Every step leaves what the shells said true.
LEMMA NextTold ==
    ASSUME Ticketed, [Next]_vars
    PROVE  ToldIsTrue'
  <1> USE AboutTyped DEF Ticketed
  <1> DEFINE RanThen(o, w) == Len(runs'[o]) = 1 /\ runs'[o][1].status = w
  <1>1. ToldIsTrue
    BY AnswerHalves
  <1>2. \A o \in 1..Len(cmd) : cmd[o].retry /\ told[o] \in {"ok", "denied", "invalid"} => RanThen(o, told[o])
    <2>1. ASSUME NEW o \in 1..Len(cmd), cmd[o].retry, told[o] \in {"ok", "denied", "invalid"}
          PROVE  RanThen(o, told[o])
      <3>1. PICK w : w = told[o]
        OBVIOUS
      <3>2. Ran(o, w)
        BY <1>1, <2>1, <3>1 DEF ToldIsTrue
      <3>3. Ran(o, w)'
        BY <2>1, <3>2, RanStays
      <3> QED BY <3>1, <3>3 DEF Ran
    <2> QED BY <2>1
  <1>3. ASSUME UNCHANGED <<cmd, told, requests>> PROVE ToldIsTrue'
    BY <1>1, <1>2, <1>3 DEF ToldIsTrue, Executes, Ran
  <1>4. ASSUME NEW c \in Commands, RunHere(c) \/ \E s \in Shells, retry \in Retry : RunCommand(s, c, retry)
        PROVE  ToldIsTrue'
    <2>1. PICK n : n = Len(cmd) + 1
      OBVIOUS
    <2>2. /\ 1..Len(cmd') = (1..Len(cmd)) \cup {n} /\ n \notin 1..Len(cmd)
          /\ \A o \in 1..Len(cmd) : cmd'[o] = cmd[o] /\ told'[o] = told[o]
      BY <1>4, <2>1, TypedOne
    <2>3. cmd'[n].retry => told'[n] = "none"
      BY <1>4, <2>1, TypedLast, TypedHere
    <2>4. \A m \in requests' : m \in requests \/ m.op = n
      <3>1. requests' = requests \/ \E p : requests' = requests \cup {[op |-> n, phase |-> p, ticket |-> 0]}
        BY <1>4, <2>1, TypedLast, TypedHere
      <3> QED BY <3>1
    <2>5. \A o \in 1..Len(cmd) : Executes(o) = {} => Executes(o)' = {}
      BY <2>2, <2>4 DEF Executes
    <2>6. \A o \in 1..Len(cmd) : cmd'[o].retry =>
             /\ told'[o] \in {"ok", "denied", "invalid"} => RanThen(o, told'[o])
             /\ told'[o] = "busy" => Executes(o)' = {}
      BY <1>1, <1>2, <2>2, <2>5 DEF ToldIsTrue
    <2>7. \A o \in 1..Len(cmd') : cmd'[o].retry =>
             /\ told'[o] \in {"ok", "denied", "invalid"} => RanThen(o, told'[o])
             /\ told'[o] = "busy" => Executes(o)' = {}
      BY <2>2, <2>3, <2>6
    <2> QED BY <2>7 DEF ToldIsTrue, Ran
  <1>5. ASSUME NEW s \in Shells, NEW w \in Words, Asking(s), Done(s, w), UNCHANGED <<cmd, requests>>,
               cmd[call[s].op].retry /\ w \in {"ok", "denied", "invalid"} => Ran(call[s].op, w),
               cmd[call[s].op].retry /\ w = "busy" => Executes(call[s].op) = {}
        PROVE  ToldIsTrue'
    <2>1. PICK p \in 1..Len(cmd) : p = call[s].op
      BY <1>5
    <2>2. told'[p] = w /\ \A o \in 1..Len(cmd) : o # p => told'[o] = told[o]
      BY <1>5, <2>1, SaidDone
    <2>3. \A o : Executes(o)' = Executes(o)
      BY <1>5 DEF Executes
    <2>4. cmd[p].retry /\ w \in {"ok", "denied", "invalid"} => Ran(p, w)'
      BY <1>5, <2>1, RanStays
    <2>5. ASSUME NEW o \in 1..Len(cmd), cmd[o].retry
          PROVE  /\ told'[o] \in {"ok", "denied", "invalid"} => RanThen(o, told'[o])
                 /\ told'[o] = "busy" => Executes(o)' = {}
      <3>1. CASE o = p
        BY <1>5, <2>1, <2>2, <2>3, <2>4, <2>5, <3>1 DEF Ran
      <3>2. CASE o # p
        BY <1>1, <1>2, <2>2, <2>3, <2>5, <3>2 DEF ToldIsTrue
      <3> QED BY <3>1, <3>2
    <2> QED BY <1>5, <2>5 DEF ToldIsTrue, Ran
  <1>6. ASSUME NEW s \in Shells, Asking(s), NEW p, NEW k, UNCHANGED <<cmd, told>>,
               requests' = requests \cup {[op |-> call[s].op, phase |-> p, ticket |-> k]}
        PROVE  ToldIsTrue'
    <2>1. told[call[s].op] = "none"
      BY <1>6 DEF CallsAreTheirOwn
    <2>2. \A m \in requests' : m \in requests \/ m.op = call[s].op
      BY <1>6
    <2>3. \A o \in 1..Len(cmd) : told[o] = "busy" /\ Executes(o) = {} => Executes(o)' = {}
      BY <2>1, <2>2 DEF Executes
    <2>4. \A o \in 1..Len(cmd) : cmd[o].retry =>
             /\ told[o] \in {"ok", "denied", "invalid"} => RanThen(o, told[o])
             /\ told[o] = "busy" => Executes(o)' = {}
      BY <1>1, <1>2, <2>3 DEF ToldIsTrue
    <2> QED BY <1>6, <2>4 DEF ToldIsTrue, Ran
  <1>7. ASSUME NEW s \in Shells, NEW r \in replies, Replied(s, r)
        PROVE  ToldIsTrue'
    <2>1. /\ Asking(s) /\ r.op = call[s].op /\ r.phase = call[s].phase /\ r.op \in 1..Len(cmd)
          /\ UNCHANGED cmd
      BY <1>7, RepliedCases
    <2>2. CASE ~(r.phase = "prepare" /\ r.status = "ok") /\ Done(s, r.status) /\ requests' = requests
      <3>1. r.status \in Words /\ r.phase \in Phases
        BY TypedFacts DEF Answer, Words
      <3>2. /\ r.phase = "prepare" => r.status \in {"ok", "busy"}
            /\ r.phase = "execute" => r.status # "busy"
            /\ r.phase = "execute" /\ r.status # "unavailable" => Ran(r.op, r.status)
        BY DEF AnswersAreTrue
      <3>3. cmd[r.op].retry => r.phase \in {"prepare", "execute"}
        BY <3>1 DEF CallsAreTheirOwn, Phases
      <3>4. cmd[r.op].retry /\ r.status \in {"ok", "denied", "invalid"} => Ran(r.op, r.status)
        BY <2>2, <3>2, <3>3
      <3>5. cmd[r.op].retry /\ r.status = "busy" => Executes(r.op) = {}
        BY <2>1, <2>2, <3>2, <3>3 DEF OneTicket
      <3> QED BY <1>5, <2>1, <2>2, <3>1, <3>4, <3>5
    <2>3. CASE told' = told /\ requests' = requests \cup {[op |-> r.op, phase |-> "execute", ticket |-> r.ticket]}
      BY <1>6, <2>1, <2>3
    <2> QED BY <1>7, <2>2, <2>3, RepliedCases
  <1>8. ASSUME NEW s \in Shells, TryAgain(s)
        PROVE  ToldIsTrue'
    BY <1>6, <1>8, TriedAgain
  <1>9. ASSUME NEW s \in Shells, GiveUp(s)
        PROVE  ToldIsTrue'
    BY <1>5, <1>9 DEF GiveUp, Asking, Words, wire
  <1>10. ASSUME NEW m \in requests, ServeLegacy(m) \/ ServePrepare(m) \/ ServeExecute(m)
         PROVE  ToldIsTrue'
    BY <1>3, <1>10, Served
  <1>11. CASE Environment \/ UNCHANGED vars
    BY <1>3, <1>11, Elsewhere
  <1> QED BY <1>4, <1>7, <1>8, <1>9, <1>10, <1>11 DEF Next, Shell, Environment

\* The program starts with no ticket.
LEMMA InitTicketed == Init => Ticketed
  <1> SUFFICES ASSUME Init PROVE Ticketed
    OBVIOUS
  <1>1. Typed
    BY InitTyped
  <1>2. /\ requests = {} /\ replies = {} /\ tickets = {} /\ Len(cmd) = 0
        /\ \A s \in Shells : call[s] = Idle
    BY DEF Init
  <1>3. \A s \in Shells : call[s].phase = "idle"
    BY <1>2 DEF Idle
  <1>4. CallsAreTheirOwn /\ OneTicket
    BY <1>2, <1>3 DEF CallsAreTheirOwn, OneTicket, Asking
  <1>5. TicketsRecord /\ RunOnce /\ AnswersAreTrue
    BY <1>2 DEF TicketsRecord, RunOnce, AnswersAreTrue
  <1> QED BY <1>1, <1>4, <1>5 DEF Ticketed

\* Every step keeps the invariant of ticketed commands.
LEMMA NextTicketed ==
    ASSUME Ticketed, [Next]_vars
    PROVE  Ticketed'
  <1>1. Typed' /\ CallsAreTheirOwn' /\ OneTicket'
    BY NextTyped, NextCalls, NextOneTicket DEF Ticketed
  <1>2. TicketsRecord' /\ RunOnce' /\ AnswersAreTrue'
    BY NextTickets, NextRunOnce, NextReplies, NextTold, AnswerHalvesNext
  <1> QED BY <1>1, <1>2 DEF Ticketed

\* How many of at most one run were answered with OK.
LEMMA OkCount ==
    ASSUME NEW list \in Seq(RunRecord), Len(list) <= 1
    PROVE  Cardinality({i \in 1..Len(list) : list[i].status = "ok"})
              = IF Len(list) = 1 /\ list[1].status = "ok" THEN 1 ELSE 0
  <1> DEFINE ok == {i \in 1..Len(list) : list[i].status = "ok"}
  <1>1. CASE Len(list) = 1 /\ list[1].status = "ok"
    <2>1. ok = {1}
      BY <1>1
    <2> HIDE DEF ok
    <2>2. Cardinality(ok) = 1
      BY <2>1, FS_Singleton
    <2> QED BY <1>1, <2>2 DEF ok
  <1>2. CASE ~(Len(list) = 1 /\ list[1].status = "ok")
    <2>1. Len(list) \in {0, 1}
      <3>1. PICK n : n = Len(list) /\ n \in Nat
        OBVIOUS
      <3>2. n <= 1
        BY <3>1
      <3>3. n = 0 \/ n = 1
        BY <3>1, <3>2
      <3> QED BY <3>1, <3>3
    <2>2. ok = {}
      BY <1>2, <2>1
    <2> HIDE DEF ok
    <2>3. Cardinality(ok) = 0
      BY <2>2, FS_EmptySet
    <2> QED BY <1>2, <2>3 DEF ok
  <1> QED BY <1>1, <1>2

\* A ticketed command took effect if it ran and was answered with OK.
LEMMA TookIs ==
    ASSUME Ticketed, NEW o \in 1..MaxOps, Tracked(o)
    PROVE  /\ o \in 1..Len(cmd)
           /\ Took(o) = IF Ran(o, "ok") THEN 1 ELSE 0
  <1>1. o \in 1..Len(cmd) /\ cmd[o].retry
    BY TypedFacts, LinkAssumption DEF Ticketed, Tracked
  <1>2. runs[o] \in Seq(RunRecord)
    BY <1>1, TypedFacts DEF Ticketed, Typed, Elements
  <1>3. Len(runs[o]) <= 1
    BY <1>1 DEF Ticketed, RunOnce
  <1> QED BY <1>1, <1>2, <1>3, OkCount DEF Took, Ran

\* The words of the shell.
LEMMA Meanings ==
    /\ Meaning("none") = "none" /\ Meaning("ok") = "yes"
    /\ \A w \in {"denied", "invalid", "busy"} : Meaning(w) = "no"
    /\ \A w \in {"failed", "unavailable", "no answer"} : Meaning(w) = "unknown"
  BY DEF Meaning

\* A step that changes neither how often a ticketed command took effect nor what was
\* heard of it is a stutter of RemoteOperation.
LEMMA Stutters ==
    ASSUME \A o \in 1..MaxOps : Took(o)' = Took(o) /\ Heard(o)' = Heard(o)
    PROVE  UNCHANGED Promise!vars
  BY DEF Promise!vars

\* A first effect, while nothing final was heard, is Apply.
LEMMA Applies ==
    ASSUME NEW p \in 1..MaxOps, Took(p) = 0, Took(p)' = 1, Heard(p) \in {"none", "unknown"},
           \A o \in 1..MaxOps : Heard(o)' = Heard(o),
           \A o \in 1..MaxOps : o # p => Took(o)' = Took(o)
    PROVE  Promise!Next
  <1>1. Promise!Apply(p)
    BY DEF Promise!Apply
  <1> QED BY <1>1 DEF Promise!Next

\* A word said for the first time, if it is true, is Answer.
LEMMA Answers ==
    ASSUME NEW p \in 1..MaxOps, NEW a \in {"yes", "no", "unknown"},
           Heard(p) = "none", Heard(p)' = a,
           a = "yes" => Took(p) = 1, a = "no" => Took(p) = 0,
           \A o \in 1..MaxOps : o # p => Heard(o)' = Heard(o),
           \A o \in 1..MaxOps : Took(o)' = Took(o)
    PROVE  Promise!Next
  <1>1. Promise!Answer(p, a)
    BY DEF Promise!Answer
  <1> QED BY <1>1 DEF Promise!Next

\* The run of a handler, or no run: what it means for the caller's promise.
LEMMA ServedKeepsPromise ==
    ASSUME Ticketed, Ticketed', NEW m \in requests, ServeLegacy(m) \/ ServePrepare(m) \/ ServeExecute(m)
    PROVE  Promise!Next \/ UNCHANGED Promise!vars
  <1>1. UNCHANGED <<cmd, told>> /\ m.op \in 1..Len(cmd) /\ m.op \in 1..MaxOps
    BY Served, TypedFacts, LinkAssumption DEF Ticketed
  <1>2. \A o : (Tracked(o)' <=> Tracked(o)) /\ Heard(o)' = Heard(o)
    BY <1>1 DEF Tracked, Heard
  <1>3. ASSUME \A o \in 1..Len(cmd) : cmd[o].retry => runs'[o] = runs[o]
        PROVE  UNCHANGED Promise!vars
    <2>1. \A o \in 1..MaxOps : Tracked(o) => o \in 1..Len(cmd) /\ cmd[o].retry
      BY TypedFacts, LinkAssumption DEF Tracked, Ticketed
    <2>2. \A o \in 1..MaxOps : Took(o)' = Took(o)
      BY <1>2, <1>3, <2>1 DEF Took
    <2> QED BY <1>2, <2>2, Stutters
  <1>4. CASE ServeLegacy(m)
    BY <1>3, <1>4, LegacyRun DEF Ticketed
  <1>5. CASE ServePrepare(m)
    BY <1>3, <1>5 DEF ServePrepare, typed
  <1>6. CASE ServeExecute(m)
    <2>1. m.phase = "execute" /\ cmd[m.op].retry /\ Tracked(m.op)
      BY <1>1, <1>6, ExecuteCases, TypedFacts DEF Tracked, Ticketed
    <2>2. CASE UNCHANGED runs
      BY <1>3, <2>2
    <2>3. ASSUME NEW status \in Statuses, runs[m.op] = <<>>, Ran(m.op, status)',
                 \A o \in 1..Len(cmd) : o # m.op => runs'[o] = runs[o]
          PROVE  Promise!Next \/ UNCHANGED Promise!vars
      <3>1. PICK p \in 1..MaxOps : p = m.op
        BY <1>1
      <3>2. Took(p) = 0
        <4>1. ~Ran(p, "ok")
          BY <2>3, <3>1 DEF Ran
        <4> QED BY <2>1, <3>1, <4>1, TookIs
      <3>3. Took(p)' = IF status = "ok" THEN 1 ELSE 0
        <4>1. p \in 1..Len(cmd') /\ cmd'[p].retry /\ Tracked(p)'
          BY <1>1, <1>2, <2>1, <3>1
        <4>2. runs'[p] \in Seq(RunRecord)
          <5>1. runs' \in Seq(Seq(RunRecord)) /\ Len(runs') = Len(cmd')
            BY DEF Ticketed, Typed, TypeOK, Elements
          <5> QED BY <4>1, <5>1
        <4>3. Len(runs'[p]) = 1 /\ runs'[p][1].status = status
          BY <2>3, <3>1 DEF Ran
        <4>4. PICK list : list = runs'[p]
          OBVIOUS
        <4>5. Took(p)' = Cardinality({i \in 1..Len(list) : list[i].status = "ok"})
          BY <4>1, <4>4 DEF Took
        <4>6. list \in Seq(RunRecord) /\ Len(list) = 1 /\ list[1].status = status
          BY <4>2, <4>3, <4>4
        <4>7. Cardinality({i \in 1..Len(list) : list[i].status = "ok"})
                 = IF Len(list) = 1 /\ list[1].status = "ok" THEN 1 ELSE 0
          <5>1. Len(list) <= 1
            BY <4>6
          <5> QED BY <4>6, <5>1, OkCount, Zenon
        <4> QED BY <4>5, <4>6, <4>7
      <3>4. \A o \in 1..MaxOps : o # p => Took(o)' = Took(o)
        <4>1. \A o \in 1..MaxOps : Tracked(o) => o \in 1..Len(cmd)
          BY TypedFacts, LinkAssumption DEF Tracked, Ticketed
        <4> QED BY <1>2, <2>3, <3>1, <4>1 DEF Took
      <3>5. Heard(p) \in {"none", "unknown"}
        <4>1. told[p] \in Words
          BY <1>1, <3>1, TypedFacts DEF Ticketed, Typed, Elements
        <4>2. told[p] \notin {"ok", "denied", "invalid"}
          BY <1>1, <2>1, <2>3, <3>1 DEF Ticketed, AnswersAreTrue, Ran
        <4>3. told[p] # "busy"
          <5>1. m \in Executes(p)
            BY <2>1, <3>1 DEF Executes
          <5> QED BY <1>1, <2>1, <3>1, <5>1 DEF Ticketed, AnswersAreTrue
        <4>4. told[p] \in {"none", "failed", "unavailable", "no answer"}
          BY <4>1, <4>2, <4>3 DEF Words, Statuses
        <4> QED BY <2>1, <3>1, <4>4, Meanings DEF Heard
      <3>6. CASE status = "ok"
        BY <1>2, <3>2, <3>3, <3>4, <3>5, <3>6, Applies
      <3>7. CASE status # "ok"
        BY <1>2, <3>2, <3>3, <3>4, <3>7, Stutters
      <3> QED BY <3>6, <3>7
    <2> QED BY <1>6, <2>2, <2>3, ExecuteCases
  <1> QED BY <1>4, <1>5, <1>6

\* What the shell says is new, and true.
LEMMA SaidKeepsPromise ==
    ASSUME Ticketed, NEW s \in Shells, NEW w \in Words, Asking(s), Done(s, w), UNCHANGED <<cmd, runs>>,
           w # "none",
           cmd[call[s].op].retry /\ w \in {"ok", "denied", "invalid"} => Ran(call[s].op, w),
           cmd[call[s].op].retry /\ w = "busy" => Executes(call[s].op) = {}
    PROVE  Promise!Next \/ UNCHANGED Promise!vars
  <1>1. PICK p \in 1..Len(cmd) : p = call[s].op
    BY AboutTyped DEF Ticketed
  <1>2. p \in 1..MaxOps
    BY TypedFacts, LinkAssumption DEF Ticketed
  <1>3. told[p] = "none"
    BY <1>1 DEF Ticketed, CallsAreTheirOwn
  <1>4. told'[p] = w /\ \A o \in 1..Len(cmd) : o # p => told'[o] = told[o]
    BY <1>1, SaidDone DEF Ticketed
  <1>5. \A o : (Tracked(o)' <=> Tracked(o)) /\ Took(o)' = Took(o)
    BY DEF Tracked, Took
  <1>6. \A o \in 1..MaxOps : o # p => Heard(o)' = Heard(o)
    <2>1. \A o \in 1..MaxOps : Tracked(o) => o \in 1..Len(cmd)
      BY TypedFacts, LinkAssumption DEF Tracked, Ticketed
    <2> QED BY <1>4, <1>5, <2>1 DEF Heard
  <1>7. CASE ~Tracked(p)
    <2>1. Heard(p)' = Heard(p)
      BY <1>5, <1>7 DEF Heard
    <2> QED BY <1>5, <1>6, <2>1, Stutters
  <1>8. CASE Tracked(p)
    <2>1. Heard(p) = "none" /\ Heard(p)' = Meaning(w) /\ cmd[p].retry
      BY <1>3, <1>4, <1>5, <1>8, Meanings DEF Heard, Tracked
    <2>2. Took(p) = IF Ran(p, "ok") THEN 1 ELSE 0
      BY <1>2, <1>8, TookIs
    <2>3. Meaning(w) \in {"yes", "no", "unknown"}
      BY Meanings DEF Words, Statuses
    <2>4. Meaning(w) = "yes" => Took(p) = 1
      BY <1>1, <2>1, <2>2, Meanings DEF Words, Statuses
    <2>5. Meaning(w) = "no" => Took(p) = 0
      <3>1. Meaning(w) = "no" => w \in {"denied", "invalid", "busy"}
        BY Meanings DEF Words, Statuses
      <3>2. w \in {"denied", "invalid"} => ~Ran(p, "ok")
        BY <1>1, <2>1 DEF Ran
      <3>3. w = "busy" => ~Ran(p, "ok")
        <4>1. Ran(p, "ok") => runs[p] # <<>>
          BY DEF Ran
        <4> QED BY <1>1, <2>1, <4>1 DEF Ticketed, RunOnce
      <3> QED BY <2>2, <3>1, <3>2, <3>3
    <2> QED BY <1>2, <1>5, <1>6, <2>1, <2>3, <2>4, <2>5, Answers
  <1> QED BY <1>7, <1>8

\* Every step of the link is a step of RemoteOperation, or none.
LEMMA NextKeepsPromise ==
    ASSUME Ticketed, Ticketed', [Next]_vars
    PROVE  Promise!Next \/ UNCHANGED Promise!vars
  <1>1. ASSUME NEW c \in Commands, RunHere(c) \/ \E s \in Shells, retry \in Retry : RunCommand(s, c, retry)
        PROVE  UNCHANGED Promise!vars
    <2>1. PICK n : n = Len(cmd) + 1
      OBVIOUS
    <2>2. /\ Len(cmd') = n /\ Len(cmd) \in Nat
          /\ \A o \in 1..Len(cmd) : cmd'[o] = cmd[o] /\ told'[o] = told[o] /\ runs'[o] = runs[o]
      BY <1>1, <2>1, TypedOne, TypedFacts DEF Ticketed
    <2>3. cmd'[n].retry => told'[n] = "none" /\ runs'[n] = <<>>
      BY <1>1, <2>1, TypedLast, TypedHere DEF Ticketed
    <2>4. ASSUME NEW o \in 1..MaxOps
          PROVE  Took(o)' = Took(o) /\ Heard(o)' = Heard(o)
      <3>1. CASE o <= Len(cmd)
        <4>1. o \in 1..Len(cmd) /\ o <= Len(cmd')
          BY <2>1, <2>2, <3>1, LinkAssumption
        <4>2. Tracked(o)' <=> Tracked(o)
          BY <2>2, <3>1, <4>1 DEF Tracked
        <4> QED BY <2>2, <4>1, <4>2 DEF Took, Heard
      <3>2. CASE o = n
        <4>1. ~Tracked(o)
          BY <2>1, <2>2, <3>2 DEF Tracked
        <4>2. Took(o) = 0 /\ Heard(o) = "none"
          BY <4>1 DEF Took, Heard
        <4>3. CASE ~Tracked(o)'
          BY <4>2, <4>3 DEF Took, Heard
        <4>4. CASE Tracked(o)'
          <5>1. told'[o] = "none" /\ runs'[o] = <<>>
            BY <2>3, <3>2, <4>4 DEF Tracked
          <5>2. Heard(o)' = "none"
            BY <4>4, <5>1, Meanings DEF Heard
          <5>3. {i \in 1..Len(<<>>) : <<>>[i].status = "ok"} = {}
            OBVIOUS
          <5>4. Took(o)' = Cardinality({i \in 1..Len(<<>>) : <<>>[i].status = "ok"})
            BY <4>4, <5>1 DEF Took
          <5>5. Took(o)' = 0
            BY <5>3, <5>4, FS_EmptySet
          <5> QED BY <4>2, <5>2, <5>5
        <4> QED BY <4>3, <4>4
      <3>3. CASE o > n
        <4>1. ~Tracked(o) /\ ~Tracked(o)'
          BY <2>1, <2>2, <3>3 DEF Tracked
        <4> QED BY <4>1 DEF Took, Heard
      <3> QED BY <2>1, <2>2, <3>1, <3>2, <3>3, LinkAssumption
    <2> QED BY <2>4, Stutters
  <1>2. ASSUME UNCHANGED <<cmd, told, runs>>
        PROVE  UNCHANGED Promise!vars
    <2>1. \A o \in 1..MaxOps : Took(o)' = Took(o) /\ Heard(o)' = Heard(o)
      BY <1>2 DEF Took, Heard, Tracked
    <2> QED BY <2>1, Stutters
  <1>3. ASSUME NEW s \in Shells, NEW r \in replies, Replied(s, r)
        PROVE  Promise!Next \/ UNCHANGED Promise!vars
    <2>1. /\ Asking(s) /\ r.op = call[s].op /\ r.phase = call[s].phase /\ r.op \in 1..Len(cmd)
          /\ UNCHANGED <<cmd, runs>>
      BY <1>3, RepliedCases DEF Ticketed
    <2>2. CASE told' = told
      BY <1>2, <2>1, <2>2
    <2>3. CASE ~(r.phase = "prepare" /\ r.status = "ok") /\ Done(s, r.status)
      <3>1. r.status \in Words /\ r.phase \in Phases /\ r.status # "none"
        BY TypedFacts DEF Answer, Words, Statuses, Ticketed
      <3>2. /\ r.phase = "prepare" => r.status \in {"ok", "busy"}
            /\ r.phase = "execute" => r.status # "busy"
            /\ r.phase = "execute" /\ r.status # "unavailable" => Ran(r.op, r.status)
        BY DEF Ticketed, AnswersAreTrue
      <3>3. cmd[r.op].retry => r.phase \in {"prepare", "execute"}
        BY <3>1 DEF Ticketed, CallsAreTheirOwn, Phases
      <3>4. cmd[r.op].retry /\ r.status \in {"ok", "denied", "invalid"} => Ran(r.op, r.status)
        BY <2>3, <3>2, <3>3
      <3>5. cmd[r.op].retry /\ r.status = "busy" => Executes(r.op) = {}
        BY <2>1, <2>3, <3>2, <3>3 DEF Ticketed, OneTicket
      <3> QED BY <2>1, <2>3, <3>1, <3>4, <3>5, SaidKeepsPromise
    <2> QED BY <1>3, <2>2, <2>3, RepliedCases DEF Ticketed
  <1>4. ASSUME NEW s \in Shells, TryAgain(s)
        PROVE  UNCHANGED Promise!vars
    BY <1>2, <1>4 DEF TryAgain, typed
  <1>5. ASSUME NEW s \in Shells, GiveUp(s)
        PROVE  Promise!Next \/ UNCHANGED Promise!vars
    <2>1. /\ Asking(s) /\ Done(s, "no answer") /\ "no answer" \in Words
          /\ "no answer" \notin {"none", "ok", "denied", "invalid", "busy"} /\ UNCHANGED <<cmd, runs>>
      BY <1>5 DEF GiveUp, Asking, Words
    <2> QED BY <2>1, SaidKeepsPromise
  <1>6. ASSUME NEW m \in requests, ServeLegacy(m) \/ ServePrepare(m) \/ ServeExecute(m)
        PROVE  Promise!Next \/ UNCHANGED Promise!vars
    BY <1>6, ServedKeepsPromise
  <1>7. CASE Environment \/ UNCHANGED vars
    BY <1>2, <1>7, Elsewhere
  <1> QED BY <1>1, <1>3, <1>4, <1>5, <1>6, <1>7 DEF Next, Shell, Environment

\* shell_command.c with --retry: for any number of shells, commands, tickets, losses,
\* repetitions and restarts, a ticketed command takes effect at most once, a yes is
\* true, and one reported as refused has had no effect and never will.
THEOREM KeepsPromise == Spec => TicketedOnce
  <1>1. Init => Promise!Init
    <2> SUFFICES ASSUME Init PROVE Promise!Init
      OBVIOUS
    <2>1. \A o \in 1..MaxOps : ~Tracked(o)
      BY LinkAssumption DEF Init, Tracked
    <2>2. \A o \in 1..MaxOps : Took(o) = 0 /\ Heard(o) = "none"
      BY <2>1 DEF Took, Heard
    <2> QED BY <2>2 DEF Promise!Init
  <1>2. Init => Ticketed
    BY InitTicketed
  <1>3. Ticketed /\ [Next]_vars => Ticketed'
    BY NextTicketed
  <1>4. Ticketed /\ Ticketed' /\ [Next]_vars => [Promise!Next]_Promise!vars
    BY NextKeepsPromise
  <1> QED BY <1>1, <1>2, <1>3, <1>4, PTL DEF Spec, TicketedOnce, Promise!Spec
=============================================================================
