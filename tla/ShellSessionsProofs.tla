------------------------ MODULE ShellSessionsProofs ------------------------
(***************************************************************************)
(* Proofs about the shell's sessions with another node: what an upload     *)
(* command acts on, what it calls a success, and what log history prints,  *)
(* for every number of blocks, transfers, commands, restarts and records.  *)
(***************************************************************************)
EXTENDS ShellSessions, TLAPS

Numbers == 1..MaxTransfers
Names == {"none", "send", "status", "validate", "flash", "abort"}
Answers == {"none", "done", "error"}
States == {"receiving", "verified", "ready"}
Handles == [id : Numbers, gen : Numbers]
Transfers == [owner : {"us", "local", "other"}, image : Images, id : Numbers, gen : Numbers, got : Nat, state : States]
Requests == [op : Names, meant : Numbers, handle : Handles]

\* What a field of a command may hold besides Nothing.
AnImage == Images \cup {Nothing}
ANumber == Numbers \cup {Nothing}
AHandle == Handles \cup {Nothing}
AReply == {"ok", "refused"} \cup {Nothing}

Commands == [cmd : Names, phase : {"idle", "begin", "blocks", "resolve", "act"}, image : AnImage, id : ANumber,
             handle : AHandle, reply : AReply, answer : Answers]

LEMMA Fields ==
    /\ Nothing \in AnImage /\ Nothing \in ANumber /\ Nothing \in AHandle /\ Nothing \in AReply
    /\ Images \subseteq AnImage /\ Numbers \subseteq ANumber /\ Handles \subseteq AHandle
    /\ "ok" \in AReply /\ "refused" \in AReply
  BY DEF AnImage, ANumber, AHandle, AReply

Typing ==
    /\ begun \in 0..MaxTransfers /\ gen \in 0..begun
    /\ xfer \in Transfers \cup {Nothing}
    /\ fwu \in Commands
    /\ fwu.phase = "begin" => fwu.image \in Images
    /\ air \subseteq Requests

\* A request carries the handle of the transfer it is meant for.
HandlesAreMeant == \A m \in air : m.handle.id = m.meant

\* The command that waits has sent the handle of the transfer it found, and a
\* good reply is one to it.
ReplyIsMeant ==
    /\ fwu.phase = "act" => fwu.id \in Numbers /\ fwu.handle \in Handles /\ fwu.handle.id = fwu.id
    /\ fwu.phase # "act" => fwu.reply = Nothing
    /\ fwu.reply = "ok" => \E a \in acted : a.op = fwu.cmd /\ a.on = fwu.id

FwuInv == Typing /\ HandlesAreMeant /\ ReplyIsMeant /\ ActsOnResolved /\ SuccessWasReal

LEMMA IdleCommand == FwuIdle \in Commands /\ FwuIdle.phase = "idle" /\ FwuIdle.reply = Nothing
  BY Fields DEF FwuIdle, Commands, Names, Answers

LEMMA FwuInitInv == Init => FwuInv
  <1> SUFFICES ASSUME Init PROVE FwuInv
      OBVIOUS
  <1>1. Typing
    BY IdleCommand, FwuAssumption DEF Init, FwuInit, Typing
  <1>2. ReplyIsMeant
    BY IdleCommand, FwuAssumption DEF Init, FwuInit, ReplyIsMeant
  <1> QED BY <1>1, <1>2 DEF Init, FwuInit, FwuInv, HandlesAreMeant, ActsOnResolved, SuccessWasReal

\* A command that ends, or starts, waits for nothing.
LEMMA NotWaiting ==
    ASSUME FwuInv, fwu' \in Commands, fwu'.phase # "act", fwu'.reply = Nothing,
           fwu'.phase = "begin" => fwu'.image \in Images, UNCHANGED <<air, acted, told>>,
           begun' \in 0..MaxTransfers, gen' \in 0..begun', xfer' \in Transfers \cup {Nothing}
    PROVE  FwuInv'
  <1>1. Typing'
    BY DEF FwuInv, Typing
  <1>2. ReplyIsMeant'
    BY FwuAssumption DEF ReplyIsMeant
  <1> QED BY <1>1, <1>2 DEF FwuInv, HandlesAreMeant, ActsOnResolved, SuccessWasReal

LEMMA EndTyped ==
    ASSUME NEW a \in Answers, fwu \in Commands, FwuEnd(a)
    PROVE  fwu' \in Commands /\ fwu'.phase = "idle" /\ fwu'.reply = Nothing
  BY Fields DEF FwuEnd, FwuIdle, Commands, Names, Answers

LEMMA StartTyped ==
    ASSUME NEW cmd \in Names, NEW image \in AnImage, cmd = "send" => image \in Images,
           FwuStart(cmd, image)
    PROVE  /\ fwu' \in Commands /\ fwu'.phase # "act" /\ fwu'.reply = Nothing
           /\ fwu'.phase = "begin" => fwu'.image \in Images
           /\ UNCHANGED <<receiver, air, acted, told>>
  BY Fields DEF FwuStart, FwuIdle, Commands, Names, Answers

LEMMA BeginsTyped ==
    ASSUME NEW owner \in {"us", "local", "other"}, NEW image \in Images, Typing, Begins(owner, image)
    PROVE  begun' \in 0..MaxTransfers /\ gen' \in 0..begun' /\ xfer' \in Transfers
  BY FwuAssumption DEF Begins, Typing, Transfers, Numbers, States

\* Steps of others leave the command, the requests and the histories alone.
LEMMA ReceiverOnly ==
    ASSUME FwuInv, UNCHANGED <<fwu, air, acted, told>>, begun' \in 0..MaxTransfers, gen' \in 0..begun',
           xfer' \in Transfers \cup {Nothing}
    PROVE  FwuInv'
  BY DEF FwuInv, Typing, HandlesAreMeant, ReplyIsMeant, ActsOnResolved, SuccessWasReal

LEMMA TypedInv ==
    ASSUME FwuInv, TypeSend \/ TypeFwu
    PROVE  FwuInv'
  <1>1. PICK cmd \in Names, image \in AnImage :
           (cmd = "send" => image \in Images) /\ FwuStart(cmd, image)
    BY Fields DEF TypeSend, TypeFwu, Names
  <1> QED BY <1>1, StartTyped, NotWaiting DEF FwuInv, Typing, receiver

LEMMA SendInv ==
    ASSUME FwuInv, SendBegin \/ SendBlock \/ SendStops
    PROVE  FwuInv'
  <1> USE DEF FwuInv
  <1>1. CASE SendBegin
    <2>1. begun' \in 0..MaxTransfers /\ gen' \in 0..begun' /\ xfer' \in Transfers
      <3>1. CASE Begins("us", fwu.image)
        <4>1. fwu.image \in Images
          BY <1>1 DEF SendBegin, Typing
        <4> QED BY <3>1, <4>1, BeginsTyped
      <3>2. CASE Owned /\ xfer.image = fwu.image /\ UNCHANGED receiver
        BY <3>2 DEF Owned, receiver, Typing
      <3> QED BY <1>1, <3>1, <3>2 DEF SendBegin
    <2>2. [id |-> xfer'.id, gen |-> xfer'.gen] \in AHandle
      BY <2>1, Fields DEF Transfers, Handles
    <2>3. fwu' \in Commands /\ fwu'.phase = "blocks" /\ fwu'.reply = Nothing
      BY <1>1, <2>2 DEF SendBegin, Typing, Commands, ReplyIsMeant
    <2> QED BY <1>1, <2>1, <2>3, NotWaiting DEF SendBegin
  <1>2. CASE SendBlock
    <2>1. CASE xfer.got < Blocks
      <3>1. xfer' \in Transfers
        BY <1>2, <2>1 DEF SendBlock, Owned, Typing, Transfers
      <3> QED BY <1>2, <2>1, <3>1, ReceiverOnly DEF SendBlock, Typing
    <2>2. CASE ~(xfer.got < Blocks)
      <3>1. FwuEnd("done") /\ UNCHANGED receiver /\ UNCHANGED <<air, acted, told>>
        BY <1>2, <2>2 DEF SendBlock, receiver
      <3>2. fwu' \in Commands /\ fwu'.phase = "idle" /\ fwu'.reply = Nothing
        BY <3>1, EndTyped DEF Answers, Typing
      <3> QED BY <3>1, <3>2, NotWaiting DEF Typing, receiver
    <2> QED BY <2>1, <2>2
  <1>3. CASE SendStops
    <2>1. fwu' \in Commands /\ fwu'.phase = "idle" /\ fwu'.reply = Nothing
      BY <1>3, EndTyped DEF Answers, SendStops, Typing
    <2> QED BY <1>3, <2>1, NotWaiting DEF SendStops, Typing, receiver
  <1> QED BY <1>1, <1>2, <1>3

LEMMA ResolveInv ==
    ASSUME FwuInv, Resolve \/ ResolveFails
    PROVE  FwuInv'
  <1> USE DEF FwuInv
  <1>1. CASE Resolve /\ fwu.cmd = "status"
    <2>1. fwu' \in Commands /\ fwu'.phase = "idle" /\ fwu'.reply = Nothing
      BY <1>1, EndTyped DEF Answers, Resolve, Typing
    <2> QED BY <1>1, <2>1, NotWaiting DEF Resolve, Typing, receiver
  <1>2. CASE Resolve /\ fwu.cmd # "status"
    <2> DEFINE request == [op |-> fwu.cmd, meant |-> xfer.id, handle |-> HandleOf(xfer)]
    <2>1. /\ HandleOf(xfer) \in Handles /\ HandleOf(xfer).id = xfer.id
          /\ xfer.id \in Numbers
      BY <1>2 DEF Resolve, Owned, Typing, Transfers, Handles, HandleOf
    <2>2. request \in Requests /\ request.handle.id = request.meant
      BY <2>1 DEF Requests, Typing, Commands
    <2>3. fwu' \in Commands /\ fwu'.phase = "act" /\ fwu'.reply = Nothing /\ fwu'.id = xfer.id
          /\ fwu'.handle = HandleOf(xfer)
      BY <1>2, <2>1, Fields DEF Resolve, Typing, Commands, ReplyIsMeant
    <2>4. air' = air \cup {request} /\ UNCHANGED <<receiver, acted, told>>
      BY <1>2 DEF Resolve
    <2> HIDE DEF request
    <2>5. Typing' /\ HandlesAreMeant'
      BY <2>2, <2>3, <2>4 DEF Typing, HandlesAreMeant, receiver
    <2>6. ReplyIsMeant'
      BY <2>1, <2>3, FwuAssumption DEF ReplyIsMeant
    <2> QED BY <2>4, <2>5, <2>6 DEF ActsOnResolved, SuccessWasReal
  <1>3. CASE ResolveFails
    <2>1. fwu' \in Commands /\ fwu'.phase = "idle" /\ fwu'.reply = Nothing
      BY <1>3, EndTyped DEF Answers, ResolveFails, Typing
    <2> QED BY <1>3, <2>1, NotWaiting DEF ResolveFails, Typing, receiver
  <1> QED BY <1>1, <1>2, <1>3

\* A request that arrives acts on the transfer whose handle it carries, which is
\* the one it was meant for; the command that waits for it is told of that one.
LEMMA ArrivesInv ==
    ASSUME FwuInv, NEW m \in air, Arrives(m)
    PROVE  FwuInv'
  <1> USE DEF FwuInv
  <1> DEFINE state == IF Owned /\ Matches(m.handle) THEN After(m.op, xfer) ELSE Nothing
             deed == [op |-> m.op, meant |-> m.meant, on |-> xfer.id]
             waits == fwu.phase = "act" /\ fwu.cmd = m.op /\ fwu.handle = m.handle /\ fwu.reply = Nothing
  <1>1. m \in Requests /\ m.handle \in Handles /\ m.handle.id = m.meant /\ m.handle # Nothing
    BY FwuAssumption DEF Typing, Requests, Handles, Numbers, HandlesAreMeant
  <1>2. /\ xfer' = IF state = Nothing THEN xfer
                   ELSE IF state = "erased" THEN Nothing ELSE [xfer EXCEPT !.state = state]
        /\ acted' = IF state = Nothing THEN acted ELSE acted \cup {deed}
        /\ fwu' = IF waits THEN [fwu EXCEPT !.reply = IF state = Nothing THEN "refused" ELSE "ok"] ELSE fwu
        /\ UNCHANGED <<gen, begun, air, told>>
    BY DEF Arrives
  <1>3. state # Nothing => /\ xfer \in Transfers /\ state \in States \cup {"erased"}
                           /\ m.handle = [id |-> xfer.id, gen |-> xfer.gen]
    BY <1>1 DEF Owned, Matches, After, Typing, States
  <1>4. state # Nothing => m.handle.id = xfer.id
    BY <1>3
  <1> HIDE DEF state
  <1>5. xfer' \in Transfers \cup {Nothing}
    BY <1>2, <1>3 DEF Typing, Transfers
  <1>6. /\ fwu' \in Commands /\ fwu'.phase = fwu.phase /\ fwu'.id = fwu.id /\ fwu'.handle = fwu.handle
        /\ fwu'.cmd = fwu.cmd /\ fwu'.image = fwu.image
    BY <1>2, Fields DEF Typing, Commands
  <1>7. Typing' /\ HandlesAreMeant'
    BY <1>2, <1>5, <1>6 DEF Typing, HandlesAreMeant
  <1>8. ActsOnResolved' /\ SuccessWasReal'
    BY <1>1, <1>2, <1>4 DEF ActsOnResolved, SuccessWasReal
  <1>9. ReplyIsMeant'
    <2>1. fwu'.phase # "act" => fwu'.reply = Nothing
      BY <1>2, <1>6 DEF ReplyIsMeant
    <2>2. ASSUME fwu'.reply = "ok" PROVE \E a \in acted' : a.op = fwu'.cmd /\ a.on = fwu'.id
      <3>1. CASE waits
        <4>1. state # Nothing
          BY <1>2, <2>2, <3>1 DEF Typing, Commands
        <4>2. deed \in acted' /\ deed.op = fwu.cmd /\ deed.on = fwu.id
          BY <1>2, <1>4, <3>1, <4>1 DEF ReplyIsMeant
        <4> QED BY <1>6, <4>2
      <3>2. CASE ~waits
        BY <1>2, <2>2, <3>2 DEF ReplyIsMeant
      <3> QED BY <3>1, <3>2
    <2> QED BY <1>6, <2>1, <2>2 DEF ReplyIsMeant
  <1> QED BY <1>7, <1>8, <1>9

LEMMA ActInv ==
    ASSUME FwuInv, ActAnswered \/ ActFails
    PROVE  FwuInv'
  <1> USE DEF FwuInv
  <1>1. CASE ActFails
    <2>1. fwu' \in Commands /\ fwu'.phase = "idle" /\ fwu'.reply = Nothing
      BY <1>1, EndTyped DEF Answers, ActFails, Typing
    <2> QED BY <1>1, <2>1, NotWaiting DEF ActFails, Typing, receiver
  <1>2. CASE ActAnswered
    <2>1. fwu' \in Commands /\ fwu'.phase = "idle" /\ fwu'.reply = Nothing
      BY <1>2, EndTyped DEF Answers, ActAnswered, Typing
    <2>2. UNCHANGED <<receiver, air, acted>>
      BY <1>2 DEF ActAnswered
    <2>3. Typing' /\ HandlesAreMeant' /\ ReplyIsMeant' /\ ActsOnResolved'
      BY <2>1, <2>2, FwuAssumption DEF Typing, HandlesAreMeant, ReplyIsMeant, ActsOnResolved, receiver
    <2>4. SuccessWasReal'
      BY <1>2, <2>2 DEF ActAnswered, SuccessWasReal, ReplyIsMeant
    <2> QED BY <2>3, <2>4
  <1> QED BY <1>1, <1>2

LEMMA OthersInv ==
    ASSUME FwuInv, OthersAct \/ FwuRestart
    PROVE  FwuInv'
  <1> USE DEF FwuInv
  <1>1. CASE FwuRestart
    BY <1>1, ReceiverOnly DEF FwuRestart, Typing
  <1>2. CASE OthersAct
    <2>1. begun' \in 0..MaxTransfers /\ gen' \in 0..begun' /\ xfer' \in Transfers \cup {Nothing}
      <3>1. CASE cmd_fwu_begin
        BY <3>1, BeginsTyped DEF cmd_fwu_begin
      <3>2. CASE OtherBegins
        BY <3>2, BeginsTyped DEF OtherBegins
      <3>3. CASE OtherBlock
        BY <3>3 DEF OtherBlock, Typing, Transfers
      <3>4. CASE cmd_fwu_finish
        BY <3>4 DEF cmd_fwu_finish, IsOwnedBy, Typing, Transfers, States
      <3>5. CASE cmd_fwu_abort \/ OtherAborts
        BY <3>5 DEF cmd_fwu_abort, OtherAborts, Typing
      <3> QED BY <1>2, <3>1, <3>2, <3>3, <3>4, <3>5 DEF OthersAct
    <2> QED BY <1>2, <2>1, ReceiverOnly DEF OthersAct
  <1> QED BY <1>1, <1>2

----------------------------------------------------------------------------
(* log history. *)

LogCommands == [cmd : {"none", "history", "level"}, phase : {"idle", "reading"}, first : Nat, end : Nat, next : Nat,
                rows : Seq(Nat), answer : {"none", "done", "changed", "error"}]

\* The rows are the window up to next, and the window was written.
Window ==
    /\ log.first <= log.next /\ log.next <= log.end /\ log.end <= written
    /\ Len(log.rows) = log.next - log.first
    /\ \A i \in 1..Len(log.rows) : log.rows[i] = log.first + i - 1
    /\ log.answer = "done" => log.next = log.end
    /\ log.answer = "changed" => ~Served(log.next)
    /\ log.phase = "reading" => log.answer = "none"

LogInv == written \in Nat /\ log \in LogCommands /\ (log.cmd = "history" => Window)
          /\ lost \subseteq Nat
          /\ (log.phase = "reading" => log.cmd = "history")

LEMMA LogInitInv == Init => LogInv
  BY LogAssumption DEF Init, LogInit, LogIdle, LogInv, LogCommands

LEMMA OldestTyped == ASSUME written \in Nat PROVE Oldest \in Nat /\ Oldest <= written
  BY LogAssumption DEF Oldest

LEMMA HistoryInv ==
    ASSUME LogInv, TypeHistory
    PROVE  LogInv'
  <1> DEFINE first == IF written > MAX_READ + Oldest THEN written - MAX_READ ELSE Oldest
  <1>1. first \in Nat /\ first <= written
    BY LogAssumption, OldestTyped DEF LogInv
  <1>2. log' = [cmd |-> "history", phase |-> "reading", first |-> first, end |-> written, next |-> first,
                rows |-> <<>>, answer |-> "none"]
        /\ written' = written /\ lost' = lost
    BY DEF TypeHistory, LogIdle
  <1> HIDE DEF first
  <1>3. log' \in LogCommands /\ written' \in Nat
    BY <1>1, <1>2 DEF LogInv, LogCommands
  <1>4. Window'
    BY <1>1, <1>2 DEF Window, LogInv
  <1> QED BY <1>2, <1>3, <1>4 DEF LogInv

LEMMA ReadInv ==
    ASSUME LogInv, ReadRecord
    PROVE  LogInv'
  <1> USE DEF LogInv
  <1>1. Window /\ written' = written /\ lost' = lost /\ Oldest' = Oldest /\ log.cmd = "history" /\ log.answer = "none"
    BY DEF ReadRecord, Oldest, Window
  <1>2. CASE log.next = log.end
    <2>1. log' = [log EXCEPT !.phase = "idle", !.answer = "done"]
      BY <1>2 DEF ReadRecord, LogEnd
    <2>2. log' \in LogCommands /\ log'.phase = "idle" /\ log'.answer = "done"
          /\ log'.first = log.first /\ log'.end = log.end /\ log'.next = log.next /\ log'.rows = log.rows
      BY <2>1 DEF LogCommands
    <2> QED BY <1>1, <1>2, <2>2 DEF Window
  <1>3. CASE log.next # log.end /\ ~Served(log.next)
    <2>1. log' = [log EXCEPT !.phase = "idle", !.answer = "changed"]
      BY <1>3 DEF ReadRecord, LogEnd
    <2>2. log' \in LogCommands /\ log'.phase = "idle" /\ log'.answer = "changed"
          /\ log'.first = log.first /\ log'.end = log.end /\ log'.next = log.next /\ log'.rows = log.rows
      BY <2>1 DEF LogCommands
    <2> QED BY <1>1, <1>3, <2>2 DEF Window, Served
  <1>4. CASE log.next # log.end /\ Served(log.next)
    <2>1. log' = [log EXCEPT !.next = @ + 1, !.rows = Append(@, log.next)]
      BY <1>4 DEF ReadRecord
    <2>2. log' \in LogCommands /\ log'.phase = log.phase /\ log'.answer = log.answer /\ log'.cmd = log.cmd
          /\ log'.first = log.first /\ log'.end = log.end /\ log'.next = log.next + 1
          /\ log'.rows = Append(log.rows, log.next)
      <3>1. log.next + 1 \in Nat /\ Append(log.rows, log.next) \in Seq(Nat)
        BY DEF LogCommands
      <3> QED BY <2>1, <3>1 DEF LogCommands
    <2>3. log.rows \in Seq(Nat) /\ log.next \in Nat /\ log.first \in Nat /\ log.end \in Nat
      BY DEF LogCommands
    <2>4. Len(log'.rows) = log'.next - log'.first
      BY <1>1, <2>2, <2>3 DEF Window
    <2>5. ASSUME NEW i \in 1..Len(log'.rows) PROVE log'.rows[i] = log'.first + i - 1
      <3> DEFINE rows == log.rows
                 n == Len(rows)
      <3>1. /\ n \in Nat /\ n = log.next - log.first /\ log'.rows = Append(rows, log.next) /\ log'.first = log.first
            /\ rows \in Seq(Nat) /\ \A j \in 1..n : rows[j] = log.first + j - 1
        BY <1>1, <2>2, <2>3 DEF Window
      <3> HIDE DEF rows, n, LogInv
      <3>2. i = n + 1 \/ i \in 1..n
        BY <3>1 DEF n
      <3>3. CASE i = n + 1
        BY <2>3, <3>1, <3>3 DEF n
      <3>4. CASE i \in 1..n
        BY <3>1, <3>4 DEF n
      <3> QED BY <3>2, <3>3, <3>4
    <2>6. log'.first <= log'.next /\ log'.next <= log'.end /\ log'.end <= written'
      BY <1>1, <1>4, <2>2, <2>3 DEF Window
    <2>7. log'.answer = "none"
      BY <1>1, <2>2
    <2>8. Window'
      BY <2>4, <2>5, <2>6, <2>7 DEF Window
    <2> QED BY <1>1, <2>2, <2>8
  <1> QED BY <1>2, <1>3, <1>4

LEMMA LevelInv ==
    ASSUME LogInv, NEW l, SetLevel(l)
    PROVE  LogInv'
  <1>1. LogIdle \in LogCommands /\ LogIdle.phase = "idle"
    BY DEF LogIdle, LogCommands
  <1>2. \/ log' = [LogIdle EXCEPT !.cmd = "level", !.answer = "done"]
        \/ log' = [LogIdle EXCEPT !.cmd = "level", !.answer = "error"]
    BY DEF SetLevel
  <1>3. log' \in LogCommands /\ log'.cmd = "level" /\ log'.phase = "idle"
    BY <1>1, <1>2 DEF LogCommands
  <1>4. written' = written /\ lost' = lost
    BY DEF SetLevel
  <1> QED BY <1>3, <1>4 DEF LogInv

LEMMA WriteInv ==
    ASSUME LogInv, Write
    PROVE  LogInv'
  <1> USE DEF LogInv
  <1>1. written' = written + 1 /\ log' = log /\ lost' = lost /\ written' \in Nat
    BY DEF Write
  <1>2. Oldest <= Oldest' /\ Oldest \in Nat /\ Oldest' \in Nat
    BY <1>1, LogAssumption DEF Oldest
  <1>3. Window => Window'
    BY <1>1, <1>2 DEF Window, LogCommands, Served
  <1> QED BY <1>1, <1>3

----------------------------------------------------------------------------
(* Clocks. *)

\* No time that was handed over is that of a clock that is not set.
ClockInv == here \in Nat /\ there \in Nat /\ handed \subseteq Nat /\ \A t \in handed : IsSet(t)

LEMMA ClockInitInv == Init => ClockInv
  BY DEF Init, ClockInit, ClockInv, UNSET

LEMMA TypeTimeInv ==
    ASSUME ClockInv, TypeClock \/ TypeSync \/ \E t \in SetTimes : SetClock(t)
    PROVE  ClockInv' /\ there' = there
  <1>1. CASE TypeClock
    BY <1>1 DEF ClockInv, TypeClock, clocks
  <1>2. CASE TypeSync
    BY <1>2 DEF ClockInv, TypeSync, clocks
  <1>3. ASSUME NEW t \in SetTimes, SetClock(t) PROVE ClockInv' /\ there' = there
    BY <1>3, ClockAssumption DEF ClockInv, SetClock
  <1> QED BY <1>1, <1>2, <1>3

LEMMA ClockStepInv ==
    ASSUME ClockInv, ClockStep
    PROVE  ClockInv' /\ there' = there
  BY DEF ClockInv, ClockStep, SyncAnswered, ReadAnswered, Identified, ClockSilence, clocks

LEMMA ClockOthersInv ==
    ASSUME ClockInv, ClockOthers
    PROVE  ClockInv' /\ (IsSet(there) => IsSet(there'))
  <1>1. CASE Tick
    BY <1>1 DEF ClockInv, Tick, Tock, IsSet, UNSET
  <1>2. ASSUME NEW t \in handed, NodeTakes(t) PROVE ClockInv' /\ IsSet(there')
    BY <1>2 DEF ClockInv, NodeTakes
  <1> QED BY <1>1, <1>2 DEF ClockOthers

----------------------------------------------------------------------------
(* The composition. *)

Inv == FwuInv /\ LogInv /\ ClockInv

LEMMA FwuUnchanged == ASSUME FwuInv, UNCHANGED fwuVars PROVE FwuInv'
  BY ReceiverOnly DEF fwuVars, receiver, FwuInv, Typing

LEMMA LogUnchanged == ASSUME LogInv, UNCHANGED logVars PROVE LogInv'
  BY DEF LogInv, logVars, Window, Oldest, Served

LEMMA ClockUnchanged == ASSUME ClockInv, UNCHANGED clockVars PROVE ClockInv' /\ there' = there
  BY DEF ClockInv, clockVars, clocks

LEMMA StepInv == Inv /\ [Next]_vars => Inv'
  <1> SUFFICES ASSUME Inv, [Next]_vars PROVE Inv'
      OBVIOUS
  <1> USE DEF Inv
  <1>1. CASE Typed
    <2>1. CASE TypeUpload
      BY <2>1, TypedInv, LogUnchanged, ClockUnchanged DEF TypeUpload
    <2>2. CASE TypeTime
      BY <2>2, FwuUnchanged, LogUnchanged, TypeTimeInv DEF TypeTime
    <2>3. CASE TypeLog
      BY <2>3, FwuUnchanged, HistoryInv, LevelInv, ClockUnchanged DEF TypeLog
    <2> QED BY <1>1, <2>1, <2>2, <2>3 DEF Typed
  <1>2. CASE ShellStep
    <2>1. CASE FwuStep /\ UNCHANGED <<clockVars, logVars>>
      BY <2>1, SendInv, ResolveInv, ActInv, LogUnchanged, ClockUnchanged DEF FwuStep
    <2>2. CASE ClockStep /\ UNCHANGED <<fwuVars, logVars>>
      BY <2>2, FwuUnchanged, LogUnchanged, ClockStepInv
    <2>3. CASE ReadRecord /\ UNCHANGED <<fwuVars, clockVars>>
      BY <2>3, FwuUnchanged, ReadInv, ClockUnchanged
    <2> QED BY <1>2, <2>1, <2>2, <2>3 DEF ShellStep
  <1>3. CASE Others
    <2>1. CASE FwuOthers /\ UNCHANGED <<clockVars, logVars>>
      BY <2>1, OthersInv, ArrivesInv, LogUnchanged, ClockUnchanged DEF FwuOthers
    <2>2. CASE ClockOthers /\ UNCHANGED <<fwuVars, logVars>>
      BY <2>2, FwuUnchanged, LogUnchanged, ClockOthersInv
    <2>3. CASE Write /\ UNCHANGED <<fwuVars, clockVars>>
      BY <2>3, FwuUnchanged, WriteInv, ClockUnchanged
    <2> QED BY <1>3, <2>1, <2>2, <2>3 DEF Others
  <1>4. CASE Restart
    <2>1. ClockInv'
      BY <1>4 DEF Restart, ClockRestart, ClockInv, UNSET
    <2> QED BY <1>4, <2>1, OthersInv, LogUnchanged DEF Restart
  <1>5. CASE UNCHANGED vars
    BY <1>5, FwuUnchanged, LogUnchanged, ClockUnchanged DEF vars
  <1> QED BY <1>1, <1>2, <1>3, <1>4, <1>5 DEF Next

LEMMA StepKeepsTime == Inv /\ [Next]_vars => [IsSet(there) /\ ~IsSet(there') => restarts' = restarts + 1]_vars
  <1> SUFFICES ASSUME Inv, Next, IsSet(there), ~IsSet(there') PROVE restarts' = restarts + 1
      OBVIOUS
  <1> USE DEF Inv
  <1>1. ~Typed
    BY TypeTimeInv, ClockUnchanged DEF Typed, TypeUpload, TypeTime, TypeLog
  <1>2. ~ShellStep
    BY ClockStepInv, ClockUnchanged DEF ShellStep
  <1>3. ~Others
    BY ClockOthersInv, ClockUnchanged DEF Others
  <1> QED BY <1>1, <1>2, <1>3 DEF Next, Restart

\* The inductive invariant of the sessions.
THEOREM SessionsInvariant == Spec => []Inv
  <1>1. Init => Inv
    BY FwuInitInv, LogInitInv, ClockInitInv DEF Inv
  <1> QED BY <1>1, StepInv, PTL DEF Spec

\* validate, flash and abort of shell_fwu_lite.c act only on the transfer that
\* resolve_transfer() found, for every number of transfers, restarts of the
\* receiver, other owners, and late or repeated requests.
THEOREM CommandsActOnResolved == Spec => []ActsOnResolved
  <1>1. Inv => ActsOnResolved
    BY DEF Inv, FwuInv
  <1> QED BY <1>1, SessionsInvariant, PTL

\* What these commands print as a success happened on the node.
THEOREM SuccessesAreReal == Spec => []SuccessWasReal
  <1>1. Inv => SuccessWasReal
    BY DEF Inv, FwuInv
  <1> QED BY <1>1, SessionsInvariant, PTL

\* log history of shell_system.c prints its window without a gap, or says that
\* the log changed, for every size of the ring and of the window.
THEOREM HistoryIsWhole == Spec => []HistoryHasNoGap
  <1>1. Inv => HistoryHasNoGap
    <2> SUFFICES ASSUME Inv, log.cmd = "history"
                 PROVE  /\ \A i \in DOMAIN log.rows : log.rows[i] = log.first + i - 1
                        /\ log.answer = "done" => Len(log.rows) = log.end - log.first
                        /\ log.answer = "changed" => ~Served(log.next)
        BY DEF HistoryHasNoGap
    <2>1. Window
      BY DEF Inv, LogInv
    <2>2. log.rows \in Seq(Nat)
      BY DEF Inv, LogInv, LogCommands
    <2>3. DOMAIN log.rows = 1..Len(log.rows)
      BY <2>2
    <2> QED BY <2>1, <2>3 DEF Window
  <1> QED BY <1>1, SessionsInvariant, PTL

\* csp clock sync of shell_csp.c, late or repeated, never unsets a node's clock:
\* in every step in which a clock loses its time the node restarts.
THEOREM HandOversKeepTime == Spec => HandOverKeepsTime
  <1> QED BY SessionsInvariant, StepKeepsTime, PTL DEF Spec, HandOverKeepsTime
=============================================================================
