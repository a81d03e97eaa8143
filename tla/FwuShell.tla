------------------------------ MODULE FwuShell ------------------------------
(***************************************************************************)
(* Firmware upload from this node's shell to another node                  *)
(* (app/src/shell/shell_fwu_lite.c).  validate, flash and abort are two    *)
(* exchanges: resolve_transfer() asks for the transfer that this sender    *)
(* owns, and its handle goes into the request that acts.  Requests may be  *)
(* lost, late or repeated.  On the node, another sender, its own shell     *)
(* (app/src/shell/shell_fwu.c) and a restart may end the transfer, and a   *)
(* new one may begin.                                                      *)
(*                                                                         *)
(* The receiver is external, modelled from docs/fwu/README.md: one slot    *)
(* with one owner, stale handles refused, and nothing of a transfer left   *)
(* after a restart, its generation number included.  A handle is the       *)
(* sender's own number for the transfer, which it does not use again, and  *)
(* the receiver's generation.                                              *)
(***************************************************************************)
EXTENDS Naturals

CONSTANTS
    Images,       \* artifacts that are sent
    Blocks,       \* blocks in each
    Nothing,      \* no transfer, no handle, no answer
    MaxTransfers  \* bound: transfers begun

\* Nothing is told apart from every handle and every state of a transfer.
ASSUME FwuAssumption ==
    /\ Blocks \in Nat /\ MaxTransfers \in Nat
    /\ Nothing \notin [id : 1..MaxTransfers, gen : 1..MaxTransfers]
    /\ Nothing \notin {"ok", "refused", "verified", "ready", "erased"}

VARIABLES
    xfer,         \* the transfer of the receiving node
    gen,          \* its generation counter
    begun,        \* transfers begun so far
    fwu,          \* the upload command that the shell runs
    air,          \* requests sent; one may arrive any time and again
    acted,        \* who meant what, and what it acted on (history)
    told          \* what was printed as a success (history)

receiver == <<xfer, gen, begun>>
fwuVars == <<receiver, fwu, air, acted, told>>

FwuIdle == [cmd |-> "none", phase |-> "idle", image |-> Nothing, id |-> Nothing,
            handle |-> Nothing, reply |-> Nothing, answer |-> "none"]

FwuInit ==
    /\ xfer = Nothing /\ gen = 0 /\ begun = 0
    /\ fwu = FwuIdle
    /\ air = {} /\ acted = {} /\ told = {}

----------------------------------------------------------------------------
(* The receiver. *)

Begins(owner, image) ==
    /\ xfer = Nothing /\ begun < MaxTransfers
    /\ xfer' = [owner |-> owner, image |-> image, id |-> begun + 1, gen |-> gen + 1, got |-> 0,
                state |-> "receiving"]
    /\ gen' = gen + 1 /\ begun' = begun + 1

\* The state after an operation, or Nothing when it is refused.  A flash that is
\* repeated has the outcome of the first.
After(op, x) ==
    CASE op = "validate" /\ x.got = Blocks /\ x.state \in {"receiving", "verified"} -> "verified"
      [] op = "flash" /\ x.state \in {"verified", "ready"} -> "ready"
      [] op = "abort" -> "erased"
      [] OTHER -> Nothing

Owned == xfer # Nothing /\ xfer.owner = "us"
Matches(handle) == handle = Nothing \/ handle = [id |-> xfer.id, gen |-> xfer.gen]

----------------------------------------------------------------------------
(* The shell. *)

FwuStart(cmd, image) ==
    /\ fwu.phase = "idle"
    /\ fwu' = [FwuIdle EXCEPT !.cmd = cmd, !.phase = IF cmd = "send" THEN "begin" ELSE "resolve",
                              !.image = image]
    /\ UNCHANGED <<receiver, air, acted, told>>

TypeSend == \E image \in Images : FwuStart("send", image)
TypeFwu == \E cmd \in {"status", "validate", "flash", "abort"} : FwuStart(cmd, Nothing)

FwuEnd(answer) == fwu' = [FwuIdle EXCEPT !.cmd = fwu.cmd, !.answer = answer]

\* kfsw_fwu_lite_send_file(): a new transfer, or the one of the same image.
SendBegin ==
    /\ fwu.phase = "begin"
    /\ \/ Begins("us", fwu.image)
       \/ Owned /\ xfer.image = fwu.image /\ UNCHANGED receiver
    /\ fwu' = [fwu EXCEPT !.phase = "blocks", !.handle = [id |-> xfer'.id, gen |-> xfer'.gen]]
    /\ UNCHANGED <<air, acted, told>>

SendBlock ==
    /\ fwu.phase = "blocks" /\ Owned /\ Matches(fwu.handle)
    /\ IF xfer.got < Blocks
       THEN xfer' = [xfer EXCEPT !.got = @ + 1] /\ UNCHANGED fwu
       ELSE FwuEnd("done") /\ UNCHANGED xfer
    /\ UNCHANGED <<gen, begun, air, acted, told>>

\* A plausible defect: the command itself tries again, for as long as it takes.
SendStops_retries ==
    /\ fwu.phase \in {"begin", "blocks"}
    /\ fwu' = [fwu EXCEPT !.phase = "begin"]
    /\ UNCHANGED <<receiver, air, acted, told>>

\* A refusal, or retries that ran out; the receiver keeps what it has.
SendStops ==
    /\ fwu.phase \in {"begin", "blocks"}
    /\ FwuEnd("error")
    /\ UNCHANGED <<receiver, air, acted, told>>

\* A plausible defect: no handle, which stands for whatever this sender owns.
HandleOf_current(x) == Nothing
HandleOf(x) == [id |-> x.id, gen |-> x.gen]

\* resolve_transfer(); status prints what it got and ends.
Resolve ==
    /\ fwu.phase = "resolve" /\ Owned
    /\ IF fwu.cmd = "status" THEN FwuEnd("done") /\ UNCHANGED air
       ELSE /\ fwu' = [fwu EXCEPT !.phase = "act", !.id = xfer.id, !.handle = HandleOf(xfer)]
            /\ air' = air \cup {[op |-> fwu.cmd, meant |-> xfer.id, handle |-> HandleOf(xfer)]}
    /\ UNCHANGED <<receiver, acted, told>>

\* status takes -ENOENT, no transfer on the node, for an answer; another owner's
\* transfer, any other refusal and no answer are errors to every command.
ResolveFails ==
    /\ fwu.phase = "resolve"
    /\ \/ fwu.cmd = "status" /\ xfer = Nothing /\ FwuEnd("done")
       \/ FwuEnd("error")
    /\ UNCHANGED <<receiver, air, acted, told>>

\* A request arrives, for the first time or again.  A reply is bound to its
\* request: only the command that waits for this one sees it.
Arrives(m) ==
    /\ LET state == IF Owned /\ Matches(m.handle) THEN After(m.op, xfer) ELSE Nothing IN
       /\ xfer' = IF state = Nothing THEN xfer
                  ELSE IF state = "erased" THEN Nothing ELSE [xfer EXCEPT !.state = state]
       /\ acted' = IF state = Nothing THEN acted
                   ELSE acted \cup {[op |-> m.op, meant |-> m.meant, on |-> xfer.id]}
       /\ fwu' = IF fwu.phase = "act" /\ fwu.cmd = m.op /\ fwu.handle = m.handle /\ fwu.reply = Nothing
                 THEN [fwu EXCEPT !.reply = IF state = Nothing THEN "refused" ELSE "ok"] ELSE fwu
    /\ UNCHANGED <<gen, begun, air, told>>

\* The reply came in time.
ActAnswered ==
    /\ fwu.phase = "act" /\ fwu.reply # Nothing
    /\ FwuEnd(IF fwu.reply = "ok" THEN "done" ELSE "error")
    /\ told' = IF fwu.reply = "ok" THEN told \cup {[op |-> fwu.cmd, on |-> fwu.id]} ELSE told
    /\ UNCHANGED <<receiver, air, acted>>

\* A plausible defect: the result of the first exchange is the one looked at.
ActFails_unnoticed ==
    /\ fwu.phase = "act"
    /\ FwuEnd("done")
    /\ told' = told \cup {[op |-> fwu.cmd, on |-> fwu.id]}
    /\ UNCHANGED <<receiver, air, acted>>

ActFails ==
    /\ fwu.phase = "act"
    /\ FwuEnd("error")
    /\ UNCHANGED <<receiver, air, acted, told>>

----------------------------------------------------------------------------
(* Others on the receiving node.  Its own shell cannot touch a transfer that *)
(* a remote sender owns.                                                     *)

cmd_fwu_begin == \E image \in Images : Begins("local", image)
OtherBegins == \E image \in Images : Begins("other", image)
IsOwnedBy(owner) == xfer # Nothing /\ xfer.owner = owner

\* Blocks that are not ours: FTP, or another sender.
OtherBlock ==
    /\ xfer # Nothing /\ xfer.owner # "us" /\ xfer.got < Blocks
    /\ xfer' = [xfer EXCEPT !.got = @ + 1] /\ UNCHANGED <<gen, begun>>

\* A finish that fails erases the slot.
cmd_fwu_finish ==
    /\ IsOwnedBy("local") /\ xfer.got = Blocks
    /\ \/ xfer' = [xfer EXCEPT !.state = "ready"]
       \/ xfer' = Nothing
    /\ UNCHANGED <<gen, begun>>
cmd_fwu_abort == IsOwnedBy("local") /\ xfer' = Nothing /\ UNCHANGED <<gen, begun>>
OtherAborts == IsOwnedBy("other") /\ xfer' = Nothing /\ UNCHANGED <<gen, begun>>

OthersAct ==
    /\ \/ cmd_fwu_begin \/ OtherBegins \/ OtherBlock \/ cmd_fwu_finish \/ cmd_fwu_abort \/ OtherAborts
    /\ UNCHANGED <<fwu, air, acted, told>>

\* The receiver restarts; generations begin at one again.
FwuRestart == xfer' = Nothing /\ gen' = 0 /\ UNCHANGED <<begun, fwu, air, acted, told>>

FwuStep ==
    \/ SendBegin \/ SendBlock \/ SendStops \/ Resolve \/ ResolveFails \/ ActAnswered \/ ActFails

FwuOthers == OthersAct \/ \E m \in air : Arrives(m)

----------------------------------------------------------------------------
(* Properties. *)

FwuTypeOK ==
    /\ xfer = Nothing \/ (xfer.got \in 0..Blocks /\ xfer.gen \in 1..gen /\ xfer.image \in Images)
    /\ gen <= begun /\ begun <= MaxTransfers
    /\ fwu.phase \in {"idle", "begin", "blocks", "resolve", "act"}

\* validate, flash and abort act only on the transfer that the operator's
\* command found on the node, although it may be gone by then, replaced by another of
\* this sender or by that of somebody else, or the node may have restarted and
\* hand out the same generation again.
ActsOnResolved == \A a \in acted : a.on = a.meant

\* An image that is called verified, scheduled or erased was so on the node: no
\* answer, a refusal and the answer to another request are not successes.
SuccessWasReal == \A t \in told : \E a \in acted : a.op = t.op /\ a.on = t.on
=============================================================================
