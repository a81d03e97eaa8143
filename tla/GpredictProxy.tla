--------------------------- MODULE GpredictProxy ---------------------------
(***************************************************************************)
(* The proxy between Gpredict and the rotator and radio daemons of the     *)
(* ground station (tools/ground/gpredict-proxy.py).  One thread reads      *)
(* command lines, applies the selected profile and exchanges a line with   *)
(* the daemon behind it.  Daemons stop, come back, answer late, or answer  *)
(* in pieces, as a TCP stream allows.                                      *)
(*                                                                         *)
(* A piece of a reply is named by the command that it answers.             *)
(***************************************************************************)
EXTENDS Integers, Sequences, FiniteSets

CONSTANTS
    Channels,         \* {"rotator", "radio"}
    Bearings,         \* bearings that Gpredict may send
    Travel,           \* the bearings that the profile allows
    Home,             \* 0.0, 0.0: the position before any was accepted
    Frequencies,
    Policies,         \* the frequency policies of the profiles that may be selected
    HeldHz,           \* the profile's own frequency
    Lines,            \* lines in a daemon's answer to p
    MaxCommands       \* bound: commands from Gpredict

ASSUME ProxyAssumption ==
    /\ Channels = {"rotator", "radio"}
    /\ Travel \subseteq Bearings /\ Home \notin Bearings
    /\ Policies \subseteq {"follow", "hold", "ignore"}
    /\ Lines \in Nat \ {0} /\ MaxCommands \in Nat

VARIABLES
    running,          \* the process
    policy,           \* profile.policy, selected when it was started
    endpoints,        \* the channels that were given an upstream daemon
    up,               \* the daemons that accept connections
    sock,             \* Upstream.socket: none, open, or dead once the daemon closed it
    unread,           \* pieces in the connection that were not read yet
    position,         \* self.azimuth, self.elevation
    frequency,        \* self.frequency_hz
    commands,         \* command lines so far
    answer,           \* the pieces that the last one was answered with
    counters,
    malformed,        \* history: lines with a number that cannot be read
    motors, tuned     \* history: what was sent on to the daemons

started == <<policy, endpoints>>
upstream == <<sock, unread>>
told == <<motors, tuned>>
vars == <<running, started, up, upstream, position, frequency, commands, answer, counters, malformed, told>>

Init ==
    /\ running = TRUE /\ policy \in Policies /\ endpoints \in SUBSET Channels /\ up = endpoints
    /\ sock = [c \in Channels |-> "none"]
    /\ unread = [c \in Channels |-> <<>>]
    /\ position = Home /\ frequency = 0
    /\ commands = 0 /\ answer = <<>>
    /\ counters = [bearings_in |-> 0, frequencies_in |-> 0, bearings_out |-> 0,
                   frequencies_out |-> 0, refused |-> 0, upstream_failures |-> 0]
    /\ malformed = 0 /\ motors = {} /\ tuned = {}

----------------------------------------------------------------------------
(* Upstream.send() *)

None == <<0>>         \* no command has number 0
This == commands + 1
Own == <<This>>       \* a reply that the proxy makes up itself
OrOwn(reply) == IF reply = None THEN Own ELSE reply

\* No daemon is configured, or it refuses the connection.
Unconnected(c, reply, failed) ==
    /\ reply = None
    /\ \/ c \notin endpoints /\ failed = 0
       \/ c \in endpoints /\ sock[c] = "none" /\ c \notin up /\ failed = 1
    /\ UNCHANGED upstream

Connected(c) == c \in endpoints /\ (sock[c] = "open" \/ (sock[c] = "none" /\ c \in up))

\* recv(256) returns what has arrived: at least one piece, at most all of them.
Answered(c, lines, reply, failed) ==
    /\ Connected(c) /\ failed = 0
    /\ LET all == unread[c] \o [i \in 1..lines |-> This]
       IN  \E k \in 1..Len(all) :
             /\ reply = SubSeq(all, 1, k)
             /\ unread' = [unread EXCEPT ![c] = SubSeq(all, k + 1, Len(all))]
    /\ sock' = [sock EXCEPT ![c] = "open"]

\* A plausible defect: the connection is kept, and the late answer comes on it.
Broken_kept(c, lines, reply, failed) ==
    /\ Connected(c) /\ unread[c] = <<>>
    /\ reply = None /\ failed = 1
    /\ sock' = [sock EXCEPT ![c] = "open"]
    /\ unread' = [unread EXCEPT ![c] = [i \in 1..lines |-> This]]

\* OSError, which a timeout of 5 s is too: the socket is closed, with what may
\* still arrive on it.
Broken(c, lines, reply, failed) ==
    /\ \/ Connected(c)
       \/ c \in endpoints /\ sock[c] = "dead"
    /\ unread[c] = <<>>
    /\ reply = None /\ failed = 1
    /\ sock' = [sock EXCEPT ![c] = "none"]
    /\ UNCHANGED unread

\* The daemon closed the connection: recv() returns what is left, and then nothing.
Closed(c, reply, failed) ==
    /\ c \in endpoints /\ sock[c] = "dead" /\ failed = 0
    /\ reply = unread[c]
    /\ unread' = [unread EXCEPT ![c] = <<>>]
    /\ UNCHANGED sock

send(c, lines, reply, failed) ==
    \/ Unconnected(c, reply, failed)
    \/ Answered(c, lines, reply, failed)
    \/ Broken(c, lines, reply, failed)
    \/ Closed(c, reply, failed)

\* Every reply that send() could return now.
Replies(c, lines) ==
    {None, unread[c]} \cup {SubSeq(unread[c] \o [i \in 1..lines |-> This], 1, k) :
                               k \in 1..(Len(unread[c]) + lines)}

----------------------------------------------------------------------------
(* Proxy.rotator_command() and Proxy.radio_command(), called by serve().    *)

Handling ==
    /\ running /\ commands < MaxCommands
    /\ commands' = This

\* P az el inside the travel: forwarded.
SetPosition ==
    /\ Handling
    /\ \E b \in Travel, failed \in 0..1 : \E reply \in Replies("rotator", 1) :
          /\ send("rotator", 1, reply, failed)
          /\ position' = b
          /\ motors' = motors \cup {b}
          /\ answer' = OrOwn(reply)
          /\ counters' = [counters EXCEPT !.bearings_in = @ + 1, !.bearings_out = @ + 1,
                                          !.upstream_failures = @ + failed]
    /\ UNCHANGED <<running, started, up, frequency, malformed, tuned>>

\* P az el outside it: RPRT -1.
RefusePosition ==
    /\ Handling
    /\ Bearings \ Travel # {}
    /\ counters' = [counters EXCEPT !.bearings_in = @ + 1, !.refused = @ + 1]
    /\ answer' = Own
    /\ UNCHANGED <<running, started, up, upstream, position, frequency, malformed, told>>

\* A plausible defect: ignore stops at the log and forwards all the same.
Tune_ignoring(f) == IF policy = "hold" THEN {HeldHz} ELSE {f}

\* The frequency that the profile makes of f, if any.
Tune(f) ==
    CASE policy = "follow" -> {f}
      [] policy = "hold"   -> {HeldHz}
      [] policy = "ignore" -> {}

SetFrequency ==
    /\ Handling
    /\ \E f \in Frequencies, failed \in 0..1 : \E reply \in Replies("radio", 1), hz \in Tune(f) :
          /\ send("radio", 1, reply, failed)
          /\ frequency' = hz
          /\ tuned' = tuned \cup {hz}
          /\ answer' = OrOwn(reply)
          /\ counters' = [counters EXCEPT !.frequencies_in = @ + 1, !.frequencies_out = @ + 1,
                                          !.upstream_failures = @ + failed]
    /\ UNCHANGED <<running, started, up, position, malformed, motors>>

\* The ignore policy: counted as refused and answered RPRT 0.
IgnoreFrequency ==
    /\ Handling
    /\ \E f \in Frequencies : Tune(f) = {}
    /\ counters' = [counters EXCEPT !.frequencies_in = @ + 1, !.refused = @ + 1]
    /\ answer' = Own
    /\ UNCHANGED <<running, started, up, upstream, position, frequency, malformed, told>>

\* A P or an F whose numbers cannot be read.
Malformed(field) ==
    /\ Handling
    /\ malformed' = malformed + 1
    /\ counters' = [counters EXCEPT ![field] = @ + 1]
    /\ answer' = Own
    /\ UNCHANGED <<running, started, up, upstream, position, frequency, told>>

\* p, S, K and f; or, from the proxy itself, what was last accepted.
Query(c, lines) ==
    /\ Handling
    /\ \E failed \in 0..1 : \E reply \in Replies(c, lines) :
          /\ send(c, lines, reply, failed)
          /\ answer' = OrOwn(reply)
          /\ counters' = [counters EXCEPT !.upstream_failures = @ + failed]
    /\ UNCHANGED <<running, started, up, position, frequency, malformed, told>>

\* Any other verb: RPRT -1.
Unknown ==
    /\ Handling
    /\ answer' = Own
    /\ UNCHANGED <<running, started, up, upstream, position, frequency, counters, malformed, told>>

\* serve(): a client that resets its connection raises OSError, which ends main();
\* so do Ctrl-C and --seconds.  The upstream sockets are closed on the way out.
Ends ==
    /\ running
    /\ running' = FALSE
    /\ sock' = [c \in Channels |-> "none"]
    /\ unread' = [c \in Channels |-> <<>>]
    /\ UNCHANGED <<started, up, position, frequency, commands, answer, counters, malformed, told>>

----------------------------------------------------------------------------
(* The daemons (external). *)

DaemonStops(c) ==
    /\ c \in up
    /\ up' = up \ {c}
    /\ sock' = [sock EXCEPT ![c] = IF @ = "open" THEN "dead" ELSE @]
    /\ UNCHANGED <<running, started, unread, position, frequency, commands, answer, counters, malformed, told>>

DaemonStarts(c) ==
    /\ c \in endpoints \ up
    /\ up' = up \cup {c}
    /\ UNCHANGED <<running, started, upstream, position, frequency, commands, answer, counters, malformed, told>>

Command ==
    \/ SetPosition \/ RefusePosition \/ Malformed("bearings_in")
    \/ SetFrequency \/ IgnoreFrequency \/ Malformed("frequencies_in")
    \/ Query("rotator", Lines)
    \/ \E c \in Channels : Query(c, 1)
    \/ Unknown

Next ==
    \/ Command \/ Ends
    \/ \E c \in Channels : DaemonStops(c) \/ DaemonStarts(c)

Spec == Init /\ [][Next]_vars

----------------------------------------------------------------------------
(* Properties. *)

\* Type correctness; the position is one that was accepted.
TypeOK ==
    /\ running \in BOOLEAN /\ policy \in Policies /\ up \subseteq endpoints /\ endpoints \subseteq Channels
    /\ sock \in [Channels -> {"none", "open", "dead"}]
    /\ \A c \in Channels : unread[c] \in Seq(1..commands) /\ (sock[c] = "none" => unread[c] = <<>>)
    /\ position \in Travel \cup {Home}
    /\ frequency \in Frequencies \cup {0, HeldHz}
    /\ commands \in 0..MaxCommands /\ answer \in Seq(1..commands)
    /\ counters \in [{"bearings_in", "frequencies_in", "bearings_out", "frequencies_out",
                      "refused", "upstream_failures"} -> 0..MaxCommands]
    /\ malformed \in 0..MaxCommands

\* The daemons are told only what the profile allows, and every bearing and
\* frequency that came in went out, was refused, or could not be read.
ProfileObeyed ==
    /\ motors \subseteq Travel
    /\ policy = "hold" => tuned \subseteq {HeldHz}
    /\ policy = "ignore" => tuned = {}
    /\ counters.bearings_in + counters.frequencies_in =
          counters.bearings_out + counters.frequencies_out + counters.refused + malformed

\* Upstream.send() returns the daemon's reply: Gpredict is never given a piece of
\* the answer to an earlier command, also after a daemon was late or restarted.
ReplyIsItsOwn == \A i \in 1..Len(answer) : answer[i] = commands
=============================================================================
