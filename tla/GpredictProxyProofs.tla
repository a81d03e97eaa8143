------------------------ MODULE GpredictProxyProofs ------------------------
(***************************************************************************)
(* The Gpredict proxy, for every profile, number of commands and behaviour *)
(* of the daemons: types, the profile, and whose reply Gpredict is given.  *)
(***************************************************************************)
EXTENDS GpredictProxy, SequenceTheorems, TLAPS

Names == {"bearings_in", "frequencies_in", "bearings_out", "frequencies_out",
          "refused", "upstream_failures"}

\* The parts of TypeOK, with what keeps each counter below the bound: one command
\* adds at most one to it.
Process ==
    /\ running \in BOOLEAN /\ policy \in Policies /\ endpoints \subseteq Channels /\ up \subseteq endpoints
    /\ position \in Travel \cup {Home} /\ frequency \in Frequencies \cup {0, HeldHz}
    /\ commands \in 0..MaxCommands
Counted ==
    /\ counters \in [Names -> Nat] /\ malformed \in Nat
    /\ \A n \in Names : counters[n] <= commands
    /\ malformed <= commands
Pieces ==
    /\ sock \in [Channels -> {"none", "open", "dead"}]
    /\ unread \in [Channels -> Seq(1..commands)]
    /\ \A c \in Channels : sock[c] = "none" => unread[c] = <<>>
    /\ answer \in Seq(1..commands)
Typed == Process /\ Counted /\ Pieces

\* The parts make TypeOK.
LEMMA TypedIsTypeOK == Typed => TypeOK
  <1> SUFFICES ASSUME Typed PROVE TypeOK
    OBVIOUS
  <1>1. counters \in [Names -> 0..MaxCommands] /\ malformed \in 0..MaxCommands
    BY ProxyAssumption DEF Typed, Process, Counted
  <1>2. \A c \in Channels : unread[c] \in Seq(1..commands)
    BY DEF Typed, Pieces
  <1> QED BY <1>1, <1>2 DEF Typed, Process, Pieces, TypeOK, Names

\* Nothing was sent or counted at first.
LEMMA InitTyped == Init => Typed
  <1> SUFFICES ASSUME Init PROVE Typed
    OBVIOUS
  <1>1. running \in BOOLEAN
    BY Zenon DEF Init
  <1>2. Process
    BY <1>1, ProxyAssumption DEF Init, Process
  <1>3. counters \in [Names -> Nat] /\ \A n \in Names : counters[n] = 0
    BY DEF Init, Names
  <1>4. Counted
    BY <1>3 DEF Init, Counted
  <1>5. Pieces
    BY DEF Init, Pieces
  <1> QED BY <1>2, <1>4, <1>5 DEF Typed

\* What was named by an earlier command is named by one still.
LEMMA PiecesGrow ==
    ASSUME NEW n \in Nat, NEW q \in Seq(1..n)
    PROVE  q \in Seq(1..(n + 1))
  <1>1. 1..n \subseteq 1..(n + 1)
    OBVIOUS
  <1> QED BY <1>1

\* The connection with the pieces of one more answer.
LEMMA AllPieces ==
    ASSUME Typed, NEW c \in Channels, NEW lines \in Nat
    PROVE  unread[c] \o [i \in 1..lines |-> This] \in Seq(1..This)
  <1>1. commands \in Nat /\ This \in 1..This
    BY ProxyAssumption DEF Typed, Process, This
  <1>2. unread[c] \in Seq(1..commands)
    BY DEF Typed, Pieces
  <1>3. unread[c] \in Seq(1..This)
    BY <1>1, <1>2, PiecesGrow DEF This
  <1>4. [i \in 1..lines |-> This] \in Seq(1..This)
    BY <1>1
  <1> QED BY <1>3, <1>4

\* What recv() takes of a connection, and what it leaves there.
LEMMA Halves ==
    ASSUME NEW S, NEW q \in Seq(S), NEW k \in 1..Len(q)
    PROVE  SubSeq(q, 1, k) \in Seq(S) /\ SubSeq(q, k + 1, Len(q)) \in Seq(S)
  <1>1. Len(q) \in Nat /\ k \in Int /\ k + 1 \in Int /\ \A i \in 1..Len(q) : q[i] \in S
    OBVIOUS
  <1>2. PICK n \in Nat : n = Len(q)
    BY <1>1
  <1>3. \A i \in 1..k : q[i] \in S
    BY <1>1, <1>2
  <1>4. \A i \in (k + 1)..n : q[i] \in S
    BY <1>1, <1>2
  <1>5. SubSeq(q, 1, k) \in Seq(S)
    BY <1>1, <1>3, SubSeqProperties
  <1>6. SubSeq(q, k + 1, n) \in Seq(S)
    BY <1>1, <1>4, SubSeqProperties
  <1> QED BY <1>2, <1>5, <1>6

\* Upstream.send() leaves the connections typed, and so is its reply.
LEMMA SendTyped ==
    ASSUME Typed, NEW c \in Channels, NEW lines \in Nat, NEW reply, NEW failed, send(c, lines, reply, failed)
    PROVE  /\ failed \in 0..1
           /\ sock' \in [Channels -> {"none", "open", "dead"}]
           /\ unread' \in [Channels -> Seq(1..This)]
           /\ \A d \in Channels : sock'[d] = "none" => unread'[d] = <<>>
           /\ OrOwn(reply) \in Seq(1..This)
  <1>1. commands \in Nat /\ This \in 1..This /\ Own \in Seq(1..This)
    BY ProxyAssumption DEF Typed, Process, This, Own
  <1>2. /\ sock \in [Channels -> {"none", "open", "dead"}]
        /\ \A d \in Channels : unread[d] \in Seq(1..This)
        /\ \A d \in Channels : sock[d] = "none" => unread[d] = <<>>
    BY <1>1, PiecesGrow DEF Typed, Pieces, This
  <1>3. unread \in [Channels -> Seq(1..This)]
    BY <1>2 DEF Typed, Pieces
  <1>4. CASE Unconnected(c, reply, failed)
    <2>1. OrOwn(reply) = Own /\ failed \in 0..1 /\ UNCHANGED <<sock, unread>>
      BY <1>4 DEF Unconnected, OrOwn, upstream
    <2> QED BY <1>1, <1>2, <1>3, <2>1
  <1>5. CASE Answered(c, lines, reply, failed)
    <2> DEFINE all == unread[c] \o [i \in 1..lines |-> This]
    <2>1. all \in Seq(1..This)
      BY AllPieces
    <2>2. PICK k \in 1..Len(all) : /\ reply = SubSeq(all, 1, k)
                                   /\ unread' = [unread EXCEPT ![c] = SubSeq(all, k + 1, Len(all))]
      BY <1>5 DEF Answered
    <2>3. sock' = [sock EXCEPT ![c] = "open"] /\ failed = 0
      BY <1>5 DEF Answered
    <2> HIDE DEF all
    <2>4. reply \in Seq(1..This) /\ SubSeq(all, k + 1, Len(all)) \in Seq(1..This)
      BY <2>1, <2>2, Halves
    <2>5. unread' \in [Channels -> Seq(1..This)] /\ \A d \in Channels : d # c => unread'[d] = unread[d]
      BY <1>3, <2>2, <2>4
    <2>6. sock' \in [Channels -> {"none", "open", "dead"}] /\ sock'[c] = "open"
          /\ \A d \in Channels : d # c => sock'[d] = sock[d]
      BY <1>2, <2>3
    <2>7. OrOwn(reply) \in Seq(1..This)
      BY <1>1, <2>4 DEF OrOwn
    <2>8. \A d \in Channels : sock'[d] = "none" => unread'[d] = <<>>
      BY <1>2, <2>5, <2>6
    <2> QED BY <2>3, <2>5, <2>6, <2>7, <2>8
  <1>6. CASE Broken(c, lines, reply, failed)
    <2>1. /\ unread[c] = <<>> /\ OrOwn(reply) = Own /\ failed = 1
          /\ sock' = [sock EXCEPT ![c] = "none"] /\ unread' = unread
      BY <1>6 DEF Broken, OrOwn
    <2> QED BY <1>1, <1>2, <1>3, <2>1
  <1>7. CASE Closed(c, reply, failed)
    <2>1. /\ failed = 0 /\ reply = unread[c] /\ unread' = [unread EXCEPT ![c] = <<>>] /\ sock' = sock
      BY <1>7 DEF Closed
    <2>2. OrOwn(reply) \in Seq(1..This)
      BY <1>1, <1>2, <2>1 DEF OrOwn
    <2>3. <<>> \in Seq(1..This)
      OBVIOUS
    <2>4. unread' \in [Channels -> Seq(1..This)] /\ \A d \in Channels : unread'[d] \in {<<>>, unread[d]}
      BY <1>3, <2>1, <2>3
    <2> QED BY <1>2, <2>1, <2>2, <2>4
  <1> QED BY <1>4, <1>5, <1>6, <1>7 DEF send

\* Two of the counters go up by one, and a third by what failed.
LEMMA CountersUp ==
    ASSUME NEW f \in [Names -> Nat], NEW a \in Names, NEW b \in Names, NEW d \in Names,
           a # b, a # d, b # d, NEW failed \in 0..1,
           NEW g, g = [f EXCEPT ![a] = f[a] + 1, ![b] = f[b] + 1, ![d] = f[d] + failed]
    PROVE  g \in [Names -> Nat] /\ \A n \in Names : g[n] <= f[n] + 1
  <1>1. \A n \in Names : f[n] \in Nat
    OBVIOUS
  <1>2. \A n \in Names : g[n] = IF n = d THEN f[d] + failed ELSE IF n = b THEN f[b] + 1 ELSE
                                IF n = a THEN f[a] + 1 ELSE f[n]
    OBVIOUS
  <1>3. \A n \in Names : g[n] \in Nat /\ g[n] <= f[n] + 1
    BY <1>1, <1>2
  <1>4. g \in [Names -> Nat]
    BY <1>3
  <1> QED BY <1>3, <1>4

\* One command, counted in each counter at most once.
LEMMA CountedNext ==
    ASSUME Typed, Handling, counters' \in [Names -> Nat], malformed' \in {malformed, malformed + 1},
           \A n \in Names : counters'[n] <= counters[n] + 1
    PROVE  Counted' /\ commands' \in 0..MaxCommands
  <1>1. commands \in Nat /\ commands' = commands + 1 /\ commands < MaxCommands /\ MaxCommands \in Nat
    BY ProxyAssumption DEF Typed, Process, Handling, This
  <1>2. counters \in [Names -> Nat] /\ (\A n \in Names : counters[n] <= commands) /\ malformed \in Nat
        /\ malformed <= commands
    BY DEF Typed, Counted
  <1>3. \A n \in Names : counters[n] \in Nat /\ counters'[n] \in Nat
    BY <1>2
  <1>4. \A n \in Names : counters'[n] <= commands + 1
    BY <1>1, <1>2, <1>3
  <1> QED BY <1>1, <1>2, <1>4 DEF Counted

\* A command that the proxy answers itself touches no connection.
LEMMA OwnAnswer ==
    ASSUME Typed, Handling, answer' = Own, UNCHANGED upstream
    PROVE  Pieces'
  <1>1. commands \in Nat /\ commands' = commands + 1 /\ Own \in Seq(1..(commands + 1))
    BY DEF Typed, Process, Handling, This, Own
  <1>2. \A d \in Channels : unread[d] \in Seq(1..(commands + 1))
    BY <1>1, PiecesGrow DEF Typed, Pieces
  <1>3. unread \in [Channels -> Seq(1..(commands + 1))]
    BY <1>2 DEF Typed, Pieces
  <1> QED BY <1>1, <1>3 DEF Typed, Pieces, upstream

\* A command that a daemon answers.
LEMMA SentAnswer ==
    ASSUME Typed, Handling, NEW c \in Channels, NEW lines \in Nat, NEW reply, NEW failed,
           send(c, lines, reply, failed), answer' = OrOwn(reply)
    PROVE  Pieces' /\ failed \in 0..1
  <1>1. commands' = This
    BY DEF Handling
  <1>2. /\ failed \in 0..1
        /\ sock' \in [Channels -> {"none", "open", "dead"}]
        /\ unread' \in [Channels -> Seq(1..This)]
        /\ \A d \in Channels : sock'[d] = "none" => unread'[d] = <<>>
        /\ OrOwn(reply) \in Seq(1..This)
    BY SendTyped
  <1> QED BY <1>1, <1>2 DEF Pieces

\* Every command keeps the types.
LEMMA CommandTyped == Typed /\ Command => Typed'
  <1> SUFFICES ASSUME Typed, Command PROVE Typed'
    OBVIOUS
  <1>1. counters \in [Names -> Nat] /\ malformed \in Nat /\ \A n \in Names : counters[n] \in Nat
    BY DEF Typed, Counted
  <1>2. "rotator" \in Channels /\ "radio" \in Channels /\ 1 \in Nat /\ Lines \in Nat
    BY ProxyAssumption
  <1>3. CASE SetPosition
    <2>1. Handling /\ UNCHANGED <<running, started, up, frequency, malformed>>
      BY <1>3 DEF SetPosition
    <2>2. PICK b \in Travel, failed \in 0..1, reply \in Replies("rotator", 1) :
             /\ send("rotator", 1, reply, failed)
             /\ position' = b
             /\ answer' = OrOwn(reply)
             /\ counters' = [counters EXCEPT !.bearings_in = @ + 1, !.bearings_out = @ + 1,
                                             !.upstream_failures = @ + failed]
      BY <1>3 DEF SetPosition
    <2>3. Pieces'
      BY <1>2, <2>1, <2>2, SentAnswer
    <2>4. counters' \in [Names -> Nat] /\ \A n \in Names : counters'[n] <= counters[n] + 1
      <3>1. "bearings_in" \in Names /\ "bearings_out" \in Names /\ "upstream_failures" \in Names
        BY DEF Names
      <3>2. PICK g : g = counters'
        OBVIOUS
      <3>3. g = [counters EXCEPT !["bearings_in"] = counters["bearings_in"] + 1,
                                 !["bearings_out"] = counters["bearings_out"] + 1,
                                 !["upstream_failures"] = counters["upstream_failures"] + failed]
        BY <1>1, <2>2, <3>1, <3>2
      <3>4. "bearings_in" # "bearings_out" /\ "bearings_in" # "upstream_failures" /\ "bearings_out" # "upstream_failures"
        OBVIOUS
      <3>5. g \in [Names -> Nat] /\ \A n \in Names : g[n] <= counters[n] + 1
        BY <1>1, <3>1, <3>3, <3>4, CountersUp
      <3> QED BY <3>2, <3>5
    <2>5. Counted' /\ commands' \in 0..MaxCommands
      BY <2>1, <2>4, CountedNext
    <2>6. Process'
      BY <2>1, <2>2, <2>5 DEF Typed, Process, started
    <2> QED BY <2>3, <2>5, <2>6 DEF Typed
  <1>4. CASE RefusePosition \/ IgnoreFrequency \/ Malformed("bearings_in") \/ Malformed("frequencies_in")
             \/ Unknown
    <2>1. /\ Handling /\ answer' = Own
          /\ UNCHANGED <<running, started, up, upstream, position, frequency>>
      BY <1>4 DEF RefusePosition, IgnoreFrequency, Malformed, Unknown
    <2>2. malformed' \in {malformed, malformed + 1}
      BY <1>4 DEF RefusePosition, IgnoreFrequency, Malformed, Unknown
    <2>3. counters' \in [Names -> Nat] /\ \A n \in Names : counters'[n] <= counters[n] + 1
      <3>1. CASE RefusePosition
        <4>1. "bearings_in" \in Names /\ "refused" \in Names
          BY DEF Names
        <4>2. counters' = [counters EXCEPT !["bearings_in"] = counters["bearings_in"] + 1,
                                           !["refused"] = counters["refused"] + 1]
          BY <3>1 DEF RefusePosition
        <4>3. \A n \in Names : counters'[n] = IF n \in {"bearings_in", "refused"} THEN counters[n] + 1
                                              ELSE counters[n]
          BY <1>1, <4>1, <4>2
        <4>4. \A n \in Names : counters'[n] \in Nat /\ counters'[n] <= counters[n] + 1
          BY <1>1, <4>3
        <4>5. counters' \in [Names -> Nat]
          BY <1>1, <4>2, <4>4
        <4> QED BY <4>4, <4>5
      <3>2. CASE IgnoreFrequency
        <4>1. "frequencies_in" \in Names /\ "refused" \in Names
          BY DEF Names
        <4>2. counters' = [counters EXCEPT !["frequencies_in"] = counters["frequencies_in"] + 1,
                                           !["refused"] = counters["refused"] + 1]
          BY <3>2 DEF IgnoreFrequency
        <4>3. \A n \in Names : counters'[n] = IF n \in {"frequencies_in", "refused"} THEN counters[n] + 1
                                              ELSE counters[n]
          BY <1>1, <4>1, <4>2
        <4>4. \A n \in Names : counters'[n] \in Nat /\ counters'[n] <= counters[n] + 1
          BY <1>1, <4>3
        <4>5. counters' \in [Names -> Nat]
          BY <1>1, <4>2, <4>4
        <4> QED BY <4>4, <4>5
      <3>3. CASE Malformed("bearings_in")
        BY <1>1, <3>3 DEF Malformed, Names
      <3>4. CASE Malformed("frequencies_in")
        BY <1>1, <3>4 DEF Malformed, Names
      <3>5. CASE Unknown
        BY <1>1, <3>5 DEF Unknown
      <3> QED BY <1>4, <3>1, <3>2, <3>3, <3>4, <3>5
    <2>4. Counted' /\ commands' \in 0..MaxCommands
      BY <2>1, <2>2, <2>3, CountedNext
    <2>5. Pieces'
      BY <2>1, OwnAnswer
    <2>6. Process'
      BY <2>1, <2>4 DEF Typed, Process, started
    <2> QED BY <2>4, <2>5, <2>6 DEF Typed
  <1>5. CASE SetFrequency
    <2>1. Handling /\ UNCHANGED <<running, started, up, position, malformed>>
      BY <1>5 DEF SetFrequency
    <2>2. PICK f \in Frequencies, failed \in 0..1 : \E reply \in Replies("radio", 1), hz \in Tune(f) :
             /\ send("radio", 1, reply, failed)
             /\ frequency' = hz
             /\ answer' = OrOwn(reply)
             /\ counters' = [counters EXCEPT !.frequencies_in = @ + 1, !.frequencies_out = @ + 1,
                                             !.upstream_failures = @ + failed]
      BY <1>5 DEF SetFrequency
    <2>3. Pieces'
      BY <1>2, <2>1, <2>2, SentAnswer
    <2>4. counters' \in [Names -> Nat] /\ \A n \in Names : counters'[n] <= counters[n] + 1
      <3>1. "frequencies_in" \in Names /\ "frequencies_out" \in Names /\ "upstream_failures" \in Names
        BY DEF Names
      <3>2. PICK g : g = counters'
        OBVIOUS
      <3>3. g = [counters EXCEPT !["frequencies_in"] = counters["frequencies_in"] + 1,
                                 !["frequencies_out"] = counters["frequencies_out"] + 1,
                                 !["upstream_failures"] = counters["upstream_failures"] + failed]
        BY <1>1, <2>2, <3>1, <3>2
      <3>4. "frequencies_in" # "frequencies_out" /\ "frequencies_in" # "upstream_failures" /\ "frequencies_out" # "upstream_failures"
        OBVIOUS
      <3>5. g \in [Names -> Nat] /\ \A n \in Names : g[n] <= counters[n] + 1
        BY <1>1, <3>1, <3>3, <3>4, CountersUp
      <3> QED BY <3>2, <3>5
    <2>5. Counted' /\ commands' \in 0..MaxCommands
      BY <2>1, <2>4, CountedNext
    <2>6. policy \in {"follow", "hold", "ignore"}
      BY ProxyAssumption DEF Typed, Process
    <2>7. Tune(f) \subseteq {f, HeldHz}
      BY <2>6 DEF Tune
    <2>8. Process'
      BY <2>1, <2>2, <2>5, <2>7 DEF Typed, Process, started
    <2> QED BY <2>3, <2>5, <2>8 DEF Typed
  <1>6. ASSUME NEW c \in Channels, NEW lines \in Nat, Query(c, lines) PROVE Typed'
    <2>1. Handling /\ UNCHANGED <<running, started, up, position, frequency, malformed>>
      BY <1>6 DEF Query
    <2>2. PICK failed \in 0..1, reply \in Replies(c, lines) :
             /\ send(c, lines, reply, failed)
             /\ answer' = OrOwn(reply)
             /\ counters' = [counters EXCEPT !.upstream_failures = @ + failed]
      BY <1>6 DEF Query
    <2>3. Pieces'
      BY <2>1, <2>2, SentAnswer
    <2>4. counters' \in [Names -> Nat] /\ \A n \in Names : counters'[n] <= counters[n] + 1
      BY <1>1, <2>2 DEF Names
    <2>5. Counted' /\ commands' \in 0..MaxCommands
      BY <2>1, <2>4, CountedNext
    <2>6. Process'
      BY <2>1, <2>5 DEF Typed, Process, started
    <2> QED BY <2>3, <2>5, <2>6 DEF Typed
  <1> QED BY <1>2, <1>3, <1>4, <1>5, <1>6 DEF Command

\* So do the end of the proxy, and a daemon that stops or comes back.
LEMMA NextTyped == Typed /\ [Next]_vars => Typed'
  <1> SUFFICES ASSUME Typed, [Next]_vars PROVE Typed'
    OBVIOUS
  <1>1. CASE Ends
    <2>1. running' \in BOOLEAN
      BY <1>1, Zenon DEF Ends
    <2> QED BY <1>1, <2>1 DEF Ends, Typed, Process, Counted, Pieces, started
  <1>2. ASSUME NEW c \in Channels, DaemonStops(c) PROVE Typed'
    <2>1. sock \in [Channels -> {"none", "open", "dead"}]
      BY DEF Typed, Pieces
    <2>2. sock' = [sock EXCEPT ![c] = IF sock[c] = "open" THEN "dead" ELSE sock[c]]
      BY <1>2 DEF DaemonStops
    <2>3. /\ sock' \in [Channels -> {"none", "open", "dead"}]
          /\ \A d \in Channels : sock'[d] = "none" => sock[d] = "none"
      BY <2>1, <2>2
    <2> QED BY <1>2, <2>3 DEF DaemonStops, Typed, Process, Counted, Pieces, started
  <1>3. ASSUME NEW c \in Channels, DaemonStarts(c) PROVE Typed'
    BY <1>3 DEF DaemonStarts, Typed, Process, Counted, Pieces, started, upstream
  <1>4. CASE UNCHANGED vars
    BY <1>4 DEF vars, Typed, Process, Counted, Pieces, started, upstream, told
  <1> QED BY <1>1, <1>2, <1>3, <1>4, CommandTyped DEF Next

\* Every state of the proxy is typed, and its position is one that was accepted.
THEOREM TypeCorrect == Spec => []TypeOK
  <1>1. Spec => []Typed
    BY InitTyped, NextTyped, PTL DEF Spec
  <1> QED BY <1>1, TypedIsTypeOK, PTL

----------------------------------------------------------------------------
(* The profile. *)

\* Counter by counter, what one command changes of ProfileObeyed's sum.
In == counters.bearings_in + counters.frequencies_in
Out == counters.bearings_out + counters.frequencies_out + counters.refused + malformed

\* A command's profile step: either nothing new came in and nothing went out, or
\* one line came in and is accounted for once.
LEMMA ProfileStep ==
    ASSUME Typed, Typed', ProfileObeyed, policy' = policy, motors' \subseteq motors \cup Travel,
           policy = "hold" => tuned' \subseteq tuned \cup {HeldHz},
           policy = "ignore" => tuned' = tuned,
           \/ In' = In /\ Out' = Out
           \/ In' = In + 1 /\ Out' = Out + 1
    PROVE  ProfileObeyed'
  <1>1. In' = Out'
    BY DEF ProfileObeyed, In, Out
  <1>2. motors' \subseteq Travel
    BY DEF ProfileObeyed
  <1>3. /\ policy' = "hold" => tuned' \subseteq {HeldHz}
        /\ policy' = "ignore" => tuned' = {}
    BY DEF ProfileObeyed
  <1> QED BY <1>1, <1>2, <1>3 DEF ProfileObeyed, In, Out

\* The fields of the counters are numbers.
LEMMA CountersAreNumbers ==
    ASSUME Typed
    PROVE  /\ counters.bearings_in \in Nat /\ counters.frequencies_in \in Nat
           /\ counters.bearings_out \in Nat /\ counters.frequencies_out \in Nat
           /\ counters.refused \in Nat /\ malformed \in Nat
           /\ counters \in [Names -> Nat]
  BY DEF Typed, Counted, Names

\* Every command obeys the profile.
LEMMA CommandObeys == Typed /\ Typed' /\ ProfileObeyed /\ Command => ProfileObeyed'
  <1> SUFFICES ASSUME Typed, Typed', ProfileObeyed, Command PROVE ProfileObeyed'
    OBVIOUS
  <1>1. /\ counters.bearings_in \in Nat /\ counters.frequencies_in \in Nat
        /\ counters.bearings_out \in Nat /\ counters.frequencies_out \in Nat
        /\ counters.refused \in Nat /\ malformed \in Nat
        /\ counters \in [Names -> Nat]
    BY CountersAreNumbers
  <1>2. policy \in {"follow", "hold", "ignore"}
    BY ProxyAssumption DEF Typed, Process
  <1>3. CASE SetPosition
    <2>1. PICK b \in Travel, failed \in 0..1 :
             /\ motors' = motors \cup {b}
             /\ counters' = [counters EXCEPT !.bearings_in = @ + 1, !.bearings_out = @ + 1,
                                             !.upstream_failures = @ + failed]
      BY <1>3 DEF SetPosition
    <2>2. policy' = policy /\ tuned' = tuned /\ malformed' = malformed
      BY <1>3 DEF SetPosition, started
    <2>3. /\ counters'.bearings_in = counters.bearings_in + 1
          /\ counters'.bearings_out = counters.bearings_out + 1
          /\ counters'.frequencies_in = counters.frequencies_in
          /\ counters'.frequencies_out = counters.frequencies_out
          /\ counters'.refused = counters.refused
      BY <1>1, <2>1 DEF Names
    <2>4. In' = In + 1 /\ Out' = Out + 1
      BY <1>1, <2>2, <2>3 DEF In, Out
    <2>5. motors' \subseteq motors \cup Travel
      BY <2>1
    <2> QED BY <2>2, <2>4, <2>5, ProfileStep
  <1>4. CASE RefusePosition
    <2>1. policy' = policy /\ tuned' = tuned /\ motors' = motors /\ malformed' = malformed
      BY <1>4 DEF RefusePosition, started, told
    <2>2. /\ counters'.bearings_in = counters.bearings_in + 1
          /\ counters'.refused = counters.refused + 1
          /\ counters'.frequencies_in = counters.frequencies_in
          /\ counters'.frequencies_out = counters.frequencies_out
          /\ counters'.bearings_out = counters.bearings_out
      BY <1>1, <1>4 DEF RefusePosition, Names
    <2>3. In' = In + 1 /\ Out' = Out + 1
      BY <1>1, <2>1, <2>2 DEF In, Out
    <2> QED BY <2>1, <2>3, ProfileStep
  <1>5. CASE SetFrequency
    <2>1. PICK f \in Frequencies, failed \in 0..1 :
             /\ \E hz \in Tune(f) : tuned' = tuned \cup {hz}
             /\ counters' = [counters EXCEPT !.frequencies_in = @ + 1, !.frequencies_out = @ + 1,
                                             !.upstream_failures = @ + failed]
      BY <1>5 DEF SetFrequency
    <2>2. policy' = policy /\ motors' = motors /\ malformed' = malformed
      BY <1>5 DEF SetFrequency, started
    <2>3. /\ counters'.frequencies_in = counters.frequencies_in + 1
          /\ counters'.frequencies_out = counters.frequencies_out + 1
          /\ counters'.bearings_in = counters.bearings_in
          /\ counters'.bearings_out = counters.bearings_out
          /\ counters'.refused = counters.refused
      BY <1>1, <2>1 DEF Names
    <2>4. In' = In + 1 /\ Out' = Out + 1
      BY <1>1, <2>2, <2>3 DEF In, Out
    <2>5. policy # "ignore"
      BY <2>1 DEF Tune
    <2>6. policy = "hold" => Tune(f) = {HeldHz}
      BY DEF Tune
    <2>7. policy = "hold" => tuned' \subseteq tuned \cup {HeldHz}
      BY <2>1, <2>6
    <2> QED BY <2>2, <2>4, <2>5, <2>7, ProfileStep
  <1>6. CASE IgnoreFrequency
    <2>1. policy' = policy /\ tuned' = tuned /\ motors' = motors /\ malformed' = malformed
      BY <1>6 DEF IgnoreFrequency, started, told
    <2>2. /\ counters'.frequencies_in = counters.frequencies_in + 1
          /\ counters'.refused = counters.refused + 1
          /\ counters'.bearings_in = counters.bearings_in
          /\ counters'.frequencies_out = counters.frequencies_out
          /\ counters'.bearings_out = counters.bearings_out
      BY <1>1, <1>6 DEF IgnoreFrequency, Names
    <2>3. In' = In + 1 /\ Out' = Out + 1
      BY <1>1, <2>1, <2>2 DEF In, Out
    <2> QED BY <2>1, <2>3, ProfileStep
  <1>7. ASSUME NEW field \in {"bearings_in", "frequencies_in"}, Malformed(field) PROVE ProfileObeyed'
    <2>1. /\ policy' = policy /\ tuned' = tuned /\ motors' = motors /\ malformed' = malformed + 1
          /\ counters' = [counters EXCEPT ![field] = counters[field] + 1]
      BY <1>7 DEF Malformed, started, told
    <2>2. /\ counters'.refused = counters.refused
          /\ counters'.frequencies_out = counters.frequencies_out
          /\ counters'.bearings_out = counters.bearings_out
      BY <1>1, <2>1 DEF Names
    <2>3. \/ /\ counters'.bearings_in = counters.bearings_in + 1
             /\ counters'.frequencies_in = counters.frequencies_in
          \/ /\ counters'.frequencies_in = counters.frequencies_in + 1
             /\ counters'.bearings_in = counters.bearings_in
      BY <1>1, <2>1 DEF Names
    <2>4. In' = In + 1
      BY <1>1, <2>3 DEF In
    <2>5. Out' = Out + 1
      BY <1>1, <2>1, <2>2 DEF Out
    <2> QED BY <2>1, <2>4, <2>5, ProfileStep
  <1>8. ASSUME NEW c \in Channels, NEW lines \in Nat, Query(c, lines) PROVE ProfileObeyed'
    <2>1. policy' = policy /\ tuned' = tuned /\ motors' = motors /\ malformed' = malformed
      BY <1>8 DEF Query, started, told
    <2>2. PICK failed \in 0..1 : counters' = [counters EXCEPT !.upstream_failures = @ + failed]
      BY <1>8 DEF Query
    <2>3. /\ counters'.bearings_in = counters.bearings_in
          /\ counters'.bearings_out = counters.bearings_out
          /\ counters'.frequencies_in = counters.frequencies_in
          /\ counters'.frequencies_out = counters.frequencies_out
          /\ counters'.refused = counters.refused
      BY <1>1, <2>2 DEF Names
    <2>4. In' = In /\ Out' = Out
      BY <2>1, <2>3 DEF In, Out
    <2> QED BY <2>1, <2>4, ProfileStep
  <1>9. CASE Unknown
    BY <1>9 DEF Unknown, ProfileObeyed, started, told
  <1>10. 1 \in Nat /\ Lines \in Nat /\ "rotator" \in Channels
    BY ProxyAssumption
  <1> QED BY <1>3, <1>4, <1>5, <1>6, <1>7, <1>8, <1>9, <1>10 DEF Command

\* For every profile: the daemons are told only what it allows, and no bearing or
\* frequency is lost or counted twice, whatever the daemons do.
THEOREM ProfileIsObeyed == Spec => []ProfileObeyed
  <1>1. Init => ProfileObeyed
    BY DEF Init, ProfileObeyed
  <1>2. Typed /\ Typed' /\ ProfileObeyed /\ [Next]_vars => ProfileObeyed'
    <2> SUFFICES ASSUME Typed, Typed', ProfileObeyed, [Next]_vars PROVE ProfileObeyed'
      OBVIOUS
    <2>1. CASE Ends
      BY <2>1 DEF Ends, ProfileObeyed, started, told
    <2>2. ASSUME NEW c \in Channels, DaemonStops(c) \/ DaemonStarts(c) PROVE ProfileObeyed'
      BY <2>2 DEF DaemonStops, DaemonStarts, ProfileObeyed, started, told
    <2>3. CASE UNCHANGED vars
      BY <2>3 DEF vars, ProfileObeyed, started, told
    <2> QED BY <2>1, <2>2, <2>3, CommandObeys DEF Next
  <1> QED BY <1>1, <1>2, InitTyped, NextTyped, PTL DEF Spec

----------------------------------------------------------------------------
(* Whose reply Gpredict is given. *)

\* When every answer arrives whole, nothing is ever left in a connection.
Drained == \A c \in Channels : unread[c] = <<>>

\* One line was asked for: send() returns it, or nothing at all, and leaves nothing.
LEMMA WholeReply ==
    ASSUME Typed, Drained, NEW c \in Channels, NEW reply, NEW failed, send(c, 1, reply, failed)
    PROVE  Drained' /\ OrOwn(reply) \in {Own, <<>>}
  <1>1. unread \in [Channels -> Seq(1..commands)] /\ unread[c] = <<>> /\ This \in Nat
    BY DEF Typed, Process, Pieces, Drained, This
  <1>2. CASE Unconnected(c, reply, failed)
    BY <1>2 DEF Unconnected, upstream, OrOwn, Drained
  <1>3. CASE Answered(c, 1, reply, failed)
    <2>1. PICK one : one = [i \in 1..1 |-> This]
      OBVIOUS
    <2>2. one = Own /\ one \in Seq(Nat) /\ Len(one) = 1
      BY <1>1, <2>1 DEF Own
    <2>3. unread[c] \o one = one
      BY <1>1, <2>2
    <2>4. PICK k \in 1..1 : /\ reply = SubSeq(one, 1, k)
                            /\ unread' = [unread EXCEPT ![c] = SubSeq(one, k + 1, 1)]
      BY <1>3, <2>1, <2>2, <2>3 DEF Answered
    <2>5. SubSeq(one, 1, 1) = one /\ SubSeq(one, 2, 1) = <<>>
      BY <2>2, SubSeqFull, SubSeqEmpty
    <2>6. k = 1 /\ k + 1 = 2
      BY <2>4
    <2>7. reply = Own /\ unread' = [unread EXCEPT ![c] = <<>>]
      BY <2>2, <2>4, <2>5, <2>6
    <2> QED BY <1>1, <2>7 DEF OrOwn, Drained
  <1>4. CASE Broken(c, 1, reply, failed)
    BY <1>4 DEF Broken, OrOwn, Drained
  <1>5. CASE Closed(c, reply, failed)
    <2>1. reply = <<>> /\ unread' = [unread EXCEPT ![c] = <<>>]
      BY <1>1, <1>5 DEF Closed
    <2>2. OrOwn(reply) \in {Own, <<>>}
      BY <2>1 DEF OrOwn
    <2> QED BY <1>1, <2>1, <2>2 DEF Drained
  <1> QED BY <1>2, <1>3, <1>4, <1>5 DEF send

\* Every command is answered by itself, or by nothing.
LEMMA CommandAnswersItself ==
    ASSUME Lines = 1, Typed, Drained, Command
    PROVE  Drained' /\ ReplyIsItsOwn'
  <1>1. "rotator" \in Channels /\ "radio" \in Channels
    BY ProxyAssumption
  <1>2. commands' = This /\ This \in Nat
    BY DEF Command, SetPosition, RefusePosition, Malformed, SetFrequency, IgnoreFrequency, Query, Unknown,
           Handling, Typed, Process, This
  <1>3. CASE answer' = Own /\ UNCHANGED upstream
    BY <1>2, <1>3 DEF ReplyIsItsOwn, Drained, upstream, Own
  <1>4. ASSUME NEW c \in Channels, NEW reply, NEW failed, send(c, 1, reply, failed), answer' = OrOwn(reply)
        PROVE  Drained' /\ ReplyIsItsOwn'
    <2>1. Drained' /\ answer' \in {Own, <<>>}
      BY <1>4, WholeReply
    <2> QED BY <1>2, <2>1 DEF ReplyIsItsOwn, Own
  <1>5. CASE SetPosition
    BY <1>1, <1>4, <1>5 DEF SetPosition
  <1>6. CASE SetFrequency
    BY <1>1, <1>4, <1>6 DEF SetFrequency
  <1>7. ASSUME NEW c \in Channels, Query(c, 1) PROVE Drained' /\ ReplyIsItsOwn'
    BY <1>4, <1>7 DEF Query
  <1>8. CASE RefusePosition \/ IgnoreFrequency \/ Malformed("bearings_in") \/ Malformed("frequencies_in")
             \/ Unknown
    BY <1>3, <1>8 DEF RefusePosition, IgnoreFrequency, Malformed, Unknown
  <1> QED BY <1>1, <1>5, <1>6, <1>7, <1>8 DEF Command

\* While a daemon's answer is one piece, no command of Gpredict is answered with
\* what belongs to another one, through timeouts, restarts of the daemons and
\* refused connections alike.
THEOREM RepliesAreTheirOwn ==
    ASSUME Lines = 1
    PROVE  Spec => []ReplyIsItsOwn
  <1>1. Init => Drained /\ ReplyIsItsOwn
    BY DEF Init, Drained, ReplyIsItsOwn
  <1>2. Typed /\ Drained /\ ReplyIsItsOwn /\ [Next]_vars => Drained' /\ ReplyIsItsOwn'
    <2> SUFFICES ASSUME Typed, Drained, ReplyIsItsOwn, [Next]_vars PROVE Drained' /\ ReplyIsItsOwn'
      OBVIOUS
    <2>1. CASE Ends
      BY <2>1 DEF Ends, Drained, ReplyIsItsOwn
    <2>2. ASSUME NEW c \in Channels, DaemonStops(c) \/ DaemonStarts(c) PROVE Drained' /\ ReplyIsItsOwn'
      BY <2>2 DEF DaemonStops, DaemonStarts, Drained, ReplyIsItsOwn, upstream
    <2>3. CASE UNCHANGED vars
      BY <2>3 DEF vars, Drained, ReplyIsItsOwn, upstream
    <2> QED BY <2>1, <2>2, <2>3, CommandAnswersItself DEF Next
  <1> QED BY <1>1, <1>2, InitTyped, NextTyped, PTL DEF Spec
=============================================================================
