------------------------------ MODULE HkBridge ------------------------------
(***************************************************************************)
(* The ground bridge for housekeeping (tools/ground/hk-bridge.py) with its *)
(* store (hk_store.py): it polls a node, takes every valid sample that     *)
(* arrives (replies, late replies, beacons), drops recent duplicates, and  *)
(* writes each accepted sample to the capture, to the store and to Yamcs,  *)
(* in that order.  The link loses, duplicates, delays and reorders frames; *)
(* the bridge may be killed at any step and started again, or a capture    *)
(* replayed.                                                               *)
(*                                                                         *)
(* Framing and checksums are KissLink's; here a frame is a valid sample of *)
(* one report, named by how many the node had collected before it.         *)
(***************************************************************************)
EXTENDS Integers, Sequences, FiniteSets

CONSTANTS
    COUNT,            \* args.count: samples asked for in one request
    PORTS,            \* source ports that requests rotate through (48)
    WINDOW,           \* seconds a duplicate is remembered (60)
    CAP,              \* duplicates remembered (1024)
    MODULUS,          \* SEQUENCE_MODULUS
    MaxSamples,       \* bound: samples the node collects
    MaxTime,          \* bound: the clock
    MaxNet,           \* bound: frames on the link
    MaxRows,          \* bound: rows of the store
    MaxPolls,         \* bound: requests
    MaxLives          \* bound: times the bridge is started

ASSUME BridgeAssumption ==
    /\ COUNT \in Nat \ {0} /\ PORTS \in Nat \ {0} /\ WINDOW \in Nat \ {0} /\ CAP \in Nat \ {0}
    /\ MODULUS \in Nat \ {0}
    /\ MaxSamples \in Nat /\ MaxTime \in Nat /\ MaxNet \in Nat /\ MaxRows \in Nat
    /\ MaxPolls \in Nat /\ MaxLives \in Nat

VARIABLES
    produced,         \* samples the node has collected; sample k has sequence k % MODULUS
    net,              \* frames on the link: a sample and the request that it answers
    now,
    mode,             \* what the bridge is doing
    sport,            \* the source port of the next request
    poll,             \* requests sent so far, over all lives
    matched,          \* distinct replies to this request
    counted,          \* history: the requests whose replies were counted in matched
    seen,             \* RecentSamples: sample and time, oldest first
    pending,          \* the accepted sample that is being written, with received_ms
    life,             \* history: how often the bridge was started
    bornAt,           \* history: requests sent before it was started
    capture,          \* the capture files: samples with received_ms
    rows,             \* the sample table of the store
    yamcs,            \* samples sent to Yamcs
    replayed          \* records of the capture that the replay has forwarded

link == <<produced, net>>
request == <<sport, poll, matched, counted>>
evidence == <<capture, rows, yamcs>>
vars == <<link, now, mode, request, seen, pending, life, bornAt, evidence, replayed>>

Writing == {"capture", "store", "forward"}
Live == {"ask", "collect", "sleep"} \cup Writing
Beacon == -1
Replayed == 0         \* the run of a row that a replay wrote

Init ==
    /\ produced = 0 /\ net = {} /\ now = 0
    /\ mode = "off" /\ sport = 0 /\ poll = 0 /\ matched = {} /\ counted = {}
    /\ seen = <<>> /\ pending = [sample |-> 0, at |-> 0] /\ life = 0 /\ bornAt = 0
    /\ capture = <<>> /\ rows = <<>> /\ yamcs = {}
    /\ replayed = 0

----------------------------------------------------------------------------
(* The node and the link (external). *)

NodeCollects ==
    /\ produced < MaxSamples
    /\ produced' = produced + 1
    /\ UNCHANGED <<net, now, mode, request, seen, pending, life, bornAt, evidence, replayed>>

\* Beacons carry the latest sample to a port of their own.
NodeBeacons ==
    /\ produced > 0
    /\ Cardinality(net) < MaxNet
    /\ net' = net \cup {[sample |-> produced, port |-> Beacon, poll |-> 0]}
    /\ UNCHANGED <<produced, now, mode, request, seen, pending, life, bornAt, evidence, replayed>>

FrameLost ==
    /\ \E f \in net : net' = net \ {f}
    /\ UNCHANGED <<produced, now, mode, request, seen, pending, life, bornAt, evidence, replayed>>

Tick ==
    /\ now < MaxTime
    /\ now' = now + 1
    /\ UNCHANGED <<link, mode, request, seen, pending, life, bornAt, evidence, replayed>>

----------------------------------------------------------------------------
(* The life of the process. *)

Start ==
    /\ mode = "off" /\ life < MaxLives
    /\ mode' = "ask"
    /\ life' = life + 1
    /\ bornAt' = poll
    /\ sport' = 0 /\ matched' = {} /\ counted' = {}
    /\ seen' = <<>>
    /\ UNCHANGED <<link, now, poll, pending, evidence, replayed>>

Killed ==
    /\ mode # "off"
    /\ mode' = "off"
    /\ UNCHANGED <<link, now, request, seen, pending, life, bornAt, evidence, replayed>>

----------------------------------------------------------------------------
(* collect(): one request and what arrives until it is answered or times out. *)

\* The newest COUNT samples, each in a reply of its own, or none when the request
\* is lost.
Replies == {[sample |-> k, port |-> sport, poll |-> poll + 1] :
                k \in {s \in 1..produced : s > produced - COUNT}}

Ask ==
    /\ mode = "ask" /\ poll < MaxPolls
    /\ \E answered \in {{}, Replies} :
          /\ Cardinality(net \cup answered) <= MaxNet
          /\ net' = net \cup answered
    /\ poll' = poll + 1
    /\ matched' = {} /\ counted' = {}
    /\ mode' = "collect"
    /\ UNCHANGED <<produced, now, sport, seen, pending, life, bornAt, evidence, replayed>>

\* RecentSamples.accept() first drops the oldest entry while that is WINDOW old.
Expired == CHOOSE n \in 0..Len(seen) :
               /\ \A k \in 1..n : now - seen[k].at >= WINDOW
               /\ n < Len(seen) => now - seen[n + 1].at < WINDOW
Fresh == SubSeq(seen, Expired + 1, Len(seen))
Knows(entries, s) == \E i \in 1..Len(entries) : entries[i].sample = s

\* A plausible defect: a new entry is not kept once CAP is reached.
Remember_full(entries, s) ==
    IF Len(entries) < CAP THEN Append(entries, [sample |-> s, at |-> now]) ELSE entries

Remember(entries, s) ==
    LET all == Append(entries, [sample |-> s, at |-> now])
    IN  IF Len(all) > CAP THEN Tail(all) ELSE all

Matching(f) == f.port = sport

\* One valid frame.  The link may deliver it again.
Receive(f) ==
    /\ mode = "collect"
    /\ \/ net' = net \ {f}
       \/ UNCHANGED net
    /\ matched' = IF Matching(f) THEN matched \cup {f.sample} ELSE matched
    /\ counted' = IF Matching(f) THEN counted \cup {f.poll} ELSE counted
    /\ IF Knows(Fresh, f.sample)
       THEN /\ seen' = Fresh
            /\ UNCHANGED <<mode, pending>>
       ELSE /\ seen' = Remember(Fresh, f.sample)
            /\ pending' = [sample |-> f.sample, at |-> now]
            /\ mode' = "capture"
    /\ UNCHANGED <<produced, now, sport, poll, life, bornAt, evidence, replayed>>

Answered ==
    /\ mode = "collect"
    /\ Cardinality(matched) >= COUNT
    /\ mode' = "sleep"
    /\ UNCHANGED <<link, now, request, seen, pending, life, bornAt, evidence, replayed>>

\* The deadline: TimeoutError, reported and survived.
TimedOut ==
    /\ mode = "collect"
    /\ Cardinality(matched) < COUNT
    /\ mode' = "sleep"
    /\ UNCHANGED <<link, now, request, seen, pending, life, bornAt, evidence, replayed>>

\* A plausible defect: every request uses the port it was started with.
NextPort_fixed == sport

\* 16 + (sport - 15) % 48, counted from the first port.
NextPort == (sport + 1) % PORTS

NextPoll ==
    /\ mode = "sleep"
    /\ mode' = "ask"
    /\ sport' = NextPort
    /\ UNCHANGED <<link, now, poll, matched, counted, seen, pending, life, bornAt, evidence, replayed>>

----------------------------------------------------------------------------
(* The loop of main(): capture, then forward(): the store, then Yamcs. *)

WriteCapture ==
    /\ mode = "capture"
    /\ capture' = Append(capture, pending)
    /\ mode' = "store"
    /\ UNCHANGED <<link, now, request, seen, pending, life, bornAt, rows, yamcs, replayed>>

\* Store.record(): inserted and committed.
Record(r, run) == rows' = Append(rows, [sample |-> r.sample, at |-> r.at, run |-> run])

\* A plausible defect: the commit is left to the end of the pass.
StoreSample_uncommitted ==
    /\ mode = "store" /\ Len(rows) < MaxRows
    /\ mode' = "forward"
    /\ UNCHANGED <<link, now, request, seen, pending, life, bornAt, evidence, replayed>>

StoreSample ==
    /\ mode = "store" /\ Len(rows) < MaxRows
    /\ Record(pending, life)
    /\ mode' = "forward"
    /\ UNCHANGED <<link, now, request, seen, pending, life, bornAt, capture, yamcs, replayed>>

Forward ==
    /\ mode = "forward"
    /\ yamcs' = yamcs \cup {pending.sample}
    /\ mode' = "collect"
    /\ UNCHANGED <<link, now, request, seen, pending, life, bornAt, capture, rows, replayed>>

----------------------------------------------------------------------------
(* --replay: every record of the capture goes through forward(). *)

StartReplay ==
    /\ mode = "off" /\ life < MaxLives
    /\ life' = life + 1
    /\ mode' = "replay"
    /\ replayed' = 0
    /\ UNCHANGED <<link, now, request, seen, pending, bornAt, evidence>>

ReplayStore ==
    /\ mode = "replay" /\ replayed < Len(capture) /\ Len(rows) < MaxRows
    /\ pending' = capture[replayed + 1]
    /\ Record(capture[replayed + 1], Replayed)
    /\ mode' = "replay_forward"
    /\ UNCHANGED <<link, now, request, seen, life, bornAt, capture, yamcs, replayed>>

ReplayForward ==
    /\ mode = "replay_forward"
    /\ yamcs' = yamcs \cup {pending.sample}
    /\ replayed' = replayed + 1
    /\ mode' = "replay"
    /\ UNCHANGED <<link, now, request, seen, pending, life, bornAt, capture, rows>>

ReplayEnds ==
    /\ mode = "replay" /\ replayed = Len(capture)
    /\ mode' = "off"
    /\ UNCHANGED <<link, now, request, seen, pending, life, bornAt, evidence, replayed>>

Bridge ==
    \/ Start \/ Ask \/ Answered \/ TimedOut \/ NextPoll
    \/ WriteCapture \/ StoreSample \/ Forward
    \/ StartReplay \/ ReplayStore \/ ReplayForward \/ ReplayEnds

Next ==
    \/ NodeCollects \/ NodeBeacons \/ FrameLost \/ Tick
    \/ \E f \in net : Receive(f)
    \/ Bridge \/ Killed

Spec == Init /\ [][Next]_vars

----------------------------------------------------------------------------
(* Properties. *)

\* Type correctness of the bridge.
TypeOK ==
    /\ produced \in 0..MaxSamples
    /\ net \subseteq [sample : 1..produced, port : (0..(PORTS - 1)) \cup {Beacon}, poll : 0..MaxPolls]
    /\ now \in 0..MaxTime
    /\ mode \in Live \cup {"off", "replay", "replay_forward"}
    /\ sport \in 0..(PORTS - 1) /\ poll \in 0..MaxPolls
    /\ matched \subseteq 1..produced /\ counted \subseteq 0..MaxPolls
    /\ seen \in Seq([sample : 1..produced, at : 0..now]) /\ Len(seen) <= CAP
    /\ pending \in [sample : 0..produced, at : 0..now]
    /\ life \in 0..MaxLives /\ bornAt \in 0..poll
    /\ capture \in Seq([sample : 1..produced, at : 0..now])
    /\ rows \in Seq([sample : 1..produced, at : 0..now, run : 0..life]) /\ Len(rows) <= MaxRows
    /\ yamcs \subseteq 1..produced
    /\ replayed \in Nat

Stored == {rows[i].sample : i \in 1..Len(rows)}
Captured == {capture[i].sample : i \in 1..Len(capture)}

\* hk_store.py: a pass that ends in a crash still leaves what it heard.  Whatever
\* was shown to Yamcs is in the store, and whatever is stored was captured, over
\* any number of kills, restarts and replays.
EvidenceFirst == yamcs \subseteq Stored /\ Stored \subseteq Captured

\* RecentSamples: in one run of the bridge a sample is stored again only after
\* WINDOW seconds, or after CAP others pushed it out.
DuplicatesAreOld ==
    \A i, j \in 1..Len(rows) :
        /\ i < j /\ rows[i].sample = rows[j].sample
        /\ rows[i].run = rows[j].run /\ rows[i].run # Replayed
        => rows[j].at - rows[i].at >= WINDOW \/ j - i > CAP

\* collect(): only this request's replies count.  A late answer to an earlier
\* request of the same run is not taken for an answer to this one until the
\* ports have gone round.
LateRepliesIgnored ==
    \A p \in counted : p = poll \/ poll - p >= PORTS \/ p <= bornAt

\* hk_store.py: the gap view reports what was not heard.  Row i is followed by a
\* gap when sequence numbers are missing before row i + 1.
Missing(i) == (rows[i + 1].sample - rows[i].sample - 1 + MODULUS) % MODULUS

\* A gap means that some sample of the node is in no row.
GapMeansUnheard ==
    \A i \in 1..(Len(rows) - 1) : Missing(i) # 0 => (1..produced) \ Stored # {}
=============================================================================
