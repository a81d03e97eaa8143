---------------------------- MODULE GroundProofs ----------------------------
(***************************************************************************)
(* The ground side of the link: the KISS reader and the housekeeping bridge. *)
(* The two modules share no state; their proofs are kept together.         *)
(***************************************************************************)
EXTENDS KissLink, HkBridge, SequenceTheorems, WellFoundedInduction, TLAPS

-----------------------------------------------------------------------------
(***************************************************************************)
(* Resynchronisation of the KISS reader, for frames and damage of any      *)
(* length: the opening FEND of a frame forgets everything before it.       *)
(***************************************************************************)

LinkInv == LinkTypeOK /\ InStep /\ IntactFrameDelivered /\ NothingInvented

\* Sending one more byte extends the prefix by that byte.
LEMMA PrefixGrows ==
    ASSUME NEW f \in Seq(Byte), NEW n \in 0..(Len(f) - 1)
    PROVE  SubSeq(f, 1, n + 1) = Append(SubSeq(f, 1, n), f[n + 1])
  <1>1. SubSeq(f, 1, n + 1) \in Seq(Byte) /\ Len(SubSeq(f, 1, n + 1)) = n + 1
    OBVIOUS
  <1>2. Append(SubSeq(f, 1, n), f[n + 1]) \in Seq(Byte)
        /\ Len(Append(SubSeq(f, 1, n), f[n + 1])) = n + 1
    OBVIOUS
  <1>3. \A i \in 1..(n + 1) : SubSeq(f, 1, n + 1)[i] = Append(SubSeq(f, 1, n), f[n + 1])[i]
    OBVIOUS
  <1> QED BY <1>1, <1>2, <1>3, SeqEqual

\* The bytes with a meaning are bytes.
LEMMA ControlBytes ==
    "FEND" \in Byte /\ "FESC" \in Byte /\ "TFEND" \in Byte /\ "TFESC" \in Byte /\ "TNC_DATA" \in Byte
  BY DEF Byte, Control

\* Whatever byte arrives, the reader stays well typed and its buffer bounded.
LEMMA FeedStaysTyped ==
    ASSUME LinkTypeOK, NEW b \in Byte, feed(b)
    PROVE  /\ rframe' \in Seq(Byte) /\ Len(rframe') <= LIMIT
           /\ started' \in BOOLEAN /\ escaped' \in BOOLEAN /\ skip_type_byte' \in BOOLEAN
           /\ out' \in Seq(Byte) /\ Len(out') <= LIMIT
  <1> USE LinkAssumption
  <1>1. CASE FeedEnd
    <2>1. started' \in BOOLEAN /\ escaped' \in BOOLEAN /\ skip_type_byte' \in BOOLEAN
      BY <1>1, Zenon DEF FeedEnd
    <2> QED BY <1>1, <2>1 DEF FeedEnd, LinkTypeOK
  <1>2. CASE FeedIgnored
    BY <1>2 DEF FeedIgnored, LinkTypeOK
  <1>3. CASE FeedType(b)
    <2>1. started' \in BOOLEAN /\ skip_type_byte' \in BOOLEAN
      BY <1>3, Zenon DEF FeedType
    <2> QED BY <1>3, <2>1 DEF FeedType, LinkTypeOK
  <1>4. CASE FeedEscape
    <2>1. escaped' \in BOOLEAN
      BY <1>4, Zenon DEF FeedEscape
    <2> QED BY <1>4, <2>1 DEF FeedEscape, LinkTypeOK
  <1>5. CASE FeedBadEscape(b)
    <2>1. started' \in BOOLEAN
      BY <1>5, Zenon DEF FeedBadEscape
    <2> QED BY <1>5, <2>1 DEF FeedBadEscape, LinkTypeOK
  <1>6. CASE FeedData(b)
    <2> DEFINE f == Append(rframe, IF escaped THEN Unescape(b) ELSE b)
    <2>1. f \in Seq(Byte)
      BY ControlBytes DEF LinkTypeOK, Unescape
    <2>2. rframe' = Grown(f).frame /\ started' = Grown(f).ok
      BY <1>6, Zenon DEF FeedData
    <2>3. out' = <<>> /\ escaped' \in BOOLEAN /\ skip_type_byte' \in BOOLEAN
      BY <1>6, Zenon DEF FeedData, LinkTypeOK
    <2>4. CASE Len(f) <= LIMIT
      <3>1. rframe' = f /\ started'
        BY <2>2, <2>4 DEF Grown
      <3>2. started' \in BOOLEAN
        BY <2>2, <2>4, Zenon DEF Grown
      <3> QED BY <2>1, <2>3, <2>4, <3>1, <3>2
    <2>5. CASE ~(Len(f) <= LIMIT)
      <3>1. rframe' = <<>>
        BY <2>2, <2>5 DEF Grown
      <3>2. started' \in BOOLEAN
        BY <2>2, <2>5, Zenon DEF Grown
      <3> QED BY <2>3, <3>1, <3>2
    <2> QED BY <2>4, <2>5
  <1> QED BY <1>1, <1>2, <1>3, <1>4, <1>5, <1>6, Zenon DEF feed

\* Outside a frame the reader waits for a FEND.
LEMMA FeedIgnores ==
    ASSUME NEW b \in Byte, feed(b), ~started, b # "FEND"
    PROVE  FeedIgnored
  BY DEF feed, FeedIgnored, FeedType, FeedBadEscape, FeedData, FeedEscape

\* The byte after a FEND is the type byte.
LEMMA FeedTakesType ==
    ASSUME NEW b \in Byte, feed(b), started, skip_type_byte, b # "FEND"
    PROVE  FeedType(b)
  BY DEF feed, FeedIgnored, FeedType, FeedBadEscape, FeedData, FeedEscape

\* An escape inside a frame is only remembered.
LEMMA FeedTakesEscape ==
    ASSUME feed("FESC"), started, ~skip_type_byte, ~escaped
    PROVE  FeedEscape
  BY DEF feed, FeedIgnored, FeedType, FeedBadEscape, FeedData, FeedEscape

\* Every other byte inside a frame is added to the buffer.
LEMMA FeedTakesData ==
    ASSUME NEW b \in Byte, feed(b), started, ~skip_type_byte, b \notin {"FEND", "FESC"},
           escaped => b \in {"TFEND", "TFESC"}
    PROVE  FeedData(b)
  BY DEF feed, FeedIgnored, FeedType, FeedBadEscape, FeedData, FeedEscape

\* One byte of the frame arrives at a reader in step with the sender.
LEMMA DataInStep ==
    ASSUME LinkTypeOK, started, rframe = Prefix, pos <= LIMIT, pos < Len(frame), pos' = pos + 1,
           frame' = frame, NEW b \in Byte, FeedData(b),
           (IF escaped THEN Unescape(b) ELSE b) = frame[pos + 1]
    PROVE  rframe' = Prefix' /\ (started' <=> pos' <= LIMIT) /\ ~escaped'
  <1> USE LinkAssumption
  <1> DEFINE f == Append(rframe, frame[pos + 1])
  <1>1. rframe' = Grown(f).frame /\ started' = Grown(f).ok
    BY Zenon DEF FeedData
  <1>2. ~escaped'
    BY Zenon DEF FeedData
  <1>3. f = SubSeq(frame, 1, pos + 1) /\ Len(f) = pos + 1
    BY PrefixGrows DEF LinkTypeOK, Prefix
  <1>4. CASE pos + 1 <= LIMIT
    BY <1>1, <1>2, <1>3, <1>4 DEF Grown, Prefix
  <1>5. CASE ~(pos + 1 <= LIMIT)
    BY <1>1, <1>2, <1>3, <1>5 DEF Grown, Prefix, LinkTypeOK
  <1> QED BY <1>4, <1>5

\* The sender's own part of the invariant.
SenderOK ==
    /\ phase \in {"type", "body", "escape"} => pos <= Len(frame)
    /\ phase = "escape" => pos < Len(frame) /\ frame[pos + 1] \in {"FEND", "FESC"}

\* A damaged byte ends the frame's claim to be delivered.
LEMMA DamageInv ==
    ASSUME LinkTypeOK, NEW b \in Byte, Damaged(b) \/ Noise, SenderOK',
           phase' \in Phases, frame' \in Seq(Byte), Len(frame') <= MaxLen, pos' \in 0..Len(frame')
    PROVE  LinkInv'
  <1> USE LinkAssumption
  <1>1. ~intact' /\ ~clean' /\ intact' \in BOOLEAN /\ clean' \in BOOLEAN
    BY Zenon DEF Damaged, Noise
  <1>2. damage' \in 0..MaxDamage
    BY DEF Damaged, Noise, LinkTypeOK
  <1>3. /\ rframe' \in Seq(Byte) /\ Len(rframe') <= LIMIT
        /\ started' \in BOOLEAN /\ escaped' \in BOOLEAN /\ skip_type_byte' \in BOOLEAN
        /\ out' \in Seq(Byte) /\ Len(out') <= LIMIT
    <2>1. CASE \E c \in Byte : feed(c)
      BY <2>1, FeedStaysTyped
    <2>2. CASE UNCHANGED <<rframe, started, escaped, skip_type_byte>> /\ out' = <<>>
      BY <2>2 DEF LinkTypeOK
    <2> QED BY <2>1, <2>2 DEF Damaged, Noise
  <1> QED BY <1>1, <1>2, <1>3 DEF LinkInv, LinkTypeOK, InStep, SenderOK, IntactFrameDelivered, NothingInvented

\* An intact byte leaves the reader well typed and the damage as it was.
LEMMA ArrivesType ==
    ASSUME LinkTypeOK, NEW b \in Byte, NEW whole \in BOOLEAN, Arrives(b, whole),
           phase' \in Phases, frame' \in Seq(Byte), Len(frame') <= MaxLen, pos' \in 0..Len(frame')
    PROVE  LinkTypeOK'
  <1>1. intact' \in BOOLEAN /\ clean' \in BOOLEAN
    BY Zenon DEF Arrives, LinkTypeOK
  <1>2. feed(b) /\ damage' = damage
    BY DEF Arrives
  <1> QED BY <1>1, <1>2, FeedStaysTyped DEF LinkTypeOK

\* The node starts in a state that satisfies the inductive invariant.
LEMMA LinkInitInv == LinkInit => LinkInv
  <1> SUFFICES ASSUME LinkInit PROVE LinkInv
    OBVIOUS
  <1>1. /\ intact \in BOOLEAN /\ clean \in BOOLEAN
        /\ started \in BOOLEAN /\ escaped \in BOOLEAN /\ skip_type_byte \in BOOLEAN /\ ~intact
    BY Zenon DEF LinkInit
  <1> QED BY <1>1, LinkAssumption
      DEF LinkInit, LinkInv, LinkTypeOK, InStep, IntactFrameDelivered, NothingInvented, Phases

\* A frame that a peer may send is a bounded sequence of bytes.
LEMMA FramesType ==
    ASSUME NEW f \in Frames
    PROVE  f \in Seq(Byte) /\ Len(f) <= MaxLen
  <1>1. PICK n \in 0..MaxLen : f \in [1..n -> Byte]
    BY DEF Frames
  <1>2. Len(f) = n /\ f \in Seq(Byte)
    BY <1>1, LinkAssumption
  <1> QED BY <1>2, LinkAssumption

\* The opening FEND puts the reader in step, whatever state it was in.
LEMMA StartInv ==
    ASSUME LinkInv, EncodeStart
    PROVE  LinkInv'
  <1> USE LinkAssumption, ControlBytes
  <1>1. phase' \in Phases /\ frame' \in Seq(Byte) /\ Len(frame') <= MaxLen /\ pos' \in 0..Len(frame')
    BY FramesType DEF EncodeStart, Phases
  <1>2. SenderOK'
    BY <1>1 DEF EncodeStart, SenderOK
  <1>3. CASE Damaged("FEND")
    BY <1>1, <1>2, <1>3, DamageInv DEF LinkInv
  <1>4. CASE Arrives("FEND", TRUE)
    <2>1. LinkTypeOK'
      BY <1>1, <1>4, ArrivesType DEF LinkInv
    <2>2. FeedEnd
      BY <1>4 DEF Arrives, feed, FeedEscape
    <2>3. started' /\ skip_type_byte' /\ ~escaped' /\ rframe' = <<>>
      BY <2>2, Zenon DEF FeedEnd
    <2>4. clean' => out' = <<>>
      BY <1>4, <2>2 DEF FeedEnd, Arrives, EncodeStart, LinkInv, InStep
    <2>5. intact' /\ phase' = "type" /\ pos' = 0
      BY <1>4, Zenon DEF Arrives, EncodeStart
    <2> QED BY <2>1, <1>2, <2>3, <2>4, <2>5
        DEF LinkInv, InStep, SenderOK, IntactFrameDelivered, NothingInvented
  <1> QED BY <1>3, <1>4 DEF EncodeStart, Transmit

\* The type byte is taken by a reader in step and nothing else changes.
LEMMA TypeInv ==
    ASSUME LinkInv, EncodeType
    PROVE  LinkInv'
  <1> USE LinkAssumption, ControlBytes
  <1>1. phase' \in Phases /\ frame' \in Seq(Byte) /\ Len(frame') <= MaxLen /\ pos' \in 0..Len(frame')
    BY DEF EncodeType, Phases, LinkInv, LinkTypeOK
  <1>2. SenderOK'
    BY DEF EncodeType, SenderOK, LinkInv, InStep
  <1>3. CASE Damaged("TNC_DATA")
    BY <1>1, <1>2, <1>3, DamageInv DEF LinkInv
  <1>4. CASE Arrives("TNC_DATA", intact)
    <2>1. LinkTypeOK'
      BY <1>1, <1>4, ArrivesType DEF LinkInv, LinkTypeOK
    <2>2. intact' = intact /\ clean' = clean /\ phase' = "body" /\ phase = "type"
      BY <1>4 DEF Arrives, EncodeType
    <2>3. clean => intact
      BY <2>2 DEF LinkInv, InStep
    <2>4. CASE ~intact
      BY <2>1, <1>2, <2>2, <2>3, <2>4
         DEF LinkInv, InStep, SenderOK, IntactFrameDelivered, NothingInvented
    <2>5. CASE intact
      <3>1. started /\ skip_type_byte /\ ~escaped /\ rframe = <<>> /\ pos = 0
        BY <2>2, <2>5 DEF LinkInv, InStep
      <3>2. FeedType("TNC_DATA")
        BY <1>4, <3>1, FeedTakesType DEF Arrives
      <3>3. started' /\ ~skip_type_byte' /\ ~escaped' /\ rframe' = <<>> /\ out' = <<>>
        BY <3>1, <3>2, Zenon DEF FeedType
      <3>4. Prefix' = <<>> /\ pos' = 0
        BY <3>1, <1>1 DEF EncodeType, Prefix
      <3> QED BY <2>1, <1>2, <2>2, <3>3, <3>4
          DEF LinkInv, InStep, SenderOK, IntactFrameDelivered, NothingInvented
    <2> QED BY <2>4, <2>5
  <1> QED BY <1>3, <1>4 DEF EncodeType, Transmit

\* A byte of the frame, plain or the second half of an escape, extends the buffer.
LEMMA BodyInv ==
    ASSUME LinkInv, EncodePlain \/ EncodeEscaped
    PROVE  LinkInv'
  <1> USE LinkAssumption, ControlBytes
  <1> DEFINE b == IF phase = "escape" THEN Escaped(frame[pos + 1]) ELSE frame[pos + 1]
  <1>0. /\ pos < Len(frame) /\ pos' = pos + 1 /\ frame' = frame /\ phase' = "body"
        /\ phase \in {"body", "escape"} /\ frame[pos + 1] \in Byte
    BY DEF EncodePlain, EncodeEscaped, LinkInv, LinkTypeOK, InStep
  <1>1. phase' \in Phases /\ frame' \in Seq(Byte) /\ Len(frame') <= MaxLen /\ pos' \in 0..Len(frame')
    BY <1>0 DEF Phases, LinkInv, LinkTypeOK
  <1>2. SenderOK'
    BY <1>0, <1>1 DEF SenderOK
  <1>3. b \in Byte /\ b \notin {"FEND", "FESC"} /\ (phase = "escape" => b \in {"TFEND", "TFESC"})
    BY <1>0 DEF EncodePlain, EncodeEscaped, Escaped
  <1>4. Damaged(b) \/ Arrives(b, intact)
    BY DEF EncodePlain, EncodeEscaped, Transmit
  <1>5. CASE Damaged(b)
    BY <1>1, <1>2, <1>3, <1>5, DamageInv DEF LinkInv
  <1>6. CASE Arrives(b, intact)
    <2>1. LinkTypeOK'
      BY <1>1, <1>3, <1>6, ArrivesType DEF LinkInv, LinkTypeOK
    <2>2. intact' = intact /\ clean' = clean /\ feed(b)
      BY <1>6 DEF Arrives
    <2>3. clean => intact
      BY <1>0 DEF LinkInv, InStep
    <2>4. CASE ~intact
      BY <1>0, <2>1, <1>2, <2>2, <2>3, <2>4
         DEF LinkInv, InStep, SenderOK, IntactFrameDelivered, NothingInvented
    <2>5. CASE intact /\ started
      <3>1. ~skip_type_byte /\ pos <= LIMIT /\ rframe = Prefix /\ (escaped <=> phase = "escape")
        BY <1>0, <2>5 DEF LinkInv, InStep
      <3>2. FeedData(b)
        BY <1>3, <2>2, <2>5, <3>1, FeedTakesData
      <3>3. (IF escaped THEN Unescape(b) ELSE b) = frame[pos + 1]
        BY <1>0, <3>1 DEF Unescape, Escaped, InStep, LinkInv
      <3>4. rframe' = Prefix' /\ (started' <=> pos' <= LIMIT) /\ ~escaped'
        BY <1>0, <1>3, <2>5, <3>1, <3>2, <3>3, DataInStep DEF LinkInv
      <3>5. ~skip_type_byte' /\ out' = <<>>
        BY <3>1, <3>2 DEF FeedData
      <3> QED BY <1>0, <2>1, <1>2, <2>2, <2>5, <3>4, <3>5
          DEF LinkInv, InStep, SenderOK, IntactFrameDelivered, NothingInvented
    <2>6. CASE intact /\ ~started
      <3>1. ~skip_type_byte /\ ~(pos <= LIMIT) /\ rframe = <<>>
        BY <1>0, <2>6 DEF LinkInv, InStep, Prefix
      <3>2. FeedIgnored
        BY <1>3, <2>2, <2>6, FeedIgnores
      <3>3. rframe' = <<>> /\ ~started' /\ ~skip_type_byte' /\ out' = <<>>
        BY <2>6, <3>1, <3>2 DEF FeedIgnored
      <3>4. ~(pos' <= LIMIT) /\ Prefix' = <<>>
        BY <1>0, <3>1 DEF Prefix, LinkInv, LinkTypeOK
      <3> QED BY <1>0, <2>1, <1>2, <2>2, <2>6, <3>3, <3>4
          DEF LinkInv, InStep, SenderOK, IntactFrameDelivered, NothingInvented
    <2> QED BY <2>4, <2>5, <2>6
  <1> QED BY <1>4, <1>5, <1>6

\* The first half of an escape is remembered by the reader and by nobody else.
LEMMA EscapeInv ==
    ASSUME LinkInv, EncodeEscape
    PROVE  LinkInv'
  <1> USE LinkAssumption, ControlBytes
  <1>0. pos < Len(frame) /\ pos' = pos /\ frame' = frame /\ phase = "body" /\ phase' = "escape"
    BY DEF EncodeEscape
  <1>1. phase' \in Phases /\ frame' \in Seq(Byte) /\ Len(frame') <= MaxLen /\ pos' \in 0..Len(frame')
    BY <1>0 DEF Phases, LinkInv, LinkTypeOK
  <1>2. SenderOK' /\ Prefix' = Prefix
    BY <1>0 DEF SenderOK, EncodeEscape, LinkInv, LinkTypeOK, Prefix
  <1>3. CASE Damaged("FESC")
    BY <1>1, <1>2, <1>3, DamageInv DEF LinkInv
  <1>4. CASE Arrives("FESC", intact)
    <2>1. LinkTypeOK'
      BY <1>1, <1>4, ArrivesType DEF LinkInv, LinkTypeOK
    <2>2. intact' = intact /\ clean' = clean /\ feed("FESC")
      BY <1>4 DEF Arrives
    <2>3. clean => intact
      BY <1>0 DEF LinkInv, InStep
    <2>4. CASE ~intact
      BY <1>0, <2>1, <1>2, <2>2, <2>3, <2>4
         DEF LinkInv, InStep, SenderOK, IntactFrameDelivered, NothingInvented
    <2>5. CASE intact /\ started
      <3>1. ~skip_type_byte /\ pos <= LIMIT /\ rframe = Prefix /\ ~escaped
        BY <1>0, <2>5 DEF LinkInv, InStep
      <3>2. FeedEscape
        BY <2>2, <2>5, <3>1, FeedTakesEscape
      <3>3. rframe' = rframe /\ started' /\ ~skip_type_byte' /\ escaped' /\ out' = <<>>
        BY <2>5, <3>1, <3>2, Zenon DEF FeedEscape
      <3> QED BY <1>0, <2>1, <1>2, <2>2, <2>5, <3>1, <3>3
          DEF LinkInv, InStep, SenderOK, IntactFrameDelivered, NothingInvented
    <2>6. CASE intact /\ ~started
      <3>1. FeedIgnored
        BY <2>2, <2>6, FeedIgnores
      <3> QED BY <1>0, <2>1, <1>2, <2>2, <2>6, <3>1
          DEF FeedIgnored, LinkInv, InStep, SenderOK, IntactFrameDelivered, NothingInvented
    <2> QED BY <2>4, <2>5, <2>6
  <1> QED BY <1>3, <1>4 DEF EncodeEscape, Transmit

\* The closing FEND delivers what the reader has, which is the frame.
LEMMA EndInv ==
    ASSUME LinkInv, EncodeEnd
    PROVE  LinkInv'
  <1> USE LinkAssumption, ControlBytes
  <1>0. pos = Len(frame) /\ pos' = pos /\ frame' = frame /\ phase = "body" /\ phase' = "sent"
    BY DEF EncodeEnd
  <1>1. phase' \in Phases /\ frame' \in Seq(Byte) /\ Len(frame') <= MaxLen /\ pos' \in 0..Len(frame')
    BY <1>0 DEF Phases, LinkInv, LinkTypeOK
  <1>2. SenderOK'
    BY <1>0 DEF SenderOK
  <1>3. CASE Damaged("FEND")
    BY <1>1, <1>2, <1>3, DamageInv DEF LinkInv
  <1>4. CASE Arrives("FEND", intact)
    <2>1. LinkTypeOK'
      BY <1>1, <1>4, ArrivesType DEF LinkInv, LinkTypeOK
    <2>2. intact' = intact /\ clean' = clean /\ FeedEnd
      BY <1>4 DEF Arrives, feed, FeedEscape
    <2>3. clean => intact
      BY <1>0 DEF LinkInv, InStep
    <2>4. rframe' = <<>>
      BY <2>2 DEF FeedEnd
    <2>5. CASE ~intact
      BY <1>0, <2>1, <1>2, <2>2, <2>3, <2>5
         DEF LinkInv, InStep, SenderOK, IntactFrameDelivered, NothingInvented
    <2>6. CASE intact
      <3>1. rframe = Prefix /\ (started <=> pos <= LIMIT) /\ (started => ~escaped)
        BY <1>0, <2>6 DEF LinkInv, InStep
      <3>2. out' = IF Len(frame) <= LIMIT THEN frame ELSE <<>>
        <4>1. CASE Len(frame) <= LIMIT
          <5>1. Prefix = frame
            BY <1>0, <4>1 DEF Prefix, LinkInv, LinkTypeOK
          <5> QED BY <1>0, <2>2, <3>1, <4>1, <5>1 DEF FeedEnd
        <4>2. CASE ~(Len(frame) <= LIMIT)
          BY <1>0, <2>2, <3>1, <4>2 DEF FeedEnd
        <4> QED BY <4>1, <4>2
      <3> QED BY <1>0, <2>1, <1>2, <2>2, <2>4, <2>6, <3>2
          DEF LinkInv, InStep, SenderOK, IntactFrameDelivered, NothingInvented
    <2> QED BY <2>5, <2>6
  <1> QED BY <1>3, <1>4 DEF EncodeEnd, Transmit

\* Every step of the link preserves the inductive invariant.
LEMMA LinkNextInv ==
    ASSUME LinkInv, [LinkNext]_linkVars
    PROVE  LinkInv'
  <1>1. CASE Flush
    BY <1>1, LinkAssumption DEF Flush, line, LinkInv, LinkTypeOK, InStep, IntactFrameDelivered,
       NothingInvented, Phases
  <1>2. CASE Noise
    BY <1>2, DamageInv, ControlBytes DEF Noise, sender, SenderOK, LinkInv, LinkTypeOK, InStep
  <1>3. CASE UNCHANGED linkVars
    BY <1>3 DEF linkVars, sender, reader, line, LinkInv, LinkTypeOK, InStep, Prefix, IntactFrameDelivered,
       NothingInvented
  <1> QED BY <1>1, <1>2, <1>3, StartInv, TypeInv, BodyInv, EscapeInv, EndInv DEF LinkNext

\* The inductive invariant holds in every reachable state.
THEOREM ReaderInStep == LinkSpec => []LinkInv
  <1>1. LinkInit => LinkInv
    BY LinkInitInv
  <1>2. LinkInv /\ [LinkNext]_linkVars => LinkInv'
    BY LinkNextInv
  <1> QED BY <1>1, <1>2, PTL DEF LinkSpec

\* The reader is in step with the sender of an intact frame at every byte, for
\* every limit and every frame (KissReader.feed of hk-bridge.py).
THEOREM ReaderFollowsSender == LinkSpec => []InStep
  <1>1. LinkInv => InStep
    BY DEF LinkInv
  <1> QED BY <1>1, ReaderInStep, PTL

\* An intact frame is delivered whatever came before it, for every limit, every
\* frame and any amount of damage (KissReader of hk-bridge.py).
THEOREM IntactFramesAreDelivered == LinkSpec => []IntactFrameDelivered
  <1>1. LinkInv => IntactFrameDelivered
    BY DEF LinkInv
  <1> QED BY <1>1, ReaderInStep, PTL

\* The reader's buffer is bounded by LIMIT under any input.
THEOREM ReaderBounded == LinkSpec => []LinkTypeOK
  <1>1. LinkInv => LinkTypeOK
    BY DEF LinkInv
  <1> QED BY <1>1, ReaderInStep, PTL

\* An undamaged line delivers nothing that was not sent.
THEOREM CleanLineInventsNothing == LinkSpec => []NothingInvented
  <1>1. LinkInv => NothingInvented
    BY DEF LinkInv
  <1> QED BY <1>1, ReaderInStep, PTL

-----------------------------------------------------------------------------
(***************************************************************************)
(* Whatever the bridge showed to Yamcs is in the store, and whatever is in *)
(* the store was captured, over any number of kills, restarts and replays; *)
(* a late reply answers no other poll until the ports have gone round; and *)
(* a sample comes into the store again only when the window or the cap of  *)
(* RecentSamples let it.                                                   *)
(***************************************************************************)

Reception == [sample : Nat, at : Nat]
Row == [sample : Nat, at : Nat, run : Nat]

\* As much typing as the argument needs.
Shape ==
    /\ now \in Nat /\ life \in Nat /\ replayed \in Nat /\ produced \in Nat
    /\ net \subseteq [sample : Nat, port : Int, poll : Nat]
    /\ sport \in Int /\ poll \in Nat
    /\ pending \in Reception
    /\ capture \in Seq(Reception)
    /\ rows \in Seq(Row)

\* The inductive invariant: what is about to be written is already one step back.
WrittenInOrder ==
    /\ Shape
    /\ EvidenceFirst
    /\ mode = "store" => pending.sample \in Captured
    /\ mode \in {"forward", "replay_forward"} => pending.sample \in Stored

\* Appending to the capture adds exactly that sample to what is captured.
LEMMA CaptureGrows ==
    ASSUME capture \in Seq(Reception), NEW r \in Reception, capture' = Append(capture, r)
    PROVE  Captured' = Captured \cup {r.sample} /\ capture' \in Seq(Reception)
  BY DEF Captured

\* Recording adds exactly that sample to what is stored.
LEMMA StoreGrows ==
    ASSUME rows \in Seq(Row), NEW r \in Reception, NEW run \in Nat, Record(r, run)
    PROVE  Stored' = Stored \cup {r.sample} /\ rows' \in Seq(Row)
  <1>1. [sample |-> r.sample, at |-> r.at, run |-> run] \in Row
    BY DEF Reception, Row
  <1> QED BY <1>1 DEF Record, Stored

\* Leaving the files and Yamcs alone leaves what they hold alone.
LEMMA EvidenceKept ==
    ASSUME WrittenInOrder, UNCHANGED evidence
    PROVE  EvidenceFirst' /\ Stored' = Stored /\ Captured' = Captured
  <1>1. rows' = rows /\ capture' = capture /\ yamcs' = yamcs
    BY DEF evidence
  <1>2. Stored' = Stored /\ Captured' = Captured
    BY <1>1 DEF Stored, Captured
  <1> QED BY <1>1, <1>2 DEF WrittenInOrder, EvidenceFirst

\* The bridge starts with nothing written.
LEMMA InitInv == Init => WrittenInOrder
  BY DEF Init, WrittenInOrder, Shape, EvidenceFirst, Stored, Captured, Reception, Row

\* Every step preserves the inductive invariant.
LEMMA NextInv ==
    ASSUME WrittenInOrder, [Next]_vars
    PROVE  WrittenInOrder'
  <1> USE BridgeAssumption DEF WrittenInOrder
  <1>1. CASE NodeCollects \/ FrameLost \/ Tick
    <2>1. UNCHANGED evidence /\ UNCHANGED <<mode, pending>>
      BY <1>1 DEF NodeCollects, FrameLost, Tick
    <2>2. /\ now' \in Nat /\ produced' \in Nat /\ UNCHANGED <<life, replayed, sport, poll>>
      BY <1>1 DEF NodeCollects, FrameLost, Tick, link, request, Shape
    <2>3. net' \subseteq net
      BY <1>1 DEF NodeCollects, FrameLost, Tick, link
    <2>4. Shape'
      BY <2>1, <2>2, <2>3 DEF evidence, Shape
    <2> QED BY <2>1, <2>4, EvidenceKept
  <1>2. CASE NodeBeacons
    <2>1. [sample |-> produced, port |-> Beacon, poll |-> 0] \in [sample : Nat, port : Int, poll : Nat]
      BY DEF Shape, Beacon
    <2>2. UNCHANGED evidence /\ UNCHANGED <<mode, pending>>
      BY <1>2 DEF NodeBeacons
    <2>3. Shape'
      BY <1>2, <2>1 DEF NodeBeacons, request, evidence, Shape
    <2> QED BY <2>2, <2>3, EvidenceKept
  <1>3. CASE Start \/ StartReplay
    <2>1. UNCHANGED evidence /\ mode' \in {"ask", "replay"}
      BY <1>3 DEF Start, StartReplay
    <2>2. Shape'
      BY <1>3, SMTT(40) DEF Start, StartReplay, link, request, evidence, Shape
    <2> QED BY <2>1, <2>2, EvidenceKept
  <1>4. CASE Ask
    <2>1. Replies \subseteq [sample : Nat, port : Int, poll : Nat]
      BY DEF Replies, Shape
    <2>2. net' \subseteq [sample : Nat, port : Int, poll : Nat]
      BY <1>4, <2>1 DEF Ask, Shape
    <2>3. UNCHANGED evidence /\ mode' = "collect"
      BY <1>4 DEF Ask
    <2>4. Shape'
      BY <1>4, <2>2 DEF Ask, evidence, Shape
    <2> QED BY <2>3, <2>4, EvidenceKept
  <1>5. ASSUME NEW f \in net, Receive(f) PROVE WrittenInOrder'
    <2>1. pending' \in Reception /\ mode' \in {"collect", "capture"}
      BY <1>5 DEF Receive, Shape, Reception
    <2>2. net' \subseteq [sample : Nat, port : Int, poll : Nat]
      BY <1>5 DEF Receive, Shape
    <2>3. UNCHANGED evidence
      BY <1>5 DEF Receive
    <2>4. Shape'
      BY <1>5, <2>1, <2>2 DEF Receive, evidence, Shape
    <2> QED BY <2>1, <2>3, <2>4, EvidenceKept
  <1>6. CASE Answered \/ TimedOut \/ NextPoll \/ ReplayEnds \/ Killed
    <2>1. UNCHANGED evidence /\ mode' \in {"sleep", "ask", "off"}
      BY <1>6 DEF Answered, TimedOut, NextPoll, ReplayEnds, Killed
    <2>2. sport' \in Int
      BY <1>6 DEF Answered, TimedOut, NextPoll, NextPort, ReplayEnds, Killed, request, Shape
    <2>3. Shape'
      BY <1>6, <2>2 DEF Answered, TimedOut, NextPoll, ReplayEnds, Killed, link, request, evidence, Shape
    <2> QED BY <2>1, <2>3, EvidenceKept
  <1>7. CASE WriteCapture
    <2>1. Captured' = Captured \cup {pending.sample} /\ capture' \in Seq(Reception)
      BY <1>7, CaptureGrows DEF WriteCapture, Shape
    <2>2. Stored' = Stored /\ yamcs' = yamcs /\ mode' = "store" /\ pending' = pending
      BY <1>7 DEF WriteCapture, Stored
    <2>3. Shape'
      BY <1>7, <2>1 DEF WriteCapture, Shape, link, request
    <2> QED BY <2>1, <2>2, <2>3 DEF EvidenceFirst
  <1>8. CASE StoreSample
    <2>1. Stored' = Stored \cup {pending.sample} /\ rows' \in Seq(Row)
      BY <1>8, StoreGrows DEF StoreSample, Shape
    <2>2. Captured' = Captured /\ yamcs' = yamcs /\ mode' = "forward" /\ pending' = pending
      BY <1>8 DEF StoreSample, Captured
    <2>3. Shape' /\ pending.sample \in Captured
      BY <1>8, <2>1 DEF StoreSample, Shape, link, request
    <2> QED BY <2>1, <2>2, <2>3 DEF EvidenceFirst
  <1>9. CASE Forward
    <2>1. Stored' = Stored /\ Captured' = Captured /\ mode' = "collect"
      BY <1>9 DEF Forward, Stored, Captured
    <2>2. yamcs' = yamcs \cup {pending.sample} /\ pending.sample \in Stored
      BY <1>9 DEF Forward
    <2>3. Shape'
      BY <1>9 DEF Forward, link, request, Shape
    <2> QED BY <2>1, <2>2, <2>3 DEF EvidenceFirst
  <1>10. CASE ReplayStore
    <2> DEFINE r == capture[replayed + 1]
    <2>a. replayed + 1 \in 1..Len(capture) /\ capture \in Seq(Reception)
      <3>1. replayed \in Nat /\ capture \in Seq(Reception)
        BY DEF Shape
      <3>2. replayed < Len(capture)
        BY <1>10 DEF ReplayStore
      <3> QED BY <3>1, <3>2
    <2>b. r \in Reception
      BY <2>a
    <2>c. r.sample \in Captured
      BY <2>a DEF Captured
    <2>1. r \in Reception /\ r.sample \in Captured
      BY <2>b, <2>c
    <2>2. Stored' = Stored \cup {r.sample} /\ rows' \in Seq(Row)
      BY <1>10, <2>1, StoreGrows DEF ReplayStore, Shape, Replayed
    <2>3. Captured' = Captured /\ yamcs' = yamcs /\ mode' = "replay_forward" /\ pending' = r
      BY <1>10 DEF ReplayStore, Captured
    <2>4. Shape'
      BY <1>10, <2>1, <2>2, <2>3 DEF ReplayStore, Shape, link, request
    <2> QED BY <2>1, <2>2, <2>3, <2>4 DEF EvidenceFirst
  <1>11. CASE ReplayForward
    <2>1. Stored' = Stored /\ Captured' = Captured /\ mode' = "replay"
      BY <1>11 DEF ReplayForward, Stored, Captured
    <2>2. yamcs' = yamcs \cup {pending.sample} /\ pending.sample \in Stored
      BY <1>11 DEF ReplayForward
    <2>3. Shape'
      BY <1>11 DEF ReplayForward, link, request, Shape
    <2> QED BY <2>1, <2>2, <2>3 DEF EvidenceFirst
  <1>12. CASE UNCHANGED vars
    <2>1. Shape' /\ UNCHANGED evidence /\ UNCHANGED <<mode, pending>>
      BY <1>12 DEF vars, link, request, evidence, Shape
    <2> QED BY <2>1, EvidenceKept
  <1> QED
    BY <1>1, <1>2, <1>3, <1>4, <1>5, <1>6, <1>7, <1>8, <1>9, <1>10, <1>11, <1>12
       DEF Next, Bridge

\* hk_store.py: a pass that ends in a crash still leaves what it heard; for every
\* configuration of the bridge and any number of samples, kills and replays.
THEOREM EvidenceIsFirst == Spec => []EvidenceFirst
  <1>1. Init => WrittenInOrder
    BY InitInv
  <1>2. WrittenInOrder /\ [Next]_vars => WrittenInOrder'
    BY NextInv
  <1>3. WrittenInOrder => EvidenceFirst
    BY DEF WrittenInOrder
  <1> QED BY <1>1, <1>2, <1>3, PTL DEF Spec

\* Hence the inductive invariant of every behaviour, for the proofs below.
LEMMA AlwaysInOrder == Spec => []WrittenInOrder
  BY InitInv, NextInv, PTL DEF Spec

----------------------------------------------------------------------------
(* Source ports. *)

\* The request that the port belongs to: the next one before it is sent, and then
\* the last one.
Asked == IF mode = "ask" THEN poll + 1 ELSE poll

\* A frame of this run that is less than a round of the ports old left from a port
\* as many behind as requests have been made since.  This says more than that no
\* two of PORTS successive requests share a port, and it carries over a request.
Behind(f) ==
    \/ Asked - f.poll >= PORTS
    \/ sport = f.port + (Asked - f.poll)
    \/ sport = f.port + (Asked - f.poll) - PORTS

\* The inductive invariant.
PortsInOrder ==
    /\ sport \in 0..(PORTS - 1) /\ bornAt \in Nat /\ bornAt <= poll /\ counted \subseteq Nat
    /\ \A f \in net : f.poll <= poll /\ (f.poll > bornAt => f.port \in 0..(PORTS - 1))
    /\ mode \in Live => \A f \in net : f.poll > bornAt => Behind(f)
    /\ LateRepliesIgnored

\* The ports go round.
LEMMA PortsGoRound ==
    ASSUME NEW s \in 0..(PORTS - 1)
    PROVE  (s + 1) % PORTS = IF s + 1 = PORTS THEN 0 ELSE s + 1
  BY BridgeAssumption

\* A step that sends no request and starts no run keeps the frames in order.
LEMMA PortsKept ==
    ASSUME Shape, PortsInOrder, UNCHANGED <<sport, poll, bornAt>>,
           mode' \in Live => mode \in Live /\ Asked' = Asked,
           \A f \in net' : f \in net \/ f.poll = 0,
           counted' \subseteq Nat, LateRepliesIgnored'
    PROVE  PortsInOrder'
  <1>1. \A f \in net' : f.poll <= poll' /\ (f.poll > bornAt' => f \in net /\ f.port \in 0..(PORTS - 1))
    BY DEF Shape, PortsInOrder
  <1>2. ASSUME mode' \in Live, NEW f \in net', f.poll > bornAt' PROVE Behind(f)'
    <2>1. Behind(f) /\ Asked' = Asked
      BY <1>1, <1>2 DEF PortsInOrder
    <2>2. PICK a : a = Asked
      OBVIOUS
    <2> QED BY <2>1, <2>2 DEF Behind
  <1> QED BY <1>1, <1>2 DEF PortsInOrder

\* Nothing was sent at first.
LEMMA InitPorts == Init => PortsInOrder
  BY BridgeAssumption DEF Init, PortsInOrder, LateRepliesIgnored, Live, Writing

\* A request leaves from the port that is due, and nothing of it was counted before.
LEMMA AskPorts ==
    ASSUME Shape, PortsInOrder, Ask
    PROVE  PortsInOrder'
  <1>1. /\ mode = "ask" /\ mode' = "collect" /\ poll' = poll + 1 /\ counted' = {}
        /\ sport' = sport /\ bornAt' = bornAt /\ poll \in Nat
    BY DEF Ask, Shape
  <1>2. Asked' = Asked /\ Asked = poll + 1 /\ mode \in Live
    BY <1>1 DEF Asked, Live
  <1>3. \A f \in net' : f \in net \/ (f.port = sport /\ f.poll = poll + 1)
    BY DEF Ask, Replies
  <1>4. \A f \in net' : f.poll <= poll' /\ (f.poll > bornAt' => f.port \in 0..(PORTS - 1))
    BY <1>1, <1>3 DEF PortsInOrder, Shape
  <1>5. ASSUME NEW f \in net', f.poll > bornAt' PROVE Behind(f)'
    <2>1. CASE f \in net
      <3>1. Behind(f)
        BY <1>1, <1>2, <1>5, <2>1 DEF PortsInOrder
      <3> QED BY <1>1, <1>2, <3>1 DEF Behind
    <2>2. CASE f.port = sport /\ f.poll = poll + 1
      <3>1. sport \in Int
        BY DEF PortsInOrder
      <3> QED BY <1>1, <1>2, <2>2, <3>1 DEF Behind
    <2> QED BY <1>3, <2>1, <2>2
  <1>6. LateRepliesIgnored'
    BY <1>1 DEF LateRepliesIgnored
  <1> QED BY <1>1, <1>4, <1>5, <1>6 DEF PortsInOrder, Shape

\* A reply on the port of this request is its own, or a whole round of ports old.
LEMMA ReceivePorts ==
    ASSUME Shape, PortsInOrder, NEW f \in net, Receive(f)
    PROVE  PortsInOrder'
  <1>1. /\ mode = "collect" /\ mode' \in {"collect", "capture"}
        /\ UNCHANGED <<sport, poll, bornAt>> /\ poll \in Nat
    BY DEF Receive, Shape
  <1>2. Asked' = Asked /\ Asked = poll /\ mode \in Live
    BY <1>1 DEF Asked, Live
  <1>3. counted' \subseteq counted \cup {f.poll} /\ (Matching(f) \/ counted' = counted)
    BY DEF Receive
  <1>4. f.poll \in Nat /\ f.port \in Int /\ sport \in Int /\ bornAt \in Nat
    BY DEF Shape, PortsInOrder
  <1>5. Matching(f) => f.poll = poll \/ poll - f.poll >= PORTS \/ f.poll <= bornAt
    <2> SUFFICES ASSUME f.port = sport, f.poll > bornAt PROVE f.poll = poll \/ poll - f.poll >= PORTS
      BY <1>4 DEF Matching
    <2>1. Behind(f)
      BY <1>2 DEF PortsInOrder
    <2> QED BY <1>1, <1>2, <1>4, <2>1, BridgeAssumption DEF Behind
  <1>6. LateRepliesIgnored'
    BY <1>1, <1>3, <1>5 DEF LateRepliesIgnored, PortsInOrder
  <1>7. counted' \subseteq Nat
    BY <1>3, <1>4 DEF PortsInOrder
  <1>8. net' \subseteq net
    BY DEF Receive
  <1> QED BY <1>1, <1>2, <1>6, <1>7, <1>8, PortsKept

\* The next port is one further from every frame.
LEMMA NextPollPorts ==
    ASSUME Shape, PortsInOrder, NextPoll
    PROVE  PortsInOrder'
  <1>1. /\ mode = "sleep" /\ mode' = "ask" /\ UNCHANGED <<net, poll, bornAt, counted>> /\ poll \in Nat
        /\ sport' = NextPort
    BY DEF NextPoll, Shape, link
  <1>2. Asked = poll /\ Asked' = poll + 1 /\ mode \in Live
    BY <1>1 DEF Asked, Live
  <1>3. sport \in 0..(PORTS - 1) /\ PORTS \in Nat \ {0}
    BY BridgeAssumption DEF PortsInOrder
  <1>4. sport' = IF sport + 1 = PORTS THEN 0 ELSE sport + 1
    BY <1>1, <1>3, PortsGoRound DEF NextPort
  <1>5. sport' \in 0..(PORTS - 1)
    BY <1>3, <1>4
  <1>6. ASSUME NEW f \in net, f.poll > bornAt PROVE Behind(f)'
    <2>1. Behind(f) /\ f.port \in 0..(PORTS - 1) /\ f.poll \in Nat /\ f.poll <= poll
      BY <1>2, <1>6 DEF PortsInOrder, Shape
    <2> QED BY <1>1, <1>2, <1>3, <1>4, <2>1 DEF Behind
  <1>7. LateRepliesIgnored'
    BY <1>1 DEF LateRepliesIgnored, PortsInOrder
  <1> QED BY <1>1, <1>5, <1>6, <1>7 DEF PortsInOrder

\* Every step keeps the ports in order.
LEMMA NextPorts ==
    ASSUME Shape, PortsInOrder, [Next]_vars
    PROVE  PortsInOrder'
  <1>1. CASE NodeCollects \/ FrameLost \/ Tick \/ NodeBeacons
    <2>1. UNCHANGED <<sport, poll, counted, bornAt, mode>>
      BY <1>1 DEF NodeCollects, FrameLost, Tick, NodeBeacons, request
    <2>2. \A f \in net' : f \in net \/ f.poll = 0
      BY <1>1 DEF NodeCollects, FrameLost, Tick, NodeBeacons, link
    <2>3. LateRepliesIgnored' /\ Asked' = Asked
      BY <2>1 DEF LateRepliesIgnored, PortsInOrder, Asked
    <2> QED BY <2>1, <2>2, <2>3, PortsKept DEF PortsInOrder
  <1>2. CASE Start
    <2>1. /\ sport' = 0 /\ counted' = {} /\ poll' = poll /\ bornAt' = poll /\ net' = net /\ poll \in Nat
          /\ \A f \in net : f.poll \in Nat /\ f.poll <= poll
      BY <1>2 DEF Start, Shape, PortsInOrder, link
    <2>2. \A f \in net' : ~(f.poll > bornAt')
      BY <2>1
    <2>3. LateRepliesIgnored'
      BY <2>1 DEF LateRepliesIgnored
    <2> QED BY <2>1, <2>2, <2>3, BridgeAssumption DEF PortsInOrder
  <1>3. CASE \/ Answered \/ TimedOut \/ WriteCapture \/ StoreSample \/ Forward
             \/ StartReplay \/ ReplayStore \/ ReplayForward \/ ReplayEnds \/ Killed
    <2>1. UNCHANGED <<net, sport, poll, counted, bornAt>>
      BY <1>3 DEF Answered, TimedOut, WriteCapture, StoreSample, Forward, StartReplay, ReplayStore,
                  ReplayForward, ReplayEnds, Killed, link, request
    <2>2. mode' \in Live => mode \in {"collect", "capture", "store", "forward"} /\ mode' # "ask"
      BY <1>3 DEF Answered, TimedOut, WriteCapture, StoreSample, Forward, StartReplay, ReplayStore,
                  ReplayForward, ReplayEnds, Killed, Live, Writing
    <2>3. mode' \in Live => mode \in Live /\ Asked' = Asked
      BY <2>1, <2>2 DEF Live, Writing, Asked
    <2>4. LateRepliesIgnored'
      BY <2>1 DEF LateRepliesIgnored, PortsInOrder
    <2> QED BY <2>1, <2>3, <2>4, PortsKept DEF PortsInOrder
  <1>4. CASE UNCHANGED vars
    <2>1. UNCHANGED <<net, sport, poll, counted, bornAt, mode>>
      BY <1>4 DEF vars, link, request
    <2>2. LateRepliesIgnored' /\ Asked' = Asked
      BY <2>1 DEF LateRepliesIgnored, PortsInOrder, Asked
    <2> QED BY <2>1, <2>2, PortsKept DEF PortsInOrder
  <1> QED BY <1>1, <1>2, <1>3, <1>4, AskPorts, ReceivePorts, NextPollPorts DEF Next, Bridge

\* For every number of ports, requests and runs: a late answer is not taken for an
\* answer to another request of its run until the ports have gone round.
THEOREM LateRepliesAreIgnored == Spec => []LateRepliesIgnored
  <1>1. WrittenInOrder => Shape
    BY DEF WrittenInOrder
  <1>2. WrittenInOrder /\ PortsInOrder /\ [Next]_vars => PortsInOrder'
    BY <1>1, NextPorts
  <1>3. PortsInOrder => LateRepliesIgnored
    BY DEF PortsInOrder
  <1> QED BY <1>2, <1>3, InitPorts, AlwaysInOrder, PTL DEF Spec

----------------------------------------------------------------------------
(* Duplicates. *)

Accepting == {"capture", "store"}

\* Samples accepted so far: the rows, and the one that is on its way to be one.
Taken == Len(rows) + (IF mode \in Accepting THEN 1 ELSE 0)

\* Why a row of this run may be followed by the same sample again, or not.
Old(i) == now - rows[i].at >= WINDOW
Pushed(i) == Taken - i >= CAP
HeldAt(i, k) ==
    /\ seen[k].sample = rows[i].sample /\ seen[k].at = rows[i].at
    /\ Len(seen) - k <= Taken - i
Held(i) == \E k \in 1..Len(seen) : HeldAt(i, k)

\* Every row of this run is remembered, unless it is old or was pushed out; the
\* entries that came after it are not more than the samples accepted after it.
Remembers ==
    mode \in Live => \A i \in 1..Len(rows) : rows[i].run = life => Old(i) \/ Held(i) \/ Pushed(i)

\* The sample being written is the last one remembered, and may be a row now.
PendingMayFollow ==
    mode \in Accepting =>
        /\ Len(seen) >= 1 /\ seen[Len(seen)] = pending
        /\ \A i \in 1..Len(rows) : rows[i].run = life /\ rows[i].sample = pending.sample
               => pending.at - rows[i].at >= WINDOW \/ Len(rows) + 1 - i > CAP

\* The inductive invariant.
DuplicatesRemembered ==
    /\ seen \in Seq(Reception)
    /\ \A i \in 1..Len(rows) : rows[i].run <= life
    /\ Remembers
    /\ PendingMayFollow
    /\ DuplicatesAreOld

\* A set of numbers that is not empty has a least element.
LEMMA LeastNumber ==
    ASSUME NEW T, T \subseteq Nat, T # {}
    PROVE  \E n \in T : \A m \in T : n <= m
  <1>1. PICK n \in T : \A m \in T : ~(<<m, n>> \in OpToRel(<, Nat))
    BY WFMin, NatLessThanWellFounded
  <1>2. ASSUME NEW m \in T PROVE n <= m
    <2>1. m \in Nat /\ n \in Nat
      OBVIOUS
    <2>2. ~(m < n)
      BY <1>1, <2>1 DEF OpToRel
    <2> QED BY <2>1, <2>2
  <1> QED BY <1>2

\* The entries that accept() drops are old, and the first one that it keeps is not.
LEMMA ExpiredIsOld ==
    ASSUME Shape, seen \in Seq(Reception)
    PROVE  /\ Expired \in 0..Len(seen)
           /\ \A k \in 1..Expired : now - seen[k].at >= WINDOW
  <1> DEFINE Expires(n) == /\ \A k \in 1..n : now - seen[k].at >= WINDOW
                           /\ n < Len(seen) => now - seen[n + 1].at < WINDOW
  <1> DEFINE T == {n \in 0..Len(seen) : n = Len(seen) \/ now - seen[n + 1].at < WINDOW}
  <1>1. Len(seen) \in Nat /\ now \in Nat /\ WINDOW \in Nat
    BY BridgeAssumption DEF Shape
  <1>2. T \subseteq Nat /\ Len(seen) \in T
    BY <1>1
  <1>3. PICK n \in T : \A m \in T : n <= m
    <2> HIDE DEF T
    <2> QED BY <1>2, LeastNumber
  <1>4. ASSUME NEW k \in 1..n PROVE now - seen[k].at >= WINDOW
    <2>1. k \in 1..Len(seen) /\ k - 1 \in 0..Len(seen) /\ k - 1 < n /\ k - 1 # Len(seen) /\ (k - 1) + 1 = k
      BY <1>1, <1>3
    <2>2. k - 1 \notin T
      <3>1. n \in Nat /\ ~(n <= k - 1)
        BY <1>1, <1>3, <2>1
      <3> HIDE DEF T
      <3> QED BY <1>3, <3>1
    <2>3. ~(now - seen[k].at < WINDOW)
      BY <2>1, <2>2
    <2>4. seen[k].at \in Nat
      <3> HIDE DEF T, Expires
      <3>1. seen[k] \in Reception
        BY <2>1
      <3> QED BY <3>1 DEF Reception
    <2> QED BY <1>1, <2>3, <2>4
  <1>5. n \in 0..Len(seen) /\ Expires(n)
    BY <1>1, <1>3, <1>4
  <1>6. Expired = CHOOSE m \in 0..Len(seen) : Expires(m)
    BY DEF Expired
  <1>7. Expired \in 0..Len(seen) /\ Expires(Expired)
    <2> HIDE DEF Expires
    <2> QED BY <1>5, <1>6
  <1> QED BY <1>7

\* What accept() keeps is the rest, one after the other.
LEMMA FreshIsTheRest ==
    ASSUME Shape, seen \in Seq(Reception)
    PROVE  /\ Fresh \in Seq(Reception) /\ Len(Fresh) = Len(seen) - Expired
           /\ \A k \in 1..Len(Fresh) : Fresh[k] = seen[Expired + k]
  <1>1. PICK n \in Nat : n = Expired
    BY ExpiredIsOld
  <1>2. PICK l \in Nat : l = Len(seen)
    OBVIOUS
  <1>3. n <= l
    BY <1>1, <1>2, ExpiredIsOld
  <1>4. \A k \in (n + 1)..l : seen[k] \in Reception
    BY <1>2
  <1>5. Fresh = SubSeq(seen, n + 1, l)
    BY <1>1, <1>2 DEF Fresh
  <1>6. /\ SubSeq(seen, n + 1, l) \in Seq(Reception)
        /\ Len(SubSeq(seen, n + 1, l)) = IF n + 1 <= l THEN l - (n + 1) + 1 ELSE 0
        /\ \A k \in 1..(l - (n + 1) + 1) : SubSeq(seen, n + 1, l)[k] = seen[(n + 1) + k - 1]
    BY <1>4, SubSeqProperties
  <1>7. Len(Fresh) = l - n
    BY <1>3, <1>5, <1>6
  <1>8. \A k \in 1..(l - n) : Fresh[k] = seen[n + k]
    BY <1>5, <1>6
  <1> QED BY <1>1, <1>2, <1>5, <1>6, <1>7, <1>8

\* Both in one: accept() drops the first n entries of l, all of them old.
LEMMA AcceptDrops ==
    ASSUME Shape, seen \in Seq(Reception)
    PROVE  \E n \in Nat, l \in Nat, fresh \in Seq(Reception) :
              /\ l = Len(seen) /\ n <= l
              /\ \A k \in 1..n : now - seen[k].at >= WINDOW
              /\ fresh = Fresh /\ Len(fresh) = l - n
              /\ \A k \in 1..(l - n) : fresh[k] = seen[n + k]
  <1>1. PICK n \in Nat, l \in Nat :
           /\ n = Expired /\ l = Len(seen) /\ n <= l
           /\ \A k \in 1..n : now - seen[k].at >= WINDOW
           /\ Fresh \in Seq(Reception) /\ Len(Fresh) = l - n
           /\ \A k \in 1..(l - n) : Fresh[k] = seen[n + k]
    <2>1. PICK l \in Nat : l = Len(seen)
      OBVIOUS
    <2>2. PICK n \in 0..l : n = Expired
      BY <2>1, ExpiredIsOld
    <2>3. n \in Nat /\ n <= l
      BY <2>2
    <2>4. \A k \in 1..n : now - seen[k].at >= WINDOW
      BY <2>2, ExpiredIsOld
    <2>5. /\ Fresh \in Seq(Reception) /\ Len(Fresh) = l - n
          /\ \A k \in 1..(l - n) : Fresh[k] = seen[n + k]
      BY <2>1, <2>2, FreshIsTheRest
    <2> QED BY <2>1, <2>2, <2>3, <2>4, <2>5
  <1>2. PICK fresh \in Seq(Reception) : fresh = Fresh
    BY <1>1
  <1> QED BY <1>1, <1>2

\* What remembering one more entry keeps of the others, and where.
LEMMA RememberKeeps ==
    ASSUME NEW entries \in Seq(Reception), NEW s \in Nat, now \in Nat
    PROVE  /\ Remember(entries, s) \in Seq(Reception)
           /\ Len(Remember(entries, s)) >= 1
           /\ Remember(entries, s)[Len(Remember(entries, s))] = [sample |-> s, at |-> now]
           /\ \A k \in 1..Len(entries) :
                 \/ k = 1 /\ Len(entries) >= CAP
                 \/ \E m \in 1..Len(Remember(entries, s)) :
                       /\ Remember(entries, s)[m] = entries[k]
                       /\ Len(Remember(entries, s)) - m = Len(entries) + 1 - k
  <1>1. PICK e : e = [sample |-> s, at |-> now]
    OBVIOUS
  <1>2. e \in Reception
    BY <1>1 DEF Reception
  <1>3. PICK all : all = Append(entries, e)
    OBVIOUS
  <1>4. PICK l \in Nat : l = Len(entries)
    OBVIOUS
  <1>5. all \in Seq(Reception) /\ Len(all) = l + 1 /\ all[l + 1] = e /\ \A k \in 1..l : all[k] = entries[k]
    BY <1>2, <1>3, <1>4
  <1>6. CASE l + 1 > CAP
    <2>1. Remember(entries, s) = Tail(all)
      BY <1>1, <1>3, <1>5, <1>6 DEF Remember
    <2>2. PICK t : t = Tail(all)
      OBVIOUS
    <2>3. l >= 1 /\ l >= CAP
      BY <1>4, <1>6, BridgeAssumption
    <2>4. all # <<>>
      BY <1>5
    <2>5. t \in Seq(Reception) /\ Len(t) = l /\ \A k \in 1..l : t[k] = all[k + 1]
      BY <1>5, <2>2, <2>4
    <2>6. t[l] = e
      BY <1>5, <2>3, <2>5
    <2>7. ASSUME NEW k \in 1..l, k # 1
          PROVE  k - 1 \in 1..Len(t) /\ t[k - 1] = entries[k] /\ Len(t) - (k - 1) = l + 1 - k
      <3>1. k - 1 \in 1..l /\ (k - 1) + 1 = k /\ l - (k - 1) = l + 1 - k
        BY <2>7
      <3> QED BY <1>5, <2>5, <3>1
    <2> QED BY <1>1, <1>4, <2>1, <2>2, <2>3, <2>5, <2>6, <2>7
  <1>7. CASE ~(l + 1 > CAP)
    <2>1. Remember(entries, s) = all
      BY <1>1, <1>3, <1>5, <1>7 DEF Remember
    <2>2. \A k \in 1..l : k \in 1..Len(all) /\ all[k] = entries[k] /\ Len(all) - k = l + 1 - k
      BY <1>5
    <2>3. Len(all) >= 1 /\ all[Len(all)] = e
      BY <1>5
    <2>4. \A k \in 1..Len(entries) : \E m \in 1..Len(all) : all[m] = entries[k] /\ Len(all) - m = Len(entries) + 1 - k
      BY <1>4, <2>2
    <2> QED BY <1>1, <1>5, <2>1, <2>3, <2>4
  <1> QED BY <1>6, <1>7

\* Rows have numbers in them.
LEMMA RowNumbers ==
    ASSUME Shape
    PROVE  /\ Len(rows) \in Nat
           /\ \A i \in 1..Len(rows) : rows[i].sample \in Nat /\ rows[i].at \in Nat /\ rows[i].run \in Nat
  <1>1. rows \in Seq(Row)
    BY DEF Shape
  <1>2. \A i \in 1..Len(rows) : rows[i] \in Row
    BY <1>1
  <1> QED BY <1>1, <1>2 DEF Row

\* A step that writes no row and accepts nothing: time may pass, or the run may end.
LEMMA DuplicatesKept ==
    ASSUME Shape, DuplicatesRemembered, UNCHANGED <<rows, seen, pending, life>>,
           now' \in Nat, now <= now',
           mode' \in Live => mode \in Live /\ (mode' \in Accepting <=> mode \in Accepting)
    PROVE  DuplicatesRemembered'
  <1>1. Len(rows) \in Nat /\ \A i \in 1..Len(rows) : rows[i].at \in Nat
    BY RowNumbers
  <1>2. now \in Nat /\ WINDOW \in Nat
    BY BridgeAssumption DEF Shape
  <1>3. Remembers'
    <2> SUFFICES ASSUME mode' \in Live, NEW i \in 1..Len(rows), rows[i].run = life
                 PROVE  Old(i)' \/ Held(i)' \/ Pushed(i)'
      BY DEF Remembers
    <2>1. Taken' = Taken
      BY DEF Taken
    <2>2. Old(i) \/ Held(i) \/ Pushed(i)
      BY DEF DuplicatesRemembered, Remembers
    <2>3. Old(i) => Old(i)'
      BY <1>1, <1>2 DEF Old
    <2>4. Held(i) => Held(i)'
      BY <2>1 DEF Held, HeldAt
    <2>5. Pushed(i) => Pushed(i)'
      BY <2>1 DEF Pushed
    <2> QED BY <2>2, <2>3, <2>4, <2>5
  <1>4. PendingMayFollow'
    <2>1. mode' \in Accepting => mode \in Accepting
      BY DEF Accepting, Live, Writing
    <2> QED BY <2>1 DEF DuplicatesRemembered, PendingMayFollow
  <1>5. DuplicatesAreOld'
    BY DEF DuplicatesRemembered, DuplicatesAreOld
  <1> QED BY <1>3, <1>4, <1>5 DEF DuplicatesRemembered

\* accept() refuses a duplicate: the entries that it drops on the way are old.
LEMMA RefusedDuplicate ==
    ASSUME Shape, DuplicatesRemembered, mode = "collect", mode' = "collect", seen' = Fresh,
           UNCHANGED <<rows, pending, life, now>>
    PROVE  DuplicatesRemembered'
  <1>1. Len(rows) \in Nat /\ \A i \in 1..Len(rows) : rows[i].at \in Nat
    BY RowNumbers
  <1>2. seen \in Seq(Reception)
    BY DEF DuplicatesRemembered
  <1>3. PICK n \in Nat, l \in Nat, fresh \in Seq(Reception) :
           /\ l = Len(seen) /\ n <= l
           /\ \A k \in 1..n : now - seen[k].at >= WINDOW
           /\ fresh = Fresh /\ Len(fresh) = l - n
           /\ \A k \in 1..(l - n) : fresh[k] = seen[n + k]
    BY <1>2, AcceptDrops, Zenon
  <1>4. Remembers'
    <2> SUFFICES ASSUME NEW i \in 1..Len(rows), rows[i].run = life
                 PROVE  Old(i)' \/ Held(i)' \/ Pushed(i)'
      BY DEF Remembers
    <2>1. Taken' = Taken /\ Taken = Len(rows) /\ mode \in Live
      BY DEF Taken, Accepting, Live
    <2>2. Old(i) \/ Held(i) \/ Pushed(i)
      BY <2>1 DEF DuplicatesRemembered, Remembers
    <2>3. Old(i) => Old(i)'
      BY DEF Old
    <2>4. Pushed(i) => Pushed(i)'
      BY <2>1 DEF Pushed
    <2>5. ASSUME Held(i) PROVE Old(i)' \/ Held(i)'
      <3>1. PICK k \in 1..l : HeldAt(i, k)
        BY <1>3, <2>5 DEF Held
      <3>2. CASE k <= n
        <4>1. now - seen[k].at >= WINDOW
          BY <1>3, <3>2
        <4> QED BY <3>1, <4>1 DEF HeldAt, Old
      <3>3. CASE ~(k <= n)
        <4>1. k - n \in 1..(l - n) /\ n + (k - n) = k /\ (l - n) - (k - n) = l - k
          BY <1>3, <3>3
        <4>2. fresh[k - n] = seen[k]
          BY <1>3, <4>1
        <4>3. HeldAt(i, k - n)'
          BY <1>3, <2>1, <3>1, <4>1, <4>2 DEF HeldAt
        <4> QED BY <1>3, <4>1, <4>3 DEF Held
      <3> QED BY <3>2, <3>3
    <2> QED BY <2>2, <2>3, <2>4, <2>5
  <1>5. PendingMayFollow'
    BY DEF PendingMayFollow, Accepting
  <1>6. DuplicatesAreOld'
    BY DEF DuplicatesRemembered, DuplicatesAreOld
  <1> QED BY <1>3, <1>4, <1>5, <1>6 DEF DuplicatesRemembered

\* accept() takes a sample that it does not know.
LEMMA AcceptedSample ==
    ASSUME Shape, DuplicatesRemembered, mode = "collect", mode' = "capture", NEW s \in Nat,
           ~Knows(Fresh, s), seen' = Remember(Fresh, s), pending' = [sample |-> s, at |-> now],
           UNCHANGED <<rows, life, now>>
    PROVE  DuplicatesRemembered'
  <1>1. Len(rows) \in Nat /\ \A i \in 1..Len(rows) : rows[i].at \in Nat
    BY RowNumbers
  <1>2. seen \in Seq(Reception) /\ now \in Nat /\ WINDOW \in Nat /\ CAP \in Nat
    BY BridgeAssumption DEF DuplicatesRemembered, Shape
  <1>3. PICK n \in Nat, l \in Nat, fresh \in Seq(Reception) :
           /\ l = Len(seen) /\ n <= l
           /\ \A k \in 1..n : now - seen[k].at >= WINDOW
           /\ fresh = Fresh /\ Len(fresh) = l - n
           /\ \A k \in 1..(l - n) : fresh[k] = seen[n + k]
    BY <1>2, AcceptDrops, Zenon
  <1>4. PICK new \in Seq(Reception) : new = Remember(fresh, s)
    BY <1>2, RememberKeeps
  <1>5. /\ Len(new) >= 1 /\ new[Len(new)] = [sample |-> s, at |-> now]
        /\ \A k \in 1..Len(fresh) :
              \/ k = 1 /\ Len(fresh) >= CAP
              \/ \E m \in 1..Len(new) : new[m] = fresh[k] /\ Len(new) - m = Len(fresh) + 1 - k
    BY <1>2, <1>4, RememberKeeps, ZenonT(60)
  <1>6. seen' = new /\ Len(new) \in Nat
    BY <1>3, <1>4
  <1>7. Taken' = Taken + 1 /\ Taken = Len(rows) /\ mode \in Live
    BY DEF Taken, Accepting, Live
  <1>8. Remembers'
    <2> SUFFICES ASSUME NEW i \in 1..Len(rows), rows[i].run = life
                 PROVE  Old(i)' \/ Held(i)' \/ Pushed(i)'
      BY DEF Remembers
    <2>1. Old(i) \/ Held(i) \/ Pushed(i)
      BY <1>7 DEF DuplicatesRemembered, Remembers
    <2>2. Old(i) => Old(i)'
      BY DEF Old
    <2>3. Pushed(i) => Pushed(i)'
      BY <1>1, <1>2, <1>7 DEF Pushed
    <2>4. ASSUME Held(i) PROVE Old(i)' \/ Held(i)' \/ Pushed(i)'
      <3>1. PICK k \in 1..l : HeldAt(i, k)
        BY <1>3, <2>4 DEF Held
      <3>2. CASE k <= n
        <4>1. now - seen[k].at >= WINDOW
          BY <1>3, <3>2
        <4> QED BY <3>1, <4>1 DEF HeldAt, Old
      <3>3. CASE ~(k <= n)
        <4>0. k \in 1..l /\ n < k
          BY <3>3
        <4>1. k - n \in 1..(l - n) /\ n + (k - n) = k /\ (l - n) + 1 - (k - n) = l + 1 - k
          BY <4>0
        <4>2. fresh[k - n] = seen[k]
          BY <1>3, <4>1
        <4>3. l - k <= Len(rows) - i
          BY <1>3, <1>7, <3>1 DEF HeldAt
        <4>4. CASE k - n = 1 /\ Len(fresh) >= CAP
          <5>1. l - n >= CAP /\ k = n + 1
            BY <1>3, <4>4
          <5>2. (Len(rows) + 1) - i >= CAP
            BY <1>1, <1>2, <1>3, <4>3, <5>1
          <5> QED BY <1>7, <5>2 DEF Pushed
        <4>5. ASSUME NEW m \in 1..Len(new), new[m] = fresh[k - n], Len(new) - m = Len(fresh) + 1 - (k - n)
              PROVE  Held(i)'
          <5>1. Len(new) - m = l + 1 - k
            BY <1>3, <4>1, <4>5
          <5>2. Len(new) - m <= (Len(rows) + 1) - i
            <6>1. PICK a \in Nat : a = Len(rows)
              BY <1>1
            <6>2. l - k <= a - i /\ i \in Int /\ k \in Int
              BY <4>3, <6>1
            <6>3. l + 1 - k <= (a + 1) - i
              BY <6>2
            <6> QED BY <5>1, <6>1, <6>3
          <5>3. HeldAt(i, m)'
            BY <1>6, <1>7, <3>1, <4>2, <4>5, <5>2 DEF HeldAt
          <5> QED BY <1>6, <5>3 DEF Held
        <4> QED BY <1>3, <1>5, <4>1, <4>4, <4>5
      <3> QED BY <3>2, <3>3
    <2> QED BY <2>1, <2>2, <2>3, <2>4
  <1>9. ASSUME NEW i \in 1..Len(rows), rows[i].run = life, rows[i].sample = s
        PROVE  now - rows[i].at >= WINDOW \/ Len(rows) + 1 - i > CAP
    <2>1. CASE Old(i)
      BY <2>1 DEF Old
    <2>2. CASE Pushed(i)
      BY <1>1, <1>2, <1>7, <2>2 DEF Pushed
    <2>3. CASE Held(i)
      <3>1. PICK k \in 1..l : HeldAt(i, k)
        BY <1>3, <2>3 DEF Held
      <3>2. CASE k <= n
        <4>1. now - seen[k].at >= WINDOW
          BY <1>3, <3>2
        <4> QED BY <3>1, <4>1 DEF HeldAt
      <3>3. CASE ~(k <= n)
        <4>1. k - n \in 1..(l - n) /\ n + (k - n) = k
          BY <1>3, <3>3
        <4>2. fresh[k - n] = seen[k]
          BY <1>3, <4>1
        <4>3. fresh[k - n].sample = s
          BY <1>9, <3>1, <4>2 DEF HeldAt
        <4> QED BY <1>3, <4>1, <4>3 DEF Knows
      <3> QED BY <3>2, <3>3
    <2> QED BY <1>7, <1>9, <2>1, <2>2, <2>3 DEF DuplicatesRemembered, Remembers
  <1>10. PendingMayFollow'
    <2>1. pending'.sample = s /\ pending'.at = now
      OBVIOUS
    <2> QED BY <1>5, <1>6, <1>9, <2>1 DEF PendingMayFollow
  <1>11. DuplicatesAreOld'
    BY DEF DuplicatesRemembered, DuplicatesAreOld
  <1> QED BY <1>6, <1>8, <1>10, <1>11 DEF DuplicatesRemembered

\* Store.record() writes the accepted sample, which may follow every row there is.
LEMMA StoredSample ==
    ASSUME Shape, DuplicatesRemembered, StoreSample
    PROVE  DuplicatesRemembered'
  <1>1. /\ Len(rows) \in Nat
        /\ \A i \in 1..Len(rows) : rows[i].sample \in Nat /\ rows[i].at \in Nat /\ rows[i].run \in Nat
    BY RowNumbers
  <1>2. /\ mode = "store" /\ mode' = "forward" /\ UNCHANGED <<seen, pending, life, now>>
        /\ rows' = Append(rows, [sample |-> pending.sample, at |-> pending.at, run |-> life])
    BY DEF StoreSample, Record
  <1>3. PICK l \in Nat : l = Len(rows)
    BY <1>1
  <1>4. PICK r : r = [sample |-> pending.sample, at |-> pending.at, run |-> life]
    OBVIOUS
  <1>5. r.sample = pending.sample /\ r.at = pending.at /\ r.run = life
    BY <1>4
  <1>6. rows \in Seq(Row) /\ pending \in Reception /\ life \in Nat
    BY DEF Shape
  <1>7. r \in Row
    BY <1>4, <1>6 DEF Row, Reception
  <1>8. Len(rows') = l + 1 /\ rows'[l + 1] = r /\ \A i \in 1..l : rows'[i] = rows[i]
    BY <1>2, <1>3, <1>4, <1>6, <1>7
  <1>9. mode \in Accepting /\ mode \in Live /\ mode' \notin Accepting
    BY <1>2 DEF Accepting, Live, Writing
  <1>10. Taken = l + 1 /\ Taken' = l + 1
    BY <1>3, <1>8, <1>9 DEF Taken
  <1>11. /\ Len(seen) >= 1 /\ seen[Len(seen)] = pending /\ Len(seen) \in Nat
         /\ \A i \in 1..l : rows[i].run = life /\ rows[i].sample = pending.sample
                => pending.at - rows[i].at >= WINDOW \/ l + 1 - i > CAP
    BY <1>3, <1>9 DEF DuplicatesRemembered, PendingMayFollow
  <1>12. Remembers'
    <2> SUFFICES ASSUME NEW i \in 1..(l + 1), rows'[i].run = life
                 PROVE  Old(i)' \/ Held(i)' \/ Pushed(i)'
      BY <1>2, <1>8 DEF Remembers
    <2>1. CASE i = l + 1
      <3>1. HeldAt(i, Len(seen))'
        BY <1>2, <1>5, <1>8, <1>10, <1>11, <2>1 DEF HeldAt
      <3> QED BY <1>2, <1>11, <3>1 DEF Held
    <2>2. CASE i \in 1..l
      <3>1. rows'[i] = rows[i]
        BY <1>8, <2>2
      <3>2. Old(i) \/ Held(i) \/ Pushed(i)
        BY <1>3, <1>9, <2>2, <3>1 DEF DuplicatesRemembered, Remembers
      <3>3. Old(i) => Old(i)'
        BY <1>2, <3>1 DEF Old
      <3>4. Held(i) => Held(i)'
        BY <1>2, <1>10, <3>1 DEF Held, HeldAt
      <3>5. Pushed(i) => Pushed(i)'
        BY <1>10 DEF Pushed
      <3> QED BY <3>2, <3>3, <3>4, <3>5
    <2> QED BY <2>1, <2>2
  <1>13. PendingMayFollow'
    BY <1>9 DEF PendingMayFollow
  <1>14. ASSUME NEW i \in 1..(l + 1), NEW j \in 1..(l + 1), i < j, rows'[i].sample = rows'[j].sample,
                rows'[i].run = rows'[j].run, rows'[i].run # Replayed
         PROVE  rows'[j].at - rows'[i].at >= WINDOW \/ j - i > CAP
    <2>1. i \in 1..l /\ rows'[i] = rows[i]
      BY <1>8, <1>14
    <2>2. CASE j = l + 1
      BY <1>5, <1>8, <1>11, <1>14, <2>1, <2>2
    <2>3. CASE j \in 1..l
      BY <1>3, <1>8, <1>14, <2>1, <2>3 DEF DuplicatesRemembered, DuplicatesAreOld
    <2> QED BY <2>2, <2>3
  <1>15. DuplicatesAreOld'
    BY <1>8, <1>14 DEF DuplicatesAreOld
  <1>16. \A i \in 1..(l + 1) : rows'[i].run <= life
    BY <1>3, <1>5, <1>6, <1>8 DEF DuplicatesRemembered
  <1>17. \A i \in 1..Len(rows') : rows'[i].run <= life'
    BY <1>2, <1>8, <1>16
  <1> QED BY <1>2, <1>12, <1>13, <1>15, <1>17 DEF DuplicatesRemembered

\* A replay writes rows of its own, and remembers nothing.
LEMMA ReplayedSample ==
    ASSUME Shape, Shape', DuplicatesRemembered, ReplayStore
    PROVE  DuplicatesRemembered'
  <1>1. Len(rows) \in Nat /\ rows \in Seq(Row) /\ rows' \in Seq(Row) /\ life \in Nat
    BY RowNumbers DEF Shape
  <1>2. PICK l \in Nat : l = Len(rows)
    BY <1>1
  <1>3. PICK c : c = capture[replayed + 1]
    OBVIOUS
  <1>4. PICK r : r = [sample |-> c.sample, at |-> c.at, run |-> Replayed]
    OBVIOUS
  <1>5. /\ mode' = "replay_forward" /\ UNCHANGED <<seen, life>>
        /\ rows' = Append(rows, r)
    BY <1>3, <1>4 DEF ReplayStore, Record
  <1>6. r.run = 0
    BY <1>4 DEF Replayed
  <1>7. Len(rows') = l + 1 /\ rows'[l + 1] = r /\ \A i \in 1..l : rows'[i] = rows[i]
    BY <1>1, <1>2, <1>5
  <1>8. Remembers' /\ PendingMayFollow'
    BY <1>5 DEF Remembers, PendingMayFollow, Live, Writing, Accepting
  <1>9. ASSUME NEW i \in 1..(l + 1), NEW j \in 1..(l + 1), i < j, rows'[i].sample = rows'[j].sample,
               rows'[i].run = rows'[j].run, rows'[i].run # Replayed
        PROVE  rows'[j].at - rows'[i].at >= WINDOW \/ j - i > CAP
    <2>1. j # l + 1
      BY <1>6, <1>7, <1>9 DEF Replayed
    <2>2. i \in 1..l /\ j \in 1..l
      BY <1>9, <2>1
    <2> QED BY <1>2, <1>7, <1>9, <2>2 DEF DuplicatesRemembered, DuplicatesAreOld
  <1>10. DuplicatesAreOld'
    BY <1>7, <1>9 DEF DuplicatesAreOld
  <1>11. \A i \in 1..(l + 1) : rows'[i].run <= life
    BY <1>1, <1>2, <1>6, <1>7, SMTT(40) DEF DuplicatesRemembered
  <1>12. \A i \in 1..Len(rows') : rows'[i].run <= life'
    BY <1>5, <1>7, <1>11
  <1> QED BY <1>5, <1>8, <1>10, <1>12 DEF DuplicatesRemembered

\* A new run, or a replay, starts with rows of earlier runs only.
LEMMA StartedAgain ==
    ASSUME Shape, DuplicatesRemembered, Start \/ StartReplay
    PROVE  DuplicatesRemembered'
  <1>1. /\ life' = life + 1 /\ rows' = rows /\ mode' \in {"ask", "replay"}
        /\ seen' \in {<<>>, seen} /\ life \in Nat
    BY DEF Start, StartReplay, evidence, Shape
  <1>2. \A i \in 1..Len(rows) : rows[i].run \in Nat /\ rows[i].run <= life
    BY RowNumbers DEF DuplicatesRemembered
  <1>3. \A i \in 1..Len(rows) : rows[i].run <= life + 1 /\ rows[i].run # life + 1
    BY <1>1, <1>2
  <1>4. Remembers' /\ PendingMayFollow'
    BY <1>1, <1>3 DEF Remembers, PendingMayFollow, Accepting
  <1>5. DuplicatesAreOld'
    BY <1>1 DEF DuplicatesRemembered, DuplicatesAreOld
  <1>6. seen' \in Seq(Reception)
    <2>1. <<>> \in Seq(Reception) /\ seen \in Seq(Reception)
      BY DEF DuplicatesRemembered
    <2> QED BY <1>1, <2>1, Zenon
  <1>7. \A i \in 1..Len(rows') : rows'[i].run <= life'
    BY <1>1, <1>3
  <1> QED BY <1>4, <1>5, <1>6, <1>7 DEF DuplicatesRemembered

\* Every step keeps what duplicates are recognised by.
LEMMA NextDuplicates ==
    ASSUME Shape, Shape', DuplicatesRemembered, [Next]_vars
    PROVE  DuplicatesRemembered'
  <1>1. now \in Nat
    BY DEF Shape
  <1>2. CASE \/ NodeCollects \/ NodeBeacons \/ FrameLost \/ Tick \/ Ask \/ Answered \/ TimedOut \/ NextPoll
             \/ WriteCapture \/ Forward \/ ReplayForward \/ ReplayEnds \/ Killed \/ UNCHANGED vars
    <2>1. UNCHANGED <<rows, seen, pending, life>>
      BY <1>2 DEF NodeCollects, NodeBeacons, FrameLost, Tick, Ask, Answered, TimedOut, NextPoll,
                  WriteCapture, Forward, ReplayForward, ReplayEnds, Killed, vars, evidence
    <2>2. now' \in {now, now + 1}
      BY <1>2 DEF NodeCollects, NodeBeacons, FrameLost, Tick, Ask, Answered, TimedOut, NextPoll,
                  WriteCapture, Forward, ReplayForward, ReplayEnds, Killed, vars
    <2>3. \/ mode' = mode
          \/ mode' \notin Live
          \/ mode \in Live \ Accepting /\ mode' \in Live \ Accepting
          \/ mode \in Accepting /\ mode' \in Accepting
      BY <1>2 DEF NodeCollects, NodeBeacons, FrameLost, Tick, Ask, Answered, TimedOut, NextPoll,
                  WriteCapture, Forward, ReplayForward, ReplayEnds, Killed, vars, Live, Writing, Accepting
    <2>4. Accepting \subseteq Live
      BY DEF Accepting, Live, Writing
    <2>5. mode' \in Live => mode \in Live /\ (mode' \in Accepting <=> mode \in Accepting)
      BY <2>3, <2>4
    <2>6. now' \in Nat /\ now <= now'
      BY <1>1, <2>2
    <2> QED BY <2>1, <2>5, <2>6, DuplicatesKept
  <1>3. ASSUME NEW f \in net, Receive(f) PROVE DuplicatesRemembered'
    <2>1. mode = "collect" /\ UNCHANGED <<rows, life, now>> /\ f.sample \in Nat
      BY <1>3 DEF Receive, Shape, evidence
    <2>2. CASE Knows(Fresh, f.sample)
      <3>1. seen' = Fresh /\ mode' = "collect" /\ pending' = pending
        BY <1>3, <2>1, <2>2 DEF Receive
      <3> QED BY <2>1, <3>1, RefusedDuplicate
    <2>3. CASE ~Knows(Fresh, f.sample)
      <3>1. /\ seen' = Remember(Fresh, f.sample) /\ mode' = "capture"
            /\ pending' = [sample |-> f.sample, at |-> now]
        BY <1>3, <2>3 DEF Receive
      <3> QED BY <2>1, <2>3, <3>1, AcceptedSample
    <2> QED BY <2>2, <2>3
  <1> QED BY <1>2, <1>3, StoredSample, ReplayedSample, StartedAgain DEF Next, Bridge

\* For every window and number of remembered samples: in one run of the bridge a
\* sample is stored again only when the first is old, or CAP others came between.
THEOREM DuplicatesAreRefused == Spec => []DuplicatesAreOld
  <1>1. Init => DuplicatesRemembered
    BY DEF Init, DuplicatesRemembered, Remembers, PendingMayFollow, DuplicatesAreOld, Accepting
  <1>2. WrittenInOrder => Shape
    BY DEF WrittenInOrder
  <1>3. WrittenInOrder' => Shape'
    BY DEF WrittenInOrder
  <1>4. WrittenInOrder /\ WrittenInOrder' /\ DuplicatesRemembered /\ [Next]_vars => DuplicatesRemembered'
    BY <1>2, <1>3, NextDuplicates
  <1>5. DuplicatesRemembered => DuplicatesAreOld
    BY DEF DuplicatesRemembered
  <1> QED BY <1>1, <1>4, <1>5, AlwaysInOrder, PTL DEF Spec
=============================================================================
