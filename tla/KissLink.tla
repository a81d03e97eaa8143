------------------------------ MODULE KissLink ------------------------------
(***************************************************************************)
(* KISS framing on the ground link (tools/ground/hk-bridge.py): frames are *)
(* encoded by kiss_encode(), byte after byte, and read back by KissReader  *)
(* over a line that loses, changes and invents bytes.                      *)
(*                                                                         *)
(* The bytes that the code tells apart are FEND, FESC, TFEND, TFESC and    *)
(* TNC_DATA; every other one is an element of Plain.                       *)
(***************************************************************************)
EXTENDS Integers, Sequences

CONSTANTS
    Plain,            \* bytes without a meaning of their own
    LIMIT,            \* csp_header_bytes() + HK_SAMPLE_MAX + 8
    MaxLen,           \* bound: the longest frame a peer sends
    MaxDamage         \* bound: bytes lost, changed or invented

Control == {"FEND", "FESC", "TFEND", "TFESC", "TNC_DATA"}
Byte == Control \cup Plain
None == "none"

ASSUME LinkAssumption ==
    /\ LIMIT \in Nat \ {0} /\ MaxLen \in Nat \ {0} /\ MaxDamage \in Nat
    /\ Control \cap Plain = {} /\ None \notin Plain

VARIABLES
    phase,            \* the sender: "idle", "type", "body", "escape" or "sent"
    frame,            \* the frame being sent
    pos,              \* bytes of it that have been sent
    intact,           \* every byte since its opening FEND arrived, nothing else did
    clean,            \* no byte has ever been damaged
    damage,
    rframe, started, escaped, skip_type_byte,     \* KissReader
    out               \* the frame that the last byte completed, or <<>>

sender == <<phase, frame, pos>>
reader == <<rframe, started, escaped, skip_type_byte, out>>
line == <<intact, clean, damage>>
linkVars == <<sender, reader, line>>

LinkInit ==
    /\ phase = "idle" /\ frame = <<>> /\ pos = 0
    /\ intact = FALSE /\ clean = TRUE /\ damage = 0
    /\ rframe = <<>> /\ started = FALSE /\ escaped = FALSE
    /\ skip_type_byte = FALSE /\ out = <<>>

----------------------------------------------------------------------------
(* KissReader.feed(), one byte of the data. *)

\* A FEND ends one frame and starts the next.
FeedEnd ==
    /\ out' = IF started /\ ~escaped THEN rframe ELSE <<>>
    /\ rframe' = <<>>
    /\ started' = TRUE
    /\ escaped' = FALSE
    /\ skip_type_byte' = TRUE

FeedIgnored ==
    /\ ~started
    /\ out' = <<>>
    /\ UNCHANGED <<rframe, started, escaped, skip_type_byte>>

FeedType(b) ==
    /\ started /\ skip_type_byte
    /\ skip_type_byte' = FALSE
    /\ started' = (b = "TNC_DATA")
    /\ out' = <<>>
    /\ UNCHANGED <<rframe, escaped>>

FeedEscape ==
    /\ started /\ ~skip_type_byte /\ ~escaped
    /\ escaped' = TRUE
    /\ out' = <<>>
    /\ UNCHANGED <<rframe, started, skip_type_byte>>

\* An escape followed by anything else: discard to the next FEND.  The flag is
\* left set; the FEND clears it.
FeedBadEscape(b) ==
    /\ started /\ ~skip_type_byte /\ escaped
    /\ b \notin {"TFEND", "TFESC"}
    /\ started' = FALSE
    /\ rframe' = <<>>
    /\ out' = <<>>
    /\ UNCHANGED <<escaped, skip_type_byte>>

Unescape(b) == IF b = "TFEND" THEN "FEND" ELSE "FESC"

\* Plausible defects: the length is looked at before the byte is added; a byte too
\* many is dropped and the frame goes on.
Grown_late(f) == [ok |-> Len(rframe) <= LIMIT, frame |-> f]
Grown_truncates(f) == [ok |-> TRUE, frame |-> IF Len(f) <= LIMIT THEN f ELSE rframe]

\* The length check that follows every byte that was added.
Grown(f) == IF Len(f) <= LIMIT THEN [ok |-> TRUE, frame |-> f] ELSE [ok |-> FALSE, frame |-> <<>>]

FeedData(b) ==
    /\ started /\ ~skip_type_byte
    /\ \/ escaped /\ b \in {"TFEND", "TFESC"}
       \/ ~escaped /\ b # "FESC"
    /\ LET grown == Grown(Append(rframe, IF escaped THEN Unescape(b) ELSE b))
       IN  rframe' = grown.frame /\ started' = grown.ok
    /\ escaped' = FALSE
    /\ out' = <<>>
    /\ UNCHANGED skip_type_byte

feed(b) ==
    \/ b = "FEND" /\ FeedEnd
    \/ b # "FEND" /\ (FeedIgnored \/ FeedType(b) \/ FeedBadEscape(b) \/ FeedData(b))
    \/ b = "FESC" /\ FeedEscape

----------------------------------------------------------------------------
(* The line: a byte arrives, is lost, is changed, or was never sent. *)

Arrives(b, whole) ==
    /\ feed(b)
    /\ intact' = whole
    /\ UNCHANGED <<clean, damage>>

Damaged(b) ==
    /\ damage < MaxDamage
    /\ damage' = damage + 1
    /\ \/ UNCHANGED <<rframe, started, escaped, skip_type_byte>> /\ out' = <<>>
       \/ \E other \in Byte \ {b} : feed(other)
    /\ intact' = FALSE /\ clean' = FALSE

Transmit(b, whole) == Arrives(b, whole) \/ Damaged(b)

Noise ==
    /\ damage < MaxDamage
    /\ damage' = damage + 1
    /\ \E b \in Byte : feed(b)
    /\ intact' = FALSE /\ clean' = FALSE
    /\ UNCHANGED sender

----------------------------------------------------------------------------
(* kiss_encode(), one byte of its output after another. *)

Frames == UNION {[1..n -> Byte] : n \in 0..MaxLen}

EncodeStart ==
    /\ phase = "idle"
    /\ frame' \in Frames
    /\ phase' = "type" /\ pos' = 0
    /\ Transmit("FEND", TRUE)

EncodeType ==
    /\ phase = "type"
    /\ phase' = "body"
    /\ Transmit("TNC_DATA", intact)
    /\ UNCHANGED <<frame, pos>>

EncodePlain ==
    /\ phase = "body" /\ pos < Len(frame)
    /\ frame[pos + 1] \notin {"FEND", "FESC"}
    /\ pos' = pos + 1
    /\ Transmit(frame[pos + 1], intact)
    /\ UNCHANGED <<phase, frame>>

EncodeEscape ==
    /\ phase = "body" /\ pos < Len(frame)
    /\ frame[pos + 1] \in {"FEND", "FESC"}
    /\ phase' = "escape"
    /\ Transmit("FESC", intact)
    /\ UNCHANGED <<frame, pos>>

\* A plausible defect: the two escaped bytes are swapped.
Escaped_swapped(b) == IF b = "FEND" THEN "TFESC" ELSE "TFEND"
Escaped(b) == IF b = "FEND" THEN "TFEND" ELSE "TFESC"

EncodeEscaped ==
    /\ phase = "escape"
    /\ phase' = "body" /\ pos' = pos + 1
    /\ Transmit(Escaped(frame[pos + 1]), intact)
    /\ UNCHANGED frame

EncodeEnd ==
    /\ phase = "body" /\ pos = Len(frame)
    /\ phase' = "sent"
    /\ Transmit("FEND", intact)
    /\ UNCHANGED <<frame, pos>>

\* The frame has been written; the link waits for the next one.
Flush ==
    /\ phase = "sent"
    /\ phase' = "idle" /\ frame' = <<>> /\ pos' = 0 /\ out' = <<>>
    /\ UNCHANGED <<rframe, started, escaped, skip_type_byte, line>>

Phases == {"idle", "type", "body", "escape", "sent"}

LinkNext ==
    \/ EncodeStart \/ EncodeType \/ EncodePlain
    \/ EncodeEscape \/ EncodeEscaped \/ EncodeEnd
    \/ Flush
    \/ Noise

LinkSpec == LinkInit /\ [][LinkNext]_linkVars

----------------------------------------------------------------------------
(* Properties. *)

\* Type correctness of the sender and the reader.  The reader's buffer never holds
\* more than LIMIT bytes, whatever the line delivers.
LinkTypeOK ==
    /\ phase \in Phases
    /\ frame \in Seq(Byte) /\ Len(frame) <= MaxLen
    /\ pos \in 0..Len(frame)
    /\ intact \in BOOLEAN /\ clean \in BOOLEAN
    /\ damage \in 0..MaxDamage
    /\ rframe \in Seq(Byte) /\ Len(rframe) <= LIMIT
    /\ started \in BOOLEAN /\ escaped \in BOOLEAN /\ skip_type_byte \in BOOLEAN
    /\ out \in Seq(Byte) /\ Len(out) <= LIMIT

\* A frame whose bytes all arrive is delivered as it was sent, whatever damage the
\* reader met before its opening FEND; one that is too long is dropped whole.
IntactFrameDelivered ==
    phase = "sent" /\ intact =>
        out = IF Len(frame) <= LIMIT THEN frame ELSE <<>>

\* A line that damaged nothing delivers only what was sent, and only at its end.
NothingInvented == clean /\ out # <<>> => phase = "sent" /\ out = frame

----------------------------------------------------------------------------
(* The inductive invariant: while the frame is intact the reader has exactly *)
(* what the sender has sent of it.                                           *)

Prefix == IF pos <= LIMIT THEN SubSeq(frame, 1, pos) ELSE <<>>

InStep ==
    /\ phase \in {"type", "body", "escape"} => pos <= Len(frame)
    /\ phase = "escape" => pos < Len(frame) /\ frame[pos + 1] \in {"FEND", "FESC"}
    /\ intact /\ phase = "type" => /\ started /\ skip_type_byte /\ ~escaped
                                   /\ rframe = <<>> /\ pos = 0
    /\ intact /\ phase \in {"body", "escape"} =>
           /\ ~skip_type_byte
           /\ started <=> pos <= LIMIT
           /\ rframe = Prefix
           /\ started => (escaped <=> phase = "escape")
    /\ clean => /\ phase \in {"idle", "sent"} => rframe = <<>>
                /\ phase # "idle" => intact
=============================================================================
