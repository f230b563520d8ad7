--------------------------- MODULE TelemetryLine ----------------------------
(***************************************************************************)
(* The telemetry protocol from end to end: the frames telemetry_task sends *)
(* go byte by byte over a serial line that may lose, change or insert a    *)
(* byte, and both decoders, the firmware's and the host's, read the same   *)
(* bytes.  The sender may cut a frame off (HAL_UART_AbortTransmit) and     *)
(* then uses its sequence number again, and the board may be reset.        *)
(***************************************************************************)
EXTENDS FrameDecoder, HostDecoder

CONSTANTS
    FIRST,        \* sequence number of the first frame
    MaxFrames,    \* bound: frames sent
    MaxFaults     \* bound: faults of the line, aborts and resets

ASSUME LineAssumption ==
    /\ FIRST \in 0 .. SEQUENCES - 1
    /\ MaxFrames \in Nat /\ MaxFaults \in Nat

VARIABLES
    sequence,     \* of the frame being sent
    position,     \* bytes of it already sent
    retrying,     \* the frame before was cut off
    started,      \* frames begun, those begun again not counted
    faults,
    clean,        \* no fault since this frame's first delimiter
    restarted,    \* the board has restarted and numbered from 0 again
    decoder,      \* telemetry_decoder_t
    host,         \* the host's FrameDecoder
    heard         \* history: which of the frames begun have been decoded

vars == <<sequence, position, retrying, started, faults, clean, restarted,
          decoder, host, heard>>

\* mutant: the escape byte itself is not escaped
EscapeByte_SofOnly(byte) ==
    IF byte = "SOF" THEN <<"ESC", Flip(byte)>> ELSE <<byte>>

\* append_escaped
EscapeByte(byte) ==
    IF byte \in Reserved THEN <<"ESC", Flip(byte)>> ELSE <<byte>>

\* Every byte may need an escape.
MAX_FRAME == 2 * RAW_LENGTH + 2

\* The loop over the bytes of a body: what has been appended after each of them.
Escaped(body) ==
    LET appended[k \in 0 .. Len(body)] ==
            IF k = 0 THEN <<>> ELSE appended[k - 1] \o EscapeByte(body[k])
    IN  appended

\* The framing of telemetry_encode_spectrum_chunk, which gives up when the output
\* is too small; the contents are in Body.
Encode(body) ==
    LET escaped == Escaped(body)[Len(body)]
    IN  IF Len(escaped) + 2 > MAX_FRAME THEN <<>>
        ELSE <<"SOF">> \o escaped \o <<"SOF">>

Frame == Encode(Body[sequence])

TypeOK ==
    /\ sequence \in 0 .. SEQUENCES - 1
    /\ position \in 0 .. Len(Frame) - 1
    /\ retrying \in BOOLEAN
    /\ started \in 0 .. MaxFrames
    /\ faults \in 0 .. MaxFaults
    /\ clean \in BOOLEAN /\ restarted \in BOOLEAN
    /\ decoder.body \in Seq(Bytes) /\ host.buffer \in Seq(Bytes)
    /\ Len(decoder.body) <= RAW_LENGTH
    /\ heard \in [first : Int, newest : Int, outage : BOOLEAN]

Init ==
    /\ sequence = FIRST /\ position = 0 /\ retrying = FALSE
    /\ started = 0 /\ faults = 0
    /\ clean = TRUE /\ restarted = FALSE
    /\ decoder = DecoderInit /\ host = HostInit
    /\ heard = [first |-> -1, newest |-> -1, outage |-> FALSE]

-----------------------------------------------------------------------------
Accepts == decoder'.stats["frames_ok"] # decoder.stats["frames_ok"]

\* Which frame a number stands for: the last begun with it, counted from 0.
Ordinal(number) ==
    (started' - 1) - Delta((FIRST + (started' - 1)) % SEQUENCES, number)

\* The history of the frames decoded, the kth now: the first and the newest, and
\* whether half of all numbers have gone by between two of them.
Note(h, k) ==
    [first  |-> IF h.newest < 0 THEN k ELSE h.first,
     newest |-> IF k > h.newest THEN k ELSE h.newest,
     outage |-> h.outage \/ (h.newest >= 0 /\ k - h.newest >= SEQUENCES \div 2)]

Receive(byte) ==
    /\ decoder' = Feed(decoder, byte) /\ host' = HostFeed(host, byte)
    /\ heard' = IF Accepts /\ ~restarted THEN Note(heard, Ordinal(decoder'.frame))
                                        ELSE heard

\* The sender moves on to the next byte, or to the next frame.
Advance(number) ==
    IF position + 1 < Len(Frame)
    THEN position' = position + 1 /\ UNCHANGED sequence
    ELSE position' = 0 /\ sequence' = number

Sending == position > 0 \/ retrying \/ started < MaxFrames

Send == /\ Sending
        /\ started' = started + IF position = 0 /\ ~retrying THEN 1 ELSE 0
        /\ retrying' = FALSE
        /\ Advance((sequence + 1) % SEQUENCES)

SendByte ==
    /\ Send
    /\ Receive(Frame[position + 1])
    /\ clean' = (clean \/ position = 0)
    /\ UNCHANGED <<faults, restarted>>

Fault == faults < MaxFaults /\ faults' = faults + 1

LoseByte ==
    /\ Send /\ Fault
    /\ clean' = FALSE
    /\ UNCHANGED <<restarted, decoder, host, heard>>

ChangeByte ==
    /\ Send /\ Fault
    /\ \E byte \in Bytes \ {Frame[position + 1]} : Receive(byte)
    /\ clean' = FALSE
    /\ UNCHANGED restarted

\* Noise, also between two frames.
InsertByte ==
    /\ Fault
    /\ UNCHANGED <<sequence, position, retrying, started, restarted>>
    /\ \E byte \in Bytes : Receive(byte)
    /\ clean' = FALSE

\* mutant: a frame that is cut off uses up its number
AbortFrame_NextNumber ==
    /\ Fault
    /\ position > 0
    /\ position' = 0 /\ retrying' = TRUE
    /\ sequence' = (sequence + 1) % SEQUENCES
    /\ clean' = FALSE
    /\ UNCHANGED <<started, restarted, decoder, host, heard>>

\* platform_uart_write_dma times out: the frame is cut off and its number kept.
AbortFrame ==
    /\ Fault
    /\ position > 0
    /\ position' = 0 /\ retrying' = TRUE
    /\ clean' = FALSE
    /\ UNCHANGED <<sequence, started, restarted, decoder, host, heard>>

\* The watchdog or the user resets the board.
ResetBoard ==
    /\ Fault
    /\ sequence' = 0 /\ position' = 0 /\ retrying' = FALSE
    /\ clean' = FALSE /\ restarted' = TRUE
    /\ UNCHANGED <<started, decoder, host, heard>>

Finished == ~Sending /\ UNCHANGED vars

Next == SendByte \/ LoseByte \/ ChangeByte \/ InsertByte \/ AbortFrame
            \/ ResetBoard \/ Finished

Spec == Init /\ [][Next]_vars

-----------------------------------------------------------------------------
(* Properties.                                                             *)

\* docs/protocol.md:63: "A bad frame cannot contaminate the next delimiter-
\* bounded frame."  In whatever state the bytes before have left a decoder, a
\* frame that arrives whole is decoded, by both.
EndsFrame == position = Len(Frame) - 1

WholeFrameDecoded ==
    [][SendByte /\ EndsFrame /\ clean =>
          decoder'.frame = sequence /\ host'.yielded = sequence]_vars

\* The two decoders, written in two languages, agree on every byte stream about
\* the frames and what became of the missing ones.
DecodersAgree ==
    /\ decoder.frame = host.yielded
    /\ decoder.last_sequence = host.last_sequence
    /\ decoder.stats["frames_ok"] = host.count["frames"]
    /\ decoder.stats["sequence_lost"] = host.count["lost"]
    /\ decoder.stats["sequence_duplicates"] = host.count["duplicates"]
    /\ decoder.stats["sequence_out_of_order"] = host.count["out_of_order"]
    /\ decoder.stats["crc_errors"] = host.count["crc_errors"]

BegunBefore == \E j \in 0 .. started' - 1 :
                  /\ decoder'.frame = (FIRST + j) % SEQUENCES
                  /\ started' - j <= SEQUENCES \div 2

Unforged == ~restarted' /\ Accepts /\ ~(SendByte /\ EndsFrame /\ clean) => BegunBefore

\* What the CRC and the keeping of a number are for: while the board runs, a frame
\* that did not arrive whole is accepted only as one that was begun, and not so
\* long ago that its number could be taken for a new one (telemetry.c:112-114,
\* tasks.c:225-232).
NothingForged == [][Unforged]_vars

\* docs/protocol.md:61, "true sequence loss": while the board runs, the frames
\* counted as lost are exactly those begun since the first that was decoded and
\* missing before the newest, whatever was cut off, sent again or decoded twice.
\* After an outage of half of all numbers they are not more than those.
LossIsTrue ==
    ~restarted /\ decoder.last_sequence # NoSequence =>
        LET decoded == decoder.stats["frames_ok"]
                         - decoder.stats["sequence_duplicates"]
                         - decoder.stats["sequence_out_of_order"]
            missing == (heard.newest - heard.first) + 1 - decoded
        IN  IF heard.outage THEN decoder.stats["sequence_lost"] <= missing
                            ELSE decoder.stats["sequence_lost"] = missing

\* docs/protocol.md:60: "The firmware and Python decoders bound input length".
\* Python appends an escaped byte without looking at the length.
HostBounded == Len(host.buffer) <= RAW_LENGTH

=============================================================================
