---------------------------- MODULE FrameDecoder ----------------------------
(***************************************************************************)
(* The firmware's decoder, telemetry_decoder_feed in core/telemetry.c: a   *)
(* pure function of the decoder and one byte.  "frame" is the sequence     *)
(* number of the chunk the last byte completed, -1 if it completed none.   *)
(***************************************************************************)
EXTENDS Framing

NoSequence == -1

DecoderStats == {"frames_ok", "crc_errors", "format_errors",
                 "overflow_errors", "escape_errors", "resync_events",
                 "sequence_lost", "sequence_duplicates",
                 "sequence_out_of_order"}

\* telemetry_decoder_init
DecoderInit ==
    [body |-> <<>>, escaped |-> FALSE, dropping |-> FALSE,
     last_sequence |-> NoSequence, frame |-> NoSequence,
     stats |-> [s \in DecoderStats |-> 0]]

\* Increments some counters by one.
Count(stats, which) ==
    [s \in DOMAIN stats |-> stats[s] + (IF s \in which THEN 1 ELSE 0)]

\* mutant: a delta of one half of the range still counts as a step forward
Account_NoHalf(d, sequence) ==
    LET delta == Delta(sequence, d.last_sequence)
    IN  IF d.last_sequence = NoSequence
        THEN [d EXCEPT !.last_sequence = sequence]
        ELSE IF delta = 0
        THEN [d EXCEPT !.stats = Count(@, {"sequence_duplicates"})]
        ELSE [d EXCEPT !.last_sequence = sequence,
                       !.stats["sequence_lost"] = @ + delta]

\* A good frame against the last one: repeated, ahead, or behind.
Account(d, sequence) ==
    LET delta == Delta(sequence, d.last_sequence)
    IN  IF d.last_sequence = NoSequence
        THEN [d EXCEPT !.last_sequence = sequence]
        ELSE IF delta = 0
        THEN [d EXCEPT !.stats = Count(@, {"sequence_duplicates"})]
        ELSE IF delta < SEQUENCES \div 2
        THEN [d EXCEPT !.last_sequence = sequence,
                       !.stats["sequence_lost"] = @ + delta - 1]
        ELSE [d EXCEPT !.stats = Count(@, {"sequence_out_of_order"})]

\* decode_body: the checks of a body, in their order.
Verdict(body) ==
    IF Len(body) # RAW_LENGTH THEN "format"
    ELSE IF ~PassesCrc(body) THEN "crc"
    ELSE IF ~WellFormed(body) THEN "format"
    ELSE "ok"

\* A delimiter ends the body collected so far.
CloseFrame(d) ==
    LET verdict == Verdict(d.body)
        closed == [d EXCEPT !.body = <<>>]
        sequence == SequenceOf(d.body)
    IN  CASE verdict = "ok" ->
               [Account(closed, sequence) EXCEPT
                  !.frame = sequence, !.stats = Count(@, {"frames_ok"})]
          [] verdict = "crc" ->
               [closed EXCEPT
                  !.stats = Count(@, {"crc_errors", "resync_events"})]
          [] verdict = "format" ->
               [closed EXCEPT
                  !.stats = Count(@, {"format_errors", "resync_events"})]

Delimiter(d) ==
    IF d.escaped
    THEN [d EXCEPT !.escaped = FALSE, !.body = <<>>,
                   !.stats = Count(@, {"escape_errors", "resync_events"})]
    ELSE IF d.dropping
    THEN [d EXCEPT !.dropping = FALSE, !.body = <<>>,
                   !.stats = Count(@, {"resync_events"})]
    ELSE IF d.body = <<>> THEN d
    ELSE CloseFrame(d)

\* The rest of the frame is dropped up to the next delimiter.
Drop(d, why) == [d EXCEPT !.dropping = TRUE, !.escaped = FALSE,
                          !.body = <<>>, !.stats = Count(@, {why})]

\* mutant: the body may grow by one byte too many
Store_OffByOne(d, byte) ==
    IF Len(d.body) > RAW_LENGTH THEN Drop(d, "overflow_errors")
    ELSE [d EXCEPT !.escaped = FALSE, !.body = Append(@, byte)]

Store(d, byte) ==
    IF Len(d.body) >= RAW_LENGTH THEN Drop(d, "overflow_errors")
    ELSE [d EXCEPT !.escaped = FALSE, !.body = Append(@, byte)]

\* A byte that is not a delimiter.
Content(d, byte) ==
    IF d.dropping THEN d
    ELSE IF d.escaped
    THEN IF byte \in Escapes THEN Store(d, Flip(byte))
                             ELSE Drop(d, "escape_errors")
    ELSE IF byte = "ESC" THEN [d EXCEPT !.escaped = TRUE]
    ELSE Store(d, byte)

\* telemetry_decoder_feed
Feed(d, byte) ==
    LET quiet == [d EXCEPT !.frame = NoSequence]
    IN  IF byte = "SOF" THEN Delimiter(quiet) ELSE Content(quiet, byte)

=============================================================================
