---------------------------- MODULE HostDecoder -----------------------------
(***************************************************************************)
(* The host's decoder, FrameDecoder.feed in tools/spectrum_monitor.py, one *)
(* byte at a time: a translation of its own, not of the firmware's.        *)
(* "yielded" is the sequence number of the chunk the byte yielded, -1 if   *)
(* none.                                                                   *)
(***************************************************************************)
EXTENDS Framing

None == -1

HostCounters == {"frames", "errors", "crc_errors", "format_errors",
                 "overflow_errors", "escape_errors", "resync_events", "lost",
                 "duplicates", "out_of_order"}

\* FrameDecoder.__init__
HostInit ==
    [buffer |-> <<>>, escaped |-> FALSE, dropping |-> FALSE,
     last_sequence |-> None, yielded |-> None,
     count |-> [c \in HostCounters |-> 0]]

Tally(count, which) ==
    [c \in DOMAIN count |-> count[c] + (IF c \in which THEN 1 ELSE 0)]

\* mutant: a duplicate becomes the last sequence number and is lost
HostAccount_LastAlways(h, sequence) ==
    LET delta == Delta(sequence, h.last_sequence)
    IN  IF h.last_sequence = None
        THEN [h EXCEPT !.last_sequence = sequence]
        ELSE [h EXCEPT !.last_sequence = sequence,
                       !.count["lost"] = @ + delta - 1]

HostAccount(h, sequence) ==
    LET delta == Delta(sequence, h.last_sequence)
        first == h.last_sequence = None
        ahead == delta > 0 /\ delta < SEQUENCES \div 2
        count == Tally(h.count, IF first \/ ahead THEN {}
                                ELSE IF delta = 0 THEN {"duplicates"}
                                ELSE {"out_of_order"})
        lost == IF ~first /\ ahead THEN delta - 1 ELSE 0
    IN  [h EXCEPT !.last_sequence = IF first \/ ahead THEN sequence
                                    ELSE h.last_sequence,
                  !.count = [count EXCEPT !["lost"] = @ + lost]]

\* decode_raw: what it raises, or "ok".
HostVerdict(raw) ==
    IF Len(raw) # RAW_LENGTH THEN "format"
    ELSE IF ~PassesCrc(raw) THEN "crc"
    ELSE IF ~WellFormed(raw) THEN "format"
    ELSE "ok"

\* A buffer that is not empty is decoded, and cleared either way.
HostClose(h) ==
    LET verdict == HostVerdict(h.buffer)
        sequence == SequenceOf(h.buffer)
        cleared == [h EXCEPT !.buffer = <<>>]
    IN  CASE verdict = "ok" ->
               [HostAccount(cleared, sequence) EXCEPT
                  !.yielded = sequence, !.count = Tally(@, {"frames"})]
          [] verdict = "crc" ->
               [cleared EXCEPT !.count =
                  Tally(@, {"errors", "crc_errors", "resync_events"})]
          [] verdict = "format" ->
               [cleared EXCEPT !.count =
                  Tally(@, {"errors", "format_errors", "resync_events"})]

HostDelimiter(h) ==
    IF h.escaped
    THEN [h EXCEPT !.escaped = FALSE, !.buffer = <<>>,
                   !.count = Tally(@, {"errors", "escape_errors",
                                       "resync_events"})]
    ELSE IF h.dropping
    THEN [h EXCEPT !.dropping = FALSE, !.buffer = <<>>,
                   !.count = Tally(@, {"resync_events"})]
    ELSE IF h.buffer = <<>> THEN h
    ELSE HostClose(h)

HostDrop(h, why) == [h EXCEPT !.dropping = TRUE, !.escaped = FALSE,
                              !.buffer = <<>>,
                              !.count = Tally(@, {"errors", why})]

\* Only a byte that was not escaped is checked against the length.
HostContent(h, byte) ==
    IF h.dropping THEN h
    ELSE IF h.escaped
    THEN IF byte \in Escapes
         THEN [h EXCEPT !.buffer = Append(@, Flip(byte)), !.escaped = FALSE]
         ELSE HostDrop(h, "escape_errors")
    ELSE IF byte = "ESC" THEN [h EXCEPT !.escaped = TRUE]
    ELSE IF Len(h.buffer) < RAW_LENGTH
    THEN [h EXCEPT !.buffer = Append(@, byte)]
    ELSE HostDrop(h, "overflow_errors")

\* FrameDecoder.feed
HostFeed(h, byte) ==
    LET quiet == [h EXCEPT !.yielded = None]
    IN  IF byte = "SOF" THEN HostDelimiter(quiet) ELSE HostContent(quiet, byte)

=============================================================================
