---------------------------- MODULE ChunkLayout -----------------------------
(***************************************************************************)
(* The raw bytes of a chunk: telemetry_encode_spectrum_chunk writes them   *)
(* before they are framed, decode_body (core/telemetry.c) and decode_raw   *)
(* (tools/spectrum_monitor.py) read them after.  The firmware names        *)
(* offsets, the host a struct format; each has its own table here.         *)
(*                                                                         *)
(* A byte is a number below BYTE.  The CRC at the end is in Framing.  The  *)
(* host's scaling to floats is left out.                                   *)
(***************************************************************************)
EXTENDS Integers, Sequences, FiniteSetsExt

CONSTANTS
    BYTE,                \* 256
    CHANNELS, CHUNKS,    \* ANALYZER_CHANNELS, ANALYZER_CHUNKS_PER_CHANNEL
    BINS_PER_CHUNK, PREVIEW_PER_CHUNK,
    MAGNITUDE_STEP       \* 128: one unit of a compressed magnitude

VERSION == 2
TYPE_SPECTRUM == 1
HEADER_LENGTH == 42
RAW_BYTES == HEADER_LENGTH + BINS_PER_CHUNK + 2 * PREVIEW_PER_CHUNK
PAYLOAD_LENGTH == RAW_BYTES - 6

ASSUME LayoutAssumption ==
    /\ BYTE \in Nat /\ BYTE > VERSION /\ BYTE % 2 = 0
    /\ CHANNELS \in 1 .. BYTE /\ CHUNKS \in 1 .. BYTE - 1
    /\ {BINS_PER_CHUNK, PREVIEW_PER_CHUNK, MAGNITUDE_STEP} \subseteq Nat \ {0}
    /\ CHUNKS * BINS_PER_CHUNK < BYTE * BYTE
    /\ RAW_BYTES < BYTE * BYTE

\* Field -> offset and width, as the firmware writes and reads it.
Place ==
    [version |-> <<0, 1>>, type |-> <<1, 1>>, payload_length |-> <<2, 2>>,
     sequence |-> <<4, 2>>, timestamp_us |-> <<6, 4>>, status |-> <<10, 4>>,
     channel |-> <<14, 1>>, chunk_index |-> <<15, 1>>, chunk_count |-> <<16, 1>>,
     reserved |-> <<17, 1>>, sample_rate_hz |-> <<18, 4>>,
     bin_start |-> <<22, 2>>, bin_count |-> <<24, 2>>, rms_q15 |-> <<26, 2>>,
     peak_q15 |-> <<28, 2>>, dominant_millihz |-> <<30, 4>>,
     processing_us |-> <<34, 4>>, dropped_blocks |-> <<38, 4>>]

-----------------------------------------------------------------------------
(* telemetry_encode_spectrum_chunk.                                        *)

\* put_u16, put_u32: the lowest byte first.
Weight == <<1, BYTE, BYTE * BYTE, BYTE * BYTE * BYTE>>
Digit(value, n) == (value \div Weight[n + 1]) % BYTE

\* (uint16_t) of an int16_t.
Cast16(value) == value % (BYTE * BYTE)

\* mutant: the compressed magnitude wraps
Compressed_Wraps(magnitude) ==
    ((magnitude + MAGNITUDE_STEP \div 2) \div MAGNITUDE_STEP) % BYTE

\* Rounded to the step, and saturated.
Compressed(magnitude) ==
    LET steps == (magnitude + MAGNITUDE_STEP \div 2) \div MAGNITUDE_STEP
    IN  IF steps > BYTE - 1 THEN BYTE - 1 ELSE steps

Header(sequence, result, channel, chunk_index) ==
    LET source == result.channel[channel]
    IN  [version |-> VERSION, type |-> TYPE_SPECTRUM,
         payload_length |-> PAYLOAD_LENGTH, sequence |-> sequence,
         timestamp_us |-> result.timestamp_us, status |-> result.status,
         channel |-> channel, chunk_index |-> chunk_index, chunk_count |-> CHUNKS,
         reserved |-> 0, sample_rate_hz |-> result.sample_rate_hz,
         bin_start |-> chunk_index * BINS_PER_CHUNK, bin_count |-> BINS_PER_CHUNK,
         rms_q15 |-> source.rms_q15, peak_q15 |-> source.peak_q15,
         dominant_millihz |-> source.dominant_millihz,
         processing_us |-> result.processing_us,
         dropped_blocks |-> result.dropped_blocks]

FieldAt == [i \in 0 .. HEADER_LENGTH - 1 |->
              CHOOSE f \in DOMAIN Place :
                i \in Place[f][1] .. Place[f][1] + Place[f][2] - 1]

PreviewByte(source, chunk_index, i) ==
    Digit(Cast16(source.preview_q15[chunk_index * PREVIEW_PER_CHUNK + i \div 2]),
          i % 2)

\* The bytes of the header, of the magnitudes and of the preview.
Encoded(sequence, result, channel, chunk_index) ==
    LET source == result.channel[channel]
        header == Header(sequence, result, channel, chunk_index)
        bin_start == chunk_index * BINS_PER_CHUNK
    IN  [n \in 1 .. HEADER_LENGTH |->
           LET field == FieldAt[n - 1]
           IN  Digit(header[field], n - 1 - Place[field][1])]
        \o [n \in 1 .. BINS_PER_CHUNK |->
              Compressed(source.magnitude_q15[bin_start + n - 1])]
        \o [n \in 1 .. 2 * PREVIEW_PER_CHUNK |->
              PreviewByte(source, chunk_index, n - 1)]

-----------------------------------------------------------------------------
(* The two decoders of the raw bytes.                                      *)

\* get_u16, get_u32; offsets count from 0.
get_u8(raw, offset) == raw[offset + 1]
get_u16(raw, offset) == get_u8(raw, offset) + BYTE * get_u8(raw, offset + 1)
get_u32(raw, offset) ==
    get_u16(raw, offset) + BYTE * BYTE * get_u16(raw, offset + 2)

Unsigned(raw, offset, width) ==
    CASE width = 1 -> get_u8(raw, offset)
      [] width = 2 -> get_u16(raw, offset)
      [] width = 4 -> get_u32(raw, offset)

\* (int16_t) of a uint16_t.
Signed(value) == IF value < (BYTE * BYTE) \div 2 THEN value
                 ELSE value - BYTE * BYTE

Magnitudes(raw) == [i \in 0 .. BINS_PER_CHUNK - 1 |-> get_u8(raw, HEADER_LENGTH + i)]

Preview(raw) ==
    [i \in 0 .. PREVIEW_PER_CHUNK - 1 |->
       Signed(get_u16(raw, HEADER_LENGTH + BINS_PER_CHUNK + 2 * i))]

BadFormat == [format |-> "bad"]

\* Both check the same fields, in another order.
WellFormedHeader(header) ==
    /\ header.version = VERSION /\ header.type = TYPE_SPECTRUM
    /\ header.payload_length = PAYLOAD_LENGTH /\ header.reserved = 0
    /\ header.channel < CHANNELS /\ header.chunk_count = CHUNKS
    /\ header.chunk_index < CHUNKS
    /\ header.bin_count = BINS_PER_CHUNK
    /\ header.bin_start = header.chunk_index * BINS_PER_CHUNK

Chunk(header, raw) ==
    IF WellFormedHeader(header)
    THEN [header |-> header, magnitudes |-> Magnitudes(raw), preview |-> Preview(raw)]
    ELSE BadFormat

decode_body(raw) ==
    Chunk([f \in DOMAIN Place |-> Unsigned(raw, Place[f][1], Place[f][2])], raw)

\* HEADER, "<BBHHIIBBBBIHHHHIII": names and widths in their order.
HostNames == <<"version", "type", "payload_length", "sequence", "timestamp_us",
               "status", "channel", "chunk_index", "chunk_count", "reserved",
               "sample_rate_hz", "bin_start", "bin_count", "rms_q15", "peak_q15",
               "dominant_millihz", "processing_us", "dropped_blocks">>
HostWidths == <<1, 1, 2, 2, 4, 4, 1, 1, 1, 1, 4, 2, 2, 2, 2, 4, 4, 4>>
HostIndex == [f \in DOMAIN Place |-> CHOOSE n \in DOMAIN HostNames : HostNames[n] = f]
HostOffset[n \in DOMAIN HostWidths] ==
    IF n = 1 THEN 0 ELSE HostOffset[n - 1] + HostWidths[n - 1]

decode_raw(raw) ==
    Chunk([f \in DOMAIN Place |-> Unsigned(raw, HostOffset[HostIndex[f]],
                                           HostWidths[HostIndex[f]])],
          raw)

=============================================================================
