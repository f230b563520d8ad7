------------------------- MODULE SpectrumAssembler -------------------------
(***************************************************************************)
(* How the host puts spectra together (SpectrumAssembler.push in           *)
(* tools/spectrum_monitor.py): every result of the board arrives as CHUNKS *)
(* chunks for each of CHANNELS channels, some of which the line has lost,  *)
(* and at most MAX_PENDING_SPECTRA spectra are under assembly at a time.   *)
(*                                                                         *)
(* A result is abstracted to its number.  A chunk carries its timestamp,   *)
(* its channel, its place and the seven fields that all chunks of a        *)
(* spectrum share, here one value, Metadata of the result.  Results are    *)
(* never sent twice and in order, but a board that restarts also restarts  *)
(* the clock it takes timestamps from.                                     *)
(***************************************************************************)
EXTENDS Integers, SequencesExt

CONSTANTS
    CHANNELS, CHUNKS,      \* chunks of a channel
    MAX_PENDING_SPECTRA,
    Metadata,              \* result -> the fields its chunks share
    MaxResults             \* bound: results sent

ASSUME AssemblerAssumption ==
    /\ CHANNELS \in Nat \ {0} /\ CHUNKS \in Nat \ {0}
    /\ MAX_PENDING_SPECTRA \in Nat \ {0}
    /\ MaxResults \in Nat
    /\ DOMAIN Metadata = 1 .. MaxResults

VARIABLES
    (* the board *)
    result,        \* the result being sent
    timestamp,     \* its timestamp_us
    channel, index, \* the chunk sent next
    (* the host *)
    pending,       \* the dictionary, in its order of insertion
    spectrum,      \* what the last push returned, NoSpectrum if nothing
    incomplete_evictions, duplicate_chunks, inconsistent_chunks,
    (* history *)
    restarted,     \* the board has restarted
    arrived,       \* chunks of this channel of the result that arrived
    open           \* spectra of which a chunk arrived, less those returned

board == <<result, timestamp, channel, index, restarted>>
counters == <<incomplete_evictions, duplicate_chunks, inconsistent_chunks>>
vars == <<board, pending, spectrum, counters, arrived, open>>

Chunks == 0 .. CHUNKS - 1
Channels == 0 .. CHANNELS - 1
NoSpectrum == <<>>
Key == <<timestamp, channel>>

\* A part is named by the result and the channel it belongs to.
Parts == UNION {[s -> (1 .. MaxResults) \X Channels] : s \in SUBSET Chunks}

Entries == [key : (0 .. MaxResults) \X Channels, parts : Parts]

\* The dictionary has each key once and no spectrum in it is complete.
TypeOK ==
    /\ result \in 1 .. MaxResults + 1 /\ timestamp \in 0 .. MaxResults
    /\ channel \in Channels /\ index \in Chunks
    /\ pending \in Seq(Entries)
    /\ \A i, j \in DOMAIN pending : pending[i].key = pending[j].key => i = j
    /\ \A i \in DOMAIN pending : DOMAIN pending[i].parts # Chunks
    /\ spectrum \in Parts
    /\ restarted \in BOOLEAN
    /\ arrived \subseteq Chunks
    /\ \A n \in {incomplete_evictions, duplicate_chunks, inconsistent_chunks} :
         n \in Nat
    /\ open \in Int

Init ==
    /\ result = 1 /\ timestamp = 0 /\ channel = 0 /\ index = 0
    /\ pending = <<>> /\ spectrum = NoSpectrum
    /\ incomplete_evictions = 0 /\ duplicate_chunks = 0
    /\ inconsistent_chunks = 0
    /\ restarted = FALSE /\ arrived = {} /\ open = 0

-----------------------------------------------------------------------------
(* The host.                                                               *)

IsPending(key) == \E i \in DOMAIN pending : pending[i].key = key

PlaceOf(entries, key) == CHOOSE i \in DOMAIN entries : entries[i].key = key

PartsOf(key) ==
    IF IsPending(key) THEN pending[PlaceOf(pending, key)].parts ELSE <<>>

\* del self.pending[key]
Without(entries, key) == RemoveAt(entries, PlaceOf(entries, key))

\* mutant: one spectrum too many
Evicts_OffByOne(key) == ~IsPending(key) /\ Len(pending) > MAX_PENDING_SPECTRA

Evicts(key) == ~IsPending(key) /\ Len(pending) >= MAX_PENDING_SPECTRA

\* A new key goes to the end of the dictionary; a full one loses its first.
Opened(key) ==
    IF IsPending(key) THEN pending
    ELSE Append(IF Evicts(key) THEN Tail(pending) ELSE pending,
                [key |-> key, parts |-> <<>>])

\* mutant: the metadata are not compared
Disagrees_Never(parts) == FALSE /\ parts = parts

\* The reference is any part: push keeps them equal in this.
Disagrees(parts) ==
    \E i \in DOMAIN parts : Metadata[parts[i][1]] # Metadata[result]

\* mutant: an eviction is not counted
CountEviction_Forgotten(key) == UNCHANGED incomplete_evictions /\ key = key

CountEviction(key) ==
    incomplete_evictions' = incomplete_evictions + IF Evicts(key) THEN 1 ELSE 0

Stored(parts) == [i \in DOMAIN parts \cup {index} |->
                    IF i = index THEN <<result, channel>> ELSE parts[i]]

\* A first chunk opens a spectrum, a last one closes it.
Tally(closed) == open' = open + (IF arrived = {} THEN 1 ELSE 0)
                              - (IF closed THEN 1 ELSE 0)

\* A chunk that disagrees takes the whole spectrum with it.
Reject(key) ==
    /\ pending' = Without(Opened(key), key)
    /\ inconsistent_chunks' = inconsistent_chunks + 1
    /\ spectrum' = NoSpectrum
    /\ Tally(FALSE)
    /\ UNCHANGED duplicate_chunks

\* mutant: the spectrum is taken as complete when its last chunk is there
Complete_LastIsEnough(parts) == CHUNKS - 1 \in DOMAIN parts

Complete(parts) == DOMAIN parts = Chunks

Replaced(key, parts) ==
    LET opened == Opened(key)
    IN  [opened EXCEPT ![PlaceOf(opened, key)] = [key |-> key, parts |-> parts]]

\* mutant: a complete spectrum is returned but not deleted
Keep_NotDeleted(key, parts) ==
    /\ duplicate_chunks' = duplicate_chunks
                             + IF index \in DOMAIN PartsOf(key) THEN 1 ELSE 0
    /\ pending' = Replaced(key, parts)
    /\ spectrum' = IF Complete(parts) THEN parts ELSE NoSpectrum
    /\ Tally(Complete(parts))
    /\ UNCHANGED inconsistent_chunks

Keep(key, parts) ==
    /\ duplicate_chunks' = duplicate_chunks
                             + IF index \in DOMAIN PartsOf(key) THEN 1 ELSE 0
    /\ pending' = IF Complete(parts) THEN Without(Opened(key), key)
                                     ELSE Replaced(key, parts)
    /\ spectrum' = IF Complete(parts) THEN parts ELSE NoSpectrum
    /\ Tally(Complete(parts))
    /\ UNCHANGED inconsistent_chunks

\* mutant: the channel is not part of the key
Push_ByTime ==
    LET key == <<timestamp, 0>>
    IN  /\ CountEviction(key)
        /\ IF Disagrees(PartsOf(key)) THEN Reject(key)
                                      ELSE Keep(key, Stored(PartsOf(key)))

Push == /\ CountEviction(Key)
        /\ IF Disagrees(PartsOf(Key)) THEN Reject(Key)
                                      ELSE Keep(Key, Stored(PartsOf(Key)))

-----------------------------------------------------------------------------
(* The board and the line.                                                 *)

LastOfChannel == index = CHUNKS - 1
Sending == result <= MaxResults

\* telemetry_task's two loops, and the next result.
Advance ==
    /\ IF ~LastOfChannel
       THEN index' = index + 1 /\ UNCHANGED <<result, timestamp, channel>>
       ELSE /\ index' = 0
            /\ IF channel < CHANNELS - 1
               THEN channel' = channel + 1 /\ UNCHANGED <<result, timestamp>>
               ELSE /\ channel' = 0
                    /\ result' = result + 1 /\ timestamp' = timestamp + 1
    /\ UNCHANGED restarted

ChunkArrives ==
    /\ Sending
    /\ Push /\ Advance
    /\ arrived' = IF LastOfChannel THEN {} ELSE arrived \cup {index}

\* Lost or damaged on the line, or not sent because the board gave the result up.
ChunkLost ==
    /\ Sending
    /\ Advance
    /\ arrived' = IF LastOfChannel THEN {} ELSE arrived
    /\ spectrum' = NoSpectrum
    /\ UNCHANGED <<pending, counters, open>>

\* The board restarts, and its microsecond timer with it.
ResetBoard ==
    /\ Sending /\ timestamp > 0
    /\ restarted' = TRUE
    /\ result' = result + 1
    /\ timestamp' = 0 /\ channel' = 0 /\ index' = 0
    /\ arrived' = {}
    /\ spectrum' = NoSpectrum
    /\ UNCHANGED <<pending, counters, open>>

Finished == ~Sending /\ UNCHANGED vars

Next == ChunkArrives \/ ChunkLost \/ ResetBoard \/ Finished

Spec == Init /\ [][Next]_vars

-----------------------------------------------------------------------------
(* Properties.                                                             *)

\* docs/protocol.md:64-66: at most MAX_PENDING_SPECTRA incomplete spectra are
\* kept, however many chunks the line loses (spectrum_monitor.py:239-243).
PendingBounded == Len(pending) <= MAX_PENDING_SPECTRA

\* While the board runs without a restart every spectrum returned is whole and
\* of one channel of one result, whatever was lost before it.
OneResult ==
    ~restarted /\ spectrum # NoSpectrum =>
        \E r \in 1 .. MaxResults, c \in Channels :
            spectrum = [i \in Chunks |-> <<r, c>>]

\* Until a restart, a spectrum all of whose chunks arrive is returned with its
\* last chunk: no eviction for the sake of another spectrum hits it.
WholeSpectrumAssembled ==
    [][ChunkArrives /\ LastOfChannel /\ arrived = Chunks \ {index}
         /\ ~restarted =>
          spectrum' = [i \in Chunks |-> <<result, channel>>]]_vars

\* Until a restart, each spectrum of which a chunk arrived is returned, still
\* pending or counted as evicted: main's last line tells what became of all.
LossesAccounted == ~restarted => open = Len(pending) + incomplete_evictions

\* docs/protocol.md:66-67: no spectrum is made of chunks whose metadata disagree,
\* even when timestamps repeat after a restart of the board.
MetadataAgrees ==
    \A i, j \in DOMAIN spectrum :
        Metadata[spectrum[i][1]] = Metadata[spectrum[j][1]]

=============================================================================
