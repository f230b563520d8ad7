---------------------- MODULE SpectrumAssemblerProofs -----------------------
(***************************************************************************)
(* Proofs about SpectrumAssembler, for every number of channels, chunks,   *)
(* results and pending spectra, and any chunks lost: the dictionary is     *)
(* bounded, no spectrum mixes metadata and, until the board restarts, none *)
(* mixes results, all that arrive whole are returned and every one of      *)
(* which a chunk arrived is accounted for.                                 *)
(***************************************************************************)
EXTENDS SpectrumAssembler, SequenceTheorems, TLAPS

Keys == (0 .. MaxResults) \X Channels

OneMetadata(parts) ==
    \A i, j \in DOMAIN parts : Metadata[parts[i][1]] = Metadata[parts[j][1]]

\* The key comes before that of time t and channel c ...
Before(key, t, c) == key[1] < t \/ (key[1] = t /\ key[2] < c)

\* ... and before the one being sent.
Earlier(key) == Before(key, timestamp, channel)

\* An entry holds chunks of the result and the channel its key names.
Matches(entry) ==
    \A i \in DOMAIN entry.parts :
        entry.parts[i] = <<entry.key[1] + 1, entry.key[2]>>

Newest == Len(pending)

\* Until a restart: only the last entry can be of the spectrum being sent, and is
\* if a chunk of it arrived.
InOrder ==
    /\ result = timestamp + 1
    /\ arrived \subseteq 0 .. index - 1
    /\ \A i \in DOMAIN pending : Matches(pending[i])
    /\ \A i \in DOMAIN pending :
         Earlier(pending[i].key) \/ (i = Newest /\ arrived # {})
    /\ arrived # {} => /\ Newest > 0 /\ pending[Newest].key = Key
                       /\ DOMAIN pending[Newest].parts = arrived
    /\ LossesAccounted

AssemblerInv ==
    /\ TypeOK /\ PendingBounded /\ MetadataAgrees /\ OneResult
    /\ timestamp < result
    /\ \A i \in DOMAIN pending : OneMetadata(pending[i].parts)
    /\ ~restarted => InOrder

-----------------------------------------------------------------------------
(* The dictionary.                                                         *)

\* An entry is taken out of a sequence.
LEMMA RemovedIs ==
  ASSUME NEW S, NEW s \in Seq(S), NEW p \in 1 .. Len(s)
  PROVE  LET r == RemoveAt(s, p)
         IN  /\ r \in Seq(S) /\ Len(r) = Len(s) - 1
             /\ \A j \in 1 .. Len(r) : r[j] = IF j < p THEN s[j] ELSE s[j + 1]
<1>. DEFINE a == SubSeq(s, 1, p - 1)
            b == SubSeq(s, p + 1, Len(s))
<1>1. a \in Seq(S) /\ Len(a) = p - 1 /\ \A j \in 1 .. p - 1 : a[j] = s[j]
  OBVIOUS
<1>2. /\ b \in Seq(S) /\ Len(b) = Len(s) - p
      /\ \A j \in 1 .. Len(s) - p : b[j] = s[j + p]
  OBVIOUS
<1>3. RemoveAt(s, p) = a \o b
  BY DEF RemoveAt
<1>. HIDE DEF a, b
<1>4. /\ a \o b \in Seq(S) /\ Len(a \o b) = Len(s) - 1
      /\ \A j \in 1 .. Len(s) - 1 :
           (a \o b)[j] = IF j < p THEN a[j] ELSE b[j - (p - 1)]
  <2>1. /\ a \o b \in Seq(S) /\ Len(a \o b) = Len(a) + Len(b)
        /\ \A j \in 1 .. Len(a) + Len(b) :
             (a \o b)[j] = IF j <= Len(a) THEN a[j] ELSE b[j - Len(a)]
    BY <1>1, <1>2, ConcatProperties
  <2>. HIDE DEF a, b
  <2>. QED
    BY <1>1, <1>2, <2>1
<1>. QED
  BY <1>1, <1>2, <1>3, <1>4

\* A spectrum without parts.
LEMMA NoParts == <<>> \in Parts /\ DOMAIN <<>> = {}
<1>1. DOMAIN <<>> = {} /\ <<>> = [i \in {} |-> <<1, 0>>]
  OBVIOUS
<1>2. <<>> \in [{} -> (1 .. MaxResults) \X Channels]
  BY <1>1
<1>. QED
  BY <1>1, <1>2 DEF Parts

\* A spectrum under assembly is a function on some chunks.
LEMMA PartsAre ==
  ASSUME NEW parts \in Parts
  PROVE  /\ DOMAIN parts \subseteq Chunks
         /\ \A i \in DOMAIN parts : parts[i] \in (1 .. MaxResults) \X Channels
         /\ parts = [i \in DOMAIN parts |-> parts[i]]
BY DEF Parts

\* What makes a dictionary one: the parts of TypeOK and the invariant about it.
Dictionary(entries) ==
    /\ entries \in Seq(Entries)
    /\ \A i, j \in DOMAIN entries : entries[i].key = entries[j].key => i = j
    /\ \A i \in DOMAIN entries : DOMAIN entries[i].parts # Chunks
    /\ \A i \in DOMAIN entries : OneMetadata(entries[i].parts)

\* A dictionary without one of its entries.
LEMMA WithoutIs ==
  ASSUME NEW entries, Dictionary(entries), NEW p \in 1 .. Len(entries)
  PROVE  LET r == RemoveAt(entries, p)
         IN  /\ Dictionary(r) /\ Len(r) = Len(entries) - 1
             /\ \A j \in 1 .. Len(r) : \E k \in 1 .. Len(entries) :
                  k # p /\ r[j] = entries[k]
<1>. DEFINE r == RemoveAt(entries, p)
            at(j) == IF j < p THEN j ELSE j + 1
<1>1. /\ entries \in Seq(Entries) /\ Len(entries) \in Nat
      /\ DOMAIN entries = 1 .. Len(entries)
  BY DEF Dictionary
<1>2. /\ r \in Seq(Entries) /\ Len(r) = Len(entries) - 1
      /\ \A j \in 1 .. Len(r) : r[j] = IF j < p THEN entries[j] ELSE entries[j + 1]
  BY <1>1, RemovedIs
<1>. HIDE DEF r
<1>3. \A j \in 1 .. Len(r) :
        at(j) \in 1 .. Len(entries) /\ at(j) # p /\ r[j] = entries[at(j)]
  BY <1>1, <1>2
<1>4. \A i, j \in 1 .. Len(r) : at(i) = at(j) => i = j
  BY <1>1, <1>2
<1>5. DOMAIN r = 1 .. Len(r)
  BY <1>2
<1>. HIDE DEF at
<1>6. Dictionary(r)
  <2>1. \A i, j \in DOMAIN r : r[i].key = r[j].key => i = j
    BY <1>1, <1>3, <1>4, <1>5 DEF Dictionary
  <2>2. \A i \in DOMAIN r : DOMAIN r[i].parts # Chunks /\ OneMetadata(r[i].parts)
    BY <1>1, <1>3, <1>5 DEF Dictionary
  <2>. QED
    BY <1>2, <2>1, <2>2 DEF Dictionary
<1>. QED
  BY <1>2, <1>3, <1>6 DEF r

\* A dictionary with another value for one of its keys.
LEMMA ReplacedIs ==
  ASSUME NEW entries, Dictionary(entries), NEW p \in 1 .. Len(entries),
         NEW parts \in Parts, DOMAIN parts # Chunks, OneMetadata(parts)
  PROVE  LET r == [entries EXCEPT
                     ![p] = [key |-> entries[p].key, parts |-> parts]]
         IN  /\ Dictionary(r) /\ Len(r) = Len(entries)
             /\ r[p] = [key |-> entries[p].key, parts |-> parts]
             /\ \A j \in 1 .. Len(r) : j # p => r[j] = entries[j]
<1>. DEFINE new == [key |-> entries[p].key, parts |-> parts]
            r == [entries EXCEPT ![p] = new]
<1>1. /\ entries \in Seq(Entries) /\ Len(entries) \in Nat
      /\ DOMAIN entries = 1 .. Len(entries)
  BY DEF Dictionary
<1>2. new \in Entries /\ new.key = entries[p].key /\ new.parts = parts
  <2>1. entries[p] \in Entries
    BY <1>1
  <2>. QED
    BY <2>1 DEF Entries
<1>. HIDE DEF new
<1>3. /\ r \in Seq(Entries) /\ Len(r) = Len(entries) /\ r[p] = new
      /\ DOMAIN r = 1 .. Len(entries)
      /\ \A j \in 1 .. Len(entries) : j # p => r[j] = entries[j]
  BY <1>1, <1>2
<1>. HIDE DEF r
<1>4. \A j \in 1 .. Len(entries) : r[j].key = entries[j].key
  BY <1>2, <1>3
<1>5. Dictionary(r)
  BY <1>1, <1>2, <1>3, <1>4 DEF Dictionary
<1>. QED
  BY <1>3, <1>5 DEF r, new

\* The dictionary with an entry for the key of the chunk, a new one at its end.
LEMMA OpenedIs ==
  ASSUME Dictionary(pending), Len(pending) <= MAX_PENDING_SPECTRA,
         NEW key \in Keys
  PROVE  LET o == Opened(key)
             p == PlaceOf(o, key)
         IN  /\ Dictionary(o) /\ Len(o) <= MAX_PENDING_SPECTRA
             /\ Len(o) = Len(pending) + (IF IsPending(key) THEN 0 ELSE 1)
                                      - (IF Evicts(key) THEN 1 ELSE 0)
             /\ p \in 1 .. Len(o) /\ o[p].key = key /\ o[p].parts = PartsOf(key)
             /\ IsPending(key) => o = pending
             /\ ~IsPending(key) => p = Len(o)
             /\ \A j \in 1 .. Len(o) : j # p =>
                  \E k \in 1 .. Len(pending) : o[j] = pending[k]
<1>. DEFINE o == Opened(key)
            p == PlaceOf(o, key)
<1>1. /\ pending \in Seq(Entries) /\ Len(pending) \in Nat
      /\ DOMAIN pending = 1 .. Len(pending)
  BY DEF Dictionary
<1>2. CASE IsPending(key)
  <2>1. o = pending /\ ~Evicts(key)
    BY <1>2 DEF Opened, Evicts
  <2>2. /\ p \in 1 .. Len(pending) /\ pending[p].key = key
        /\ PartsOf(key) = pending[p].parts
    BY <1>1, <1>2, <2>1 DEF IsPending, PlaceOf, PartsOf
  <2>. HIDE DEF o, p
  <2>. QED
    BY <1>1, <1>2, <2>1, <2>2 DEF o, p
<1>3. CASE ~IsPending(key)
  <2>. DEFINE kept == IF Evicts(key) THEN Tail(pending) ELSE pending
              gone == IF Evicts(key) THEN 1 ELSE 0
              new == [key |-> key, parts |-> <<>>]
  <2>1. o = Append(kept, new) /\ PartsOf(key) = <<>>
    BY <1>3 DEF Opened, PartsOf
  <2>2. /\ kept \in Seq(Entries) /\ Len(kept) = Len(pending) - gone
        /\ gone \in 0 .. 1
        /\ Len(kept) + 1 <= MAX_PENDING_SPECTRA
        /\ \A j \in 1 .. Len(kept) : kept[j] = pending[j + gone]
    <3>1. CASE Evicts(key)
      <4>1. pending # <<>>
        BY <1>1, <3>1, AssemblerAssumption DEF Evicts
      <4>. QED
        BY <1>1, <3>1, <4>1, AssemblerAssumption DEF Evicts
    <3>2. CASE ~Evicts(key)
      BY <1>1, <1>3, <3>2, AssemblerAssumption DEF Evicts
    <3>. QED
      BY <3>1, <3>2
  <2>3. new \in Entries /\ new.key = key /\ new.parts = <<>>
    BY NoParts DEF Entries, Keys
  <2>. HIDE DEF kept, new
  <2>4. /\ o \in Seq(Entries) /\ Len(o) = Len(kept) + 1 /\ o[Len(o)] = new
        /\ DOMAIN o = 1 .. Len(o)
        /\ \A j \in 1 .. Len(kept) : o[j] = kept[j]
    BY <2>1, <2>2, <2>3
  <2>. HIDE DEF o
  <2>5. \A j \in 1 .. Len(o) : j # Len(o) =>
          j + gone \in 1 .. Len(pending) /\ o[j] = pending[j + gone]
    <3>. SUFFICES ASSUME NEW j \in 1 .. Len(o), j # Len(o)
                  PROVE  /\ j + gone \in 1 .. Len(pending)
                         /\ o[j] = pending[j + gone]
      OBVIOUS
    <3>1. PICK n \in Nat : n = Len(kept)
      BY <2>2
    <3>2. PICK m \in Nat : m = Len(pending)
      BY <1>1
    <3>. HIDE DEF gone
    <3>3. j \in 1 .. n /\ n = m - gone
      BY <2>2, <2>4, <3>1, <3>2
    <3>4. j + gone \in 1 .. m
      BY <2>2, <3>3
    <3>. QED
      BY <2>2, <2>4, <3>1, <3>2, <3>3, <3>4
  <2>6. \A j \in 1 .. Len(pending) : pending[j].key # key
    BY <1>1, <1>3 DEF IsPending
  <2>7. p = Len(o)
    <3>1. \A j \in DOMAIN o : o[j].key = key <=> j = Len(o)
      BY <1>1, <2>2, <2>3, <2>4, <2>5, <2>6, ZenonT(60)
    <3>2. Len(o) \in DOMAIN o
      BY <2>2, <2>4
    <3>. QED
      BY <3>1, <3>2 DEF PlaceOf
  <2>8. \A i, j \in DOMAIN o : o[i].key = o[j].key => i = j
    <3>. SUFFICES ASSUME NEW i \in DOMAIN o, NEW j \in DOMAIN o,
                         o[i].key = o[j].key
                  PROVE  i = j
      OBVIOUS
    <3>1. CASE i = Len(o) \/ j = Len(o)
      BY <2>3, <2>4, <2>5, <2>6, <3>1
    <3>2. CASE i # Len(o) /\ j # Len(o)
      <4>1. i + gone = j + gone
        BY <1>1, <2>4, <2>5, <3>2 DEF Dictionary
      <4>. QED
        BY <2>2, <2>4, <4>1
    <3>. QED
      BY <3>1, <3>2
  <2>9. \A j \in DOMAIN o : DOMAIN o[j].parts # Chunks /\ OneMetadata(o[j].parts)
    <3>1. 0 \in Chunks
      BY AssemblerAssumption DEF Chunks
    <3>2. DOMAIN <<>> # Chunks
      BY <3>1, NoParts
    <3>3. OneMetadata(<<>>)
      BY NoParts, Zenon DEF OneMetadata
    <3>. HIDE DEF gone
    <3>. QED
      BY <1>1, <2>3, <2>4, <2>5, <3>2, <3>3 DEF Dictionary
  <2>10. Dictionary(o)
    BY <2>4, <2>8, <2>9 DEF Dictionary
  <2>11. \A j \in 1 .. Len(o) : j # p =>
           \E k \in 1 .. Len(pending) : o[j] = pending[k]
    BY <2>5, <2>7
  <2>12. /\ Len(o) <= MAX_PENDING_SPECTRA
         /\ Len(o) = Len(pending) + 1 - gone
         /\ Len(o) \in 1 .. Len(o) /\ o[Len(o)].key = key
         /\ o[Len(o)].parts = PartsOf(key)
    <3>1. o[Len(o)].key = key /\ o[Len(o)].parts = PartsOf(key)
      BY <2>1, <2>3, <2>4
    <3>. HIDE DEF gone
    <3>2. Len(o) = Len(pending) - gone + 1 /\ Len(o) <= MAX_PENDING_SPECTRA
      BY <1>1, <2>2, <2>4
    <3>3. Len(o) \in 1 .. Len(o)
      BY <2>2, <2>4
    <3>. QED
      BY <1>1, <2>2, <3>1, <3>2, <3>3
  <2>. HIDE DEF gone, p
  <2>. QED
    BY <1>3, <2>7, <2>10, <2>11, <2>12 DEF o, p, gone
<1>. QED
  BY <1>2, <1>3

-----------------------------------------------------------------------------
(* A chunk is pushed.                                                      *)

\* The key of a chunk that is sent.
LEMMA KeyIs == AssemblerInv /\ Sending => Key \in Keys /\ result \in 1 .. MaxResults
BY AssemblerAssumption DEF AssemblerInv, TypeOK, Sending, Key, Keys

\* The invariant says that pending is a dictionary.
LEMMA PendingIs ==
  AssemblerInv => Dictionary(pending) /\ Len(pending) <= MAX_PENDING_SPECTRA
BY DEF AssemblerInv, TypeOK, PendingBounded, Dictionary

\* A chunk is added to the parts it agrees with.
LEMMA StoredIs ==
  ASSUME TypeOK, Sending, NEW parts \in Parts, OneMetadata(parts),
         ~Disagrees(parts)
  PROVE  LET new == Stored(parts)
         IN  /\ new \in Parts /\ DOMAIN new = DOMAIN parts \cup {index}
             /\ new[index] = <<result, channel>>
             /\ \A i \in DOMAIN parts : i # index => new[i] = parts[i]
             /\ OneMetadata(new)
<1>. DEFINE new == Stored(parts)
            dom == DOMAIN parts \cup {index}
<1>1. /\ <<result, channel>> \in (1 .. MaxResults) \X Channels /\ index \in Chunks
      /\ <<result, channel>>[1] = result
  BY AssemblerAssumption DEF TypeOK, Sending
<1>2. /\ DOMAIN parts \subseteq Chunks
      /\ \A i \in DOMAIN parts : parts[i] \in (1 .. MaxResults) \X Channels
  BY PartsAre
<1>3. /\ new = [i \in dom |-> IF i = index THEN <<result, channel>> ELSE parts[i]]
      /\ dom \in SUBSET Chunks
  BY <1>1, <1>2 DEF Stored
<1>4. /\ DOMAIN new = dom /\ new[index] = <<result, channel>>
      /\ \A i \in DOMAIN parts : i # index => new[i] = parts[i]
  BY <1>3
<1>5. new \in [dom -> (1 .. MaxResults) \X Channels]
  BY <1>1, <1>2, <1>3
<1>6. new \in Parts
  BY <1>3, <1>5 DEF Parts
<1>7. \A i \in dom : Metadata[new[i][1]] = Metadata[result]
  BY <1>1, <1>4 DEF Disagrees
<1>8. OneMetadata(new)
  BY <1>4, <1>7 DEF OneMetadata
<1>. QED
  BY <1>4, <1>6, <1>8

\* Whatever the dictionary holds, push leaves a bounded one that mixes no
\* metadata, and returns none that does.
LEMMA PushKeeps ==
  ASSUME AssemblerInv, Sending, Push
  PROVE  /\ Dictionary(pending') /\ Len(pending') <= MAX_PENDING_SPECTRA
         /\ spectrum' \in Parts /\ OneMetadata(spectrum')
         /\ incomplete_evictions' \in Nat /\ duplicate_chunks' \in Nat
         /\ inconsistent_chunks' \in Nat /\ open' \in Int
<1>. DEFINE o == Opened(Key)
            p == PlaceOf(o, Key)
            old == PartsOf(Key)
            new == Stored(old)
<1>1. Key \in Keys /\ Dictionary(pending) /\ Len(pending) <= MAX_PENDING_SPECTRA
  BY KeyIs, PendingIs
<1>2. /\ Dictionary(o) /\ Len(o) <= MAX_PENDING_SPECTRA
      /\ p \in 1 .. Len(o) /\ o[p].key = Key /\ o[p].parts = old
  BY <1>1, OpenedIs
<1>3. /\ o \in Seq(Entries) /\ Len(o) \in Nat /\ DOMAIN o = 1 .. Len(o)
      /\ old \in Parts /\ OneMetadata(old) /\ DOMAIN old # Chunks
  <2>1. o \in Seq(Entries) /\ Len(o) \in Nat /\ DOMAIN o = 1 .. Len(o)
    BY <1>2 DEF Dictionary
  <2>2. o[p] \in Entries
    BY <1>2, <2>1
  <2>. QED
    BY <1>2, <2>1, <2>2 DEF Dictionary, Entries
<1>4. /\ incomplete_evictions' \in Nat /\ duplicate_chunks' \in Nat
      /\ inconsistent_chunks' \in Nat /\ open' \in Int
  <2>1. /\ incomplete_evictions \in Nat /\ duplicate_chunks \in Nat
        /\ inconsistent_chunks \in Nat /\ open \in Int
    BY DEF AssemblerInv, TypeOK
  <2>2. incomplete_evictions' \in Nat
    BY <2>1 DEF Push, CountEviction
  <2>3. CASE Disagrees(old)
    BY <2>1, <2>2, <2>3 DEF Push, Reject, Tally
  <2>4. CASE ~Disagrees(old)
    BY <2>1, <2>2, <2>4 DEF Push, Keep, Tally
  <2>. QED
    BY <2>3, <2>4
<1>5. Dictionary(RemoveAt(o, p)) /\ Len(RemoveAt(o, p)) <= MAX_PENDING_SPECTRA
  <2>1. Dictionary(RemoveAt(o, p)) /\ Len(RemoveAt(o, p)) = Len(o) - 1
    BY <1>2, WithoutIs
  <2>. QED
    BY <1>2, <1>3, <2>1, AssemblerAssumption
<1>6. <<>> \in Parts /\ OneMetadata(<<>>)
  BY NoParts, Zenon DEF OneMetadata
<1>7. CASE Disagrees(old)
  <2>1. pending' = RemoveAt(o, p) /\ spectrum' = <<>>
    BY <1>7 DEF Push, Reject, Without, NoSpectrum
  <2>. HIDE DEF o, p
  <2>. QED
    BY <1>4, <1>5, <1>6, <2>1
<1>8. CASE ~Disagrees(old)
  <2>1. Keep(Key, new)
    BY <1>8 DEF Push
  <2>2. new \in Parts /\ OneMetadata(new)
    BY <1>3, <1>8, StoredIs DEF AssemblerInv
  <2>3. CASE Complete(new)
    <3>1. pending' = RemoveAt(o, p) /\ spectrum' = new
      BY <2>1, <2>3 DEF Keep, Without
    <3>. HIDE DEF o, p, new
    <3>. QED
      BY <1>4, <1>5, <2>2, <3>1
  <2>4. CASE ~Complete(new)
    <3>. DEFINE r == [o EXCEPT ![p] = [key |-> o[p].key, parts |-> new]]
    <3>1. pending' = r /\ spectrum' = <<>>
      BY <1>2, <2>1, <2>4 DEF Keep, Replaced, NoSpectrum
    <3>2. Dictionary(r) /\ Len(r) = Len(o)
      <4>1. DOMAIN new # Chunks
        BY <2>4 DEF Complete
      <4>. HIDE DEF o, p, new
      <4>. QED
        BY <1>2, <2>2, <4>1, ReplacedIs
    <3>. HIDE DEF o, p, new, r
    <3>. QED
      BY <1>2, <1>4, <1>6, <3>1, <3>2
  <2>. QED
    BY <2>3, <2>4
<1>. QED
  BY <1>7, <1>8

\* Until a restart the chunk joins those of its own result and channel that
\* arrived, at the end of the dictionary, or opens their entry there.
LEMMA PushInOrder ==
  ASSUME AssemblerInv, Sending, Push, ~restarted
  PROVE  /\ \A i \in DOMAIN pending' : Matches(pending'[i])
         /\ IF arrived \cup {index} = Chunks
            THEN /\ spectrum' = [i \in Chunks |-> <<result, channel>>]
                 /\ \A i \in DOMAIN pending' : Earlier(pending'[i].key)
            ELSE /\ spectrum' = NoSpectrum
                 /\ Len(pending') > 0 /\ pending'[Len(pending')].key = Key
                 /\ DOMAIN pending'[Len(pending')].parts = arrived \cup {index}
                 /\ \A i \in DOMAIN pending' :
                      i # Len(pending') => Earlier(pending'[i].key)
         /\ open' = Len(pending') + incomplete_evictions'
<1>. DEFINE o == Opened(Key)
            p == PlaceOf(o, Key)
            old == PartsOf(Key)
            new == Stored(old)
            first == IF arrived = {} THEN 1 ELSE 0
            evicted == IF Evicts(Key) THEN 1 ELSE 0
<1>1. /\ Key \in Keys /\ Dictionary(pending) /\ Len(pending) <= MAX_PENDING_SPECTRA
      /\ result \in 1 .. MaxResults
  BY KeyIs, PendingIs
<1>2. /\ InOrder /\ TypeOK
      /\ pending \in Seq(Entries) /\ Len(pending) \in Nat
      /\ DOMAIN pending = 1 .. Len(pending)
  BY DEF AssemblerInv, TypeOK
<1>3. /\ Key = <<timestamp, channel>> /\ Key[1] = timestamp /\ Key[2] = channel
      /\ timestamp \in Nat /\ channel \in Nat /\ result = timestamp + 1
  BY <1>2 DEF Key, InOrder, TypeOK, Channels
<1>4. ~Earlier(Key)
  BY <1>3 DEF Earlier, Before
<1>5. /\ IsPending(Key) <=> arrived # {}
      /\ \A i \in 1 .. Len(pending) : pending[i].key = Key => i = Len(pending)
  <2>1. \A i \in 1 .. Len(pending) :
          pending[i].key = Key => i = Len(pending) /\ arrived # {}
    BY <1>2, <1>4 DEF InOrder, Newest
  <2>2. arrived # {} => /\ Len(pending) \in DOMAIN pending
                        /\ pending[Len(pending)].key = Key
    BY <1>2 DEF InOrder, Newest
  <2>. QED
    BY <1>2, <2>1, <2>2 DEF IsPending
<1>6. /\ Dictionary(o)
      /\ Len(o) = Len(pending) + first - evicted
      /\ p \in 1 .. Len(o) /\ o[p].key = Key /\ o[p].parts = old
      /\ IsPending(Key) => o = pending
      /\ ~IsPending(Key) => p = Len(o)
      /\ \A j \in 1 .. Len(o) : j # p =>
           \E k \in 1 .. Len(pending) : o[j] = pending[k]
  BY <1>1, <1>5, OpenedIs
<1>. HIDE DEF o, p, old, new, first, evicted
<1>7. o \in Seq(Entries) /\ Len(o) \in Nat /\ DOMAIN o = 1 .. Len(o)
  BY <1>6 DEF Dictionary
<1>8. p = Len(o)
  BY <1>5, <1>6
<1>9. old \in Parts /\ OneMetadata(old)
  <2>1. o[p] \in Entries
    BY <1>6, <1>7
  <2>. QED
    BY <1>6, <1>7, <2>1 DEF Dictionary, Entries
<1>10. DOMAIN old = arrived /\ \A i \in DOMAIN old : old[i] = <<result, channel>>
  <2>1. CASE arrived = {}
    BY <1>5, <2>1, NoParts DEF PartsOf, old
  <2>2. CASE arrived # {}
    <3>1. p \in DOMAIN pending /\ p = Len(pending) /\ pending[p].parts = old
          /\ pending[p].key = Key
      BY <1>2, <1>5, <1>6, <1>8, <2>2
    <3>2. DOMAIN old = arrived /\ Matches(pending[p])
      BY <1>2, <2>2, <3>1 DEF InOrder, Newest
    <3>. QED
      BY <1>3, <3>1, <3>2 DEF Matches
  <2>. QED
    BY <2>1, <2>2
<1>11. ~Disagrees(old)
  BY <1>1, <1>10 DEF Disagrees
<1>12. Keep(Key, new)
  BY <1>11 DEF Push, old, new
<1>13. /\ DOMAIN new = arrived \cup {index}
       /\ \A i \in DOMAIN new : new[i] = <<result, channel>>
       /\ new \in Parts
  <2>1. /\ DOMAIN new = DOMAIN old \cup {index} /\ new[index] = <<result, channel>>
        /\ \A i \in DOMAIN old : i # index => new[i] = old[i]
        /\ new \in Parts
    BY <1>2, <1>9, <1>11, StoredIs DEF new
  <2>. QED
    BY <1>10, <2>1
<1>14. \A j \in 1 .. Len(o) : j # p => Matches(o[j]) /\ Earlier(o[j].key)
  <2>. SUFFICES ASSUME NEW j \in 1 .. Len(o), j # p
                PROVE  Matches(o[j]) /\ Earlier(o[j].key)
    OBVIOUS
  <2>1. PICK k \in 1 .. Len(pending) : o[j] = pending[k]
    BY <1>6
  <2>2. o[j].key # Key
    BY <1>6, <1>7 DEF Dictionary
  <2>3. Matches(pending[k]) /\ (Earlier(pending[k].key) \/ pending[k].key = Key)
    BY <1>2 DEF InOrder, Newest
  <2>. QED
    BY <2>1, <2>2, <2>3
<1>15. /\ open = Len(pending) + incomplete_evictions
       /\ incomplete_evictions' = incomplete_evictions + evicted
       /\ incomplete_evictions \in Nat /\ first \in 0 .. 1 /\ evicted \in 0 .. 1
  BY <1>2 DEF InOrder, LossesAccounted, AssemblerInv, TypeOK, Push, CountEviction,
              first, evicted
<1>16. CASE Complete(new)
  <2>. DEFINE r == RemoveAt(o, p)
  <2>1. pending' = r /\ spectrum' = new /\ open' = open + first - 1
    BY <1>12, <1>16 DEF Keep, Without, Tally, o, p, first
  <2>2. arrived \cup {index} = Chunks
    BY <1>13, <1>16 DEF Complete
  <2>3. new = [i \in Chunks |-> <<result, channel>>]
    <3>1. new = [i \in DOMAIN new |-> new[i]]
      BY <1>13, PartsAre
    <3>. QED
      BY <1>13, <2>2, <3>1
  <2>4. /\ Dictionary(r) /\ Len(r) = Len(o) - 1
        /\ \A j \in 1 .. Len(r) : \E k \in 1 .. Len(o) : k # p /\ r[j] = o[k]
    BY <1>6, WithoutIs
  <2>. HIDE DEF r
  <2>5. DOMAIN r = 1 .. Len(r)
    BY <2>4 DEF Dictionary
  <2>6. \A j \in DOMAIN r : Matches(r[j]) /\ Earlier(r[j].key)
    BY <1>14, <2>4, <2>5
  <2>7. open' = Len(r) + incomplete_evictions'
    <3>1. PICK n \in Nat : n = Len(pending)
      BY <1>2
    <3>2. Len(r) = n + first - evicted - 1
      BY <1>6, <1>7, <1>15, <2>4, <3>1
    <3>. QED
      BY <1>15, <2>1, <3>1, <3>2
  <2>. QED
    BY <2>1, <2>2, <2>3, <2>6, <2>7
<1>17. CASE ~Complete(new)
  <2>. DEFINE entry == [key |-> o[p].key, parts |-> new]
              r == [o EXCEPT ![p] = entry]
  <2>1. pending' = r /\ spectrum' = NoSpectrum /\ open' = open + first
    <3>1. pending' = r /\ spectrum' = NoSpectrum
      BY <1>6, <1>12, <1>17 DEF Keep, Replaced, o, p
    <3>2. open' = open + first - 0
      BY <1>12, <1>17 DEF Keep, Tally, first
    <3>3. open \in Int /\ first \in Int
      BY <1>2, <1>15 DEF TypeOK
    <3>. QED
      BY <3>1, <3>2, <3>3
  <2>2. arrived \cup {index} # Chunks
    BY <1>13, <1>17 DEF Complete
  <2>3. entry.key = Key /\ entry.parts = new
    BY <1>6
  <2>4. Matches(entry)
    <3>. HIDE DEF entry
    <3>. QED
      BY <1>3, <1>13, <2>3 DEF Matches
  <2>. HIDE DEF entry
  <2>5. /\ Len(r) = Len(o) /\ r[p] = entry /\ DOMAIN r = 1 .. Len(o)
        /\ \A j \in 1 .. Len(o) : j # p => r[j] = o[j]
    BY <1>6, <1>7
  <2>. HIDE DEF r
  <2>6. \A i \in DOMAIN r : Matches(r[i])
    BY <1>14, <2>4, <2>5
  <2>7. \A i \in DOMAIN r : i # Len(r) => Earlier(r[i].key)
    BY <1>8, <1>14, <2>5
  <2>8. /\ Len(r) > 0 /\ r[Len(r)].key = Key
        /\ DOMAIN r[Len(r)].parts = arrived \cup {index}
    BY <1>6, <1>7, <1>8, <1>13, <2>3, <2>5
  <2>9. open' = Len(r) + incomplete_evictions'
    <3>1. PICK n \in Nat : n = Len(pending)
      BY <1>2
    <3>2. Len(r) = n + first - evicted
      BY <1>6, <2>5, <3>1
    <3>. QED
      BY <1>15, <2>1, <3>1, <3>2
  <2>. QED
    BY <2>1, <2>2, <2>6, <2>7, <2>8, <2>9
<1>. QED
  BY <1>16, <1>17

-----------------------------------------------------------------------------
(* The invariant.                                                          *)

\* It holds before the first chunk.
LEMMA AssemblerInit == Init => AssemblerInv
<1>. SUFFICES ASSUME Init PROVE AssemblerInv
  OBVIOUS
<1>1. <<>> \in Parts /\ <<>> \in Seq(Entries) /\ DOMAIN <<>> = {} /\ Len(<<>>) = 0
  BY NoParts
<1>2. TypeOK
  <2>1. /\ result \in 1 .. MaxResults + 1 /\ timestamp \in 0 .. MaxResults
        /\ channel \in Channels /\ index \in Chunks
    BY AssemblerAssumption DEF Init, Channels, Chunks
  <2>2. /\ pending \in Seq(Entries)
        /\ \A i, j \in DOMAIN pending : pending[i].key = pending[j].key => i = j
        /\ \A i \in DOMAIN pending : DOMAIN pending[i].parts # Chunks
    BY <1>1, Zenon DEF Init
  <2>3. /\ spectrum \in Parts /\ restarted \in BOOLEAN /\ arrived \subseteq Chunks
        /\ incomplete_evictions \in Nat /\ duplicate_chunks \in Nat
        /\ inconsistent_chunks \in Nat /\ open \in Int
    <3>1. spectrum \in Parts
      BY <1>1, Zenon DEF Init, NoSpectrum
    <3>2. restarted \in BOOLEAN
      BY Zenon DEF Init
    <3>3. /\ arrived \subseteq Chunks /\ incomplete_evictions \in Nat
          /\ duplicate_chunks \in Nat /\ inconsistent_chunks \in Nat
          /\ open \in Int
      BY DEF Init
    <3>. QED
      BY <3>1, <3>2, <3>3
  <2>. QED
    BY <2>1, <2>2, <2>3 DEF TypeOK
<1>3. PendingBounded /\ timestamp < result
  BY <1>1, AssemblerAssumption DEF Init, PendingBounded
<1>4. MetadataAgrees /\ OneResult
  BY <1>1, Zenon DEF Init, MetadataAgrees, OneResult, NoSpectrum
<1>5. \A i \in DOMAIN pending : OneMetadata(pending[i].parts)
  BY <1>1, Zenon DEF Init
<1>6. InOrder
  BY <1>1 DEF Init, InOrder, Newest, LossesAccounted
<1>. QED
  BY <1>2, <1>3, <1>4, <1>5, <1>6 DEF AssemblerInv

\* The board moves on to the next chunk, of this spectrum or of a later one.
LEMMA AdvanceIs ==
  ASSUME TypeOK, timestamp < result, Sending, Advance
  PROVE  /\ result' \in 1 .. MaxResults + 1 /\ timestamp' \in 0 .. MaxResults
         /\ channel' \in Channels /\ index' \in Chunks /\ timestamp' < result'
         /\ restarted' = restarted
         /\ ~LastOfChannel => index' = index + 1 /\ Key' = Key
                              /\ UNCHANGED <<timestamp, channel>>
         /\ LastOfChannel => index' = 0
         /\ result = timestamp + 1 => result' = timestamp' + 1
         /\ \A key \in Keys : Earlier(key) => Before(key, timestamp', channel')
         /\ LastOfChannel => Before(Key, timestamp', channel')
<1>1. /\ result \in 1 .. MaxResults /\ timestamp \in 0 .. MaxResults
      /\ timestamp + 1 \in 0 .. MaxResults
      /\ channel \in 0 .. CHANNELS - 1 /\ index \in 0 .. CHUNKS - 1
      /\ MaxResults \in Nat /\ CHANNELS \in Nat \ {0} /\ CHUNKS \in Nat \ {0}
  BY AssemblerAssumption DEF TypeOK, Sending, Channels, Chunks
<1>2. /\ Key = <<timestamp, channel>> /\ Key[1] = timestamp /\ Key[2] = channel
      /\ Key' = <<timestamp', channel'>>
  BY DEF Key
<1>3. \A key \in Keys : key[1] \in Nat /\ key[2] \in Nat
  BY <1>1 DEF Keys, Channels
<1>4. CASE ~LastOfChannel
  <2>1. /\ index' = index + 1
        /\ UNCHANGED <<result, timestamp, channel, restarted>>
    BY <1>4 DEF Advance
  <2>2. index' \in Chunks
    BY <1>1, <1>4, <2>1 DEF LastOfChannel, Chunks
  <2>3. \A key \in Keys : Earlier(key) => Before(key, timestamp', channel')
    BY <2>1 DEF Earlier, Before
  <2>. QED
    BY <1>1, <1>2, <1>4, <2>1, <2>2, <2>3 DEF Channels
<1>5. CASE LastOfChannel /\ channel < CHANNELS - 1
  <2>1. /\ index' = 0 /\ channel' = channel + 1
        /\ UNCHANGED <<result, timestamp, restarted>>
    BY <1>5 DEF Advance
  <2>2. \A key \in Keys : Earlier(key) => Before(key, timestamp', channel')
    BY <1>1, <1>3, <2>1 DEF Earlier, Before
  <2>3. Before(Key, timestamp', channel')
    BY <1>1, <1>2, <2>1 DEF Before
  <2>. QED
    BY <1>1, <1>5, <2>1, <2>2, <2>3 DEF Channels, Chunks
<1>6. CASE LastOfChannel /\ ~(channel < CHANNELS - 1)
  <2>1. /\ index' = 0 /\ channel' = 0 /\ result' = result + 1
        /\ timestamp' = timestamp + 1 /\ UNCHANGED restarted
    BY <1>6 DEF Advance
  <2>2. \A key \in Keys : Earlier(key) => Before(key, timestamp', channel')
    BY <1>1, <1>3, <2>1 DEF Earlier, Before
  <2>3. Before(Key, timestamp', channel')
    BY <1>1, <1>2, <2>1 DEF Before
  <2>. QED
    BY <1>1, <1>6, <2>1, <2>2, <2>3 DEF Channels, Chunks
<1>. QED
  BY <1>4, <1>5, <1>6

\* A spectrum is returned of one result, and until a restart it is whole.
LEMMA ArrivalInOrder ==
  ASSUME AssemblerInv, ChunkArrives, ~restarted
  PROVE  InOrder' /\ OneResult'
<1>1. /\ InOrder /\ TypeOK /\ timestamp < result /\ Sending /\ Push /\ Advance
      /\ arrived' = IF LastOfChannel THEN {} ELSE arrived \cup {index}
  BY DEF AssemblerInv, ChunkArrives
<1>2. /\ index \in 0 .. CHUNKS - 1 /\ arrived \subseteq 0 .. index - 1
      /\ CHUNKS \in Nat \ {0} /\ result = timestamp + 1
      /\ result \in 1 .. MaxResults /\ channel \in Channels
  BY <1>1, AssemblerAssumption DEF InOrder, TypeOK, Chunks, Sending
<1>3. /\ Dictionary(pending') /\ DOMAIN pending' = 1 .. Len(pending')
      /\ Len(pending') \in Nat
      /\ \A i \in DOMAIN pending' : pending'[i].key \in Keys
  <2>1. Dictionary(pending')
    BY <1>1, PushKeeps
  <2>2. /\ pending' \in Seq(Entries) /\ DOMAIN pending' = 1 .. Len(pending')
        /\ Len(pending') \in Nat
    BY <2>1 DEF Dictionary
  <2>3. \A i \in DOMAIN pending' : pending'[i] \in Entries
    BY <2>2
  <2>. QED
    BY <2>1, <2>2, <2>3 DEF Entries, Keys
<1>4. /\ timestamp' < result' /\ result' = timestamp' + 1
      /\ ~LastOfChannel => index' = index + 1 /\ Key' = Key
                           /\ UNCHANGED <<timestamp, channel>>
      /\ LastOfChannel => index' = 0
      /\ \A key \in Keys : Earlier(key) => Before(key, timestamp', channel')
      /\ LastOfChannel => Before(Key, timestamp', channel')
  BY <1>1, <1>2, AdvanceIs
<1>5. /\ \A i \in DOMAIN pending' : Matches(pending'[i])
      /\ IF arrived \cup {index} = Chunks
         THEN /\ spectrum' = [i \in Chunks |-> <<result, channel>>]
              /\ \A i \in DOMAIN pending' : Earlier(pending'[i].key)
         ELSE /\ spectrum' = NoSpectrum
              /\ Len(pending') > 0 /\ pending'[Len(pending')].key = Key
              /\ DOMAIN pending'[Len(pending')].parts = arrived \cup {index}
              /\ \A i \in DOMAIN pending' :
                   i # Len(pending') => Earlier(pending'[i].key)
      /\ open' = Len(pending') + incomplete_evictions'
  BY <1>1, PushInOrder
<1>6. OneResult'
  BY <1>2, <1>5 DEF OneResult
<1>7. arrived' \subseteq 0 .. index' - 1
  <2>1. CASE LastOfChannel
    BY <1>1, <2>1
  <2>2. CASE ~LastOfChannel
    BY <1>1, <1>2, <1>4, <2>2
  <2>. QED
    BY <2>1, <2>2
<1>8. /\ \A i \in DOMAIN pending' :
           Before(pending'[i].key, timestamp', channel')
             \/ (i = Len(pending') /\ arrived' # {})
      /\ arrived' # {} => /\ Len(pending') > 0 /\ pending'[Len(pending')].key = Key'
                          /\ DOMAIN pending'[Len(pending')].parts = arrived'
  <2>1. CASE LastOfChannel
    <3>1. arrived' = {}
      BY <1>1, <2>1
    <3>2. \A i \in DOMAIN pending' :
            Earlier(pending'[i].key) \/ pending'[i].key = Key
      BY <1>5
    <3>. QED
      BY <1>3, <1>4, <2>1, <3>1, <3>2
  <2>2. CASE ~LastOfChannel
    <3>1. CHUNKS - 1 \in Chunks /\ CHUNKS - 1 \notin arrived \cup {index}
      BY <1>2, <2>2 DEF Chunks, LastOfChannel
    <3>2. arrived \cup {index} # Chunks /\ arrived' = arrived \cup {index}
      BY <1>1, <2>2, <3>1
    <3>. QED
      BY <1>3, <1>4, <1>5, <2>2, <3>2
  <2>. QED
    BY <2>1, <2>2
<1>9. LossesAccounted'
  BY <1>5 DEF LossesAccounted
<1>. QED
  BY <1>4, <1>5, <1>6, <1>7, <1>8, <1>9 DEF InOrder, Newest, Earlier, Matches

\* Nor does a chunk that is lost disturb the order.
LEMMA LossInOrder ==
  ASSUME AssemblerInv, ChunkLost, ~restarted
  PROVE  InOrder'
<1>1. /\ InOrder /\ TypeOK /\ timestamp < result /\ Sending /\ Advance
      /\ arrived' = IF LastOfChannel THEN {} ELSE arrived
      /\ UNCHANGED <<pending, counters, open>>
  BY DEF AssemblerInv, ChunkLost
<1>2. /\ index \in 0 .. CHUNKS - 1 /\ arrived \subseteq 0 .. index - 1
      /\ result = timestamp + 1
      /\ pending \in Seq(Entries) /\ DOMAIN pending = 1 .. Len(pending)
  BY <1>1 DEF InOrder, TypeOK, Chunks
<1>3. \A i \in DOMAIN pending : pending[i].key \in Keys
  <2>1. \A i \in DOMAIN pending : pending[i] \in Entries
    BY <1>2
  <2>. QED
    BY <2>1 DEF Entries, Keys
<1>4. /\ result' = timestamp' + 1
      /\ ~LastOfChannel => index' = index + 1 /\ Key' = Key
                           /\ UNCHANGED <<timestamp, channel>>
      /\ LastOfChannel => index' = 0
      /\ \A key \in Keys : Earlier(key) => Before(key, timestamp', channel')
      /\ LastOfChannel => Before(Key, timestamp', channel')
  BY <1>1, <1>2, AdvanceIs
<1>5. arrived' \subseteq 0 .. index' - 1
  <2>1. CASE LastOfChannel
    BY <1>1, <2>1
  <2>2. CASE ~LastOfChannel
    BY <1>1, <1>2, <1>4, <2>2
  <2>. QED
    BY <2>1, <2>2
<1>6. \A i \in DOMAIN pending :
        Before(pending[i].key, timestamp', channel')
          \/ (i = Len(pending) /\ arrived' # {})
  <2>1. \A i \in DOMAIN pending :
          Earlier(pending[i].key)
            \/ (i = Len(pending) /\ arrived # {} /\ pending[i].key = Key)
    BY <1>1 DEF InOrder, Newest
  <2>. QED
    BY <1>1, <1>3, <1>4, <2>1
<1>7. arrived' # {} => /\ Len(pending) > 0 /\ pending[Len(pending)].key = Key'
                       /\ DOMAIN pending[Len(pending)].parts = arrived'
  BY <1>1, <1>4 DEF InOrder, Newest
<1>. QED
  BY <1>1, <1>4, <1>5, <1>6, <1>7
     DEF InOrder, Newest, Earlier, LossesAccounted, counters

\* Every step keeps the invariant.
LEMMA AssemblerStep == AssemblerInv /\ [Next]_vars => AssemblerInv'
<1>. SUFFICES ASSUME AssemblerInv, [Next]_vars PROVE AssemblerInv'
  OBVIOUS
<1>1. /\ TypeOK /\ PendingBounded /\ MetadataAgrees /\ OneResult
      /\ timestamp < result
      /\ ~restarted => InOrder
      /\ \A i \in DOMAIN pending : OneMetadata(pending[i].parts)
  BY DEF AssemblerInv
<1>2. NoSpectrum \in Parts /\ DOMAIN NoSpectrum = {}
  BY NoParts DEF NoSpectrum
<1>3. CASE ChunkArrives
  <2>1. Sending /\ Push /\ Advance
    BY <1>3 DEF ChunkArrives
  <2>2. /\ Dictionary(pending') /\ Len(pending') <= MAX_PENDING_SPECTRA
        /\ spectrum' \in Parts /\ OneMetadata(spectrum')
        /\ incomplete_evictions' \in Nat /\ duplicate_chunks' \in Nat
        /\ inconsistent_chunks' \in Nat /\ open' \in Int
    BY <2>1, PushKeeps
  <2>3. /\ result' \in 1 .. MaxResults + 1 /\ timestamp' \in 0 .. MaxResults
        /\ channel' \in Channels /\ index' \in Chunks /\ timestamp' < result'
        /\ restarted' = restarted
    BY <1>1, <2>1, AdvanceIs
  <2>4. arrived' \subseteq Chunks
    BY <1>1, <1>3 DEF ChunkArrives, TypeOK
  <2>5. TypeOK'
    BY <1>1, <2>2, <2>3, <2>4 DEF TypeOK, Dictionary
  <2>6. /\ PendingBounded' /\ MetadataAgrees'
        /\ (\A i \in DOMAIN pending : OneMetadata(pending[i].parts))'
    BY <2>2 DEF PendingBounded, MetadataAgrees, OneMetadata, Dictionary
  <2>7. ~restarted => InOrder' /\ OneResult'
    BY <1>3, ArrivalInOrder
  <2>8. OneResult'
    BY <2>3, <2>7 DEF OneResult
  <2>. QED
    BY <2>3, <2>5, <2>6, <2>7, <2>8 DEF AssemblerInv
<1>4. CASE ChunkLost
  <2>1. /\ Sending /\ Advance /\ spectrum' = NoSpectrum
        /\ arrived' \subseteq Chunks
        /\ UNCHANGED <<pending, counters, open>>
    BY <1>1, <1>4 DEF ChunkLost, TypeOK
  <2>2. /\ result' \in 1 .. MaxResults + 1 /\ timestamp' \in 0 .. MaxResults
        /\ channel' \in Channels /\ index' \in Chunks /\ timestamp' < result'
        /\ restarted' = restarted
    BY <1>1, <2>1, AdvanceIs
  <2>3. TypeOK' /\ PendingBounded'
    BY <1>1, <1>2, <2>1, <2>2 DEF TypeOK, PendingBounded, counters
  <2>4. MetadataAgrees' /\ OneResult'
    BY <1>2, <2>1 DEF MetadataAgrees, OneResult
  <2>5. ~restarted => InOrder'
    BY <1>4, LossInOrder
  <2>. QED
    BY <1>1, <2>1, <2>2, <2>3, <2>4, <2>5 DEF AssemblerInv
<1>5. CASE ResetBoard
  <2>1. /\ result' = result + 1 /\ timestamp' = 0 /\ channel' = 0 /\ index' = 0
        /\ arrived' = {} /\ spectrum' = NoSpectrum /\ restarted' = TRUE
        /\ UNCHANGED <<pending, counters, open>> /\ Sending
    BY <1>5 DEF ResetBoard
  <2>2. TypeOK' /\ timestamp' < result'
    BY <1>1, <1>2, <2>1, AssemblerAssumption
       DEF TypeOK, counters, Sending, Channels, Chunks
  <2>3. MetadataAgrees' /\ OneResult' /\ PendingBounded'
    BY <1>1, <1>2, <2>1 DEF MetadataAgrees, OneResult, PendingBounded
  <2>. QED
    BY <1>1, <2>1, <2>2, <2>3 DEF AssemblerInv
<1>6. CASE Finished \/ UNCHANGED vars
  BY <1>1, <1>6, SMTT(60)
     DEF Finished, vars, board, counters, AssemblerInv, TypeOK,
     PendingBounded, MetadataAgrees, OneResult, InOrder, Newest, Earlier,
     LossesAccounted, Key
<1>. QED
  BY <1>3, <1>4, <1>5, <1>6 DEF Next

-----------------------------------------------------------------------------
(* The theorems.                                                           *)

\* The invariant holds throughout.
LEMMA AssemblerInvariant == Spec => []AssemblerInv
BY AssemblerInit, AssemblerStep, PTL DEF Spec

\* push leaves a dictionary with each key once and without a whole spectrum.
THEOREM AssemblerTypeCorrect == Spec => []TypeOK
<1>1. AssemblerInv => TypeOK
  BY DEF AssemblerInv
<1>. QED
  BY AssemblerInvariant, <1>1, PTL

\* No stream of chunks makes the host keep more than MAX_PENDING_SPECTRA spectra.
THEOREM BoundedMemory == Spec => []PendingBounded
<1>1. AssemblerInv => PendingBounded
  BY DEF AssemblerInv
<1>. QED
  BY AssemblerInvariant, <1>1, PTL

\* No spectrum push returns mixes metadata, not even after a restart.
THEOREM MetadataNeverMix == Spec => []MetadataAgrees
<1>1. AssemblerInv => MetadataAgrees
  BY DEF AssemblerInv
<1>. QED
  BY AssemblerInvariant, <1>1, PTL

\* Until a restart each spectrum returned is of one channel of one result.
THEOREM ResultsNeverMix == Spec => []OneResult
<1>1. AssemblerInv => OneResult
  BY DEF AssemblerInv
<1>. QED
  BY AssemblerInvariant, <1>1, PTL

\* Until a restart every spectrum of which a chunk arrived is accounted for.
THEOREM AllAccounted == Spec => []LossesAccounted
<1>1. AssemblerInv => LossesAccounted
  BY DEF AssemblerInv, InOrder, LossesAccounted
<1>. QED
  BY AssemblerInvariant, <1>1, PTL

\* Until a restart what arrives whole is returned whole.
THEOREM WholeIsReturned == Spec => WholeSpectrumAssembled
<1>1. AssemblerInv /\ [Next]_vars =>
        [ChunkArrives /\ LastOfChannel /\ arrived = Chunks \ {index} /\ ~restarted =>
           spectrum' = [i \in Chunks |-> <<result, channel>>]]_vars
  <2>. SUFFICES ASSUME AssemblerInv, ChunkArrives, arrived = Chunks \ {index},
                       ~restarted
                PROVE  spectrum' = [i \in Chunks |-> <<result, channel>>]
    OBVIOUS
  <2>1. arrived \cup {index} = Chunks
    BY DEF AssemblerInv, TypeOK
  <2>2. Sending /\ Push
    BY DEF ChunkArrives
  <2>. QED
    BY <2>1, <2>2, PushInOrder
<1>. QED
  BY AssemblerInvariant, <1>1, PTL DEF Spec, WholeSpectrumAssembled

=============================================================================
