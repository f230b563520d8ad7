------------------------ MODULE TelemetryLineProofs -------------------------
(***************************************************************************)
(* Proofs about TelemetryLine, for bodies and sequence numbers of every    *)
(* size and any line: the firmware's and the host's decoder agree after    *)
(* every byte about the frames and what became of the missing ones, the    *)
(* firmware's never holds more than a body, a frame that crosses the line  *)
(* whole is decoded, and exactly the frames missing between those decoded  *)
(* are counted as lost unless the CRC accepts a forged body.               *)
(***************************************************************************)
EXTENDS TelemetryLine, NumberLemmas, TLAPS

Decoder == [body : Seq(Bytes), escaped : BOOLEAN, dropping : BOOLEAN,
            last_sequence : Int, frame : Int, stats : [DecoderStats -> Int]]

Host == [buffer : Seq(Bytes), escaped : BOOLEAN, dropping : BOOLEAN,
         last_sequence : Int, yielded : Int, count : [HostCounters -> Int]]

\* What a user of the decoders sees.
SameReport(d, h) ==
    /\ d.frame = h.yielded
    /\ d.last_sequence = h.last_sequence
    /\ d.stats["frames_ok"] = h.count["frames"]
    /\ d.stats["sequence_lost"] = h.count["lost"]
    /\ d.stats["sequence_duplicates"] = h.count["duplicates"]
    /\ d.stats["sequence_out_of_order"] = h.count["out_of_order"]
    /\ d.stats["crc_errors"] = h.count["crc_errors"]

\* They collect the same bytes ...
InStep(d, h) ==
    /\ d.body = h.buffer /\ Len(d.body) <= RAW_LENGTH
    /\ d.escaped = h.escaped /\ d.dropping = h.dropping
    /\ d.dropping => ~d.escaped /\ d.body = <<>>

\* ... or the firmware has dropped a frame that the host still collects: an
\* escaped byte has taken it beyond a body's length.
HostOverlong(d, h) ==
    /\ d.dropping /\ ~d.escaped /\ d.body = <<>>
    /\ ~h.dropping /\ Len(h.buffer) > RAW_LENGTH

Agree(d, h) == /\ d \in Decoder /\ h \in Host
               /\ SameReport(d, h)
               /\ InStep(d, h) \/ HostOverlong(d, h)

-----------------------------------------------------------------------------
(* The counters.                                                           *)

\* The firmware's counters after some were incremented.
LEMMA CountIs ==
  ASSUME NEW stats \in [DecoderStats -> Int], NEW which
  PROVE  /\ Count(stats, which) \in [DecoderStats -> Int]
         /\ \A s \in DecoderStats :
              Count(stats, which)[s] = stats[s] + (IF s \in which THEN 1 ELSE 0)
BY DEF Count

\* And the host's.
LEMMA TallyIs ==
  ASSUME NEW count \in [HostCounters -> Int], NEW which
  PROVE  /\ Tally(count, which) \in [HostCounters -> Int]
         /\ \A c \in HostCounters :
              Tally(count, which)[c] = count[c] + (IF c \in which THEN 1 ELSE 0)
BY DEF Tally

\* The distance of two sequence numbers.
LEMMA DeltaRange ==
  ASSUME NEW a \in Int, NEW b \in Int
  PROVE  Delta(a, b) \in Nat
BY FramingAssumption DEF Delta

\* A body that is well-formed has a sequence number.
LEMMA SequenceIsInt ==
  ASSUME NEW body, Verdict(body) = "ok"
  PROVE  SequenceOf(body) \in Int
<1>1. \E n \in DOMAIN Body : Body[n] = body
  BY DEF Verdict, PassesCrc, WellFormed
<1>2. SequenceOf(body) \in DOMAIN Body
  BY <1>1 DEF SequenceOf
<1>. QED
  BY <1>2, FramingAssumption

-----------------------------------------------------------------------------
(* The accounts of a good frame agree.                                     *)

\* What the firmware's account does.
LEMMA AccountIs ==
  ASSUME NEW d \in Decoder, NEW number \in Int
  PROVE  LET delta == Delta(number, d.last_sequence)
             first == d.last_sequence = NoSequence
             ahead == delta # 0 /\ delta < SEQUENCES \div 2
             a == Account(d, number)
         IN  /\ a \in Decoder
             /\ a.body = d.body /\ a.escaped = d.escaped
             /\ a.dropping = d.dropping /\ a.frame = d.frame
             /\ a.last_sequence = IF first \/ ahead THEN number
                                  ELSE d.last_sequence
             /\ a.stats["sequence_lost"] =
                  d.stats["sequence_lost"] + IF ~first /\ ahead THEN delta - 1 ELSE 0
             /\ a.stats["sequence_duplicates"] =
                  d.stats["sequence_duplicates"]
                    + IF ~first /\ delta = 0 THEN 1 ELSE 0
             /\ a.stats["sequence_out_of_order"] =
                  d.stats["sequence_out_of_order"]
                    + IF ~first /\ delta # 0 /\ ~ahead THEN 1 ELSE 0
             /\ a.stats["crc_errors"] = d.stats["crc_errors"]
             /\ a.stats["frames_ok"] = d.stats["frames_ok"]
<1>. DEFINE delta == Delta(number, d.last_sequence)
            first == d.last_sequence = NoSequence
            half == SEQUENCES \div 2
            ahead == delta # 0 /\ delta < SEQUENCES \div 2
            stats == IF first THEN d.stats
                     ELSE IF delta = 0 THEN Count(d.stats, {"sequence_duplicates"})
                     ELSE IF ahead
                     THEN [d.stats EXCEPT !["sequence_lost"] = @ + delta - 1]
                     ELSE Count(d.stats, {"sequence_out_of_order"})
            last == IF first \/ ahead THEN number ELSE d.last_sequence
<1>1. delta \in Nat /\ d.last_sequence \in Int /\ last \in Int
  BY DeltaRange DEF Decoder
<1>2. d.stats \in [DecoderStats -> Int]
  BY DEF Decoder
<1>3. \A which :
        /\ Count(d.stats, which) \in [DecoderStats -> Int]
        /\ \A s \in DecoderStats :
             Count(d.stats, which)[s] = d.stats[s] + (IF s \in which THEN 1 ELSE 0)
  BY <1>2, CountIs
<1>4. Account(d, number) = [d EXCEPT !.last_sequence = last, !.stats = stats]
  <2>1. d = [d EXCEPT !.last_sequence = d.last_sequence]
        /\ d = [d EXCEPT !.stats = d.stats]
    BY DEF Decoder
  <2>. HIDE DEF delta, first
  <2>2. Account(d, number) =
          IF first THEN [d EXCEPT !.last_sequence = number]
          ELSE IF delta = 0
          THEN [d EXCEPT !.stats = Count(d.stats, {"sequence_duplicates"})]
          ELSE IF delta < SEQUENCES \div 2
          THEN [d EXCEPT !.last_sequence = number,
                         !.stats = [d.stats EXCEPT !["sequence_lost"] = @ + delta - 1]]
          ELSE [d EXCEPT !.stats = Count(d.stats, {"sequence_out_of_order"})]
    BY DEF Account, delta, first
  <2>. QED
    BY <2>1, <2>2 DEF Decoder
<1>. HIDE DEF delta, first, last
<1>5. /\ stats \in [DecoderStats -> Int]
      /\ stats["sequence_lost"] =
           d.stats["sequence_lost"] + IF ~first /\ ahead THEN delta - 1 ELSE 0
      /\ stats["sequence_duplicates"] =
           d.stats["sequence_duplicates"] + IF ~first /\ delta = 0 THEN 1 ELSE 0
      /\ stats["sequence_out_of_order"] =
           d.stats["sequence_out_of_order"]
             + IF ~first /\ delta # 0 /\ ~ahead THEN 1 ELSE 0
      /\ stats["crc_errors"] = d.stats["crc_errors"]
      /\ stats["frames_ok"] = d.stats["frames_ok"]
  <2>1. CASE first
    BY <1>2, <2>1 DEF DecoderStats
  <2>2. CASE ~first /\ delta = 0
    BY <1>2, <1>3, <2>2 DEF DecoderStats
  <2>3. CASE ~first /\ ahead
    BY <1>1, <1>2, <2>3 DEF DecoderStats
  <2>4. CASE ~first /\ delta # 0 /\ ~ahead
    BY <1>2, <1>3, <2>4 DEF DecoderStats
  <2>. QED
    BY <2>1, <2>2, <2>3, <2>4
<1>. HIDE DEF stats, ahead
<1>6. LET a == Account(d, number)
      IN  /\ a \in Decoder
          /\ a.body = d.body /\ a.escaped = d.escaped
          /\ a.dropping = d.dropping /\ a.frame = d.frame
          /\ a.last_sequence = last /\ a.stats = stats
  BY <1>1, <1>4, <1>5 DEF Decoder
<1>. QED
  BY <1>5, <1>6 DEF last, delta, first, ahead

\* What the host's account does.
LEMMA HostAccountIs ==
  ASSUME NEW h \in Host, NEW number \in Int
  PROVE  LET delta == Delta(number, h.last_sequence)
             first == h.last_sequence = None
             ahead == delta # 0 /\ delta < SEQUENCES \div 2
             a == HostAccount(h, number)
         IN  /\ a \in Host
             /\ a.buffer = h.buffer /\ a.escaped = h.escaped
             /\ a.dropping = h.dropping /\ a.yielded = h.yielded
             /\ a.last_sequence = IF first \/ ahead THEN number
                                  ELSE h.last_sequence
             /\ a.count["lost"] =
                  h.count["lost"] + IF ~first /\ ahead THEN delta - 1 ELSE 0
             /\ a.count["duplicates"] =
                  h.count["duplicates"] + IF ~first /\ delta = 0 THEN 1 ELSE 0
             /\ a.count["out_of_order"] =
                  h.count["out_of_order"]
                    + IF ~first /\ delta # 0 /\ ~ahead THEN 1 ELSE 0
             /\ a.count["crc_errors"] = h.count["crc_errors"]
             /\ a.count["frames"] = h.count["frames"]
<1>. DEFINE delta == Delta(number, h.last_sequence)
            first == h.last_sequence = None
            ahead == delta > 0 /\ delta < SEQUENCES \div 2
            which == IF first \/ ahead THEN {}
                     ELSE IF delta = 0 THEN {"duplicates"} ELSE {"out_of_order"}
            tallied == Tally(h.count, which)
            lost == IF ~first /\ ahead THEN delta - 1 ELSE 0
<1>1. delta \in Nat /\ h.last_sequence \in Int
  BY DeltaRange DEF Host
<1>2. h.count \in [HostCounters -> Int] /\ lost \in Int
  BY <1>1 DEF Host
<1>3. /\ tallied \in [HostCounters -> Int]
      /\ \A c \in HostCounters :
           tallied[c] = h.count[c] + (IF c \in which THEN 1 ELSE 0)
  BY <1>2, TallyIs
<1>4. ahead <=> delta # 0 /\ delta < SEQUENCES \div 2
  BY <1>1
<1>5. HostAccount(h, number) =
        [h EXCEPT !.last_sequence = IF first \/ ahead THEN number
                                    ELSE h.last_sequence,
                  !.count = [tallied EXCEPT !["lost"] = @ + lost]]
  BY Zenon DEF HostAccount
<1>6. /\ "crc_errors" \notin which /\ "frames" \notin which /\ "lost" \notin which
      /\ "duplicates" \in which <=> ~first /\ delta = 0
      /\ "out_of_order" \in which <=> ~first /\ delta # 0 /\ ~ahead
  BY <1>1
<1>. HIDE DEF tallied, lost, which, delta, first, ahead
<1>7. [tallied EXCEPT !["lost"] = @ + lost] \in [HostCounters -> Int]
  BY <1>2, <1>3 DEF HostCounters
<1>8. /\ HostAccount(h, number) \in Host
      /\ HostAccount(h, number).last_sequence =
           IF first \/ ahead THEN number ELSE h.last_sequence
      /\ HostAccount(h, number).count = [tallied EXCEPT !["lost"] = @ + lost]
      /\ HostAccount(h, number).buffer = h.buffer
      /\ HostAccount(h, number).escaped = h.escaped
      /\ HostAccount(h, number).dropping = h.dropping
      /\ HostAccount(h, number).yielded = h.yielded
  BY <1>1, <1>5, <1>7 DEF Host
<1>9. LET n == [tallied EXCEPT !["lost"] = @ + lost]
      IN  /\ n["lost"] = h.count["lost"] + lost
          /\ n["duplicates"] = h.count["duplicates"]
                                 + IF ~first /\ delta = 0 THEN 1 ELSE 0
          /\ n["out_of_order"] = h.count["out_of_order"]
                                   + IF ~first /\ delta # 0 /\ ~ahead THEN 1 ELSE 0
          /\ n["crc_errors"] = h.count["crc_errors"]
          /\ n["frames"] = h.count["frames"]
  BY <1>2, <1>3, <1>6 DEF HostCounters
<1>. QED
  BY <1>4, <1>8, <1>9 DEF lost, delta, first

-----------------------------------------------------------------------------
(* A delimiter.                                                            *)

\* Errors other than a bad CRC are not compared, a bad CRC counts on both sides.
LEMMA ErrorsAgree ==
  ASSUME NEW d \in Decoder, NEW h \in Host, SameReport(d, h),
         NEW e \in Decoder, NEW g \in Host, NEW which, NEW what,
         e.frame = d.frame, e.last_sequence = d.last_sequence,
         g.yielded = h.yielded, g.last_sequence = h.last_sequence,
         e.stats = Count(d.stats, which), g.count = Tally(h.count, what),
         "frames_ok" \notin which, "frames" \notin what,
         "sequence_lost" \notin which, "lost" \notin what,
         "sequence_duplicates" \notin which, "duplicates" \notin what,
         "sequence_out_of_order" \notin which, "out_of_order" \notin what,
         "crc_errors" \in which <=> "crc_errors" \in what
  PROVE  SameReport(e, g)
<1>1. d.stats \in [DecoderStats -> Int] /\ h.count \in [HostCounters -> Int]
  BY DEF Decoder, Host
<1>2. /\ e.stats["frames_ok"] = d.stats["frames_ok"]
      /\ e.stats["sequence_lost"] = d.stats["sequence_lost"]
      /\ e.stats["sequence_duplicates"] = d.stats["sequence_duplicates"]
      /\ e.stats["sequence_out_of_order"] = d.stats["sequence_out_of_order"]
      /\ e.stats["crc_errors"]
           = d.stats["crc_errors"] + (IF "crc_errors" \in which THEN 1 ELSE 0)
  BY <1>1, CountIs DEF DecoderStats
<1>3. /\ g.count["frames"] = h.count["frames"]
      /\ g.count["lost"] = h.count["lost"]
      /\ g.count["duplicates"] = h.count["duplicates"]
      /\ g.count["out_of_order"] = h.count["out_of_order"]
      /\ g.count["crc_errors"]
           = h.count["crc_errors"] + (IF "crc_errors" \in what THEN 1 ELSE 0)
  BY <1>1, TallyIs DEF HostCounters
<1>. QED
  BY <1>2, <1>3 DEF SameReport

\* The verdicts are the same and so is what follows from them.
LEMMA CloseAgrees ==
  ASSUME NEW d \in Decoder, NEW h \in Host, SameReport(d, h), InStep(d, h),
         ~d.escaped, ~d.dropping
  PROVE  Agree(CloseFrame(d), HostClose(h))
<1>. DEFINE verdict == Verdict(d.body)
            number == SequenceOf(d.body)
            closed == [d EXCEPT !.body = <<>>]
            cleared == [h EXCEPT !.buffer = <<>>]
<1>1. HostVerdict(h.buffer) = verdict /\ SequenceOf(h.buffer) = number
  BY DEF InStep, Verdict, HostVerdict
<1>2. verdict \in {"ok", "crc", "format"}
  BY DEF Verdict
<1>3. /\ closed \in Decoder /\ cleared \in Host
      /\ closed.body = <<>> /\ cleared.buffer = <<>>
      /\ closed.escaped = d.escaped /\ cleared.escaped = h.escaped
      /\ closed.dropping = d.dropping /\ cleared.dropping = h.dropping
      /\ closed.stats = d.stats /\ cleared.count = h.count
      /\ closed.frame = d.frame /\ cleared.yielded = h.yielded
      /\ closed.last_sequence = d.last_sequence
      /\ cleared.last_sequence = h.last_sequence
  <2>1. <<>> \in Seq(Bytes)
    OBVIOUS
  <2>2. /\ closed \in Decoder /\ closed.body = <<>> /\ closed.escaped = d.escaped
        /\ closed.dropping = d.dropping /\ closed.stats = d.stats
        /\ closed.frame = d.frame /\ closed.last_sequence = d.last_sequence
    BY <2>1 DEF Decoder
  <2>3. /\ cleared \in Host /\ cleared.buffer = <<>> /\ cleared.escaped = h.escaped
        /\ cleared.dropping = h.dropping /\ cleared.count = h.count
        /\ cleared.yielded = h.yielded /\ cleared.last_sequence = h.last_sequence
    BY <2>1 DEF Host
  <2>. QED
    BY <2>2, <2>3, Zenon
<1>4. SameReport(closed, cleared) /\ InStep(closed, cleared)
  BY <1>3, FramingAssumption DEF SameReport, InStep
<1>5. CASE verdict = "ok"
  <2>. DEFINE a == Account(closed, number)
              b == HostAccount(cleared, number)
              e == [a EXCEPT !.frame = number,
                             !.stats = Count(a.stats, {"frames_ok"})]
              g == [b EXCEPT !.yielded = number,
                             !.count = Tally(b.count, {"frames"})]
  <2>1. number \in Int
    BY <1>5, SequenceIsInt
  <2>2. CloseFrame(d) = e
    BY <1>5 DEF CloseFrame
  <2>3. HostClose(h) = g
    BY <1>1, <1>5 DEF HostClose
  <2>. HIDE DEF number, closed, cleared
  <2>4. /\ a \in Decoder /\ a.body = closed.body /\ a.escaped = closed.escaped
        /\ a.dropping = closed.dropping
    BY <1>3, <2>1, AccountIs
  <2>5. /\ b \in Host /\ b.buffer = cleared.buffer /\ b.escaped = cleared.escaped
        /\ b.dropping = cleared.dropping
    BY <1>3, <2>1, HostAccountIs
  <2>6. /\ a.last_sequence = b.last_sequence
        /\ a.stats["frames_ok"] = b.count["frames"]
        /\ a.stats["sequence_lost"] = b.count["lost"]
        /\ a.stats["sequence_duplicates"] = b.count["duplicates"]
        /\ a.stats["sequence_out_of_order"] = b.count["out_of_order"]
        /\ a.stats["crc_errors"] = b.count["crc_errors"]
    <3>. DEFINE delta == Delta(number, closed.last_sequence)
                first == closed.last_sequence = NoSequence
                ahead == delta # 0 /\ delta < SEQUENCES \div 2
                lost == IF ~first /\ ahead THEN delta - 1 ELSE 0
                dup == IF ~first /\ delta = 0 THEN 1 ELSE 0
                behind == IF ~first /\ delta # 0 /\ ~ahead THEN 1 ELSE 0
                last == IF first \/ ahead THEN number
                        ELSE closed.last_sequence
    <3>1. /\ a.last_sequence = last
          /\ a.stats["sequence_lost"] = closed.stats["sequence_lost"] + lost
          /\ a.stats["sequence_duplicates"] =
               closed.stats["sequence_duplicates"] + dup
          /\ a.stats["sequence_out_of_order"] =
               closed.stats["sequence_out_of_order"] + behind
          /\ a.stats["crc_errors"] = closed.stats["crc_errors"]
          /\ a.stats["frames_ok"] = closed.stats["frames_ok"]
      BY <1>3, <2>1, AccountIs
    <3>2. cleared.last_sequence = closed.last_sequence /\ None = NoSequence
      BY <1>4 DEF SameReport, None, NoSequence
    <3>3. /\ b.last_sequence = last
          /\ b.count["lost"] = cleared.count["lost"] + lost
          /\ b.count["duplicates"] = cleared.count["duplicates"] + dup
          /\ b.count["out_of_order"] = cleared.count["out_of_order"] + behind
          /\ b.count["crc_errors"] = cleared.count["crc_errors"]
          /\ b.count["frames"] = cleared.count["frames"]
      <4>. DEFINE hdelta == Delta(number, cleared.last_sequence)
                  hfirst == cleared.last_sequence = None
                  hahead == hdelta # 0 /\ hdelta < SEQUENCES \div 2
      <4>1. /\ b.last_sequence = IF hfirst \/ hahead THEN number
                                 ELSE cleared.last_sequence
            /\ b.count["lost"] = cleared.count["lost"]
                                   + IF ~hfirst /\ hahead THEN hdelta - 1 ELSE 0
            /\ b.count["duplicates"] = cleared.count["duplicates"]
                                   + IF ~hfirst /\ hdelta = 0 THEN 1 ELSE 0
            /\ b.count["out_of_order"] = cleared.count["out_of_order"]
                     + IF ~hfirst /\ hdelta # 0 /\ ~hahead THEN 1 ELSE 0
            /\ b.count["crc_errors"] = cleared.count["crc_errors"]
            /\ b.count["frames"] = cleared.count["frames"]
        BY <1>3, <2>1, HostAccountIs
      <4>2. hdelta = delta /\ (hfirst <=> first) /\ (hahead <=> ahead)
        BY <3>2
      <4>. HIDE DEF b, delta, first, ahead, hdelta, hfirst, hahead
      <4>. QED
        BY <3>2, <4>1, <4>2
    <3>. HIDE DEF a, b, last, lost, dup, behind
    <3>. QED
      BY <1>4, <3>1, <3>3 DEF SameReport
  <2>. HIDE DEF a, b
  <2>7. /\ Count(a.stats, {"frames_ok"}) \in [DecoderStats -> Int]
        /\ Tally(b.count, {"frames"}) \in [HostCounters -> Int]
    BY <2>4, <2>5, CountIs, TallyIs DEF Decoder, Host
  <2>8. /\ e \in Decoder /\ e.body = a.body /\ e.escaped = a.escaped
        /\ e.dropping = a.dropping /\ e.frame = number
        /\ e.last_sequence = a.last_sequence
        /\ e.stats = Count(a.stats, {"frames_ok"})
    BY <2>1, <2>4, <2>7 DEF Decoder
  <2>9. /\ g \in Host /\ g.buffer = b.buffer /\ g.escaped = b.escaped
        /\ g.dropping = b.dropping /\ g.yielded = number
        /\ g.last_sequence = b.last_sequence
        /\ g.count = Tally(b.count, {"frames"})
    BY <2>1, <2>5, <2>7 DEF Host
  <2>. HIDE DEF e, g
  <2>10. /\ e.stats["frames_ok"] = g.count["frames"]
         /\ e.stats["sequence_lost"] = g.count["lost"]
         /\ e.stats["sequence_duplicates"] = g.count["duplicates"]
         /\ e.stats["sequence_out_of_order"] = g.count["out_of_order"]
         /\ e.stats["crc_errors"] = g.count["crc_errors"]
    <3>1. a.stats \in [DecoderStats -> Int] /\ b.count \in [HostCounters -> Int]
      BY <2>4, <2>5 DEF Decoder, Host
    <3>2. /\ e.stats["frames_ok"] = a.stats["frames_ok"] + 1
          /\ e.stats["sequence_lost"] = a.stats["sequence_lost"]
          /\ e.stats["sequence_duplicates"] = a.stats["sequence_duplicates"]
          /\ e.stats["sequence_out_of_order"] = a.stats["sequence_out_of_order"]
          /\ e.stats["crc_errors"] = a.stats["crc_errors"]
      BY <2>8, <3>1, CountIs DEF DecoderStats
    <3>3. /\ g.count["frames"] = b.count["frames"] + 1
          /\ g.count["lost"] = b.count["lost"]
          /\ g.count["duplicates"] = b.count["duplicates"]
          /\ g.count["out_of_order"] = b.count["out_of_order"]
          /\ g.count["crc_errors"] = b.count["crc_errors"]
      BY <2>9, <3>1, TallyIs DEF HostCounters
    <3>. QED
      BY <2>6, <3>2, <3>3
  <2>11. SameReport(e, g)
    BY <2>6, <2>8, <2>9, <2>10 DEF SameReport
  <2>12. InStep(e, g)
    BY <1>4, <2>4, <2>5, <2>8, <2>9 DEF InStep
  <2>. QED
    BY <2>2, <2>3, <2>8, <2>9, <2>11, <2>12 DEF Agree
<1>6. ASSUME NEW which, NEW what,
             "frames_ok" \notin which, "frames" \notin what,
             "sequence_lost" \notin which, "lost" \notin what,
             "sequence_duplicates" \notin which, "duplicates" \notin what,
             "sequence_out_of_order" \notin which, "out_of_order" \notin what,
             "crc_errors" \in which <=> "crc_errors" \in what
      PROVE  Agree([closed EXCEPT !.stats = Count(closed.stats, which)],
                   [cleared EXCEPT !.count = Tally(cleared.count, what)])
  <2>. DEFINE e == [closed EXCEPT !.stats = Count(closed.stats, which)]
              g == [cleared EXCEPT !.count = Tally(cleared.count, what)]
  <2>. HIDE DEF closed, cleared
  <2>1. /\ Count(closed.stats, which) \in [DecoderStats -> Int]
        /\ Tally(cleared.count, what) \in [HostCounters -> Int]
    BY <1>3, CountIs, TallyIs DEF Decoder, Host
  <2>2. /\ e \in Decoder /\ e.body = closed.body /\ e.escaped = closed.escaped
        /\ e.dropping = closed.dropping /\ e.frame = closed.frame
        /\ e.last_sequence = closed.last_sequence
        /\ e.stats = Count(closed.stats, which)
    BY <1>3, <2>1 DEF Decoder
  <2>3. /\ g \in Host /\ g.buffer = cleared.buffer /\ g.escaped = cleared.escaped
        /\ g.dropping = cleared.dropping /\ g.yielded = cleared.yielded
        /\ g.last_sequence = cleared.last_sequence
        /\ g.count = Tally(cleared.count, what)
    BY <1>3, <2>1 DEF Host
  <2>. HIDE DEF e, g
  <2>4. SameReport(e, g)
    BY <1>3, <1>4, <1>6, <2>2, <2>3, ErrorsAgree
  <2>5. InStep(e, g)
    BY <1>4, <2>2, <2>3 DEF InStep
  <2>. QED
    BY <2>2, <2>3, <2>4, <2>5 DEF Agree, e, g
<1>7. CASE verdict = "crc"
  <2>1. CloseFrame(d) =
          [closed EXCEPT !.stats = Count(closed.stats,
                                         {"crc_errors", "resync_events"})]
    BY <1>7 DEF CloseFrame
  <2>2. HostClose(h) =
          [cleared EXCEPT !.count = Tally(cleared.count,
                                      {"errors", "crc_errors", "resync_events"})]
    BY <1>1, <1>7 DEF HostClose
  <2>3. Agree([closed EXCEPT !.stats =
                 Count(closed.stats, {"crc_errors", "resync_events"})],
              [cleared EXCEPT !.count =
                 Tally(cleared.count, {"errors", "crc_errors", "resync_events"})])
    <3>. HIDE DEF closed, cleared
    <3>. QED
      BY <1>6
  <2>. QED
    BY <2>1, <2>2, <2>3, Zenon
<1>8. CASE verdict = "format"
  <2>1. CloseFrame(d) =
          [closed EXCEPT !.stats = Count(closed.stats,
                                         {"format_errors", "resync_events"})]
    BY <1>8 DEF CloseFrame
  <2>2. HostClose(h) =
          [cleared EXCEPT !.count = Tally(cleared.count,
                                   {"errors", "format_errors", "resync_events"})]
    BY <1>1, <1>8 DEF HostClose
  <2>3. Agree([closed EXCEPT !.stats =
                 Count(closed.stats, {"format_errors", "resync_events"})],
              [cleared EXCEPT !.count =
                 Tally(cleared.count, {"errors", "format_errors", "resync_events"})])
    <3>. HIDE DEF closed, cleared
    <3>. QED
      BY <1>6
  <2>. QED
    BY <2>1, <2>2, <2>3, Zenon
<1>. QED
  BY <1>2, <1>5, <1>7, <1>8

-----------------------------------------------------------------------------
(* The other bytes change what is collected and count errors.              *)

Set(d, body, escaped, dropping, which) ==
    [d EXCEPT !.body = body, !.escaped = escaped, !.dropping = dropping,
              !.stats = Count(d.stats, which)]

HostSet(h, buffer, escaped, dropping, which) ==
    [h EXCEPT !.buffer = buffer, !.escaped = escaped, !.dropping = dropping,
              !.count = Tally(h.count, which)]

Errors == {"overflow_errors", "escape_errors", "format_errors",
           "resync_events", "errors"}

\* Such a change shows in no report.
LEMMA SetAgrees ==
  ASSUME NEW d \in Decoder, NEW h \in Host, SameReport(d, h),
         NEW body \in Seq(Bytes), NEW buffer \in Seq(Bytes),
         NEW escaped \in BOOLEAN, NEW dropping \in BOOLEAN,
         NEW hesc \in BOOLEAN, NEW hdrop \in BOOLEAN,
         NEW which \in SUBSET Errors, NEW what \in SUBSET Errors
  PROVE  LET e == Set(d, body, escaped, dropping, which)
             g == HostSet(h, buffer, hesc, hdrop, what)
         IN  /\ e \in Decoder /\ g \in Host /\ SameReport(e, g)
             /\ e.body = body /\ e.escaped = escaped /\ e.dropping = dropping
             /\ g.buffer = buffer /\ g.escaped = hesc /\ g.dropping = hdrop
<1>. DEFINE e == Set(d, body, escaped, dropping, which)
            g == HostSet(h, buffer, hesc, hdrop, what)
<1>1. /\ Count(d.stats, which) \in [DecoderStats -> Int]
      /\ Tally(h.count, what) \in [HostCounters -> Int]
  BY CountIs, TallyIs DEF Decoder, Host
<1>2. /\ e \in Decoder /\ e.body = body /\ e.escaped = escaped
      /\ e.dropping = dropping /\ e.stats = Count(d.stats, which)
      /\ e.frame = d.frame /\ e.last_sequence = d.last_sequence
  BY <1>1 DEF Decoder, Set
<1>3. /\ g \in Host /\ g.buffer = buffer /\ g.escaped = hesc
      /\ g.dropping = hdrop /\ g.count = Tally(h.count, what)
      /\ g.yielded = h.yielded /\ g.last_sequence = h.last_sequence
  BY <1>1 DEF Host, HostSet
<1>. HIDE DEF e, g
<1>4. /\ "frames_ok" \notin which /\ "frames" \notin what
      /\ "sequence_lost" \notin which /\ "lost" \notin what
      /\ "sequence_duplicates" \notin which /\ "duplicates" \notin what
      /\ "sequence_out_of_order" \notin which /\ "out_of_order" \notin what
      /\ "crc_errors" \notin which /\ "crc_errors" \notin what
  BY DEF Errors
<1>5. SameReport(e, g)
  BY <1>2, <1>3, <1>4, ErrorsAgree
<1>. QED
  BY <1>2, <1>3, <1>5 DEF e, g

\* They stay in step ...
LEMMA SetInStep ==
  ASSUME NEW d \in Decoder, NEW h \in Host, SameReport(d, h),
         NEW body \in Seq(Bytes), Len(body) <= RAW_LENGTH,
         NEW escaped \in BOOLEAN, NEW dropping \in BOOLEAN,
         dropping => ~escaped /\ body = <<>>,
         NEW which \in SUBSET Errors, NEW what \in SUBSET Errors
  PROVE  Agree(Set(d, body, escaped, dropping, which),
               HostSet(h, body, escaped, dropping, what))
<1>. DEFINE e == Set(d, body, escaped, dropping, which)
            g == HostSet(h, body, escaped, dropping, what)
<1>1. /\ e \in Decoder /\ g \in Host /\ SameReport(e, g)
      /\ e.body = body /\ e.escaped = escaped /\ e.dropping = dropping
      /\ g.buffer = body /\ g.escaped = escaped /\ g.dropping = dropping
  BY SetAgrees
<1>. HIDE DEF e, g
<1>2. InStep(e, g)
  BY <1>1 DEF InStep
<1>. QED
  BY <1>1, <1>2 DEF Agree, e, g

\* ... drop the frame together ...
LEMMA SetDropping ==
  ASSUME NEW d \in Decoder, NEW h \in Host, SameReport(d, h),
         NEW which \in SUBSET Errors, NEW what \in SUBSET Errors
  PROVE  Agree(Set(d, <<>>, FALSE, TRUE, which),
               HostSet(h, <<>>, FALSE, TRUE, what))
<1>1. <<>> \in Seq(Bytes) /\ Len(<<>>) <= RAW_LENGTH
  BY FramingAssumption
<1>2. TRUE \in BOOLEAN /\ FALSE \in BOOLEAN
  OBVIOUS
<1>3. TRUE => ~FALSE /\ <<>> = <<>>
  OBVIOUS
<1>. QED
  BY <1>1, <1>2, <1>3, SetInStep, Zenon

\* ... or the host goes on alone.
LEMMA SetOverlong ==
  ASSUME NEW d \in Decoder, NEW h \in Host, SameReport(d, h),
         NEW buffer \in Seq(Bytes), Len(buffer) > RAW_LENGTH,
         NEW escaped \in BOOLEAN,
         NEW which \in SUBSET Errors, NEW what \in SUBSET Errors
  PROVE  Agree(Set(d, <<>>, FALSE, TRUE, which),
               HostSet(h, buffer, escaped, FALSE, what))
<1>1. ASSUME NEW body \in Seq(Bytes), body = <<>>,
             NEW no \in BOOLEAN, NEW yes \in BOOLEAN, ~no, yes
      PROVE  Agree(Set(d, body, no, yes, which),
                   HostSet(h, buffer, escaped, no, what))
  <2>. DEFINE e == Set(d, body, no, yes, which)
              g == HostSet(h, buffer, escaped, no, what)
  <2>1. /\ e \in Decoder /\ g \in Host /\ SameReport(e, g)
        /\ e.body = body /\ e.escaped = no /\ e.dropping = yes
        /\ g.buffer = buffer /\ g.escaped = escaped /\ g.dropping = no
    <3>1. \A esc, drop, hdrop \in BOOLEAN :
            LET x == Set(d, body, esc, drop, which)
                y == HostSet(h, buffer, escaped, hdrop, what)
            IN  /\ x \in Decoder /\ y \in Host /\ SameReport(x, y)
                /\ x.body = body /\ x.escaped = esc /\ x.dropping = drop
                /\ y.buffer = buffer /\ y.escaped = escaped /\ y.dropping = hdrop
      BY SetAgrees, SMTT(60)
    <3>. QED
      BY <3>1
  <2>. HIDE DEF e, g
  <2>2. HostOverlong(e, g)
    BY <1>1, <2>1 DEF HostOverlong
  <2>. QED
    BY <2>1, <2>2 DEF Agree, e, g
<1>2. TRUE \in BOOLEAN /\ FALSE \in BOOLEAN /\ ~FALSE /\ TRUE
  OBVIOUS
<1>3. <<>> \in Seq(Bytes)
  OBVIOUS
<1>. QED
  BY <1>1, <1>2, <1>3, Zenon

\* A decoder that does not change is one of them.
LEMMA SetNothing ==
  ASSUME NEW d \in Decoder, NEW h \in Host
  PROVE  /\ d = Set(d, d.body, d.escaped, d.dropping, {})
         /\ h = HostSet(h, h.buffer, h.escaped, h.dropping, {})
<1>1. Count(d.stats, {}) = d.stats /\ Tally(h.count, {}) = h.count
  BY CountIs, TallyIs, SMTT(60) DEF Decoder, Host
<1>. QED
  BY <1>1 DEF Set, HostSet, Decoder, Host

\* A delimiter leaves them in agreement.
LEMMA DelimiterAgrees ==
  ASSUME NEW d, NEW h, Agree(d, h)
  PROVE  Agree(Delimiter(d), HostDelimiter(h))
<1>1. d \in Decoder /\ h \in Host /\ SameReport(d, h)
  BY DEF Agree
<1>2. /\ d.body \in Seq(Bytes) /\ h.buffer \in Seq(Bytes)
      /\ <<>> \in Seq(Bytes) /\ Len(<<>>) <= RAW_LENGTH
  BY <1>1, FramingAssumption DEF Decoder, Host
<1>3. ASSUME NEW which \in SUBSET Errors, NEW what \in SUBSET Errors
      PROVE  Agree(Set(d, <<>>, FALSE, FALSE, which),
                   HostSet(h, <<>>, FALSE, FALSE, what))
  BY <1>1, <1>2, SetInStep
<1>4. CASE InStep(d, h) /\ d.escaped
  <2>1. Delimiter(d) = Set(d, <<>>, FALSE, FALSE,
                           {"escape_errors", "resync_events"})
    BY <1>1, <1>4 DEF Delimiter, Set, InStep, Decoder
  <2>2. HostDelimiter(h) = HostSet(h, <<>>, FALSE, FALSE,
                               {"errors", "escape_errors", "resync_events"})
    BY <1>1, <1>4 DEF HostDelimiter, HostSet, InStep, Host
  <2>. QED
    BY <1>3, <2>1, <2>2 DEF Errors
<1>5. CASE InStep(d, h) /\ d.dropping
  <2>1. Delimiter(d) = Set(d, <<>>, FALSE, FALSE, {"resync_events"})
    BY <1>1, <1>5 DEF Delimiter, Set, InStep, Decoder
  <2>2. HostDelimiter(h) = HostSet(h, <<>>, FALSE, FALSE, {"resync_events"})
    BY <1>1, <1>5 DEF HostDelimiter, HostSet, InStep, Host
  <2>. QED
    BY <1>3, <2>1, <2>2 DEF Errors
<1>6. CASE InStep(d, h) /\ ~d.escaped /\ ~d.dropping /\ d.body = <<>>
  BY <1>6 DEF Delimiter, HostDelimiter, InStep
<1>7. CASE InStep(d, h) /\ ~d.escaped /\ ~d.dropping /\ d.body # <<>>
  <2>1. Delimiter(d) = CloseFrame(d) /\ HostDelimiter(h) = HostClose(h)
    BY <1>7 DEF Delimiter, HostDelimiter, InStep
  <2>. QED
    BY <1>1, <1>7, <2>1, CloseAgrees
<1>8. CASE HostOverlong(d, h)
  <2>1. Delimiter(d) = Set(d, <<>>, FALSE, FALSE, {"resync_events"})
    BY <1>1, <1>8 DEF Delimiter, Set, HostOverlong, Decoder
  <2>2. CASE h.escaped
    <3>1. HostDelimiter(h) = HostSet(h, <<>>, FALSE, FALSE,
                               {"errors", "escape_errors", "resync_events"})
      BY <1>1, <1>8, <2>2 DEF HostDelimiter, HostSet, HostOverlong, Host
    <3>. QED
      BY <1>3, <2>1, <3>1 DEF Errors
  <2>3. CASE ~h.escaped
    <3>1. HostVerdict(h.buffer) = "format" /\ h.buffer # <<>>
      BY <1>2, <1>8, FramingAssumption DEF HostVerdict, HostOverlong
    <3>2. HostDelimiter(h) = HostClose(h)
      BY <1>8, <2>3, <3>1 DEF HostDelimiter, HostOverlong
    <3>3. HostClose(h) = HostSet(h, <<>>, FALSE, FALSE,
                               {"errors", "format_errors", "resync_events"})
      BY <1>1, <1>8, <2>3, <3>1 DEF HostClose, HostSet, HostOverlong, Host
    <3>. QED
      BY <1>3, <2>1, <3>2, <3>3 DEF Errors
  <2>. QED
    BY <2>2, <2>3
<1>. QED
  BY <1>4, <1>5, <1>6, <1>7, <1>8 DEF Agree

-----------------------------------------------------------------------------
(* Any other byte.                                                         *)

\* Bytes that are no delimiter leave them in agreement.
LEMMA ContentAgrees ==
  ASSUME NEW d, NEW h, Agree(d, h), NEW byte \in Bytes
  PROVE  Agree(Content(d, byte), HostContent(h, byte))
<1>1. d \in Decoder /\ h \in Host /\ SameReport(d, h)
  BY DEF Agree
<1>2. /\ d.body \in Seq(Bytes) /\ h.buffer \in Seq(Bytes)
      /\ <<>> \in Seq(Bytes) /\ Len(<<>>) = 0 /\ RAW_LENGTH \in Nat \ {0}
      /\ d.escaped \in BOOLEAN /\ h.escaped \in BOOLEAN
      /\ d.dropping \in BOOLEAN /\ h.dropping \in BOOLEAN
  BY <1>1, FramingAssumption DEF Decoder, Host
<1>3. ASSUME NEW add \in Bytes
      PROVE  /\ Append(d.body, add) \in Seq(Bytes)
             /\ Append(h.buffer, add) \in Seq(Bytes)
             /\ Len(Append(d.body, add)) = Len(d.body) + 1
             /\ Len(Append(h.buffer, add)) = Len(h.buffer) + 1
  BY <1>2
<1>4. byte \in Escapes => Flip(byte) \in Bytes
  BY DEF Escapes, Flip, Bytes
<1>5. \A why \in {"overflow_errors", "escape_errors"} :
        /\ Drop(d, why) = Set(d, <<>>, FALSE, TRUE, {why})
        /\ HostDrop(h, why) = HostSet(h, <<>>, FALSE, TRUE, {"errors", why})
  BY <1>1 DEF Drop, HostDrop, Set, HostSet, Decoder, Host
<1>6. ASSUME NEW why \in {"overflow_errors", "escape_errors"}
      PROVE  Agree(Drop(d, why), HostDrop(h, why))
  <2>1. {why} \in SUBSET Errors /\ {"errors", why} \in SUBSET Errors
    BY DEF Errors
  <2>2. Agree(Set(d, <<>>, FALSE, TRUE, {why}),
              HostSet(h, <<>>, FALSE, TRUE, {"errors", why}))
    BY <1>1, <1>2, <2>1, SetDropping
  <2>. QED
    BY <1>5, <2>2
<1>7. ASSUME NEW add \in Bytes, InStep(d, h), ~d.dropping,
             Len(d.body) < RAW_LENGTH
      PROVE  Agree(Set(d, Append(d.body, add), FALSE, FALSE, {}),
                   HostSet(h, Append(h.buffer, add), FALSE, FALSE, {}))
  <2>1. /\ Append(d.body, add) \in Seq(Bytes)
        /\ Append(h.buffer, add) \in Seq(Bytes)
        /\ Len(Append(d.body, add)) <= RAW_LENGTH
        /\ Append(d.body, add) = Append(h.buffer, add)
        /\ {} \in SUBSET Errors
    BY <1>2, <1>3, <1>7 DEF InStep
  <2>2. Agree(Set(d, Append(d.body, add), FALSE, FALSE, {}),
              HostSet(h, Append(d.body, add), FALSE, FALSE, {}))
    BY <1>1, <2>1, SetInStep
  <2>. QED
    BY <2>1, <2>2
<1>8. Count(d.stats, {}) = d.stats /\ Tally(h.count, {}) = h.count
  BY <1>1, CountIs, TallyIs, SMTT(60) DEF Decoder, Host
<1>9. ASSUME NEW add, ~d.dropping, Len(d.body) < RAW_LENGTH
       PROVE  Store(d, add) = Set(d, Append(d.body, add), FALSE, FALSE, {})
  <2>1. ~(Len(d.body) >= RAW_LENGTH)
    BY <1>2, <1>9
  <2>2. Store(d, add) = [d EXCEPT !.escaped = FALSE,
                                  !.body = Append(d.body, add)]
    BY <2>1, Zenon DEF Store
  <2>. QED
    BY <1>1, <1>8, <1>9, <2>2 DEF Set, Decoder
<1>10. ASSUME NEW add, ~(Len(d.body) < RAW_LENGTH)
       PROVE  Store(d, add) = Drop(d, "overflow_errors")
  BY <1>2, <1>10 DEF Store
<1>11. CASE InStep(d, h) /\ d.dropping
  BY <1>11 DEF Content, HostContent, InStep
<1>12. CASE InStep(d, h) /\ ~d.dropping /\ d.escaped
  <2>1. CASE byte \in Escapes /\ Len(d.body) < RAW_LENGTH
    <3>1. Content(d, byte) = Set(d, Append(d.body, Flip(byte)), FALSE, FALSE, {})
      BY <1>12, <1>9, <2>1 DEF Content
    <3>2. HostContent(h, byte) =
            HostSet(h, Append(h.buffer, Flip(byte)), FALSE, FALSE, {})
      BY <1>1, <1>8, <1>12, <2>1 DEF HostContent, HostSet, InStep, Host
    <3>. QED
      BY <1>4, <1>7, <1>12, <2>1, <3>1, <3>2
  <2>2. CASE byte \in Escapes /\ ~(Len(d.body) < RAW_LENGTH)
    <3>1. Content(d, byte) = Set(d, <<>>, FALSE, TRUE, {"overflow_errors"})
      BY <1>5, <1>12, <1>10, <2>2 DEF Content
    <3>2. HostContent(h, byte) =
            HostSet(h, Append(h.buffer, Flip(byte)), FALSE, FALSE, {})
      BY <1>1, <1>8, <1>12, <2>2 DEF HostContent, HostSet, InStep, Host
    <3>3. /\ Append(h.buffer, Flip(byte)) \in Seq(Bytes)
          /\ Len(Append(h.buffer, Flip(byte))) > RAW_LENGTH
      BY <1>2, <1>3, <1>4, <1>12, <2>2 DEF InStep
    <3>4. {"overflow_errors"} \in SUBSET Errors /\ {} \in SUBSET Errors
      BY DEF Errors
    <3>. QED
      BY <1>1, <3>1, <3>2, <3>3, <3>4, SetOverlong
  <2>3. CASE byte \notin Escapes
    <3>1. /\ Content(d, byte) = Drop(d, "escape_errors")
          /\ HostContent(h, byte) = HostDrop(h, "escape_errors")
      BY <1>12, <2>3 DEF Content, HostContent, InStep
    <3>. QED
      BY <1>6, <3>1
  <2>. QED
    BY <2>1, <2>2, <2>3
<1>13. CASE InStep(d, h) /\ ~d.dropping /\ ~d.escaped /\ byte = "ESC"
  <2>1. /\ Content(d, byte) = Set(d, d.body, TRUE, FALSE, {})
        /\ HostContent(h, byte) = HostSet(h, h.buffer, TRUE, FALSE, {})
    BY <1>1, <1>2, <1>8, <1>13
       DEF Content, HostContent, Set, HostSet, InStep, Decoder, Host
  <2>2. {} \in SUBSET Errors
    OBVIOUS
  <2>3. d.body = h.buffer /\ Len(d.body) <= RAW_LENGTH
    BY <1>13 DEF InStep
  <2>4. Agree(Set(d, d.body, TRUE, FALSE, {}),
              HostSet(h, d.body, TRUE, FALSE, {}))
    BY <1>1, <1>2, <2>2, <2>3, SetInStep
  <2>. QED
    BY <2>1, <2>3, <2>4
<1>14. CASE InStep(d, h) /\ ~d.dropping /\ ~d.escaped /\ byte # "ESC"
  <2>1. CASE Len(d.body) < RAW_LENGTH
    <3>1. Content(d, byte) = Set(d, Append(d.body, byte), FALSE, FALSE, {})
      BY <1>14, <1>9, <2>1 DEF Content
    <3>2. HostContent(h, byte) =
            HostSet(h, Append(h.buffer, byte), FALSE, FALSE, {})
      BY <1>1, <1>8, <1>14, <2>1 DEF HostContent, HostSet, InStep, Host
    <3>. QED
      BY <1>7, <1>14, <2>1, <3>1, <3>2
  <2>2. CASE ~(Len(d.body) < RAW_LENGTH)
    <3>1. /\ Content(d, byte) = Drop(d, "overflow_errors")
          /\ HostContent(h, byte) = HostDrop(h, "overflow_errors")
      BY <1>14, <1>10, <2>2 DEF Content, HostContent, InStep
    <3>. QED
      BY <1>6, <3>1
  <2>. QED
    BY <2>1, <2>2
<1>15. CASE HostOverlong(d, h)
  <2>1. Content(d, byte) = Set(d, <<>>, FALSE, TRUE, {})
    BY <1>1, <1>15, SetNothing DEF Content, HostOverlong, Decoder
  <2>2. {} \in SUBSET Errors
    OBVIOUS
  <2>3. \A why \in {"overflow_errors", "escape_errors"} :
          HostContent(h, byte) = HostDrop(h, why)
            => Agree(Content(d, byte), HostContent(h, byte))
    <3>1. ASSUME NEW why \in {"overflow_errors", "escape_errors"}
          PROVE  Agree(Set(d, <<>>, FALSE, TRUE, {}),
                       HostSet(h, <<>>, FALSE, TRUE, {"errors", why}))
      <4>1. {"errors", why} \in SUBSET Errors
        BY DEF Errors
      <4>. QED
        BY <1>1, <1>2, <2>2, <4>1, SetDropping
    <3>. QED
      BY <1>5, <2>1, <3>1
  <2>4. ASSUME NEW buffer \in Seq(Bytes), Len(buffer) > RAW_LENGTH,
               NEW escaped \in BOOLEAN,
               HostContent(h, byte) = HostSet(h, buffer, escaped, FALSE, {})
        PROVE  Agree(Content(d, byte), HostContent(h, byte))
    BY <1>1, <2>1, <2>2, <2>4, SetOverlong
  <2>5. CASE h.escaped /\ byte \in Escapes
    <3>1. HostContent(h, byte) =
            HostSet(h, Append(h.buffer, Flip(byte)), FALSE, FALSE, {})
      BY <1>1, <1>8, <1>15, <2>5 DEF HostContent, HostSet, HostOverlong, Host
    <3>2. /\ Append(h.buffer, Flip(byte)) \in Seq(Bytes)
          /\ Len(Append(h.buffer, Flip(byte))) > RAW_LENGTH
      BY <1>2, <1>3, <1>4, <1>15, <2>5 DEF HostOverlong
    <3>. QED
      BY <2>4, <3>1, <3>2
  <2>6. CASE h.escaped /\ byte \notin Escapes
    <3>1. HostContent(h, byte) = HostDrop(h, "escape_errors")
      BY <1>15, <2>6 DEF HostContent, HostOverlong
    <3>. QED
      BY <2>3, <3>1
  <2>7. CASE ~h.escaped /\ byte = "ESC"
    <3>1. HostContent(h, byte) = HostSet(h, h.buffer, TRUE, FALSE, {})
      BY <1>1, <1>8, <1>15, <2>7 DEF HostContent, HostSet, HostOverlong, Host
    <3>. QED
      BY <1>2, <1>15, <2>4, <3>1 DEF HostOverlong
  <2>8. CASE ~h.escaped /\ byte # "ESC"
    <3>1. HostContent(h, byte) = HostDrop(h, "overflow_errors")
      BY <1>2, <1>15, <2>8 DEF HostContent, HostOverlong
    <3>. QED
      BY <2>3, <3>1
  <2>. QED
    BY <2>5, <2>6, <2>7, <2>8
<1>. QED
  BY <1>11, <1>12, <1>13, <1>14, <1>15 DEF Agree

-----------------------------------------------------------------------------
(* What the sender puts on the line.                                       *)

\* What is in a concatenation, and where.
LEMMA ConcatIs ==
  ASSUME NEW S, NEW s \in Seq(S), NEW t \in Seq(S)
  PROVE  /\ s \o t \in Seq(S) /\ Len(s) \in Nat /\ Len(t) \in Nat
         /\ Len(s \o t) = Len(s) + Len(t)
         /\ \A p \in 1 .. Len(s) : (s \o t)[p] = s[p]
         /\ \A p \in 1 .. Len(t) : (s \o t)[Len(s) + p] = t[p]
OBVIOUS

\* append_escaped writes one byte or two, and ^ 0x20 is its own inverse.
LEMMA EscapeByteIs ==
  ASSUME NEW byte \in Bytes
  PROVE  /\ EscapeByte(byte) \in Seq(Bytes)
         /\ byte \in Reserved =>
              /\ EscapeByte(byte) = <<"ESC", Flip(byte)>>
              /\ Flip(byte) \in Escapes /\ Flip(Flip(byte)) = byte
         /\ byte \notin Reserved => EscapeByte(byte) = <<byte>>
<1>1. byte \in Reserved =>
        /\ EscapeByte(byte) = <<"ESC", Flip(byte)>>
        /\ Flip(byte) \in Escapes /\ Flip(Flip(byte)) = byte
        /\ Flip(byte) \in Bytes /\ "ESC" \in Bytes
  BY DEF EscapeByte, Reserved, Escapes, Flip, Bytes
<1>2. byte \notin Reserved => EscapeByte(byte) = <<byte>>
  BY DEF EscapeByte
<1>3. EscapeByte(byte) \in Seq(Bytes)
  <2>1. \A x, y \in Bytes : <<x>> \in Seq(Bytes) /\ <<x, y>> \in Seq(Bytes)
    OBVIOUS
  <2>. QED
    BY <1>1, <1>2, <2>1
<1>. QED
  BY <1>1, <1>2, <1>3

\* The loop over the bytes of a body.
LEMMA EscapedIs ==
  ASSUME NEW body \in Seq(Bytes)
  PROVE  /\ Escaped(body) \in [0 .. Len(body) -> Seq(Bytes)]
         /\ Escaped(body)[0] = <<>>
         /\ \A k \in 1 .. Len(body) :
              Escaped(body)[k] = Escaped(body)[k - 1] \o EscapeByte(body[k])
<1>. DEFINE n == Len(body)
            All == Seq(Bytes)
            none == <<>>
            Add(f, k) == f \o EscapeByte(body[k])
            step == [x \in (1 .. n) \X All |-> Add(x[2], x[1])]
            Loop(f) == f = [k \in 0 .. n |-> IF k = 0 THEN none
                                             ELSE Add(f[k - 1], k)]
            e == Escaped(body)
<1>1. n \in Nat /\ none \in All
  OBVIOUS
<1>2. \A f \in All, k \in 1 .. n : Add(f, k) \in All
  BY EscapeByteIs
<1>3. e = CHOOSE f : Loop(f)
  BY DEF Escaped
<1>4. \A f, k : Add(f, k) = f \o EscapeByte(body[k])
  OBVIOUS
<1>. HIDE DEF n, All, none, Add, e
<1>5. step \in [(1 .. n) \X All -> All]
  BY <1>2
<1>6. PICK f \in [0 .. n -> All] :
        f[0] = none /\ \A k \in 1 .. n : f[k] = step[<<k, f[k - 1]>>]
  <2>1. \E f : Recursion(f, n, All, none, step)
    <3>. HIDE DEF step
    <3>. QED
      BY <1>1, <1>5, RecursionTo
  <2>. HIDE DEF step
  <2>. QED
    BY <2>1 DEF Recursion
<1>7. \A k \in 1 .. n : f[k] = Add(f[k - 1], k)
  <2>. TAKE k \in 1 .. n
  <2>1. k - 1 \in 0 .. n
    BY <1>1
  <2>2. <<k, f[k - 1]>> \in (1 .. n) \X All
    BY <1>6, <2>1
  <2>3. step[<<k, f[k - 1]>>] = Add(f[k - 1], k)
    BY <2>2
  <2>. QED
    BY <1>6, <2>3
<1>8. Loop(f)
  BY <1>1, <1>6, <1>7
<1>9. Loop(e)
  <2>. HIDE DEF Loop
  <2>. QED
    BY <1>3, <1>8
<1>10. e[0] = none /\ \A k \in 1 .. n : e[k] = Add(e[k - 1], k)
  BY <1>1, <1>9
<1>11. \A k \in 0 .. n : e[k] \in All
  <2>1. \A k \in 1 .. n : e[k - 1] \in All => e[k] \in All
    BY <1>2, <1>10
  <2>. QED
    BY <1>1, <1>10, <2>1, LoopKeeps
<1>12. e \in [0 .. n -> All]
  BY <1>9, <1>11
<1>. QED
  BY <1>4, <1>10, <1>12 DEF n, All, none, e

\* Each byte of the body adds one byte, or two if it is reserved.
LEMMA EscapedStep ==
  ASSUME NEW body \in Seq(Bytes), NEW k \in 0 .. Len(body) - 1
  PROVE  LET e == Escaped(body)
             add == IF body[k + 1] \in Reserved THEN 2 ELSE 1
         IN  /\ Len(e[k]) \in Nat
             /\ Len(e[k + 1]) = Len(e[k]) + add
             /\ \A p \in 1 .. Len(e[k]) : e[k + 1][p] = e[k][p]
             /\ e[k + 1][Len(e[k]) + 1] = IF body[k + 1] \in Reserved THEN "ESC"
                                          ELSE body[k + 1]
             /\ body[k + 1] \in Reserved =>
                  e[k + 1][Len(e[k]) + 2] = Flip(body[k + 1])
<1>. DEFINE e == Escaped(body)
            byte == body[k + 1]
            more == EscapeByte(byte)
<1>1. k \in 0 .. Len(body) /\ k + 1 \in 1 .. Len(body) /\ (k + 1) - 1 = k
  OBVIOUS
<1>2. byte \in Bytes
  BY <1>1
<1>3. e[k] \in Seq(Bytes) /\ e[k + 1] = e[k] \o more
  BY <1>1, EscapedIs
<1>. HIDE DEF e, byte, more
<1>4. /\ more \in Seq(Bytes)
      /\ byte \in Reserved => more = <<"ESC", Flip(byte)>>
      /\ byte \notin Reserved => more = <<byte>>
  BY <1>2, EscapeByteIs DEF more
<1>5. /\ more \in Seq(Bytes)
      /\ byte \in Reserved => Len(more) = 2 /\ more[1] = "ESC" /\ more[2] = Flip(byte)
      /\ byte \notin Reserved => Len(more) = 1 /\ more[1] = byte
  BY <1>4
<1>6. /\ Len(e[k]) \in Nat
      /\ Len(e[k + 1]) = Len(e[k]) + Len(more)
      /\ \A p \in 1 .. Len(e[k]) : e[k + 1][p] = e[k][p]
      /\ \A p \in 1 .. Len(more) : e[k + 1][Len(e[k]) + p] = more[p]
  BY <1>3, <1>5
<1>7. /\ Len(e[k + 1]) = Len(e[k]) + (IF byte \in Reserved THEN 2 ELSE 1)
      /\ e[k + 1][Len(e[k]) + 1] = more[1]
      /\ byte \in Reserved => e[k + 1][Len(e[k]) + 2] = more[2]
  <2>1. /\ Len(more) \in Nat /\ Len(more) >= 1
        /\ byte \in Reserved => Len(more) >= 2
    BY <1>5
  <2>2. 1 \in 1 .. Len(more) /\ (byte \in Reserved => 2 \in 1 .. Len(more))
    BY <2>1, SMTT(30)
  <2>3. Len(e[k + 1]) = Len(e[k]) + (IF byte \in Reserved THEN 2 ELSE 1)
    BY <1>5, <1>6
  <2>. QED
    BY <1>6, <2>2, <2>3
<1>. QED
  BY <1>5, <1>6, <1>7 DEF byte, e

\* What has been appended stays, and grows with every byte.
LEMMA EscapedGrows ==
  ASSUME NEW body \in Seq(Bytes), NEW k \in 0 .. Len(body)
  PROVE  LET e == Escaped(body)
         IN  /\ Len(e[k]) \in k .. 2 * k
             /\ \A j \in 0 .. k :
                  /\ Len(e[j]) + (k - j) <= Len(e[k])
                  /\ \A p \in 1 .. Len(e[j]) : e[k][p] = e[j][p]
<1>. DEFINE e == Escaped(body)
            len(i) == Len(e[i])
            Grown(m) == /\ len(m) \in m .. 2 * m
                        /\ \A j \in 0 .. m :
                             /\ len(j) + (m - j) <= len(m)
                             /\ \A p \in 1 .. len(j) : e[m][p] = e[j][p]
            T == {m \in Nat : Grown(m)}
            n == Len(body)
<1>1. n \in Nat /\ \A m \in 0 .. n : len(m) \in Nat
  BY EscapedIs
<1>2. 0 \in T
  <2>1. e[0] = <<>>
    BY EscapedIs
  <2>2. len(0) = 0
    <3>. HIDE DEF e
    <3>. QED
      BY <2>1
  <2>. HIDE DEF len, e
  <2>. QED
    BY <2>2
<1>3. ASSUME NEW m \in Nat, m < n, m \in T
      PROVE  m + 1 \in T
  <2>1. m \in 0 .. n - 1
    BY <1>1, <1>3
  <2>. DEFINE add == IF body[m + 1] \in Reserved THEN 2 ELSE 1
  <2>2. /\ add \in 1 .. 2
        /\ len(m + 1) = len(m) + add
        /\ \A p \in 1 .. len(m) : e[m + 1][p] = e[m][p]
    <3>. HIDE DEF e, n
    <3>1. /\ Len(e[m + 1]) = Len(e[m]) + add
          /\ \A p \in 1 .. Len(e[m]) : e[m + 1][p] = e[m][p]
      BY <2>1, EscapedStep DEF e, n
    <3>. QED
      BY <3>1
  <2>3. len(m) \in m .. 2 * m
    BY <1>3
  <2>4. ASSUME NEW j \in 0 .. m
        PROVE  /\ len(j) \in Nat /\ len(j) + (m - j) <= len(m)
               /\ \A p \in 1 .. len(j) : e[m][p] = e[j][p]
    <3>1. j \in 0 .. n
      BY <1>1, <2>1
    <3>2. len(j) \in Nat
      BY <1>1, <3>1
    <3>. HIDE DEF len, e
    <3>. QED
      BY <1>3, <3>2
  <2>. HIDE DEF len, e, n, add
  <2>5. ASSUME NEW j \in 0 .. m
        PROVE  /\ len(j) + ((m + 1) - j) <= len(m + 1)
               /\ \A p \in 1 .. len(j) : e[m + 1][p] = e[j][p]
    <3>1. len(j) \in Nat /\ len(j) + (m - j) <= len(m) /\ len(m) \in Nat
      BY <2>3, <2>4, <2>5
    <3>2. len(j) + ((m + 1) - j) <= len(m + 1)
      BY <2>2, <3>1
    <3>3. ASSUME NEW p \in 1 .. len(j)
          PROVE  e[m + 1][p] = e[j][p]
      <4>1. p \in 1 .. len(m)
        BY <3>1
      <4>. QED
        BY <2>2, <2>4, <4>1
    <3>. QED
      BY <3>2, <3>3
  <2>6. len(m + 1) \in m + 1 .. 2 * (m + 1)
    BY <2>2, <2>3
  <2>7. \A j \in 0 .. m + 1 :
          /\ len(j) + ((m + 1) - j) <= len(m + 1)
          /\ \A p \in 1 .. len(j) : e[m + 1][p] = e[j][p]
    <3>. TAKE j \in 0 .. m + 1
    <3>1. CASE j = m + 1
      BY <2>6, <3>1
    <3>2. CASE j # m + 1
      <4>1. j \in 0 .. m
        BY <3>2
      <4>. QED
        BY <2>5, <4>1
    <3>. QED
      BY <3>1, <3>2
  <2>. QED
    BY <2>6, <2>7
<1>4. \A m \in 0 .. n : m \in T
  <2>. HIDE DEF T
  <2>. QED
    BY <1>1, <1>2, <1>3, InductTo
<1>. QED
  BY <1>4

\* The buffer is never too small: a frame is its body, escaped, between two
\* delimiters (telemetry.c:96-106).
LEMMA FrameIs ==
  ASSUME NEW n \in 0 .. SEQUENCES - 1
  PROVE  LET e == Escaped(Body[n])[RAW_LENGTH]
             f == Encode(Body[n])
         IN  /\ Body[n] \in Seq(Bytes) /\ Len(Body[n]) = RAW_LENGTH
             /\ Len(e) \in Nat
             /\ f \in Seq(Bytes) /\ Len(f) = Len(e) + 2
             /\ f[1] = "SOF" /\ f[Len(e) + 2] = "SOF"
             /\ \A p \in 1 .. Len(e) : f[p + 1] = e[p]
<1>. DEFINE e == Escaped(Body[n])[RAW_LENGTH]
            f == Encode(Body[n])
            sof == <<"SOF">>
<1>1. Body[n] \in Seq(Bytes) /\ Len(Body[n]) = RAW_LENGTH /\ RAW_LENGTH \in Nat
  BY FramingAssumption
<1>2. e \in Seq(Bytes)
  <2>1. RAW_LENGTH \in 0 .. Len(Body[n])
    BY <1>1
  <2>. QED
    BY <1>1, <2>1, EscapedIs
<1>3. Len(e) <= 2 * RAW_LENGTH /\ Len(e) \in Nat
  <2>1. RAW_LENGTH \in 0 .. Len(Body[n])
    BY <1>1
  <2>2. Len(e) \in RAW_LENGTH .. 2 * RAW_LENGTH
    BY <1>1, <2>1, EscapedGrows
  <2>. QED
    BY <1>1, <2>2
<1>4. f = sof \o e \o sof
  BY <1>1, <1>3 DEF Encode, MAX_FRAME
<1>5. sof \in Seq(Bytes) /\ Len(sof) = 1 /\ sof[1] = "SOF"
  BY DEF Bytes
<1>. HIDE DEF e, f, sof
<1>. DEFINE g == sof \o e
<1>6. /\ g \in Seq(Bytes) /\ Len(g) = Len(e) + 1 /\ g[1] = "SOF"
      /\ \A p \in 1 .. Len(e) : g[1 + p] = e[p]
  <2>1. 1 \in 1 .. Len(sof)
    BY <1>5
  <2>2. /\ g \in Seq(Bytes) /\ Len(g) = Len(sof) + Len(e)
        /\ \A p \in 1 .. Len(sof) : g[p] = sof[p]
        /\ \A p \in 1 .. Len(e) : g[Len(sof) + p] = e[p]
    BY <1>2, <1>5, ConcatIs
  <2>. HIDE DEF g
  <2>. QED
    BY <1>3, <1>5, <2>1, <2>2
<1>7. /\ f \in Seq(Bytes) /\ Len(f) = Len(e) + 2
      /\ \A p \in 1 .. Len(e) + 1 : f[p] = g[p]
      /\ f[Len(e) + 2] = "SOF"
  <2>. HIDE DEF g
  <2>1. f = g \o sof /\ 1 \in 1 .. Len(sof)
    BY <1>4, <1>5 DEF g
  <2>2. /\ f \in Seq(Bytes) /\ Len(f) = Len(g) + Len(sof)
        /\ \A p \in 1 .. Len(g) : f[p] = g[p]
        /\ \A p \in 1 .. Len(sof) : f[Len(g) + p] = sof[p]
    <3>1. g \in Seq(Bytes) /\ sof \in Seq(Bytes)
      BY <1>5, <1>6
    <3>. QED
      BY <2>1, <3>1, ConcatIs
  <2>3. f[Len(g) + 1] = sof[1]
    BY <2>1, <2>2
  <2>4. Len(g) + 1 = Len(e) + 2 /\ Len(f) = Len(e) + 2
    BY <1>3, <1>5, <1>6, <2>2
  <2>. QED
    BY <1>5, <1>6, <2>2, <2>3, <2>4
<1>. HIDE DEF g
<1>8. f[1] = "SOF" /\ \A p \in 1 .. Len(e) : f[p + 1] = e[p]
  <2>1. 1 \in 1 .. Len(e) + 1 /\ \A p \in 1 .. Len(e) : 1 + p \in 1 .. Len(e) + 1
    BY <1>3
  <2>2. \A p \in 1 .. Len(e) : p + 1 = 1 + p
    OBVIOUS
  <2>. QED
    BY <1>6, <1>7, <2>1, <2>2
<1>. QED
  BY <1>1, <1>3, <1>7, <1>8 DEF e, f

\* Where the next byte of a body is in its frame.
LEMMA FrameByte ==
  ASSUME NEW n \in 0 .. SEQUENCES - 1, NEW k \in 0 .. RAW_LENGTH - 1
  PROVE  LET e == Escaped(Body[n])
             f == Encode(Body[n])
             byte == Body[n][k + 1]
             add == IF byte \in Reserved THEN 2 ELSE 1
         IN  /\ byte \in Bytes
             /\ Len(e[k]) \in Nat
             /\ Len(e[k + 1]) = Len(e[k]) + add
             /\ Len(e[k + 1]) + 2 <= Len(f)
             /\ f[Len(e[k]) + 2] = IF byte \in Reserved THEN "ESC" ELSE byte
             /\ byte \in Reserved => f[Len(e[k]) + 3] = Flip(byte)
<1>. DEFINE e == Escaped(Body[n])
            f == Encode(Body[n])
            byte == Body[n][k + 1]
            add == IF byte \in Reserved THEN 2 ELSE 1
            len == Len(e[k])
            all == e[RAW_LENGTH]
            more == e[k + 1]
<1>1. /\ Body[n] \in Seq(Bytes) /\ Len(Body[n]) = RAW_LENGTH
      /\ RAW_LENGTH \in Nat \ {0} /\ Len(all) \in Nat
      /\ Len(f) = Len(all) + 2
      /\ \A p \in 1 .. Len(all) : f[p + 1] = all[p]
  BY FrameIs, FramingAssumption
<1>2. /\ k \in 0 .. Len(Body[n]) - 1 /\ k + 1 \in 1 .. Len(Body[n])
      /\ RAW_LENGTH \in 0 .. Len(Body[n]) /\ k + 1 \in 0 .. RAW_LENGTH
  BY <1>1
<1>3. byte \in Bytes
  BY <1>1, <1>2
<1>4. /\ len \in Nat
      /\ Len(more) = len + add
      /\ more[len + 1] = IF byte \in Reserved THEN "ESC" ELSE byte
      /\ byte \in Reserved => more[len + 2] = Flip(byte)
  BY <1>1, <1>2, EscapedStep
<1>5. /\ Len(more) + (RAW_LENGTH - (k + 1)) <= Len(all)
      /\ \A p \in 1 .. Len(more) : all[p] = more[p]
  BY <1>1, <1>2, EscapedGrows
<1>. HIDE DEF e, f, byte, len, all, more
<1>6. add \in 1 .. 2 /\ len + add <= Len(all) /\ Len(more) <= Len(all)
  BY <1>1, <1>2, <1>4, <1>5
<1>7. \A p \in 1 .. len + add : f[p + 1] = more[p]
  BY <1>1, <1>4, <1>5, <1>6
<1>8. f[len + 2] = more[len + 1]
  <2>1. len + 1 \in 1 .. len + add
    BY <1>4, <1>6
  <2>2. f[(len + 1) + 1] = more[len + 1]
    BY <1>7, <2>1
  <2>. QED
    BY <1>4, <2>2
<1>9. byte \in Reserved => f[len + 3] = more[len + 2]
  <2>. SUFFICES ASSUME byte \in Reserved
               PROVE  f[len + 3] = more[len + 2]
    OBVIOUS
  <2>1. len + 2 \in 1 .. len + add
    BY <1>4
  <2>2. f[(len + 2) + 1] = more[len + 2]
    BY <1>7, <2>1
  <2>. QED
    BY <1>4, <2>2
<1>10. Len(more) + 2 <= Len(f)
  BY <1>1, <1>4, <1>6
<1>. QED
  BY <1>3, <1>4, <1>8, <1>9, <1>10 DEF e, f, byte, len, all, more

-----------------------------------------------------------------------------
(* How a decoder reads a frame that arrives whole.                         *)

\* A byte is first of all no frame.
LEMMA QuietIs ==
  ASSUME NEW d \in Decoder
  PROVE  LET q == [d EXCEPT !.frame = NoSequence]
         IN  /\ q \in Decoder /\ q.frame = NoSequence
             /\ q.body = d.body /\ q.escaped = d.escaped
             /\ q.dropping = d.dropping /\ q.stats = d.stats
             /\ q.last_sequence = d.last_sequence
BY DEF Decoder, NoSequence

\* After a delimiter a decoder is ready for the next frame, whatever it has read.
LEMMA DelimiterReads ==
  ASSUME NEW d \in Decoder, d.dropping => ~d.escaped
  PROVE  LET e == Feed(d, "SOF")
         IN  e.body = <<>> /\ ~e.escaped /\ ~e.dropping
<1>. DEFINE q == [d EXCEPT !.frame = NoSequence]
<1>1. /\ q \in Decoder /\ q.body = d.body
      /\ q.escaped = d.escaped /\ q.dropping = d.dropping
  BY QuietIs
<1>2. Feed(d, "SOF") = Delimiter(q)
  BY DEF Feed
<1>. HIDE DEF q
<1>3. CASE q.escaped \/ q.dropping \/ q.body = <<>>
  BY <1>1, <1>2, <1>3 DEF Delimiter, Decoder
<1>4. CASE ~q.escaped /\ ~q.dropping /\ q.body # <<>>
  <2>. DEFINE closed == [q EXCEPT !.body = <<>>]
              number == SequenceOf(q.body)
              a == Account(closed, number)
  <2>1. Delimiter(q) = CloseFrame(q)
    BY <1>4 DEF Delimiter
  <2>2. /\ closed \in Decoder /\ closed.body = <<>>
        /\ ~closed.escaped /\ ~closed.dropping
    <3>1. <<>> \in Seq(Bytes)
      OBVIOUS
    <3>. QED
      BY <1>1, <1>4, <3>1 DEF Decoder
  <2>3. CASE Verdict(q.body) = "ok"
    <3>1. CloseFrame(q) = [a EXCEPT !.frame = number,
                                    !.stats = Count(a.stats, {"frames_ok"})]
      BY <2>3 DEF CloseFrame
    <3>2. number \in Int
      BY <2>3, SequenceIsInt
    <3>. HIDE DEF closed, number
    <3>3. a \in Decoder /\ a.body = <<>> /\ ~a.escaped /\ ~a.dropping
      BY <2>2, <3>2, AccountIs
    <3>. HIDE DEF a
    <3>. QED
      BY <1>2, <2>1, <3>1, <3>3 DEF Decoder
  <2>4. CASE Verdict(q.body) # "ok"
    <3>1. Verdict(q.body) \in {"crc", "format"}
      BY <2>4 DEF Verdict
    <3>2. \E which : CloseFrame(q) =
                       [closed EXCEPT !.stats = Count(closed.stats, which)]
      <4>1. CASE Verdict(q.body) = "crc"
        BY <4>1 DEF CloseFrame
      <4>2. CASE Verdict(q.body) = "format"
        BY <4>2 DEF CloseFrame
      <4>. QED
        BY <3>1, <4>1, <4>2
    <3>. HIDE DEF closed
    <3>. QED
      BY <1>2, <2>1, <2>2, <3>2 DEF Decoder
  <2>. QED
    BY <2>3, <2>4
<1>. QED
  BY <1>3, <1>4

\* A body that was sent is accepted, as the frame it is.
LEMMA BodyAccepted ==
  ASSUME NEW d \in Decoder, NEW n \in 0 .. SEQUENCES - 1,
         ~d.escaped, ~d.dropping, d.body = Body[n]
  PROVE  Feed(d, "SOF").frame = n
<1>. DEFINE q == [d EXCEPT !.frame = NoSequence]
            closed == [q EXCEPT !.body = <<>>]
            a == Account(closed, n)
<1>1. /\ q \in Decoder /\ q.body = Body[n]
      /\ ~q.escaped /\ ~q.dropping
  BY QuietIs
<1>2. Feed(d, "SOF") = Delimiter(q)
  BY DEF Feed
<1>3. Body[n] # <<>> /\ Len(Body[n]) = RAW_LENGTH /\ n \in DOMAIN Body
  BY FramingAssumption
<1>. HIDE DEF q
<1>4. Verdict(q.body) = "ok"
  BY <1>1, <1>3, FramingAssumption DEF Verdict, PassesCrc, WellFormed
<1>5. SequenceOf(q.body) = n
  <2>1. \A m \in DOMAIN Body : Body[m] = q.body => m = n
    BY <1>1, FramingAssumption
  <2>. QED
    BY <1>1, <1>3, <2>1 DEF SequenceOf
<1>6. Delimiter(q) = [a EXCEPT !.frame = n,
                               !.stats = Count(a.stats, {"frames_ok"})]
  BY <1>1, <1>3, <1>4, <1>5 DEF Delimiter, CloseFrame
<1>7. closed \in Decoder
  <2>1. <<>> \in Seq(Bytes)
    OBVIOUS
  <2>. QED
    BY <1>1, <2>1 DEF Decoder
<1>8. a \in Decoder
  <2>. HIDE DEF closed
  <2>. QED
    BY <1>7, AccountIs
<1>. HIDE DEF a
<1>. QED
  BY <1>2, <1>6, <1>8 DEF Decoder

\* Another byte of a frame is stored, or announces the next one.
LEMMA ContentReads ==
  ASSUME NEW d \in Decoder, ~d.dropping, NEW byte \in Bytes, byte # "SOF",
         Len(d.body) < RAW_LENGTH
  PROVE  LET e == Feed(d, byte)
         IN  /\ d.escaped /\ byte \in Escapes =>
                  e.body = Append(d.body, Flip(byte)) /\ ~e.escaped /\ ~e.dropping
             /\ ~d.escaped /\ byte = "ESC" =>
                  e.body = d.body /\ e.escaped /\ ~e.dropping
             /\ ~d.escaped /\ byte # "ESC" =>
                  e.body = Append(d.body, byte) /\ ~e.escaped /\ ~e.dropping
<1>. DEFINE q == [d EXCEPT !.frame = NoSequence]
            e == Feed(d, byte)
<1>1. /\ q \in Decoder /\ q.body = d.body
      /\ q.escaped = d.escaped /\ ~q.dropping
  BY QuietIs
<1>2. e = Content(q, byte)
  BY DEF Feed
<1>. HIDE DEF q, e
<1>3. \A more : Store(q, more) = [q EXCEPT !.escaped = FALSE,
                                          !.body = Append(q.body, more)]
  <2>1. Len(q.body) \in Nat /\ RAW_LENGTH \in Nat
    BY <1>1, FramingAssumption DEF Decoder
  <2>2. ~(Len(q.body) >= RAW_LENGTH)
    BY <1>1, <2>1
  <2>. QED
    BY <2>2 DEF Store
<1>4. \A more : LET s == Store(q, more)
                IN  s.body = Append(q.body, more) /\ ~s.escaped /\ ~s.dropping
  <2>. TAKE more
  <2>. DEFINE longer == Append(q.body, more)
  <2>1. Store(q, more) = [q EXCEPT !.escaped = FALSE, !.body = longer]
    BY <1>3
  <2>. HIDE DEF longer
  <2>2. LET s == Store(q, more)
        IN  s.body = longer /\ ~s.escaped /\ ~s.dropping
    BY <1>1, <2>1 DEF Decoder
  <2>. QED
    BY <2>2 DEF longer
<1>5. CASE d.escaped /\ byte \in Escapes
  <2>1. e = Store(q, Flip(byte))
    BY <1>1, <1>2, <1>5 DEF Content
  <2>. QED
    BY <1>1, <1>4, <1>5, <2>1 DEF e
<1>6. CASE ~d.escaped /\ byte = "ESC"
  <2>1. e = [q EXCEPT !.escaped = TRUE]
    BY <1>1, <1>2, <1>6 DEF Content
  <2>. QED
    BY <1>1, <1>6, <2>1 DEF Decoder, e
<1>7. CASE ~d.escaped /\ byte # "ESC"
  <2>1. e = Store(q, byte)
    BY <1>1, <1>2, <1>7 DEF Content
  <2>. QED
    BY <1>1, <1>4, <1>7, <2>1 DEF e
<1>. QED
  BY <1>5, <1>6, <1>7

-----------------------------------------------------------------------------
(* The line.                                                               *)

\* Every byte leaves them in agreement.
LEMMA FeedAgrees ==
  ASSUME NEW d, NEW h, Agree(d, h), NEW byte \in Bytes
  PROVE  Agree(Feed(d, byte), HostFeed(h, byte))
<1>. DEFINE e == [d EXCEPT !.frame = NoSequence]
            g == [h EXCEPT !.yielded = None]
<1>1. /\ e \in Decoder /\ e.frame = NoSequence /\ e.body = d.body
      /\ e.escaped = d.escaped /\ e.dropping = d.dropping
      /\ e.stats = d.stats /\ e.last_sequence = d.last_sequence
  BY DEF Agree, Decoder, NoSequence
<1>2. /\ g \in Host /\ g.yielded = None /\ g.buffer = h.buffer
      /\ g.escaped = h.escaped /\ g.dropping = h.dropping
      /\ g.count = h.count /\ g.last_sequence = h.last_sequence
  BY DEF Agree, Host, None
<1>3. /\ Feed(d, byte) = IF byte = "SOF" THEN Delimiter(e) ELSE Content(e, byte)
      /\ HostFeed(h, byte) = IF byte = "SOF" THEN HostDelimiter(g)
                             ELSE HostContent(g, byte)
  BY DEF Feed, HostFeed
<1>. HIDE DEF e, g
<1>4. Agree(e, g)
  BY <1>1, <1>2 DEF Agree, SameReport, InStep, HostOverlong, NoSequence, None
<1>. QED
  BY <1>3, <1>4, DelimiterAgrees, ContentAgrees

\* The decoder holds the first k bytes of the nth body, and p bytes of its frame
\* have been sent: up to the end of a byte, or in the middle of an escaped one.
ReadUpTo(d, n, p, k) ==
    LET sent == Len(Escaped(Body[n])[k])
    IN  /\ ~d.dropping
        /\ Len(d.body) = k /\ \A i \in 1 .. k : d.body[i] = Body[n][i]
        /\ \/ ~d.escaped /\ p = sent + 1
           \/ /\ d.escaped /\ p = sent + 2
              /\ k < RAW_LENGTH /\ Body[n][k + 1] \in Reserved

Reading(d, n, p) == \E k \in 0 .. RAW_LENGTH : ReadUpTo(d, n, p, k)

\* The first delimiter begins it.
LEMMA ReadingBegins ==
  ASSUME NEW d \in Decoder, d.dropping => ~d.escaped,
         NEW n \in 0 .. SEQUENCES - 1
  PROVE  Reading(Feed(d, "SOF"), n, 1)
<1>1. LET e == Feed(d, "SOF")
      IN  e.body = <<>> /\ ~e.escaped /\ ~e.dropping
  BY DelimiterReads
<1>2. Escaped(Body[n])[0] = <<>>
  BY FrameIs, EscapedIs
<1>3. Len(Escaped(Body[n])[0]) = 0
  BY <1>2
<1>4. ReadUpTo(Feed(d, "SOF"), n, 1, 0)
  BY <1>1, <1>3 DEF ReadUpTo
<1>5. 0 \in 0 .. RAW_LENGTH
  BY FramingAssumption
<1>. QED
  BY <1>4, <1>5 DEF Reading

\* The next byte of the frame takes it further, to the last delimiter.
LEMMA ReadingGoesOn ==
  ASSUME NEW d \in Decoder, NEW n \in 0 .. SEQUENCES - 1, NEW p \in Nat,
         Reading(d, n, p)
  PROVE  LET f == Encode(Body[n])
         IN  /\ p + 1 < Len(f) => Reading(Feed(d, f[p + 1]), n, p + 1)
             /\ p + 1 = Len(f) => /\ f[p + 1] = "SOF"
                                  /\ ~d.escaped /\ ~d.dropping /\ d.body = Body[n]
             /\ p + 1 <= Len(f)
<1>. DEFINE f == Encode(Body[n])
            e == Escaped(Body[n])
            g == Feed(d, f[p + 1])
<1>1. PICK k \in 0 .. RAW_LENGTH : ReadUpTo(d, n, p, k)
  BY DEF Reading
<1>2. /\ Body[n] \in Seq(Bytes) /\ Len(Body[n]) = RAW_LENGTH
      /\ Len(e[RAW_LENGTH]) \in Nat /\ Len(f) = Len(e[RAW_LENGTH]) + 2
      /\ f[Len(e[RAW_LENGTH]) + 2] = "SOF"
      /\ RAW_LENGTH \in Nat
  BY FrameIs, FramingAssumption
<1>3. /\ ~d.dropping /\ d.body \in Seq(Bytes) /\ Len(d.body) = k
      /\ \A i \in 1 .. k : d.body[i] = Body[n][i]
  BY <1>1 DEF ReadUpTo, Decoder
<1>4. CASE k = RAW_LENGTH
  <2>1. ~d.escaped /\ p = Len(e[RAW_LENGTH]) + 1
    BY <1>1, <1>2, <1>4 DEF ReadUpTo
  <2>2. d.body = Body[n]
    BY <1>2, <1>3, <1>4
  <2>. HIDE DEF e, f
  <2>3. p + 1 = Len(f) /\ f[p + 1] = "SOF"
    BY <1>2, <2>1
  <2>. QED
    BY <1>3, <2>1, <2>2, <2>3 DEF f
<1>5. CASE k < RAW_LENGTH
  <2>. DEFINE byte == Body[n][k + 1]
              add == IF byte \in Reserved THEN 2 ELSE 1
              len == Len(e[k])
              next == Len(e[k + 1])
  <2>1. /\ byte \in Bytes /\ len \in Nat
        /\ next = len + add
        /\ next + 2 <= Len(f)
        /\ f[len + 2] = IF byte \in Reserved THEN "ESC" ELSE byte
        /\ byte \in Reserved => f[len + 3] = Flip(byte)
    <3>1. k \in 0 .. RAW_LENGTH - 1
      BY <1>2, <1>5
    <3>. QED
      BY <3>1, FrameByte
  <2>2. /\ byte \in Reserved => Flip(byte) \in Escapes /\ Flip(Flip(byte)) = byte
        /\ byte \in Reserved => Flip(byte) \in Bytes
    BY <2>1, EscapeByteIs DEF Escapes, Bytes
  <2>3. \/ ~d.escaped /\ p = len + 1
        \/ d.escaped /\ p = len + 2 /\ byte \in Reserved
    BY <1>1 DEF ReadUpTo
  <2>4. /\ k + 1 \in 0 .. RAW_LENGTH
        /\ Len(Append(d.body, byte)) = k + 1
        /\ \A i \in 1 .. k + 1 : Append(d.body, byte)[i] = Body[n][i]
    <3>. HIDE DEF byte
    <3>1. /\ Len(Append(d.body, byte)) = k + 1
          /\ \A i \in 1 .. k : Append(d.body, byte)[i] = d.body[i]
          /\ Append(d.body, byte)[k + 1] = byte
      BY <1>3
    <3>. QED
      BY <1>2, <1>3, <1>5, <3>1 DEF byte
  <2>5. ASSUME g.body = Append(d.body, byte), ~g.escaped, ~g.dropping,
               p + 1 = next + 1
        PROVE  Reading(g, n, p + 1)
    <3>1. ReadUpTo(g, n, p + 1, k + 1)
      <4>. HIDE DEF g, byte
      <4>. QED
        BY <2>4, <2>5 DEF ReadUpTo
    <3>. QED
      BY <2>4, <3>1 DEF Reading
  <2>. HIDE DEF byte, len, next, e, f
  <2>6. p + 1 < Len(f) /\ (byte \notin Reserved \/ ~d.escaped => p + 1 < Len(f))
    BY <1>2, <2>1, <2>3
  <2>7. CASE ~d.escaped /\ byte \notin Reserved
    <3>1. f[p + 1] = byte /\ byte # "SOF" /\ byte # "ESC" /\ p + 1 = next + 1
      BY <2>1, <2>3, <2>7 DEF Reserved
    <3>2. g.body = Append(d.body, byte) /\ ~g.escaped /\ ~g.dropping
      BY <1>3, <1>5, <2>1, <2>7, <3>1, ContentReads
    <3>. QED
      BY <2>5, <2>6, <3>1, <3>2 DEF f
  <2>8. CASE ~d.escaped /\ byte \in Reserved
    <3>1. f[p + 1] = "ESC" /\ p + 1 = len + 2
      BY <2>1, <2>3, <2>8
    <3>2. g.body = d.body /\ g.escaped /\ ~g.dropping
      <4>1. "ESC" \in Bytes /\ "ESC" # "SOF"
        BY DEF Bytes
      <4>. QED
        BY <1>3, <1>5, <2>8, <3>1, <4>1, ContentReads
    <3>3. ReadUpTo(g, n, p + 1, k)
      <4>. HIDE DEF g
      <4>. QED
        BY <1>3, <1>5, <2>8, <3>1, <3>2 DEF ReadUpTo, byte, len, e
    <3>. QED
      BY <2>6, <3>3 DEF Reading, f
  <2>9. CASE d.escaped
    <3>1. f[p + 1] = Flip(byte) /\ p + 1 = next + 1 /\ byte \in Reserved
      BY <2>1, <2>3, <2>9
    <3>2. Flip(byte) \in Bytes /\ Flip(byte) # "SOF" /\ Flip(byte) \in Escapes
      BY <2>2, <3>1 DEF Escapes
    <3>3. g.body = Append(d.body, Flip(Flip(byte))) /\ ~g.escaped /\ ~g.dropping
      BY <1>3, <1>5, <2>9, <3>1, <3>2, ContentReads
    <3>. QED
      BY <2>2, <2>5, <2>6, <3>1, <3>3 DEF f
  <2>. QED
    BY <2>7, <2>8, <2>9
<1>. QED
  BY <1>1, <1>2, <1>4, <1>5

\* The history of the frames decoded.
History == [first : Int, newest : Int, outage : BOOLEAN]

\* What the sender is at, the agreement, and what a frame that has arrived whole
\* so far has left in the firmware's decoder.
LineInv == /\ sequence \in 0 .. SEQUENCES - 1
           /\ position \in 0 .. Len(Frame) - 1
           /\ retrying \in BOOLEAN /\ clean \in BOOLEAN /\ restarted \in BOOLEAN
           /\ started \in 0 .. MaxFrames /\ faults \in 0 .. MaxFaults
           /\ Agree(decoder, host)
           /\ clean /\ position > 0 => Reading(decoder, sequence, position)
           /\ heard \in History

\* They start in agreement.
LEMMA LineInit == Init => LineInv
<1>. SUFFICES ASSUME Init PROVE LineInv
  OBVIOUS
<1>1. /\ sequence \in 0 .. SEQUENCES - 1 /\ position = 0
      /\ retrying \in BOOLEAN /\ clean \in BOOLEAN /\ restarted \in BOOLEAN
      /\ started \in 0 .. MaxFrames /\ faults \in 0 .. MaxFaults
  <2>1. /\ sequence = FIRST /\ position = 0 /\ retrying = FALSE /\ clean = TRUE
        /\ restarted = FALSE /\ started = 0 /\ faults = 0
    BY DEF Init
  <2>2. 0 \in 0 .. MaxFrames /\ 0 \in 0 .. MaxFaults
    BY LineAssumption
  <2>. QED
    BY <2>1, <2>2, LineAssumption
<1>2. <<>> \in Seq(Bytes) /\ Len(<<>>) <= RAW_LENGTH
  BY FramingAssumption
<1>3. decoder \in Decoder /\ host \in Host
  BY <1>2 DEF Init, DecoderInit, HostInit, Decoder, Host, NoSequence, None
<1>4. SameReport(decoder, host)
  BY DEF Init, DecoderInit, HostInit, SameReport, NoSequence, None,
         DecoderStats, HostCounters
<1>5. InStep(decoder, host)
  BY <1>2 DEF Init, DecoderInit, HostInit, InStep
<1>6. position \in 0 .. Len(Frame) - 1
  BY <1>1, FrameIs DEF Frame
<1>7. heard \in History
  BY DEF Init, History
<1>. QED
  BY <1>1, <1>3, <1>4, <1>5, <1>6, <1>7 DEF LineInv, Agree

\* The sender goes through its frames byte by byte, in the bounds.
LEMMA SenderStep ==
  ASSUME LineInv, Send
  PROVE  /\ sequence' \in 0 .. SEQUENCES - 1
         /\ position' \in 0 .. Len(Frame') - 1
         /\ retrying' \in BOOLEAN
         /\ started' \in 0 .. MaxFrames
         /\ IF position + 1 < Len(Frame)
            THEN position' = position + 1 /\ sequence' = sequence
            ELSE position' = 0
<1>1. \/ position' = position + 1 /\ sequence' = sequence
         /\ position + 1 < Len(Frame)
      \/ position' = 0 /\ sequence' = (sequence + 1) % SEQUENCES
         /\ ~(position + 1 < Len(Frame))
  BY DEF Send, Advance
<1>2. sequence' \in 0 .. SEQUENCES - 1
  BY <1>1, FramingAssumption DEF LineInv
<1>3. Len(Frame) \in Nat /\ Len(Frame') \in Nat \ {0}
  BY <1>2, FrameIs DEF Frame, LineInv
<1>4. position' \in 0 .. Len(Frame') - 1
  <2>1. CASE position' = 0
    BY <1>3, <2>1
  <2>2. CASE position' = position + 1 /\ sequence' = sequence
             /\ position + 1 < Len(Frame)
    <3>1. Frame' = Frame
      BY <2>2 DEF Frame
    <3>. QED
      BY <1>3, <2>2, <3>1 DEF LineInv
  <2>. QED
    BY <1>1, <2>1, <2>2
<1>5. started' \in 0 .. MaxFrames
  <2>1. started \in 0 .. MaxFrames /\ MaxFrames \in Nat
    BY LineAssumption DEF LineInv
  <2>. DEFINE first == position = 0 /\ ~retrying
  <2>2. CASE first
    <3>1. started' = started + 1
      BY <2>2 DEF Send
    <3>2. ~(position > 0) /\ started < MaxFrames
      BY <2>2 DEF Send, Sending
    <3>. QED
      BY <2>1, <3>1, <3>2
  <2>3. CASE ~first
    <3>1. started' = started + 0
      BY <2>3 DEF Send
    <3>. QED
      BY <2>1, <3>1
  <2>. QED
    BY <2>2, <2>3
<1>6. retrying' \in BOOLEAN
  BY DEF Send
<1>. QED
  BY <1>1, <1>2, <1>4, <1>5, <1>6

\* Only a byte that arrives as it was sent keeps a frame whole.
LEMMA ReadingStep ==
  ASSUME LineInv, SendByte
  PROVE  clean' /\ position' > 0 => Reading(decoder, sequence, position)'
<1>. SUFFICES ASSUME clean', position' > 0
             PROVE  Reading(decoder, sequence, position)'
  OBVIOUS
<1>1. Reading(decoder, sequence, position)' = Reading(decoder', sequence', position')
  BY DEF Reading, ReadUpTo
<1>2. Send /\ decoder' = Feed(decoder, Frame[position + 1])
  BY DEF SendByte, Receive
<1>3. /\ position' = position + 1 /\ sequence' = sequence
      /\ position + 1 < Len(Frame)
  BY <1>2, SenderStep DEF LineInv
<1>4. /\ decoder \in Decoder /\ (decoder.dropping => ~decoder.escaped)
      /\ sequence \in 0 .. SEQUENCES - 1 /\ position \in Nat
  <2>1. Len(Frame) \in Nat
    BY FrameIs DEF Frame, LineInv
  <2>. QED
    BY <2>1 DEF LineInv, Agree, InStep, HostOverlong
<1>5. CASE position = 0
  <2>1. Frame[position + 1] = "SOF"
    BY <1>4, <1>5, FrameIs DEF Frame
  <2>. QED
    BY <1>1, <1>2, <1>3, <1>4, <1>5, <2>1, ReadingBegins
<1>6. CASE position # 0
  <2>1. Reading(decoder, sequence, position)
    BY <1>4, <1>6 DEF SendByte, LineInv
  <2>. QED
    BY <1>1, <1>2, <1>3, <1>4, <2>1, ReadingGoesOn DEF Frame
<1>. QED
  BY <1>5, <1>6

\* A frame decoded is entered in the history.
LEMMA HeardStep ==
  ASSUME LineInv, started' \in Int, NEW byte \in Bytes, Receive(byte)
  PROVE  heard' \in History
<1>1. decoder'.frame \in Int
  BY FeedAgrees DEF Receive, LineInv, Agree, Decoder
<1>2. (FIRST + (started' - 1)) % SEQUENCES \in Int
  BY FramingAssumption, LineAssumption
<1>3. Ordinal(decoder'.frame) \in Int
  <2>1. Delta((FIRST + (started' - 1)) % SEQUENCES, decoder'.frame) \in Nat
    BY <1>1, <1>2, DeltaRange
  <2>. QED
    BY <2>1 DEF Ordinal
<1>4. \A h \in History, k \in Int : Note(h, k) \in History
  BY DEF Note, History
<1>. QED
  BY <1>3, <1>4 DEF Receive, LineInv

\* Every step of the line keeps the invariant.
LEMMA LineStep == LineInv /\ [Next]_vars => LineInv'
<1>. SUFFICES ASSUME LineInv, [Next]_vars PROVE LineInv'
  OBVIOUS
<1>1. Frame \in Seq(Bytes) /\ position + 1 \in 1 .. Len(Frame)
  BY FrameIs DEF LineInv, Frame
<1>2. Frame[position + 1] \in Bytes
  BY <1>1
<1>3. ASSUME started' \in 0 .. MaxFrames, NEW byte \in Bytes, Receive(byte)
      PROVE  Agree(decoder, host)' /\ heard' \in History
  <2>1. started' \in Int
    BY <1>3, LineAssumption
  <2>2. heard' \in History
    BY <1>3, <2>1, HeardStep
  <2>3. Agree(decoder, host)'
    BY <1>3, FeedAgrees DEF Receive, LineInv
  <2>. QED
    BY <2>2, <2>3
<1>4. UNCHANGED <<decoder, host, heard>> => Agree(decoder, host)' /\ heard' \in History
  BY DEF LineInv
<1>5. Fault => faults' \in 0 .. MaxFaults
  BY LineAssumption DEF Fault, LineInv
<1>6. UNCHANGED sequence => Frame' = Frame
  BY DEF Frame
<1>7. CASE SendByte
  <2>1. Send /\ Receive(Frame[position + 1]) /\ clean' \in BOOLEAN
        /\ UNCHANGED <<faults, restarted>>
    BY <1>7 DEF SendByte
  <2>. QED
    BY <1>2, <1>3, <1>7, <2>1, SenderStep, ReadingStep DEF LineInv
<1>8. CASE LoseByte
  BY <1>4, <1>5, <1>8, SenderStep DEF LoseByte, LineInv
<1>9. CASE ChangeByte
  BY <1>3, <1>5, <1>9, SenderStep DEF ChangeByte, LineInv
<1>10. CASE InsertByte
  BY <1>3, <1>5, <1>6, <1>10 DEF InsertByte, LineInv
<1>11. CASE AbortFrame
  <2>1. position' = 0 /\ position' \in 0 .. Len(Frame') - 1
    BY <1>1, <1>6, <1>11 DEF AbortFrame
  <2>. QED
    BY <1>4, <1>5, <1>11, <2>1 DEF AbortFrame, LineInv
<1>12. CASE ResetBoard
  <2>1. sequence' \in 0 .. SEQUENCES - 1 /\ position' = 0
    BY <1>12, FramingAssumption DEF ResetBoard
  <2>2. position' \in 0 .. Len(Frame') - 1
    BY <2>1, FrameIs DEF Frame
  <2>. QED
    BY <1>4, <1>5, <1>12, <2>1, <2>2 DEF ResetBoard, LineInv
<1>13. CASE Finished \/ UNCHANGED vars
  <2>1. UNCHANGED vars
    BY <1>13 DEF Finished
  <2>. QED
    BY <1>4, <1>6, <2>1 DEF vars, LineInv, Reading, ReadUpTo
<1>. QED
  BY <1>7, <1>8, <1>9, <1>10, <1>11, <1>12, <1>13 DEF Next

\* The invariant holds throughout.
LEMMA LineInductive == Spec => []LineInv
BY LineInit, LineStep, PTL DEF Spec

\* The types hold: a frame always fits its buffer, and the decoder's body is never
\* longer than a body.
THEOREM LineTypeCorrect == Spec => []TypeOK
<1>1. LineInv => TypeOK
  BY FramingAssumption
     DEF LineInv, TypeOK, Agree, Decoder, Host, InStep, HostOverlong, History
<1>. QED
  BY LineInductive, <1>1, PTL

\* The firmware's decoder and the host's, telemetry_decoder_feed and
\* FrameDecoder.feed, report the same frames, losses, repetitions and bad CRCs
\* after every byte, whatever the line does to the bytes.
THEOREM DecodersAlwaysAgree == Spec => []DecodersAgree
<1>1. LineInv => DecodersAgree
  BY DEF LineInv, Agree, SameReport, DecodersAgree
<1>. QED
  BY LineInductive, <1>1, PTL

\* The firmware's decoder never writes beyond its body (core/telemetry.c:215).
THEOREM FirmwareBounded == Spec => [](Len(decoder.body) <= RAW_LENGTH)
<1>1. LineInv => Len(decoder.body) <= RAW_LENGTH
  BY FramingAssumption DEF LineInv, Agree, InStep, HostOverlong
<1>. QED
  BY LineInductive, <1>1, PTL

\* The last byte of a whole frame completes it.
LEMMA WholeFrameCompletes ==
  ASSUME LineInv, SendByte, EndsFrame, clean
  PROVE  decoder'.frame = sequence
<1>1. /\ decoder' = Feed(decoder, Frame[position + 1])
      /\ sequence \in 0 .. SEQUENCES - 1 /\ decoder \in Decoder
  BY DEF SendByte, Receive, LineInv, Agree
<1>2. position \in Nat /\ position > 0 /\ position + 1 = Len(Frame)
  <2>1. Len(Frame) \in Nat /\ Len(Frame) >= 2
    BY <1>1, FrameIs DEF Frame
  <2>. QED
    BY <2>1 DEF EndsFrame
<1>3. Reading(decoder, sequence, position)
  BY <1>2 DEF LineInv
<1>4. /\ Frame[position + 1] = "SOF"
      /\ ~decoder.escaped /\ ~decoder.dropping /\ decoder.body = Body[sequence]
  BY <1>1, <1>2, <1>3, ReadingGoesOn DEF Frame
<1>. QED
  BY <1>1, <1>4, BodyAccepted

\* A frame that arrives whole is decoded by both, in whatever state the bytes
\* before it have left them: the CRC, escapes and delimiters of what was cut off,
\* lost or changed do not reach it (telemetry.c:155-236).
THEOREM WholeFramesAreDecoded == Spec => WholeFrameDecoded
<1>. DEFINE Decoded == SendByte /\ EndsFrame /\ clean =>
                         decoder'.frame = sequence /\ host'.yielded = sequence
<1>1. LineInv /\ LineInv' /\ [Next]_vars => Decoded
  <2>. SUFFICES ASSUME LineInv, LineInv', SendByte, EndsFrame, clean
               PROVE  decoder'.frame = sequence /\ host'.yielded = sequence
    OBVIOUS
  <2>1. decoder'.frame = sequence
    BY WholeFrameCompletes
  <2>2. host'.yielded = decoder'.frame
    BY DEF LineInv, Agree, SameReport
  <2>. QED
    BY <2>1, <2>2
<1>2. LineInv /\ LineInv' /\ [Next]_vars => [Decoded]_vars
  BY <1>1
<1>. QED
  BY LineInductive, <1>2, PTL DEF Spec, WholeFrameDecoded

-----------------------------------------------------------------------------
(* What the accounts add up to while the board runs.                       *)

\* The number of the kth frame.
Number(k) == (FIRST + k) % SEQUENCES

\* The different frames decoded and those counted as lost.
Credit(d) == d.stats["frames_ok"] + d.stats["sequence_lost"]
               - d.stats["sequence_duplicates"] - d.stats["sequence_out_of_order"]

SameAccount(d, e) == /\ e.last_sequence = d.last_sequence
                     /\ e.stats["frames_ok"] = d.stats["frames_ok"]
                     /\ Credit(e) = Credit(d)

\* An accepted frame against the last one.
Counted(d, e) ==
    LET delta == Delta(e.frame, d.last_sequence)
        first == d.last_sequence = NoSequence
        ahead == delta # 0 /\ delta < SEQUENCES \div 2
    IN  /\ e.stats["frames_ok"] # d.stats["frames_ok"]
        /\ e.last_sequence = IF first \/ ahead THEN e.frame ELSE d.last_sequence
        /\ Credit(e) = Credit(d) + IF first THEN 1 ELSE IF ahead THEN delta ELSE 0

\* An error counts in none of them.
LEMMA ErrorAccounts ==
  ASSUME NEW d \in Decoder, NEW e \in Decoder, NEW which,
         e.stats = Count(d.stats, which), e.last_sequence = d.last_sequence,
         which \cap {"frames_ok", "sequence_lost", "sequence_duplicates",
                     "sequence_out_of_order"} = {}
  PROVE  SameAccount(d, e)
<1>1. d.stats \in [DecoderStats -> Int]
  BY DEF Decoder
<1>2. \A s \in {"frames_ok", "sequence_lost", "sequence_duplicates",
                "sequence_out_of_order"} : e.stats[s] = d.stats[s]
  <2>. TAKE s \in {"frames_ok", "sequence_lost", "sequence_duplicates",
                   "sequence_out_of_order"}
  <2>1. s \in DecoderStats /\ s \notin which
    BY DEF DecoderStats
  <2>2. e.stats[s] = d.stats[s] + (IF s \in which THEN 1 ELSE 0)
    BY <1>1, <2>1, CountIs
  <2>. QED
    BY <1>1, <2>1, <2>2
<1>. QED
  BY <1>2 DEF SameAccount, Credit

\* A good frame counts once, with the gap before it.
LEMMA CloseAccounts ==
  ASSUME NEW d \in Decoder
  PROVE  SameAccount(d, CloseFrame(d)) \/ Counted(d, CloseFrame(d))
<1>. DEFINE closed == [d EXCEPT !.body = <<>>]
            number == SequenceOf(d.body)
            a == Account(closed, number)
            e == CloseFrame(d)
<1>1. /\ closed \in Decoder /\ closed.stats = d.stats
      /\ closed.last_sequence = d.last_sequence
  <2>1. <<>> \in Seq(Bytes)
    OBVIOUS
  <2>. QED
    BY <2>1 DEF Decoder
<1>2. CASE Verdict(d.body) = "ok"
  <2>1. e = [a EXCEPT !.frame = number, !.stats = Count(a.stats, {"frames_ok"})]
    BY <1>2 DEF CloseFrame
  <2>2. number \in Int
    BY <1>2, SequenceIsInt
  <2>. DEFINE delta == Delta(number, closed.last_sequence)
              first == closed.last_sequence = NoSequence
              ahead == delta # 0 /\ delta < SEQUENCES \div 2
  <2>3. /\ a \in Decoder
        /\ a.last_sequence = IF first \/ ahead THEN number ELSE closed.last_sequence
        /\ a.stats["frames_ok"] = closed.stats["frames_ok"]
        /\ a.stats["sequence_lost"] =
             closed.stats["sequence_lost"] + IF ~first /\ ahead THEN delta - 1 ELSE 0
        /\ a.stats["sequence_duplicates"] =
             closed.stats["sequence_duplicates"] + IF ~first /\ delta = 0 THEN 1 ELSE 0
        /\ a.stats["sequence_out_of_order"] =
             closed.stats["sequence_out_of_order"]
               + IF ~first /\ delta # 0 /\ ~ahead THEN 1 ELSE 0
    <3>. HIDE DEF closed, number
    <3>. QED
      BY <1>1, <2>2, AccountIs
  <2>4. a.stats \in [DecoderStats -> Int] /\ closed.stats \in [DecoderStats -> Int]
    BY <1>1, <2>3 DEF Decoder
  <2>5. delta \in Nat
    BY <1>1, <2>2, DeltaRange DEF Decoder
  <2>. HIDE DEF a, delta, number, e, closed
  <2>6. /\ e.frame = number /\ e.last_sequence = a.last_sequence
        /\ e.stats = Count(a.stats, {"frames_ok"})
    BY <2>1, <2>3 DEF Decoder
  <2>7. /\ e.stats["frames_ok"] = closed.stats["frames_ok"] + 1
        /\ e.stats["sequence_lost"] = a.stats["sequence_lost"]
        /\ e.stats["sequence_duplicates"] = a.stats["sequence_duplicates"]
        /\ e.stats["sequence_out_of_order"] = a.stats["sequence_out_of_order"]
    <3>1. \A s \in DecoderStats :
            e.stats[s] = a.stats[s] + (IF s \in {"frames_ok"} THEN 1 ELSE 0)
      BY <2>4, <2>6, CountIs
    <3>. QED
      BY <2>3, <2>4, <3>1 DEF DecoderStats
  <2>8. /\ closed.stats["frames_ok"] \in Int /\ closed.stats["sequence_lost"] \in Int
        /\ closed.stats["sequence_duplicates"] \in Int
        /\ closed.stats["sequence_out_of_order"] \in Int
    BY <2>4 DEF DecoderStats
  <2>9. Credit(e) = Credit(closed) + IF first THEN 1 ELSE IF ahead THEN delta ELSE 0
    <3>1. CASE first
      BY <2>3, <2>7, <2>8, <3>1 DEF Credit
    <3>2. CASE ~first /\ ahead
      BY <2>3, <2>5, <2>7, <2>8, <3>2 DEF Credit
    <3>3. CASE ~first /\ ~ahead
      BY <2>3, <2>5, <2>7, <2>8, <3>3 DEF Credit
    <3>. QED
      BY <3>1, <3>2, <3>3
  <2>10. e.stats["frames_ok"] # closed.stats["frames_ok"]
    BY <2>7, <2>8
  <2>11. Counted(closed, e)
    BY <2>3, <2>6, <2>9, <2>10 DEF Counted, delta
  <2>12. Counted(d, e)
    <3>. HIDE DEF closed
    <3>. QED
      BY <1>1, <2>11 DEF Counted, Credit
  <2>. QED
    BY <2>12 DEF e
<1>3. CASE Verdict(d.body) # "ok"
  <2>1. Verdict(d.body) \in {"crc", "format"}
    BY <1>3 DEF Verdict
  <2>2. \E which \in {{"crc_errors", "resync_events"},
                      {"format_errors", "resync_events"}} :
          e = [closed EXCEPT !.stats = Count(closed.stats, which)]
    <3>1. CASE Verdict(d.body) = "crc"
      BY <3>1 DEF CloseFrame
    <3>2. CASE Verdict(d.body) = "format"
      BY <3>2 DEF CloseFrame
    <3>. QED
      BY <2>1, <3>1, <3>2
  <2>3. PICK which \in {{"crc_errors", "resync_events"},
                        {"format_errors", "resync_events"}} :
          e = [closed EXCEPT !.stats = Count(closed.stats, which)]
    BY <2>2
  <2>. HIDE DEF closed, e
  <2>4. Count(closed.stats, which) \in [DecoderStats -> Int]
    BY <1>1, CountIs DEF Decoder
  <2>5. /\ e \in Decoder /\ e.stats = Count(d.stats, which)
        /\ e.last_sequence = d.last_sequence
    BY <1>1, <2>3, <2>4 DEF Decoder
  <2>6. SameAccount(d, e)
    BY <2>5, ErrorAccounts
  <2>. QED
    BY <2>6 DEF e
<1>. QED
  BY <1>2, <1>3

\* What is dropped counts as an error.
LEMMA DropAccounts ==
  ASSUME NEW d \in Decoder, NEW why \in {"overflow_errors", "escape_errors"}
  PROVE  SameAccount(d, Drop(d, why))
<1>. DEFINE e == Drop(d, why)
<1>1. Count(d.stats, {why}) \in [DecoderStats -> Int] /\ <<>> \in Seq(Bytes)
  BY CountIs DEF Decoder
<1>2. /\ e \in Decoder /\ e.stats = Count(d.stats, {why})
      /\ e.last_sequence = d.last_sequence
  BY <1>1 DEF Drop, Decoder
<1>. HIDE DEF e
<1>3. SameAccount(d, e)
  BY <1>2, ErrorAccounts
<1>. QED
  BY <1>3 DEF e

\* A byte that is no delimiter counts nothing but errors.
LEMMA ContentAccounts ==
  ASSUME NEW d \in Decoder, NEW byte
  PROVE  SameAccount(d, Content(d, byte))
<1>1. \A e : e.stats = d.stats /\ e.last_sequence = d.last_sequence
               => SameAccount(d, e)
  BY DEF SameAccount, Credit
<1>2. ASSUME NEW more PROVE SameAccount(d, Store(d, more))
  <2>1. CASE Len(d.body) >= RAW_LENGTH
    BY <2>1, DropAccounts DEF Store
  <2>2. CASE ~(Len(d.body) >= RAW_LENGTH)
    <3>. DEFINE e == [d EXCEPT !.escaped = FALSE, !.body = Append(d.body, more)]
    <3>1. Store(d, more) = e
      BY <2>2 DEF Store
    <3>2. e.stats = d.stats /\ e.last_sequence = d.last_sequence
      BY DEF Decoder
    <3>. QED
      BY <1>1, <3>1, <3>2
  <2>. QED
    BY <2>1, <2>2
<1>3. CASE d.dropping
  BY <1>1, <1>3 DEF Content
<1>4. CASE ~d.dropping /\ d.escaped
  BY <1>2, <1>4, DropAccounts DEF Content
<1>5. CASE ~d.dropping /\ ~d.escaped /\ byte = "ESC"
  <2>. DEFINE e == [d EXCEPT !.escaped = TRUE]
  <2>1. Content(d, byte) = e
    BY <1>5 DEF Content
  <2>2. e.stats = d.stats /\ e.last_sequence = d.last_sequence
    BY DEF Decoder
  <2>. QED
    BY <1>1, <2>1, <2>2
<1>6. CASE ~d.dropping /\ ~d.escaped /\ byte # "ESC"
  BY <1>2, <1>6 DEF Content
<1>. QED
  BY <1>3, <1>4, <1>5, <1>6

\* A byte accounts for one accepted frame at most.
LEMMA FeedAccounts ==
  ASSUME NEW d \in Decoder, NEW byte
  PROVE  SameAccount(d, Feed(d, byte)) \/ Counted(d, Feed(d, byte))
<1>. DEFINE q == [d EXCEPT !.frame = NoSequence]
            f == Feed(d, byte)
<1>1. /\ q \in Decoder /\ q.stats = d.stats
      /\ q.last_sequence = d.last_sequence
  BY QuietIs
<1>2. f = IF byte = "SOF" THEN Delimiter(q) ELSE Content(q, byte)
  BY DEF Feed
<1>. HIDE DEF q, f
<1>3. SameAccount(q, f) \/ Counted(q, f)
  <2>1. CASE byte # "SOF"
    BY <1>1, <1>2, <2>1, ContentAccounts
  <2>2. ASSUME byte = "SOF",
               NEW e, NEW which \in {{"escape_errors", "resync_events"},
                                     {"resync_events"}},
               NEW flagged \in BOOLEAN, NEW dropped \in BOOLEAN,
               e = [q EXCEPT !.escaped = flagged, !.dropping = dropped,
                             !.body = <<>>, !.stats = Count(q.stats, which)]
        PROVE  SameAccount(q, e)
    <3>1. Count(q.stats, which) \in [DecoderStats -> Int] /\ <<>> \in Seq(Bytes)
      BY <1>1, CountIs DEF Decoder
    <3>2. /\ e \in Decoder /\ e.stats = Count(q.stats, which)
          /\ e.last_sequence = q.last_sequence
      BY <1>1, <2>2, <3>1 DEF Decoder
    <3>. QED
      BY <1>1, <3>2, ErrorAccounts
  <2>3. CASE byte = "SOF" /\ q.escaped
    <3>1. f = [q EXCEPT !.escaped = FALSE, !.dropping = q.dropping, !.body = <<>>,
                        !.stats = Count(q.stats, {"escape_errors", "resync_events"})]
      BY <1>1, <1>2, <2>3 DEF Delimiter, Decoder
    <3>2. q.dropping \in BOOLEAN
      BY <1>1 DEF Decoder
    <3>. QED
      BY <2>2, <2>3, <3>1, <3>2
  <2>4. CASE byte = "SOF" /\ ~q.escaped /\ q.dropping
    <3>1. f = [q EXCEPT !.escaped = q.escaped, !.dropping = FALSE, !.body = <<>>,
                        !.stats = Count(q.stats, {"resync_events"})]
      BY <1>1, <1>2, <2>4 DEF Delimiter, Decoder
    <3>2. q.escaped \in BOOLEAN
      BY <1>1 DEF Decoder
    <3>. QED
      BY <2>2, <2>4, <3>1, <3>2
  <2>5. CASE byte = "SOF" /\ ~q.escaped /\ ~q.dropping /\ q.body = <<>>
    BY <1>2, <2>5 DEF Delimiter, SameAccount
  <2>6. CASE byte = "SOF" /\ ~q.escaped /\ ~q.dropping /\ q.body # <<>>
    BY <1>1, <1>2, <2>6, CloseAccounts DEF Delimiter
  <2>. QED
    BY <2>1, <2>3, <2>4, <2>5, <2>6
<1>4. SameAccount(d, f) \/ Counted(d, f)
  BY <1>1, <1>3 DEF SameAccount, Counted, Credit
<1>. QED
  BY <1>4 DEF f

-----------------------------------------------------------------------------
(* How far a number can be taken for a later one.                          *)

\* Ahead of the number of an earlier frame by what has been sent since at most, and
\* by just that within one wrap; and if the frame is itself the earlier, by less
\* than half, not ahead at all.
LEMMA DeltaBounded ==
  ASSUME NEW j \in Nat, NEW k \in Nat
  PROVE  LET delta == Delta(Number(k), Number(j))
         IN  /\ delta \in Nat
             /\ k >= j => delta <= k - j
             /\ k >= j /\ k - j < SEQUENCES => delta = k - j
             /\ k < j /\ j - k < SEQUENCES \div 2 => delta >= SEQUENCES \div 2
<1>. DEFINE w == SEQUENCES
            delta == Delta(Number(k), Number(j))
<1>1. w \in Nat \ {0} /\ w > 1 /\ FIRST \in Int
  BY FramingAssumption, LineAssumption
<1>2. delta = (k - j) % w
  <2>1. FIRST + k \in Int /\ FIRST + j \in Int /\ (FIRST + k) - (FIRST + j) = k - j
    BY <1>1
  <2>2. (((FIRST + k) % w) - ((FIRST + j) % w)) % w = ((FIRST + k) - (FIRST + j)) % w
    <3>. HIDE DEF w
    <3>. QED
      BY <1>1, <2>1, SubtractRemainders, Zenon
  <2>. QED
    BY <2>1, <2>2 DEF Delta, Number
<1>. HIDE DEF delta, w
<1>3. k - j \in Int
  OBVIOUS
<1>4. PICK q \in Int : delta \in 0 .. w - 1 /\ k - j = w * q + delta
  <2>1. \A n \in Int : /\ n % w \in 0 .. w - 1 /\ n \div w \in Int
                       /\ n = w * (n \div w) + (n % w)
    BY <1>1, Division
  <2>. QED
    BY <1>2, <1>3, <2>1
<1>5. CASE k >= j
  <2>1. q >= 0
    <3>1. w * (-1) < w * q
      BY <1>1, <1>4, <1>5
    <3>. QED
      BY <1>1, <1>4, <3>1
  <2>2. w * q >= 0
    BY <1>1, <1>4, <2>1
  <2>3. delta <= k - j
    BY <1>1, <1>4, <1>5, <2>2
  <2>4. ASSUME k - j < w PROVE delta = k - j
    <3>1. w * q < w /\ -w < w * q
      BY <1>1, <1>4, <2>2, <2>4
    <3>2. q = 0
      BY <1>1, <3>1, NoMultiple
    <3>. QED
      BY <1>1, <1>4, <3>2
  <2>. QED
    BY <1>4, <1>5, <2>3, <2>4 DEF delta, w
<1>6. CASE k < j /\ j - k < w \div 2
  <2>1. w \div 2 \in Int /\ 2 * (w \div 2) <= w
    BY <1>1
  <2>2. q = -1
    <3>1. w * (q + 1) < w /\ -w < w * (q + 1)
      <4>1. w * (q + 1) = w * q + w /\ w * q \in Int
        BY <1>1
      <4>. QED
        BY <1>1, <1>4, <1>6, <2>1, <4>1
    <3>2. q + 1 = 0
      BY <1>1, <3>1, NoMultiple
    <3>. QED
      BY <3>2
  <2>. QED
    BY <1>1, <1>4, <1>6, <2>1, <2>2 DEF w, delta
<1>7. CASE k < j /\ ~(j - k < w \div 2)
  BY <1>4, <1>7 DEF w, delta
<1>. QED
  BY <1>5, <1>6, <1>7

\* Of n frames begun: none was decoded, or the decoder stands at one of those from
\* the first decoded to the newest and has counted no more than came up to it; and
\* without an outage it stands at the newest and has counted just those.
Accounted(d, h, n) ==
    \/ d.last_sequence = NoSequence /\ Credit(d) = 0 /\ h.newest = -1
    \/ /\ h.first >= 0 /\ h.newest <= n - 1
       /\ \E j \in h.first .. h.newest :
             /\ d.last_sequence = Number(j)
             /\ Credit(d) <= (j - h.first) + 1
             /\ ~h.outage => j = h.newest /\ Credit(d) = (j - h.first) + 1

\* The frame being sent, cut off or due next has its own number.
Numbering ==
    IF position > 0 \/ retrying
    THEN started >= 1 /\ sequence = Number(started - 1)
    ELSE sequence = Number(started)

LossInv == ~restarted => Numbering /\ Accounted(decoder, heard, started)

\* A number is not the mark of none.
LEMMA NumberRange ==
  ASSUME NEW k \in Int
  PROVE  Number(k) \in 0 .. SEQUENCES - 1 /\ Number(k) # NoSequence
BY FramingAssumption, LineAssumption DEF Number, NoSequence

\* Numbers count on across the wrap.
LEMMA NextNumber ==
  ASSUME NEW k \in Nat
  PROVE  (Number(k) + 1) % SEQUENCES = Number(k + 1)
<1>1. FIRST + k \in Int /\ SEQUENCES \in Nat \ {0} /\ 1 \in Int
      /\ (FIRST + k) + 1 = FIRST + (k + 1)
  BY FramingAssumption, LineAssumption
<1>2. (((FIRST + k) % SEQUENCES) + 1) % SEQUENCES = ((FIRST + k) + 1) % SEQUENCES
  BY <1>1, AddRemainder, Zenon
<1>. QED
  BY <1>1, <1>2 DEF Number

\* One of the last frames begun is known by its number.
LEMMA OrdinalIs ==
  ASSUME started' \in Nat, NEW k \in 0 .. started' - 1,
         started' - k <= SEQUENCES \div 2
  PROVE  Ordinal(Number(k)) = k
<1>. DEFINE last == started' - 1
<1>1. /\ last \in Nat /\ k \in Nat /\ last >= k /\ last - k < SEQUENCES
  <2>1. /\ SEQUENCES \div 2 \in Int /\ SEQUENCES \div 2 <= SEQUENCES
        /\ SEQUENCES \in Int
    BY FramingAssumption
  <2>. DEFINE half == SEQUENCES \div 2
  <2>. HIDE DEF half
  <2>2. half \in Int /\ half <= SEQUENCES /\ started' - k <= half /\ SEQUENCES \in Int
    BY <2>1, Zenon DEF half
  <2>3. \A n \in Nat : \A i \in 0 .. n - 1 :
          n - i <= half => /\ n - 1 \in Nat /\ i \in Nat /\ n - 1 >= i
                           /\ (n - 1) - i < SEQUENCES
    BY <2>2
  <2>. QED
    BY <2>2, <2>3
<1>2. Ordinal(Number(k)) = last - Delta(Number(last), Number(k))
  BY DEF Ordinal, Number
<1>. HIDE DEF last
<1>3. Delta(Number(last), Number(k)) = last - k
  BY <1>1, DeltaBounded
<1>. QED
  BY <1>1, <1>2, <1>3

\* Accepting one of the last frames keeps the accounts.
LEMMA AcceptAccounts ==
  ASSUME NEW d \in Decoder, NEW e, NEW h \in History,
         NEW n \in Nat, NEW m \in Nat, n <= m,
         Accounted(d, h, n), Counted(d, e),
         NEW k \in 0 .. m - 1, e.frame = Number(k), m - k <= SEQUENCES \div 2
  PROVE  Accounted(e, Note(h, k), m)
<1>. DEFINE delta == Delta(e.frame, d.last_sequence)
            g == Note(h, k)
            half == SEQUENCES \div 2
<1>1. /\ half \in Int /\ half <= SEQUENCES /\ SEQUENCES \in Int
      /\ k \in Nat /\ m - k <= half
      /\ h.first \in Int /\ h.newest \in Int /\ h.outage \in BOOLEAN
  BY FramingAssumption DEF History
<1>2. /\ g.first = IF h.newest < 0 THEN k ELSE h.first
      /\ g.newest = IF k > h.newest THEN k ELSE h.newest
      /\ g.outage = (h.outage \/ (h.newest >= 0 /\ k - h.newest >= half))
  BY DEF Note
<1>. HIDE DEF g, half
<1>3. CASE d.last_sequence = NoSequence
  <2>1. e.last_sequence = Number(k) /\ Credit(e) = Credit(d) + 1
    BY <1>3 DEF Counted
  <2>2. Credit(d) = 0 /\ h.newest = -1
    BY <1>3, NumberRange, <1>1 DEF Accounted
  <2>3. g.first = k /\ g.newest = k
    BY <1>1, <1>2, <2>2
  <2>4. /\ k \in g.first .. g.newest /\ g.first >= 0 /\ g.newest <= m - 1
        /\ Credit(e) = (k - g.first) + 1
    BY <1>1, <2>1, <2>2, <2>3
  <2>5. Credit(e) <= (k - g.first) + 1
    BY <1>1, <2>3, <2>4
  <2>6. Accounted(e, g, m)
    BY <2>1, <2>3, <2>4, <2>5 DEF Accounted
  <2>. QED
    BY <2>6 DEF g
<1>4. CASE d.last_sequence # NoSequence
  <2>1. h.first >= 0 /\ h.newest <= n - 1
    BY <1>4 DEF Accounted
  <2>2. PICK j \in h.first .. h.newest :
          /\ d.last_sequence = Number(j)
          /\ Credit(d) <= (j - h.first) + 1
          /\ ~h.outage => j = h.newest /\ Credit(d) = (j - h.first) + 1
    BY <1>4 DEF Accounted
  <2>3. /\ j \in Nat /\ h.first <= j /\ j <= h.newest
        /\ h.newest <= m - 1 /\ h.newest >= 0
    BY <1>1, <2>1, <2>2
  <2>4. /\ delta \in Nat
        /\ k >= j => delta <= k - j
        /\ k >= j /\ k - j < SEQUENCES => delta = k - j
        /\ k < j /\ j - k < half => delta >= half
    BY <1>1, <2>2, <2>3, DeltaBounded DEF half
  <2>5. Credit(d) \in Int
    <3>1. d.stats \in [DecoderStats -> Int]
      BY DEF Decoder
    <3>. QED
      BY <3>1 DEF Credit, DecoderStats
  <2>. HIDE DEF delta
  <2>6. /\ g.first = h.first /\ g.newest \in Int
        /\ g.newest <= m - 1 /\ h.newest <= g.newest /\ k <= g.newest
        /\ g.newest = k \/ g.newest = h.newest
    BY <1>1, <1>2, <2>3
  <2>7. ~g.outage => /\ j = h.newest /\ Credit(d) = (j - h.first) + 1
                     /\ k - h.newest < half
    <3>1. ~g.outage => ~h.outage /\ ~(h.newest >= 0 /\ k - h.newest >= half)
      BY <1>2, Zenon
    <3>. QED
      BY <1>1, <2>2, <2>3, <3>1
  <2>8. CASE delta # 0 /\ delta < half
    <3>1. e.last_sequence = Number(k) /\ Credit(e) = Credit(d) + delta
      BY <1>4, <2>8 DEF Counted, delta, half
    <3>2. k >= j /\ k > j
      BY <1>1, <2>3, <2>4, <2>8
    <3>3. /\ k \in g.first .. g.newest
          /\ Credit(e) <= (k - g.first) + 1
      <4>1. k \in g.first .. g.newest
        BY <1>1, <2>3, <2>6, <3>2
      <4>2. delta <= k - j
        BY <2>4, <3>2
      <4>. QED
        BY <1>1, <2>2, <2>3, <2>4, <2>5, <2>6, <3>1, <4>1, <4>2
    <3>4. ASSUME ~g.outage PROVE k = g.newest /\ Credit(e) = (k - g.first) + 1
      <4>1. delta = k - j /\ k > h.newest
        BY <1>1, <2>3, <2>4, <2>7, <3>2, <3>4
      <4>. QED
        BY <1>1, <1>2, <2>3, <2>5, <2>6, <2>7, <3>1, <3>4, <4>1
    <3>5. g.first >= 0 /\ g.newest <= m - 1
      BY <2>1, <2>6
    <3>6. Accounted(e, g, m)
      BY <3>1, <3>3, <3>4, <3>5 DEF Accounted
    <3>. QED
      BY <3>6 DEF g
  <2>9. CASE ~(delta # 0 /\ delta < half)
    <3>1. e.last_sequence = Number(j) /\ Credit(e) = Credit(d)
      BY <1>4, <2>2, <2>5, <2>9 DEF Counted, delta, half
    <3>2. /\ j \in g.first .. g.newest
          /\ Credit(e) <= (j - g.first) + 1
      BY <1>1, <2>2, <2>3, <2>6, <3>1
    <3>3. ASSUME ~g.outage PROVE j = g.newest /\ Credit(e) = (j - g.first) + 1
      <4>1. k <= j
        <5>1. k > j => delta = k - j
          BY <1>1, <2>3, <2>4, <2>7, <3>3
        <5>. QED
          BY <1>1, <2>3, <2>7, <2>9, <3>3, <5>1
      <4>. QED
        BY <1>1, <1>2, <2>3, <2>6, <2>7, <3>1, <3>3, <4>1
    <3>4. g.first >= 0 /\ g.newest <= m - 1
      BY <2>1, <2>6
    <3>5. Accounted(e, g, m)
      BY <3>1, <3>2, <3>3, <3>4 DEF Accounted
    <3>. QED
      BY <3>5 DEF g
  <2>. QED
    BY <2>8, <2>9
<1>. QED
  BY <1>3, <1>4

\* A byte that is no accepted frame keeps them, also when one more frame has begun.
LEMMA SameAccounted ==
  ASSUME NEW d, NEW e, NEW h \in History, NEW n \in Nat, NEW m \in Nat, n <= m,
         Accounted(d, h, n), SameAccount(d, e)
  PROVE  Accounted(e, h, m)
<1>1. h.newest <= n - 1 => h.newest <= m - 1
  BY DEF History
<1>. QED
  BY <1>1 DEF Accounted, SameAccount

\* The sender keeps its numbers in order.
LEMMA NumberingStep ==
  ASSUME LineInv, Send, Numbering
  PROVE  /\ Numbering'
         /\ started' \in Nat /\ started' >= 1 /\ started <= started'
         /\ position > 0 => started' = started
<1>1. started \in Nat /\ position \in Nat /\ retrying \in BOOLEAN
  <2>1. Len(Frame) \in Nat
    BY FrameIs DEF Frame, LineInv
  <2>. QED
    BY <2>1, LineAssumption DEF LineInv
<1>2. /\ started' \in Nat /\ started' >= 1 /\ started <= started'
      /\ position > 0 => started' = started
      /\ sequence = Number(started' - 1)
  <2>1. CASE position > 0 \/ retrying
    <3>1. started' = started + 0
      BY <1>1, <2>1 DEF Send
    <3>. QED
      BY <1>1, <2>1, <3>1 DEF Numbering
  <2>2. CASE ~(position > 0 \/ retrying)
    <3>1. started' = started + 1 /\ (started + 1) - 1 = started
      BY <1>1, <2>2 DEF Send
    <3>. QED
      BY <1>1, <2>2, <3>1 DEF Numbering
  <2>. QED
    BY <2>1, <2>2
<1>3. retrying' = FALSE
  BY DEF Send
<1>4. CASE position' = position + 1 /\ sequence' = sequence
  BY <1>1, <1>2, <1>4 DEF Numbering, Number
<1>5. CASE position' = 0 /\ sequence' = (sequence + 1) % SEQUENCES
  <2>1. PICK k \in Nat : started' = k + 1
    <3>1. \A n \in Nat : n >= 1 => \E k \in Nat : n = k + 1
      <4>1. \A n \in Nat : n >= 1 => n - 1 \in Nat /\ n = (n - 1) + 1
        OBVIOUS
      <4>. QED
        BY <4>1
    <3>. QED
      BY <1>2, <3>1
  <2>2. (k + 1) - 1 = k
    OBVIOUS
  <2>3. sequence' = Number(started')
    BY <1>2, <1>5, <2>1, <2>2, NextNumber
  <2>4. ~(position' > 0 \/ retrying')
    BY <1>3, <1>5
  <2>5. Numbering'
    BY <2>3, <2>4 DEF Numbering, Number
  <2>. QED
    BY <1>2, <2>5
<1>. QED
  BY <1>2, <1>4, <1>5 DEF Send, Advance

\* What the decoder reads while the board runs keeps the accounts.
LEMMA ReceiveAccounts ==
  ASSUME LineInv, ~restarted, ~restarted', Unforged,
         Accounted(decoder, heard, started),
         started \in Nat, started' \in Nat, started <= started',
         SendByte /\ EndsFrame /\ clean =>
            sequence = Number(started' - 1) /\ started' >= 1,
         NEW byte, Receive(byte)
  PROVE  Accounted(decoder, heard, started)'
<1>1. /\ decoder \in Decoder /\ heard \in History
      /\ decoder' = Feed(decoder, byte)
  BY DEF LineInv, Agree, Receive
<1>2. Accounted(decoder, heard, started)' = Accounted(decoder', heard', started')
  BY DEF Accounted, Credit, Number
<1>3. CASE SameAccount(decoder, decoder')
  <2>1. heard' = heard
    BY <1>3 DEF SameAccount, Accepts, Receive
  <2>2. Accounted(decoder', heard, started')
    BY <1>1, <1>3, SameAccounted
  <2>. QED
    BY <1>2, <2>1, <2>2
<1>4. CASE Counted(decoder, decoder')
  <2>1. Accepts
    BY <1>4 DEF Counted, Accepts
  <2>2. \E k \in 0 .. started' - 1 : /\ decoder'.frame = Number(k)
                                     /\ started' - k <= SEQUENCES \div 2
    <3>1. CASE SendByte /\ EndsFrame /\ clean
      <4>1. decoder'.frame = Number(started' - 1) /\ started' >= 1
        BY <3>1, WholeFrameCompletes
      <4>2. SEQUENCES \div 2 \in Int /\ 1 <= SEQUENCES \div 2
        BY FramingAssumption
      <4>3. \A m \in Nat : m >= 1 => m - 1 \in 0 .. m - 1 /\ m - (m - 1) = 1
        OBVIOUS
      <4>4. started' - 1 \in 0 .. started' - 1 /\ started' - (started' - 1) = 1
        BY <4>1, <4>3
      <4>5. started' - (started' - 1) <= SEQUENCES \div 2
        BY <4>2, <4>4
      <4>. QED
        BY <4>1, <4>4, <4>5, Zenon
    <3>2. CASE ~(SendByte /\ EndsFrame /\ clean)
      BY <2>1, <3>2 DEF Unforged, BegunBefore, Number
    <3>. QED
      BY <3>1, <3>2
  <2>3. PICK k \in 0 .. started' - 1 : /\ decoder'.frame = Number(k)
                                      /\ started' - k <= SEQUENCES \div 2
    BY <2>2
  <2>4. heard' = Note(heard, k)
    <3>1. heard' = Note(heard, Ordinal(decoder'.frame))
      BY <2>1 DEF Receive
    <3>2. Ordinal(Number(k)) = k
      BY <2>3, OrdinalIs
    <3>. QED
      BY <2>3, <3>1, <3>2
  <2>5. Accounted(decoder', Note(heard, k), started')
    BY <1>1, <1>4, <2>3, AcceptAccounts
  <2>. QED
    BY <1>2, <2>4, <2>5
<1>. QED
  BY <1>1, <1>3, <1>4, FeedAccounts

\* Every step keeps the accounts unless it forges a frame.
LEMMA LossStep == LineInv /\ LossInv /\ [Next]_vars /\ [Unforged]_vars => LossInv'
<1>. SUFFICES ASSUME LineInv, LossInv, [Next]_vars, [Unforged]_vars, ~restarted'
             PROVE  Numbering' /\ Accounted(decoder, heard, started)'
  BY DEF LossInv
<1>1. CASE UNCHANGED vars
  BY <1>1 DEF vars, LossInv, Numbering, Number, Accounted, Credit
<1>2. CASE ~(UNCHANGED vars)
  <2>1. Unforged
    BY <1>2
  <2>2. started \in Nat
    BY LineAssumption DEF LineInv
  <2>3. ASSUME UNCHANGED <<restarted, started, decoder, heard>>
        PROVE  Accounted(decoder, heard, started)'
    BY <2>3 DEF LossInv, Accounted, Credit, Number
  <2>4. ASSUME Send, UNCHANGED restarted
        PROVE  /\ Numbering' /\ Accounted(decoder, heard, started)
               /\ started' \in Nat /\ started <= started'
               /\ SendByte /\ EndsFrame /\ clean =>
                    sequence = Number(started' - 1) /\ started' >= 1
    <3>1. Numbering /\ Accounted(decoder, heard, started)
      BY <2>4 DEF LossInv
    <3>2. /\ Numbering' /\ started' \in Nat /\ started' >= 1 /\ started <= started'
          /\ position > 0 => started' = started
      BY <2>4, <3>1, NumberingStep
    <3>3. EndsFrame => position > 0
      <4>1. Len(Frame) \in Nat /\ Len(Frame) >= 2
        BY FrameIs DEF Frame, LineInv
      <4>. QED
        BY <4>1 DEF EndsFrame
    <3>4. EndsFrame => sequence = Number(started' - 1)
      BY <3>1, <3>2, <3>3 DEF Numbering
    <3>. QED
      BY <3>1, <3>2, <3>4
  <2>5. CASE SendByte
    <3>1. Send /\ UNCHANGED restarted /\ Receive(Frame[position + 1])
      BY <2>5 DEF SendByte
    <3>2. Accounted(decoder, heard, started)'
      BY <2>1, <2>2, <2>4, <3>1, ReceiveAccounts
    <3>. QED
      BY <2>4, <3>1, <3>2
  <2>6. CASE LoseByte
    <3>1. Send /\ UNCHANGED restarted /\ decoder' = decoder /\ heard' = heard
      BY <2>6 DEF LoseByte
    <3>2. Accounted(decoder', heard, started')
      <4>1. SameAccount(decoder, decoder')
        BY <3>1 DEF SameAccount
      <4>. QED
        BY <2>2, <2>4, <3>1, <4>1, SameAccounted DEF LineInv
    <3>3. Accounted(decoder, heard, started)'
      BY <3>1, <3>2 DEF Accounted, Credit, Number
    <3>. QED
      BY <2>4, <3>1, <3>3
  <2>7. CASE ChangeByte
    <3>1. Send /\ UNCHANGED restarted
      BY <2>7 DEF ChangeByte
    <3>2. PICK byte : Receive(byte)
      BY <2>7 DEF ChangeByte
    <3>3. Accounted(decoder, heard, started)'
      BY <2>1, <2>2, <2>4, <3>1, <3>2, ReceiveAccounts
    <3>. QED
      BY <2>4, <3>1, <3>3
  <2>8. CASE InsertByte
    <3>1. UNCHANGED <<sequence, position, retrying, started, restarted>>
      BY <2>8 DEF InsertByte
    <3>2. PICK byte : Receive(byte)
      BY <2>8 DEF InsertByte
    <3>3. Numbering /\ Accounted(decoder, heard, started)
      BY <3>1 DEF LossInv
    <3>4. Numbering'
      BY <3>1, <3>3 DEF Numbering, Number
    <3>5. SendByte /\ EndsFrame /\ clean =>
            sequence = Number(started' - 1) /\ started' >= 1
      <4>. SUFFICES ASSUME SendByte, EndsFrame
                   PROVE  sequence = Number(started' - 1) /\ started' >= 1
        OBVIOUS
      <4>1. Len(Frame) \in Nat /\ Len(Frame) >= 2
        BY FrameIs DEF Frame, LineInv
      <4>2. position > 0
        BY <4>1 DEF EndsFrame
      <4>. QED
        BY <3>1, <3>3, <4>2 DEF Numbering
    <3>6. Accounted(decoder, heard, started)'
      BY <2>1, <2>2, <3>1, <3>2, <3>3, <3>5, ReceiveAccounts
    <3>. QED
      BY <3>4, <3>6
  <2>9. CASE AbortFrame
    <3>1. /\ UNCHANGED <<sequence, started, restarted, decoder, heard>>
          /\ position > 0 /\ retrying' = TRUE
      BY <2>9 DEF AbortFrame
    <3>2. Numbering'
      BY <3>1 DEF LossInv, Numbering, Number
    <3>. QED
      BY <2>3, <3>1, <3>2
  <2>10. CASE ResetBoard
    BY <2>10 DEF ResetBoard
  <2>. QED
    BY <1>2, <2>5, <2>6, <2>7, <2>8, <2>9, <2>10 DEF Next, Finished
<1>. QED
  BY <1>1, <1>2

\* It starts with no frame.
LEMMA LossBegins == Init => LossInv
<1>. SUFFICES ASSUME Init PROVE Numbering /\ Accounted(decoder, heard, started)
  BY DEF LossInv
<1>1. Number(0) = FIRST
  <2>1. FIRST \in 0 .. SEQUENCES - 1 /\ FIRST + 0 = FIRST /\ SEQUENCES \in Nat
    BY FramingAssumption, LineAssumption
  <2>2. FIRST % SEQUENCES = FIRST
    BY <2>1
  <2>. QED
    BY <2>1, <2>2 DEF Number
<1>2. Numbering
  BY <1>1 DEF Init, Numbering
<1>3. decoder.last_sequence = NoSequence /\ Credit(decoder) = 0 /\ heard.newest = -1
  BY DEF Init, DecoderInit, Credit, DecoderStats
<1>. QED
  BY <1>2, <1>3 DEF Accounted

\* While the board runs, the frames counted as lost are exactly those begun between
\* the first decoded and the newest that were not decoded, for any number of frames,
\* faults and wraps of the number, as long as nothing is forged; once half of all
\* numbers have gone by unheard, not more than those.  It rests on the rule of the
\* half range (telemetry.c:181-195) and on numbers that count frames and survive an
\* abort.
THEOREM LossesAreTrue == Spec /\ NothingForged => []LossIsTrue
<1>1. LineInv /\ LossInv => LossIsTrue
  <2>. DEFINE decoded == decoder.stats["frames_ok"]
                           - decoder.stats["sequence_duplicates"]
                           - decoder.stats["sequence_out_of_order"]
              missing == (heard.newest - heard.first) + 1 - decoded
              lost == decoder.stats["sequence_lost"]
  <2>. SUFFICES ASSUME LineInv, LossInv, ~restarted,
                       decoder.last_sequence # NoSequence
               PROVE  IF heard.outage THEN lost <= missing ELSE lost = missing
    BY DEF LossIsTrue
  <2>1. decoder.stats \in [DecoderStats -> Int] /\ heard \in History
    BY DEF LineInv, Agree, Decoder
  <2>2. /\ decoded \in Int /\ lost \in Int /\ Credit(decoder) = decoded + lost
        /\ heard.first \in Int /\ heard.newest \in Int
    BY <2>1 DEF DecoderStats, History, Credit
  <2>3. PICK j \in heard.first .. heard.newest :
          /\ Credit(decoder) <= (j - heard.first) + 1
          /\ ~heard.outage => /\ j = heard.newest
                              /\ Credit(decoder) = (j - heard.first) + 1
    BY DEF LossInv, Accounted
  <2>. HIDE DEF decoded, lost
  <2>. QED
    BY <2>2, <2>3
<1>2. Init => LineInv /\ LossInv
  BY LineInit, LossBegins
<1>3. LineInv /\ LossInv /\ [Next]_vars /\ [Unforged]_vars => LineInv' /\ LossInv'
  BY LineStep, LossStep
<1>. QED
  BY <1>1, <1>2, <1>3, PTL DEF Spec, NothingForged

=============================================================================
