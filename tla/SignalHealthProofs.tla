------------------------- MODULE SignalHealthProofs -------------------------
(***************************************************************************)
(* Proofs about SignalHealth and Spectrum, for blocks of every size and    *)
(* any words, any amplitudes of the bins and both builds: the dominant     *)
(* frequency is plausible, clipping and a stuck channel are reported, a    *)
(* good block clears the signal bits whatever came before it, both         *)
(* decoders read from a chunk what was measured, the types are right, and  *)
(* the transform in place is the discrete Fourier transform.               *)
(***************************************************************************)
EXTENDS SignalHealth, NumberLemmas, FiniteSetTheorems, SequenceTheorems, TLAPS

-----------------------------------------------------------------------------
(* The search for the dominant bin.                                        *)

\* There is a bin besides bin 0.
LEMMA BinsRange == BINS \in Nat /\ BINS >= 2
BY SpectrumAssumption DEF BINS

\* A finite set that is not empty has an element whose key is least: none has
\* fewer elements below it.
LEMMA LeastKey ==
  ASSUME NEW S, IsFiniteSet(S), S # {}, NEW key \in [S -> Int]
  PROVE  \E x \in S : \A y \in S : key[x] <= key[y]
<1>. DEFINE Below(x) == {y \in S : key[y] < key[x]}
            T == {Below(x) : x \in S}
            R == StrictSubsetOrdering(S)
<1>1. T \subseteq FiniteSubsetsOf(S) /\ T # {}
  <2>1. \A x \in S : Below(x) \in SUBSET S /\ IsFiniteSet(Below(x))
    <3>. TAKE x \in S
    <3>1. Below(x) \in SUBSET S
      OBVIOUS
    <3>. QED
      BY <3>1, FS_Subset
  <2>2. \A t \in T : t \in FiniteSubsetsOf(S)
    <3>. TAKE t \in T
    <3>1. PICK x \in S : t = Below(x)
      OBVIOUS
    <3>. HIDE DEF Below, T
    <3>. QED
      BY <3>1, <2>1 DEF FiniteSubsetsOf
  <2>3. PICK x \in S : TRUE
    OBVIOUS
  <2>4. Below(x) \in T
    OBVIOUS
  <2>. HIDE DEF Below, T
  <2>. QED
    BY <2>2, <2>4
<1>2. PICK t \in T : \A u \in T : ~(<<u, t>> \in R)
  <2>1. IsWellFoundedOn(R, FiniteSubsetsOf(S))
    BY FS_StrictSubsetOrderingWellFounded
  <2>. HIDE DEF R, T
  <2>. QED
    BY <1>1, <2>1, WFMin
<1>3. PICK x \in S : t = Below(x)
  OBVIOUS
<1>4. ASSUME NEW y \in S, key[y] < key[x]
      PROVE  FALSE
  <2>1. Below(y) \subseteq Below(x) /\ y \in Below(x) /\ y \notin Below(y)
    BY <1>4
  <2>2. Below(y) \in T /\ <<Below(y), t>> \in R
    BY <1>3, <2>1 DEF StrictSubsetOrdering
  <2>. QED
    BY <1>2, <2>2
<1>. QED
  BY <1>4

\* The bins are finitely many.
LEMMA BinsFinite == IsFiniteSet(Bins) /\ IsFiniteSet(Bins \ {0})
<1>1. IsFiniteSet(Bins)
  BY BinsRange, FS_Interval DEF Bins
<1>2. Bins \ {0} \in SUBSET Bins
  OBVIOUS
<1>. QED
  BY <1>1, <1>2, FS_Subset

\* Some bin has the largest amplitude.
LEMMA SomeLargest ==
  ASSUME NEW a \in [Bins -> Nat]
  PROVE  \E bin \in Bins : IsLargest(a, bin)
<1>. DEFINE key == [b \in Bins \ {0} |-> -a[b]]
<1>1. key \in [Bins \ {0} -> Int]
  OBVIOUS
<1>2. 1 \in Bins \ {0}
  BY BinsRange DEF Bins
<1>3. \E x \in Bins \ {0} : \A y \in Bins \ {0} : key[x] <= key[y]
  <2>. HIDE DEF key
  <2>. QED
    BY <1>1, <1>2, BinsFinite, LeastKey
<1>4. PICK x \in Bins \ {0} : \A y \in Bins \ {0} : key[x] <= key[y]
  BY <1>3
<1>5. \A y \in Bins \ {0} : a[y] <= a[x]
  BY <1>4
<1>. QED
  BY <1>5 DEF IsLargest

\* The search finds one.
LEMMA LargestBinIsLargest ==
  ASSUME NEW a \in [Bins -> Nat]
  PROVE  LargestBin(a) \in Bins /\ IsLargest(a, LargestBin(a))
<1>. DEFINE S == {b \in Bins : IsLargest(a, b)}
            key == [b \in S |-> b]
<1>1. IsFiniteSet(S) /\ S # {} /\ \A b \in S : b \in Int
  BY SomeLargest, BinsRange, BinsFinite, FS_Subset DEF Bins
<1>2. key \in [S -> Int]
  BY <1>1
<1>3. \E x \in S : \A y \in S : key[x] <= key[y]
  <2>. HIDE DEF S, key
  <2>. QED
    BY <1>1, <1>2, LeastKey
<1>4. LargestBin(a) \in S
  BY <1>3 DEF LargestBin, Min
<1>. QED
  BY <1>4

-----------------------------------------------------------------------------
(* Rounding and interpolation.                                             *)

\* Division rounds down.
LEMMA Quotient ==
  ASSUME NEW n \in Int, NEW m \in Nat \ {0}
  PROVE  /\ n \div m \in Int
         /\ m * (n \div m) <= n
         /\ n < m * (n \div m) + m
OBVIOUS

\* A common factor cancels.
LEMMA Cancel ==
  ASSUME NEW m \in Nat \ {0}, NEW a \in Int, NEW b \in Int
  PROVE  /\ m * a <= m * b => a <= b
         /\ m * a < m * b => a < b
OBVIOUS

\* A fraction of at most one is at most one.
LEMMA Product ==
  ASSUME NEW m \in Nat, NEW d \in Int, NEW limit \in Nat,
         -limit <= d, d <= limit
  PROVE  /\ m * d \in Int
         /\ -(m * limit) <= m * d
         /\ m * d <= m * limit
OBVIOUS

\* Rounded, the vertex is at most half a bin away from its bin.
LEMMA VertexNear ==
  ASSUME NEW bin \in Nat, NEW m \in Nat, NEW den \in Nat \ {0}, NEW d \in Int,
         -den <= d, d <= den,
         NEW q, q = (m * (2 * bin * den + d) + den) \div (2 * den)
  PROVE  /\ q \in Int
         /\ 2 * (q - bin * m) <= m + 1
         /\ -(m + 1) <= 2 * (q - bin * m)
<1>. DEFINE n == m * (2 * bin * den + d) + den
            x == q - bin * m
<1>1. n \in Int /\ 2 * den \in Nat \ {0}
  OBVIOUS
<1>2. /\ q \in Int
      /\ (2 * den) * q <= n
      /\ n < (2 * den) * q + 2 * den
  <2>. HIDE DEF n
  <2>1. q = n \div (2 * den)
    BY DEF n
  <2>. QED
    BY <1>1, <2>1, Quotient
<1>3. n = (2 * den) * (bin * m) + m * d + den
  OBVIOUS
<1>4. x \in Int /\ (2 * den) * q = (2 * den) * (bin * m) + den * (2 * x)
  BY <1>2
<1>5. m * d \in Int /\ -(m * den) <= m * d /\ m * d <= m * den
  BY Product
<1>6. den * (2 * x) <= m * d + den /\ m * d + den < den * (2 * x) + 2 * den
  <2>. HIDE DEF n, x
  <2>1. /\ (2 * den) * (bin * m) \in Int
        /\ den * (2 * x) \in Int
    BY <1>4
  <2>. QED
    BY <1>2, <1>3, <1>4, <1>5, <2>1
<1>7. den * (2 * x) <= den * (m + 1) /\ den * (-(m + 1)) < den * (2 * x)
  <2>. HIDE DEF n, x
  <2>1. den * (m + 1) = m * den + den /\ den * (-(m + 1)) = -(m * den) - den
    OBVIOUS
  <2>2. den * (2 * x) \in Int /\ m * den \in Int
    BY <1>4
  <2>. QED
    BY <1>5, <1>6, <2>1, <2>2
<1>8. 2 * x <= m + 1 /\ -(m + 1) < 2 * x
  <2>. HIDE DEF x
  <2>. QED
    BY <1>4, <1>7, Cancel
<1>. QED
  BY <1>2, <1>8

\* The dominant frequency is next to a largest bin, and never above Nyquist.
LEMMA DominantNear ==
  ASSUME NEW a \in [Bins -> Nat]
  PROVE  /\ \E bin \in Bins :
              /\ IsLargest(a, bin)
              /\ 2 * Size(dominant_millihz(a) - bin * BIN_MILLIHZ)
                   <= BIN_MILLIHZ + 1
         /\ dominant_millihz(a) \in Int
         /\ dominant_millihz(a) <= NYQUIST
<1>. DEFINE bin == LargestBin(a)
            left == a[bin - 1]
            right == a[bin + 1]
            curve == left - 2 * a[bin] + right
            den == IF curve < 0 THEN -curve ELSE curve
            d == Clamped(IF curve < 0 THEN right - left ELSE left - right, den)
            q == dominant_millihz(a)
<1>1. bin \in Bins /\ IsLargest(a, bin)
  BY LargestBinIsLargest
<1>2. bin \in Nat /\ bin >= 1 /\ bin < BINS /\ BIN_MILLIHZ \in Nat
  BY <1>1, BinsRange, SpectrumAssumption DEF Bins, IsLargest
<1>3. CASE bin + 1 = BINS \/ curve = 0
  <2>1. q = bin * BIN_MILLIHZ
    BY <1>3 DEF dominant_millihz
  <2>. HIDE DEF q, bin
  <2>2. q \in Int /\ q <= NYQUIST /\ q - bin * BIN_MILLIHZ = 0
    BY <2>1, <1>2, BinsRange DEF NYQUIST
  <2>3. 2 * Size(q - bin * BIN_MILLIHZ) <= BIN_MILLIHZ + 1
    BY <2>2, <1>2 DEF Size
  <2>. QED
    BY <1>1, <2>2, <2>3 DEF q
<1>4. CASE bin + 1 # BINS /\ curve # 0
  <2>1. left \in Nat /\ right \in Nat /\ a[bin] \in Nat
    <3>. HIDE DEF bin
    <3>1. bin - 1 \in Bins /\ bin + 1 \in Bins
      BY <1>2, <1>4, BinsRange DEF Bins
    <3>. QED
      BY <1>1, <3>1
  <2>2. q = (BIN_MILLIHZ * (2 * bin * den + d) + den) \div (2 * den)
    BY <1>4 DEF dominant_millihz
  <2>3. den \in Nat \ {0} /\ d \in Int /\ -den <= d /\ d <= den
    BY <1>4, <2>1 DEF Clamped
  <2>. HIDE DEF q, bin, left, right, curve, den, d
  <2>4. /\ q \in Int
        /\ 2 * (q - bin * BIN_MILLIHZ) <= BIN_MILLIHZ + 1
        /\ -(BIN_MILLIHZ + 1) <= 2 * (q - bin * BIN_MILLIHZ)
    BY <1>2, <2>2, <2>3, VertexNear
  <2>5. 2 * Size(q - bin * BIN_MILLIHZ) <= BIN_MILLIHZ + 1
    BY <1>2, <2>4 DEF Size
  <2>6. q <= (bin + 1) * BIN_MILLIHZ
    BY <1>2, <2>4
  <2>7. (bin + 1) * BIN_MILLIHZ <= BINS * BIN_MILLIHZ
    BY <1>2, BinsRange
  <2>8. q <= NYQUIST
    BY <1>2, <2>4, <2>6, <2>7, BinsRange DEF NYQUIST
  <2>. QED
    BY <1>1, <2>4, <2>5, <2>8 DEF q
<1>. QED
  BY <1>3, <1>4

-----------------------------------------------------------------------------
(* Sums over a block.                                                      *)

\* A block is not empty.
LEMMA BlockSize == FFT_SIZE \in Nat \ {0} /\ 0 \in Positions
BY SpectrumAssumption DEF Positions

\* The loop adds one number after another.
LEMMA AddedUpIs ==
  ASSUME NEW f \in [Positions -> Int]
  PROVE  /\ AddedUp(f) \in [0 .. FFT_SIZE -> Int]
         /\ AddedUp(f)[0] = 0
         /\ \A n \in 1 .. FFT_SIZE : AddedUp(f)[n] = AddedUp(f)[n - 1] + f[n - 1]
<1>. DEFINE size == FFT_SIZE
            step == [x \in (1 .. size) \X Int |-> x[2] + f[x[1] - 1]]
            Loop(g) == g = [n \in 0 .. size |-> IF n = 0 THEN 0
                                                ELSE g[n - 1] + f[n - 1]]
            e == AddedUp(f)
<1>1. size \in Nat /\ \A n \in 1 .. size : f[n - 1] \in Int
  BY BlockSize DEF Positions
<1>2. e = CHOOSE g : Loop(g)
  BY DEF AddedUp
<1>. HIDE DEF size, e
<1>3. step \in [(1 .. size) \X Int -> Int]
  BY <1>1
<1>4. PICK g \in [0 .. size -> Int] :
        g[0] = 0 /\ \A n \in 1 .. size : g[n] = step[<<n, g[n - 1]>>]
  <2>1. \E g : Recursion(g, size, Int, 0, step)
    <3>. HIDE DEF step
    <3>1. 0 \in Int
      OBVIOUS
    <3>. QED
      BY <1>1, <1>3, <3>1, RecursionTo, Zenon
  <2>. HIDE DEF step
  <2>. QED
    BY <2>1 DEF Recursion
<1>5. \A n \in 1 .. size : g[n] = g[n - 1] + f[n - 1]
  <2>. TAKE n \in 1 .. size
  <2>1. n - 1 \in 0 .. size
    BY <1>1
  <2>2. <<n, g[n - 1]>> \in (1 .. size) \X Int
    BY <1>4, <2>1
  <2>3. step[<<n, g[n - 1]>>] = g[n - 1] + f[n - 1]
    BY <2>2
  <2>. QED
    BY <1>4, <2>3
<1>6. Loop(g)
  BY <1>1, <1>4, <1>5
<1>7. Loop(e)
  <2>. HIDE DEF Loop
  <2>. QED
    BY <1>2, <1>6
<1>8. e[0] = 0 /\ \A n \in 1 .. size : e[n] = e[n - 1] + f[n - 1]
  BY <1>1, <1>7
<1>9. \A n \in 0 .. size : e[n] \in Int
  <2>1. \A n \in 1 .. size : e[n - 1] \in Int => e[n] \in Int
    BY <1>1, <1>8
  <2>2. e[0] \in Int
    BY <1>8
  <2>. QED
    BY <1>1, <2>1, <2>2, LoopKeeps
<1>10. e \in [0 .. size -> Int]
  BY <1>7, <1>9
<1>. QED
  BY <1>8, <1>10 DEF size, e

\* Equal numbers add up to their product.
LEMMA EqualAddedUp ==
  ASSUME NEW v \in Int, NEW f \in [Positions -> Int],
         \A i \in Positions : f[i] = v
  PROVE  AddedUp(f)[FFT_SIZE] = FFT_SIZE * v
<1>. DEFINE e == AddedUp(f)
            T == {n \in Nat : n <= FFT_SIZE => e[n] = n * v}
<1>1. /\ e \in [0 .. FFT_SIZE -> Int] /\ e[0] = 0
      /\ \A n \in 1 .. FFT_SIZE : e[n] = e[n - 1] + f[n - 1]
  BY AddedUpIs
<1>2. FFT_SIZE \in Nat
  BY BlockSize
<1>. HIDE DEF e
<1>3. 0 \in T
  BY <1>1
<1>4. ASSUME NEW n \in Nat, n < FFT_SIZE, n \in T
      PROVE  n + 1 \in T
  <2>1. n + 1 \in 1 .. FFT_SIZE /\ (n + 1) - 1 = n /\ n \in Positions
    BY <1>2, <1>4 DEF Positions
  <2>2. e[n + 1] = e[n] + v
    BY <1>1, <2>1
  <2>3. e[n] = n * v
    BY <1>2, <1>4
  <2>4. (n + 1) * v = n * v + v
    OBVIOUS
  <2>. QED
    BY <2>2, <2>3, <2>4
<1>5. \A n \in 0 .. FFT_SIZE : n \in T
  <2>. HIDE DEF T
  <2>. QED
    BY <1>2, <1>3, <1>4, InductTo
<1>6. FFT_SIZE \in T
  <2>. HIDE DEF T
  <2>. QED
    BY <1>2, <1>5
<1>. QED
  BY <1>2, <1>6 DEF e

-----------------------------------------------------------------------------
(* The invariant: what the status was made of.                             *)

Clipped(words) == Cardinality({i \in Positions : AtRail(words[i])})

\* A result's status is the signal bits of its own measures and the sticky bits.
StatusMade ==
    \E sticky \in SUBSET StickyBits, processing_us \in ProcessingTimes :
        status = sticky \cup spectrum_health_check(dominant, processing_us)

SignalInv ==
    /\ sticky_status \subseteq StickyBits
    /\ pc \in {"unpack", "analyse"} => status = {}
    /\ pc \in {"analyse", "publish"} =>
         /\ block \in Blocks
         /\ channel_samples = [c \in Channels |-> Unpacked(block[c])]
         /\ channel_clipped_samples = [c \in Channels |-> Clipped(block[c])]
    /\ pc = "publish" =>
         /\ amplitudes \in [Channels -> [Bins -> Nat]]
         /\ dominant = [c \in Channels |-> dominant_millihz(amplitudes[c])]
         /\ StatusMade

\* Saturating keeps the amplitudes natural numbers.
LEMMA CorrectedType ==
  ASSUME NEW a \in [Bins -> Nat]
  PROVE  /\ Corrected(a) \in [Bins -> Nat]
         /\ \A b \in Bins : Corrected(a)[b] <= Q15_MAX
BY SpectrumAssumption DEF Corrected

\* The analysis makes the status of what it measured.
LEMMA AnalyseStep ==
  ASSUME SignalInv, Analyse
  PROVE  SignalInv'
<1>1. /\ pc = "analyse" /\ pc' = "publish" /\ status = {}
      /\ UNCHANGED <<block, channel_samples, channel_clipped_samples,
                     sticky_status>>
  BY DEF SignalInv, Analyse, input
<1>2. amplitudes' \in [Channels -> [Bins -> Nat]]
  <2>1. Amplitudes \subseteq [Channels -> [Bins -> Nat]]
    BY SignalAssumption DEF SignalAssumption
  <2>2. CASE cmsis
    <3>1. PICK a \in Amplitudes :
            amplitudes' = [c \in Channels |-> Corrected(a[c])]
      BY <2>2 DEF Analyse
    <3>. QED
      BY <2>1, <3>1, CorrectedType
  <2>3. CASE ~cmsis
    BY <2>1, <2>3 DEF Analyse
  <2>. QED
    BY <2>2, <2>3
<1>3. dominant' = [c \in Channels |-> dominant_millihz(amplitudes'[c])]
  BY DEF Analyse
<1>4. StatusMade'
  <2>1. PICK processing_us \in ProcessingTimes :
          status' = status \cup sticky_status
                      \cup spectrum_health_check(dominant', processing_us)
    BY DEF Analyse
  <2>2. spectrum_health_check(dominant, processing_us)' =
          spectrum_health_check(dominant', processing_us)
    BY <1>1 DEF spectrum_health_check
  <2>. QED
    BY <1>1, <2>1, <2>2 DEF StatusMade, SignalInv
<1>. QED
  BY <1>1, <1>2, <1>3, <1>4 DEF SignalInv

\* Every step preserves the invariant.
LEMMA SignalInvStep == SignalInv /\ [Next]_vars => SignalInv'
<1>. SUFFICES ASSUME SignalInv, [Next]_vars
             PROVE  SignalInv'
  OBVIOUS
<1>1. CASE Receive
  BY <1>1 DEF Receive, SignalInv, input, spectra
<1>2. CASE Unpack
  <2>1. /\ pc' = "analyse" /\ block' \in Blocks
        /\ channel_samples' = [c \in Channels |-> Unpacked(block'[c])]
        /\ channel_clipped_samples' =
             [c \in Channels |-> Clipped(block'[c])]
        /\ pc = "unpack" /\ UNCHANGED <<status, sticky_status>>
    BY <1>2 DEF Unpack, Clipped
  <2>. QED
    BY <2>1 DEF SignalInv
<1>3. CASE Reject
  BY <1>3 DEF Reject, SignalInv, StickyBits
<1>4. CASE Analyse
  BY <1>4, AnalyseStep
<1>5. CASE Publish
  BY <1>5 DEF Publish, SignalInv
<1>6. CASE StatusSet \/ UNCHANGED vars
  <2>1. /\ UNCHANGED <<pc, block, channel_samples, channel_clipped_samples,
                       amplitudes, dominant, status>>
        /\ sticky_status' \subseteq StickyBits
    BY <1>6 DEF StatusSet, vars, input, spectra, SignalInv, StickyBits
  <2>2. StatusMade' = StatusMade
    BY <2>1 DEF StatusMade, spectrum_health_check
  <2>. QED
    BY <2>1, <2>2 DEF SignalInv
<1>. QED
  BY <1>1, <1>2, <1>3, <1>4, <1>5, <1>6 DEF Next

\* The invariant holds throughout.
LEMMA SignalInductive == Spec => []SignalInv
<1>1. Init => SignalInv
  BY DEF Init, SignalInv, StickyBits
<1>. QED
  BY <1>1, SignalInvStep, PTL DEF Spec

-----------------------------------------------------------------------------
\* The dominant frequency of every result is within half a bin of its largest
\* bin, and the plausibility check never takes it for a fault.
THEOREM PlausibleDominant == Spec => []DominantPlausible
<1>1. SignalInv => DominantPlausible
  <2>. SUFFICES ASSUME SignalInv, pc = "publish"
               PROVE  DominantPlausible
    BY DEF DominantPlausible
  <2>1. /\ amplitudes \in [Channels -> [Bins -> Nat]]
        /\ dominant = [c \in Channels |-> dominant_millihz(amplitudes[c])]
        /\ StatusMade
    BY DEF SignalInv
  <2>2. \A c \in Channels : \E bin \in Bins :
          /\ IsLargest(amplitudes[c], bin)
          /\ 2 * Size(dominant[c] - bin * BIN_MILLIHZ) <= BIN_MILLIHZ + 1
    BY <2>1, DominantNear
  <2>3. \A c \in Channels : ~(dominant[c] > NYQUIST)
    <3>. TAKE c \in Channels
    <3>1. dominant[c] \in Int /\ dominant[c] <= NYQUIST
      BY <2>1, DominantNear
    <3>2. NYQUIST \in Int
      BY BinsRange, SpectrumAssumption DEF NYQUIST
    <3>. QED
      BY <3>1, <3>2
  <2>4. \A c \in Channels :
          "NUMERIC_FAULT" \notin Faults(channel_samples[c],
                                        channel_clipped_samples[c], dominant[c])
    BY <2>3 DEF Faults
  <2>5. "NUMERIC_FAULT" \notin status
    BY <2>1, <2>4 DEF StatusMade, spectrum_health_check, StickyBits
  <2>. QED
    BY <2>2, <2>5 DEF DominantPlausible
<1>. QED
  BY <1>1, SignalInductive, PTL

\* A word at the end of the converter's range, wherever in the block, is counted.
LEMMA ClippedCounted ==
  ASSUME NEW words, NEW i \in Positions, AtRail(words[i])
  PROVE  Clipped(words) # 0
<1>. DEFINE S == {j \in Positions : AtRail(words[j])}
<1>1. IsFiniteSet(Positions)
  BY SpectrumAssumption, FS_Interval DEF Positions
<1>2. S \in SUBSET Positions /\ i \in S
  OBVIOUS
<1>3. IsFiniteSet(S)
  BY <1>1, <1>2, FS_Subset
<1>4. Cardinality(S) # 0
  <2>. HIDE DEF S
  <2>. QED
    BY <1>2, <1>3, FS_EmptySet
<1>. QED
  BY <1>4 DEF Clipped

\* Clipping anywhere in the block is reported, and the result is not valid.
THEOREM ClippingIsReported == Spec => []ClippingReported
<1>1. SignalInv => ClippingReported
  <2>. SUFFICES ASSUME SignalInv, pc = "publish",
                       NEW c \in Channels, NEW i \in Positions,
                       block[c][i] \in (0 .. RAIL)
                                         \cup (ADC_MAX - RAIL .. ADC_MAX)
               PROVE  "ADC_CLIPPING" \in status /\ "SIGNAL_VALID" \notin status
    BY DEF ClippingReported
  <2>1. AtRail(block[c][i])
    BY SignalAssumption DEF AtRail
  <2>2. channel_clipped_samples[c] # 0
    BY <2>1, ClippedCounted DEF SignalInv
  <2>3. "ADC_CLIPPING" \in Faults(channel_samples[c],
                                  channel_clipped_samples[c], dominant[c])
    BY <2>2 DEF Faults
  <2>4. \A k \in Channels :
          "SIGNAL_VALID" \notin Faults(channel_samples[k],
                                       channel_clipped_samples[k], dominant[k])
    BY DEF Faults
  <2>5. StatusMade
    BY DEF SignalInv
  <2>. HIDE DEF Faults
  <2>. QED
    BY <2>3, <2>4, <2>5 DEF StatusMade, spectrum_health_check, StickyBits
<1>. QED
  BY <1>1, SignalInductive, PTL

-----------------------------------------------------------------------------
(* A frozen channel.                                                       *)

\* The size of a sample, and its half.
LEMMA SampleSize ==
  /\ WORD \in Nat \ {0} /\ WORD \div 2 \in Nat
  /\ WORD \div 2 < WORD /\ 2 * (WORD \div 2) <= WORD
<1>1. SCALE \in Nat \ {0} /\ ADC_MAX \in Nat /\ WORD = SCALE * (ADC_MAX + 1)
  BY SignalAssumption
<1>2. WORD \in Nat \ {0}
  BY <1>1
<1>. QED
  BY <1>2

\* A small number fits a sample.
LEMMA NarrowFits ==
  ASSUME NEW x \in Int, -(WORD \div 2) <= x, x < WORD \div 2
  PROVE  Narrow(x) = x
<1>. DEFINE half == WORD \div 2
<1>1. half \in Nat /\ 2 * half <= WORD /\ WORD \in Nat \ {0}
  BY SampleSize
<1>2. x + half \in 0 .. WORD - 1
  <2>. HIDE DEF half
  <2>1. -half <= x /\ x < half
    BY DEF half
  <2>. QED
    BY <1>1, <2>1
<1>3. (x + half) % WORD = x + half
  <2>. HIDE DEF half
  <2>. QED
    BY <1>1, <1>2
<1>4. (x + half) - half = x
  <2>. HIDE DEF half
  <2>. QED
    BY <1>1
<1>. QED
  BY <1>3, <1>4 DEF Narrow

\* The mean of equal words is the word.
LEMMA FrozenMean ==
  ASSUME NEW v \in Int, NEW word \in [Positions -> Int],
         \A i \in Positions : word[i] = v
  PROVE  Mean(word) = v
<1>1. Total(word) = FFT_SIZE * v
  BY EqualAddedUp DEF Total
<1>2. FFT_SIZE \in Nat \ {0}
  BY BlockSize
<1>3. FFT_SIZE \div 2 \in 0 .. FFT_SIZE - 1
  BY <1>2
<1>4. (FFT_SIZE * v + (FFT_SIZE \div 2)) \div FFT_SIZE = v
  BY <1>2, <1>3, Remainder
<1>. QED
  BY <1>1, <1>4 DEF Mean

\* It leaves no signal.
LEMMA FrozenSamples ==
  ASSUME NEW v \in Int, NEW word \in [Positions -> Int],
         \A i \in Positions : word[i] = v
  PROVE  Unpacked(word) = [i \in Positions |-> 0]
<1>1. Mean(word) = v
  BY FrozenMean
<1>2. SCALE \in Nat
  BY SignalAssumption
<1>3. \A i \in Positions : SCALE * (word[i] - v) = 0
  BY <1>2
<1>4. WORD \div 2 # 0
  BY SampleSize, SignalAssumption
<1>5. Narrow(0) = 0
  <2>1. -(WORD \div 2) <= 0 /\ 0 < WORD \div 2
    BY <1>4, SampleSize
  <2>. QED
    BY <2>1, NarrowFits
<1>. QED
  BY <1>1, <1>3, <1>5 DEF Unpacked

\* No signal has no power ...
LEMMA SilenceRms == Rms([i \in Positions |-> 0]) = 0
<1>. DEFINE zeros == [i \in Positions |-> 0]
            squares == [i \in Positions |-> zeros[i] * zeros[i]]
            R == {r \in 1 .. (WORD \div 2) - 1 :
                    FFT_SIZE * (2 * r - 1) * (2 * r - 1) <= 4 * SquareSum(zeros)}
<1>1. FFT_SIZE \in Nat \ {0} /\ WORD \div 2 \in Nat
  BY BlockSize, SampleSize
<1>2. squares \in [Positions -> Int] /\ \A i \in Positions : squares[i] = 0
  OBVIOUS
<1>3. SquareSum(zeros) = 0
  <2>1. SquareSum(zeros) = AddedUp(squares)[FFT_SIZE]
    BY DEF SquareSum
  <2>2. FFT_SIZE * 0 = 0 /\ 0 \in Int
    BY <1>1
  <2>3. AddedUp(squares)[FFT_SIZE] = FFT_SIZE * 0
    <3>. HIDE DEF squares
    <3>. QED
      BY <1>2, <2>2, EqualAddedUp, Zenon
  <2>. QED
    BY <2>1, <2>2, <2>3
<1>4. R = {}
  <2>. SUFFICES ASSUME NEW r \in 1 .. (WORD \div 2) - 1,
                       FFT_SIZE * (2 * r - 1) * (2 * r - 1) <= 4 * SquareSum(zeros)
               PROVE  FALSE
    OBVIOUS
  <2>1. r \in Int /\ r >= 1
    BY <1>1
  <2>2. 2 * r - 1 \in Nat \ {0}
    BY <2>1
  <2>3. FFT_SIZE * (2 * r - 1) \in Nat \ {0}
    BY <1>1, <2>2
  <2>4. FFT_SIZE * (2 * r - 1) * (2 * r - 1) \in Nat \ {0}
    BY <2>2, <2>3
  <2>. HIDE DEF zeros
  <2>. QED
    BY <1>3, <2>4
<1>5. Rms(zeros) = Max({0} \cup R)
  BY DEF Rms
<1>. HIDE DEF R, zeros
<1>6. Max({0}) = 0
  BY DEF Max
<1>7. {0} \cup R = {0}
  BY <1>4
<1>. QED
  BY <1>5, <1>6, <1>7 DEF zeros

\* ... and does not move.
LEMMA SilenceSpan == Span([i \in Positions |-> 0]) = 0
<1>. DEFINE zeros == [i \in Positions |-> 0]
            S == {zeros[i] : i \in Previewed}
<1>1. 0 \in Previewed
  <2>1. /\ PREVIEW_SAMPLES \in Nat \ {0} /\ FFT_SIZE \in Nat \ {0}
        /\ FFT_SIZE % PREVIEW_SAMPLES = 0
    BY SignalAssumption, BlockSize
  <2>2. FFT_SIZE = PREVIEW_SAMPLES * (FFT_SIZE \div PREVIEW_SAMPLES)
        /\ FFT_SIZE \div PREVIEW_SAMPLES \in Int
    BY <2>1, Division
  <2>3. FFT_SIZE \div PREVIEW_SAMPLES \in Nat \ {0}
    BY <2>1, <2>2
  <2>4. 0 % (FFT_SIZE \div PREVIEW_SAMPLES) = 0
    BY <2>3
  <2>. QED
    BY <2>4, BlockSize DEF Previewed
<1>2. S = {0}
  BY <1>1 DEF Previewed
<1>3. Max({0}) = 0 /\ Min({0}) = 0
  BY DEF Max, Min
<1>4. Span(zeros) = Max(S) - Min(S)
  BY DEF Span
<1>. QED
  BY <1>2, <1>3, <1>4

\* A channel on which every word is the same is reported weak and frozen, and the
\* result is not valid, at whatever level it is stuck.
THEOREM FreezeIsReported == Spec => []FreezeReported
<1>1. SignalInv => FreezeReported
  <2>. SUFFICES ASSUME SignalInv, pc = "publish",
                       NEW c \in Channels,
                       \A i \in Positions : block[c][i] = block[c][0]
               PROVE  /\ {"SIGNAL_WEAK", "SIGNAL_FROZEN"} \subseteq status
                      /\ "SIGNAL_VALID" \notin status
    BY DEF FreezeReported
  <2>1. block[c] \in [Positions -> Int] /\ block[c][0] \in Int
    <3>1. block[c] \in [Positions -> 0 .. ADC_MAX]
      BY SignalAssumption DEF SignalInv
    <3>. QED
      BY <3>1, BlockSize
  <2>2. channel_samples[c] = [i \in Positions |-> 0]
    BY <2>1, FrozenSamples DEF SignalInv
  <2>3. /\ Rms(channel_samples[c]) < SIGNAL_MIN_RMS
        /\ Span(channel_samples[c]) < SIGNAL_MIN_SPAN
    BY <2>2, SilenceRms, SilenceSpan, SignalAssumption
  <2>4. {"SIGNAL_WEAK", "SIGNAL_FROZEN"} \subseteq
          Faults(channel_samples[c], channel_clipped_samples[c], dominant[c])
    BY <2>3 DEF Faults
  <2>5. \A k \in Channels :
          "SIGNAL_VALID" \notin Faults(channel_samples[k],
                                       channel_clipped_samples[k], dominant[k])
    BY DEF Faults
  <2>6. StatusMade
    BY DEF SignalInv
  <2>. HIDE DEF Faults
  <2>. QED
    BY <2>4, <2>5, <2>6 DEF StatusMade, spectrum_health_check, StickyBits
<1>. QED
  BY <1>1, SignalInductive, PTL

-----------------------------------------------------------------------------
(* A good channel.                                                         *)

\* A finite set of integers has a largest and a least.
LEMMA MaxIs ==
  ASSUME NEW S \in SUBSET Int, IsFiniteSet(S), S # {}
  PROVE  Max(S) \in S /\ \A y \in S : y <= Max(S)
<1>. DEFINE key == [x \in S |-> -x]
<1>1. key \in [S -> Int]
  OBVIOUS
<1>2. \E x \in S : \A y \in S : key[x] <= key[y]
  <2>. HIDE DEF key
  <2>. QED
    BY <1>1, LeastKey
<1>3. \E x \in S : \A y \in S : x >= y
  BY <1>2
<1>. QED
  BY <1>3 DEF Max

\* The other way round, for the least.
LEMMA MinIs ==
  ASSUME NEW S \in SUBSET Int, IsFiniteSet(S), S # {}
  PROVE  Min(S) \in S /\ \A y \in S : Min(S) <= y
<1>. DEFINE key == [x \in S |-> x]
<1>1. key \in [S -> Int]
  OBVIOUS
<1>2. \E x \in S : \A y \in S : key[x] <= key[y]
  <2>. HIDE DEF key
  <2>. QED
    BY <1>1, LeastKey
<1>3. \E x \in S : \A y \in S : x <= y
  BY <1>2
<1>. QED
  BY <1>3 DEF Min

\* So do the values of a block.
LEMMA ValuesFinite ==
  ASSUME NEW I \in SUBSET Positions, NEW f \in [Positions -> Int]
  PROVE  IsFiniteSet({f[i] : i \in I}) /\ {f[i] : i \in I} \in SUBSET Int
<1>1. IsFiniteSet(Positions)
  BY BlockSize, FS_Interval DEF Positions
<1>2. IsFiniteSet(I)
  BY <1>1, FS_Subset
<1>. DEFINE g == [i \in I |-> f[i]]
            T == {f[i] : i \in I}
<1>3. g \in Surjection(I, T)
  BY DEF Surjection
<1>4. IsFiniteSet(T)
  <2>. HIDE DEF g, T
  <2>. QED
    BY <1>2, <1>3, FS_Surjection
<1>. QED
  BY <1>4

\* Within the converter's half the samples are the swing itself.
LEMMA GoodSamples ==
  ASSUME NEW word \in [Positions -> Int], Good(word)
  PROVE  LET mean == Mean(word)
             swing == [i \in Positions |-> SCALE * (word[i] - mean)]
         IN  /\ mean \in Int /\ swing \in [Positions -> Int]
             /\ Unpacked(word) = swing
<1>. DEFINE mean == Mean(word)
            swing == [i \in Positions |-> SCALE * (word[i] - mean)]
<1>1. FFT_SIZE \in Nat \ {0} /\ SCALE \in Nat
  BY BlockSize, SignalAssumption
<1>2. mean \in Int
  <2>1. Total(word) \in Int
    BY <1>1, AddedUpIs DEF Total
  <2>. QED
    BY <1>1, <2>1 DEF Mean
<1>. HIDE DEF mean
<1>3. swing \in [Positions -> Int]
  BY <1>1, <1>2
<1>4. \A i \in Positions : Narrow(swing[i]) = swing[i]
  <2>. TAKE i \in Positions
  <2>. DEFINE x == swing[i]
  <2>1. x \in Int
    BY <1>3
  <2>2. Size(x) < SIGNAL_CLIP
    BY DEF Good, mean
  <2>. HIDE DEF x
  <2>3. -(WORD \div 2) <= x /\ x < WORD \div 2
    BY <2>1, <2>2, SampleSize, SignalAssumption DEF Size
  <2>. QED
    BY <2>1, <2>3, NarrowFits DEF x
<1>5. Unpacked(word) = swing
  BY <1>4 DEF Unpacked, mean
<1>. QED
  BY <1>2, <1>3, <1>5 DEF mean

\* Enough power is measured as such ...
LEMMA EnoughRms ==
  ASSUME NEW samples \in [Positions -> Int],
         SquareSum(samples) >= FFT_SIZE * SIGNAL_MIN_RMS * SIGNAL_MIN_RMS
  PROVE  ~(Rms(samples) < SIGNAL_MIN_RMS)
<1>. DEFINE n == FFT_SIZE
            m == SIGNAL_MIN_RMS
            sum == SquareSum(samples)
            R == {r \in 1 .. (WORD \div 2) - 1 :
                    n * (2 * r - 1) * (2 * r - 1) <= 4 * sum}
            S == {0} \cup R
<1>1. /\ n \in Nat \ {0} /\ m \in Nat \ {0} /\ WORD \div 2 \in Nat
      /\ m \in 1 .. (WORD \div 2) - 1
  BY BlockSize, SampleSize, SignalAssumption
<1>2. sum \in Int /\ sum >= n * m * m
  <2>. DEFINE squares == [i \in Positions |-> samples[i] * samples[i]]
  <2>1. squares \in [Positions -> Int]
    OBVIOUS
  <2>2. sum = AddedUp(squares)[FFT_SIZE]
    BY DEF SquareSum
  <2>3. AddedUp(squares)[FFT_SIZE] \in Int
    <3>. HIDE DEF squares
    <3>. QED
      BY <1>1, <2>1, AddedUpIs
  <2>. QED
    BY <2>2, <2>3
<1>. HIDE DEF n, m, sum
<1>3. n * (2 * m - 1) * (2 * m - 1) <= 4 * sum
  <2>1. (2 * m - 1) * (2 * m - 1) = 4 * (m * m) - (4 * m - 1)
    BY <1>1
  <2>2. m * m \in Nat /\ 4 * m - 1 \in Nat
    BY <1>1
  <2>3. n * (2 * m - 1) * (2 * m - 1) = n * ((2 * m - 1) * (2 * m - 1))
    BY <1>1
  <2>4. n * m * m = n * (m * m)
    BY <1>1
  <2>5. n * (4 * (m * m) - (4 * m - 1)) = 4 * (n * (m * m)) - n * (4 * m - 1)
    BY <1>1, <2>2
  <2>6. n * (4 * m - 1) \in Nat /\ n * (m * m) \in Nat
    BY <1>1, <2>2
  <2>. QED
    BY <1>2, <2>1, <2>3, <2>4, <2>5, <2>6
<1>4. m \in S
  BY <1>1, <1>3
<1>5. S \in SUBSET Int /\ IsFiniteSet(S)
  <2>. DEFINE half == WORD \div 2
  <2>1. S \in SUBSET (0 .. half)
    BY <1>1
  <2>2. S \in SUBSET Int
    BY <1>1
  <2>. HIDE DEF S, half
  <2>3. IsFiniteSet(0 .. half)
    BY <1>1, FS_Interval DEF half
  <2>. QED
    BY <2>1, <2>2, <2>3, FS_Subset
<1>6. Rms(samples) = Max(S)
  BY DEF Rms, n, sum
<1>7. Max(S) \in Int /\ m <= Max(S)
  <2>. HIDE DEF S
  <2>. QED
    BY <1>4, <1>5, MaxIs
<1>. QED
  BY <1>1, <1>6, <1>7 DEF m

\* ... a small swing does not look clipped ...
LEMMA SmallPeak ==
  ASSUME NEW samples \in [Positions -> Int],
         \A i \in Positions : Size(samples[i]) < SIGNAL_CLIP
  PROVE  ~(Peak(samples) >= SIGNAL_CLIP)
<1>. DEFINE sizes == [i \in Positions |-> Size(samples[i])]
            S == {sizes[i] : i \in Positions}
            half == WORD \div 2
<1>1. sizes \in [Positions -> Int]
  BY DEF Size
<1>2. S = {Size(samples[i]) : i \in Positions}
  OBVIOUS
<1>3. \A y \in S : y < SIGNAL_CLIP
  OBVIOUS
<1>4. S # {}
  BY BlockSize
<1>5. IsFiniteSet(S) /\ S \in SUBSET Int
  <2>. HIDE DEF sizes
  <2>. QED
    BY <1>1, ValuesFinite
<1>6. Peak(samples) = IF Max(S) > half - 1 THEN half - 1 ELSE Max(S)
  BY <1>2 DEF Peak
<1>. HIDE DEF S, half
<1>7. Max(S) \in Int /\ Max(S) < SIGNAL_CLIP
  BY <1>3, <1>4, <1>5, MaxIs
<1>8. half \in Int /\ SIGNAL_CLIP \in Int /\ SIGNAL_CLIP <= half
  BY SampleSize, SignalAssumption DEF half
<1>. QED
  BY <1>6, <1>7, <1>8

\* ... and what moves in the preview does not look frozen.
LEMMA WideSpan ==
  ASSUME NEW samples \in [Positions -> Int], NEW i \in Previewed, NEW j \in Previewed,
         samples[i] - samples[j] >= SIGNAL_MIN_SPAN
  PROVE  ~(Span(samples) < SIGNAL_MIN_SPAN)
<1>. DEFINE S == {samples[k] : k \in Previewed}
<1>1. Previewed \in SUBSET Positions
  BY DEF Previewed
<1>2. IsFiniteSet(S) /\ S \in SUBSET Int
  BY <1>1, ValuesFinite
<1>3. samples[i] \in S /\ samples[j] \in S
  OBVIOUS
<1>4. Span(samples) = Max(S) - Min(S)
  BY DEF Span
<1>5. samples[i] \in Int /\ samples[j] \in Int
  BY <1>1
<1>. HIDE DEF S
<1>6. /\ Max(S) \in Int /\ Min(S) \in Int
      /\ samples[i] <= Max(S) /\ Min(S) <= samples[j]
  BY <1>2, <1>3, MaxIs, MinIs
<1>. QED
  BY <1>4, <1>5, <1>6, SignalAssumption

\* Away from the rails nothing is counted as clipped.
LEMMA NothingClipped ==
  ASSUME NEW word \in [Positions -> Int],
         \A i \in Positions : RAIL < word[i] /\ word[i] < ADC_MAX - RAIL
  PROVE  Clipped(word) = 0
<1>. DEFINE S == {i \in Positions : AtRail(word[i])}
<1>1. \A i \in Positions : ~AtRail(word[i])
  BY SignalAssumption DEF AtRail
<1>2. S = {}
  BY <1>1
<1>3. Cardinality({}) = 0
  BY FS_EmptySet
<1>. QED
  BY <1>2, <1>3 DEF Clipped

\* When every channel is good the signal bits of the result are those of a valid
\* one, whatever was clipped, weak or frozen before.
THEOREM SignalAlwaysRecovers == Spec => []SignalRecovers
<1>1. SignalInv => SignalRecovers
  <2>. SUFFICES ASSUME SignalInv, pc = "publish", \A c \in Channels : Good(block[c])
               PROVE  status \cap SignalBits = {"SIGNAL_VALID"}
    BY DEF SignalRecovers
  <2>1. ASSUME NEW c \in Channels
        PROVE  Faults(channel_samples[c], channel_clipped_samples[c],
                      dominant[c]) = {}
    <3>. DEFINE word == block[c]
                samples == Unpacked(word)
    <3>1. word \in [Positions -> Int] /\ Good(word)
      <4>1. block[c] \in [Positions -> 0 .. ADC_MAX]
        BY SignalAssumption DEF SignalInv
      <4>. QED
        BY <4>1
    <3>2. channel_samples[c] = samples /\ channel_clipped_samples[c] = Clipped(word)
      BY DEF SignalInv
    <3>. HIDE DEF word, samples
    <3>. DEFINE mean == Mean(word)
                swing == [i \in Positions |-> SCALE * (word[i] - mean)]
    <3>3. samples = swing /\ samples \in [Positions -> Int]
      BY <3>1, GoodSamples DEF samples
    <3>4. /\ \A i \in Positions : RAIL < word[i] /\ word[i] < ADC_MAX - RAIL
          /\ \A i \in Positions : Size(swing[i]) < SIGNAL_CLIP
          /\ SquareSum(swing) >= FFT_SIZE * SIGNAL_MIN_RMS * SIGNAL_MIN_RMS
          /\ \E i, j \in Previewed : swing[i] - swing[j] >= SIGNAL_MIN_SPAN
      BY <3>1 DEF Good
    <3>. HIDE DEF swing
    <3>5. ~(Rms(samples) < SIGNAL_MIN_RMS)
      BY <3>3, <3>4, EnoughRms
    <3>6. ~(Peak(samples) >= SIGNAL_CLIP)
      BY <3>3, <3>4, SmallPeak
    <3>7. ~(Span(samples) < SIGNAL_MIN_SPAN)
      BY <3>3, <3>4, WideSpan
    <3>8. Clipped(word) = 0
      BY <3>1, <3>4, NothingClipped
    <3>9. ~(dominant[c] > NYQUIST)
      <4>1. dominant[c] \in Int /\ dominant[c] <= NYQUIST
        BY DominantNear DEF SignalInv
      <4>2. NYQUIST \in Int
        BY BinsRange, SpectrumAssumption DEF NYQUIST
      <4>. QED
        BY <4>1, <4>2
    <3>. QED
      BY <3>2, <3>5, <3>6, <3>7, <3>8, <3>9 DEF Faults
  <2>2. PICK sticky \in SUBSET StickyBits, processing_us \in ProcessingTimes :
          status = sticky \cup spectrum_health_check(dominant, processing_us)
    BY DEF SignalInv, StatusMade
  <2>3. UNION {Faults(channel_samples[c], channel_clipped_samples[c],
                      dominant[c]) : c \in Channels} = {}
    BY <2>1
  <2>4. spectrum_health_check(dominant, processing_us) =
          {"SIGNAL_VALID"} \cup (IF processing_us > DSP_DEADLINE
                                 THEN {"DSP_DEADLINE"} ELSE {})
    BY <2>3 DEF spectrum_health_check
  <2>. QED
    BY <2>2, <2>4 DEF StickyBits, SignalBits
<1>. QED
  BY <1>1, SignalInductive, PTL

-----------------------------------------------------------------------------
(* The bytes of a chunk.                                                   *)

\* The bytes of a number make it up.
LEMMA DigitsOf ==
  ASSUME NEW v \in Nat
  PROVE  /\ \A n \in 0 .. 3 : Digit(v, n) \in 0 .. BYTE - 1
         /\ v < BYTE => Digit(v, 0) = v
         /\ v \in Word16 => Digit(v, 0) + BYTE * Digit(v, 1) = v
         /\ v \in Word32 =>
              Digit(v, 0) + BYTE * Digit(v, 1)
                + BYTE * BYTE * (Digit(v, 2) + BYTE * Digit(v, 3)) = v
<1>. DEFINE b == BYTE
            q == v \div b
            p == q \div b
            o == p \div b
<1>1. b \in Nat \ {0} /\ b * b \in Nat \ {0}
  BY LayoutAssumption
<1>2. /\ q \in Int /\ v % b \in 0 .. b - 1 /\ v = b * q + (v % b)
  BY <1>1, Division
<1>. HIDE DEF b
<1>3. /\ p \in Int /\ q % b \in 0 .. b - 1 /\ q = b * p + (q % b)
  <2>. HIDE DEF q
  <2>. QED
    BY <1>1, <1>2, Division
<1>4. /\ o \in Int /\ p % b \in 0 .. b - 1 /\ p = b * o + (p % b)
  <2>. HIDE DEF p
  <2>. QED
    BY <1>1, <1>3, Division
<1>5. /\ o % b \in 0 .. b - 1 /\ o \div b \in Int /\ o = b * (o \div b) + (o % b)
  <2>. HIDE DEF o
  <2>. QED
    BY <1>1, <1>4, Division
<1>6. v \div (b * b) = p
  <2>1. b \in Nat \ {0} /\ v \in Int
    BY <1>1
  <2>2. v \div (b * b) = (v \div b) \div b
    BY <2>1, DivisionTwice
  <2>. QED
    BY <2>2
<1>7. v \div (b * b * b) = o
  <2>1. v \div (b * b * b) = (v \div (b * b)) \div b
    BY <1>1, DivisionTwice
  <2>. QED
    BY <2>1, <1>6
<1>8. /\ Digit(v, 0) = v % b /\ Digit(v, 1) = q % b
      /\ Digit(v, 2) = p % b /\ Digit(v, 3) = o % b
  <2>1. /\ Weight[0 + 1] = 1 /\ Weight[1 + 1] = b /\ Weight[2 + 1] = b * b
        /\ Weight[3 + 1] = b * b * b
    BY DEF Weight, b
  <2>2. v \div 1 = v
    OBVIOUS
  <2>. HIDE DEF q, p, o
  <2>3. Digit(v, 0) = (v \div 1) % b
    BY <2>1 DEF Digit, b
  <2>4. Digit(v, 1) = (v \div b) % b
    BY <2>1 DEF Digit, b
  <2>5. Digit(v, 2) = (v \div (b * b)) % b
    BY <2>1 DEF Digit, b
  <2>6. Digit(v, 3) = (v \div (b * b * b)) % b
    BY <2>1 DEF Digit, b
  <2>. QED
    BY <2>2, <2>3, <2>4, <2>5, <2>6, <1>6, <1>7 DEF q
<1>. HIDE DEF q, p, o
<1>9. \A n \in 0 .. 3 : Digit(v, n) \in 0 .. b - 1
  BY <1>2, <1>3, <1>4, <1>5, <1>8
<1>10. ASSUME NEW x \in Int, NEW y \in Int, NEW r \in 0 .. b - 1, NEW w \in Nat,
              x = b * y + r, x >= 0, x < b * w
       PROVE  y >= 0 /\ y < w
  <2>1. b * y > -b /\ b * y < b * w
    BY <1>1, <1>10
  <2>2. b * y > b * (-1) => y > -1
    BY <1>1
  <2>3. b * y < b * w => y < w
    BY <1>1
  <2>. QED
    BY <1>1, <2>1, <2>2, <2>3
<1>11. v < b => q = 0
  BY <1>1, <1>2, <1>10
<1>12. q >= 0 /\ p >= 0 /\ o >= 0
  <2>1. \A x \in Int, y \in Int, r \in 0 .. b - 1 : x = b * y + r /\ x >= 0 => y >= 0
    <3>. TAKE x \in Int, y \in Int, r \in 0 .. b - 1
    <3>1. x = b * y + r /\ x >= 0 => b * y > b * (-1)
      BY <1>1
    <3>2. b * y > b * (-1) => y > -1
      BY <1>1
    <3>. QED
      BY <3>1, <3>2
  <2>2. q >= 0
    BY <1>2, <2>1
  <2>3. p >= 0
    BY <1>2, <1>3, <2>1, <2>2
  <2>. QED
    BY <1>3, <1>4, <2>1, <2>2, <2>3
<1>13. v < b * b => p = 0
  <2>1. v < b * b => q < b * 1
    BY <1>1, <1>2, <1>10
  <2>. QED
    BY <1>1, <1>2, <1>3, <1>10, <1>12, <2>1
<1>14. v < b * b * b * b => o < b
  <2>1. b * b * b * b = b * (b * (b * b)) /\ b * (b * b) \in Nat
    BY <1>1
  <2>2. v < b * (b * (b * b)) => q < b * (b * b)
    BY <1>2, <1>10, <2>1
  <2>3. q < b * (b * b) => p < b * b
    BY <1>1, <1>2, <1>3, <1>10, <1>12
  <2>4. p < b * b => o < b
    BY <1>1, <1>3, <1>4, <1>10, <1>12
  <2>. QED
    BY <2>1, <2>2, <2>3, <2>4
<1>15. v < b => Digit(v, 0) = v
  BY <1>1, <1>2, <1>8, <1>11
<1>16. v \in Word16 => Digit(v, 0) + b * Digit(v, 1) = v
  <2>1. v \in Word16 => v < b * b
    BY <1>1 DEF Word16, b
  <2>2. p = 0 => b * p = 0
    BY <1>1
  <2>. QED
    BY <1>1, <1>2, <1>3, <1>8, <1>13, <2>1, <2>2
<1>17. v \in Word32 =>
         Digit(v, 0) + b * Digit(v, 1) + b * b * (Digit(v, 2) + b * Digit(v, 3)) = v
  <2>1. v \in Word32 => v < b * b * b * b
    BY <1>1 DEF Word32, b
  <2>2. o < b => o % b = o
    <3>. SUFFICES ASSUME o < b PROVE o % b = o
      OBVIOUS
    <3>1. o \in 0 .. b - 1 /\ b * 0 + o = o
      BY <1>1, <1>4, <1>12
    <3>2. (b * 0 + o) % b = o
      BY <1>1, <3>1, Remainder
    <3>. QED
      BY <3>1, <3>2
  <2>3. o % b = o => p = (p % b) + b * (o % b)
    BY <1>1, <1>4
  <2>4. b * b * p = b * (b * p)
    BY <1>1, <1>3
  <2>5. b * q = b * (b * p) + b * (q % b)
    <3>1. b * q = b * (b * p + (q % b))
      BY <1>3
    <3>2. b * p \in Int /\ q % b \in Int
      BY <1>1, <1>3
    <3>. QED
      BY <1>1, <3>1, <3>2
  <2>6. v = (v % b) + b * (q % b) + b * b * p
    BY <1>1, <1>2, <1>3, <2>4, <2>5
  <2>. QED
    BY <1>8, <1>14, <2>1, <2>2, <2>3, <2>6
<1>. QED
  BY <1>9, <1>15, <1>16, <1>17 DEF b

Fields == DOMAIN Place

\* The fields lie in the header.
LEMMA Places ==
  /\ Fields = {"version", "type", "payload_length", "sequence", "timestamp_us",
               "status", "channel", "chunk_index", "chunk_count", "reserved",
               "sample_rate_hz", "bin_start", "bin_count", "rms_q15", "peak_q15",
               "dominant_millihz", "processing_us", "dropped_blocks"}
  /\ \A f \in Fields : /\ Place[f][2] \in {1, 2, 4} /\ Place[f][1] \in Nat
                       /\ Place[f][1] + Place[f][2] <= HEADER_LENGTH
<1>1. Fields = {"version", "type", "payload_length", "sequence", "timestamp_us",
               "status", "channel", "chunk_index", "chunk_count", "reserved",
               "sample_rate_hz", "bin_start", "bin_count", "rms_q15", "peak_q15",
               "dominant_millihz", "processing_us", "dropped_blocks"}
  BY DEF Fields, Place
<1>2. \A f \in Fields : /\ Place[f][2] \in {1, 2, 4} /\ Place[f][1] \in Nat
                       /\ Place[f][1] + Place[f][2] <= HEADER_LENGTH
  BY <1>1 DEF Place, HEADER_LENGTH
<1>. QED
  BY <1>1, <1>2

\* No two of them overlap ...
LEMMA FieldAtIs ==
  ASSUME NEW f \in Fields, NEW i \in 0 .. Place[f][2] - 1
  PROVE  FieldAt[Place[f][1] + i] = f
<1>. DEFINE n == Place[f][1] + i
            Covers(g) == n \in Place[g][1] .. Place[g][1] + Place[g][2] - 1
<1>1. n \in 0 .. HEADER_LENGTH - 1
  <2>1. /\ Place[f][2] \in Nat /\ Place[f][1] \in Nat
        /\ Place[f][1] + Place[f][2] <= HEADER_LENGTH
    BY Places
  <2>. QED
    BY <2>1 DEF HEADER_LENGTH
<1>2. Covers(f)
  BY Places
<1>3. \A g \in Fields : Covers(g) => g = f
  BY Places DEF Place
<1>4. FieldAt[n] = CHOOSE g \in Fields : Covers(g)
  BY <1>1 DEF FieldAt, Fields
<1>. HIDE DEF Covers
<1>. QED
  BY <1>2, <1>3, <1>4

\* ... and the format string of the host puts each where the firmware does.
LEMMA HostPlaces ==
  ASSUME NEW f \in Fields
  PROVE  /\ HostOffset[HostIndex[f]] = Place[f][1]
         /\ HostWidths[HostIndex[f]] = Place[f][2]
<1>. DEFINE Steps(h) == h = [n \in DOMAIN HostWidths |->
                               IF n = 1 THEN 0 ELSE h[n - 1] + HostWidths[n - 1]]
            offsets == <<0, 1, 2, 4, 6, 10, 14, 15, 16, 17, 18, 22, 24, 26, 28, 30,
                         34, 38>>
<1>1. DOMAIN HostWidths = 1 .. 18
  BY DEF HostWidths
<1>2. Steps(offsets)
  BY <1>1 DEF HostWidths
<1>3. HostOffset = CHOOSE h : Steps(h)
  BY DEF HostOffset
<1>4. Steps(HostOffset)
  <2>. HIDE DEF Steps
  <2>. QED
    BY <1>2, <1>3
<1>5. \A n \in 1 .. 18 : HostOffset[n] = offsets[n]
  BY <1>1, <1>4 DEF HostWidths
<1>6. \A n \in 1 .. 18 : HostNames[n] = f =>
         offsets[n] = Place[f][1] /\ HostWidths[n] = Place[f][2]
  BY DEF HostNames, HostWidths, Place
<1>7. DOMAIN HostNames = 1 .. 18 /\ \E n \in 1 .. 18 : HostNames[n] = f
  BY Places DEF HostNames
<1>8. HostIndex[f] = CHOOSE n \in DOMAIN HostNames : HostNames[n] = f
  BY DEF HostIndex, Fields
<1>9. HostIndex[f] \in 1 .. 18 /\ HostNames[HostIndex[f]] = f
  BY <1>7, <1>8
<1>. QED
  BY <1>5, <1>6, <1>9

\* A magnitude is rounded to the nearest step or, in the last step, saturates.
LEMMA CompressedIs ==
  ASSUME NEW m \in Nat, m < MAGNITUDE_STEP * BYTE
  PROVE  /\ Compressed(m) \in 0 .. BYTE - 1
         /\ 2 * Size(MAGNITUDE_STEP * Compressed(m) - m)
              <= MAGNITUDE_STEP * IF Compressed(m) = BYTE - 1 THEN 2 ELSE 1
<1>. DEFINE d == MAGNITUDE_STEP
            h == d \div 2
            x == m + h
            s == x \div d
            r == x % d
            b == BYTE
            c == Compressed(m)
<1>1. d \in Nat \ {0} /\ b \in Nat /\ b > 0
  BY LayoutAssumption
<1>2. h \in Nat /\ 2 * h <= d /\ d <= 2 * h + 1
  <2>1. d = 2 * h + (d % 2) /\ h \in Int /\ d % 2 \in 0 .. 1
    BY <1>1, Division
  <2>. QED
    BY <1>1, <2>1
<1>3. c = IF s > b - 1 THEN b - 1 ELSE s
  BY DEF Compressed
<1>8. m < d * b
  OBVIOUS
<1>. HIDE DEF d, h, b, c
<1>4. x \in Nat
  BY <1>2
<1>5. s \in Int /\ r \in 0 .. d - 1 /\ x = d * s + r
  <2>. HIDE DEF x
  <2>. QED
    BY <1>1, <1>4, Division
<1>. HIDE DEF s, r
<1>6. s >= 0
  <2>1. d * s > d * (-1)
    BY <1>1, <1>4, <1>5
  <2>2. d * s > d * (-1) => s > -1
    BY <1>1, <1>5
  <2>. QED
    BY <1>5, <2>1, <2>2
<1>7. c \in 0 .. b - 1
  BY <1>1, <1>3, <1>5, <1>6
<1>9. 2 * Size(d * c - m) <= d * IF c = b - 1 THEN 2 ELSE 1
  <2>1. d * s = m + h - r /\ d * s \in Nat
    BY <1>1, <1>2, <1>5, <1>6 DEF x
  <2>2. CASE c = s /\ s \in Nat
    <3>1. d * c - m = h - r
      BY <1>2, <1>5, <2>1, <2>2
    <3>2. 2 * Size(h - r) <= d
      BY <1>1, <1>2, <1>5 DEF Size
    <3>3. 2 * Size(d * c - m) <= d
      BY <3>1, <3>2
    <3>4. d <= d * IF c = b - 1 THEN 2 ELSE 1
      BY <1>1
    <3>5. 2 * Size(d * c - m) <= d * IF c = b - 1 THEN 2 ELSE 1
      <4>1. d * c - m \in Int /\ Size(d * c - m) \in Int
        BY <1>2, <1>5, <3>1 DEF Size
      <4>. QED
        BY <1>1, <3>3, <3>4, <4>1
    <3>. QED
      BY <3>5
  <2>3. CASE c = b - 1 /\ s > b - 1
    <3>1. s >= b => d * s >= d * b
      BY <1>1, <1>5
    <3>2. d * (b - 1) = d * b - d /\ d * b \in Nat
      BY <1>1
    <3>3. d * c = d * b - d
      BY <2>3, <3>2
    <3>4. d * b <= m + h - r
      BY <1>1, <1>5, <2>1, <2>3, <3>1
    <3>5. 2 * Size(d * c - m) <= d * 2
      BY <1>1, <1>2, <1>5, <1>8, <3>2, <3>3, <3>4 DEF Size
    <3>. QED
      BY <2>3, <3>5
  <2>. QED
    BY <1>3, <1>6, <1>5, <2>2, <2>3
<1>. QED
  BY <1>7, <1>9 DEF d, b, c

\* The cast to uint16_t and back.
LEMMA CastAndBack ==
  ASSUME NEW v \in Int, -((BYTE * BYTE) \div 2) <= v, v < (BYTE * BYTE) \div 2
  PROVE  Cast16(v) \in Word16 /\ Signed(Cast16(v)) = v
<1>. DEFINE w == BYTE * BYTE
            h == w \div 2
            c == v % w
<1>1. w \in Nat \ {0}
  BY LayoutAssumption
<1>2. h \in Nat /\ 2 * h <= w
  <2>. HIDE DEF w
  <2>1. w = 2 * h + (w % 2) /\ h \in Int /\ w % 2 \in 0 .. 1
    BY <1>1, Division
  <2>. QED
    BY <1>1, <2>1
<1>3. Cast16(v) = c /\ Signed(c) = IF c < h THEN c ELSE c - w
  BY DEF Cast16, Signed
<1>4. Word16 = 0 .. w - 1
  BY DEF Word16
<1>5. -h <= v /\ v < h
  OBVIOUS
<1>. HIDE DEF w, h
<1>6. CASE v >= 0
  <2>1. v \in 0 .. w - 1 /\ v = w * 0 + v
    BY <1>1, <1>2, <1>5, <1>6
  <2>2. (w * 0 + v) % w = v
    BY <1>1, <2>1, Remainder
  <2>3. c = v
    BY <2>1, <2>2
  <2>. QED
    BY <1>3, <1>4, <1>5, <2>1, <2>3
<1>7. CASE v < 0
  <2>. DEFINE u == v + w
              k == -1
  <2>1. u \in 0 .. w - 1 /\ k \in Int /\ v = w * k + u
    BY <1>1, <1>2, <1>5, <1>7
  <2>2. (w * k + u) % w = u
    <3>. HIDE DEF u, k
    <3>. QED
      BY <1>1, <2>1, Remainder
  <2>3. c = v + w
    <3>. HIDE DEF k
    <3>. QED
      BY <2>1, <2>2
  <2>. QED
    BY <1>1, <1>2, <1>3, <1>4, <1>5, <2>1, <2>3
<1>. QED
  BY <1>6, <1>7

\* What follows one another is found one after another.
LEMMA ThreeParts ==
  ASSUME NEW S, NEW l \in Nat, NEW m \in Nat, NEW n \in Nat,
         NEW a \in [1 .. l -> S], NEW b \in [1 .. m -> S], NEW c \in [1 .. n -> S]
  PROVE  /\ \A i \in 1 .. l : (a \o b \o c)[i] = a[i]
         /\ \A i \in 1 .. m : (a \o b \o c)[l + i] = b[i]
         /\ \A i \in 1 .. n : (a \o b \o c)[l + m + i] = c[i]
<1>1. /\ a \in Seq(S) /\ Len(a) = l /\ b \in Seq(S) /\ Len(b) = m
      /\ c \in Seq(S) /\ Len(c) = n
  OBVIOUS
<1>2. /\ a \o b \in Seq(S) /\ Len(a \o b) = l + m
      /\ \A i \in 1 .. l + m : (a \o b)[i] = IF i <= l THEN a[i] ELSE b[i - l]
  BY <1>1, ConcatProperties
<1>. DEFINE ab == a \o b
<1>3. \A i \in 1 .. l + m + n :
        (ab \o c)[i] = IF i <= l + m THEN ab[i] ELSE c[i - (l + m)]
  <2>. HIDE DEF ab
  <2>1. ab \in Seq(S) /\ Len(ab) = l + m
    BY <1>2 DEF ab
  <2>2. \A i \in 1 .. Len(ab) + Len(c) :
          (ab \o c)[i] = IF i <= Len(ab) THEN ab[i] ELSE c[i - Len(ab)]
    <3>1. \A s, t \in Seq(S) : \A i \in 1 .. Len(s) + Len(t) :
            (s \o t)[i] = IF i <= Len(s) THEN s[i] ELSE t[i - Len(s)]
      BY ConcatProperties
    <3>. QED
      BY <1>1, <2>1, <3>1
  <2>. QED
    BY <1>1, <2>1, <2>2
<1>. HIDE DEF ab
<1>4. \A i \in 1 .. l : (ab \o c)[i] = a[i]
  BY <1>2, <1>3 DEF ab
<1>5. \A i \in 1 .. m : (ab \o c)[l + i] = b[i]
  <2>. TAKE i \in 1 .. m
  <2>1. /\ l + i \in 1 .. l + m + n /\ l + i \in 1 .. l + m
        /\ l + i <= l + m /\ ~(l + i <= l) /\ (l + i) - l = i
    OBVIOUS
  <2>2. (ab \o c)[l + i] = ab[l + i]
    BY <1>3, <2>1
  <2>3. ab[l + i] = b[(l + i) - l]
    BY <1>2, <2>1 DEF ab
  <2>. QED
    BY <2>1, <2>2, <2>3
<1>6. \A i \in 1 .. n : (ab \o c)[l + m + i] = c[i]
  <2>. TAKE i \in 1 .. n
  <2>1. /\ l + m + i \in 1 .. l + m + n /\ ~(l + m + i <= l + m)
        /\ (l + m + i) - (l + m) = i
    OBVIOUS
  <2>2. (ab \o c)[l + m + i] = c[(l + m + i) - (l + m)]
    BY <1>3, <2>1
  <2>. QED
    BY <2>1, <2>2
<1>. QED
  BY <1>4, <1>5, <1>6 DEF ab

\* The bytes of a chunk: fields, magnitudes, preview.
LEMMA EncodedIs ==
  ASSUME NEW sequence, NEW result, NEW channel, NEW index \in Nat
  PROVE  LET raw == Encoded(sequence, result, channel, index)
             header == Header(sequence, result, channel, index)
             source == result.channel[channel]
         IN  /\ \A f \in Fields : \A n \in 0 .. Place[f][2] - 1 :
                  raw[Place[f][1] + n + 1] = Digit(header[f], n)
             /\ \A i \in 0 .. BINS_PER_CHUNK - 1 :
                  raw[HEADER_LENGTH + i + 1] =
                    Compressed(source.magnitude_q15[index * BINS_PER_CHUNK + i])
             /\ \A i \in 0 .. 2 * PREVIEW_PER_CHUNK - 1 :
                  raw[HEADER_LENGTH + BINS_PER_CHUNK + i + 1] =
                    PreviewByte(source, index, i)
<1>. DEFINE raw == Encoded(sequence, result, channel, index)
            header == Header(sequence, result, channel, index)
            source == result.channel[channel]
            size == BINS_PER_CHUNK
            wave == 2 * PREVIEW_PER_CHUNK
            start == index * size
            a == [n \in 1 .. HEADER_LENGTH |->
                    Digit(header[FieldAt[n - 1]], n - 1 - Place[FieldAt[n - 1]][1])]
            b == [n \in 1 .. size |->
                    Compressed(source.magnitude_q15[start + n - 1])]
            c == [n \in 1 .. wave |-> PreviewByte(source, index, n - 1)]
            S == {a[i] : i \in 1 .. HEADER_LENGTH} \cup {b[i] : i \in 1 .. size}
                   \cup {c[i] : i \in 1 .. wave}
<1>1. size \in Nat /\ wave \in Nat /\ HEADER_LENGTH \in Nat
  BY LayoutAssumption DEF HEADER_LENGTH
<1>2. raw = a \o b \o c
  BY DEF Encoded
<1>3. a \in [1 .. HEADER_LENGTH -> S] /\ b \in [1 .. size -> S] /\ c \in [1 .. wave -> S]
  OBVIOUS
<1>4. /\ \A i \in 1 .. HEADER_LENGTH : raw[i] = a[i]
      /\ \A i \in 1 .. size : raw[HEADER_LENGTH + i] = b[i]
      /\ \A i \in 1 .. wave : raw[HEADER_LENGTH + size + i] = c[i]
  <2>. HIDE DEF raw, a, b, c, S, size, wave
  <2>1. \A i \in 1 .. HEADER_LENGTH : (a \o b \o c)[i] = a[i]
    BY <1>1, <1>3, ThreeParts, SMTT(60)
  <2>2. \A i \in 1 .. size : (a \o b \o c)[HEADER_LENGTH + i] = b[i]
    BY <1>1, <1>3, ThreeParts, SMTT(60)
  <2>3. \A i \in 1 .. wave : (a \o b \o c)[HEADER_LENGTH + size + i] = c[i]
    BY <1>1, <1>3, ThreeParts, SMTT(60)
  <2>. QED
    BY <1>2, <2>1, <2>2, <2>3
<1>. HIDE DEF raw, header, source, S
<1>5. ASSUME NEW f \in Fields, NEW n \in 0 .. Place[f][2] - 1
      PROVE  raw[Place[f][1] + n + 1] = Digit(header[f], n)
  <2>. DEFINE at == Place[f][1]
  <2>1. at \in Nat /\ n \in Nat /\ at + n + 1 <= HEADER_LENGTH
    <3>1. /\ at \in Nat /\ Place[f][2] \in Nat
          /\ at + Place[f][2] <= HEADER_LENGTH
      BY Places
    <3>. HIDE DEF at
    <3>. QED
      BY <1>1, <3>1
  <2>2. FieldAt[at + n] = f
    BY FieldAtIs
  <2>3. at + n + 1 \in 1 .. HEADER_LENGTH /\ (at + n + 1) - 1 = at + n
        /\ (at + n + 1) - 1 - at = n
    <3>. HIDE DEF at
    <3>. QED
      BY <1>1, <2>1
  <2>4. a[at + n + 1] = Digit(header[f], n)
    BY <2>2, <2>3
  <2>. HIDE DEF a
  <2>. QED
    BY <1>4, <2>3, <2>4
<1>6. ASSUME NEW i \in 0 .. size - 1
      PROVE  raw[HEADER_LENGTH + i + 1] = Compressed(source.magnitude_q15[start + i])
  <2>1. i + 1 \in 1 .. size /\ HEADER_LENGTH + (i + 1) = HEADER_LENGTH + i + 1
    BY <1>1
  <2>2. start \in Int => start + (i + 1) - 1 = start + i
    OBVIOUS
  <2>. QED
    BY <1>4, <2>1, <2>2
<1>7. ASSUME NEW i \in 0 .. wave - 1
      PROVE  raw[HEADER_LENGTH + size + i + 1] = PreviewByte(source, index, i)
  <2>1. i + 1 \in 1 .. wave
        /\ HEADER_LENGTH + size + (i + 1) = HEADER_LENGTH + size + i + 1
        /\ (i + 1) - 1 = i
    BY <1>1
  <2>. QED
    BY <1>4, <2>1
<1>. QED
  BY <1>5, <1>6, <1>7 DEF raw, header, source

\* v fits a field of that width.
Fits(v, width) == CASE width = 1 -> v \in 0 .. BYTE - 1
                    [] width = 2 -> v \in Word16
                    [] width = 4 -> v \in Word32

\* What get_u16 and get_u32 read is what put_u16 and put_u32 wrote.
LEMMA UnsignedIs ==
  ASSUME NEW raw, NEW at \in Nat, NEW width \in {1, 2, 4}, NEW v,
         Fits(v, width), \A n \in 0 .. width - 1 : raw[at + n + 1] = Digit(v, n)
  PROVE  Unsigned(raw, at, width) = v
<1>1. v \in Nat
  <2>1. v \in 0 .. BYTE - 1 \/ v \in Word16 \/ v \in Word32
    BY DEF Fits
  <2>2. /\ BYTE - 1 \in Int /\ BYTE * BYTE - 1 \in Int
        /\ BYTE * BYTE * BYTE * BYTE - 1 \in Int
    BY LayoutAssumption
  <2>. QED
    BY <2>1, <2>2 DEF Word16, Word32
<1>2. /\ v < BYTE => Digit(v, 0) = v
      /\ v \in Word16 => Digit(v, 0) + BYTE * Digit(v, 1) = v
      /\ v \in Word32 =>
           Digit(v, 0) + BYTE * Digit(v, 1)
             + BYTE * BYTE * (Digit(v, 2) + BYTE * Digit(v, 3)) = v
  BY <1>1, DigitsOf
<1>3. CASE width = 1
  <2>1. v < BYTE
    BY <1>3, LayoutAssumption DEF Fits
  <2>2. raw[at + 1] = Digit(v, 0)
    <3>1. 0 \in 0 .. width - 1 /\ at + 0 + 1 = at + 1
      BY <1>3
    <3>. QED
      BY <3>1
  <2>. QED
    BY <1>2, <1>3, <2>1, <2>2 DEF Unsigned, get_u8
<1>4. CASE width = 2
  <2>1. v \in Word16
    BY <1>4 DEF Fits
  <2>2. raw[at + 1] = Digit(v, 0) /\ raw[(at + 1) + 1] = Digit(v, 1)
    <3>1. 0 \in 0 .. width - 1 /\ at + 0 + 1 = at + 1 /\ 1 \in 0 .. width - 1
      BY <1>4
    <3>. QED
      BY <3>1
  <2>3. Unsigned(raw, at, width) = raw[at + 1] + BYTE * raw[(at + 1) + 1]
    BY <1>4 DEF Unsigned, get_u16, get_u8
  <2>. QED
    BY <1>2, <2>1, <2>2, <2>3
<1>5. CASE width = 4
  <2>1. v \in Word32
    BY <1>5 DEF Fits
  <2>2. /\ raw[at + 1] = Digit(v, 0) /\ raw[(at + 1) + 1] = Digit(v, 1)
        /\ raw[(at + 2) + 1] = Digit(v, 2) /\ raw[((at + 2) + 1) + 1] = Digit(v, 3)
    <3>1. /\ 0 \in 0 .. width - 1 /\ at + 0 + 1 = at + 1 /\ 1 \in 0 .. width - 1
          /\ 2 \in 0 .. width - 1 /\ 3 \in 0 .. width - 1
          /\ at + 3 + 1 = ((at + 2) + 1) + 1
      BY <1>5
    <3>. QED
      BY <3>1
  <2>3. Unsigned(raw, at, width) =
          raw[at + 1] + BYTE * raw[(at + 1) + 1]
            + BYTE * BYTE * (raw[(at + 2) + 1] + BYTE * raw[((at + 2) + 1) + 1])
    BY <1>5 DEF Unsigned, get_u32, get_u16, get_u8
  <2>. QED
    BY <1>2, <2>1, <2>2, <2>3
<1>. QED
  BY <1>3, <1>4, <1>5

\* The header of a chunk of a result whose numbers have the code's types.
LEMMA HeaderFits ==
  ASSUME NEW sequence \in Word16, NEW channel \in Channels, NEW index \in 0 .. CHUNKS - 1,
         NEW result,
         {result.timestamp_us, result.status, result.sample_rate_hz,
          result.processing_us, result.dropped_blocks,
          result.channel[channel].dominant_millihz} \subseteq Word32,
         {result.channel[channel].rms_q15, result.channel[channel].peak_q15}
           \subseteq Word16
  PROVE  \A f \in Fields : Fits(Header(sequence, result, channel, index)[f], Place[f][2])
<1>. DEFINE header == Header(sequence, result, channel, index)
            start == index * BINS_PER_CHUNK
<1>1. start \in Word16 /\ BINS_PER_CHUNK \in Word16 /\ PAYLOAD_LENGTH \in Word16
  <2>. DEFINE n == CHUNKS
              m == BINS_PER_CHUNK
              w == BYTE * BYTE
  <2>1. n \in Nat /\ n >= 1 /\ m \in Nat \ {0} /\ w \in Nat /\ n * m < w /\ index < n
        /\ index \in Nat
    BY LayoutAssumption
  <2>2. Word16 = 0 .. w - 1
    BY DEF Word16
  <2>3. PAYLOAD_LENGTH \in Word16
    BY <2>1, <2>2, LayoutAssumption DEF PAYLOAD_LENGTH, RAW_BYTES, HEADER_LENGTH
  <2>. HIDE DEF n, m, w
  <2>4. index * m \in Nat /\ index * m <= n * m /\ m <= n * m
    BY <2>1
  <2>. QED
    BY <2>1, <2>2, <2>3, <2>4 DEF m
<1>2. {channel, index, CHUNKS, VERSION, TYPE_SPECTRUM, 0} \subseteq 0 .. BYTE - 1
  BY LayoutAssumption DEF Channels, VERSION, TYPE_SPECTRUM
<1>. HIDE DEF start
<1>3. /\ header["version"] = VERSION /\ header["type"] = TYPE_SPECTRUM
      /\ header["payload_length"] = PAYLOAD_LENGTH /\ header["sequence"] = sequence
      /\ header["timestamp_us"] = result.timestamp_us
      /\ header["status"] = result.status
      /\ header["channel"] = channel /\ header["chunk_index"] = index
      /\ header["chunk_count"] = CHUNKS /\ header["reserved"] = 0
      /\ header["sample_rate_hz"] = result.sample_rate_hz
      /\ header["bin_start"] = start /\ header["bin_count"] = BINS_PER_CHUNK
      /\ header["rms_q15"] = result.channel[channel].rms_q15
      /\ header["peak_q15"] = result.channel[channel].peak_q15
      /\ header["dominant_millihz"] = result.channel[channel].dominant_millihz
      /\ header["processing_us"] = result.processing_us
      /\ header["dropped_blocks"] = result.dropped_blocks
  BY DEF Header, start
<1>. HIDE DEF header
<1>4. ASSUME NEW f \in Fields, Place[f][2] = 1
      PROVE  header[f] \in 0 .. BYTE - 1
  <2>1. f \in {"version", "type", "channel", "chunk_index", "chunk_count", "reserved"}
    BY <1>4, Places DEF Place
  <2>. QED
    BY <2>1, <1>2, <1>3
<1>5. ASSUME NEW f \in Fields, Place[f][2] = 2
      PROVE  header[f] \in Word16
  <2>1. f \in {"payload_length", "sequence", "bin_start", "bin_count", "rms_q15",
               "peak_q15"}
    BY <1>5, Places DEF Place
  <2>. QED
    BY <2>1, <1>1, <1>3
<1>6. ASSUME NEW f \in Fields, Place[f][2] = 4
      PROVE  header[f] \in Word32
  <2>1. f \in {"timestamp_us", "status", "sample_rate_hz", "dominant_millihz",
               "processing_us", "dropped_blocks"}
    BY <1>6, Places DEF Place
  <2>. QED
    BY <2>1, <1>3
<1>7. \A f \in Fields : Place[f][2] \in {1, 2, 4}
  BY Places
<1>. QED
  BY <1>4, <1>5, <1>6, <1>7 DEF Fits, header

\* Both decoders read from the bytes of a chunk what was written.
LEMMA ChunkRead ==
  ASSUME NEW sequence, NEW result, NEW channel \in Channels,
         NEW index \in 0 .. CHUNKS - 1,
         \A f \in Fields : Fits(Header(sequence, result, channel, index)[f], Place[f][2])
  PROVE  LET raw == Encoded(sequence, result, channel, index)
             header == Header(sequence, result, channel, index)
             chunk == decode_body(raw)
         IN  /\ decode_raw(raw) = chunk /\ chunk # BadFormat
             /\ \A f \in Fields : chunk.header[f] = header[f]
             /\ chunk.magnitudes = Magnitudes(raw) /\ chunk.preview = Preview(raw)
<1>. DEFINE raw == Encoded(sequence, result, channel, index)
            header == Header(sequence, result, channel, index)
            read == [f \in Fields |-> Unsigned(raw, Place[f][1], Place[f][2])]
            parts == [header |-> read, magnitudes |-> Magnitudes(raw),
                      preview |-> Preview(raw)]
<1>1. \A f \in Fields : Unsigned(raw, Place[f][1], Place[f][2]) = header[f]
  <2>. TAKE f \in Fields
  <2>1. Place[f][1] \in Nat /\ Place[f][2] \in {1, 2, 4}
    BY Places
  <2>2. \A n \in 0 .. Place[f][2] - 1 : raw[Place[f][1] + n + 1] = Digit(header[f], n)
    BY EncodedIs
  <2>3. Fits(header[f], Place[f][2])
    OBVIOUS
  <2>. HIDE DEF raw, header
  <2>. QED
    BY <2>1, <2>2, <2>3, UnsignedIs
<1>2. \A f \in Fields : read[f] = header[f]
  <2>. HIDE DEF raw, header
  <2>. QED
    BY <1>1
<1>3. /\ header["version"] = VERSION /\ header["type"] = TYPE_SPECTRUM
      /\ header["payload_length"] = PAYLOAD_LENGTH
      /\ header["channel"] = channel /\ header["chunk_index"] = index
      /\ header["chunk_count"] = CHUNKS /\ header["reserved"] = 0
      /\ header["bin_start"] = index * BINS_PER_CHUNK
      /\ header["bin_count"] = BINS_PER_CHUNK
  BY DEF Header
<1>4. channel < CHANNELS /\ index < CHUNKS
  BY LayoutAssumption DEF Channels
<1>5. {"version", "type", "payload_length", "channel", "chunk_index", "chunk_count",
       "reserved", "bin_start", "bin_count"} \subseteq Fields
  BY Places
<1>. HIDE DEF raw, header
<1>6. WellFormedHeader(read)
  <2>. HIDE DEF read
  <2>. QED
    BY <1>2, <1>3, <1>4, <1>5 DEF WellFormedHeader
<1>7. decode_body(raw) = parts
  BY <1>6 DEF decode_body, Chunk, Fields
<1>8. [f \in DOMAIN Place |-> Unsigned(raw, HostOffset[HostIndex[f]],
                                      HostWidths[HostIndex[f]])] = read
  BY HostPlaces DEF Fields
<1>9. decode_raw(raw) = parts
  BY <1>6, <1>8 DEF decode_raw, Chunk
<1>. HIDE DEF read
<1>10. parts # BadFormat
  BY DEF BadFormat
<1>. QED
  BY <1>2, <1>7, <1>9, <1>10 DEF raw, header

\* The level and the peak of a channel fit two bytes ...
LEMMA RmsFits ==
  ASSUME NEW samples \in [Positions -> Int]
  PROVE  Rms(samples) \in Word16
<1>. DEFINE half == WORD \div 2
            R == {r \in 1 .. half - 1 :
                    FFT_SIZE * (2 * r - 1) * (2 * r - 1) <= 4 * SquareSum(samples)}
            S == {0} \cup R
<1>1. half \in Nat /\ half >= 1 /\ half - 1 < BYTE * BYTE
  <2>1. half \in Nat /\ 2 * half <= WORD /\ WORD <= BYTE * BYTE /\ half >= 1
    BY SampleSize, SignalAssumption
  <2>. HIDE DEF half
  <2>. QED
    BY <2>1, SampleSize, LayoutAssumption
<1>2. S \in SUBSET (0 .. half) /\ S \in SUBSET Int /\ S # {}
  <2>. HIDE DEF half
  <2>. QED
    BY <1>1
<1>3. \A y \in S : y \in Nat /\ y < BYTE * BYTE
  <2>. HIDE DEF half
  <2>1. BYTE * BYTE \in Nat \ {0}
    BY LayoutAssumption
  <2>. QED
    BY <1>1, <2>1
<1>4. Rms(samples) = Max(S)
  BY DEF Rms
<1>. HIDE DEF S
<1>5. Max(S) \in S
  <2>. HIDE DEF half
  <2>1. IsFiniteSet(0 .. half)
    BY <1>1, FS_Interval
  <2>2. IsFiniteSet(S)
    BY <1>2, <2>1, FS_Subset
  <2>. QED
    BY <1>2, <2>2, MaxIs
<1>. QED
  BY <1>3, <1>4, <1>5, LayoutAssumption DEF Word16

\* Saturated, the peak fits two bytes.
LEMMA PeakFits ==
  ASSUME NEW samples \in [Positions -> Int]
  PROVE  Peak(samples) \in Word16
<1>. DEFINE sizes == [i \in Positions |-> Size(samples[i])]
            S == {sizes[i] : i \in Positions}
            half == WORD \div 2
<1>1. sizes \in [Positions -> Nat]
  BY DEF Size
<1>2. S = {Size(samples[i]) : i \in Positions}
  OBVIOUS
<1>3. S # {} /\ S \subseteq Nat
  BY <1>1, BlockSize
<1>4. IsFiniteSet(S) /\ S \in SUBSET Int
  <2>. HIDE DEF sizes
  <2>. QED
    BY <1>1, ValuesFinite
<1>5. Peak(samples) = IF Max(S) > half - 1 THEN half - 1 ELSE Max(S)
  BY <1>2 DEF Peak
<1>. HIDE DEF S
<1>6. Max(S) \in Nat
  BY <1>3, <1>4, MaxIs
<1>7. half \in Nat /\ half >= 1 /\ half - 1 < BYTE * BYTE
  <2>1. half \in Nat /\ 2 * half <= WORD /\ WORD <= BYTE * BYTE /\ half >= 1
    BY SampleSize, SignalAssumption
  <2>. HIDE DEF half
  <2>. QED
    BY <2>1, SampleSize, LayoutAssumption
<1>. HIDE DEF half
<1>8. Peak(samples) \in Nat /\ Peak(samples) < BYTE * BYTE
  <2>. DEFINE m == Max(S)
              w == BYTE * BYTE
  <2>1. w \in Nat
    BY LayoutAssumption
  <2>. HIDE DEF m, w
  <2>2. m \in Nat /\ Peak(samples) = IF m > half - 1 THEN half - 1 ELSE m
    BY <1>5, <1>6 DEF m
  <2>3. half \in Nat /\ half >= 1 /\ half - 1 < w
    BY <1>7 DEF w
  <2>4. Peak(samples) \in Nat /\ Peak(samples) < w
    BY <2>1, <2>2, <2>3
  <2>. QED
    BY <2>4 DEF w
<1>. QED
  BY <1>8, LayoutAssumption DEF Word16

\* ... the status and the frequency four bytes.
LEMMA StatusFits == StatusWord \in Word32
<1>. DEFINE top == BYTE * BYTE * BYTE * BYTE
<1>1. top \in Int /\ 16384 < top /\ Word32 = 0 .. top - 1
  BY LayoutAssumption, SignalAssumption DEF Word32
<1>. HIDE DEF top
<1>. DEFINE a == Bit("ADC_RUNNING", 1)
            b == Bit("SIGNAL_VALID", 2)
            c == Bit("DSP_DEADLINE", 16)
            d == Bit("NUMERIC_FAULT", 64)
            e == Bit("FRAME_DROPPED", 256)
            f == Bit("DMA_STALE", 1024)
            g == Bit("SIGNAL_WEAK", 2048)
            h == Bit("ADC_CLIPPING", 4096)
            i == Bit("SIGNAL_FROZEN", 8192)
<1>2. \A bit, mask : Bit(bit, mask) \in {0, mask}
  BY DEF Bit
<1>3. /\ a \in {0, 1} /\ b \in {0, 2} /\ c \in {0, 16} /\ d \in {0, 64}
      /\ e \in {0, 256} /\ f \in {0, 1024} /\ g \in {0, 2048} /\ h \in {0, 4096}
      /\ i \in {0, 8192}
  BY <1>2
<1>4. StatusWord = a + b + c + d + e + f + g + h + i
  BY DEF StatusWord
<1>. HIDE DEF a, b, c, d, e, f, g, h, i
<1>. DEFINE x == a + b + c + d
            y == x + e + f + g
<1>5. x \in Int /\ 0 <= x /\ x <= 83
  BY <1>3
<1>6. y \in Int /\ 0 <= y /\ y <= 3411
  <2>. HIDE DEF x
  <2>. QED
    BY <1>3, <1>5
<1>7. StatusWord = y + h + i
  BY <1>4
<1>8. StatusWord \in Int /\ 0 <= StatusWord /\ StatusWord <= 16383
  <2>. HIDE DEF x, y
  <2>. QED
    BY <1>3, <1>6, <1>7
<1>. QED
  BY <1>1, <1>8

\* The dominant frequency fits four bytes: it is not negative.
LEMMA DominantFits ==
  ASSUME NEW a \in [Bins -> Nat]
  PROVE  dominant_millihz(a) \in Word32
<1>1. NYQUIST \in Word32
  BY SignalAssumption
<1>2. PICK bin \in Bins :
        /\ IsLargest(a, bin)
        /\ 2 * Size(dominant_millihz(a) - bin * BIN_MILLIHZ) <= BIN_MILLIHZ + 1
  BY DominantNear
<1>3. dominant_millihz(a) \in Int /\ dominant_millihz(a) <= NYQUIST
  BY DominantNear
<1>. DEFINE d == dominant_millihz(a)
<1>. HIDE DEF d
<1>4. bin \in Nat /\ bin >= 1 /\ BIN_MILLIHZ \in Nat
  BY <1>2, SpectrumAssumption DEF IsLargest, Bins
<1>5. bin * BIN_MILLIHZ \in Nat /\ bin * BIN_MILLIHZ >= BIN_MILLIHZ
  BY <1>4
<1>6. d >= 0
  <2>. DEFINE f == bin * BIN_MILLIHZ
  <2>. HIDE DEF f
  <2>1. d \in Int /\ 2 * Size(d - f) <= BIN_MILLIHZ + 1 /\ f \in Nat /\ f >= BIN_MILLIHZ
    BY <1>2, <1>3, <1>5 DEF d, f
  <2>. QED
    BY <2>1, <1>4 DEF Size
<1>. QED
  BY <1>1, <1>3, <1>6, LayoutAssumption DEF Word32, d

\* The samples of a block are int16_t.
LEMMA NarrowInt16 ==
  ASSUME NEW x \in Int
  PROVE  /\ Narrow(x) \in Int /\ -(WORD \div 2) <= Narrow(x)
         /\ Narrow(x) < WORD - (WORD \div 2)
<1>. DEFINE half == WORD \div 2
            r == (x + half) % WORD
<1>1. WORD \in Nat \ {0} /\ half \in Nat
  BY SampleSize
<1>2. r \in 0 .. WORD - 1
  <2>. HIDE DEF half
  <2>. QED
    BY <1>1, Division
<1>3. Narrow(x) = r - half
  BY DEF Narrow
<1>. HIDE DEF half, r
<1>4. Narrow(x) \in Int /\ -half <= Narrow(x) /\ Narrow(x) < WORD - half
  BY <1>1, <1>2, <1>3
<1>. QED
  BY <1>4 DEF half

\* ... and survive the cast to uint16_t.
LEMMA SampleFits ==
  ASSUME NEW x \in Int
  PROVE  /\ Cast16(Narrow(x)) \in Word16 /\ Signed(Cast16(Narrow(x))) = Narrow(x)
<1>. DEFINE y == Narrow(x)
            w == BYTE * BYTE
            half == WORD \div 2
            h == w \div 2
            k == BYTE \div 2
<1>1. y \in Int /\ -half <= y /\ y < WORD - half
  BY NarrowInt16
<1>2. WORD \in Nat /\ half \in Nat /\ WORD <= w /\ 2 * half <= WORD /\ WORD <= 2 * half + 1
  <2>1. WORD \in Nat \ {0}
    BY SampleSize
  <2>2. WORD = 2 * half + (WORD % 2) /\ WORD % 2 \in 0 .. 1 /\ half \in Int
    BY <2>1, Division
  <2>3. WORD <= w
    BY SignalAssumption
  <2>. HIDE DEF half, w
  <2>. QED
    BY <2>1, <2>2, <2>3
<1>3. BYTE \in Nat /\ BYTE = 2 * k /\ k \in Nat
  <2>1. BYTE \in Nat /\ BYTE % 2 = 0
    BY LayoutAssumption
  <2>. QED
    BY <2>1
<1>4. w = 2 * (k * BYTE) /\ k * BYTE \in Nat
  <2>. HIDE DEF k
  <2>. QED
    BY <1>3
<1>5. h \in Nat /\ w = 2 * h
  <2>. HIDE DEF w
  <2>1. w \in Nat /\ w = 2 * h + (w % 2) /\ w % 2 \in 0 .. 1 /\ h \in Int
    BY <1>4, Division
  <2>. HIDE DEF h
  <2>. QED
    BY <1>4, <2>1
<1>. HIDE DEF y, w, half, h
<1>6. -h <= y /\ y < h
  BY <1>1, <1>2, <1>5
<1>7. Cast16(y) \in Word16 /\ Signed(Cast16(y)) = y
  BY <1>1, <1>6, CastAndBack DEF h, w
<1>. QED
  BY <1>7 DEF y

\* Places within a chunk are places within the spectrum and the preview.
LEMMA ChunkPlaces ==
  ASSUME NEW k \in 0 .. CHUNKS - 1
  PROVE  /\ \A i \in 0 .. BINS_PER_CHUNK - 1 : k * BINS_PER_CHUNK + i \in Bins
         /\ \A i \in 0 .. PREVIEW_PER_CHUNK - 1 :
              /\ k * PREVIEW_PER_CHUNK + i \in 0 .. PREVIEW_SAMPLES - 1
              /\ (k * PREVIEW_PER_CHUNK + i) * (FFT_SIZE \div PREVIEW_SAMPLES)
                   \in Positions
<1>1. ASSUME NEW n \in Nat \ {0}, NEW j \in Nat, NEW m \in Nat \ {0}, NEW i \in 0 .. m - 1,
             j < n
      PROVE  j * m + i \in 0 .. (n * m) - 1
  <2>1. j * m \in Nat /\ (j + 1) * m = j * m + m /\ (j + 1) * m <= n * m
    BY <1>1
  <2>2. n * m \in Nat
    BY <1>1
  <2>. QED
    BY <2>1, <2>2
<1>2. /\ CHUNKS \in Nat \ {0} /\ k \in Nat /\ k < CHUNKS
      /\ BINS_PER_CHUNK \in Nat \ {0} /\ PREVIEW_PER_CHUNK \in Nat \ {0}
  BY LayoutAssumption
<1>3. BINS = CHUNKS * BINS_PER_CHUNK /\ PREVIEW_SAMPLES = CHUNKS * PREVIEW_PER_CHUNK
  BY SignalAssumption
<1>4. \A i \in 0 .. BINS_PER_CHUNK - 1 : k * BINS_PER_CHUNK + i \in Bins
  BY <1>1, <1>2, <1>3 DEF Bins
<1>5. \A i \in 0 .. PREVIEW_PER_CHUNK - 1 :
        k * PREVIEW_PER_CHUNK + i \in 0 .. PREVIEW_SAMPLES - 1
  BY <1>1, <1>2, <1>3
<1>6. ASSUME NEW p \in 0 .. PREVIEW_SAMPLES - 1
      PROVE  p * (FFT_SIZE \div PREVIEW_SAMPLES) \in Positions
  <2>. DEFINE n == PREVIEW_SAMPLES
              s == FFT_SIZE \div n
  <2>1. n \in Nat \ {0} /\ FFT_SIZE \in Nat \ {0} /\ FFT_SIZE % n = 0
    BY SignalAssumption, BlockSize
  <2>2. s \in Int /\ FFT_SIZE = n * s
    <3>. HIDE DEF n
    <3>1. FFT_SIZE = n * (FFT_SIZE \div n) + (FFT_SIZE % n) /\ FFT_SIZE \div n \in Int
      BY <2>1, Division
    <3>. QED
      BY <2>1, <3>1
  <2>. HIDE DEF n, s
  <2>3. s > 0
    <3>1. s <= 0 => n * s <= 0
      BY <2>1, <2>2
    <3>. QED
      BY <2>1, <2>2, <3>1
  <2>4. p \in Nat /\ p < n
    BY <2>1 DEF n
  <2>5. p * s \in Nat /\ p * s < n * s
    BY <2>1, <2>2, <2>3, <2>4
  <2>6. p * s \in Positions
    BY <2>1, <2>2, <2>5 DEF Positions
  <2>. QED
    BY <2>6 DEF s, n
<1>. QED
  BY <1>4, <1>5, <1>6

\* The bytes of the preview are its samples.
LEMMA PreviewRead ==
  ASSUME NEW sequence, NEW result, NEW channel, NEW k \in 0 .. CHUNKS - 1,
         NEW i \in 0 .. PREVIEW_PER_CHUNK - 1, NEW x \in Int,
         result.channel[channel].preview_q15[k * PREVIEW_PER_CHUNK + i] = Narrow(x)
  PROVE  Preview(Encoded(sequence, result, channel, k))[i] = Narrow(x)
<1>. DEFINE raw == Encoded(sequence, result, channel, k)
            source == result.channel[channel]
            at == HEADER_LENGTH + BINS_PER_CHUNK + 2 * i
            v == Cast16(Narrow(x))
<1>1. v \in Word16 /\ v \in Nat /\ Signed(v) = Narrow(x)
  BY SampleFits, LayoutAssumption DEF Word16
<1>2. PREVIEW_PER_CHUNK \in Nat /\ BINS_PER_CHUNK \in Nat /\ HEADER_LENGTH \in Nat
      /\ k \in Nat /\ i \in Nat
  BY LayoutAssumption DEF HEADER_LENGTH
<1>3. \A n \in 0 .. 2 * PREVIEW_PER_CHUNK - 1 :
        raw[HEADER_LENGTH + BINS_PER_CHUNK + n + 1] = PreviewByte(source, k, n)
  BY EncodedIs, <1>2
<1>4. PreviewByte(source, k, 2 * i) = Digit(v, 0)
      /\ PreviewByte(source, k, 2 * i + 1) = Digit(v, 1)
  <2>1. (2 * i) \div 2 = i /\ (2 * i + 1) \div 2 = i /\ (2 * i) % 2 = 0
        /\ (2 * i + 1) % 2 = 1
    BY <1>2
  <2>. QED
    BY <2>1 DEF PreviewByte
<1>. HIDE DEF raw, v, source
<1>5. raw[at + 1] = Digit(v, 0) /\ raw[(at + 1) + 1] = Digit(v, 1)
  <2>1. 2 * i \in 0 .. 2 * PREVIEW_PER_CHUNK - 1
        /\ 2 * i + 1 \in 0 .. 2 * PREVIEW_PER_CHUNK - 1
    BY <1>2
  <2>2. HEADER_LENGTH + BINS_PER_CHUNK + (2 * i + 1) + 1 = (at + 1) + 1
    BY <1>2
  <2>. QED
    BY <1>3, <1>4, <2>1, <2>2
<1>6. Digit(v, 0) + BYTE * Digit(v, 1) = v
  BY <1>1, DigitsOf
<1>7. Preview(raw)[i] = Signed(raw[at + 1] + BYTE * raw[(at + 1) + 1])
  BY DEF Preview, get_u16, get_u8
<1>. QED
  BY <1>1, <1>5, <1>6, <1>7 DEF raw

\* The samples of a block are numbers cast to int16_t.
LEMMA SamplesNarrow ==
  ASSUME NEW word \in [Positions -> Int]
  PROVE  /\ Unpacked(word) \in [Positions -> Int]
         /\ \A i \in Positions : \E x \in Int : Unpacked(word)[i] = Narrow(x)
<1>. DEFINE mean == Mean(word)
<1>1. mean \in Int
  <2>1. Total(word) \in Int
    BY BlockSize, AddedUpIs DEF Total
  <2>. QED
    BY <2>1, BlockSize DEF Mean
<1>2. Unpacked(word) = [i \in Positions |-> Narrow(SCALE * (word[i] - mean))]
  BY DEF Unpacked
<1>. HIDE DEF mean
<1>3. \A i \in Positions : SCALE * (word[i] - mean) \in Int
  BY <1>1, SignalAssumption
<1>4. \A i \in Positions : Narrow(SCALE * (word[i] - mean)) \in Int
  BY <1>3, NarrowInt16
<1>. QED
  BY <1>2, <1>3, <1>4

\* Both decoders read from the bytes of every chunk what was measured: every field,
\* the signed samples, and the magnitudes to half a step or, where the byte saturates,
\* to a whole one.
THEOREM ChunksAreFaithful == Spec => []ChunksFaithful
<1>1. ASSUME SignalInv, pc = "publish",
             NEW stamp \in Stamps, NEW c \in Channels, NEW k \in 0 .. CHUNKS - 1
      PROVE  LET result == dsp_result(stamp)
                 raw == Encoded(stamp.sequence, result, c, k)
                 chunk == decode_body(raw)
             IN  /\ decode_raw(raw) = chunk /\ chunk # BadFormat
                 /\ chunk.header.channel = c /\ chunk.header.chunk_index = k
                 /\ \A f \in DOMAIN stamp : chunk.header[f] = stamp[f]
                 /\ chunk.header.status = result.status
                 /\ chunk.header.dominant_millihz = dominant[c]
                 /\ chunk.header.rms_q15 = Rms(channel_samples[c])
                 /\ chunk.header.peak_q15 = Peak(channel_samples[c])
                 /\ \A i \in 0 .. BINS_PER_CHUNK - 1 :
                      LET received == chunk.magnitudes[i]
                          magnitude == Corrected(amplitudes[c])[k * BINS_PER_CHUNK + i]
                      IN  2 * Size(MAGNITUDE_STEP * received - magnitude)
                            <= MAGNITUDE_STEP * IF received = BYTE - 1 THEN 2 ELSE 1
                 /\ \A i \in 0 .. PREVIEW_PER_CHUNK - 1 :
                      chunk.preview[i] =
                        channel_samples[c][(k * PREVIEW_PER_CHUNK + i)
                                             * (FFT_SIZE \div PREVIEW_SAMPLES)]
  <2>. DEFINE result == dsp_result(stamp)
              samples == channel_samples[c]
              sequence == stamp.sequence
              source == result.channel[c]
              raw == Encoded(sequence, result, c, k)
              header == Header(sequence, result, c, k)
              chunk == decode_body(raw)
  <2>1. /\ samples = Unpacked(block[c]) /\ block[c] \in [Positions -> Int]
        /\ amplitudes[c] \in [Bins -> Nat]
        /\ dominant[c] = dominant_millihz(amplitudes[c])
    BY <1>1, SignalAssumption DEF SignalInv
  <2>2. /\ samples \in [Positions -> Int]
        /\ \A i \in Positions : \E x \in Int : samples[i] = Narrow(x)
    BY <2>1, SamplesNarrow
  <2>3. /\ stamp.sequence \in Word16
        /\ {stamp.timestamp_us, stamp.sample_rate_hz, stamp.processing_us,
            stamp.dropped_blocks} \subseteq Word32
        /\ DOMAIN stamp = {"sequence", "timestamp_us", "sample_rate_hz",
                           "processing_us", "dropped_blocks"}
    BY SignalAssumption
  <2>4. /\ result.timestamp_us = stamp.timestamp_us
        /\ result.sample_rate_hz = stamp.sample_rate_hz
        /\ result.processing_us = stamp.processing_us
        /\ result.dropped_blocks = stamp.dropped_blocks
        /\ result.status = StatusWord
        /\ source.magnitude_q15 = Corrected(amplitudes[c])
        /\ source.preview_q15 = preview_q15(samples)
        /\ source.rms_q15 = Rms(samples) /\ source.peak_q15 = Peak(samples)
        /\ source.dominant_millihz = dominant[c]
    BY DEF dsp_result
  <2>. HIDE DEF result
  <2>5. /\ Rms(samples) \in Word16 /\ Peak(samples) \in Word16
        /\ StatusWord \in Word32 /\ dominant[c] \in Word32
    <3>. HIDE DEF samples
    <3>. QED
      BY <2>1, <2>2, RmsFits, PeakFits, StatusFits, DominantFits
  <2>6. \A f \in Fields : Fits(header[f], Place[f][2])
    <3>. HIDE DEF samples
    <3>1. /\ {result.timestamp_us, result.status, result.sample_rate_hz,
              result.processing_us, result.dropped_blocks,
              source.dominant_millihz} \subseteq Word32
          /\ {source.rms_q15, source.peak_q15} \subseteq Word16
      BY <2>3, <2>4, <2>5
    <3>. QED
      BY <2>3, <3>1, HeaderFits
  <2>7. /\ decode_raw(raw) = chunk /\ chunk # BadFormat
        /\ \A f \in Fields : chunk.header[f] = header[f]
        /\ chunk.magnitudes = Magnitudes(raw) /\ chunk.preview = Preview(raw)
    <3>. HIDE DEF sequence
    <3>1. \A f \in Fields : Fits(Header(sequence, result, c, k)[f], Place[f][2])
      BY <2>6
    <3>. QED
      BY <3>1, ChunkRead
  <2>8. /\ header["sequence"] = stamp.sequence
        /\ header["timestamp_us"] = result.timestamp_us
        /\ header["status"] = result.status
        /\ header["channel"] = c /\ header["chunk_index"] = k
        /\ header["sample_rate_hz"] = result.sample_rate_hz
        /\ header["rms_q15"] = source.rms_q15 /\ header["peak_q15"] = source.peak_q15
        /\ header["dominant_millihz"] = source.dominant_millihz
        /\ header["processing_us"] = result.processing_us
        /\ header["dropped_blocks"] = result.dropped_blocks
    BY DEF Header
  <2>9. {"sequence", "timestamp_us", "status", "channel", "chunk_index",
         "sample_rate_hz", "rms_q15", "peak_q15", "dominant_millihz",
         "processing_us", "dropped_blocks"} \subseteq Fields
    BY Places
  <2>10. ASSUME NEW i \in 0 .. BINS_PER_CHUNK - 1
         PROVE  LET received == chunk.magnitudes[i]
                    magnitude == Corrected(amplitudes[c])[k * BINS_PER_CHUNK + i]
                IN  2 * Size(MAGNITUDE_STEP * received - magnitude)
                      <= MAGNITUDE_STEP * IF received = BYTE - 1 THEN 2 ELSE 1
    <3>. DEFINE magnitude == Corrected(amplitudes[c])[k * BINS_PER_CHUNK + i]
    <3>1. magnitude \in Nat /\ magnitude < MAGNITUDE_STEP * BYTE
      <4>1. /\ k * BINS_PER_CHUNK + i \in Bins
            /\ Q15_MAX < MAGNITUDE_STEP * BYTE
        BY ChunkPlaces, SignalAssumption
      <4>2. MAGNITUDE_STEP * BYTE \in Int
        BY LayoutAssumption
      <4>3. magnitude \in Nat /\ magnitude <= Q15_MAX
        BY <2>1, <4>1, CorrectedType
      <4>. HIDE DEF magnitude
      <4>. QED
        BY <4>1, <4>2, <4>3, SpectrumAssumption
    <3>2. raw[HEADER_LENGTH + i + 1] = Compressed(magnitude)
      <4>. HIDE DEF source
      <4>1. raw[HEADER_LENGTH + i + 1] =
              Compressed(source.magnitude_q15[k * BINS_PER_CHUNK + i])
        BY EncodedIs DEF source
      <4>. QED
        BY <2>4, <4>1
    <3>3. chunk.magnitudes[i] = Compressed(magnitude)
      <4>. HIDE DEF raw, chunk
      <4>. QED
        BY <2>7, <3>2 DEF Magnitudes, get_u8
    <3>. HIDE DEF magnitude, raw, chunk
    <3>4. 2 * Size(MAGNITUDE_STEP * Compressed(magnitude) - magnitude)
            <= MAGNITUDE_STEP * IF Compressed(magnitude) = BYTE - 1 THEN 2 ELSE 1
      BY <3>1, CompressedIs
    <3>. QED
      BY <3>3, <3>4 DEF magnitude
  <2>11. ASSUME NEW i \in 0 .. PREVIEW_PER_CHUNK - 1
         PROVE  chunk.preview[i] = samples[(k * PREVIEW_PER_CHUNK + i)
                                             * (FFT_SIZE \div PREVIEW_SAMPLES)]
    <3>. DEFINE at == k * PREVIEW_PER_CHUNK + i
                place == at * (FFT_SIZE \div PREVIEW_SAMPLES)
    <3>1. at \in 0 .. PREVIEW_SAMPLES - 1 /\ place \in Positions
      BY ChunkPlaces
    <3>2. PICK x \in Int : samples[place] = Narrow(x)
      <4>. HIDE DEF place, samples
      <4>. QED
        BY <2>2, <3>1
    <3>3. source.preview_q15[at] = Narrow(x)
      <4>. HIDE DEF at, samples, source
      <4>1. preview_q15(samples)[at] = samples[at * (FFT_SIZE \div PREVIEW_SAMPLES)]
        BY <3>1 DEF preview_q15
      <4>. QED
        BY <2>4, <3>2, <4>1
    <3>4. Preview(raw)[i] = Narrow(x)
      <4>. HIDE DEF samples
      <4>. QED
        BY <3>3, PreviewRead
    <3>. HIDE DEF raw, chunk, samples
    <3>. QED
      BY <2>7, <3>2, <3>4
  <2>12. \A f \in DOMAIN stamp : chunk.header[f] = stamp[f]
    <3>. HIDE DEF raw, chunk, header, source, samples, sequence
    <3>. QED
      BY <2>3, <2>4, <2>7, <2>8, <2>9
  <2>13. /\ chunk.header.channel = c /\ chunk.header.chunk_index = k
         /\ chunk.header.status = result.status
         /\ chunk.header.dominant_millihz = dominant[c]
         /\ chunk.header.rms_q15 = Rms(samples) /\ chunk.header.peak_q15 = Peak(samples)
    <3>. HIDE DEF raw, chunk, header, source, samples
    <3>. QED
      BY <2>4, <2>7, <2>8, <2>9
  <2>. QED
    BY <2>7, <2>10, <2>11, <2>12, <2>13 DEF result
<1>2. SignalInv => ChunksFaithful
  BY <1>1 DEF ChunksFaithful
<1>. QED
  BY <1>2, SignalInductive, PTL

-----------------------------------------------------------------------------
(* The numbers of the transform.                                           *)

\* The field is not empty.
LEMMA PrimeType == PRIME \in Nat \ {0}
BY SpectrumAssumption

\* Number gives a number ...
LEMMA NumberType ==
  ASSUME NEW a \in Int, NEW b \in Int
  PROVE  /\ Number(a, b) \in Complex
         /\ Number(a, b).re = a % PRIME /\ Number(a, b).im = b % PRIME
<1>1. a % PRIME \in Field /\ b % PRIME \in Field
  BY PrimeType, Division DEF Field
<1>. QED
  BY <1>1 DEF Number, Complex

\* ... and every number is made of its parts.
LEMMA IsNumber ==
  ASSUME NEW x \in Complex
  PROVE  x.re \in Int /\ x.im \in Int /\ x = Number(x.re, x.im)
<1>1. x.re \in 0 .. PRIME - 1 /\ x.im \in 0 .. PRIME - 1 /\ x = [re |-> x.re, im |-> x.im]
  BY DEF Complex, Field
<1>2. \A r \in 0 .. PRIME - 1 : r % PRIME = r
  <2>. TAKE r \in 0 .. PRIME - 1
  <2>1. (PRIME * 0 + r) % PRIME = r
    BY PrimeType, Remainder
  <2>2. PRIME * 0 + r = r
    BY PrimeType
  <2>. QED
    BY <2>1, <2>2
<1>. QED
  BY <1>1, <1>2 DEF Number

\* Numbers differ by nothing if their parts differ by multiples of PRIME.
LEMMA SameNumber ==
  ASSUME NEW a \in Int, NEW b \in Int, NEW c \in Int, NEW d \in Int,
         NEW p \in Int, NEW q \in Int, a = PRIME * p + c, b = PRIME * q + d
  PROVE  Number(a, b) = Number(c, d)
<1>1. ASSUME NEW x \in Int, NEW y \in Int, NEW k \in Int, x = PRIME * k + y
      PROVE  x % PRIME = y % PRIME
  <2>. DEFINE w == PRIME
              u == y \div w
              r == y % w
  <2>1. w \in Nat \ {0}
    BY PrimeType
  <2>2. r \in 0 .. w - 1 /\ u \in Int /\ y = w * u + r
    <3>. HIDE DEF w
    <3>. QED
      BY <2>1, Division
  <2>3. x = w * k + y
    BY <1>1
  <2>. HIDE DEF w, u, r
  <2>4. w * (k + u) = w * k + w * u /\ w * k \in Int /\ w * u \in Int
    BY <2>1, <2>2
  <2>5. x = w * (k + u) + r
    BY <2>2, <2>3, <2>4
  <2>6. k + u \in Int
    BY <2>2
  <2>7. (w * (k + u) + r) % w = r
    BY <2>1, <2>2, <2>6, Remainder
  <2>8. x % w = r
    BY <2>5, <2>7
  <2>. QED
    BY <2>8 DEF r, w
<1>2. a % PRIME = c % PRIME
  BY <1>1
<1>3. b % PRIME = d % PRIME
  BY <1>1
<1>. QED
  BY <1>2, <1>3 DEF Number

\* An integer is a multiple of PRIME and its remainder.
LEMMA Parted ==
  ASSUME NEW a \in Int
  PROVE  \E p \in Int, r \in Int : a = PRIME * p + r /\ a % PRIME = r
<1>. DEFINE w == PRIME
<1>1. w \in Nat \ {0}
  BY PrimeType
<1>2. a \div w \in Int /\ a % w \in Int /\ a = w * (a \div w) + (a % w)
  <2>. HIDE DEF w
  <2>. QED
    BY <1>1, Division
<1>. QED
  BY <1>2

\* Sums and products may be taken before or after the remainder.
LEMMA PlusNumber ==
  ASSUME NEW a \in Int, NEW b \in Int, NEW c \in Int, NEW d \in Int
  PROVE  Plus(Number(a, b), Number(c, d)) = Number(a + c, b + d)
<1>1. PICK p \in Int, r \in Int : a = PRIME * p + r /\ a % PRIME = r
  BY Parted
<1>2. PICK q \in Int, s \in Int : b = PRIME * q + s /\ b % PRIME = s
  BY Parted
<1>3. PICK t \in Int, u \in Int : c = PRIME * t + u /\ c % PRIME = u
  BY Parted
<1>4. PICK v \in Int, w \in Int : d = PRIME * v + w /\ d % PRIME = w
  BY Parted
<1>5. Plus(Number(a, b), Number(c, d)) = Number(r + u, s + w)
  BY <1>1, <1>2, <1>3, <1>4 DEF Plus, Number
<1>6. a + c = PRIME * (p + t) + (r + u) /\ b + d = PRIME * (q + v) + (s + w)
  BY <1>1, <1>2, <1>3, <1>4, PrimeType
<1>7. Number(a + c, b + d) = Number(r + u, s + w)
  BY <1>6, SameNumber
<1>. QED
  BY <1>5, <1>7

\* Differences may be reduced late.
LEMMA MinusNumber ==
  ASSUME NEW a \in Int, NEW b \in Int, NEW c \in Int, NEW d \in Int
  PROVE  Minus(Number(a, b), Number(c, d)) = Number(a - c, b - d)
<1>1. PICK p \in Int, r \in Int : a = PRIME * p + r /\ a % PRIME = r
  BY Parted
<1>2. PICK q \in Int, s \in Int : b = PRIME * q + s /\ b % PRIME = s
  BY Parted
<1>3. PICK t \in Int, u \in Int : c = PRIME * t + u /\ c % PRIME = u
  BY Parted
<1>4. PICK v \in Int, w \in Int : d = PRIME * v + w /\ d % PRIME = w
  BY Parted
<1>5. Minus(Number(a, b), Number(c, d)) = Number(r - u, s - w)
  BY <1>1, <1>2, <1>3, <1>4 DEF Minus, Number
<1>6. a - c = PRIME * (p - t) + (r - u) /\ b - d = PRIME * (q - v) + (s - w)
  BY <1>1, <1>2, <1>3, <1>4, PrimeType
<1>7. Number(a - c, b - d) = Number(r - u, s - w)
  BY <1>6, SameNumber
<1>. QED
  BY <1>5, <1>7

\* So may products.
LEMMA TimesNumber ==
  ASSUME NEW a \in Int, NEW b \in Int, NEW c \in Int, NEW d \in Int
  PROVE  Times(Number(a, b), Number(c, d)) = Number(a * c - b * d, a * d + b * c)
<1>1. PICK p \in Int, r \in Int : a = PRIME * p + r /\ a % PRIME = r
  BY Parted
<1>2. PICK q \in Int, s \in Int : b = PRIME * q + s /\ b % PRIME = s
  BY Parted
<1>3. PICK t \in Int, u \in Int : c = PRIME * t + u /\ c % PRIME = u
  BY Parted
<1>4. PICK v \in Int, w \in Int : d = PRIME * v + w /\ d % PRIME = w
  BY Parted
<1>5. Times(Number(a, b), Number(c, d)) = Number(r * u - s * w, r * w + s * u)
  BY <1>1, <1>2, <1>3, <1>4 DEF Times, Number
<1>6. a * c = PRIME * (PRIME * (p * t) + p * u + r * t) + r * u
  BY <1>1, <1>3, PrimeType
<1>7. b * d = PRIME * (PRIME * (q * v) + q * w + s * v) + s * w
  BY <1>2, <1>4, PrimeType
<1>8. a * d = PRIME * (PRIME * (p * v) + p * w + r * v) + r * w
  BY <1>1, <1>4, PrimeType
<1>9. b * c = PRIME * (PRIME * (q * t) + q * u + s * t) + s * u
  BY <1>2, <1>3, PrimeType
<1>10. PICK k \in Int : a * c = PRIME * k + r * u
  <2>1. PRIME * (p * t) + p * u + r * t \in Int
    BY PrimeType
  <2>. QED
    BY <1>6, <2>1
<1>14. PICK l \in Int : b * d = PRIME * l + s * w
  <2>1. PRIME * (q * v) + q * w + s * v \in Int
    BY PrimeType
  <2>. QED
    BY <1>7, <2>1
<1>15. PICK m \in Int : a * d = PRIME * m + r * w
  <2>1. PRIME * (p * v) + p * w + r * v \in Int
    BY PrimeType
  <2>. QED
    BY <1>8, <2>1
<1>16. PICK n \in Int : b * c = PRIME * n + s * u
  <2>1. PRIME * (q * t) + q * u + s * t \in Int
    BY PrimeType
  <2>. QED
    BY <1>9, <2>1
<1>11. /\ a * c - b * d = PRIME * (k - l) + (r * u - s * w)
       /\ a * d + b * c = PRIME * (m + n) + (r * w + s * u)
  BY <1>10, <1>14, <1>15, <1>16, PrimeType
<1>12. /\ a * c - b * d \in Int /\ a * d + b * c \in Int
       /\ r * u - s * w \in Int /\ r * w + s * u \in Int /\ k - l \in Int /\ m + n \in Int
  OBVIOUS
<1>13. Number(a * c - b * d, a * d + b * c) = Number(r * u - s * w, r * w + s * u)
  BY <1>11, <1>12, SameNumber
<1>. QED
  BY <1>5, <1>13

-----------------------------------------------------------------------------
(* The numbers are a commutative ring.                                     *)

\* The numbers 0, 1 and -1.
Zero == Number(0, 0)
One == Number(1, 0)
MinusOne == Number(-1, 0)

\* Operations on numbers give numbers.
LEMMA RingType ==
  /\ Zero \in Complex /\ One \in Complex /\ MinusOne \in Complex
  /\ \A a, b \in Complex : /\ Plus(a, b) \in Complex /\ Minus(a, b) \in Complex
                           /\ Times(a, b) \in Complex
<1>1. Zero \in Complex /\ One \in Complex /\ MinusOne \in Complex
  BY NumberType DEF Zero, One, MinusOne
<1>2. ASSUME NEW a \in Complex, NEW b \in Complex
      PROVE  /\ Plus(a, b) \in Complex /\ Minus(a, b) \in Complex
             /\ Times(a, b) \in Complex
  <2>1. a.re \in Int /\ a.im \in Int /\ b.re \in Int /\ b.im \in Int
    BY IsNumber
  <2>2. /\ a.re + b.re \in Int /\ a.im + b.im \in Int
        /\ a.re - b.re \in Int /\ a.im - b.im \in Int
        /\ a.re * b.re - a.im * b.im \in Int /\ a.re * b.im + a.im * b.re \in Int
    BY <2>1
  <2>. QED
    BY <2>2, NumberType DEF Plus, Minus, Times
<1>. QED
  BY <1>1, <1>2

\* Sums are regrouped, and products distribute over them.
LEMMA PlusRing ==
  ASSUME NEW a \in Complex, NEW b \in Complex, NEW c \in Complex, NEW d \in Complex
  PROVE  /\ Plus(Plus(a, b), Plus(c, d)) = Plus(Plus(a, c), Plus(b, d))
         /\ Plus(a, Zero) = a /\ Plus(Zero, a) = a
         /\ Times(a, Plus(b, c)) = Plus(Times(a, b), Times(a, c))
<1>1. PICK p \in Int, q \in Int : a = Number(p, q)
  BY IsNumber
<1>2. PICK r \in Int, s \in Int : b = Number(r, s)
  BY IsNumber
<1>3. PICK t \in Int, u \in Int : c = Number(t, u)
  BY IsNumber
<1>4. PICK v \in Int, w \in Int : d = Number(v, w)
  BY IsNumber
<1>5. /\ Plus(a, b) = Number(p + r, q + s) /\ Plus(c, d) = Number(t + v, u + w)
      /\ Plus(a, c) = Number(p + t, q + u) /\ Plus(b, d) = Number(r + v, s + w)
      /\ Plus(b, c) = Number(r + t, s + u)
  <2>1. Plus(a, b) = Number(p + r, q + s)
    BY <1>1, <1>2, PlusNumber
  <2>2. Plus(c, d) = Number(t + v, u + w)
    BY <1>3, <1>4, PlusNumber
  <2>3. Plus(a, c) = Number(p + t, q + u)
    BY <1>1, <1>3, PlusNumber
  <2>4. Plus(b, d) = Number(r + v, s + w)
    BY <1>2, <1>4, PlusNumber
  <2>5. Plus(b, c) = Number(r + t, s + u)
    BY <1>2, <1>3, PlusNumber
  <2>. QED
    BY <2>1, <2>2, <2>3, <2>4, <2>5
<1>6. Plus(Plus(a, b), Plus(c, d)) = Number((p + r) + (t + v), (q + s) + (u + w))
  <2>1. p + r \in Int /\ t + v \in Int /\ q + s \in Int /\ u + w \in Int
    OBVIOUS
  <2>. QED
    BY <1>5, <2>1, PlusNumber
<1>7. Plus(Plus(a, c), Plus(b, d)) = Number((p + t) + (r + v), (q + u) + (s + w))
  <2>1. p + t \in Int /\ r + v \in Int /\ q + u \in Int /\ s + w \in Int
    OBVIOUS
  <2>. QED
    BY <1>5, <2>1, PlusNumber
<1>8. (p + r) + (t + v) = (p + t) + (r + v) /\ (q + s) + (u + w) = (q + u) + (s + w)
  OBVIOUS
<1>9. Plus(a, Zero) = a /\ Plus(Zero, a) = a
  <2>1. Plus(a, Zero) = Number(p + 0, q + 0)
    BY <1>1, PlusNumber DEF Zero
  <2>3. Plus(Zero, a) = Number(0 + p, 0 + q)
    BY <1>1, PlusNumber DEF Zero
  <2>2. p + 0 = p /\ q + 0 = q /\ 0 + p = p /\ 0 + q = q
    OBVIOUS
  <2>. QED
    BY <1>1, <2>1, <2>2, <2>3
<1>10. Times(a, Plus(b, c)) = Plus(Times(a, b), Times(a, c))
  <2>1. r + t \in Int /\ s + u \in Int
    OBVIOUS
  <2>2. Times(a, Plus(b, c)) = Number(p * (r + t) - q * (s + u), p * (s + u) + q * (r + t))
    BY <1>1, <1>5, <2>1, TimesNumber
  <2>3. /\ Times(a, b) = Number(p * r - q * s, p * s + q * r)
        /\ Times(a, c) = Number(p * t - q * u, p * u + q * t)
    <3>1. Times(a, b) = Number(p * r - q * s, p * s + q * r)
      BY <1>1, <1>2, TimesNumber
    <3>2. Times(a, c) = Number(p * t - q * u, p * u + q * t)
      BY <1>1, <1>3, TimesNumber
    <3>. QED
      BY <3>1, <3>2
  <2>4. /\ p * r - q * s \in Int /\ p * s + q * r \in Int
        /\ p * t - q * u \in Int /\ p * u + q * t \in Int
    OBVIOUS
  <2>5. Plus(Times(a, b), Times(a, c))
          = Number((p * r - q * s) + (p * t - q * u), (p * s + q * r) + (p * u + q * t))
    BY <2>3, <2>4, PlusNumber
  <2>6. /\ p * (r + t) - q * (s + u) = (p * r - q * s) + (p * t - q * u)
        /\ p * (s + u) + q * (r + t) = (p * s + q * r) + (p * u + q * t)
    OBVIOUS
  <2>. QED
    BY <2>2, <2>5, <2>6
<1>. QED
  BY <1>6, <1>7, <1>8, <1>9, <1>10

\* Products are regrouped and exchanged; the signs work out.
LEMMA TimesRing ==
  ASSUME NEW a \in Complex, NEW b \in Complex, NEW c \in Complex
  PROVE  /\ Times(a, b) = Times(b, a)
         /\ Times(a, Times(b, c)) = Times(b, Times(a, c))
         /\ Times(a, One) = a
         /\ Minus(a, Times(b, c)) = Plus(a, Times(Times(MinusOne, b), c))
<1>1. PICK p \in Int, q \in Int : a = Number(p, q)
  BY IsNumber
<1>2. PICK r \in Int, s \in Int : b = Number(r, s)
  BY IsNumber
<1>3. PICK t \in Int, u \in Int : c = Number(t, u)
  BY IsNumber
<1>4. /\ Times(a, b) = Number(p * r - q * s, p * s + q * r)
      /\ Times(b, a) = Number(r * p - s * q, r * q + s * p)
      /\ Times(b, c) = Number(r * t - s * u, r * u + s * t)
      /\ Times(a, c) = Number(p * t - q * u, p * u + q * t)
      /\ Times(a, One) = Number(p * 1 - q * 0, p * 0 + q * 1)
      /\ Times(MinusOne, b) = Number((-1) * r - 0 * s, (-1) * s + 0 * r)
  <2>1. Times(a, b) = Number(p * r - q * s, p * s + q * r)
    BY <1>1, <1>2, TimesNumber
  <2>2. Times(b, a) = Number(r * p - s * q, r * q + s * p)
    BY <1>1, <1>2, TimesNumber
  <2>3. Times(b, c) = Number(r * t - s * u, r * u + s * t)
    BY <1>2, <1>3, TimesNumber
  <2>4. Times(a, c) = Number(p * t - q * u, p * u + q * t)
    BY <1>1, <1>3, TimesNumber
  <2>5. Times(a, One) = Number(p * 1 - q * 0, p * 0 + q * 1)
    BY <1>1, TimesNumber DEF One
  <2>6. Times(MinusOne, b) = Number((-1) * r - 0 * s, (-1) * s + 0 * r)
    BY <1>2, TimesNumber DEF MinusOne
  <2>. QED
    BY <2>1, <2>2, <2>3, <2>4, <2>5, <2>6
<1>5. Times(a, b) = Times(b, a)
  <2>1. p * r - q * s = r * p - s * q /\ p * s + q * r = r * q + s * p
    OBVIOUS
  <2>. QED
    BY <1>4, <2>1
<1>6. Times(a, One) = a
  <2>1. p * 1 - q * 0 = p /\ p * 0 + q * 1 = q
    OBVIOUS
  <2>. QED
    BY <1>1, <1>4, <2>1
<1>7. Times(a, Times(b, c)) = Times(b, Times(a, c))
  <2>1. /\ r * t - s * u \in Int /\ r * u + s * t \in Int
        /\ p * t - q * u \in Int /\ p * u + q * t \in Int
    OBVIOUS
  <2>2. Times(a, Times(b, c)) = Number(p * (r * t - s * u) - q * (r * u + s * t),
                                       p * (r * u + s * t) + q * (r * t - s * u))
    BY <1>1, <1>4, <2>1, TimesNumber
  <2>3. Times(b, Times(a, c)) = Number(r * (p * t - q * u) - s * (p * u + q * t),
                                       r * (p * u + q * t) + s * (p * t - q * u))
    BY <1>2, <1>4, <2>1, TimesNumber
  <2>4. /\ p * (r * t - s * u) - q * (r * u + s * t)
             = r * (p * t - q * u) - s * (p * u + q * t)
        /\ p * (r * u + s * t) + q * (r * t - s * u)
             = r * (p * u + q * t) + s * (p * t - q * u)
    OBVIOUS
  <2>. QED
    BY <2>2, <2>3, <2>4
<1>8. Minus(a, Times(b, c)) = Plus(a, Times(Times(MinusOne, b), c))
  <2>1. (-1) * r - 0 * s = -r /\ (-1) * s + 0 * r = -s /\ -r \in Int /\ -s \in Int
    OBVIOUS
  <2>2. Times(MinusOne, b) = Number(-r, -s)
    BY <1>4, <2>1
  <2>3. Times(Times(MinusOne, b), c) = Number((-r) * t - (-s) * u, (-r) * u + (-s) * t)
    BY <1>3, <2>1, <2>2, TimesNumber
  <2>4. /\ (-r) * t - (-s) * u \in Int /\ (-r) * u + (-s) * t \in Int
        /\ r * t - s * u \in Int /\ r * u + s * t \in Int
    OBVIOUS
  <2>5. Plus(a, Times(Times(MinusOne, b), c))
          = Number(p + ((-r) * t - (-s) * u), q + ((-r) * u + (-s) * t))
    BY <1>1, <2>3, <2>4, PlusNumber
  <2>6. Minus(a, Times(b, c)) = Number(p - (r * t - s * u), q - (r * u + s * t))
    BY <1>1, <1>4, <2>4, MinusNumber
  <2>7. /\ p + ((-r) * t - (-s) * u) = p - (r * t - s * u)
        /\ q + ((-r) * u + (-s) * t) = q - (r * u + s * t)
    OBVIOUS
  <2>. QED
    BY <2>5, <2>6, <2>7
<1>. QED
  BY <1>5, <1>6, <1>7, <1>8

-----------------------------------------------------------------------------
(* Roots and sums.                                                         *)

\* The size is even.
LEMMA SizeType ==
  /\ FFT_SIZE \in Nat \ {0} /\ FFT_SIZE \div 2 \in Positions
  /\ FFT_SIZE = 2 * (FFT_SIZE \div 2) /\ FFT_SIZE \div 4 \in Nat
  /\ 0 \in Positions
BY SpectrumAssumption DEF Positions

\* The roots repeat every FFT_SIZE.
LEMMA RootAgain ==
  ASSUME NEW j \in Int, NEW k \in Int, NEW q \in Int, j = k + FFT_SIZE * q
  PROVE  Root(j) = Root(k)
<1>1. j % FFT_SIZE = k % FFT_SIZE
  BY SizeType, SameRemainder
<1>2. (j - FFT_SIZE \div 4) % FFT_SIZE = (k - FFT_SIZE \div 4) % FFT_SIZE
  <2>. DEFINE a == j - FFT_SIZE \div 4
              b == k - FFT_SIZE \div 4
  <2>1. a = b + FFT_SIZE * q /\ a \in Int /\ b \in Int
    BY SizeType
  <2>. HIDE DEF a, b
  <2>2. a % FFT_SIZE = b % FFT_SIZE
    BY <2>1, SizeType, SameRemainder
  <2>. QED
    BY <2>2 DEF a, b
<1>. QED
  BY <1>1, <1>2 DEF Root

\* Roots go round the circle.
LEMMA RootReduced ==
  ASSUME NEW k \in Int
  PROVE  k % FFT_SIZE \in Positions /\ Root(k % FFT_SIZE) = Root(k)
<1>. DEFINE w == FFT_SIZE
            r == k % w
            q == k \div w
<1>1. w \in Nat \ {0}
  BY SizeType
<1>2. r \in 0 .. w - 1 /\ q \in Int /\ k = w * q + r
  <2>. HIDE DEF w
  <2>. QED
    BY <1>1, Division
<1>3. k = r + w * q /\ r \in Int
  <2>. HIDE DEF w, r, q
  <2>. QED
    BY <1>1, <1>2
<1>. HIDE DEF r, q
<1>4. Root(k) = Root(r)
  BY <1>2, <1>3, RootAgain
<1>. QED
  BY <1>2, <1>4 DEF Positions, r

\* They are numbers.
LEMMA RootType ==
  ASSUME NEW k \in Int
  PROVE  Root(k) \in Complex
<1>1. k % FFT_SIZE \in Positions /\ (k - FFT_SIZE \div 4) % FFT_SIZE \in Positions
  <2>1. k - FFT_SIZE \div 4 \in Int
    BY SizeType
  <2>. QED
    BY <2>1, RootReduced
<1>2. COS[k % FFT_SIZE] \in Int /\ -COS[(k - FFT_SIZE \div 4) % FFT_SIZE] \in Int
  BY <1>1, SpectrumAssumption DEF Field
<1>. QED
  BY <1>2, NumberType DEF Root

\* Angles add up.
LEMMA RootPlus ==
  ASSUME NEW j \in Int, NEW k \in Int
  PROVE  Times(Root(j), Root(k)) = Root(j + k)
<1>. DEFINE r == j % FFT_SIZE
            s == k % FFT_SIZE
            p == j \div FFT_SIZE
            q == k \div FFT_SIZE
<1>1. /\ r \in Positions /\ Root(r) = Root(j)
      /\ s \in Positions /\ Root(s) = Root(k)
  BY RootReduced
<1>2. Times(Root(r), Root(s)) = Root(r + s)
  BY <1>1, RootAssumption
<1>3. p \in Int /\ q \in Int /\ j = FFT_SIZE * p + r /\ k = FFT_SIZE * q + s
  <2>1. \A w \in Nat \ {0} : /\ j = w * (j \div w) + (j % w) /\ j \div w \in Int
                             /\ k = w * (k \div w) + (k % w) /\ k \div w \in Int
    BY Division
  <2>. QED
    BY <2>1, SizeType
<1>. HIDE DEF r, s, p, q
<1>4. j + k = (r + s) + FFT_SIZE * (p + q) /\ r + s \in Int /\ p + q \in Int
  BY <1>1, <1>3, SizeType DEF Positions
<1>5. Root(j + k) = Root(r + s)
  BY <1>4, RootAgain
<1>. QED
  BY <1>1, <1>2, <1>5

\* Half a circle further is the opposite.
LEMMA RootOpposite ==
  ASSUME NEW k \in Int
  PROVE  Root(k + FFT_SIZE \div 2) = Times(MinusOne, Root(k))
<1>1. FFT_SIZE \div 2 \in Int /\ Root(FFT_SIZE \div 2) = MinusOne
  BY SizeType, RootAssumption DEF MinusOne, Positions
<1>2. Root(k + FFT_SIZE \div 2) = Times(Root(k), MinusOne)
  BY <1>1, RootPlus
<1>. QED
  BY <1>2, RootType, RingType, TimesRing

\* What the workspace of a channel holds.
Numbers == [Positions -> Complex]

\* The sum adds one number after another.
LEMMA SumUpToIs ==
  ASSUME NEW f \in Numbers
  PROVE  /\ SumUpTo(f)[0] = Zero
         /\ \A n \in 1 .. FFT_SIZE : SumUpTo(f)[n] = Plus(SumUpTo(f)[n - 1], f[n - 1])
         /\ \A n \in 0 .. FFT_SIZE : SumUpTo(f)[n] \in Complex
<1>. DEFINE size == FFT_SIZE
            C == Complex
            step == [x \in (1 .. size) \X C |-> Plus(x[2], f[x[1] - 1])]
            Loop(g) == g = [n \in 0 .. size |-> IF n = 0 THEN Zero
                                                ELSE Plus(g[n - 1], f[n - 1])]
            e == SumUpTo(f)
<1>1. size \in Nat /\ \A n \in 1 .. size : f[n - 1] \in C
  BY SizeType DEF Positions, Numbers
<1>2. e = CHOOSE g : Loop(g)
  BY DEF SumUpTo, Zero
<1>7. Zero \in C /\ \A a, b \in C : Plus(a, b) \in C
  BY RingType
<1>. HIDE DEF size, e, C
<1>3. step \in [(1 .. size) \X C -> C]
  BY <1>1, <1>7
<1>4. PICK g \in [0 .. size -> C] :
        g[0] = Zero /\ \A n \in 1 .. size : g[n] = step[<<n, g[n - 1]>>]
  <2>1. \E g : Recursion(g, size, C, Zero, step)
    <3>. HIDE DEF step
    <3>. QED
      BY <1>1, <1>3, <1>7, RecursionTo, Zenon
  <2>. HIDE DEF step
  <2>. QED
    BY <2>1 DEF Recursion
<1>5. \A n \in 1 .. size : g[n] = Plus(g[n - 1], f[n - 1])
  <2>. TAKE n \in 1 .. size
  <2>1. n - 1 \in 0 .. size
    BY <1>1
  <2>2. <<n, g[n - 1]>> \in (1 .. size) \X C
    BY <1>4, <2>1
  <2>3. step[<<n, g[n - 1]>>] = Plus(g[n - 1], f[n - 1])
    BY <2>2
  <2>. QED
    BY <1>4, <2>3
<1>6. Loop(g)
  BY <1>1, <1>4, <1>5
<1>8. Loop(e)
  <2>. HIDE DEF Loop
  <2>. QED
    BY <1>2, <1>6
<1>9. e[0] = Zero /\ \A n \in 1 .. size : e[n] = Plus(e[n - 1], f[n - 1])
  BY <1>1, <1>8
<1>10. \A n \in 0 .. size : e[n] \in C
  <2>1. \A k \in 1 .. size : e[k - 1] \in C => e[k] \in C
    BY <1>1, <1>7, <1>9
  <2>. QED
    BY <1>1, <1>7, <1>9, <2>1, LoopKeeps
<1>. QED
  BY <1>9, <1>10 DEF e, size, C

\* The sum of twice as many numbers, of which those at odd places are c times
\* some others.
LEMMA SumSplit ==
  ASSUME NEW f \in Numbers, NEW even \in Numbers, NEW odd \in Numbers,
         NEW c \in Complex, NEW H \in Nat, 2 * H <= FFT_SIZE,
         \A t \in 0 .. H - 1 : f[2 * t] = even[t] /\ f[2 * t + 1] = Times(c, odd[t])
  PROVE  SumUpTo(f)[2 * H]
           = Plus(SumUpTo(even)[H], Times(c, SumUpTo(odd)[H]))
<1>. DEFINE F == SumUpTo(f)
            E == SumUpTo(even)
            O == SumUpTo(odd)
            Done == {n \in Nat : F[2 * n] = Plus(E[n], Times(c, O[n]))}
<1>1. /\ F[0] = Zero /\ E[0] = Zero /\ O[0] = Zero
      /\ \A n \in 1 .. FFT_SIZE : /\ F[n] = Plus(F[n - 1], f[n - 1])
                                  /\ E[n] = Plus(E[n - 1], even[n - 1])
                                  /\ O[n] = Plus(O[n - 1], odd[n - 1])
      /\ \A n \in 0 .. FFT_SIZE : F[n] \in Complex /\ E[n] \in Complex /\ O[n] \in Complex
  BY SumUpToIs
<1>. HIDE DEF F, E, O
<1>2. 0 \in Done
  <2>1. Times(c, Zero) = Zero
    <3>1. PICK p \in Int, q \in Int : c = Number(p, q)
      BY IsNumber
    <3>2. Times(c, Zero) = Number(p * 0 - q * 0, p * 0 + q * 0)
      BY <3>1, TimesNumber DEF Zero
    <3>3. p * 0 - q * 0 = 0 /\ p * 0 + q * 0 = 0
      OBVIOUS
    <3>. QED
      BY <3>2, <3>3 DEF Zero
  <2>2. Plus(Zero, Zero) = Zero
    BY RingType, PlusRing
  <2>3. 2 * 0 = 0
    OBVIOUS
  <2>. QED
    BY <1>1, <2>1, <2>2, <2>3
<1>3. ASSUME NEW n \in Nat, n < H, n \in Done
      PROVE  n + 1 \in Done
  <2>1. /\ n \in 0 .. H - 1 /\ 2 * n + 1 \in 1 .. FFT_SIZE /\ 2 * n + 2 \in 1 .. FFT_SIZE
        /\ n + 1 \in 1 .. FFT_SIZE /\ n \in 0 .. FFT_SIZE /\ 2 * n \in 0 .. FFT_SIZE
        /\ n \in Positions
        /\ (2 * n + 1) - 1 = 2 * n /\ (2 * n + 2) - 1 = 2 * n + 1 /\ (n + 1) - 1 = n
        /\ 2 * (n + 1) = 2 * n + 2
    BY <1>3, SizeType DEF Positions
  <2>2. /\ F[2 * n + 1] = Plus(F[2 * n], even[n])
        /\ F[2 * n + 2] = Plus(F[2 * n + 1], Times(c, odd[n]))
        /\ E[n + 1] = Plus(E[n], even[n]) /\ O[n + 1] = Plus(O[n], odd[n])
    BY <1>1, <2>1
  <2>. DEFINE a == E[n]
              b == Times(c, O[n])
              x == even[n]
              y == Times(c, odd[n])
  <2>3. /\ a \in Complex /\ b \in Complex /\ x \in Complex /\ y \in Complex
        /\ O[n] \in Complex /\ odd[n] \in Complex
    BY <1>1, <2>1, RingType DEF Numbers
  <2>4. F[2 * n] = Plus(a, b)
    BY <1>3
  <2>5. Times(c, O[n + 1]) = Plus(b, y)
    BY <2>2, <2>3, PlusRing
  <2>6. F[2 * n + 2] = Plus(Plus(Plus(a, b), x), y)
    BY <2>2, <2>4
  <2>7. Plus(E[n + 1], Times(c, O[n + 1])) = Plus(Plus(a, x), Plus(b, y))
    BY <2>2, <2>5
  <2>. HIDE DEF a, b, x, y
  <2>8. Plus(Plus(a, x), Plus(b, y)) = Plus(Plus(a, b), Plus(x, y))
    BY <2>3, PlusRing
  <2>9. Plus(Plus(a, b), Plus(x, y)) = Plus(Plus(Plus(a, b), x), y)
    <3>. DEFINE d == Plus(a, b)
    <3>1. d \in Complex /\ Zero \in Complex
      BY <2>3, RingType
    <3>. HIDE DEF d
    <3>2. Plus(Plus(d, x), Plus(Zero, y)) = Plus(Plus(d, Zero), Plus(x, y))
      BY <2>3, <3>1, PlusRing
    <3>3. Plus(Zero, y) = y /\ Plus(d, Zero) = d
      BY <2>3, <3>1, PlusRing
    <3>. QED
      BY <3>2, <3>3 DEF d
  <2>10. F[2 * (n + 1)] = Plus(E[n + 1], Times(c, O[n + 1]))
    BY <2>1, <2>6, <2>7, <2>8, <2>9
  <2>. QED
    BY <2>10
<1>4. \A n \in 0 .. H : n \in Done
  <2>. HIDE DEF Done
  <2>. QED
    BY <1>2, <1>3, InductTo
<1>5. H \in Done
  BY <1>4
<1>. QED
  BY <1>5 DEF F, E, O

-----------------------------------------------------------------------------
(* Powers of two, and the bits of an index.                                *)

\* The weights of the bits of an index.
Bases == Powers \ {FFT_SIZE}

\* The least and the greatest power.
LEMMA PowersAre ==
  /\ 1 \in Powers /\ FFT_SIZE \in Powers /\ Powers \subseteq 1 .. FFT_SIZE
  /\ 1 \in Bases
BY SpectrumAssumption DEF Powers, Bases

\* From one power to the next.
LEMMA PowersInduct ==
  ASSUME NEW T, 1 \in T, \A p \in Powers : p \in T /\ 2 * p \in Powers => 2 * p \in T
  PROVE  Powers \subseteq T
<1>1. 2 \in Powers => 2 \in T
  BY SpectrumAssumption DEF Powers
<1>2. 4 \in Powers => 4 \in T
  BY <1>1, SpectrumAssumption DEF Powers
<1>3. 8 \in Powers => 8 \in T
  BY <1>2, SpectrumAssumption DEF Powers
<1>4. 16 \in Powers => 16 \in T
  BY <1>3, SpectrumAssumption DEF Powers
<1>5. 32 \in Powers => 32 \in T
  BY <1>4, SpectrumAssumption DEF Powers
<1>6. 64 \in Powers => 64 \in T
  BY <1>5, SpectrumAssumption DEF Powers
<1>7. 128 \in Powers => 128 \in T
  BY <1>6, SpectrumAssumption DEF Powers
<1>8. 256 \in Powers => 256 \in T
  BY <1>7, SpectrumAssumption DEF Powers
<1>9. 512 \in Powers => 512 \in T
  BY <1>8, SpectrumAssumption DEF Powers
<1>10. 1024 \in Powers => 1024 \in T
  BY <1>9, SpectrumAssumption DEF Powers
<1>. QED
  BY <1>1, <1>2, <1>3, <1>4, <1>5, <1>6, <1>7, <1>8, <1>9, <1>10 DEF Powers

\* Every power divides the size, into a power.
LEMMA PowerDivides ==
  ASSUME NEW p \in Powers
  PROVE  /\ FFT_SIZE \div p \in Powers /\ p * (FFT_SIZE \div p) = FFT_SIZE
         /\ p \in Bases => 2 * p \in Powers
         /\ p # 1 => p \div 2 \in Bases /\ 2 * (p \div 2) = p
<1>1. FFT_SIZE \div p \in Powers /\ p * (FFT_SIZE \div p) = FFT_SIZE
  BY SpectrumAssumption DEF Powers
<1>2. p \in Bases => 2 * p \in Powers
  BY SpectrumAssumption DEF Powers, Bases
<1>3. p # 1 => p \div 2 \in Bases /\ 2 * (p \div 2) = p
  BY SpectrumAssumption DEF Powers, Bases
<1>. QED
  BY <1>1, <1>2, <1>3

\* Of two powers the smaller divides half the larger.
LEMMA PowersApart ==
  ASSUME NEW p \in Powers, NEW q \in Powers, p < q
  PROVE  \E k \in Nat \ {0} : q = 2 * p * k
<1>1. q = 2 * p * (q \div (2 * p)) /\ q \div (2 * p) \in Nat \ {0}
  BY DEF Powers
<1>. QED
  BY <1>1

\* The bit of weight p.
BitOf(j, p) == (j \div p) % 2

\* A bit parts a number into what is above it and what is below.
LEMMA BitSplit ==
  ASSUME NEW j \in Int, NEW p \in Nat \ {0}
  PROVE  /\ BitOf(j, p) \in {0, 1} /\ j % p \in 0 .. p - 1
         /\ j \div (2 * p) \in Int
         /\ j % (2 * p) = (j % p) + p * BitOf(j, p)
         /\ j = 2 * p * (j \div (2 * p)) + (j % p) + p * BitOf(j, p)
<1>. DEFINE a == j \div p
            r == j % p
            c == a \div 2
            b == a % 2
<1>1. r \in 0 .. p - 1 /\ a \in Int /\ j = p * a + r
  BY Division
<1>2. b \in {0, 1} /\ c \in Int /\ a = 2 * c + b
  <2>. HIDE DEF a
  <2>. QED
    BY <1>1
<1>. HIDE DEF a, r, c, b
<1>3. p * b + r \in 0 .. 2 * p - 1 /\ j = (2 * p) * c + (p * b + r)
      /\ 2 * p \in Nat \ {0}
  BY <1>1, <1>2
<1>4. ((2 * p) * c + (p * b + r)) % (2 * p) = p * b + r
      /\ ((2 * p) * c + (p * b + r)) \div (2 * p) = c
  BY <1>2, <1>3, Remainder
<1>5. BitOf(j, p) = b
  BY DEF BitOf, a, b
<1>6. j % (2 * p) = p * b + r /\ j \div (2 * p) = c
  BY <1>3, <1>4
<1>7. j % p = r
  BY DEF r
<1>8. p * b + r = r + p * b
      /\ j = 2 * p * c + r + p * b
  BY <1>1, <1>2, <1>3
<1>. QED
  BY <1>1, <1>2, <1>5, <1>6, <1>7, <1>8

\* A number by its parts.
LEMMA BitIs ==
  ASSUME NEW c \in Int, NEW b \in {0, 1}, NEW p \in Nat \ {0}, NEW r \in 0 .. p - 1
  PROVE  /\ BitOf(2 * p * c + r + p * b, p) = b
         /\ (2 * p * c + r + p * b) % p = r
         /\ (2 * p * c + r + p * b) \div (2 * p) = c
         /\ (2 * p * c + r + p * b) % (2 * p) = r + p * b
<1>. DEFINE j == 2 * p * c + r + p * b
<1>1. j = p * (2 * c + b) + r /\ 2 * c + b \in Int
  OBVIOUS
<1>2. (p * (2 * c + b) + r) % p = r /\ (p * (2 * c + b) + r) \div p = 2 * c + b
  BY <1>1, Remainder
<1>3. (2 * c + b) % 2 = b
  OBVIOUS
<1>4. j = (2 * p) * c + (r + p * b) /\ r + p * b \in 0 .. 2 * p - 1
      /\ 2 * p \in Nat \ {0}
  OBVIOUS
<1>5. ((2 * p) * c + (r + p * b)) % (2 * p) = r + p * b
      /\ ((2 * p) * c + (r + p * b)) \div (2 * p) = c
  BY <1>4, Remainder
<1>. HIDE DEF j
<1>6. BitOf(j, p) = b /\ j % p = r /\ j \div (2 * p) = c /\ j % (2 * p) = r + p * b
  BY <1>1, <1>2, <1>3, <1>4, <1>5 DEF BitOf
<1>. QED
  BY <1>6 DEF j

\* The bit depends on the remainder alone.
LEMMA SameBit ==
  ASSUME NEW i \in Int, NEW j \in Int, NEW p \in Nat \ {0}, i % (2 * p) = j % (2 * p)
  PROVE  BitOf(i, p) = BitOf(j, p)
<1>1. /\ BitOf(i, p) \in {0, 1} /\ i % p \in 0 .. p - 1
      /\ BitOf(j, p) \in {0, 1} /\ j % p \in 0 .. p - 1
      /\ (i % p) + p * BitOf(i, p) = (j % p) + p * BitOf(j, p)
  <2>1. /\ BitOf(i, p) \in {0, 1} /\ i % p \in 0 .. p - 1
        /\ i % (2 * p) = (i % p) + p * BitOf(i, p)
    BY BitSplit
  <2>2. /\ BitOf(j, p) \in {0, 1} /\ j % p \in 0 .. p - 1
        /\ j % (2 * p) = (j % p) + p * BitOf(j, p)
    BY BitSplit
  <2>. QED
    BY <2>1, <2>2
<1>. DEFINE a == i % p
            b == BitOf(i, p)
            c == j % p
            d == BitOf(j, p)
<1>2. p * b + a = p * d + c /\ a \in 0 .. p - 1 /\ c \in 0 .. p - 1
      /\ b \in Int /\ d \in Int
  <2>1. b \in Int /\ d \in Int /\ a + p * b = c + p * d
        /\ a \in 0 .. p - 1 /\ c \in 0 .. p - 1
    BY <1>1
  <2>. HIDE DEF a, b, c, d
  <2>. QED
    BY <2>1
<1>. HIDE DEF a, b, c, d
<1>3. b = d
  BY <1>2, DivisionUnique
<1>. QED
  BY <1>3 DEF b, d

\* An index is known by its bits.
LEMMA BitsDetermine ==
  ASSUME NEW i \in Positions, NEW j \in Positions,
         \A p \in Bases : BitOf(i, p) = BitOf(j, p)
  PROVE  i = j
<1>. DEFINE T == {p \in Nat : i % p = j % p}
<1>1. i \in Int /\ j \in Int
  BY SizeType DEF Positions
<1>2. 1 \in T
  BY <1>1
<1>3. ASSUME NEW p \in Powers, p \in T, 2 * p \in Powers
      PROVE  2 * p \in T
  <2>1. p \in Bases /\ p \in Nat \ {0}
    BY <1>3, PowersAre, SizeType DEF Bases
  <2>2. i % (2 * p) = (i % p) + p * BitOf(i, p) /\ j % (2 * p) = (j % p) + p * BitOf(j, p)
    BY <1>1, <2>1, BitSplit
  <2>3. i % (2 * p) = j % (2 * p)
    BY <1>3, <2>1, <2>2
  <2>. QED
    BY <2>1, <2>3
<1>4. FFT_SIZE \in T
  <2>. HIDE DEF T
  <2>. QED
    BY <1>2, <1>3, PowersInduct, PowersAre
<1>5. i % FFT_SIZE = i /\ j % FFT_SIZE = j
  <2>1. \A k \in Positions : (FFT_SIZE * 0 + k) % FFT_SIZE = k /\ FFT_SIZE * 0 + k = k
    BY SizeType, Remainder DEF Positions
  <2>. QED
    BY <2>1
<1>. QED
  BY <1>4, <1>5

\* Twice a weight is still a power.
LEMMA BaseIs ==
  ASSUME NEW p \in Bases
  PROVE  /\ p \in Powers /\ p \in Nat \ {0} /\ 2 * p \in Powers /\ p < FFT_SIZE
         /\ 2 * p <= FFT_SIZE
<1>1. p \in Powers /\ p # FFT_SIZE
  BY DEF Bases
<1>. QED
  BY <1>1, PowersAre, PowerDivides, SizeType

\* Adding 1 turns over the bits up to the first that is clear.
LEMMA Increment ==
  ASSUME NEW u \in Int, NEW p \in Nat \ {0}
  PROVE  BitOf(u + 1, p) = IF u % p = p - 1 THEN 1 - BitOf(u, p) ELSE BitOf(u, p)
<1>1. PICK c \in Int, b \in {0, 1}, r \in 0 .. p - 1 :
        u = 2 * p * c + r + p * b /\ BitOf(u, p) = b /\ u % p = r
  BY BitSplit
<1>2. CASE r = p - 1
  <2>1. CASE b = 0
    <3>1. u + 1 = 2 * p * c + 0 + p * 1 /\ 0 \in 0 .. p - 1
      BY <1>1, <1>2, <2>1
    <3>2. BitOf(2 * p * c + 0 + p * 1, p) = 1
      BY <3>1, BitIs
    <3>. QED
      BY <1>1, <1>2, <2>1, <3>1, <3>2
  <2>2. CASE b = 1
    <3>1. u + 1 = 2 * p * (c + 1) + 0 + p * 0 /\ 0 \in 0 .. p - 1 /\ c + 1 \in Int
      BY <1>1, <1>2, <2>2
    <3>2. BitOf(2 * p * (c + 1) + 0 + p * 0, p) = 0
      BY <3>1, BitIs
    <3>. QED
      BY <1>1, <1>2, <2>2, <3>1, <3>2
  <2>. QED
    BY <1>1, <2>1, <2>2
<1>3. CASE r # p - 1
  <2>1. u + 1 = 2 * p * c + (r + 1) + p * b /\ r + 1 \in 0 .. p - 1
    BY <1>1, <1>3
  <2>2. BitOf(2 * p * c + (r + 1) + p * b, p) = b
    BY <2>1, BitIs
  <2>. QED
    BY <1>1, <1>3, <2>1, <2>2
<1>. QED
  BY <1>2, <1>3

\* The remainder is the largest if every bit below is set.
LEMMA OnesBelow ==
  ASSUME NEW u \in Int, NEW p \in Powers
  PROVE  u % p = p - 1 <=> \A q \in Bases : q < p => BitOf(u, q) = 1
<1>. DEFINE T == {n \in Nat : u % n = n - 1
                                <=> \A q \in Bases : q < n => BitOf(u, q) = 1}
<1>1. 1 \in T
  <2>1. \A q \in Bases : ~(q < 1)
    BY BaseIs
  <2>2. u % 1 = 0
    OBVIOUS
  <2>. QED
    BY <2>1, <2>2
<1>2. ASSUME NEW n \in Powers, n \in T, 2 * n \in Powers
      PROVE  2 * n \in T
  <2>1. n \in Bases /\ n \in Nat \ {0}
    BY <1>2, PowersAre, SizeType DEF Bases
  <2>2. \A q \in Bases : q < 2 * n <=> q < n \/ q = n
    <3>. TAKE q \in Bases
    <3>1. q \in Powers /\ q \in Nat \ {0}
      BY BaseIs
    <3>2. ASSUME n < q
          PROVE  2 * n <= q
      <4>1. PICK k \in Nat \ {0} : q = 2 * n * k
        BY <1>2, <3>1, <3>2, PowersApart
      <4>2. 2 * n * k >= 2 * n
        BY <2>1
      <4>. QED
        BY <4>1, <4>2
    <3>. QED
      BY <2>1, <3>1, <3>2
  <2>3. /\ BitOf(u, n) \in {0, 1} /\ u % n \in 0 .. n - 1
        /\ u % (2 * n) = (u % n) + n * BitOf(u, n)
    BY <2>1, BitSplit
  <2>4. u % (2 * n) = 2 * n - 1 <=> u % n = n - 1 /\ BitOf(u, n) = 1
    <3>1. CASE BitOf(u, n) = 0
      BY <2>1, <2>3, <3>1
    <3>2. CASE BitOf(u, n) = 1
      BY <2>1, <2>3, <3>2
    <3>. QED
      BY <2>3, <3>1, <3>2
  <2>5. (\A q \in Bases : q < 2 * n => BitOf(u, q) = 1)
          <=> (\A q \in Bases : q < n => BitOf(u, q) = 1) /\ BitOf(u, n) = 1
    <3>1. n < 2 * n
      BY <2>1
    <3>. QED
      BY <2>1, <2>2
  <2>6. u % n = n - 1 <=> \A q \in Bases : q < n => BitOf(u, q) = 1
    BY <1>2
  <2>7. 2 * n \in Nat
    BY <2>1
  <2>. QED
    BY <2>4, <2>5, <2>6, <2>7
<1>3. p \in T
  <2>. HIDE DEF T
  <2>. QED
    BY <1>1, <1>2, PowersInduct
<1>. QED
  BY <1>3

\* An index all of whose bits from s on are set is among the last s.
LEMMA OnesAbove ==
  ASSUME NEW j \in Positions, NEW s \in Powers,
         \A q \in Bases : q >= s => BitOf(j, q) = 1
  PROVE  j >= FFT_SIZE - s
<1>. DEFINE Above(n) == j >= FFT_SIZE - n
            T == {n \in Nat : \A r \in Powers : r * n = FFT_SIZE /\ r >= s
                                => j >= FFT_SIZE - r}
<1>1. /\ j \in Int /\ j >= 0 /\ j < FFT_SIZE /\ FFT_SIZE \in Nat \ {0}
      /\ s \in Nat \ {0}
  BY SizeType, PowersAre DEF Positions
<1>2. 1 \in T
  <2>1. \A r \in Powers : r * 1 = FFT_SIZE => j >= FFT_SIZE - r
    BY <1>1, PowersAre
  <2>. QED
    BY <2>1
<1>3. ASSUME NEW n \in Powers, n \in T, 2 * n \in Powers
      PROVE  2 * n \in T
  <2>. SUFFICES ASSUME NEW r \in Powers, r * (2 * n) = FFT_SIZE, r >= s
                PROVE  j >= FFT_SIZE - r
    BY <1>3, PowersAre, SizeType
  <2>1. n \in Nat \ {0} /\ r \in Nat \ {0}
    BY <1>3, PowersAre, SizeType
  <2>2. r # FFT_SIZE
    <3>1. r * (2 * n) = 2 * (r * n) /\ r * n >= r
      BY <2>1
    <3>. QED
      BY <2>1, <3>1
  <2>3. r \in Bases /\ 2 * r \in Powers
    BY <2>2, BaseIs DEF Bases
  <2>4. (2 * r) * n = FFT_SIZE
    BY <2>1
  <2>5. j >= FFT_SIZE - 2 * r
    BY <1>1, <1>3, <2>1, <2>3, <2>4
  <2>6. j = (2 * r) * (n - 1) + (j - (FFT_SIZE - 2 * r))
        /\ j - (FFT_SIZE - 2 * r) \in 0 .. 2 * r - 1 /\ 2 * r \in Nat \ {0} /\ n - 1 \in Int
    BY <1>1, <2>1, <2>4, <2>5
  <2>7. j % (2 * r) = j - (FFT_SIZE - 2 * r)
    <3>. DEFINE v == j - (FFT_SIZE - 2 * r)
    <3>. HIDE DEF v
    <3>1. ((2 * r) * (n - 1) + v) % (2 * r) = v
      BY <2>6, Remainder DEF v
    <3>. QED
      BY <2>6, <3>1 DEF v
  <2>8. /\ j % r \in 0 .. r - 1 /\ BitOf(j, r) = 1
        /\ j % (2 * r) = (j % r) + r * BitOf(j, r)
    BY <1>1, <2>1, <2>3, BitSplit
  <2>. QED
    BY <1>1, <2>1, <2>7, <2>8
<1>4. FFT_SIZE \div s \in T /\ s * (FFT_SIZE \div s) = FFT_SIZE
  <2>. HIDE DEF T
  <2>1. FFT_SIZE \div s \in Powers /\ s * (FFT_SIZE \div s) = FFT_SIZE
    BY PowerDivides
  <2>. QED
    BY <1>2, <1>3, <2>1, PowersInduct
<1>. QED
  BY <1>1, <1>4

\* Counting up from the highest bit turns over the bits down to the first that
\* is clear.
LEMMA ReverseIncrementIs ==
  ASSUME NEW j \in Positions, j # FFT_SIZE - 1
  PROVE  /\ ReverseIncrement(j) \in Positions
         /\ \A p \in Bases : BitOf(ReverseIncrement(j), p)
              = IF \A q \in Bases : q > p => BitOf(j, q) = 1
                THEN 1 - BitOf(j, p) ELSE BitOf(j, p)
<1>. DEFINE S == {q \in Bases : BitOf(j, q) = 0}
            b == Max(S)
            e == ReverseIncrement(j)
<1>1. /\ j \in Int /\ 0 <= j /\ j < FFT_SIZE /\ FFT_SIZE \in Nat \ {0}
      /\ \A q \in Bases : BitOf(j, q) \in {0, 1}
  <2>1. j \in Int /\ 0 <= j /\ j < FFT_SIZE /\ FFT_SIZE \in Nat \ {0}
    BY SizeType DEF Positions
  <2>. QED
    BY <2>1, BaseIs, BitSplit
<1>2. e = j + 3 * b - FFT_SIZE
  BY DEF ReverseIncrement, BitOf, Bases
<1>3. S # {}
  <2>1. SUFFICES ASSUME S = {}
                 PROVE  FALSE
    OBVIOUS
  <2>2. \A q \in Bases : BitOf(j, q) = 1
    BY <1>1, <2>1
  <2>3. j >= FFT_SIZE - 1
    BY <2>2, PowersAre, OnesAbove
  <2>. QED
    BY <1>1, <2>3
<1>4. S \in SUBSET Int /\ IsFiniteSet(S)
  <2>1. S \subseteq 1 .. FFT_SIZE
    BY PowersAre DEF Bases
  <2>2. IsFiniteSet(1 .. FFT_SIZE)
    BY <1>1, FS_Interval
  <2>3. IsFiniteSet(S)
    BY <2>1, <2>2, FS_Subset
  <2>. QED
    BY <2>1, <2>3
<1>5. b \in S /\ \A q \in S : q <= b
  <2>. HIDE DEF S
  <2>. QED
    BY <1>3, <1>4, MaxIs
<1>6. /\ b \in Bases /\ BitOf(j, b) = 0
      /\ \A q \in Bases : q > b => BitOf(j, q) = 1
  <2>1. \A q \in Bases : q \in Int
    BY BaseIs
  <2>2. b \in Int
    BY <1>5, <2>1
  <2>3. \A q \in Bases : q > b => q \notin S
    BY <1>5, <2>1, <2>2
  <2>. QED
    BY <1>1, <1>5, <2>3
<1>. HIDE DEF S, b
<1>7. /\ b \in Powers /\ b \in Nat \ {0} /\ 2 * b \in Powers /\ 2 * b <= FFT_SIZE
  BY <1>6, BaseIs
<1>8. j >= FFT_SIZE - 2 * b
  <2>1. \A q \in Bases : q >= 2 * b => BitOf(j, q) = 1
    <3>. TAKE q \in Bases
    <3>1. q \in Nat /\ (q >= 2 * b => q > b)
      BY <1>7, BaseIs
    <3>. QED
      BY <1>6, <3>1
  <2>. QED
    BY <1>7, <2>1, OnesAbove
<1>9. PICK m \in Nat \ {0} : FFT_SIZE = 2 * b * m
  <2>. DEFINE n == FFT_SIZE \div (2 * b)
  <2>1. n \in Powers /\ (2 * b) * n = FFT_SIZE
    BY <1>7, PowerDivides
  <2>. HIDE DEF n
  <2>2. n \in Nat \ {0}
    BY <2>1, PowersAre, SizeType
  <2>. QED
    BY <1>7, <2>1, <2>2
<1>10. PICK r \in 0 .. b - 1 : e = b + r /\ j = 2 * b * (m - 1) + r
  <2>. DEFINE v == j - (FFT_SIZE - 2 * b)
  <2>1. v \in 0 .. 2 * b - 1 /\ j = 2 * b * (m - 1) + v /\ e = v + b
    BY <1>1, <1>2, <1>7, <1>8, <1>9
  <2>. HIDE DEF v
  <2>2. v < b
    <3>1. ASSUME v >= b
          PROVE  FALSE
      <4>1. v - b \in 0 .. b - 1 /\ m - 1 \in Int /\ 1 \in {0, 1}
            /\ j = 2 * b * (m - 1) + (v - b) + b * 1
        BY <1>7, <1>9, <2>1, <3>1
      <4>2. BitOf(2 * b * (m - 1) + (v - b) + b * 1, b) = 1
        BY <1>7, <4>1, BitIs
      <4>. QED
        BY <1>6, <4>1, <4>2
    <3>. QED
      BY <1>7, <2>1, <3>1
  <2>. QED
    BY <1>7, <2>1, <2>2
<1>. HIDE DEF e
<1>11. e \in Positions
  BY <1>1, <1>7, <1>10 DEF Positions
<1>12. ASSUME NEW p \in Bases
       PROVE  BitOf(e, p) = IF \A q \in Bases : q > p => BitOf(j, q) = 1
                            THEN 1 - BitOf(j, p) ELSE BitOf(j, p)
  <2>1. p \in Powers /\ p \in Nat \ {0} /\ e \in Int
    BY <1>7, <1>10, BaseIs
  <2>2. CASE p > b
    <3>1. \A q \in Bases : q > p => BitOf(j, q) = 1
      <4>. TAKE q \in Bases
      <4>1. q \in Nat /\ (q > p => q > b)
        BY <1>7, <2>1, <2>2, BaseIs
      <4>. QED
        BY <1>6, <4>1
    <3>2. BitOf(j, p) = 1
      BY <1>6, <2>2
    <3>3. BitOf(e, p) = 0
      <4>1. PICK k \in Nat \ {0} : p = 2 * b * k
        BY <1>7, <2>1, <2>2, PowersApart
      <4>2. 2 * b * k >= 2 * b
        BY <1>7
      <4>3. e \in 0 .. p - 1
        BY <1>7, <1>10, <4>1, <4>2
      <4>4. BitOf(2 * p * 0 + e + p * 0, p) = 0
        BY <2>1, <4>3, BitIs
      <4>5. 2 * p * 0 + e + p * 0 = e
        BY <2>1
      <4>. QED
        BY <4>4, <4>5
    <3>. QED
      BY <3>1, <3>2, <3>3
  <2>3. CASE p = b
    <3>1. \A q \in Bases : q > p => BitOf(j, q) = 1
      BY <1>6, <2>3
    <3>2. BitOf(e, p) = 1
      <4>1. (b * 1 + r) \div b = 1
        BY <1>7, Remainder
      <4>2. e = b * 1 + r
        BY <1>7, <1>10
      <4>3. 1 % 2 = 1
        OBVIOUS
      <4>. QED
        BY <2>3, <4>1, <4>2, <4>3 DEF BitOf
    <3>. QED
      BY <1>6, <2>3, <3>1, <3>2
  <2>4. CASE p < b
    <3>1. ~\A q \in Bases : q > p => BitOf(j, q) = 1
      <4>1. b > p /\ BitOf(j, b) # 1
        BY <1>6, <1>7, <2>1, <2>4
      <4>. QED
        BY <1>6, <4>1
    <3>2. PICK k \in Nat \ {0} : b = 2 * p * k
      BY <1>7, <2>1, <2>4, PowersApart
    <3>3. e = j + (2 * p) * (k * (3 - 2 * m)) /\ k * (3 - 2 * m) \in Int
      <4>1. e = j + b * (3 - 2 * m)
        BY <1>7, <1>9, <1>10
      <4>2. (2 * p * k) * (3 - 2 * m) = (2 * p) * (k * (3 - 2 * m))
        BY <2>1, <1>9
      <4>. QED
        BY <1>9, <3>2, <4>1, <4>2
    <3>4. e % (2 * p) = j % (2 * p)
      <4>1. 2 * p \in Nat \ {0}
        BY <2>1
      <4>. QED
        BY <1>1, <2>1, <3>3, <4>1, SameRemainder
    <3>5. BitOf(e, p) = BitOf(j, p)
      BY <1>1, <2>1, <3>4, SameBit
    <3>. QED
      BY <3>1, <3>5
  <2>. QED
    BY <1>7, <2>1, <2>2, <2>3, <2>4
<1>. QED
  BY <1>11, <1>12 DEF e

\* Setting a bit leaves the others.
LEMMA SetBit ==
  ASSUME NEW x \in Positions, NEW p \in Bases, BitOf(x, p) = 0
  PROVE  /\ x + p \in Positions
         /\ \A q \in Bases : BitOf(x + p, q) = IF q = p THEN 1 ELSE BitOf(x, q)
<1>1. /\ p \in Powers /\ p \in Nat \ {0} /\ 2 * p \in Powers /\ 2 * p \in Nat \ {0}
      /\ x \in Int /\ x >= 0 /\ x < FFT_SIZE /\ FFT_SIZE \in Nat \ {0}
  BY BaseIs, SizeType DEF Positions
<1>2. PICK c \in Int, r \in 0 .. p - 1 : x = 2 * p * c + r
  <2>1. /\ x \div (2 * p) \in Int /\ x % p \in 0 .. p - 1
        /\ x = 2 * p * (x \div (2 * p)) + (x % p) + p * 0
    BY <1>1, BitSplit
  <2>2. x = 2 * p * (x \div (2 * p)) + (x % p)
    <3>. DEFINE c == x \div (2 * p)
                r == x % p
    <3>. HIDE DEF c, r
    <3>1. c \in Int /\ r \in Int /\ x = 2 * p * c + r + p * 0
      BY <1>1, <2>1 DEF c, r
    <3>2. x = 2 * p * c + r
      BY <1>1, <3>1
    <3>. QED
      BY <3>2 DEF c, r
  <2>. QED
    BY <2>1, <2>2
<1>3. PICK m \in Nat \ {0} : FFT_SIZE = 2 * p * m
  <2>. DEFINE n == FFT_SIZE \div (2 * p)
  <2>1. n \in Powers /\ (2 * p) * n = FFT_SIZE
    BY <1>1, PowerDivides
  <2>. HIDE DEF n
  <2>2. n \in Nat \ {0}
    BY <2>1, PowersAre, SizeType
  <2>. QED
    BY <1>1, <2>1, <2>2
<1>4. x + p \in Positions
  <2>1. c < m
    <3>1. ASSUME c >= m
          PROVE  FALSE
      <4>1. 2 * p * c >= 2 * p * m
        BY <1>1, <3>1
      <4>. QED
        BY <1>1, <1>2, <1>3, <4>1
    <3>. QED
      BY <3>1
  <2>2. 2 * p * c <= 2 * p * (m - 1)
    BY <1>1, <2>1
  <2>3. 2 * p * (m - 1) = FFT_SIZE - 2 * p
    BY <1>1, <1>3
  <2>. QED
    BY <1>1, <1>2, <2>2, <2>3 DEF Positions
<1>5. ASSUME NEW q \in Bases
      PROVE  BitOf(x + p, q) = IF q = p THEN 1 ELSE BitOf(x, q)
  <2>1. q \in Powers /\ q \in Nat \ {0} /\ x + p \in Int
    BY <1>1, BaseIs
  <2>2. CASE q = p
    <3>. DEFINE u == 2 * c + 1
    <3>1. u \in Int /\ u % 2 = 1 /\ x + p = p * u + r
      BY <1>1, <1>2
    <3>. HIDE DEF u
    <3>2. (p * u + r) \div p = u
      BY <1>1, <1>2, <3>1, Remainder
    <3>3. BitOf(x + p, p) = 1
      BY <3>1, <3>2 DEF BitOf
    <3>. QED
      BY <2>2, <3>3
  <2>3. CASE q < p
    <3>1. PICK k \in Nat \ {0} : p = 2 * q * k
      BY <1>1, <2>1, <2>3, PowersApart
    <3>2. x + p = x + (2 * q) * k /\ 2 * q \in Nat \ {0}
      BY <1>1, <2>1, <3>1
    <3>3. (x + p) % (2 * q) = x % (2 * q)
      <4>. DEFINE v == x + p
      <4>. HIDE DEF v
      <4>1. v \in Int /\ v = x + (2 * q) * k /\ k \in Int
        BY <2>1, <3>2 DEF v
      <4>2. v % (2 * q) = x % (2 * q)
        BY <1>1, <3>2, <4>1, SameRemainder
      <4>. QED
        BY <4>2 DEF v
    <3>4. BitOf(x + p, q) = BitOf(x, q)
      BY <1>1, <2>1, <3>3, SameBit
    <3>. QED
      BY <1>1, <2>1, <2>3, <3>4
  <2>4. CASE q > p
    <3>1. PICK k \in Nat \ {0} : q = 2 * p * k
      BY <1>1, <2>1, <2>4, PowersApart
    <3>4. x \div (2 * p) = c /\ (x + p) \div (2 * p) = c
      <4>. DEFINE w == 2 * p
                  s == r + p
                  y == x + p
      <4>1. /\ w \in Nat \ {0} /\ r \in 0 .. w - 1 /\ s \in 0 .. w - 1
            /\ x = w * c + r /\ y = w * c + s
        BY <1>1, <1>2
      <4>. HIDE DEF w, s, y
      <4>2. (w * c + r) \div w = c
        BY <4>1, Remainder
      <4>3. (w * c + s) \div w = c
        BY <4>1, Remainder
      <4>4. x \div w = c /\ y \div w = c
        BY <4>1, <4>2, <4>3
      <4>. QED
        BY <4>4 DEF w, y
    <3>5. x \div ((2 * p) * k) = (x \div (2 * p)) \div k
      BY <1>1, DivisionTwice
    <3>6. (x + p) \div ((2 * p) * k) = ((x + p) \div (2 * p)) \div k
      BY <1>1, <2>1, DivisionTwice
    <3>7. (2 * p) * k = q
      BY <1>1, <3>1
    <3>8. BitOf(x + p, q) = BitOf(x, q)
      BY <3>4, <3>5, <3>6, <3>7 DEF BitOf
    <3>. QED
      BY <1>1, <2>1, <2>4, <3>8
  <2>. QED
    BY <1>1, <2>1, <2>2, <2>3, <2>4
<1>. QED
  BY <1>4, <1>5

\* The bit in the opposite place.
Mirror(p) == FFT_SIZE \div (2 * p)

\* The bits of j are those of i in the opposite order.
Reverses(i, j) == \A p \in Bases : BitOf(i, p) = BitOf(j, Mirror(p))

\* The opposite of the opposite place is the place itself.
LEMMA MirrorIs ==
  ASSUME NEW p \in Bases
  PROVE  /\ Mirror(p) \in Bases /\ 2 * p * Mirror(p) = FFT_SIZE
         /\ Mirror(Mirror(p)) = p
<1>. DEFINE m == Mirror(p)
<1>1. /\ p \in Nat \ {0} /\ 2 * p \in Powers /\ FFT_SIZE \in Nat \ {0}
  BY BaseIs, SizeType
<1>2. m \in Powers /\ (2 * p) * m = FFT_SIZE
  BY <1>1, PowerDivides DEF Mirror
<1>. HIDE DEF m
<1>3. m \in Nat \ {0}
  BY <1>2, PowersAre, SizeType
<1>4. m # FFT_SIZE
  <2>. DEFINE v == p * m
  <2>1. (2 * p) * m = v + v /\ v >= m /\ v \in Int
    BY <1>1, <1>3
  <2>. HIDE DEF v
  <2>. QED
    BY <1>2, <1>3, <2>1
<1>5. m \in Bases
  BY <1>2, <1>4 DEF Bases
<1>6. FFT_SIZE \div (2 * m) = p
  <2>. DEFINE w == 2 * m
  <2>1. w \in Nat \ {0} /\ FFT_SIZE = w * p + 0 /\ 0 \in 0 .. w - 1 /\ p \in Int
    BY <1>1, <1>2, <1>3
  <2>. HIDE DEF w
  <2>2. (w * p + 0) \div w = p
    BY <2>1, Remainder
  <2>. QED
    BY <2>1, <2>2 DEF w
<1>7. Mirror(m) = p
  BY <1>6 DEF Mirror
<1>. QED
  BY <1>1, <1>2, <1>3, <1>5, <1>7 DEF m

\* The opposite order.
LEMMA MirrorTurns ==
  ASSUME NEW p \in Bases, NEW q \in Bases
  PROVE  q < p <=> Mirror(q) > Mirror(p)
<1>1. /\ p \in Nat \ {0} /\ q \in Nat \ {0}
      /\ Mirror(p) \in Nat \ {0} /\ Mirror(q) \in Nat \ {0}
      /\ 2 * p * Mirror(p) = FFT_SIZE /\ 2 * q * Mirror(q) = FFT_SIZE
  BY MirrorIs, BaseIs
<1>. DEFINE m == Mirror(p)
            n == Mirror(q)
<1>2. p * m = q * n /\ m \in Nat \ {0} /\ n \in Nat \ {0}
  <2>1. \A a, b, c, d \in Nat : 2 * a * b = 2 * c * d => a * b = c * d
    OBVIOUS
  <2>. QED
    BY <1>1, <2>1
<1>. HIDE DEF m, n
<1>3. ASSUME q < p, n <= m
      PROVE  FALSE
  <2>1. q * n <= q * m /\ q * m < p * m
    BY <1>1, <1>2, <1>3
  <2>2. q * n \in Int /\ q * m \in Int /\ p * m \in Int
    BY <1>1, <1>2
  <2>. QED
    BY <1>2, <2>1, <2>2
<1>4. ASSUME p <= q, n > m
      PROVE  FALSE
  <2>1. p * m < p * n /\ p * n <= q * n
    BY <1>1, <1>2, <1>4
  <2>2. p * m \in Int /\ p * n \in Int /\ q * n \in Int
    BY <1>1, <1>2
  <2>. QED
    BY <1>2, <2>1, <2>2
<1>5. q < p <=> n > m
  BY <1>1, <1>2, <1>3, <1>4
<1>. QED
  BY <1>5 DEF m, n

\* Turned twice, the order is the first.
LEMMA ReversesBack ==
  ASSUME NEW i, NEW j, Reverses(i, j)
  PROVE  Reverses(j, i)
<1>1. \A p \in Bases : BitOf(i, Mirror(p)) = BitOf(j, Mirror(Mirror(p)))
  BY MirrorIs DEF Reverses
<1>2. \A p \in Bases : Mirror(Mirror(p)) = p
  BY MirrorIs
<1>. QED
  BY <1>1, <1>2 DEF Reverses

\* An index has one reversal at most.
LEMMA ReversesOnce ==
  ASSUME NEW i, NEW j \in Positions, NEW k \in Positions, Reverses(i, j), Reverses(i, k)
  PROVE  j = k
<1>1. Reverses(j, i) /\ Reverses(k, i)
  BY ReversesBack
<1>2. \A p \in Bases : BitOf(j, p) = BitOf(k, p)
  BY <1>1 DEF Reverses
<1>. QED
  BY <1>2, BitsDetermine

\* No bit stays no bit.
LEMMA ReversesZero == Reverses(0, 0)
<1>1. ASSUME NEW p \in Bases
      PROVE  BitOf(0, p) = 0
  <2>1. p \in Nat \ {0} /\ 0 \in 0 .. p - 1 /\ 0 \in Int /\ 0 \in {0, 1}
    BY BaseIs
  <2>2. 0 \div p = 0
    BY <2>1
  <2>. QED
    BY <2>2 DEF BitOf
<1>. QED
  BY <1>1, MirrorIs DEF Reverses

\* Both count on together.
LEMMA ReversesNext ==
  ASSUME NEW i \in Positions, NEW j \in Positions, i < FFT_SIZE - 1, Reverses(i, j)
  PROVE  ReverseIncrement(j) \in Positions /\ Reverses(i + 1, ReverseIncrement(j))
<1>. DEFINE e == ReverseIncrement(j)
<1>1. i \in Int /\ j \in Int /\ FFT_SIZE \in Nat \ {0} /\ i >= 0
  BY SizeType DEF Positions
<1>2. ASSUME NEW p \in Bases
      PROVE  /\ i % p = p - 1 <=> \A q \in Bases : q > Mirror(p) => BitOf(j, q) = 1
             /\ BitOf(i, p) = BitOf(j, Mirror(p))
  <2>1. i % p = p - 1 <=> \A q \in Bases : q < p => BitOf(i, q) = 1
    BY <1>1, BaseIs, OnesBelow
  <2>2. ASSUME \A q \in Bases : q < p => BitOf(i, q) = 1,
               NEW q \in Bases, q > Mirror(p)
        PROVE  BitOf(j, q) = 1
    <3>1. Mirror(q) \in Bases /\ Mirror(Mirror(q)) = q
      BY MirrorIs
    <3>2. Mirror(q) < p
      BY <2>2, <3>1, MirrorTurns
    <3>. QED
      BY <2>2, <3>1, <3>2 DEF Reverses
  <2>3. ASSUME \A q \in Bases : q > Mirror(p) => BitOf(j, q) = 1,
               NEW q \in Bases, q < p
        PROVE  BitOf(i, q) = 1
    <3>1. Mirror(q) \in Bases /\ Mirror(q) > Mirror(p)
      BY <2>3, MirrorIs, MirrorTurns
    <3>. QED
      BY <2>3, <3>1 DEF Reverses
  <2>. QED
    BY <2>1, <2>2, <2>3 DEF Reverses
<1>3. j # FFT_SIZE - 1
  <2>1. SUFFICES ASSUME j = FFT_SIZE - 1
                 PROVE  FALSE
    OBVIOUS
  <2>2. \A k \in Positions : k % FFT_SIZE = k
    <3>1. \A k \in Positions : (FFT_SIZE * 0 + k) % FFT_SIZE = k /\ FFT_SIZE * 0 + k = k
      BY SizeType, Remainder DEF Positions
    <3>. QED
      BY <3>1
  <2>3. \A q \in Bases : BitOf(j, q) = 1
    <3>1. \A q \in Bases : q < FFT_SIZE
      BY BaseIs
    <3>2. j % FFT_SIZE = FFT_SIZE - 1
      BY <2>1, <2>2
    <3>. QED
      BY <1>1, <3>1, <3>2, PowersAre, OnesBelow
  <2>4. \A q \in Bases : BitOf(i, q) = 1
    BY <2>3, MirrorIs DEF Reverses
  <2>5. i % FFT_SIZE = FFT_SIZE - 1
    BY <1>1, <2>4, PowersAre, OnesBelow
  <2>. QED
    BY <1>1, <2>2, <2>5
<1>4. /\ e \in Positions
      /\ \A p \in Bases : BitOf(e, p) = IF \A q \in Bases : q > p => BitOf(j, q) = 1
                                        THEN 1 - BitOf(j, p) ELSE BitOf(j, p)
  BY <1>3, ReverseIncrementIs
<1>. HIDE DEF e
<1>5. ASSUME NEW p \in Bases
      PROVE  BitOf(i + 1, p) = BitOf(e, Mirror(p))
  <2>1. p \in Nat \ {0} /\ Mirror(p) \in Bases
    BY BaseIs, MirrorIs
  <2>2. BitOf(i + 1, p) = IF i % p = p - 1 THEN 1 - BitOf(i, p) ELSE BitOf(i, p)
    BY <1>1, <2>1, Increment
  <2>3. BitOf(e, Mirror(p))
          = IF \A q \in Bases : q > Mirror(p) => BitOf(j, q) = 1
            THEN 1 - BitOf(j, Mirror(p)) ELSE BitOf(j, Mirror(p))
    BY <1>4, <2>1
  <2>. QED
    BY <1>2, <2>2, <2>3
<1>. QED
  BY <1>4, <1>5 DEF Reverses, e

\* The index with the bits of i reversed.
Reversal(i) == CHOOSE j \in Positions : Reverses(i, j)

\* Each index has one, since the count from the other end never fails.
LEMMA ReversalIs ==
  ASSUME NEW i \in Positions
  PROVE  Reversal(i) \in Positions /\ Reverses(i, Reversal(i))
<1>. DEFINE T == {n \in Nat : \E j \in Positions : Reverses(n, j)}
<1>1. 0 \in T
  BY ReversesZero, SizeType
<1>2. ASSUME NEW n \in Nat, n < FFT_SIZE - 1, n \in T
      PROVE  n + 1 \in T
  <2>1. PICK j \in Positions : Reverses(n, j)
    BY <1>2
  <2>2. n \in Positions
    BY <1>2, SizeType DEF Positions
  <2>3. ReverseIncrement(j) \in Positions /\ Reverses(n + 1, ReverseIncrement(j))
    BY <1>2, <2>1, <2>2, ReversesNext
  <2>. QED
    BY <2>3
<1>3. i \in T
  <2>1. FFT_SIZE - 1 \in Nat
    BY SizeType
  <2>2. \A n \in 0 .. FFT_SIZE - 1 : n \in T
    <3>. HIDE DEF T
    <3>. QED
      BY <1>1, <1>2, <2>1, InductTo
  <2>. QED
    BY <2>2 DEF Positions
<1>4. \E j \in Positions : Reverses(i, j)
  BY <1>3
<1>. QED
  BY <1>4 DEF Reversal

\* Twice is nothing, and it is counted as bit_reverse does.
LEMMA ReversalTwice ==
  ASSUME NEW i \in Positions
  PROVE  Reversal(Reversal(i)) = i
BY ReversalIs, ReversesBack, ReversesOnce

\* The loop's j is the reversal of its i.
LEMMA ReversalCounts ==
  /\ Reversal(0) = 0
  /\ \A i \in Positions \ {0} : Reversal(i) = ReverseIncrement(Reversal(i - 1))
<1>1. Reversal(0) = 0
  BY ReversalIs, ReversesZero, ReversesOnce, SizeType
<1>2. ASSUME NEW i \in Positions \ {0}
      PROVE  Reversal(i) = ReverseIncrement(Reversal(i - 1))
  <2>. DEFINE n == i - 1
              j == Reversal(n)
              e == ReverseIncrement(j)
  <2>1. n \in Positions /\ n < FFT_SIZE - 1 /\ n + 1 = i
    BY SizeType DEF Positions
  <2>2. j \in Positions /\ Reverses(n, j)
    BY <2>1, ReversalIs
  <2>3. e \in Positions /\ Reverses(n + 1, e)
    <3>. HIDE DEF n, j
    <3>. QED
      BY <2>1, <2>2, ReversesNext
  <2>4. Reverses(i, e) /\ Reversal(i) \in Positions /\ Reverses(i, Reversal(i))
    BY <2>1, <2>3, ReversalIs
  <2>. QED
    BY <2>3, <2>4, ReversesOnce
<1>. QED
  BY <1>1, <1>2

\* The second half of a group takes the numbers between those of the first.
LEMMA ReversalHalf ==
  ASSUME NEW H \in Bases, NEW b \in Positions, b % (2 * H) = 0
  PROVE  b + H \in Positions /\ Reversal(b + H) = Reversal(b) + FFT_SIZE \div (2 * H)
<1>. DEFINE Q == Mirror(H)
            j == Reversal(b)
<1>1. /\ H \in Nat \ {0} /\ b \in Int /\ Q \in Bases /\ Mirror(Q) = H
      /\ j \in Positions /\ Reverses(b, j)
  BY BaseIs, MirrorIs, ReversalIs, SizeType DEF Positions
<1>2. BitOf(b, H) = 0
  <2>1. /\ BitOf(b, H) \in {0, 1} /\ b % H \in 0 .. H - 1
        /\ b % (2 * H) = (b % H) + H * BitOf(b, H)
    BY <1>1, BitSplit
  <2>2. CASE BitOf(b, H) = 1
    BY <1>1, <2>1, <2>2
  <2>. QED
    BY <2>1, <2>2
<1>3. BitOf(j, Q) = 0
  BY <1>1, <1>2 DEF Reverses
<1>. HIDE DEF Q, j
<1>4. /\ b + H \in Positions
      /\ \A q \in Bases : BitOf(b + H, q) = IF q = H THEN 1 ELSE BitOf(b, q)
  BY <1>2, SetBit
<1>5. /\ j + Q \in Positions
      /\ \A q \in Bases : BitOf(j + Q, q) = IF q = Q THEN 1 ELSE BitOf(j, q)
  BY <1>1, <1>3, SetBit
<1>6. ASSUME NEW p \in Bases
      PROVE  BitOf(b + H, p) = BitOf(j + Q, Mirror(p))
  <2>1. Mirror(p) \in Bases /\ Mirror(Mirror(p)) = p
    BY MirrorIs
  <2>2. p = H <=> Mirror(p) = Q
    BY <1>1, <2>1 DEF Q
  <2>3. BitOf(b, p) = BitOf(j, Mirror(p))
    BY <1>1 DEF Reverses
  <2>. QED
    BY <1>4, <1>5, <2>1, <2>2, <2>3
<1>7. Reverses(b + H, j + Q)
  BY <1>6 DEF Reverses
<1>8. Reversal(b + H) = j + Q
  BY <1>4, <1>5, <1>7, ReversalIs, ReversesOnce
<1>. QED
  BY <1>4, <1>8 DEF j, Q, Mirror

-----------------------------------------------------------------------------
(* The loops.                                                              *)

\* After i steps bit_reverse has put the right number in every place up to i and
\* in the places that those were exchanged with.
LEMMA BitReverseIs ==
  ASSUME NEW data \in Numbers
  PROVE  bit_reverse(data) = [p \in Positions |-> data[Reversal(p)]]
<1>. DEFINE R == [p \in Positions |-> Reversal(p)]
            P == Positions
            at(i) == [p \in P |-> IF p <= i \/ R[p] <= i THEN data[R[p]] ELSE data[p]]
            g == [i \in P |-> [j |-> R[i], data |-> at(i)]]
            Next1(before, i) ==
              LET j == ReverseIncrement(before.j)
              IN  [j |-> j, data |-> IF i < j THEN Swapped(before.data, i, j)
                                     ELSE before.data]
            Loop(f) == f = [i \in P |-> IF i = 0 THEN [j |-> 0, data |-> data]
                                        ELSE Next1(f[i - 1], i)]
            e == CHOOSE f : Loop(f)
            last == FFT_SIZE - 1
<1>1. bit_reverse(data) = e[last].data
  BY DEF bit_reverse
<1>2. /\ last \in Nat /\ P = 0 .. last /\ P \subseteq Nat
  BY SizeType DEF Positions
<1>3. /\ R \in [P -> P] /\ R[0] = 0
      /\ \A p \in P : R[R[p]] = p
      /\ \A i \in P \ {0} : R[i] = ReverseIncrement(R[i - 1])
  <2>1. \A p \in P : Reversal(p) \in P /\ Reversal(Reversal(p)) = p
    BY ReversalIs, ReversalTwice
  <2>2. \A i \in P \ {0} : i - 1 \in P
    BY <1>2
  <2>3. 0 \in P
    BY <1>2
  <2>. QED
    BY <2>1, <2>2, <2>3, ReversalCounts
<1>4. data \in [P -> Complex]
  BY DEF Numbers
<1>. HIDE DEF R, P, e, last
<1>5. at(0) = data
  <2>1. \A p \in P : R[p] <= 0 => p = 0
    BY <1>2, <1>3
  <2>2. \A p \in P : (IF p <= 0 \/ R[p] <= 0 THEN data[R[p]] ELSE data[p]) = data[p]
    BY <1>2, <1>3, <2>1
  <2>. QED
    BY <1>4, <2>2
<1>6. ASSUME NEW i \in P \ {0}
      PROVE  at(i) = IF i < R[i] THEN Swapped(at(i - 1), i, R[i]) ELSE at(i - 1)
  <2>1. i \in Nat /\ i >= 1 /\ R[i] \in P /\ R[i] \in Nat /\ R[R[i]] = i /\ i \in P
    BY <1>2, <1>3
  <2>2. CASE i < R[i]
    <3>. DEFINE d == at(i - 1)
                s == Swapped(d, i, R[i])
    <3>1. DOMAIN d = P /\ d[i] = data[i] /\ d[R[i]] = data[R[i]]
      <4>1. ~(i <= i - 1) /\ ~(R[i] <= i - 1) /\ ~(R[R[i]] <= i - 1)
        BY <2>1, <2>2
      <4>. QED
        BY <2>1, <4>1
    <3>2. ASSUME NEW p \in P
          PROVE  s[p] = IF p = i THEN d[R[i]] ELSE IF p = R[i] THEN d[i] ELSE d[p]
      BY <2>1, <2>2, <3>1 DEF Swapped
    <3>3. DOMAIN s = P /\ s = [p \in P |-> s[p]]
      <4>. HIDE DEF d
      <4>. QED
        BY <3>1 DEF Swapped
    <3>6. \A p \in P : d[p] = IF p <= i - 1 \/ R[p] <= i - 1 THEN data[R[p]] ELSE data[p]
      OBVIOUS
    <3>. HIDE DEF d, s
    <3>4. ASSUME NEW p \in P
          PROVE  s[p] = IF p <= i \/ R[p] <= i THEN data[R[p]] ELSE data[p]
      <4>1. p \in Nat /\ R[p] \in Nat /\ R[R[p]] = p
        BY <1>2, <1>3
      <4>2. CASE p = i
        <5>1. s[p] = d[R[i]] /\ p <= i
          BY <2>1, <3>2, <4>2
        <5>. QED
          BY <3>1, <4>2, <5>1
      <4>3. CASE p = R[i]
        BY <2>1, <2>2, <3>1, <3>2, <4>3
      <4>4. CASE p # i /\ p # R[i]
        <5>1. R[p] # i
          BY <4>1, <4>4
        <5>2. (p <= i \/ R[p] <= i) <=> (p <= i - 1 \/ R[p] <= i - 1)
          BY <2>1, <4>1, <4>4, <5>1
        <5>3. d[p] = IF p <= i - 1 \/ R[p] <= i - 1 THEN data[R[p]] ELSE data[p]
          BY <3>6
        <5>4. s[p] = d[p]
          BY <3>2, <4>4
        <5>. QED
          BY <5>2, <5>3, <5>4
      <4>. QED
        BY <4>2, <4>3, <4>4
    <3>5. at(i) = [p \in P |-> s[p]]
      BY <3>4
    <3>. QED
      BY <2>2, <3>3, <3>5 DEF s, d
  <2>3. CASE ~(i < R[i])
    <3>1. ASSUME NEW p \in P
          PROVE  (IF p <= i \/ R[p] <= i THEN data[R[p]] ELSE data[p])
                   = (IF p <= i - 1 \/ R[p] <= i - 1 THEN data[R[p]] ELSE data[p])
      <4>1. p \in Nat /\ R[p] \in Nat /\ R[R[p]] = p
        BY <1>2, <1>3
      <4>2. CASE p = i
        <5>1. R[p] <= i
          BY <2>1, <2>3, <4>2
        <5>2. CASE R[p] = i
          BY <2>1, <4>2, <5>2
        <5>3. CASE R[p] # i
          BY <2>1, <4>1, <4>2, <5>1, <5>3
        <5>. QED
          BY <5>2, <5>3
      <4>3. CASE p # i /\ R[p] = i
        <5>1. p = R[i]
          BY <4>1, <4>3
        <5>2. p <= i - 1
          BY <2>1, <2>3, <4>1, <4>3, <5>1
        <5>. QED
          BY <2>1, <4>1, <4>3, <5>2
      <4>4. CASE p # i /\ R[p] # i
        BY <2>1, <4>1, <4>4
      <4>. QED
        BY <4>2, <4>3, <4>4
    <3>. QED
      BY <2>3, <3>1
  <2>. QED
    BY <2>2, <2>3
<1>. HIDE DEF at
<1>7. ASSUME NEW i \in P \ {0}
      PROVE  Next1([j |-> R[i - 1], data |-> at(i - 1)], i) = [j |-> R[i], data |-> at(i)]
  BY <1>3, <1>6
<1>. HIDE DEF Next1
<1>8. Loop(g)
  <2>1. \A i \in P : g[i] = IF i = 0 THEN [j |-> 0, data |-> data] ELSE Next1(g[i - 1], i)
    <3>. TAKE i \in P
    <3>1. CASE i = 0
      BY <1>3, <1>5, <3>1
    <3>2. CASE i # 0
      <4>1. i - 1 \in P
        BY <1>2, <3>2
      <4>2. g[i - 1] = [j |-> R[i - 1], data |-> at(i - 1)]
        BY <4>1
      <4>. QED
        BY <1>7, <3>2, <4>2
    <3>. QED
      BY <3>1, <3>2
  <2>. DEFINE h == [i \in P |-> IF i = 0 THEN [j |-> 0, data |-> data]
                                ELSE Next1(g[i - 1], i)]
  <2>2. \A i \in P : g[i] = h[i]
    <3>. HIDE DEF g
    <3>. QED
      BY <2>1
  <2>3. g = [i \in P |-> g[i]] /\ h = [i \in P |-> h[i]]
    OBVIOUS
  <2>4. g = h
    <3>. HIDE DEF g, h
    <3>. QED
      BY <2>2, <2>3
  <2>. QED
    BY <2>4
<1>9. Loop(e)
  <2>1. \E f : Loop(f)
    <3>. HIDE DEF Loop
    <3>. QED
      BY <1>8
  <2>. HIDE DEF Loop
  <2>. QED
    BY <2>1 DEF e
<1>10. \A i \in 0 .. last : e[i] = g[i]
  <2>. DEFINE T == {i \in Nat : e[i] = g[i]}
  <2>1. 0 \in T
    BY <1>2, <1>3, <1>5, <1>9
  <2>2. ASSUME NEW i \in Nat, i < last, i \in T
        PROVE  i + 1 \in T
    <3>1. i + 1 \in P \ {0} /\ i \in P /\ (i + 1) - 1 = i
      BY <1>2, <2>2
    <3>2. e[i + 1] = Next1(e[i], i + 1)
      BY <1>9, <3>1
    <3>3. e[i] = [j |-> R[i], data |-> at(i)]
      BY <2>2, <3>1
    <3>4. Next1([j |-> R[i], data |-> at(i)], i + 1) = [j |-> R[i + 1], data |-> at(i + 1)]
      BY <1>7, <3>1
    <3>. QED
      BY <3>1, <3>2, <3>3, <3>4
  <2>. HIDE DEF T
  <2>3. \A i \in 0 .. last : i \in T
    BY <1>2, <2>1, <2>2, InductTo
  <2>. QED
    BY <2>3 DEF T
<1>11. e[last].data = at(last)
  <2>1. last \in P /\ last \in 0 .. last
    BY <1>2
  <2>2. g[last] = [j |-> R[last], data |-> at(last)]
    BY <2>1
  <2>3. e[last] = g[last]
    BY <1>10, <2>1
  <2>. QED
    BY <2>2, <2>3
<1>12. at(last) = [p \in P |-> data[R[p]]]
  <2>1. \A p \in P : p <= last
    BY <1>2
  <2>. QED
    BY <2>1 DEF at
<1>13. [p \in P |-> data[R[p]]] = [p \in Positions |-> data[Reversal(p)]]
  BY DEF P, R
<1>. QED
  BY <1>1, <1>11, <1>12, <1>13

\* What the butterflies of a stage of groups of 2 * H make of the numbers d at
\* place k.
Turned(d, H, k) ==
    LET m == k % (2 * H)
        root(n) == Root(n * (FFT_SIZE \div (2 * H)))
    IN  IF m < H THEN Plus(d[k], Times(root(m), d[k + H]))
        ELSE Minus(d[k - H], Times(root(m - H), d[k]))

\* A group holds a place together with its partner.
LEMMA InGroup ==
  ASSUME NEW H \in Nat \ {0}, NEW q \in Int, NEW m \in 0 .. 2 * H - 1
  PROVE  (2 * H * q + m) % (2 * H) = m
<1>. DEFINE w == 2 * H
<1>1. w \in Nat \ {0} /\ m \in 0 .. w - 1
  OBVIOUS
<1>. HIDE DEF w
<1>2. (w * q + m) % w = m
  BY <1>1, Remainder
<1>. QED
  BY <1>2 DEF w

\* The places of a group, and what its butterflies do to them.
LEMMA TurnedIs ==
  ASSUME NEW d, NEW H \in Bases, NEW q \in Nat, NEW n \in 0 .. H - 1
  PROVE  LET even == 2 * H * q + n
             t == Times(Root(n * (FFT_SIZE \div (2 * H))), d[even + H])
         IN  /\ Turned(d, H, even) = Plus(d[even], t)
             /\ Turned(d, H, even + H) = Minus(d[even], t)
<1>. DEFINE even == 2 * H * q + n
<1>1. H \in Nat \ {0}
  BY BaseIs
<1>2. even % (2 * H) = n
  <2>1. n \in 0 .. 2 * H - 1 /\ q \in Int
    BY <1>1
  <2>. QED
    BY <1>1, <2>1, InGroup
<1>3. (even + H) % (2 * H) = n + H
  <2>1. n + H \in 0 .. 2 * H - 1 /\ q \in Int
    BY <1>1
  <2>2. (2 * H * q + (n + H)) % (2 * H) = n + H
    BY <1>1, <2>1, InGroup
  <2>3. 2 * H * q + (n + H) = even + H
    BY <1>1
  <2>. QED
    BY <2>2, <2>3
<1>4. even \in Int
  BY <1>1
<1>. HIDE DEF even
<1>5. n < H /\ ~(n + H < H) /\ (n + H) - H = n /\ (even + H) - H = even
  BY <1>1, <1>4
<1>6. Turned(d, H, even)
        = Plus(d[even], Times(Root(n * (FFT_SIZE \div (2 * H))), d[even + H]))
  BY <1>2, <1>5 DEF Turned
<1>7. Turned(d, H, even + H)
        = Minus(d[even], Times(Root(n * (FFT_SIZE \div (2 * H))), d[even + H]))
  BY <1>3, <1>5 DEF Turned
<1>. QED
  BY <1>6, <1>7 DEF even

\* The loop of a group carries the root and turns two places at a time.
LEMMA GroupIs ==
  ASSUME NEW data \in Numbers, NEW H \in Bases, NEW q \in Nat,
         2 * H * q + 2 * H <= FFT_SIZE
  PROVE  Group(data, 2 * H * q, 2 * H)
           = [k \in Positions |-> IF 2 * H * q <= k /\ k < 2 * H * q + 2 * H
                                  THEN Turned(data, H, k) ELSE data[k]]
<1>. DEFINE base == 2 * H * q
            S == FFT_SIZE \div (2 * H)
            P == Positions
            half == (2 * H) \div 2
            at(n) == [k \in P |-> IF \/ base <= k /\ k < base + n
                                     \/ base + H <= k /\ k < base + H + n
                                  THEN Turned(data, H, k) ELSE data[k]]
            g == [n \in 0 .. H |-> [w |-> Root(n * S), data |-> at(n)]]
            Next1(before, n) ==
              LET even == base + n - 1
              IN  [w |-> Times(before.w, Root(S)),
                   data |-> Butterfly(before.data, even, even + H, before.w)]
            start == [w |-> Number(1, 0), data |-> data]
            Loop(f) == f = [n \in 0 .. H |-> IF n = 0 THEN start ELSE Next1(f[n - 1], n)]
            e == CHOOSE f : Loop(f)
<1>1. /\ H \in Nat \ {0} /\ half = H /\ base \in Nat /\ S \in Int
      /\ base + 2 * H <= FFT_SIZE /\ FFT_SIZE \in Nat \ {0}
      /\ P = 0 .. FFT_SIZE - 1
  <2>1. H \in Nat \ {0} /\ FFT_SIZE \in Nat \ {0}
    BY BaseIs, SizeType
  <2>2. half = H
    BY <2>1
  <2>3. S \in Int
    <3>1. 2 * H \in Powers
      BY BaseIs
    <3>2. S \in Powers
      BY <3>1, PowerDivides
    <3>. HIDE DEF S
    <3>. QED
      BY <3>2, PowersAre, SizeType
  <2>4. base \in Nat
    BY <2>1
  <2>. QED
    BY <2>1, <2>2, <2>3, <2>4 DEF Positions
<1>2. Group(data, base, 2 * H) = e[H].data
  <2>1. Group(data, base, 2 * H)
          = (CHOOSE f : f = [n \in 0 .. half |-> IF n = 0 THEN start
               ELSE LET before == f[n - 1]
                        even == base + n - 1
                    IN  [w |-> Times(before.w, Root(S)),
                         data |-> Butterfly(before.data, even, even + half, before.w)]])
              [half].data
    BY DEF Group
  <2>2. half = H
    BY <1>1
  <2>. HIDE DEF half
  <2>. QED
    BY <2>1, <2>2
<1>3. data \in [P -> Complex]
  BY DEF Numbers
<1>4. ASSUME NEW n \in 1 .. H
      PROVE  /\ base + n - 1 = 2 * H * q + (n - 1) /\ n - 1 \in 0 .. H - 1
             /\ base + n - 1 \in P /\ (base + n - 1) + H \in P
  BY <1>1
<1>5. ASSUME NEW n \in 1 .. H
      PROVE  LET even == base + n - 1
                 t == Times(Root((n - 1) * S), data[even + H])
             IN  /\ Turned(data, H, even) = Plus(data[even], t)
                 /\ Turned(data, H, even + H) = Minus(data[even], t)
  BY <1>4, TurnedIs
<1>. HIDE DEF base, S, P, half, e
<1>6. at(0) = data
  <2>1. \A k \in P : (IF \/ base <= k /\ k < base + 0
                         \/ base + H <= k /\ k < base + H + 0
                      THEN Turned(data, H, k) ELSE data[k]) = data[k]
    BY <1>1
  <2>. QED
    BY <1>3, <2>1
<1>7. ASSUME NEW n \in 1 .. H
      PROVE  Butterfly(at(n - 1), base + n - 1, (base + n - 1) + H, Root((n - 1) * S)) = at(n)
  <2>. DEFINE even == base + n - 1
              odd == even + H
              w == Root((n - 1) * S)
              d == at(n - 1)
              t == Times(w, data[odd])
              s == Butterfly(d, even, odd, w)
  <2>1. even \in P /\ odd \in P /\ even \in Int /\ n \in Int /\ even # odd
    BY <1>1, <1>4
  <2>2. /\ Turned(data, H, even) = Plus(data[even], t)
        /\ Turned(data, H, odd) = Minus(data[even], t)
    BY <1>5
  <2>3. d[even] = data[even] /\ d[odd] = data[odd] /\ DOMAIN d = P
    <3>1. /\ ~(base <= even /\ even < base + (n - 1))
          /\ ~(base + H <= even /\ even < base + H + (n - 1))
          /\ ~(base <= odd /\ odd < base + (n - 1))
          /\ ~(base + H <= odd /\ odd < base + H + (n - 1))
      BY <1>1
    <3>. HIDE DEF even, odd
    <3>. QED
      BY <2>1, <3>1
  <2>4. \A k \in P : d[k] = IF \/ base <= k /\ k < base + (n - 1)
                               \/ base + H <= k /\ k < base + H + (n - 1)
                            THEN Turned(data, H, k) ELSE data[k]
    OBVIOUS
  <2>5. ASSUME NEW k \in P
        PROVE  (\/ base <= k /\ k < base + n
                \/ base + H <= k /\ k < base + H + n)
                 <=> (\/ base <= k /\ k < base + (n - 1)
                      \/ base + H <= k /\ k < base + H + (n - 1)
                      \/ k = even \/ k = odd)
    BY <1>1
  <2>. HIDE DEF even, odd, w, d, t
  <2>6. s = [d EXCEPT ![odd] = Minus(data[even], t), ![even] = Plus(data[even], t)]
    BY <2>3 DEF Butterfly, t
  <2>7. /\ DOMAIN s = P /\ s = [k \in P |-> s[k]]
        /\ \A k \in P : s[k] = IF k = even THEN Plus(data[even], t)
                               ELSE IF k = odd THEN Minus(data[even], t) ELSE d[k]
    <3>. HIDE DEF s
    <3>. QED
      BY <2>1, <2>3, <2>6
  <2>. HIDE DEF s
  <2>8. ASSUME NEW k \in P
        PROVE  s[k] = IF \/ base <= k /\ k < base + n
                         \/ base + H <= k /\ k < base + H + n
                      THEN Turned(data, H, k) ELSE data[k]
    <3>1. CASE k = even
      BY <2>2, <2>5, <2>7, <3>1
    <3>2. CASE k = odd
      BY <2>1, <2>2, <2>5, <2>7, <3>2
    <3>3. CASE k # even /\ k # odd
      BY <2>4, <2>5, <2>7, <3>3
    <3>. QED
      BY <3>1, <3>2, <3>3
  <2>9. at(n) = [k \in P |-> s[k]]
    BY <2>8
  <2>. QED
    BY <2>7, <2>9 DEF s, even, odd, w, d
<1>. HIDE DEF at
<1>8. ASSUME NEW n \in 1 .. H
      PROVE  Next1([w |-> Root((n - 1) * S), data |-> at(n - 1)], n)
               = [w |-> Root(n * S), data |-> at(n)]
  <2>1. Times(Root((n - 1) * S), Root(S)) = Root(n * S)
    <3>1. (n - 1) * S \in Int /\ (n - 1) * S + S = n * S
      BY <1>1
    <3>2. Times(Root((n - 1) * S), Root(S)) = Root((n - 1) * S + S)
      BY <1>1, <3>1, RootPlus
    <3>. QED
      BY <3>1, <3>2
  <2>. QED
    BY <1>7, <2>1
<1>9. start = [w |-> Root(0 * S), data |-> at(0)]
  <2>1. 0 * S = 0
    BY <1>1
  <2>. QED
    BY <1>6, <2>1, RootAssumption
<1>. HIDE DEF Next1, start
<1>10. Loop(g)
  <2>1. \A n \in 0 .. H : g[n] = IF n = 0 THEN start ELSE Next1(g[n - 1], n)
    <3>. TAKE n \in 0 .. H
    <3>1. CASE n = 0
      BY <1>9, <3>1
    <3>2. CASE n # 0
      <4>1. n \in 1 .. H /\ n - 1 \in 0 .. H
        BY <1>1, <3>2
      <4>2. g[n - 1] = [w |-> Root((n - 1) * S), data |-> at(n - 1)]
        BY <4>1
      <4>. QED
        BY <1>8, <3>2, <4>1, <4>2
    <3>. QED
      BY <3>1, <3>2
  <2>. DEFINE h == [n \in 0 .. H |-> IF n = 0 THEN start ELSE Next1(g[n - 1], n)]
  <2>2. \A n \in 0 .. H : g[n] = h[n]
    <3>. HIDE DEF g
    <3>. QED
      BY <2>1
  <2>3. g = [n \in 0 .. H |-> g[n]] /\ h = [n \in 0 .. H |-> h[n]]
    OBVIOUS
  <2>4. g = h
    <3>. HIDE DEF g, h
    <3>. QED
      BY <2>2, <2>3
  <2>. QED
    BY <2>4
<1>11. Loop(e)
  <2>1. \E f : Loop(f)
    <3>. HIDE DEF Loop
    <3>. QED
      BY <1>10
  <2>. HIDE DEF Loop
  <2>. QED
    BY <2>1 DEF e
<1>12. \A n \in 0 .. H : e[n] = g[n]
  <2>. DEFINE T == {n \in Nat : e[n] = g[n]}
  <2>1. 0 \in T
    <3>1. 0 \in 0 .. H
      BY <1>1
    <3>2. e[0] = start /\ g[0] = [w |-> Root(0 * S), data |-> at(0)]
      BY <1>11, <3>1
    <3>. QED
      BY <1>9, <3>2
  <2>2. ASSUME NEW n \in Nat, n < H, n \in T
        PROVE  n + 1 \in T
    <3>1. n + 1 \in 1 .. H /\ n + 1 \in 0 .. H /\ n \in 0 .. H /\ (n + 1) - 1 = n /\ n + 1 # 0
      BY <1>1, <2>2
    <3>2. e[n + 1] = Next1(e[n], n + 1)
      BY <1>11, <3>1
    <3>3. e[n] = [w |-> Root(n * S), data |-> at(n)]
      BY <2>2, <3>1
    <3>4. Next1([w |-> Root(n * S), data |-> at(n)], n + 1)
            = [w |-> Root((n + 1) * S), data |-> at(n + 1)]
      <4>1. Next1([w |-> Root(((n + 1) - 1) * S), data |-> at((n + 1) - 1)], n + 1)
              = [w |-> Root((n + 1) * S), data |-> at(n + 1)]
        BY <1>8, <3>1
      <4>. QED
        BY <3>1, <4>1
    <3>. QED
      BY <3>1, <3>2, <3>3, <3>4
  <2>. HIDE DEF T
  <2>3. \A n \in 0 .. H : n \in T
    BY <1>1, <2>1, <2>2, InductTo
  <2>. QED
    BY <2>3 DEF T
<1>13. e[H].data = at(H)
  <2>1. H \in 0 .. H
    BY <1>1
  <2>2. g[H] = [w |-> Root(H * S), data |-> at(H)] /\ e[H] = g[H]
    BY <1>12, <2>1
  <2>. QED
    BY <2>2
<1>14. at(H) = [k \in P |-> IF base <= k /\ k < base + 2 * H
                            THEN Turned(data, H, k) ELSE data[k]]
  <2>1. \A k \in P : (\/ base <= k /\ k < base + H
                      \/ base + H <= k /\ k < base + H + H)
                       <=> base <= k /\ k < base + 2 * H
    BY <1>1
  <2>. QED
    BY <2>1 DEF at
<1>. QED
  BY <1>2, <1>13, <1>14 DEF base, P

\* A place in a group of 2 * H.
LEMMA Placed ==
  ASSUME NEW H \in Bases, NEW k \in Positions
  PROVE  /\ k \div (2 * H) \in Nat /\ k % (2 * H) \in 0 .. 2 * H - 1
         /\ k = 2 * H * (k \div (2 * H)) + (k % (2 * H))
         /\ 2 * H * (k \div (2 * H)) + 2 * H <= FFT_SIZE
         /\ k \div (2 * H) < FFT_SIZE \div (2 * H)
<1>. DEFINE w == 2 * H
            q == k \div w
            m == k % w
            M == FFT_SIZE \div w
<1>1. w \in Powers /\ w \in Nat \ {0} /\ k \in Nat /\ k < FFT_SIZE /\ FFT_SIZE \in Nat
  BY BaseIs, SizeType, PowersAre DEF Positions
<1>2. w * M = FFT_SIZE /\ M \in Powers
  BY <1>1, PowerDivides
<1>3. q \in Int /\ m \in 0 .. w - 1 /\ k = w * q + m
  <2>. HIDE DEF w
  <2>. QED
    BY <1>1, Division
<1>. HIDE DEF q, m, M
<1>4. M \in Nat \ {0}
  BY <1>2, PowersAre, SizeType
<1>. HIDE DEF w
<1>5. q >= 0
  <2>1. ASSUME q < 0
        PROVE  FALSE
    <3>1. w * q <= w * (-1)
      BY <1>1, <1>3, <2>1
    <3>. QED
      BY <1>1, <1>3, <3>1
  <2>. QED
    BY <1>3, <2>1
<1>6. q < M
  <2>1. ASSUME q >= M
        PROVE  FALSE
    <3>1. w * q >= w * M
      BY <1>1, <1>3, <1>4, <2>1
    <3>. QED
      BY <1>1, <1>2, <1>3, <3>1
  <2>. QED
    BY <1>3, <1>4, <2>1
<1>7. w * q + w <= FFT_SIZE
  <2>1. w * (q + 1) <= w * M
    BY <1>1, <1>3, <1>4, <1>6
  <2>2. w * (q + 1) = w * q + w
    BY <1>1, <1>3
  <2>. QED
    BY <1>2, <2>1, <2>2
<1>. QED
  BY <1>3, <1>5, <1>6, <1>7 DEF w, q, m, M

\* Butterflies make numbers of numbers.
LEMMA TurnedType ==
  ASSUME NEW d \in Numbers, NEW H \in Bases, NEW k \in Positions
  PROVE  Turned(d, H, k) \in Complex
<1>. DEFINE m == k % (2 * H)
            S == FFT_SIZE \div (2 * H)
<1>1. H \in Nat \ {0} /\ m \in 0 .. 2 * H - 1 /\ S \in Int
  <2>1. 2 * H \in Powers /\ H \in Nat \ {0}
    BY BaseIs
  <2>2. S \in Powers
    BY <2>1, PowerDivides
  <2>. HIDE DEF S
  <2>3. S \in Int
    BY <2>2, PowersAre, SizeType
  <2>. QED
    BY <2>1, <2>3, Placed
<1>2. \A n \in Int : Root(n * S) \in Complex
  <2>. TAKE n \in Int
  <2>1. n * S \in Int
    BY <1>1
  <2>. QED
    BY <2>1, RootType
<1>3. CASE m < H
  <2>1. k + H \in Positions
    <3>1. /\ k = 2 * H * (k \div (2 * H)) + m
          /\ 2 * H * (k \div (2 * H)) + 2 * H <= FFT_SIZE
          /\ k \div (2 * H) \in Nat
      BY Placed
    <3>. DEFINE b == 2 * H * (k \div (2 * H))
    <3>2. b \in Nat
      BY <1>1, <3>1
    <3>. HIDE DEF b, m
    <3>3. k = b + m /\ b + 2 * H <= FFT_SIZE
      BY <3>1 DEF b
    <3>. QED
      BY <1>1, <1>3, <3>2, <3>3, SizeType DEF Positions
  <2>2. d[k] \in Complex /\ d[k + H] \in Complex /\ Root(m * S) \in Complex
    <3>. HIDE DEF m, S
    <3>. QED
      BY <1>1, <1>2, <2>1 DEF Numbers
  <2>3. Turned(d, H, k) = Plus(d[k], Times(Root(m * S), d[k + H]))
    BY <1>3 DEF Turned
  <2>. QED
    BY <2>2, <2>3, RingType
<1>4. CASE ~(m < H)
  <2>1. k - H \in Positions
    <3>1. k = 2 * H * (k \div (2 * H)) + m /\ k \div (2 * H) \in Nat
      BY Placed
    <3>. DEFINE b == 2 * H * (k \div (2 * H))
    <3>2. b \in Nat
      BY <1>1, <3>1
    <3>. HIDE DEF b, m
    <3>3. k = b + m
      BY <3>1 DEF b
    <3>. QED
      BY <1>1, <1>4, <3>2, <3>3, SizeType DEF Positions
  <2>2. d[k] \in Complex /\ d[k - H] \in Complex /\ Root((m - H) * S) \in Complex
    <3>. HIDE DEF m, S
    <3>1. m - H \in Int
      BY <1>1
    <3>2. Root((m - H) * S) \in Complex
      BY <1>2, <3>1
    <3>3. d[k] \in Complex /\ d[k - H] \in Complex
      BY <2>1 DEF Numbers
    <3>. QED
      BY <3>2, <3>3
  <2>3. Turned(d, H, k) = Minus(d[k - H], Times(Root((m - H) * S), d[k]))
    BY <1>4 DEF Turned
  <2>. QED
    BY <2>2, <2>3, RingType
<1>. QED
  BY <1>3, <1>4

\* What happens in a group depends on the numbers of the group.
LEMMA TurnedSame ==
  ASSUME NEW d, NEW e, NEW H \in Bases, NEW k \in Positions,
         \A i \in Positions : i \div (2 * H) = k \div (2 * H) => d[i] = e[i]
  PROVE  Turned(d, H, k) = Turned(e, H, k)
<1>. DEFINE w == 2 * H
            q == k \div w
            m == k % w
<1>1. /\ q \in Nat /\ m \in 0 .. w - 1 /\ k = w * q + m /\ w * q + w <= FFT_SIZE
      /\ H \in Nat \ {0}
  BY Placed, BaseIs
<1>. HIDE DEF q, m
<1>9. H \in Nat \ {0}
  BY <1>1
<1>2. \A n \in 0 .. w - 1 : w * q + n \in Positions /\ (w * q + n) \div w = q
  <2>1. w \in Nat \ {0}
    BY <1>1
  <2>2. w * q \in Nat
    BY <1>1, <2>1
  <2>. HIDE DEF w
  <2>. TAKE n \in 0 .. w - 1
  <2>3. (w * q + n) \div w = q
    <3>1. q \in Int
      BY <1>1
    <3>2. n \in 0 .. w - 1
      OBVIOUS
    <3>. QED
      BY <2>1, <3>1, <3>2, Remainder
  <2>4. w * q + n \in Positions
    <3>. DEFINE b == w * q
    <3>. HIDE DEF b
    <3>1. b \in Nat /\ b + w <= FFT_SIZE
      BY <1>1, <2>2 DEF b
    <3>2. b + n \in Positions
      BY <2>1, <3>1, SizeType DEF Positions
    <3>. QED
      BY <3>2 DEF b
  <2>. QED
    BY <2>3, <2>4
<1>3. \A n \in 0 .. w - 1 : d[w * q + n] = e[w * q + n]
  BY <1>2 DEF q
<1>4. d[k] = e[k]
  BY <1>1, <1>3
<1>5. m < H => d[k + H] = e[k + H]
  <2>1. m < H => m + H \in 0 .. w - 1 /\ w * q + (m + H) = k + H
    BY <1>1
  <2>. QED
    BY <1>3, <2>1
<1>6. ~(m < H) => d[k - H] = e[k - H]
  <2>1. ~(m < H) => m - H \in 0 .. w - 1 /\ w * q + (m - H) = k - H
    BY <1>1
  <2>. QED
    BY <1>3, <2>1
<1>7. CASE m < H
  BY <1>4, <1>5, <1>7 DEF Turned, m
<1>8. CASE ~(m < H)
  BY <1>4, <1>6, <1>8 DEF Turned, m
<1>. QED
  BY <1>7, <1>8

\* A stage turns every place once.
LEMMA StageIs ==
  ASSUME NEW data \in Numbers, NEW H \in Bases
  PROVE  Stage(data, 2 * H) = [k \in Positions |-> Turned(data, H, k)]
<1>. DEFINE w == 2 * H
            M == FFT_SIZE \div w
            P == Positions
            at(n) == [k \in P |-> IF k \div w < n THEN Turned(data, H, k) ELSE data[k]]
            g == [n \in 0 .. M |-> at(n)]
            Loop(f) == f = [n \in 0 .. M |-> IF n = 0 THEN data
                                             ELSE Group(f[n - 1], (n - 1) * w, w)]
            e == CHOOSE f : Loop(f)
<1>1. Stage(data, w) = e[M]
  BY DEF Stage
<1>2. /\ w \in Nat \ {0} /\ M \in Nat \ {0} /\ w * M = FFT_SIZE
      /\ H \in Nat \ {0}
  <2>1. w \in Powers /\ H \in Nat \ {0}
    BY BaseIs
  <2>2. M \in Powers /\ w * M = FFT_SIZE
    BY <2>1, PowerDivides
  <2>. HIDE DEF M
  <2>3. M \in Nat \ {0}
    BY <2>2, PowersAre, SizeType
  <2>. QED
    BY <2>1, <2>2, <2>3
<1>3. /\ data \in [P -> Complex]
      /\ \A k \in P : Turned(data, H, k) \in Complex
      /\ \A k \in P : k \div w \in Nat /\ k \div w < M
  BY TurnedType, Placed DEF Numbers
<1>. HIDE DEF M, e, P
<1>4. \A n \in Nat : at(n) \in [P -> Complex]
  <2>. HIDE DEF w
  <2>. QED
    BY <1>3
<1>5. at(0) = data
  <2>1. \A k \in P : ~(k \div w < 0)
    BY <1>3
  <2>. QED
    BY <1>3, <2>1
<1>6. ASSUME NEW n \in 1 .. M
      PROVE  Group(at(n - 1), (n - 1) * w, w) = at(n)
  <2>. DEFINE q == n - 1
              d == at(q)
  <2>1. q \in Nat /\ n = q + 1 /\ q < M
    BY <1>2
  <2>2. w * q + w <= FFT_SIZE
    <3>1. w * (q + 1) <= w * M
      BY <1>2, <2>1
    <3>2. w * (q + 1) = w * q + w
      BY <1>2, <2>1
    <3>. QED
      BY <1>2, <3>1, <3>2
  <2>3. (n - 1) * w = 2 * H * q
    BY <1>2, <2>1
  <2>4. d \in Numbers
    BY <1>4, <2>1 DEF Numbers, P
  <2>5. \A k \in P : d[k] = IF k \div w < q THEN Turned(data, H, k) ELSE data[k]
    OBVIOUS
  <2>. HIDE DEF q, d
  <2>6. Group(d, 2 * H * q, 2 * H)
          = [k \in P |-> IF 2 * H * q <= k /\ k < 2 * H * q + 2 * H
                         THEN Turned(d, H, k) ELSE d[k]]
    BY <2>1, <2>2, <2>4, GroupIs DEF P
  <2>7. ASSUME NEW k \in P
        PROVE  (IF 2 * H * q <= k /\ k < 2 * H * q + 2 * H
                THEN Turned(d, H, k) ELSE d[k])
                 = (IF k \div w < n THEN Turned(data, H, k) ELSE data[k])
    <3>. DEFINE u == k \div w
                m == k % w
    <3>1. u \in Nat /\ m \in 0 .. w - 1 /\ k = w * u + m
      BY Placed DEF P
    <3>. HIDE DEF u, m
    <3>2. 2 * H * q <= k /\ k < 2 * H * q + 2 * H <=> u = q
      <4>. HIDE DEF w
      <4>1. ASSUME u = q
            PROVE  w * q <= k /\ k < w * q + w
        BY <1>2, <2>1, <3>1, <4>1
      <4>2. ASSUME u < q
            PROVE  k < w * q
        <5>1. w * (u + 1) <= w * q /\ w * (u + 1) = w * u + w
          BY <1>2, <2>1, <3>1, <4>2
        <5>. QED
          BY <1>2, <2>1, <3>1, <5>1
      <4>3. ASSUME u > q
            PROVE  k >= w * q + w
        <5>1. w * (q + 1) <= w * u /\ w * (q + 1) = w * q + w
          BY <1>2, <2>1, <3>1, <4>3
        <5>. QED
          BY <1>2, <2>1, <3>1, <5>1
      <4>4. w * q \in Int /\ k \in Int
        BY <1>2, <2>1, <3>1
      <4>5. w * q <= k /\ k < w * q + w <=> u = q
        BY <1>2, <2>1, <3>1, <4>1, <4>2, <4>3, <4>4
      <4>6. 2 * H * q = w * q
        BY <1>2, <2>1 DEF w
      <4>. QED
        BY <4>5, <4>6 DEF w
    <3>3. CASE u = q
      <4>1. \A i \in Positions : i \div (2 * H) = k \div (2 * H) => d[i] = data[i]
        BY <2>1, <2>5, <3>3 DEF u, P
      <4>2. Turned(d, H, k) = Turned(data, H, k)
        BY <4>1, TurnedSame DEF P
      <4>. QED
        BY <2>1, <3>2, <3>3, <4>2 DEF u
    <3>4. CASE u # q
      <4>1. k \div w < n <=> k \div w < q
        BY <2>1, <3>1, <3>4 DEF u
      <4>. QED
        BY <2>5, <3>2, <3>4, <4>1
    <3>. QED
      BY <3>3, <3>4
  <2>8. Group(d, 2 * H * q, 2 * H)
          = [k \in P |-> IF k \div w < n THEN Turned(data, H, k) ELSE data[k]]
    <3>. HIDE DEF w
    <3>. QED
      BY <2>6, <2>7
  <2>. QED
    BY <2>3, <2>8 DEF d, q
<1>. HIDE DEF at
<1>7. Loop(g)
  <2>1. \A n \in 0 .. M : g[n] = IF n = 0 THEN data ELSE Group(g[n - 1], (n - 1) * w, w)
    <3>. TAKE n \in 0 .. M
    <3>1. CASE n = 0
      BY <1>5, <3>1
    <3>2. CASE n # 0
      <4>1. n \in 1 .. M /\ n - 1 \in 0 .. M
        BY <1>2, <3>2
      <4>2. g[n - 1] = at(n - 1)
        BY <4>1
      <4>. QED
        BY <1>6, <3>2, <4>1, <4>2
    <3>. QED
      BY <3>1, <3>2
  <2>. DEFINE h == [n \in 0 .. M |-> IF n = 0 THEN data
                                     ELSE Group(g[n - 1], (n - 1) * w, w)]
  <2>2. \A n \in 0 .. M : g[n] = h[n]
    <3>. HIDE DEF g
    <3>. QED
      BY <2>1
  <2>3. g = [n \in 0 .. M |-> g[n]] /\ h = [n \in 0 .. M |-> h[n]]
    OBVIOUS
  <2>4. g = h
    <3>. HIDE DEF g, h
    <3>. QED
      BY <2>2, <2>3
  <2>. QED
    BY <2>4
<1>8. Loop(e)
  <2>1. \E f : Loop(f)
    <3>. HIDE DEF Loop
    <3>. QED
      BY <1>7
  <2>. HIDE DEF Loop
  <2>. QED
    BY <2>1 DEF e
<1>9. \A n \in 0 .. M : e[n] = at(n)
  <2>. DEFINE T == {n \in Nat : e[n] = at(n)}
  <2>1. 0 \in T
    <3>1. e[0] = data
      BY <1>2, <1>8
    <3>. QED
      BY <1>5, <3>1
  <2>2. ASSUME NEW n \in Nat, n < M, n \in T
        PROVE  n + 1 \in T
    <3>1. n + 1 \in 1 .. M /\ n + 1 \in 0 .. M /\ (n + 1) - 1 = n /\ n + 1 # 0
      BY <1>2, <2>2
    <3>2. e[n + 1] = Group(e[n], n * w, w)
      BY <1>8, <3>1
    <3>3. Group(at((n + 1) - 1), ((n + 1) - 1) * w, w) = at(n + 1)
      BY <1>6, <3>1
    <3>. QED
      BY <2>2, <3>1, <3>2, <3>3
  <2>. HIDE DEF T
  <2>3. \A n \in 0 .. M : n \in T
    BY <1>2, <2>1, <2>2, InductTo
  <2>. QED
    BY <2>3 DEF T
<1>10. e[M] = at(M)
  BY <1>2, <1>9
<1>11. at(M) = [k \in P |-> Turned(data, H, k)]
  BY <1>3 DEF at
<1>. QED
  BY <1>1, <1>10, <1>11 DEF P

-----------------------------------------------------------------------------
(* The transform.                                                          *)

\* The terms of a group's transform: every D-th number from r on.
Term(x, r, D, M) ==
    [t \in Positions |-> Times(x[(r + t * D) % FFT_SIZE], Root(M * t * D))]

\* The transform of length L, at k, of the numbers whose places the bit reversal
\* has brought into the group of k.
Partial(x, L, k) ==
    SumUpTo(Term(x, Reversal(k - (k % L)), FFT_SIZE \div L, k % L))[L]

\* The terms are numbers.
LEMMA TermType ==
  ASSUME NEW x \in Numbers, NEW r \in Int, NEW D \in Int, NEW M \in Int
  PROVE  Term(x, r, D, M) \in Numbers
<1>1. ASSUME NEW t \in Positions
      PROVE  Times(x[(r + t * D) % FFT_SIZE], Root(M * t * D)) \in Complex
  <2>1. t \in Int
    BY SizeType DEF Positions
  <2>2. r + t * D \in Int /\ M * t * D \in Int
    BY <2>1
  <2>3. x[(r + t * D) % FFT_SIZE] \in Complex
    BY <2>2, RootReduced DEF Numbers
  <2>4. Root(M * t * D) \in Complex
    BY <2>2, RootType
  <2>. QED
    BY <2>3, <2>4, RingType
<1>. QED
  BY <1>1 DEF Term, Numbers

\* The terms at even and at odd places are those of the two halves of a group.
LEMMA TermSplit ==
  ASSUME NEW x \in Numbers, NEW H \in Bases, NEW r \in Int, NEW m \in 0 .. H - 1,
         NEW M \in {m, m + H}
  PROVE  LET D == FFT_SIZE \div (2 * H)
         IN  SumUpTo(Term(x, r, D, M))[2 * H]
               = Plus(SumUpTo(Term(x, r, 2 * D, m))[H],
                      Times(Root(M * D), SumUpTo(Term(x, r + D, 2 * D, m))[H]))
<1>. DEFINE D == FFT_SIZE \div (2 * H)
            f == Term(x, r, D, M)
            even == Term(x, r, 2 * D, m)
            odd == Term(x, r + D, 2 * D, m)
            c == Root(M * D)
<1>1. /\ H \in Nat \ {0} /\ 2 * H <= FFT_SIZE /\ FFT_SIZE \in Nat \ {0}
      /\ D \in Nat \ {0} /\ (2 * H) * D = FFT_SIZE
  <2>1. 2 * H \in Powers /\ H \in Nat \ {0} /\ 2 * H <= FFT_SIZE
    BY BaseIs
  <2>2. D \in Powers /\ (2 * H) * D = FFT_SIZE
    BY <2>1, PowerDivides
  <2>. HIDE DEF D
  <2>. QED
    BY <2>1, <2>2, PowersAre, SizeType
<1>. HIDE DEF D
<1>2. M \in Int /\ m \in Int /\ M * D \in Int /\ 2 * D \in Int /\ r + D \in Int
  <2>1. M \in Int /\ m \in Int
    BY <1>1
  <2>. QED
    BY <1>1, <2>1
<1>3. f \in Numbers /\ even \in Numbers /\ odd \in Numbers /\ c \in Complex
  BY <1>1, <1>2, TermType, RootType
<1>4. \E u \in {0, 1} : M = m + H * u
  <2>1. m + H * 0 = m /\ m + H * 1 = m + H
    BY <1>1, <1>2
  <2>. QED
    BY <2>1
<1>5. PICK u \in {0, 1} : M = m + H * u
  BY <1>4
<1>6. ASSUME NEW t \in 0 .. H - 1
      PROVE  f[2 * t] = even[t] /\ f[2 * t + 1] = Times(c, odd[t])
  <2>1. t \in Int /\ 2 * t \in Positions /\ 2 * t + 1 \in Positions /\ t \in Positions
    BY <1>1, SizeType DEF Positions
  <2>2. /\ f[2 * t] = Times(x[(r + (2 * t) * D) % FFT_SIZE], Root(M * (2 * t) * D))
        /\ f[2 * t + 1] = Times(x[(r + (2 * t + 1) * D) % FFT_SIZE],
                                Root(M * (2 * t + 1) * D))
        /\ even[t] = Times(x[(r + t * (2 * D)) % FFT_SIZE], Root(m * t * (2 * D)))
        /\ odd[t] = Times(x[((r + D) + t * (2 * D)) % FFT_SIZE], Root(m * t * (2 * D)))
    BY <2>1 DEF Term
  <2>3. /\ r + (2 * t) * D = r + t * (2 * D)
        /\ r + (2 * t + 1) * D = (r + D) + t * (2 * D)
    BY <1>1, <2>1
  <2>4. Root(M * (2 * t) * D) = Root(m * t * (2 * D))
    <3>1. M * (2 * t) * D = m * t * (2 * D) + ((2 * H) * D) * (u * t)
      <4>1. (m + H * u) * (2 * t) * D = m * t * (2 * D) + ((2 * H) * D) * (u * t)
        BY <1>1, <1>2, <2>1
      <4>. QED
        BY <1>5, <4>1
    <3>2. M * (2 * t) * D \in Int /\ m * t * (2 * D) \in Int /\ u * t \in Int
      BY <1>1, <1>2, <2>1
    <3>. DEFINE i == M * (2 * t) * D
                j == m * t * (2 * D)
                k == u * t
    <3>3. i \in Int /\ j \in Int /\ k \in Int /\ i = j + FFT_SIZE * k
      BY <1>1, <3>1, <3>2
    <3>. HIDE DEF i, j, k
    <3>4. Root(i) = Root(j)
      BY <3>3, RootAgain
    <3>. QED
      BY <3>4 DEF i, j
  <2>5. f[2 * t] = even[t]
    BY <2>2, <2>3, <2>4
  <2>6. Root(M * (2 * t + 1) * D) = Times(c, Root(m * t * (2 * D)))
    <3>1. M * (2 * t + 1) * D = M * D + M * (2 * t) * D
      BY <1>1, <1>2, <2>1
    <3>2. M * (2 * t) * D \in Int
      BY <1>1, <1>2, <2>1
    <3>3. Root(M * D + M * (2 * t) * D) = Times(c, Root(M * (2 * t) * D))
      BY <1>2, <3>2, RootPlus
    <3>. QED
      BY <2>4, <3>1, <3>3
  <2>7. f[2 * t + 1] = Times(c, odd[t])
    <3>. DEFINE y == x[((r + D) + t * (2 * D)) % FFT_SIZE]
                w == Root(m * t * (2 * D))
    <3>1. y \in Complex
      <4>1. (r + D) + t * (2 * D) \in Int
        BY <1>1, <2>1
      <4>. QED
        BY <4>1, RootReduced DEF Numbers
    <3>2. w \in Complex
      <4>1. m * t * (2 * D) \in Int
        BY <1>1, <1>2, <2>1
      <4>. QED
        BY <4>1, RootType
    <3>3. f[2 * t + 1] = Times(y, Times(c, w)) /\ odd[t] = Times(y, w)
      BY <2>2, <2>3, <2>6
    <3>. HIDE DEF y, w, f, odd, c
    <3>4. Times(y, Times(c, w)) = Times(c, Times(y, w))
      BY <1>3, <3>1, <3>2, TimesRing
    <3>. QED
      BY <3>3, <3>4
  <2>. QED
    BY <2>5, <2>7
<1>. HIDE DEF f, even, odd, c
<1>7. SumUpTo(f)[2 * H] = Plus(SumUpTo(even)[H], Times(c, SumUpTo(odd)[H]))
  BY <1>1, <1>3, <1>6, SumSplit
<1>. QED
  BY <1>7 DEF f, even, odd, c, D

\* So is the transform of a group.
LEMMA PartialType ==
  ASSUME NEW x \in Numbers, NEW L \in Powers, NEW k \in Positions
  PROVE  Partial(x, L, k) \in Complex
<1>. DEFINE M == k % L
            D == FFT_SIZE \div L
<1>1. L \in Nat \ {0} /\ L \in 0 .. FFT_SIZE /\ k \in Nat /\ FFT_SIZE \in Nat \ {0}
  BY PowersAre, SizeType DEF Positions
<1>2. M \in 0 .. L - 1 /\ k - M \in Positions
  <2>1. M \in 0 .. L - 1 /\ k \div L \in Int /\ k = L * (k \div L) + M
    BY <1>1, Division
  <2>2. k - M \in 0 .. k
    <3>. DEFINE q == k \div L
    <3>. HIDE DEF M, q
    <3>1. q \in Int /\ k = L * q + M /\ M \in 0 .. L - 1
      BY <2>1 DEF q
    <3>2. q >= 0
      <4>1. ASSUME q < 0
            PROVE  FALSE
        <5>1. L * q <= L * (-1)
          BY <1>1, <3>1, <4>1
        <5>. QED
          BY <1>1, <3>1, <5>1
      <4>. QED
        BY <3>1, <4>1
    <3>3. L * q >= 0 /\ L * q \in Int
      BY <1>1, <3>1, <3>2
    <3>. QED
      BY <1>1, <3>1, <3>3
  <2>3. \A i \in 0 .. k : i \in Positions
    BY <1>1 DEF Positions
  <2>. QED
    BY <2>1, <2>2, <2>3
<1>3. D \in Int
  <2>1. D \in Powers
    BY PowerDivides
  <2>. HIDE DEF D
  <2>. QED
    BY <2>1, PowersAre, SizeType
<1>. HIDE DEF M, D
<1>4. Reversal(k - M) \in Int /\ M \in Int
  <2>1. Reversal(k - M) \in Positions
    BY <1>2, ReversalIs
  <2>. QED
    BY <1>1, <1>2, <2>1 DEF Positions
<1>5. Term(x, Reversal(k - M), D, M) \in Numbers
  BY <1>3, <1>4, TermType
<1>6. SumUpTo(Term(x, Reversal(k - M), D, M))[L] \in Complex
  BY <1>1, <1>5, SumUpToIs
<1>. QED
  BY <1>6 DEF Partial, M, D

\* The first partial transforms are the numbers in reversed order.
LEMMA PartialFirst ==
  ASSUME NEW x \in Numbers, NEW k \in Positions
  PROVE  Partial(x, 1, k) = x[Reversal(k)]
<1>. DEFINE r == Reversal(k)
            f == Term(x, r, FFT_SIZE \div 1, 0)
<1>1. /\ k \in Nat /\ FFT_SIZE \in Nat \ {0} /\ k % 1 = 0 /\ k - (k % 1) = k
      /\ FFT_SIZE \div 1 = FFT_SIZE /\ 0 \in Positions
  <2>1. k \in Nat /\ FFT_SIZE \in Nat \ {0} /\ 0 \in Positions
    BY SizeType DEF Positions
  <2>2. k % 1 = 0 /\ FFT_SIZE \div 1 = FFT_SIZE
    BY <2>1
  <2>. QED
    BY <2>1, <2>2
<1>2. Partial(x, 1, k) = SumUpTo(f)[1]
  BY <1>1 DEF Partial
<1>3. r \in Positions
  BY ReversalIs
<1>4. f \in Numbers
  <2>1. r \in Int /\ FFT_SIZE \div 1 \in Int /\ 0 \in Int
    BY <1>1, <1>3 DEF Positions
  <2>. HIDE DEF r
  <2>. QED
    BY <2>1, TermType
<1>5. f[0] = x[r]
  <2>1. f[0] = Times(x[(r + 0 * (FFT_SIZE \div 1)) % FFT_SIZE],
                     Root(0 * 0 * (FFT_SIZE \div 1)))
    BY <1>1 DEF Term
  <2>. HIDE DEF r
  <2>2. r + 0 * (FFT_SIZE \div 1) = r /\ 0 * 0 * (FFT_SIZE \div 1) = 0
    BY <1>1, <1>3 DEF Positions
  <2>3. r % FFT_SIZE = r
    <3>1. (FFT_SIZE * 0 + r) % FFT_SIZE = r
      <4>1. r \in 0 .. FFT_SIZE - 1 /\ 0 \in Int
        BY <1>3 DEF Positions
      <4>. QED
        BY <1>1, <4>1, Remainder
    <3>2. FFT_SIZE * 0 + r = r
      BY <1>1, <1>3 DEF Positions
    <3>. QED
      BY <3>1, <3>2
  <2>4. Root(0) = One /\ x[r] \in Complex
    BY <1>3, RootAssumption DEF One, Numbers
  <2>5. Times(x[r], One) = x[r]
    BY <2>4, TimesRing
  <2>. QED
    BY <2>1, <2>2, <2>3, <2>4, <2>5
<1>. HIDE DEF f, r
<1>6. SumUpTo(f)[1] = Plus(SumUpTo(f)[0], f[0]) /\ SumUpTo(f)[0] = Zero
  <2>1. 1 \in 1 .. FFT_SIZE /\ 1 - 1 = 0
    BY <1>1
  <2>2. SumUpTo(f)[1] = Plus(SumUpTo(f)[1 - 1], f[1 - 1]) /\ SumUpTo(f)[0] = Zero
    BY <1>4, <2>1, SumUpToIs
  <2>. QED
    BY <2>1, <2>2
<1>7. x[r] \in Complex
  BY <1>3 DEF Numbers
<1>8. Plus(Zero, x[r]) = x[r]
  BY <1>7, RingType, PlusRing
<1>. QED
  BY <1>2, <1>5, <1>6, <1>8 DEF r

\* A stage makes partial transforms of twice the length.
LEMMA PartialNext ==
  ASSUME NEW x \in Numbers, NEW H \in Bases, NEW d,
         d = [k \in Positions |-> Partial(x, H, k)], NEW k \in Positions
  PROVE  Turned(d, H, k) = Partial(x, 2 * H, k)
<1>. DEFINE w == 2 * H
            q == k \div w
            M == k % w
            D == FFT_SIZE \div w
            b == w * q
            m == IF M < H THEN M ELSE M - H
            c == Root(m * D)
            r == Reversal(b)
            even == SumUpTo(Term(x, r, 2 * D, m))[H]
            odd == SumUpTo(Term(x, r + D, 2 * D, m))[H]
<1>1. /\ H \in Nat \ {0} /\ w \in Nat \ {0} /\ w \in Powers /\ H \in Powers
      /\ FFT_SIZE \in Nat \ {0} /\ k \in Nat
  BY BaseIs, SizeType DEF Positions
<1>2. /\ q \in Nat /\ M \in 0 .. w - 1 /\ k = w * q + M /\ w * q + w <= FFT_SIZE
  BY Placed
<1>3. D \in Nat \ {0} /\ w * D = FFT_SIZE
  <2>1. D \in Powers /\ w * D = FFT_SIZE
    BY <1>1, PowerDivides
  <2>. HIDE DEF D
  <2>. QED
    BY <2>1, PowersAre, SizeType
<1>. HIDE DEF q, M, D
<1>4. m \in 0 .. H - 1 /\ M \in {m, m + H}
  BY <1>1, <1>2
<1>. HIDE DEF m
<1>5. /\ b \in Nat /\ b \in Positions /\ b + m \in Positions /\ b + m + H \in Positions
      /\ b + H \in Positions
  <2>1. b \in Nat
    BY <1>1, <1>2
  <2>2. b + w <= FFT_SIZE
    BY <1>2
  <2>. HIDE DEF b
  <2>. QED
    BY <1>1, <1>4, <2>1, <2>2 DEF Positions
<1>6. b % w = 0
  <2>1. (w * q + 0) % w = 0
    <3>1. q \in Int /\ 0 \in 0 .. w - 1
      BY <1>1, <1>2
    <3>. HIDE DEF w
    <3>. QED
      BY <1>1, <3>1, Remainder
  <2>2. w * q + 0 = b
    BY <1>1, <1>2
  <2>. QED
    BY <2>1, <2>2
<1>7. Reversal(b + H) = r + D
  BY <1>5, <1>6, ReversalHalf DEF D
<1>8. FFT_SIZE \div H = 2 * D
  <2>1. FFT_SIZE = H * (2 * D) + 0 /\ 0 \in 0 .. H - 1 /\ 2 * D \in Int
    BY <1>1, <1>3
  <2>2. (H * (2 * D) + 0) \div H = 2 * D
    BY <1>1, <2>1, Remainder
  <2>. QED
    BY <2>1, <2>2
<1>9. d[b + m] = even
  <2>1. (b + m) % H = m /\ (b + m) - m = b
    <3>1. b + m = H * (2 * q) + m /\ 2 * q \in Int
      BY <1>1, <1>2, <1>4
    <3>2. (H * (2 * q) + m) % H = m
      BY <1>1, <1>4, <3>1, Remainder
    <3>3. (b + m) - m = b
      BY <1>1, <1>4, <1>5
    <3>. QED
      BY <3>1, <3>2, <3>3
  <2>2. d[b + m] = Partial(x, H, b + m)
    BY <1>5
  <2>. QED
    BY <1>8, <2>1, <2>2 DEF Partial
<1>10. d[b + m + H] = odd
  <2>1. (b + m + H) % H = m /\ (b + m + H) - m = b + H
    <3>1. b + m + H = H * (2 * q + 1) + m /\ 2 * q + 1 \in Int
      BY <1>1, <1>2, <1>4
    <3>2. (H * (2 * q + 1) + m) % H = m
      BY <1>1, <1>4, <3>1, Remainder
    <3>3. (b + m + H) - m = b + H
      BY <1>1, <1>4, <1>5
    <3>. QED
      BY <3>1, <3>2, <3>3
  <2>2. d[b + m + H] = Partial(x, H, b + m + H)
    BY <1>5
  <2>. QED
    BY <1>7, <1>8, <2>1, <2>2 DEF Partial
<1>11. Partial(x, w, k) = Plus(even, Times(Root(M * D), odd))
  <2>1. k - M = b
    BY <1>1, <1>2
  <2>2. Partial(x, w, k) = SumUpTo(Term(x, r, D, M))[w]
    BY <2>1 DEF Partial, M, D
  <2>3. r \in Int
    <3>1. r \in Positions
      BY <1>5, ReversalIs
    <3>. QED
      BY <3>1, SizeType DEF Positions
  <2>4. SumUpTo(Term(x, r, D, M))[w] = Plus(even, Times(Root(M * D), odd))
    <3>. HIDE DEF r
    <3>. QED
      BY <1>4, <2>3, TermSplit DEF D
  <2>. QED
    BY <2>2, <2>4
<1>12. even \in Complex /\ odd \in Complex /\ c \in Complex
  <2>1. even \in Complex /\ odd \in Complex
    BY <1>1, <1>5, <1>9, <1>10, PartialType
  <2>2. m * D \in Int
    BY <1>3, <1>4
  <2>. QED
    BY <2>1, <2>2, RootType
<1>13. CASE M < H
  <2>1. m = M /\ k = b + m /\ k + H = b + m + H
    BY <1>1, <1>2, <1>13 DEF m
  <2>2. Turned(d, H, k) = Plus(d[k], Times(Root(M * D), d[k + H]))
    BY <1>13 DEF Turned, M, D
  <2>. HIDE DEF even, odd, b
  <2>. QED
    BY <1>9, <1>10, <1>11, <2>1, <2>2
<1>14. CASE ~(M < H)
  <2>1. M = m + H /\ M - H = m /\ k = b + m + H /\ k - H = b + m
    BY <1>1, <1>2, <1>14 DEF m
  <2>2. Turned(d, H, k) = Minus(d[k - H], Times(Root((M - H) * D), d[k]))
    BY <1>14 DEF Turned, M, D
  <2>3. Turned(d, H, k) = Minus(even, Times(c, odd))
    <3>. HIDE DEF even, odd, b
    <3>. QED
      BY <1>9, <1>10, <2>1, <2>2
  <2>4. Root(M * D) = Times(MinusOne, c)
    <3>1. M * D = m * D + FFT_SIZE \div 2 /\ m * D \in Int
      <4>1. (m + H) * D = m * D + H * D /\ m * D \in Int
        BY <1>1, <1>3, <1>4
      <4>2. 2 * (H * D) = FFT_SIZE /\ H * D \in Int
        BY <1>1, <1>3
      <4>3. H * D = FFT_SIZE \div 2
        <5>. DEFINE v == H * D
        <5>. HIDE DEF v
        <5>. QED
          BY <4>2, SizeType DEF v
      <4>. QED
        BY <2>1, <4>1, <4>3
    <3>2. Root(m * D + FFT_SIZE \div 2) = Times(MinusOne, Root(m * D))
      BY <3>1, RootOpposite
    <3>. QED
      BY <3>1, <3>2
  <2>. HIDE DEF even, odd, c
  <2>5. Minus(even, Times(c, odd)) = Plus(even, Times(Times(MinusOne, c), odd))
    BY <1>12, TimesRing
  <2>. QED
    BY <1>11, <2>3, <2>4, <2>5
<1>. QED
  BY <1>13, <1>14

\* The transform in place is the discrete Fourier transform, for every size and
\* all numbers.
LEMMA FftIs ==
  ASSUME NEW x \in Numbers
  PROVE  fft_in_place(x) = Dft(x)
<1>. DEFINE P == Positions
            at(L) == [k \in P |-> Partial(x, L, k)]
            g == [L \in Powers |-> at(L)]
            Loop(f) == f = [L \in Powers |-> IF L = 1 THEN bit_reverse(x)
                                             ELSE Stage(f[L \div 2], L)]
            e == CHOOSE f : Loop(f)
<1>1. fft_in_place(x) = e[FFT_SIZE]
  BY DEF fft_in_place
<1>. HIDE DEF e, P
<1>2. bit_reverse(x) = at(1)
  <2>1. bit_reverse(x) = [k \in P |-> x[Reversal(k)]]
    BY BitReverseIs DEF P
  <2>2. \A k \in P : Partial(x, 1, k) = x[Reversal(k)]
    BY PartialFirst DEF P
  <2>. QED
    BY <2>1, <2>2
<1>3. ASSUME NEW H \in Bases
      PROVE  Stage(at(H), 2 * H) = at(2 * H)
  <2>. DEFINE d == at(H)
  <2>1. d = [k \in Positions |-> Partial(x, H, k)]
    BY DEF P
  <2>2. d \in Numbers
    <3>1. H \in Powers
      BY BaseIs
    <3>2. \A k \in P : Partial(x, H, k) \in Complex
      BY <3>1, PartialType DEF P
    <3>. QED
      BY <3>2 DEF Numbers, P
  <2>. HIDE DEF d
  <2>3. Stage(d, 2 * H) = [k \in P |-> Turned(d, H, k)]
    BY <2>2, StageIs DEF P
  <2>4. \A k \in P : Turned(d, H, k) = Partial(x, 2 * H, k)
    BY <2>1, PartialNext DEF P
  <2>5. Stage(d, 2 * H) = at(2 * H)
    BY <2>3, <2>4
  <2>. QED
    BY <2>5 DEF d
<1>. HIDE DEF at
<1>4. ASSUME NEW L \in Powers, L # 1
      PROVE  L \div 2 \in Powers /\ L \div 2 \in Bases /\ Stage(at(L \div 2), L) = at(L)
  <2>. DEFINE H == L \div 2
  <2>1. H \in Bases /\ 2 * H = L
    BY <1>4, PowerDivides
  <2>. HIDE DEF H
  <2>2. H \in Powers /\ Stage(at(H), L) = at(L)
    BY <1>3, <2>1, BaseIs
  <2>. QED
    BY <2>1, <2>2 DEF H
<1>5. Loop(g)
  <2>1. \A L \in Powers : g[L] = IF L = 1 THEN bit_reverse(x) ELSE Stage(g[L \div 2], L)
    <3>. TAKE L \in Powers
    <3>1. CASE L = 1
      BY <1>2, <3>1
    <3>2. CASE L # 1
      BY <1>4, <3>2
    <3>. QED
      BY <3>1, <3>2
  <2>. DEFINE h == [L \in Powers |-> IF L = 1 THEN bit_reverse(x)
                                     ELSE Stage(g[L \div 2], L)]
  <2>2. \A L \in Powers : g[L] = h[L]
    <3>. HIDE DEF g
    <3>. QED
      BY <2>1
  <2>3. g = [L \in Powers |-> g[L]] /\ h = [L \in Powers |-> h[L]]
    OBVIOUS
  <2>4. g = h
    <3>. HIDE DEF g, h
    <3>. QED
      BY <2>2, <2>3
  <2>. QED
    BY <2>4
<1>6. Loop(e)
  <2>1. \E f : Loop(f)
    <3>. HIDE DEF Loop
    <3>. QED
      BY <1>5
  <2>. HIDE DEF Loop
  <2>. QED
    BY <2>1 DEF e
<1>7. \A L \in Powers : e[L] = IF L = 1 THEN bit_reverse(x) ELSE Stage(e[L \div 2], L)
  BY <1>6
<1>8. e[FFT_SIZE] = at(FFT_SIZE)
  <2>. DEFINE T == {L \in Powers : e[L] = at(L)}
  <2>1. 1 \in T
    BY <1>2, <1>7, PowersAre
  <2>2. ASSUME NEW p \in Powers, p \in T, 2 * p \in Powers
        PROVE  2 * p \in T
    <3>1. p \in Nat \ {0}
      BY PowersAre, SizeType
    <3>2. 2 * p # 1 /\ (2 * p) \div 2 = p
      BY <3>1
    <3>3. e[2 * p] = Stage(e[p], 2 * p)
      BY <1>7, <2>2, <3>2
    <3>4. Stage(at(p), 2 * p) = at(2 * p)
      BY <1>4, <2>2, <3>2
    <3>. QED
      BY <2>2, <3>3, <3>4
  <2>3. Powers \subseteq T
    <3>. HIDE DEF T
    <3>. QED
      BY <2>1, <2>2, PowersInduct
  <2>. QED
    BY <2>3, PowersAre
<1>9. ASSUME NEW k \in P
      PROVE  Partial(x, FFT_SIZE, k)
               = SumUpTo([n \in P |-> Times(x[n], Root(k * n))])[FFT_SIZE]
  <2>1. \A i \in P : i \in Int /\ i % FFT_SIZE = i
    <3>. TAKE i \in P
    <3>1. (FFT_SIZE * 0 + i) % FFT_SIZE = i /\ FFT_SIZE * 0 + i = i /\ i \in Int
      BY SizeType, Remainder DEF P, Positions
    <3>. QED
      BY <3>1
  <2>2. k - (k % FFT_SIZE) = 0 /\ k % FFT_SIZE = k /\ FFT_SIZE \div FFT_SIZE = 1
    BY <2>1, SizeType
  <2>3. Reversal(0) = 0
    BY ReversalCounts
  <2>4. \A n \in P : Times(x[(0 + n * 1) % FFT_SIZE], Root(k * n * 1)) = Times(x[n], Root(k * n))
    <3>. TAKE n \in P
    <3>1. 0 + n * 1 = n /\ k * n * 1 = k * n
      BY <2>1
    <3>. QED
      BY <2>1, <3>1
  <2>5. Term(x, 0, 1, k) = [n \in P |-> Times(x[n], Root(k * n))]
    BY <2>4 DEF Term, P
  <2>. QED
    BY <2>2, <2>3, <2>5 DEF Partial
<1>10. at(FFT_SIZE) = Dft(x)
  BY <1>9 DEF at, Dft, P
<1>. QED
  BY <1>1, <1>8, <1>10

-----------------------------------------------------------------------------
(* The spectrum of a block.                                                *)

\* What is transformed: the samples of the block times the window.
Weighted(samples) == [i \in Positions |-> Number(samples[i] * WINDOW[i], 0)]

\* The workspace holds numbers, and once a result is out the transforms of its
\* samples: nothing else writes to it.
WorkspaceInv ==
    /\ spectrum_workspace \in [Channels -> Numbers]
    /\ pc = "publish" /\ ~cmsis =>
         \A c \in Channels :
            spectrum_workspace[c] = Dft(Weighted(channel_samples[c]))

\* Samples and weights are integers, and what the workspace held does not matter.
LEMMA WindowedIs ==
  ASSUME NEW workspace \in Numbers, NEW samples \in [Positions -> Int]
  PROVE  /\ Windowed(workspace, samples) = Weighted(samples)
         /\ Weighted(samples) \in Numbers
<1>1. \A i \in Positions : samples[i] * WINDOW[i] \in Int /\ 0 * workspace[i].im = 0
  <2>. TAKE i \in Positions
  <2>1. workspace[i] \in Complex
    BY DEF Numbers
  <2>2. workspace[i].im \in Int
    BY <2>1, IsNumber
  <2>3. WINDOW[i] \in Int /\ samples[i] \in Int
    BY SpectrumAssumption DEF Field
  <2>. QED
    BY <2>2, <2>3
<1>2. \A i \in Positions : Number(samples[i] * WINDOW[i], 0) \in Complex
  BY <1>1, NumberType
<1>3. Windowed(workspace, samples) = Weighted(samples)
  BY <1>1 DEF Windowed, Weighted
<1>4. Weighted(samples) \in Numbers
  BY <1>2 DEF Weighted, Numbers
<1>. QED
  BY <1>3, <1>4

\* The definition makes numbers of numbers.
LEMMA DftType ==
  ASSUME NEW x \in Numbers
  PROVE  Dft(x) \in Numbers
<1>1. ASSUME NEW k \in Positions
      PROVE  SumUpTo([n \in Positions |-> Times(x[n], Root(k * n))])[FFT_SIZE]
               \in Complex
  <2>. DEFINE f == [n \in Positions |-> Times(x[n], Root(k * n))]
  <2>1. \A n \in Positions : Times(x[n], Root(k * n)) \in Complex
    <3>. TAKE n \in Positions
    <3>1. k * n \in Int
      BY BlockSize DEF Positions
    <3>. QED
      BY <3>1, RootType, RingType DEF Numbers
  <2>2. f \in Numbers
    BY <2>1 DEF Numbers
  <2>3. FFT_SIZE \in 0 .. FFT_SIZE
    BY BlockSize
  <2>. HIDE DEF f
  <2>4. SumUpTo(f)[FFT_SIZE] \in Complex
    BY <2>2, <2>3, SumUpToIs
  <2>. QED
    BY <2>4 DEF f
<1>. QED
  BY <1>1 DEF Dft, Numbers

\* The transforms of an analysis are those of its samples.
LEMMA TransformStep ==
  ASSUME SignalInv, WorkspaceInv, Analyse
  PROVE  WorkspaceInv'
<1>1. /\ pc = "analyse" /\ UNCHANGED <<cmsis, channel_samples>>
  BY DEF Analyse, input
<1>2. \A c \in Channels : channel_samples[c] \in [Positions -> Int]
  <2>1. /\ channel_samples = [c \in Channels |-> Unpacked(block[c])]
        /\ block \in [Channels -> [Positions -> 0 .. ADC_MAX]]
    BY <1>1, SignalAssumption DEF SignalInv
  <2>2. \A c \in Channels : block[c] \in [Positions -> Int]
    BY <2>1, SignalAssumption
  <2>. QED
    BY <2>1, <2>2, SamplesNarrow
<1>3. CASE cmsis
  <2>1. spectrum_workspace' = spectrum_workspace
    BY <1>3 DEF Analyse, Transform
  <2>. QED
    BY <1>1, <1>3, <2>1 DEF WorkspaceInv
<1>4. CASE ~cmsis
  <2>1. spectrum_workspace' =
          [c \in Channels |-> fft_in_place(Windowed(spectrum_workspace[c],
                                                    channel_samples[c]))]
    BY <1>4 DEF Analyse, Transform
  <2>2. ASSUME NEW c \in Channels
        PROVE  /\ spectrum_workspace'[c] = Dft(Weighted(channel_samples[c]))
               /\ Dft(Weighted(channel_samples[c])) \in Numbers
    <3>1. spectrum_workspace[c] \in Numbers
      BY DEF WorkspaceInv
    <3>2. /\ Windowed(spectrum_workspace[c], channel_samples[c])
               = Weighted(channel_samples[c])
          /\ Weighted(channel_samples[c]) \in Numbers
      BY <1>2, <3>1, WindowedIs
    <3>3. fft_in_place(Weighted(channel_samples[c]))
            = Dft(Weighted(channel_samples[c]))
      BY <3>2, FftIs
    <3>. QED
      BY <2>1, <3>2, <3>3, DftType
  <2>3. spectrum_workspace' \in [Channels -> Numbers]
    BY <2>1, <2>2
  <2>4. \A c \in Channels :
          spectrum_workspace'[c] = Dft(Weighted(channel_samples'[c]))
    BY <1>1, <2>2
  <2>. QED
    BY <2>3, <2>4 DEF WorkspaceInv
<1>. QED
  BY <1>3, <1>4

\* Every step preserves the invariant.
LEMMA WorkspaceInvStep == SignalInv /\ WorkspaceInv /\ [Next]_vars => WorkspaceInv'
<1>. SUFFICES ASSUME SignalInv, WorkspaceInv, [Next]_vars
             PROVE  WorkspaceInv'
  OBVIOUS
<1>1. CASE Analyse
  BY <1>1, TransformStep
<1>2. CASE Receive \/ Unpack \/ Reject \/ Publish
  <2>1. pc' # "publish" /\ spectrum_workspace' = spectrum_workspace
    BY <1>2 DEF Receive, Unpack, Reject, Publish, spectra
  <2>. QED
    BY <2>1 DEF WorkspaceInv
<1>3. CASE StatusSet \/ UNCHANGED vars
  <2>1. UNCHANGED <<pc, cmsis, channel_samples, spectrum_workspace>>
    BY <1>3 DEF StatusSet, vars, input, spectra
  <2>. QED
    BY <2>1 DEF WorkspaceInv
<1>. QED
  BY <1>1, <1>2, <1>3 DEF Next

\* It holds in every behaviour.
LEMMA WorkspaceInductive == Spec => []WorkspaceInv
<1>1. Init => WorkspaceInv
  <2>. SUFFICES ASSUME Init PROVE WorkspaceInv
    OBVIOUS
  <2>1. Number(0, 0) \in Complex
    BY NumberType
  <2>2. spectrum_workspace \in [Channels -> Numbers] /\ pc = "receive"
    BY <2>1 DEF Init, Numbers
  <2>. QED
    BY <2>2 DEF WorkspaceInv
<1>. QED
  BY <1>1, WorkspaceInvStep, SignalInductive, PTL DEF Spec

\* The bins come from this block's samples of this channel alone: for every size,
\* window and history of the workspace, the transform in place leaves the
\* discrete Fourier transform of the windowed samples.
THEOREM SpectrumIsOfBlock == Spec => []SpectrumOfBlock
<1>1. WorkspaceInv => SpectrumOfBlock
  BY DEF WorkspaceInv, SpectrumOfBlock, Weighted
<1>. QED
  BY <1>1, WorkspaceInductive, PTL

-----------------------------------------------------------------------------
(* Types.                                                                  *)

\* The step, the build and the bits of the status.
TypeInv ==
    /\ pc \in {"receive", "unpack", "analyse", "publish"}
    /\ cmsis \in BOOLEAN
    /\ status \subseteq SignalBits \cup StickyBits \cup {"DSP_DEADLINE"}

\* The check sets no other bits.
LEMMA CheckBits ==
  ASSUME NEW frequency, NEW processing_us
  PROVE  spectrum_health_check(frequency, processing_us)
           \subseteq SignalBits \cup {"DSP_DEADLINE"}
<1>1. \A c \in Channels : Faults(channel_samples[c], channel_clipped_samples[c],
                                 frequency[c]) \subseteq SignalBits
  BY DEF Faults, SignalBits
<1>. DEFINE faults == UNION {Faults(channel_samples[c], channel_clipped_samples[c],
                                    frequency[c]) : c \in Channels}
<1>2. faults \subseteq SignalBits
  BY <1>1
<1>. HIDE DEF faults
<1>3. spectrum_health_check(frequency, processing_us)
        = faults \cup (IF faults = {} THEN {"SIGNAL_VALID"} ELSE {})
                 \cup (IF processing_us > DSP_DEADLINE THEN {"DSP_DEADLINE"} ELSE {})
  BY DEF spectrum_health_check, faults
<1>. QED
  BY <1>2, <1>3 DEF SignalBits

\* Every step preserves it.
LEMMA TypeInvStep == SignalInv /\ TypeInv /\ [Next]_vars => TypeInv'
<1>. SUFFICES ASSUME SignalInv, TypeInv, [Next]_vars
             PROVE  TypeInv'
  OBVIOUS
<1>1. CASE Analyse
  <2>1. PICK processing_us \in ProcessingTimes :
          status' = status \cup sticky_status
                      \cup spectrum_health_check(dominant', processing_us)
    BY <1>1 DEF Analyse
  <2>2. /\ status = {} /\ sticky_status \subseteq StickyBits
        /\ pc' = "publish" /\ cmsis' = cmsis
    BY <1>1 DEF Analyse, SignalInv
  <2>3. spectrum_health_check(dominant', processing_us)
          \subseteq SignalBits \cup {"DSP_DEADLINE"}
    BY CheckBits
  <2>. QED
    BY <2>1, <2>2, <2>3 DEF TypeInv
<1>2. CASE Receive
  BY <1>2 DEF Receive, TypeInv
<1>3. CASE Unpack \/ Reject \/ Publish
  BY <1>3 DEF Unpack, Reject, Publish, TypeInv
<1>4. CASE StatusSet \/ UNCHANGED vars
  BY <1>4 DEF StatusSet, vars, TypeInv
<1>. QED
  BY <1>1, <1>2, <1>3, <1>4 DEF Next

\* It holds in every behaviour.
LEMMA TypeInductive == Spec => []TypeInv
<1>1. Init => TypeInv
  BY DEF Init, TypeInv
<1>. QED
  BY <1>1, TypeInvStep, SignalInductive, PTL DEF Spec

\* A sample is an int16_t, and no more words clip than there are.
LEMMA UnpackedType ==
  ASSUME NEW word \in [Positions -> Int]
  PROVE  /\ Unpacked(word) \in [Positions -> Int16]
         /\ Clipped(word) \in 0 .. FFT_SIZE
<1>1. WORD = 2 * (WORD \div 2) /\ WORD \div 2 \in Nat
  <2>1. WORD \in Nat /\ WORD % 2 = 0
    BY SampleSize, SignalAssumption
  <2>. QED
    BY <2>1
<1>2. \A x \in Int : Narrow(x) \in Int16
  <2>. TAKE x \in Int
  <2>1. Narrow(x) \in Int /\ -(WORD \div 2) <= Narrow(x)
        /\ Narrow(x) < WORD - (WORD \div 2)
    BY NarrowInt16
  <2>. QED
    BY <1>1, <2>1 DEF Int16
<1>3. Unpacked(word) \in [Positions -> Int16]
  <2>1. \A i \in Positions : Unpacked(word)[i] \in Int16
    BY <1>2, SamplesNarrow
  <2>2. Unpacked(word) \in [Positions -> Int]
    BY SamplesNarrow
  <2>. QED
    BY <2>1, <2>2
<1>4. Clipped(word) \in 0 .. FFT_SIZE
  <2>. DEFINE S == {i \in Positions : AtRail(word[i])}
  <2>1. IsFiniteSet(Positions) /\ Cardinality(Positions) = FFT_SIZE
    <3>1. FFT_SIZE \in Nat \ {0}
      BY BlockSize
    <3>2. /\ IsFiniteSet(0 .. FFT_SIZE - 1)
          /\ Cardinality(0 .. FFT_SIZE - 1)
               = IF 0 > FFT_SIZE - 1 THEN 0 ELSE (FFT_SIZE - 1) - 0 + 1
      BY <3>1, FS_Interval
    <3>. QED
      BY <3>1, <3>2 DEF Positions
  <2>2. S \in SUBSET Positions
    OBVIOUS
  <2>. HIDE DEF S
  <2>3. IsFiniteSet(S) /\ Cardinality(S) <= Cardinality(Positions)
    BY <2>1, <2>2, FS_Subset
  <2>4. Cardinality(S) \in Nat
    BY <2>3, FS_CardinalityType
  <2>5. FFT_SIZE \in Nat
    BY BlockSize
  <2>. QED
    BY <2>1, <2>3, <2>4, <2>5 DEF Clipped, S
<1>. QED
  BY <1>3, <1>4

\* Everything has its type: samples fit an int16_t, the workspace stays in the
\* field, frequencies are not negative, and the status holds bits that exist.
THEOREM SignalTypeCorrect == Spec => []TypeOK
<1>1. ASSUME SignalInv, WorkspaceInv, TypeInv
      PROVE  TypeOK
  <2>1. ASSUME pc \in {"analyse", "publish"}
        PROVE  /\ block \in Blocks
               /\ channel_samples \in [Channels -> [Positions -> Int16]]
               /\ channel_clipped_samples \in [Channels -> 0 .. FFT_SIZE]
    <3>1. /\ block \in Blocks
          /\ channel_samples = [c \in Channels |-> Unpacked(block[c])]
          /\ channel_clipped_samples = [c \in Channels |-> Clipped(block[c])]
      BY <1>1, <2>1 DEF SignalInv
    <3>2. \A c \in Channels : block[c] \in [Positions -> Int]
      BY <3>1, SignalAssumption
    <3>3. \A c \in Channels : /\ Unpacked(block[c]) \in [Positions -> Int16]
                              /\ Clipped(block[c]) \in 0 .. FFT_SIZE
      BY <3>2, UnpackedType
    <3>. QED
      BY <3>1, <3>3
  <2>2. ASSUME pc = "publish"
        PROVE  /\ amplitudes \in [Channels -> [Bins -> Nat]]
               /\ dominant \in [Channels -> Nat]
    <3>1. /\ amplitudes \in [Channels -> [Bins -> Nat]]
          /\ dominant = [c \in Channels |-> dominant_millihz(amplitudes[c])]
      BY <1>1, <2>2 DEF SignalInv
    <3>2. \A c \in Channels : dominant_millihz(amplitudes[c]) \in Nat
      <4>. TAKE c \in Channels
      <4>1. dominant_millihz(amplitudes[c]) \in Word32
        BY <3>1, DominantFits
      <4>. QED
        BY <4>1, LayoutAssumption DEF Word32
    <3>. QED
      BY <3>1, <3>2
  <2>3. spectrum_workspace \in [Channels -> [Positions -> Complex]]
    BY <1>1 DEF WorkspaceInv, Numbers
  <2>. QED
    BY <1>1, <2>1, <2>2, <2>3 DEF TypeOK, TypeInv, SignalInv
<1>. QED
  BY <1>1, SignalInductive, WorkspaceInductive, TypeInductive, PTL

=============================================================================
