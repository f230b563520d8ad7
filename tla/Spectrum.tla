------------------------------ MODULE Spectrum ------------------------------
(***************************************************************************)
(* spectrum_analyze_q15: the transform in place of core/spectrum.c, and    *)
(* the search for the dominant frequency, in it and in the target's        *)
(* platform/stm32f446/spectrum_cmsis.c (there the transform is CMSIS-DSP's *)
(* and external).                                                          *)
(*                                                                         *)
(* The transform needs of its floats only that they are a field with a     *)
(* primitive root of unity.  Here it is a prime field, in which COS holds  *)
(* the cosines, so that the sums are exact and TLC can compare them.       *)
(* Amplitudes are integers, frequencies millihertz.                        *)
(***************************************************************************)
EXTENDS Integers, FiniteSetsExt

CONSTANTS
    FFT_SIZE,
    PRIME,       \* the field's size
    COS,         \* index -> cosine of that many FFT_SIZE-th parts of the circle
    WINDOW,      \* index -> weight
    BIN_MILLIHZ, \* distance of two bins
    Q15_MAX      \* 32767 in the code

Positions == 0 .. FFT_SIZE - 1
Field == 0 .. PRIME - 1
Powers == {p \in {1, 2, 4, 8, 16, 32, 64, 128, 256, 512, 1024} : p <= FFT_SIZE}
BINS == FFT_SIZE \div 2
Bins == 0 .. BINS - 1

ASSUME SpectrumAssumption ==
    /\ FFT_SIZE \in {4, 8, 16, 32, 64, 128, 256, 512, 1024}
    /\ PRIME \in Nat \ {0} /\ COS \in [Positions -> Field]
    /\ WINDOW \in [Positions -> Field]
    /\ BIN_MILLIHZ \in Nat /\ Q15_MAX \in Nat

-----------------------------------------------------------------------------
(* Complex numbers over the field.                                         *)

Complex == [re : Field, im : Field]
Number(re, im) == [re |-> re % PRIME, im |-> im % PRIME]
Plus(a, b) == Number(a.re + b.re, a.im + b.im)
Minus(a, b) == Number(a.re - b.re, a.im - b.im)
Times(a, b) == Number(a.re * b.re - a.im * b.im, a.re * b.im + a.im * b.re)

\* e^(-2 pi i k / FFT_SIZE).
Root(k) == Number(COS[k % FFT_SIZE], -COS[(k - FFT_SIZE \div 4) % FFT_SIZE])

\* COS holds the cosines: the angles of the roots add up.
ASSUME RootAssumption ==
    /\ Root(0) = Number(1, 0) /\ Root(FFT_SIZE \div 2) = Number(-1, 0)
    /\ \A j, k \in Positions : Times(Root(j), Root(k)) = Root(j + k)

-----------------------------------------------------------------------------
(* fft_in_place.                                                           *)

\* Counting up from the highest bit: set the highest bit that is clear, clear
\* those above it.
ReverseIncrement(j) ==
    LET bit == Max({b \in Powers \ {FFT_SIZE} : (j \div b) % 2 = 0})
    IN  j + 3 * bit - FFT_SIZE

Swapped(data, i, j) == [data EXCEPT ![i] = data[j], ![j] = data[i]]

bit_reverse(data) ==
    LET loop[i \in Positions] ==
            IF i = 0 THEN [j |-> 0, data |-> data]
            ELSE LET before == loop[i - 1]
                     j == ReverseIncrement(before.j)
                 IN  [j |-> j, data |-> IF i < j THEN Swapped(before.data, i, j)
                                        ELSE before.data]
    IN  loop[FFT_SIZE - 1].data

Butterfly(data, even, odd, w) ==
    LET t == Times(w, data[odd])
    IN  [data EXCEPT ![odd] = Minus(data[even], t),
                     ![even] = Plus(data[even], t)]

\* One group of "length" numbers; the root is carried from offset to offset.
Group(data, base, length) ==
    LET half == length \div 2
        loop[n \in 0 .. half] ==
            IF n = 0 THEN [w |-> Number(1, 0), data |-> data]
            ELSE LET before == loop[n - 1]
                     even == base + n - 1
                 IN  [w |-> Times(before.w, Root(FFT_SIZE \div length)),
                      data |-> Butterfly(before.data, even, even + half, before.w)]
    IN  loop[half].data

Stage(data, length) ==
    LET loop[n \in 0 .. FFT_SIZE \div length] ==
            IF n = 0 THEN data ELSE Group(loop[n - 1], (n - 1) * length, length)
    IN  loop[FFT_SIZE \div length]

fft_in_place(data) ==
    LET loop[length \in Powers] ==
            IF length = 1 THEN bit_reverse(data)
            ELSE Stage(loop[length \div 2], length)
    IN  loop[FFT_SIZE]

\* mutant: the imaginary parts of the transform before are left in
Windowed_KeepsImag(workspace, samples) ==
    [i \in Positions |-> Number(samples[i] * WINDOW[i], workspace[i].im)]

\* The workspace before the transform: what it held is overwritten.
Windowed(workspace, samples) ==
    [i \in Positions |-> Number(samples[i] * WINDOW[i], 0 * workspace[i].im)]

\* The definition of the transform, for comparison.
SumUpTo(f) == LET sum[n \in 0 .. FFT_SIZE] ==
                      IF n = 0 THEN Number(0, 0) ELSE Plus(sum[n - 1], f[n - 1])
              IN  sum

Dft(data) ==
    [k \in Positions |->
       SumUpTo([n \in Positions |-> Times(data[n], Root(k * n))])[FFT_SIZE]]

-----------------------------------------------------------------------------
(* The dominant frequency.                                                 *)

\* spectrum_cmsis.c saturates the amplitudes before it compares them.
Corrected(amplitudes) ==
    [b \in Bins |-> IF amplitudes[b] > Q15_MAX THEN Q15_MAX ELSE amplitudes[b]]

IsLargest(amplitudes, bin) ==
    /\ bin \in Bins \ {0}
    /\ \A b \in Bins \ {0} : amplitudes[b] <= amplitudes[bin]

\* Bin 0 does not count; of equal ones, and of no amplitude at all, the first.
LargestBin(amplitudes) == Min({b \in Bins : IsLargest(amplitudes, b)})

\* mutant: the parabola's vertex may lie anywhere
Clamped_Not(x, limit) == x

Clamped(x, limit) == IF x < -limit THEN -limit ELSE IF x > limit THEN limit ELSE x

\* The vertex of the parabola through the largest bin and its neighbours, as a
\* fraction of twice the denominator.
dominant_millihz(amplitudes) ==
    LET bin == LargestBin(amplitudes)
        left == amplitudes[bin - 1]
        right == amplitudes[bin + 1]
        curve == left - 2 * amplitudes[bin] + right
        denominator == IF curve < 0 THEN -curve ELSE curve
        delta == Clamped(IF curve < 0 THEN right - left ELSE left - right,
                         denominator)
    IN  IF bin + 1 = BINS \/ curve = 0 THEN bin * BIN_MILLIHZ
        ELSE (BIN_MILLIHZ * (2 * bin * denominator + delta) + denominator)
               \div (2 * denominator)

=============================================================================
