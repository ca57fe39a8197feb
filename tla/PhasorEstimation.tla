-------------------------- MODULE PhasorEstimation --------------------------
(* compute_phasor of phasor.c: the phasor of a channel is the strongest bin   *)
(* of the transform of its window.  The program has 32 samples in a window;   *)
(* magnitudes are compared here for 8, whose squares are p + q * sqrt(2).     *)
EXTENDS FourierTransform

CONSTANT MaxSample   \* bound on the samples, in units of their resolution

ASSUME MaxSampleAssumption == MaxSample \in Nat \ {0}

\* |a|^2 = p + q * sqrt(2).
SquaredMagnitude(a) ==
    [p |-> a[0] * a[0] + a[1] * a[1] + a[2] * a[2] + a[3] * a[3],
     q |-> a[0] * a[1] + a[1] * a[2] + a[2] * a[3] - a[0] * a[3]]

Exceeds(s, t) ==
    LET p == s.p - t.p
        q == s.q - t.q
    IN  \/ p > 0 /\ (q >= 0 \/ p * p > 2 * q * q)
        \/ q > 0 /\ (p >= 0 \/ 2 * q * q > p * p)
-----------------------------------------------------------------------------
\* Mutant: the loop starts at 1.
SearchedBins_noDC == 1 .. BUFFER_SIZE \div 2 - 1

SearchedBins == 0 .. BUFFER_SIZE \div 2 - 1

\* Mutant: the real parts are compared, not the magnitudes.
Strongest_real(phasors) ==
    CHOOSE p \in phasors :
        \A o \in phasors :
            /\ o.value[0] <= p.value[0]
            /\ o.bin < p.bin => o.value[0] < p.value[0]

\* max_index: the first of the strongest bins.
Strongest(phasors) ==
    CHOOSE p \in phasors :
        \A o \in phasors :
            /\ ~Exceeds(SquaredMagnitude(o.value), SquaredMagnitude(p.value))
            /\ o.bin < p.bin =>
                  Exceeds(SquaredMagnitude(p.value), SquaredMagnitude(o.value))

\* The phasor before the scaling by 2/BUFFER_SIZE: its bin and its complex
\* value, of which the code returns the magnitude and the angle.
compute_phasor(x) ==
    LET X == fft(x) IN Strongest({[bin |-> k, value |-> X[k]] : k \in SearchedBins})
-----------------------------------------------------------------------------
VARIABLES
    buffer,   \* a channel of the static samples
    phasor    \* of the last window

phasorVars == <<buffer, phasor>>

NoPhasor == [bin |-> -1, value |-> Scalar(0)]

PhasorInit ==
    /\ buffer = [n \in Columns |-> 0]
    /\ phasor = NoPhasor

\* data_read fills the window, with anything, and its phasor is computed.
get_phasors ==
    /\ phasor = NoPhasor
    /\ buffer' \in [Columns -> -MaxSample .. MaxSample]
    /\ phasor' = compute_phasor(buffer')

\* The next window overwrites the one before, which is forgotten here.
NextWindow ==
    /\ phasor # NoPhasor
    /\ phasor' = NoPhasor
    /\ buffer' = [n \in Columns |-> 0]

PhasorNext == get_phasors \/ NextWindow

PhasorSpec == PhasorInit /\ [][PhasorNext]_phasorVars

Estimated == phasor # NoPhasor

\* What is known of a phasor: of which window it is.
PhasorInv ==
    Estimated => /\ buffer \in [Columns -> -MaxSample .. MaxSample]
                 /\ phasor = compute_phasor(buffer)
-----------------------------------------------------------------------------
(* The recursive transform is the discrete Fourier transform of the window.   *)
FftIsDft ==
    Estimated => LET X == fft(buffer) IN \A k \in Columns : X[k] = fft_slow(buffer, k)

Later(x) == [n \in Columns |-> x[(n + 1) % BUFFER_SIZE]]

(* A window that starts one sample later in the same periodic signal has its  *)
(* phasor in the same bin, of the same magnitude, turned forward by that      *)
(* bin's angle: the phasors of channels in the same bin turn together, so     *)
(* impedances and angle differences do not depend on when the window starts.  *)
LaterWindowTurns ==
    Estimated =>
        LET later == compute_phasor(Later(buffer))
        IN  /\ later.bin = phasor.bin
            /\ later.value = Rotated(phasor.value, phasor.bin)

Alternating(x) == \A n \in Columns : x[(n + 1) % BUFFER_SIZE] = -x[n]

(* No signal below half the sampling rate goes unseen: the phasor is zero     *)
(* only of a window that holds nothing but half the sampling rate itself.     *)
NothingUnseen ==
    Estimated => (phasor.value = Scalar(0) <=> Alternating(buffer))

Fundamental == [n \in Columns |-> <<1, 1, 0, -1, -1, -1, 0, 1>>[n + 1]]
Delayed(x, r) == [n \in Columns |-> x[(n + r) % BUFFER_SIZE]]

(* One disturbed sample in a cycle of the fundamental, whichever and wherever *)
(* the window starts, leaves the phasor in the fundamental's bin: channels    *)
(* with at most that much distortion are compared at the same frequency.      *)
OneBadSampleTolerated ==
    Estimated /\ (\E r, n \in Columns :
                      LET good == Delayed(Fundamental, r)
                      IN  /\ buffer[n] - good[n] \in {-1, 0, 1}
                          /\ \A m \in Columns \ {n} : buffer[m] = good[m])
        => phasor.bin = 1
=============================================================================
