-------------------------- MODULE FourierTransform --------------------------
(* fft.c: the transforms of a window of BUFFER_SIZE samples.  The arithmetic  *)
(* is exact, in the ring of the integer polynomials in z, the root of unity   *)
(* of order BUFFER_SIZE (so that z^Half = -1), written as their coefficients. *)
EXTENDS Integers

CONSTANT BUFFER_SIZE

\* A power of two: a number without odd divisors but 1.
ASSUME BufferAssumption ==
    /\ BUFFER_SIZE \in Nat \ {0, 1}
    /\ \A N \in 2 .. BUFFER_SIZE : BUFFER_SIZE % N = 0 => N % 2 = 0

Columns == 0 .. BUFFER_SIZE - 1
Half == BUFFER_SIZE \div 2
Powers == 0 .. Half - 1
Ring == [Powers -> Int]

Scalar(v) == [c \in Powers |-> IF c = 0 THEN v ELSE 0]
RingPlus(a, b)  == [c \in Powers |-> a[c] + b[c]]
RingMinus(a, b) == [c \in Powers |-> a[c] - b[c]]

\* The coefficient of z^i, for every i: z^Half = -1.
Coefficient(a, i) ==
    LET j == i % BUFFER_SIZE IN IF j < Half THEN a[j] ELSE -a[j - Half]

\* a rotated by m columns of a turn, times z^m.
Rotated(a, m) == [c \in Powers |-> Coefficient(a, c - m)]
-----------------------------------------------------------------------------
\* Mutants: the twiddle factors turn the other way; both halves added.
Butterfly_conjugated(t, u, k, N) ==
    IF k < N \div 2 THEN RingPlus(t, Rotated(u, k * (BUFFER_SIZE \div N)))
                    ELSE RingMinus(t, Rotated(u, (k - N \div 2) * (BUFFER_SIZE \div N)))

Butterfly_added(t, u, k, N) ==
    RingPlus(t, Rotated(u, -((k % (N \div 2)) * (BUFFER_SIZE \div N))))

\* The k-th output of a step of length N, from the same output of its halves.
Butterfly(t, u, k, N) ==
    IF k < N \div 2 THEN RingPlus(t, Rotated(u, -(k * (BUFFER_SIZE \div N))))
                    ELSE RingMinus(t, Rotated(u, -((k - N \div 2) * (BUFFER_SIZE \div N))))

\* The steps of length N: each takes its N samples BUFFER_SIZE \div N apart,
\* from off on, and combines the step from the same sample with the one from
\* the next of its samples.
Combined(half, N) ==
    [off \in 0 .. (BUFFER_SIZE \div N) - 1 |-> [k \in 0 .. N - 1 |->
        Butterfly(half[off][k % (N \div 2)],
                  half[off + (BUFFER_SIZE \div N)][k % (N \div 2)], k, N)]]

fft_radix2(x) ==
    LET step[N \in 1 .. BUFFER_SIZE] ==
            IF N = 1 THEN [off \in Columns |-> [k \in {0} |-> Scalar(x[off])]]
                     ELSE Combined(step[N \div 2], N)
    IN  step

fft(x) == fft_radix2(x)[BUFFER_SIZE][0]

\* The definition of the transform, output by output: X[n] after n samples.
fft_slow(x, k) ==
    LET X[n \in 0 .. BUFFER_SIZE] ==
            IF n = 0 THEN Scalar(0)
                     ELSE RingPlus(X[n - 1], Rotated(Scalar(x[n - 1]), -((n - 1) * k)))
    IN  X[BUFFER_SIZE]
=============================================================================
