----------------------------- MODULE Eisenstein -----------------------------
(* Phasors of a three-phase line as Eisenstein integers: a + b*w, w = 1 at    *)
(* 120 degrees, written <<a, b>>.  The turns between the phases and the       *)
(* differences of two voltages are exact.                                     *)
EXTENDS Integers

Plus(u, v)  == <<u[1] + v[1], u[2] + v[2]>>
Minus(u, v) == <<u[1] - v[1], u[2] - v[2]>>
Scale(k, v) == <<k * v[1], k * v[2]>>
Times(u, v) == <<u[1] * v[1] - u[2] * v[2],
                 u[1] * v[2] + u[2] * v[1] - u[2] * v[2]>>
Conjugate(v) == <<v[1] - v[2], -v[2]>>
Norm(v) == v[1] * v[1] - v[1] * v[2] + v[2] * v[2]   \* squared magnitude
Zero == <<0, 0>>
Sextant == <<1, 1>>   \* 1 at 60 degrees

Phases == {"A", "B", "C"}
NextPhase == [A |-> "B", B |-> "C", C |-> "A"]

\* A healthy, balanced set of voltages.
Healthy == [A |-> <<1, 0>>, B |-> <<-1, -1>>, C |-> <<0, 1>>]
=============================================================================
