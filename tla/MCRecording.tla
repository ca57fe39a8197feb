----------------------------- MODULE MCRecording -----------------------------
(* Small files for RecordingHandOver: whole windows, a last window cut short  *)
(* at each length, and a short line at each place; and their replacement by   *)
(* formatted exports.                                                         *)
EXTENDS RecordingHandOver

CONSTANT MaxLines   \* bound on the length of a file put there by hand

Full(n) == [i \in 1 .. n |-> NUM_CHANNELS]

MCFiles ==
    {Full(n) : n \in 0 .. MaxLines}
      \cup {[Full(n) EXCEPT ![k] = t] :
              n \in 4 .. MaxLines, k \in 1 .. 4, t \in 1 .. (NUM_CHANNELS - 1)}

\* Nothing put there by hand.
NoFiles == {<<>>}
=============================================================================
