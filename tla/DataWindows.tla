----------------------------- MODULE DataWindows -----------------------------
(* dataModule.c and the call of it in get_phasors (phasor.c): each pass of a  *)
(* relay loop asks for the next window of samples of Dados/dados.txt.  A      *)
(* sample is named by the number of the line it was read from; 0 is the zero  *)
(* of the static buffer that no line has overwritten yet.                     *)
EXTENDS Integers, Sequences, FiniteSets

CONSTANTS
    BUFFER_SIZE,    \* samples of a window: 32
    NUM_CHANNELS,   \* columns of the file: 6
    MaxCalls,       \* call_count is not followed beyond this bound
    Files           \* the files a fault may be recorded in: a file is the
                    \* sequence of its lines' numbers of comma-separated fields

ASSUME DataAssumption ==
    /\ {BUFFER_SIZE, NUM_CHANNELS, MaxCalls} \subseteq Nat \ {0}
    /\ \A f \in Files : f \in Seq(Nat \ {0})

Columns == 1 .. BUFFER_SIZE
Channels == 1 .. NUM_CHANNELS

VARIABLES
    dados,          \* the file, once it exists
    exists,
    file,           \* the static FILE* is open
    current_line,   \* lines consumed
    call_count,
    buffer,         \* the static samples, by channel and column
    result,         \* of the last data_read: "none", "null", "matrix"
    disturbed       \* dados has changed since the relay opened it

fileVars == <<dados, exists, disturbed>>
dataVars == <<file, current_line, call_count, buffer, result>>

DataTypeOK ==
    /\ dados \in Seq(Nat \ {0}) /\ {exists, file, disturbed} \subseteq BOOLEAN
    /\ current_line \in Nat
    /\ call_count \in 0 .. MaxCalls
    /\ buffer \in [Channels -> [Columns -> 0 .. current_line + BUFFER_SIZE]]
    /\ result \in {"none", "null", "matrix"}
    /\ ~disturbed => current_line <= Len(dados)

DataInit ==
    /\ dados \in Files /\ exists \in BOOLEAN /\ disturbed = FALSE
    /\ file = FALSE /\ current_line = 0 /\ call_count = 0
    /\ buffer = [ch \in Channels |-> [i \in Columns |-> 0]]
    /\ result = "none"
-----------------------------------------------------------------------------
\* The lines one call can reach after skipping current_line of them, as
\* columns of the window; and those among them with too few fields.
Reached == {i \in Columns : current_line + i <= Len(dados)}
Short == {i \in Reached : dados[current_line + i] < NUM_CHANNELS}

\* The columns before the first short line are read in full; of the short
\* line the fields it has.
Overwritten(ch, i) ==
    /\ i \in Reached
    /\ \A j \in Short : i < j \/ (i = j /\ ch <= dados[current_line + i])

ReadBuffer ==
    [ch \in Channels |-> [i \in Columns |->
        IF Overwritten(ch, i) THEN current_line + i ELSE buffer[ch][i]]]

\* The skip loop finds current_line lines.
Skipped == current_line <= Len(dados)

Opens == (file \/ exists) /\ file' = TRUE

Counted == call_count' = IF call_count < MaxCalls THEN call_count + 1 ELSE call_count

\* fopen fails: NULL, and the next call tries again.
data_read_no_file ==
    /\ ~file /\ ~exists
    /\ result' = "null"
    /\ UNCHANGED <<file, current_line, call_count, buffer>> /\ UNCHANGED fileVars

\* The file has become shorter than what was read of it: NULL.
data_read_past_end ==
    /\ Opens /\ ~Skipped
    /\ result' = "null"
    /\ UNCHANGED <<current_line, call_count, buffer>> /\ UNCHANGED fileVars

\* Mutants: the lines read before the short one count as read; the failed
\* call is counted.
data_read_short_line_advances ==
    /\ Opens /\ Skipped /\ Short # {}
    /\ buffer' = ReadBuffer /\ result' = "null"
    /\ current_line' = current_line + Cardinality(Reached)
    /\ UNCHANGED call_count /\ UNCHANGED fileVars

data_read_short_line_counted ==
    /\ Opens /\ Skipped /\ Short # {}
    /\ buffer' = ReadBuffer /\ result' = "null"
    /\ Counted
    /\ UNCHANGED current_line /\ UNCHANGED fileVars

\* A line without enough fields: NULL from the middle of the window, whose
\* columns so far stay overwritten; current_line is not moved.
data_read_short_line ==
    /\ Opens /\ Skipped /\ Short # {}
    /\ buffer' = ReadBuffer
    /\ result' = "null"
    /\ UNCHANGED <<current_line, call_count>> /\ UNCHANGED fileVars

\* A window is read and current_line moves on by that many lines.
WindowRead(lines) ==
    /\ Opens /\ Skipped /\ Short = {}
    /\ buffer' = ReadBuffer /\ result' = "matrix"
    /\ current_line' = current_line + lines
    /\ Counted
    /\ UNCHANGED fileVars

\* Mutants: current_line moves by a whole window at the end of the file too;
\* windows overlap by one line; a window cut short is not returned.
data_read_window_whole == WindowRead(BUFFER_SIZE)

data_read_window_overlaps ==
    WindowRead(IF Reached = Columns /\ BUFFER_SIZE > 1
               THEN BUFFER_SIZE - 1 ELSE Cardinality(Reached))

data_read_window_onlyFull == Reached = Columns /\ WindowRead(BUFFER_SIZE)

\* The window is returned, however few of its columns the file still filled.
data_read_window == WindowRead(Cardinality(Reached))

data_read ==
    data_read_no_file \/ data_read_past_end \/ data_read_short_line \/ data_read_window

\* Dados/dados.txt is written, or written again.
Rewritten(content) ==
    /\ exists' = TRUE /\ dados' = content
    /\ disturbed' = (disturbed \/ file)

\* A recording is put there by hand while the relay waits for one.
FileWritten == ~exists /\ Rewritten(dados) /\ UNCHANGED dataVars

\* What get_phasors computes the phasors of: nothing (six zero phasors) or
\* the samples of every channel.
Measured == IF result = "matrix" THEN buffer ELSE <<>>
-----------------------------------------------------------------------------
Newest(i) == CHOOSE n \in 0 .. current_line :
    /\ n = 0 \/ (n - 1) % BUFFER_SIZE = i - 1
    /\ \A m \in 1 .. current_line : (m - 1) % BUFFER_SIZE = i - 1 => m <= n

(* Every window a relay measures of a file that is left alone holds in column *)
(* i of EVERY channel the newest line read whose place in its window is i:    *)
(* samples stay in phase with the window, no line is skipped or read twice,   *)
(* and channels are never of different instants - before the end of the file  *)
(* and after it.                                                              *)
SamplesInPlace ==
    ~disturbed /\ Measured # <<>> =>
        \A ch \in Channels, i \in Columns : Measured[ch][i] = Newest(i)

(* Until the file ends the number data_read prints is the window's number.    *)
CountsWindows ==
    ~disturbed /\ current_line < Len(dados) /\ call_count < MaxCalls
        => current_line = call_count * BUFFER_SIZE

(* A short line is never measured, nor is anything after it: the relay is     *)
(* left with zero phasors, which restrain it, until somebody restarts it.     *)
NothingPastShortLine ==
    ~disturbed => \A n \in 1 .. current_line : dados[n] >= NUM_CHANNELS

(* The strengthening that makes the three properties above inductive.  Until  *)
(* the file is open nothing was read of it; the lines consumed are whole      *)
(* windows unless the file has ended; and only a short line that stops every  *)
(* later call leaves the buffer out of place.                                 *)
UnreadInv ==
    ~file => /\ current_line = 0 /\ call_count = 0
             /\ buffer = [ch \in Channels |-> [i \in Columns |-> 0]]

AlignInv == ~disturbed => current_line = Len(dados) \/ current_line % BUFFER_SIZE = 0

PlaceInv ==
    ~disturbed => \/ Short # {} /\ result # "matrix"
                  \/ \A ch \in Channels, i \in Columns : buffer[ch][i] = Newest(i)

WindowInv == UnreadInv /\ AlignInv /\ PlaceInv /\ CountsWindows /\ NothingPastShortLine

WellFormed == \A n \in 1 .. Len(dados) : dados[n] >= NUM_CHANNELS
=============================================================================
