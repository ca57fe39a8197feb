-------------------------- MODULE RecordingHandOver --------------------------
(* From an export of the ATP simulation to the samples a relay measures: the  *)
(* formatter scripts of Codigos_auxiliares (the two differ in the scale of    *)
(* three columns), whose relative paths depend on the directory they are run  *)
(* in, and data_read, which may be reading Dados/dados.txt meanwhile.         *)
EXTENDS DataWindows

CONSTANTS
    MaxExports,    \* exports followed
    LINES,         \* lines of a formatted export
    Flushes        \* how many fields of a file may have reached the disk when
                   \* a buffer is written out before the file is complete

ASSUME HandOverAssumption ==
    /\ {MaxExports, LINES} \subseteq Nat \ {0}
    /\ Flushes \subseteq Nat

\* Where a script may be run: the root of the repository, or its directory.
Dirs == {"root", "Codigos_auxiliares"}
None == 0   \* no file, or one that is not an export

VARIABLES
    exported, \* the number of the newest export
    adf,      \* of which export each directory's dados.adf is
    tmp,      \* each directory's dados_tmp.txt
    script,   \* the run in progress: pc, directory, export read
    saida     \* dados.txt

scriptVars == <<exported, adf, tmp, script, saida>>
vars == <<fileVars, dataVars, scriptVars>>

Exports == 0 .. MaxExports

\* A file reaches the disk in chunks that end anywhere, inside a line too.
Whole == NUM_CHANNELS * LINES
Written == 0 .. Whole

\* A file a script wrote: of which export it is, how much of it is written,
\* and whether a run was stopped that wrote it or what it was made from.
Copies == [of : Exports, written : Written, stopped : BOOLEAN]

NoCopy == [of |-> None, written |-> 0, stopped |-> FALSE]

Content(written) ==
    [k \in 1 .. ((written + NUM_CHANNELS - 1) \div NUM_CHANNELS) |->
        IF k * NUM_CHANNELS <= written THEN NUM_CHANNELS ELSE written % NUM_CHANNELS]

TypeOK ==
    /\ DataTypeOK
    /\ exported \in Exports
    /\ adf \in [Dirs -> Exports] /\ tmp \in [Dirs -> Copies] /\ saida \in Copies
    /\ script \in [pc : {"idle", "read", "tmp", "fill", "open", "truncate", "write"},
                   dir : Dirs, read : Exports]

Idle == [pc |-> "idle", dir |-> "root", read |-> None]

Init ==
    /\ DataInit
    /\ exported = None
    /\ adf = [d \in Dirs |-> None] /\ tmp = [d \in Dirs |-> NoCopy]
    /\ script = Idle
    /\ saida = NoCopy
-----------------------------------------------------------------------------
\* The simulation is exported again; the file is saved where the user likes.
Export ==
    /\ script.pc = "idle" /\ exported < MaxExports
    /\ exported' = exported + 1
    /\ \E d \in Dirs : adf' = [adf EXCEPT ![d] = exported + 1]
    /\ UNCHANGED <<tmp, script, saida>> /\ UNCHANGED fileVars

RunScript ==
    /\ script.pc = "idle" /\ exported # None
    /\ \E d \in Dirs : script' = [Idle EXCEPT !.pc = "read", !.dir = d]
    /\ UNCHANGED <<exported, adf, tmp, saida>> /\ UNCHANGED fileVars

\* open("dados.adf", "r"): relative to the directory; an exception ends the run.
ReadAdf ==
    /\ script.pc = "read"
    /\ script' = IF adf[script.dir] # None
                 THEN [script EXCEPT !.pc = "tmp", !.read = adf[script.dir]] ELSE Idle
    /\ UNCHANGED <<exported, adf, tmp, saida>> /\ UNCHANGED fileVars

\* open("dados_tmp.txt", "w"): beside it; whatever it held is gone.
OpenTmp ==
    /\ script.pc = "tmp"
    /\ tmp' = [tmp EXCEPT ![script.dir] = [NoCopy EXCEPT !.of = script.read]]
    /\ script' = [script EXCEPT !.pc = "fill"]
    /\ UNCHANGED <<exported, adf, saida>> /\ UNCHANGED fileVars

\* Another chunk of a file of which size fields are to be written and done are
\* on the disk; what is left when it is closed.
Chunk(done, size) == {w \in Flushes : done < w /\ w < size} \cup {size}

\* for i in range(len(t_novo)): f.write(...)
WriteTmp ==
    /\ script.pc = "fill"
    /\ \E w \in Chunk(tmp[script.dir].written, Whole) :
          /\ tmp' = [tmp EXCEPT ![script.dir].written = w]
          /\ script' = IF w = Whole THEN [script EXCEPT !.pc = "open"] ELSE script
    /\ UNCHANGED <<exported, adf, saida>> /\ UNCHANGED fileVars

\* entrada: from the scripts' own directory there is no such path, from the
\* root the file may not be there; however much it holds is what is formatted.
Entrada == IF script.dir = "root" THEN tmp["Codigos_auxiliares"] ELSE NoCopy

\* Mutant: the output is opened, and emptied, before the input.
OpenEntrada_second ==
    /\ script.pc = "open"
    /\ script' = IF Entrada.of # None THEN [script EXCEPT !.pc = "truncate"] ELSE Idle
    /\ IF script.dir = "root"
       THEN Rewritten(<<>>) /\ saida' = [saida EXCEPT !.of = script.read, !.written = 0]
       ELSE UNCHANGED fileVars /\ UNCHANGED saida
    /\ UNCHANGED <<exported, adf, tmp>>

\* open("Codigos_auxiliares/dados_tmp.txt", "r")
OpenEntrada ==
    /\ script.pc = "open"
    /\ script' = IF Entrada.of # None THEN [script EXCEPT !.pc = "truncate"] ELSE Idle
    /\ UNCHANGED <<exported, adf, tmp, saida>> /\ UNCHANGED fileVars

\* open("Dados/dados.txt", "w"): whatever it held is gone.
OpenSaida ==
    /\ script.pc = "truncate"
    /\ Rewritten(<<>>)
    /\ saida' = [Entrada EXCEPT !.written = 0]
    /\ script' = [script EXCEPT !.pc = "write"]
    /\ UNCHANGED <<exported, adf, tmp>>

\* As many fields as the input has: part of an export, or none of it, too.
WriteDados ==
    /\ script.pc = "write"
    /\ \E w \in Chunk(saida.written, Entrada.written) :
          /\ Rewritten(Content(w))
          /\ saida' = [saida EXCEPT !.written = w]
          /\ script' = IF w = Entrada.written THEN Idle ELSE script
    /\ UNCHANGED <<exported, adf, tmp>>

\* The run is stopped, at any point: what it had written is left on the disk.
KillScript ==
    /\ script.pc # "idle"
    /\ script' = Idle
    /\ tmp' = IF script.pc = "fill" THEN [tmp EXCEPT ![script.dir].stopped = TRUE] ELSE tmp
    /\ saida' = [saida EXCEPT !.stopped = @ \/ script.pc = "write"]
    /\ UNCHANGED <<exported, adf>> /\ UNCHANGED fileVars

\* The relay's program is started again.
RestartRelay ==
    /\ file' = FALSE /\ current_line' = 0 /\ call_count' = 0
    /\ buffer' = [ch \in Channels |-> [i \in Columns |-> 0]]
    /\ result' = "none"
    /\ disturbed' = FALSE /\ UNCHANGED <<dados, exists>>

Formatter ==
    \/ Export \/ RunScript \/ ReadAdf \/ OpenTmp \/ WriteTmp
    \/ OpenEntrada \/ OpenSaida \/ WriteDados \/ KillScript

Next ==
    \/ data_read /\ UNCHANGED scriptVars
    \/ FileWritten /\ UNCHANGED scriptVars
    \/ Formatter /\ UNCHANGED dataVars
    \/ RestartRelay /\ UNCHANGED scriptVars

Spec == Init /\ [][Next]_vars /\ WF_vars(data_read /\ UNCHANGED scriptVars)
-----------------------------------------------------------------------------
(* Only a run that is stopped leaves dados.txt cut short, and one that fails  *)
(* leaves it alone: unless a run is writing it, or was stopped while it wrote *)
(* it or the dados_tmp.txt it was formatted from, the file is a whole export  *)
(* (or has never been one).                                                   *)
WholeOrUntouched ==
    script.pc # "write" /\ ~saida.stopped /\ saida.of # None => dados = Content(Whole)

(* The strengthening that makes it inductive.  A dados_tmp.txt that no run    *)
(* fills and none was stopped in is whole; a run that has opened its input    *)
(* was started in the root, and what it writes counts as stopped if its input *)
(* does.                                                                      *)
CopyInv ==
    /\ \A d \in Dirs :
          tmp[d].of # None /\ ~tmp[d].stopped /\ ~(script.pc = "fill" /\ script.dir = d)
             => tmp[d].written = Whole
    /\ script.pc \in {"truncate", "write"} => Entrada.of # None
    /\ script.pc = "write" => (Entrada.stopped => saida.stopped)

(* A relay that is not restarted gets through the whole of a well formed file *)
(* once the file is left alone, and stays at its end: also if the file was    *)
(* written again under the relay, unless it ended up shorter than what had    *)
(* been read by then.                                                         *)
FileConsumed ==
    /\ <>[](exists /\ WellFormed /\ Skipped)
    /\ <>[][UNCHANGED dados /\ ~RestartRelay]_vars
    => <>[](current_line = Len(dados))

(* "Arquivo 'Dados/dados.txt' gerado com sucesso": when a run ends, and no    *)
(* run was stopped, the file is of the export the run has read.               *)
FormatsWhatItRead ==
    [][WriteDados /\ script' = Idle /\ ~saida.stopped => saida'.of = script.read]_vars
=============================================================================
