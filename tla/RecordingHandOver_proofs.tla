----------------------- MODULE RecordingHandOver_proofs -----------------------
(* Proofs about data_read and the formatter runs that write the file it       *)
(* reads, for windows of every size, any number of channels and every file.   *)
EXTENDS RecordingHandOver, FiniteSetTheorems, SequenceTheorems, TLAPS

USE DEF fileVars, dataVars, scriptVars, vars

-----------------------------------------------------------------------------
(* Arithmetic of windows: a number is a multiple of B and a remainder.        *)

LEMMA Division ==
    ASSUME NEW B \in Nat \ {0}, NEW x \in Int
    PROVE  x % B = x - B * (x \div B)
BY SMT

LEMMA Quotient ==
    ASSUME NEW B \in Nat \ {0}, NEW x \in Nat
    PROVE  /\ x \div B \in Nat /\ x % B \in 0 .. (B - 1)
           /\ x = B * (x \div B) + (x % B)
<1>1. x \div B \in Nat
  OBVIOUS
<1>2. x % B \in 0 .. (B - 1)
  OBVIOUS
<1>3. x % B = x - B * (x \div B)
  BY Division
<1>4. B * (x \div B) \in Int
  BY <1>1
<1> QED BY <1>1, <1>2, <1>3, <1>4

LEMMA Remainder ==
    ASSUME NEW B \in Nat \ {0}, NEW q \in Nat
    PROVE  /\ \A r \in 0 .. (B - 1) : (q * B + r) % B = r
           /\ (q * B + B) % B = 0
<1>1. ASSUME NEW r \in 0 .. (B - 1) PROVE (q * B + r) % B = r
  OBVIOUS
<1>2. (q * B + B) % B = 0
  <2>1. ASSUME NEW p \in Nat PROVE (p * B + 0) % B = 0
    OBVIOUS
  <2>2. ((q + 1) * B + 0) % B = 0
    BY <2>1
  <2>3. (q + 1) * B + 0 = q * B + B
    OBVIOUS
  <2> QED BY <2>2, <2>3, Zenon
<1> QED BY <1>1, <1>2

\* From a whole number of windows on, lines have the places 1, 2, ... again.
LEMMA Place ==
    ASSUME NEW B \in Nat \ {0}, NEW x \in Nat, x % B = 0
    PROVE  /\ \A r \in 0 .. (B - 1) : (x + r) % B = r
           /\ (x + B) % B = 0
<1>1. PICK q \in Nat : x = B * q + (x % B)
  BY Quotient
<1>2. x = q * B
  BY <1>1
<1> QED BY <1>2, Remainder, Zenon

LEMMA Constants ==
    /\ BUFFER_SIZE \in Nat \ {0} /\ NUM_CHANNELS \in Nat \ {0}
    /\ MaxCalls \in Nat \ {0} /\ MaxExports \in Nat \ {0} /\ LINES \in Nat \ {0}
    /\ \A f \in Files : f \in Seq(Nat \ {0})
BY DataAssumption, HandOverAssumption

\* However much of a formatted file has reached the disk, its lines have at
\* least one field.
LEMMA FormattedFile ==
    ASSUME NEW w \in Written
    PROVE  Content(w) \in Seq(Nat \ {0})
<1> DEFINE n == (w + NUM_CHANNELS - 1) \div NUM_CHANNELS
<1>0. w \in Nat /\ w + NUM_CHANNELS - 1 \in Nat /\ NUM_CHANNELS \in Nat \ {0}
  BY Constants DEF Written
<1>1. n \in Nat /\ NUM_CHANNELS * n <= w + NUM_CHANNELS - 1
  <2> DEFINE x == w + NUM_CHANNELS - 1
  <2>1. x \in Nat /\ n = x \div NUM_CHANNELS
    BY <1>0
  <2> HIDE DEF x, n
  <2>2. /\ x \div NUM_CHANNELS \in Nat /\ x % NUM_CHANNELS \in 0 .. (NUM_CHANNELS - 1)
        /\ x = NUM_CHANNELS * (x \div NUM_CHANNELS) + (x % NUM_CHANNELS)
    BY <1>0, <2>1, Quotient, Zenon
  <2>3. n \in Nat /\ NUM_CHANNELS * n <= x
    BY <1>0, <2>1, <2>2
  <2> QED BY <2>3 DEF x
<1> HIDE DEF n
<1>2. ASSUME NEW k \in 1 .. n, ~(k * NUM_CHANNELS <= w)
      PROVE  w % NUM_CHANNELS \in Nat \ {0}
  <2>1. PICK q \in Nat : w = NUM_CHANNELS * q + (w % NUM_CHANNELS)
    BY <1>0, Quotient
  <2>2. w % NUM_CHANNELS \in Nat
    BY <1>0, Quotient
  <2>3. ASSUME w = NUM_CHANNELS * q PROVE FALSE
    <3>1. k > q
      <4>1. SUFFICES ASSUME k <= q PROVE FALSE
        BY <1>1
      <4>2. k * NUM_CHANNELS <= q * NUM_CHANNELS
        BY <1>0, <1>1, <4>1
      <4> QED BY <1>0, <1>1, <1>2, <2>3, <4>2
    <3>2. n >= q + 1
      BY <1>1, <3>1
    <3>3. NUM_CHANNELS * n >= NUM_CHANNELS * (q + 1)
      BY <1>0, <1>1, <3>2
    <3> QED BY <1>0, <1>1, <2>3, <3>3
  <2> QED BY <2>1, <2>2, <2>3, <1>0
<1>3. Content(w) \in [1 .. n -> Nat \ {0}]
  BY <1>0, <1>1, <1>2 DEF Content, n
<1> QED BY <1>1, <1>3, SeqDef

LEMMA NoLines == <<>> \in Seq(Nat \ {0}) /\ Len(<<>>) = 0
BY EmptySeq

\* The lines one call reaches are the next BUFFER_SIZE, or what is left.
LEMMA ReachedFacts ==
    ASSUME dados \in Seq(Nat \ {0}), current_line \in Nat, Skipped
    PROVE  \E k \in 0 .. BUFFER_SIZE :
              /\ Reached = 1 .. k /\ Cardinality(Reached) = k
              /\ current_line + k <= Len(dados)
              /\ k < BUFFER_SIZE => current_line + k = Len(dados)
<1>0. Len(dados) \in Nat /\ current_line <= Len(dados) /\ BUFFER_SIZE \in Nat
  BY LenProperties, Constants DEF Skipped
<1> DEFINE left == Len(dados) - current_line
           k == IF left < BUFFER_SIZE THEN left ELSE BUFFER_SIZE
<1>1. k \in 0 .. BUFFER_SIZE /\ k <= left /\ (k < BUFFER_SIZE => k = left)
  BY <1>0
<1>2. Reached = 1 .. k
  BY <1>0, <1>1 DEF Reached, Columns
<1>3. Cardinality(1 .. k) = k
  <2>1. k \in Nat
    BY <1>0, <1>1
  <2> HIDE DEF k
  <2>2. Cardinality(1 .. k) = IF 1 > k THEN 0 ELSE k - 1 + 1
    BY <2>1, FS_Interval
  <2> QED BY <2>1, <2>2
<1>4. current_line + k <= Len(dados) /\ (k < BUFFER_SIZE => current_line + k = Len(dados))
  BY <1>0, <1>1
<1> QED BY <1>1, <1>2, <1>3, <1>4
-----------------------------------------------------------------------------
(* What a step of the whole does to the reader and to its file.               *)

\* The file is written again, with whatever lines.
Written_again ==
    /\ \E c \in Seq(Nat \ {0}) : Rewritten(c)
    /\ UNCHANGED dataVars

LEMMA Sizes ==
    /\ Whole \in Nat /\ 0 \in Written /\ Whole \in Written
    /\ None \in Exports /\ NoCopy \in Copies
BY Constants DEF Whole, Written, Exports, None, NoCopy, Copies

\* What is formatted is part of an export, and no chunk goes beyond it.
LEMMA InputSize == TypeOK => Entrada \in Copies /\ Entrada.written \in Written
BY Sizes DEF TypeOK, Entrada, Copies, Dirs

LEMMA ChunkSize ==
    ASSUME NEW size \in Written, NEW done
    PROVE  Chunk(done, size) \subseteq Written
<1>1. size \in Nat /\ size <= Whole /\ Whole \in Nat
  BY Sizes DEF Written
<1>2. ASSUME NEW w \in Flushes, w < size PROVE w \in Written
  BY <1>1, <1>2, HandOverAssumption DEF Written
<1> QED BY <1>2 DEF Chunk

LEMMA ReaderSteps ==
    ASSUME TypeOK, [Next]_vars
    PROVE  \/ data_read \/ Written_again \/ RestartRelay
           \/ UNCHANGED <<fileVars, dataVars>>
<1>0. dados \in Seq(Nat \ {0})
  BY DEF TypeOK, DataTypeOK
<1>1. CASE FileWritten
  BY <1>0, <1>1 DEF FileWritten, Written_again
<1>2. CASE Formatter /\ UNCHANGED dataVars
  <2>1. CASE \/ Export \/ RunScript \/ ReadAdf \/ OpenTmp \/ WriteTmp
             \/ OpenEntrada \/ KillScript
    <3>1. UNCHANGED fileVars
      BY <2>1 DEF Export, RunScript, ReadAdf, OpenTmp, WriteTmp, OpenEntrada, KillScript
    <3> QED BY <1>2, <3>1
  <2>2. CASE OpenSaida
    BY <1>2, <2>2, NoLines DEF OpenSaida, Written_again
  <2>3. CASE WriteDados
    <3>1. PICK w \in Written : Rewritten(Content(w))
      BY <2>3, InputSize, ChunkSize DEF WriteDados
    <3> QED BY <1>2, <3>1, FormattedFile DEF Written_again
  <2> QED BY <1>2, <2>1, <2>2, <2>3 DEF Formatter
<1>3. CASE UNCHANGED vars
  BY <1>3
<1> QED BY <1>1, <1>2, <1>3 DEF Next

\* What is overwritten by a call, and with which lines.
LEMMA ReadBufferType ==
    ASSUME DataTypeOK, NEW n \in Nat, current_line <= n
    PROVE  ReadBuffer \in [Channels -> [Columns -> 0 .. n + BUFFER_SIZE]]
<1>0. BUFFER_SIZE \in Nat /\ Columns \subseteq Nat /\ current_line \in Nat
  BY Constants DEF Columns, DataTypeOK
<1>1. ASSUME NEW ch \in Channels, NEW i \in Columns
      PROVE  (IF Overwritten(ch, i) THEN current_line + i ELSE buffer[ch][i])
                \in 0 .. n + BUFFER_SIZE
  <2>1. current_line + i \in 0 .. n + BUFFER_SIZE
    BY <1>0 DEF Columns
  <2>2. buffer[ch][i] \in 0 .. current_line + BUFFER_SIZE
    BY DEF DataTypeOK
  <2>3. buffer[ch][i] \in 0 .. n + BUFFER_SIZE
    BY <1>0, <2>2
  <2> QED BY <2>1, <2>3
<1> QED BY <1>1 DEF ReadBuffer

\* Before the first call nothing is read; the types need it, for a file that is
\* written again before it is opened may be shorter than the last one.
ReaderInv == DataTypeOK /\ UnreadInv

LEMMA ReaderStep == TypeOK /\ UnreadInv /\ [Next]_vars => ReaderInv'
<1> SUFFICES ASSUME TypeOK, UnreadInv, [Next]_vars PROVE ReaderInv'
  OBVIOUS
<1> USE DEF DataTypeOK, UnreadInv, ReaderInv
<1>0. DataTypeOK
  BY DEF TypeOK
<1>1. CASE data_read_no_file
  BY <1>0, <1>1 DEF data_read_no_file
<1>2. CASE data_read_past_end
  BY <1>0, <1>2 DEF data_read_past_end, Opens
<1>3. CASE data_read_short_line
  <2>1. buffer' \in [Channels -> [Columns -> 0 .. current_line + BUFFER_SIZE]]
    BY <1>0, <1>3, ReadBufferType DEF data_read_short_line
  <2> QED BY <1>0, <1>3, <2>1 DEF data_read_short_line, Opens
<1>4. CASE data_read_window
  <2>1. PICK k \in 0 .. BUFFER_SIZE :
           Cardinality(Reached) = k /\ current_line + k <= Len(dados)
    BY <1>0, <1>4, ReachedFacts DEF data_read_window, WindowRead
  <2>2. /\ file' = TRUE /\ result' = "matrix" /\ buffer' = ReadBuffer
        /\ current_line' = current_line + k /\ UNCHANGED fileVars
        /\ call_count' = IF call_count < MaxCalls THEN call_count + 1 ELSE call_count
    BY <1>4, <2>1 DEF data_read_window, WindowRead, Opens, Counted
  <2>3. current_line' \in Nat /\ current_line <= current_line'
        /\ current_line' <= Len(dados)
    BY <1>0, <2>1, <2>2, Constants
  <2>4. call_count' \in 0 .. MaxCalls
    BY <1>0, <2>2, Constants
  <2>5. buffer' \in [Channels -> [Columns -> 0 .. current_line' + BUFFER_SIZE]]
    BY <1>0, <2>2, <2>3, ReadBufferType
  <2> QED BY <1>0, <2>2, <2>3, <2>4, <2>5
<1>5. CASE Written_again
  <2>1. PICK c \in Seq(Nat \ {0}) : Rewritten(c)
    BY <1>5 DEF Written_again
  <2>2. /\ exists' = TRUE /\ dados' \in Seq(Nat \ {0})
        /\ disturbed' = (disturbed \/ file) /\ UNCHANGED dataVars
    BY <1>5, <2>1 DEF Written_again, Rewritten
  <2>3. disturbed' \in BOOLEAN /\ exists' \in BOOLEAN
    BY <1>0, <2>2
  <2>4. ~disturbed' => current_line' <= Len(dados')
    <3>1. SUFFICES ASSUME ~disturbed' PROVE current_line' <= Len(dados')
      OBVIOUS
    <3>2. ~file /\ current_line' = 0
      BY <1>0, <2>2, <3>1
    <3> QED BY <2>2, <3>2, LenProperties
  <2> QED BY <1>0, <2>2, <2>3, <2>4
<1>6. CASE RestartRelay
  <2>1. Len(dados) \in Nat /\ BUFFER_SIZE \in Nat
    BY <1>0, Constants, LenProperties
  <2>2. buffer' \in [Channels -> [Columns -> 0 .. current_line' + BUFFER_SIZE]]
    BY <1>6, <2>1 DEF RestartRelay
  <2>3. call_count' \in 0 .. MaxCalls /\ current_line' <= Len(dados')
    BY <1>0, <1>6, <2>1, Constants DEF RestartRelay
  <2> QED BY <1>0, <1>6, <2>2, <2>3 DEF RestartRelay
<1>7. CASE UNCHANGED <<fileVars, dataVars>>
  BY <1>0, <1>7
<1> QED BY <1>1, <1>2, <1>3, <1>4, <1>5, <1>6, <1>7, ReaderSteps DEF data_read

LEMMA InitialTypes == Init => TypeOK /\ UnreadInv
<1> SUFFICES ASSUME Init PROVE TypeOK /\ UnreadInv
  OBVIOUS
<1>1. dados \in Seq(Nat \ {0}) /\ Len(dados) \in Nat
  BY Constants, LenProperties DEF Init, DataInit
<1>2. DataTypeOK /\ UnreadInv
  <2>1. BUFFER_SIZE \in Nat /\ MaxCalls \in Nat
    BY Constants
  <2>2. buffer \in [Channels -> [Columns -> 0 .. current_line + BUFFER_SIZE]]
    BY <2>1 DEF Init, DataInit
  <2>3. call_count \in 0 .. MaxCalls /\ current_line = 0 /\ result = "none"
        /\ exists \in BOOLEAN /\ file = FALSE /\ disturbed = FALSE
    BY <2>1 DEF Init, DataInit
  <2>4. {exists, file, disturbed} \subseteq BOOLEAN
    BY <2>3, Zenon
  <2>5. DataTypeOK
    BY <1>1, <2>2, <2>3, <2>4 DEF DataTypeOK
  <2>6. UnreadInv
    BY DEF Init, DataInit, UnreadInv
  <2> QED BY <2>5, <2>6
<1>3. script \in [pc : {"idle", "read", "tmp", "fill", "open", "truncate", "write"},
                  dir : Dirs, read : Exports]
  BY Sizes DEF Init, Idle, Dirs
<1> QED BY <1>2, <1>3, Sizes DEF Init, TypeOK

\* The formatter's own variables.
LEMMA ScriptStep == TypeOK /\ [Next]_vars /\ DataTypeOK' => TypeOK'
<1> SUFFICES ASSUME TypeOK, [Next]_vars, DataTypeOK' PROVE TypeOK'
  OBVIOUS
<1> USE DEF TypeOK
<1>0. MaxExports \in Nat \ {0} /\ None = 0
  BY Constants DEF None
<1>1. CASE Export
  BY <1>0, <1>1 DEF Export, Exports
<1>2. CASE RunScript
  BY <1>2, Sizes DEF RunScript, Idle
<1>3. CASE ReadAdf
  BY <1>3, Sizes DEF ReadAdf, Idle, Dirs
<1>4. CASE OpenTmp
  BY <1>4, Sizes DEF OpenTmp, NoCopy, Copies
<1>5. CASE WriteTmp
  <2>1. PICK w \in Written :
           /\ tmp' = [tmp EXCEPT ![script.dir].written = w]
           /\ script' = IF w = Whole THEN [script EXCEPT !.pc = "open"] ELSE script
    BY <1>5, Sizes, ChunkSize DEF WriteTmp
  <2> QED BY <1>5, <2>1 DEF WriteTmp, Copies
<1>6. CASE OpenEntrada
  BY <1>6, Sizes DEF OpenEntrada, Idle, Dirs
<1>7. CASE OpenSaida
  BY <1>7, Sizes, InputSize DEF OpenSaida, Copies
<1>8. CASE WriteDados
  <2>1. PICK w \in Written :
           /\ saida' = [saida EXCEPT !.written = w]
           /\ script' = IF w = Entrada.written THEN Idle ELSE script
    BY <1>8, InputSize, ChunkSize DEF WriteDados
  <2> QED BY <1>8, <2>1, Sizes DEF WriteDados, Copies, Idle, Dirs
<1>9. CASE KillScript
  BY <1>9, Sizes DEF KillScript, Copies, Idle, Dirs
<1>10. CASE UNCHANGED scriptVars
  BY <1>10
<1>11. CASE UNCHANGED vars
  BY <1>11
<1> QED BY <1>1, <1>2, <1>3, <1>4, <1>5, <1>6, <1>7, <1>8, <1>9, <1>10, <1>11
        DEF Next, Formatter

(* Every state of the reader, the formatter and their files has the declared  *)
(* types: for a file that nobody writes while it is open the lines consumed   *)
(* are never more than it has.                                                *)
THEOREM RecordingTypeCorrect == Spec => [](TypeOK /\ UnreadInv)
<1>1. TypeOK /\ UnreadInv /\ [Next]_vars => (TypeOK /\ UnreadInv)'
  BY ReaderStep, ScriptStep DEF ReaderInv
<1> QED BY <1>1, InitialTypes, PTL DEF Spec
-----------------------------------------------------------------------------
(* The newest line of a place.                                                *)
Latest(c, i) == CHOOSE n \in 0 .. c :
    /\ n = 0 \/ (n - 1) % BUFFER_SIZE = i - 1
    /\ \A m \in 1 .. c : (m - 1) % BUFFER_SIZE = i - 1 => m <= n

LEMMA NewestIsLatest ==
    ASSUME NEW i
    PROVE  Newest(i) = Latest(current_line, i) /\ Newest(i)' = Latest(current_line', i)
BY DEF Newest, Latest

LEMMA LatestUnique ==
    ASSUME NEW c \in Nat, NEW i \in Columns, NEW n \in 0 .. c,
           n = 0 \/ (n - 1) % BUFFER_SIZE = i - 1,
           \A m \in 1 .. c : (m - 1) % BUFFER_SIZE = i - 1 => m <= n
    PROVE  Latest(c, i) = n
<1> DEFINE P(x) == /\ x = 0 \/ (x - 1) % BUFFER_SIZE = i - 1
                   /\ \A m \in 1 .. c : (m - 1) % BUFFER_SIZE = i - 1 => m <= x
           l == Latest(c, i)
<1>1. l \in 0 .. c /\ P(l)
  BY DEF Latest
<1>2. l <= n
  BY <1>1
<1>3. n <= l
  BY <1>1
<1> QED BY <1>1, <1>2, <1>3

\* After k more lines than a whole number of windows.
LEMMA LatestAligned ==
    ASSUME NEW c \in Nat, c % BUFFER_SIZE = 0,
           NEW k \in 0 .. BUFFER_SIZE, NEW i \in Columns
    PROVE  Latest(c + k, i) = IF i <= k THEN c + i
                              ELSE IF c = 0 THEN 0 ELSE c - BUFFER_SIZE + i
<1>0. BUFFER_SIZE \in Nat \ {0} /\ i \in 1 .. BUFFER_SIZE /\ c + k \in Nat
  BY Constants DEF Columns
<1>1. \A r \in 0 .. (BUFFER_SIZE - 1) : (c + r) % BUFFER_SIZE = r
  BY <1>0, Place
<1>2. CASE i <= k
  <2>1. c + i \in 0 .. (c + k) /\ i - 1 \in 0 .. (BUFFER_SIZE - 1)
    BY <1>0, <1>2
  <2>2. (c + i - 1) % BUFFER_SIZE = i - 1
    <3>1. (c + (i - 1)) % BUFFER_SIZE = i - 1
      BY <1>1, <2>1
    <3>2. c + (i - 1) = c + i - 1
      BY <1>0
    <3> QED BY <3>1, <3>2
  <2>3. ASSUME NEW m \in 1 .. (c + k), (m - 1) % BUFFER_SIZE = i - 1
        PROVE  m <= c + i
    <3>1. SUFFICES ASSUME m > c + i PROVE FALSE
      BY <1>0
    <3> DEFINE r == m - 1 - c
    <3>2. r \in 0 .. (BUFFER_SIZE - 1) /\ r # i - 1 /\ c + r = m - 1
      BY <1>0, <3>1
    <3> HIDE DEF r
    <3> QED BY <1>1, <2>3, <3>2
  <2>4. Latest(c + k, i) = c + i
    BY <1>0, <2>1, <2>2, <2>3, LatestUnique
  <2> QED BY <1>2, <2>4
<1>3. CASE i > k /\ c = 0
  <2>1. ASSUME NEW m \in 1 .. (c + k), (m - 1) % BUFFER_SIZE = i - 1
        PROVE  m <= 0
    <3>1. m - 1 \in 0 .. (BUFFER_SIZE - 1) /\ c + (m - 1) = m - 1 /\ m - 1 # i - 1
      BY <1>0, <1>3
    <3> QED BY <1>1, <2>1, <3>1
  <2>2. Latest(c + k, i) = 0
    BY <1>0, <2>1, LatestUnique
  <2> QED BY <1>0, <1>3, <2>2
<1>4. CASE i > k /\ c > 0
  <2>1. PICK q \in Nat : c = BUFFER_SIZE * q + (c % BUFFER_SIZE)
    BY <1>0, Quotient
  <2>2. q >= 1
    <3>1. SUFFICES ASSUME q = 0 PROVE FALSE
      OBVIOUS
    <3> QED BY <1>0, <1>4, <2>1, <3>1
  <2> DEFINE b == c - BUFFER_SIZE
  <2>3. b = BUFFER_SIZE * (q - 1)
    BY <1>0, <2>1
  <2>4. b \in Nat /\ b + BUFFER_SIZE = c
    BY <1>0, <2>2, <2>3
  <2>5. \A r \in 0 .. (BUFFER_SIZE - 1) : (b + r) % BUFFER_SIZE = r
    <3>1. q - 1 \in Nat /\ b = (q - 1) * BUFFER_SIZE
      BY <1>0, <2>2, <2>3
    <3> HIDE DEF b
    <3> QED BY <1>0, <3>1, Remainder, Zenon
  <2> HIDE DEF b
  <2>6. b + i \in 0 .. (c + k) /\ i - 1 \in 0 .. (BUFFER_SIZE - 1)
        /\ b + (i - 1) = b + i - 1
    BY <1>0, <1>4, <2>4
  <2>7. (b + i - 1) % BUFFER_SIZE = i - 1
    BY <2>5, <2>6
  <2>8. ASSUME NEW m \in 1 .. (c + k), (m - 1) % BUFFER_SIZE = i - 1
        PROVE  m <= b + i
    <3>1. SUFFICES ASSUME m > b + i PROVE FALSE
      BY <1>0, <2>4
    <3>2. CASE m <= c
      <4> DEFINE r == m - 1 - b
      <4>1. r \in 0 .. (BUFFER_SIZE - 1) /\ r # i - 1 /\ b + r = m - 1
        BY <1>0, <2>4, <3>1, <3>2
      <4> HIDE DEF r
      <4> QED BY <2>5, <2>8, <4>1
    <3>3. CASE m > c
      <4> DEFINE r == m - 1 - c
      <4>1. r \in 0 .. (BUFFER_SIZE - 1) /\ r # i - 1 /\ c + r = m - 1
        BY <1>0, <1>4, <2>4, <3>1, <3>3
      <4> HIDE DEF r
      <4> QED BY <1>1, <2>8, <4>1
    <3> QED BY <3>2, <3>3
  <2>9. Latest(c + k, i) = b + i
    <3> DEFINE n == b + i
               d == c + k
    <3>1. d \in Nat /\ n \in 0 .. d /\ (n - 1) % BUFFER_SIZE = i - 1
      BY <1>0, <2>4, <2>6, <2>7
    <3>2. \A m \in 1 .. d : (m - 1) % BUFFER_SIZE = i - 1 => m <= n
      BY <2>8
    <3> HIDE DEF n, d
    <3>3. Latest(d, i) = n
      BY <3>1, <3>2, LatestUnique
    <3> QED BY <3>3 DEF n, d
  <2>10. ~(i <= k) /\ c # 0
    BY <1>0, <1>4
  <2>11. b + i = c - BUFFER_SIZE + i
    BY DEF b
  <2> QED BY <2>9, <2>10, <2>11, Zenon
<1>5. i <= k \/ (i > k /\ c = 0) \/ (i > k /\ c > 0)
  BY <1>0
<1> QED BY <1>2, <1>3, <1>4, <1>5, Zenon
-----------------------------------------------------------------------------
(* The windows measured of a file that is left alone.                         *)

LEMMA LatestOfNone == ASSUME NEW i \in Columns PROVE Latest(0, i) = 0
<1>1. BUFFER_SIZE \in Nat \ {0} /\ 0 \in 0 .. BUFFER_SIZE /\ 0 % BUFFER_SIZE = 0
  BY Constants
<1>2. i \in 1 .. BUFFER_SIZE /\ ~(i <= 0) /\ 0 + 0 = 0
  BY <1>1 DEF Columns
<1> QED BY <1>1, <1>2, LatestAligned

\* A relay that has read nothing of the file, whatever the file is.
NothingRead ==
    /\ current_line = 0 /\ call_count = 0
    /\ buffer = [ch \in Channels |-> [i \in Columns |-> 0]]

LEMMA NothingReadInPlace ==
    NothingRead => AlignInv /\ PlaceInv /\ CountsWindows /\ NothingPastShortLine
<1> SUFFICES ASSUME NothingRead
             PROVE  AlignInv /\ PlaceInv /\ CountsWindows /\ NothingPastShortLine
  OBVIOUS
<1> USE DEF NothingRead
<1>1. BUFFER_SIZE \in Nat \ {0} /\ 0 % BUFFER_SIZE = 0
  BY Constants
<1>2. PlaceInv
  BY LatestOfNone, NewestIsLatest DEF PlaceInv
<1> QED BY <1>1, <1>2 DEF AlignInv, CountsWindows, NothingPastShortLine

\* A full window, or what is left of the file: the lines consumed are whole
\* windows or all of it, counted, and none of them is short.
LEMMA WindowAligns ==
    ASSUME DataTypeOK, WindowInv, data_read_window
    PROVE  AlignInv' /\ CountsWindows' /\ NothingPastShortLine'
<1> SUFFICES ASSUME ~disturbed PROVE AlignInv' /\ CountsWindows' /\ NothingPastShortLine'
  BY DEF data_read_window, WindowRead, fileVars, AlignInv, CountsWindows, NothingPastShortLine
<1>0. /\ BUFFER_SIZE \in Nat \ {0} /\ MaxCalls \in Nat /\ NUM_CHANNELS \in Nat
      /\ dados \in Seq(Nat \ {0}) /\ Len(dados) \in Nat
      /\ current_line \in Nat /\ call_count \in Nat
  BY Constants, LenProperties DEF DataTypeOK
<1>1. Skipped /\ Short = {} /\ dados' = dados
  BY DEF data_read_window, WindowRead
<1>2. PICK k \in 0 .. BUFFER_SIZE :
         /\ Reached = 1 .. k /\ Cardinality(Reached) = k
         /\ current_line + k <= Len(dados)
         /\ k < BUFFER_SIZE => current_line + k = Len(dados)
  BY <1>0, <1>1, ReachedFacts
<1>3. /\ current_line' = current_line + k
      /\ call_count' = IF call_count < MaxCalls THEN call_count + 1 ELSE call_count
  BY <1>2 DEF data_read_window, WindowRead, Counted
<1>4. current_line = Len(dados) \/ current_line % BUFFER_SIZE = 0
  BY DEF WindowInv, AlignInv
<1>5. AlignInv'
  <2>1. CASE k < BUFFER_SIZE
    BY <1>1, <1>2, <1>3, <2>1 DEF AlignInv
  <2>2. CASE k = BUFFER_SIZE
    <3>1. current_line # Len(dados)
      BY <1>0, <1>2, <2>2
    <3>2. (current_line + BUFFER_SIZE) % BUFFER_SIZE = 0
      BY <1>0, <1>4, <3>1, Place
    <3> QED BY <1>3, <2>2, <3>2 DEF AlignInv
  <2> QED BY <1>0, <1>2, <2>1, <2>2
<1>6. CountsWindows'
  <2>1. SUFFICES ASSUME current_line' < Len(dados), call_count' < MaxCalls
                 PROVE  current_line' = call_count' * BUFFER_SIZE
    BY <1>1 DEF CountsWindows
  <2>2. k = BUFFER_SIZE /\ current_line < Len(dados)
    BY <1>0, <1>2, <1>3, <2>1
  <2>3. call_count < MaxCalls /\ call_count' = call_count + 1
    BY <1>0, <1>3, <2>1
  <2>4. current_line = call_count * BUFFER_SIZE
    BY <2>2, <2>3 DEF WindowInv, CountsWindows
  <2>5. call_count * BUFFER_SIZE + BUFFER_SIZE = (call_count + 1) * BUFFER_SIZE
    BY <1>0
  <2> QED BY <1>3, <2>2, <2>3, <2>4, <2>5
<1>7. NothingPastShortLine'
  <2>1. SUFFICES ASSUME NEW n \in 1 .. (current_line + k)
                 PROVE  dados[n] >= NUM_CHANNELS
    BY <1>1, <1>3 DEF NothingPastShortLine
  <2>2. CASE n <= current_line
    BY <1>0, <2>1, <2>2 DEF WindowInv, NothingPastShortLine
  <2>3. CASE n > current_line
    <3> DEFINE i == n - current_line
    <3>1. i \in Reached /\ current_line + i = n /\ n \in 1 .. Len(dados)
      BY <1>0, <1>2, <2>1, <2>3
    <3> HIDE DEF i
    <3>2. ~(dados[current_line + i] < NUM_CHANNELS)
      BY <1>1, <3>1 DEF Short
    <3>3. dados[n] \in Nat
      BY <1>0, <3>1, ElementOfSeq
    <3> QED BY <1>0, <3>1, <3>2, <3>3
  <2> QED BY <1>0, <2>1, <2>2, <2>3
<1> QED BY <1>5, <1>6, <1>7

\* Every channel's column i holds the newest line of place i.
LEMMA WindowInPlace ==
    ASSUME DataTypeOK, WindowInv, data_read_window
    PROVE  PlaceInv'
<1> SUFFICES ASSUME ~disturbed, NEW ch \in Channels, NEW i \in Columns
             PROVE  buffer'[ch][i] = Latest(current_line', i)
  BY NewestIsLatest DEF data_read_window, WindowRead, fileVars, PlaceInv
<1>0. /\ BUFFER_SIZE \in Nat \ {0} /\ dados \in Seq(Nat \ {0}) /\ Len(dados) \in Nat
      /\ current_line \in Nat /\ i \in 1 .. BUFFER_SIZE
  BY Constants, LenProperties DEF DataTypeOK, Columns
<1>1. Skipped /\ Short = {} /\ buffer' = ReadBuffer
  BY DEF data_read_window, WindowRead
<1>2. PICK k \in 0 .. BUFFER_SIZE :
         /\ Reached = 1 .. k /\ Cardinality(Reached) = k
         /\ current_line + k <= Len(dados)
         /\ k < BUFFER_SIZE => current_line + k = Len(dados)
  BY <1>0, <1>1, ReachedFacts
<1>3. current_line' = current_line + k
  BY <1>2 DEF data_read_window, WindowRead
<1>4. buffer'[ch][i] = IF i <= k THEN current_line + i ELSE buffer[ch][i]
  <2>1. Overwritten(ch, i) <=> i <= k
    BY <1>0, <1>1, <1>2 DEF Overwritten
  <2> QED BY <1>1, <2>1 DEF ReadBuffer
<1>5. buffer[ch][i] = Latest(current_line, i)
  BY <1>1, NewestIsLatest DEF WindowInv, PlaceInv
<1>6. CASE k = 0
  <2>1. current_line + k = current_line /\ ~(i <= k)
    BY <1>0, <1>6
  <2> QED BY <1>3, <1>4, <1>5, <2>1
<1>7. CASE k # 0
  <2>1. current_line % BUFFER_SIZE = 0
    BY <1>0, <1>2, <1>7 DEF WindowInv, AlignInv
  <2>2. Latest(current_line + k, i) =
           IF i <= k THEN current_line + i
           ELSE IF current_line = 0 THEN 0 ELSE current_line - BUFFER_SIZE + i
    BY <1>0, <2>1, LatestAligned
  <2>3. Latest(current_line + 0, i) =
           IF i <= 0 THEN current_line + i
           ELSE IF current_line = 0 THEN 0 ELSE current_line - BUFFER_SIZE + i
    <3>1. 0 \in 0 .. BUFFER_SIZE
      BY <1>0
    <3> QED BY <1>0, <2>1, <3>1, LatestAligned
  <2>4. current_line + 0 = current_line /\ ~(i <= 0)
    BY <1>0
  <2> QED BY <1>3, <1>4, <1>5, <2>2, <2>3, <2>4, Zenon
<1> QED BY <1>6, <1>7

LEMMA WindowStep == TypeOK /\ WindowInv /\ [Next]_vars => WindowInv'
<1> SUFFICES ASSUME TypeOK, WindowInv, [Next]_vars PROVE WindowInv'
  OBVIOUS
<1>0. DataTypeOK /\ UnreadInv /\ UnreadInv'
  BY ReaderStep DEF TypeOK, WindowInv, ReaderInv
<1>1. SUFFICES AlignInv' /\ PlaceInv' /\ CountsWindows' /\ NothingPastShortLine'
  BY <1>0 DEF WindowInv
<1>2. CASE UNCHANGED <<fileVars, current_line, call_count, buffer>> /\ result' = "null"
  BY <1>2, NewestIsLatest
     DEF WindowInv, AlignInv, PlaceInv, CountsWindows, NothingPastShortLine,
         Short, Reached
<1>3. CASE data_read_short_line
  BY <1>3 DEF data_read_short_line, WindowInv, AlignInv, PlaceInv, CountsWindows,
              NothingPastShortLine, Short, Reached
<1>4. CASE data_read_window
  BY <1>0, <1>4, WindowAligns, WindowInPlace
<1>5. CASE Written_again
  <2>1. PICK c \in Seq(Nat \ {0}) : Rewritten(c)
    BY <1>5 DEF Written_again
  <2>2. disturbed' = (disturbed \/ file) /\ UNCHANGED dataVars
    BY <1>5, <2>1 DEF Written_again, Rewritten
  <2>3. CASE disturbed'
    BY <2>3 DEF AlignInv, PlaceInv, CountsWindows, NothingPastShortLine
  <2>4. CASE ~disturbed'
    <3>1. NothingRead'
      BY <1>0, <2>2, <2>4 DEF UnreadInv, NothingRead
    <3> QED BY <3>1, NothingReadInPlace, PTL
  <2> QED BY <2>3, <2>4
<1>6. CASE RestartRelay
  <2>1. NothingRead'
    BY <1>6 DEF RestartRelay, NothingRead
  <2> QED BY <2>1, NothingReadInPlace, PTL
<1>7. CASE UNCHANGED <<fileVars, dataVars>>
  BY <1>7, NewestIsLatest
     DEF WindowInv, AlignInv, PlaceInv, CountsWindows, NothingPastShortLine,
         Short, Reached
<1>8. data_read_no_file \/ data_read_past_end
         => UNCHANGED <<fileVars, current_line, call_count, buffer>> /\ result' = "null"
  BY DEF data_read_no_file, data_read_past_end
<1> QED BY <1>2, <1>3, <1>4, <1>5, <1>6, <1>7, <1>8, ReaderSteps DEF data_read

LEMMA InitialWindow == Init => WindowInv
<1>1. Init => NothingRead /\ UnreadInv
  BY DEF Init, DataInit, NothingRead, UnreadInv
<1> QED BY <1>1, NothingReadInPlace DEF WindowInv

(* The inductive invariant of the windows.                                    *)
THEOREM RecordingInvariant == Spec => [](TypeOK /\ WindowInv)
<1>1. TypeOK /\ WindowInv /\ [Next]_vars => (TypeOK /\ WindowInv)'
  BY ReaderStep, ScriptStep, WindowStep DEF ReaderInv, WindowInv
<1> QED BY <1>1, InitialTypes, InitialWindow, PTL DEF Spec

(* The window the phasors are computed of holds in column i of every channel  *)
(* the newest line whose place is i, until the file is written under the      *)
(* relay: for windows of every size and files of every length, whether the    *)
(* length is a multiple of the window or not.                                 *)
THEOREM WindowsInPlace == Spec => []SamplesInPlace
<1>1. TypeOK /\ WindowInv => SamplesInPlace
  <2>1. SUFFICES ASSUME WindowInv, ~disturbed, result = "matrix"
                 PROVE  \A ch \in Channels, i \in Columns : buffer[ch][i] = Newest(i)
    BY DEF SamplesInPlace, Measured
  <2> QED BY <2>1 DEF WindowInv, PlaceInv
<1> QED BY <1>1, RecordingInvariant, PTL

(* The number data_read prints is the window's until the file ends.           *)
THEOREM WindowsCounted == Spec => []CountsWindows
<1>1. TypeOK /\ WindowInv => CountsWindows
  BY DEF WindowInv
<1> QED BY <1>1, RecordingInvariant, PTL

(* No line from a short one on is ever counted as read.                       *)
THEOREM StopsAtShortLine == Spec => []NothingPastShortLine
<1>1. TypeOK /\ WindowInv => NothingPastShortLine
  BY DEF WindowInv
<1> QED BY <1>1, RecordingInvariant, PTL
-----------------------------------------------------------------------------
(* The formatter leaves the file whole unless a run is stopped while it       *)
(* writes this file or the one in between.                                    *)

\* A step of the formatter keeps what is known of its files, one action at a
\* time.
LEMMA CopyStep == TypeOK /\ CopyInv /\ [Next]_vars => CopyInv'
<1> SUFFICES ASSUME TypeOK, CopyInv, [Next]_vars PROVE CopyInv'
  OBVIOUS
<1> USE DEF CopyInv
<1>0. script.dir \in Dirs /\ tmp \in [Dirs -> Copies] /\ None = 0 /\ NoCopy.of = None
  BY DEF TypeOK, None, NoCopy
<1>1. CASE Export
  BY <1>1 DEF Export, Entrada
<1>2. CASE RunScript
  BY <1>2 DEF RunScript, Idle, Entrada
<1>3. CASE ReadAdf
  BY <1>3 DEF ReadAdf, Idle, Entrada, TypeOK
<1>4. CASE OpenTmp
  BY <1>0, <1>4 DEF OpenTmp, TypeOK
<1>5. CASE WriteTmp
  <2>1. PICK w :
           /\ tmp' = [tmp EXCEPT ![script.dir].written = w]
           /\ script' = IF w = Whole THEN [script EXCEPT !.pc = "open"] ELSE script
           /\ script.pc = "fill"
    BY <1>5 DEF WriteTmp
  <2>2. script'.dir = script.dir /\ script'.pc \in {"fill", "open"}
    BY <2>1 DEF TypeOK
  <2>3. ASSUME NEW d \in Dirs, tmp'[d].of # None, ~tmp'[d].stopped,
               ~(script'.pc = "fill" /\ script'.dir = d)
        PROVE  tmp'[d].written = Whole
    <3>1. CASE d = script.dir
      BY <1>0, <2>1, <2>2, <2>3, <3>1 DEF Copies
    <3>2. CASE d # script.dir
      BY <1>0, <2>1, <2>2, <2>3, <3>2
    <3> QED BY <3>1, <3>2
  <2> QED BY <2>2, <2>3
<1>6. CASE OpenEntrada
  BY <1>6 DEF OpenEntrada, Idle, Entrada, TypeOK
<1>7. CASE OpenSaida
  BY <1>7 DEF OpenSaida, Entrada, TypeOK, Copies
<1>8. CASE WriteDados
  <2>1. /\ UNCHANGED tmp /\ script.pc = "write"
        /\ script' = script \/ script' = Idle
        /\ saida'.stopped = saida.stopped
    BY <1>8 DEF WriteDados, TypeOK, Copies
  <2> QED BY <2>1 DEF Idle, Entrada
<1>9. CASE KillScript
  <2>1. ASSUME NEW d \in Dirs, tmp'[d].of # None, ~tmp'[d].stopped
        PROVE  tmp'[d].written = Whole
    BY <1>0, <1>9, <2>1 DEF KillScript, Copies
  <2> QED BY <1>9, <2>1 DEF KillScript, Idle
<1>10. CASE UNCHANGED scriptVars
  BY <1>10 DEF Entrada
<1>11. CASE UNCHANGED vars
  BY <1>11 DEF Entrada
<1> QED BY <1>1, <1>2, <1>3, <1>4, <1>5, <1>6, <1>7, <1>8, <1>9, <1>10, <1>11
        DEF Next, Formatter

LEMMA WholeStep == TypeOK /\ CopyInv /\ WholeOrUntouched /\ [Next]_vars => WholeOrUntouched'
<1> SUFFICES ASSUME TypeOK, CopyInv, WholeOrUntouched, [Next]_vars PROVE WholeOrUntouched'
  OBVIOUS
<1> USE DEF WholeOrUntouched
<1>1. CASE Export \/ RunScript \/ ReadAdf \/ OpenTmp \/ WriteTmp \/ OpenEntrada
  <2>1. dados' = dados /\ saida' = saida /\ script.pc # "write"
    BY <1>1 DEF Export, RunScript, ReadAdf, OpenTmp, WriteTmp, OpenEntrada
  <2> QED BY <2>1
<1>2. CASE OpenSaida
  BY <1>2 DEF OpenSaida, TypeOK
<1>3. CASE WriteDados
  <2>1. PICK w :
           /\ dados' = Content(w) /\ saida' = [saida EXCEPT !.written = w]
           /\ script' = IF w = Entrada.written THEN Idle ELSE script
           /\ script.pc = "write"
    BY <1>3 DEF WriteDados, Rewritten
  <2>2. CASE w = Entrada.written
    <3>1. SUFFICES ASSUME ~saida'.stopped PROVE w = Whole
      BY <2>1
    <3>2. ~saida.stopped
      BY <2>1, <3>1 DEF TypeOK, Copies
    <3>3. Entrada.of # None /\ ~Entrada.stopped
      BY <2>1, <3>2 DEF CopyInv
    <3>4. Entrada.written = Whole
      BY <2>1, <3>3 DEF CopyInv, Entrada, Dirs, NoCopy
    <3> QED BY <2>2, <3>4
  <2>3. CASE w # Entrada.written
    BY <2>1, <2>3
  <2> QED BY <2>2, <2>3
<1>4. CASE KillScript
  BY <1>4 DEF KillScript, TypeOK, Copies
<1>5. CASE UNCHANGED scriptVars /\ dados' = dados
  BY <1>5
<1>6. data_read => dados' = dados
  BY DEF data_read, data_read_no_file, data_read_past_end, data_read_short_line,
         data_read_window, WindowRead
<1>7. FileWritten \/ RestartRelay => dados' = dados
  BY DEF FileWritten, Rewritten, RestartRelay
<1>8. UNCHANGED vars => UNCHANGED scriptVars /\ dados' = dados
  OBVIOUS
<1> QED BY <1>1, <1>2, <1>3, <1>4, <1>5, <1>6, <1>7, <1>8 DEF Next, Formatter

(* A dados_tmp.txt that is short has been stopped in, and what is formatted   *)
(* from it is known to be: what makes the next theorem's invariant inductive. *)
THEOREM CopiesTracked == Spec => []CopyInv
<1>1. Init => CopyInv
  BY DEF Init, CopyInv, Idle, NoCopy
<1> QED BY <1>1, CopyStep, RecordingTypeCorrect, PTL DEF Spec

(* Unless a run is writing Dados/dados.txt, or was stopped while it wrote it  *)
(* or the dados_tmp.txt it was formatted from, the file is a whole export or  *)
(* has never been one: however many lines and columns an export has, wherever *)
(* the chunks end in which the two files reach the disk, and wherever the     *)
(* runs before failed or were stopped.                                        *)
THEOREM OutputWhole == Spec => []WholeOrUntouched
<1>1. Init => WholeOrUntouched
  BY DEF Init, WholeOrUntouched, NoCopy
<1> QED BY <1>1, WholeStep, CopiesTracked, RecordingTypeCorrect, PTL DEF Spec
=============================================================================
