---------------------------- MODULE LoggingProofs ----------------------------
(***************************************************************************)
(* Every line is one statement's message, for any command line, any files,  *)
(* any number of statements, and whenever the disk fills or a signal comes. *)
(*                                                                         *)
(* Where a line goes does not matter to this: of the registry nothing is    *)
(* assumed.  What matters is what the shared stringstream holds at each     *)
(* place of a statement, and that a signal may come at any of them.         *)
(***************************************************************************)
EXTENDS Logging, SequenceTheorems, TLAPS

Pieces == [statement : Nat, piece : Nat, of : Nat]
Words == Pieces \cup Signals \cup {"Aborting"}

LineLevels == LoggedLevels \cup {"Fatal", "Warning"}

WholeLine(line) ==
  CASE IsOrdinary(line) -> IsWhole(line.parts)
    [] line.level = "Fatal" -> Last(line.parts) \in Signals /\ IsBegun(Front(line.parts))
    [] OTHER -> line.parts = <<"Aborting">>

GoodLine == {line \in [level : LineLevels, parts : Seq(Words)] : WholeLine(line)}
GoodLines == Seq(GoodLine)
GoodFile == [pending : GoodLines, disk : GoodLines, failed : BOOLEAN]

InStatement == {"message", "flush", "print", "clear"}

(* The stringstream holds the first pieces of the statement executed, all of
   them once it goes to the file, and nothing between statements. *)
Speaking ==
  /\ stream \in Seq(Pieces) /\ Len(stream) = statement.done
  /\ \A k \in 1..Len(stream) : stream[k] = Piece(statement.number, k, statement.pieces)
  /\ statement.pieces > 0 /\ statement.done <= statement.pieces
  /\ pc # "message" => statement.done = statement.pieces

StreamInv ==
  /\ statement \in [number : Nat, level : LoggedLevels, pieces : Nat, done : Nat]
  /\ IF pc \in InStatement THEN Speaking ELSE stream = <<>>

LinesInv == terminal \in GoodLines /\ files \in [Files -> GoodFile]

LInv == StreamInv /\ LinesInv

-----------------------------------------------------------------------------
(***************************************************************************)
(* What dispatching a good line leaves.                                    *)
(***************************************************************************)
GoodOut(st) == st.terminal \in GoodLines /\ st.files \in [Files -> GoodFile]

LEMMA GoodNow == ASSUME LInv PROVE GoodOut(Now)
BY DEF LInv, LinesInv, GoodOut, Now

\* The disk takes a buffer, or refuses it.
LEMMA SyncedGood ==
  ASSUME NEW file \in GoodFile, NEW full
  PROVE  Synced(file, full) \in GoodFile
<1>1. /\ file.pending \in GoodLines /\ file.disk \in GoodLines
      /\ file.disk \o file.pending \in GoodLines /\ <<>> \in GoodLines
  BY ConcatProperties DEF GoodFile, GoodLines
<1>2. file = [pending |-> file.pending, disk |-> file.disk, failed |-> file.failed]
  BY DEF GoodFile
<1> QED
  BY <1>1, <1>2 DEF Synced, GoodFile

LEMMA WriteGood ==
  ASSUME NEW st, GoodOut(st), NEW line \in GoodLine
  PROVE  GoodOut(write(st, line))
<1>1. CASE ~Taken(st, line)
  BY <1>1 DEF write
<1>2. CASE Taken(st, line)
  <2> DEFINE f == fileStream(st, line.level)
  <2>1. write(st, line).terminal = st.terminal
    BY <1>2 DEF write
  <2>2. write(st, line).files = [st.files EXCEPT ![f].pending = Append(@, line)]
    BY <1>2 DEF write
  <2> HIDE DEF f
  <2>3. ASSUME NEW g \in Files
        PROVE  [st.files[g] EXCEPT !.pending = Append(@, line)] \in GoodFile
    <3>1. st.files[g] \in GoodFile
      BY DEF GoodOut
    <3>2. Append(st.files[g].pending, line) \in GoodLines
      BY <3>1, AppendProperties DEF GoodFile, GoodLines
    <3> QED
      BY <3>1, <3>2 DEF GoodFile
  <2>4. [st.files EXCEPT ![f] = [st.files[f] EXCEPT !.pending = Append(@, line)]]
          \in [Files -> GoodFile]
    BY <2>3 DEF GoodOut
  <2> QED
    BY <2>1, <2>2, <2>4 DEF GoodOut
<1> QED
  BY <1>1, <1>2

LEMMA FlushGood ==
  ASSUME NEW st, GoodOut(st), NEW level, NEW full
  PROVE  GoodOut(flush(st, level, full))
<1> DEFINE f == fileStream(st, level)
<1>1. /\ flush(st, level, full).terminal = st.terminal
      /\ flush(st, level, full).files = [st.files EXCEPT ![f] = Synced(@, full)]
  BY DEF flush
<1> HIDE DEF f
<1>2. \A g \in Files : Synced(st.files[g], full) \in GoodFile
  BY SyncedGood DEF GoodOut
<1> QED
  BY <1>1, <1>2, Zenon DEF GoodOut

LEMMA PrintGood ==
  ASSUME NEW st, GoodOut(st), NEW line \in GoodLine
  PROVE  GoodOut(print(st, line))
<1>1. /\ print(st, line).terminal = Append(st.terminal, line)
      /\ print(st, line).files = st.files
  BY DEF print
<1> QED
  BY <1>1, AppendProperties DEF GoodOut, GoodLines

LEMMA DispatchGood ==
  ASSUME NEW st, GoodOut(st), NEW line \in GoodLine, NEW full
  PROVE  GoodOut(dispatch(st, line, full))
<1> DEFINE written == write(st, line)
           kept == IF MustFlush(written, line) THEN flush(written, line.level, full) ELSE written
<1>1. dispatch(st, line, full) = print(kept, line)
  BY DEF dispatch
<1>2. GoodOut(written)
  BY WriteGood
<1> HIDE DEF written
<1>3. GoodOut(kept)
  BY <1>2, FlushGood
<1> HIDE DEF kept
<1> QED
  BY <1>1, <1>3, PrintGood

\* abort() takes what the streams had not passed on, and nothing else.
LEMMA AbortGood ==
  ASSUME NEW st, GoodOut(st)
  PROVE  GoodOut(abort(st))
<1>1. /\ abort(st).terminal = st.terminal
      /\ abort(st).files = [f \in Files |-> [st.files[f] EXCEPT !.pending = <<>>]]
  BY DEF abort
<1>2. ASSUME NEW f \in Files
      PROVE  [st.files[f] EXCEPT !.pending = <<>>] \in GoodFile
  <2>1. st.files[f] \in GoodFile /\ <<>> \in GoodLines
    BY DEF GoodOut, GoodLines
  <2> QED
    BY <2>1 DEF GoodFile
<1> QED
  BY <1>1, <1>2 DEF GoodOut

-----------------------------------------------------------------------------
(***************************************************************************)
(* The lines themselves.                                                   *)
(***************************************************************************)
\* What a statement says is the beginning of a message, wherever it is.
LEMMA StreamBegun ==
  ASSUME LInv
  PROVE  stream \in Seq(Words) /\ Len(stream) \in Nat /\ IsBegun(stream)
<1>1. CASE pc \in InStatement
  <2>1. Speaking
    BY <1>1 DEF LInv, StreamInv
  <2>2. stream \in Seq(Words) /\ Len(stream) \in Nat
    BY <2>1 DEF Speaking, Words
  <2>3. \A k \in DOMAIN stream :
          /\ stream[k] = Piece(statement.number, k, statement.pieces)
          /\ stream[1] = Piece(statement.number, 1, statement.pieces)
    BY <2>1, <2>2 DEF Speaking
  <2> QED
    BY <2>2, <2>3 DEF IsBegun, Piece
<1>2. CASE pc \notin InStatement
  BY <1>2 DEF LInv, StreamInv, IsBegun
<1> QED
  BY <1>1, <1>2

\* When a statement's destructor runs, its message is whole.
LEMMA MessageGood ==
  ASSUME LInv, pc \in InStatement, statement.done = statement.pieces
  PROVE  Message \in GoodLine
<1>1. Speaking /\ statement.level \in LoggedLevels
  BY DEF LInv, StreamInv
<1>2. stream \in Seq(Words) /\ Len(stream) \in Nat /\ IsBegun(stream)
  BY StreamBegun
<1>3. /\ Len(stream) = statement.pieces /\ Len(stream) > 0
      /\ stream[1] = Piece(statement.number, 1, statement.pieces)
  BY <1>1, <1>2 DEF Speaking
<1>4. IsWhole(stream)
  BY <1>2, <1>3 DEF IsWhole, Piece
<1>5. Message \in [level : LineLevels, parts : Seq(Words)]
  BY <1>1, <1>2 DEF Message, LogMessage, LineLevels
<1>6. Message.level = statement.level /\ Message.parts = stream
  BY DEF Message, LogMessage
<1>7. WholeLine(Message)
  <2>1. IsOrdinary(Message) /\ IsWhole(Message.parts)
    BY <1>1, <1>4, <1>6 DEF IsOrdinary
  <2>2. Message.level # "Fatal"
    BY <1>1, <1>6 DEF LoggedLevels
  <2> QED
    BY <2>1, <2>2 DEF WholeLine
<1> QED
  BY <1>5, <1>7 DEF GoodLine

\* A handled signal's line begins with what the interrupted statement had said.
LEMMA CrashLineGood ==
  ASSUME LInv, NEW sig \in Signals
  PROVE  LogMessage("Fatal", Reported(sig)) \in GoodLine
<1> DEFINE r == Reported(sig)
<1>1. stream \in Seq(Words) /\ Len(stream) \in Nat /\ IsBegun(stream)
  BY StreamBegun
<1>2. sig \in Words
  BY DEF Words
<1>3. /\ r \in Seq(Words) /\ Len(r) = Len(stream) + 1
      /\ \A i \in 1..Len(stream) : r[i] = stream[i]
      /\ r[Len(stream) + 1] = sig
  BY <1>1, <1>2, AppendProperties DEF Reported
<1> HIDE DEF r
<1>4. Last(r) = sig
  BY <1>1, <1>3 DEF Last
<1>5. Front(r) = stream
  <2>1. /\ SubSeq(r, 1, Len(stream)) \in Seq(Words)
        /\ Len(SubSeq(r, 1, Len(stream))) = Len(stream)
        /\ \A i \in 1..Len(stream) : SubSeq(r, 1, Len(stream))[i] = stream[i]
    BY <1>1, <1>3
  <2>2. SubSeq(r, 1, Len(stream)) = stream
    BY <1>1, <2>1, SeqEqual
  <2> QED
    BY <1>1, <1>3, <2>2 DEF Front
<1>6. LogMessage("Fatal", r) \in [level : LineLevels, parts : Seq(Words)]
  BY <1>3 DEF LogMessage, LineLevels
<1> QED
  BY <1>1, <1>4, <1>5, <1>6
     DEF GoodLine, WholeLine, IsOrdinary, LoggedLevels, LogMessage, r

\* The line after it is free of it.
LEMMA AbortLineGood ==
  ASSUME NEW said
  PROVE  LogMessage("Warning", Append(Cleared(said), "Aborting")) \in GoodLine
<1>1. Append(Cleared(said), "Aborting") = <<"Aborting">>
  BY DEF Cleared
<1>2. <<"Aborting">> \in Seq(Words)
  BY DEF Words
<1>3. LogMessage("Warning", <<"Aborting">>) \in [level : LineLevels, parts : Seq(Words)]
  BY <1>2 DEF LogMessage, LineLevels
<1> QED
  BY <1>1, <1>3 DEF GoodLine, WholeLine, IsOrdinary, LoggedLevels, LogMessage

-----------------------------------------------------------------------------
LEMMA InitLInv == Init => LInv
<1> SUFFICES ASSUME Init PROVE LInv
  OBVIOUS
<1>1. StreamInv
  BY DEF Init, StreamInv, InStatement, LoggedLevels
<1>2. Nothing \in GoodFile /\ <<>> \in GoodLines
  BY DEF Nothing, GoodFile, GoodLines
<1>3. LinesInv
  BY <1>2 DEF Init, LinesInv
<1> QED
  BY <1>1, <1>3 DEF LInv

\* One action at a time: what it leaves in the stream, then in the outputs.
LEMMA StepLInv == LInv /\ [Next]_vars => LInv'
<1> SUFFICES ASSUME LInv, [Next]_vars PROVE LInv'
  OBVIOUS
<1>1. \A st : Becomes(st) /\ GoodOut(st) => LinesInv'
  BY DEF Becomes, GoodOut, LinesInv
<1>2. UNCHANGED <<terminal, files>> => LinesInv'
  BY DEF LInv, LinesInv
<1>3. UNCHANGED <<statement, stream, pc>> => StreamInv'
  BY DEF LInv, StreamInv, Speaking
<1>4. ASSUME Construct \/ Start PROVE LInv'
  <2>1. StreamInv'
    BY <1>4 DEF LInv, StreamInv, InStatement, Construct, Start
  <2> QED
    BY <1>2, <1>4, <2>1 DEF LInv, Construct, Start
<1>5. ASSUME NEW level \in LoggedLevels, NEW pieces \in 1..2, Log(level, pieces) PROVE LInv'
  <2>1. stream' = <<>> /\ pc' = "message"
    BY <1>5 DEF LInv, StreamInv, InStatement, Log
  <2>2. StreamInv'
    BY <1>5, <2>1 DEF LInv, StreamInv, Speaking, InStatement, Log
  <2> QED
    BY <1>2, <1>5, <2>2 DEF LInv, Log
<1>6. ASSUME AddPiece PROVE LInv'
  <2>1. Speaking /\ statement \in [number : Nat, level : LoggedLevels, pieces : Nat, done : Nat]
    BY <1>6 DEF LInv, StreamInv, InStatement, AddPiece
  <2>2. /\ statement' \in [number : Nat, level : LoggedLevels, pieces : Nat, done : Nat]
        /\ statement'.number = statement.number /\ statement'.pieces = statement.pieces
        /\ statement'.done = statement.done + 1 /\ statement.done < statement.pieces
        /\ pc = "message" /\ pc' = "message"
    BY <1>6, <2>1 DEF AddPiece
  <2> DEFINE p == Piece(statement.number, statement'.done, statement.pieces)
  <2>3. stream' = Append(stream, p)
    BY <1>6 DEF AddPiece
  <2>4. p \in Pieces
    BY <2>1, <2>2 DEF Piece, Pieces
  <2>5. /\ stream' \in Seq(Pieces) /\ Len(stream') = Len(stream) + 1
        /\ \A k \in 1..Len(stream) : stream'[k] = stream[k]
        /\ stream'[Len(stream) + 1] = p
    <3> HIDE DEF p
    <3> QED
      BY <2>1, <2>3, <2>4, AppendProperties DEF Speaking
  <2>6. \A k \in 1..Len(stream') : stream'[k] = Piece(statement'.number, k, statement'.pieces)
    BY <2>1, <2>2, <2>5 DEF Speaking
  <2>7. StreamInv'
    BY <2>1, <2>2, <2>5, <2>6 DEF StreamInv, Speaking, InStatement
  <2> QED
    BY <1>2, <1>6, <2>7 DEF LInv, AddPiece
<1>7. ASSUME WriteLine PROVE LInv'
  <2>1. pc = "message" /\ pc' \in {"flush", "print"} /\ UNCHANGED <<stream, statement>>
    BY <1>7 DEF WriteLine
  <2>2. StreamInv'
    BY <1>7, <2>1 DEF LInv, StreamInv, Speaking, InStatement, WriteLine
  <2>3. Message \in GoodLine
    BY <1>7, MessageGood DEF WriteLine, InStatement
  <2>4. Becomes(write(Now, Message))
    BY <1>7 DEF WriteLine
  <2> QED
    BY <1>1, <2>2, <2>3, <2>4, GoodNow, WriteGood DEF LInv
<1>8. ASSUME FlushLine PROVE LInv'
  <2>1. StreamInv'
    BY <1>8 DEF LInv, StreamInv, Speaking, InStatement, FlushLine
  <2> QED
    BY <1>1, <1>8, <2>1, GoodNow, FlushGood DEF LInv, FlushLine
<1>9. ASSUME PrintLine PROVE LInv'
  <2>1. StreamInv'
    BY <1>9 DEF LInv, StreamInv, Speaking, InStatement, PrintLine
  <2>2. Message \in GoodLine
    BY <1>9, MessageGood DEF PrintLine, LInv, StreamInv, Speaking, InStatement
  <2> QED
    BY <1>1, <1>9, <2>1, <2>2, GoodNow, PrintGood DEF LInv, PrintLine
<1>10. ASSUME Clear PROVE LInv'
  <2>1. StreamInv'
    BY <1>10 DEF LInv, StreamInv, InStatement, Clear, Cleared
  <2> QED
    BY <1>2, <1>10, <2>1 DEF LInv, Clear
<1>11. ASSUME NEW sig \in Signals, Crash(sig) PROVE LInv'
  <2>1. StreamInv'
    BY <1>11 DEF LInv, StreamInv, InStatement, Crash
  <2> DEFINE first == logCrashReason(Now, sig)
             warning == LogMessage("Warning", Append(Cleared(Reported(sig)), "Aborting"))
  <2>2. GoodOut(first)
    BY GoodNow, CrashLineGood, DispatchGood DEF logCrashReason
  <2>3. warning \in GoodLine
    BY AbortLineGood
  <2>4. Becomes(abort(dispatch(first, warning, disk.full)))
    BY <1>11 DEF Crash, FatalAborts
  <2> HIDE DEF first, warning
  <2>5. GoodOut(abort(dispatch(first, warning, disk.full)))
    BY <2>2, <2>3, DispatchGood, AbortGood
  <2> QED
    BY <1>1, <2>1, <2>4, <2>5 DEF LInv
<1>12. ASSUME NEW sig \in Signals, Die(sig) PROVE LInv'
  <2>1. StreamInv'
    BY <1>12 DEF LInv, StreamInv, InStatement, Die
  <2> QED
    BY <1>1, <1>12, <2>1, GoodNow, AbortGood DEF LInv, Die
<1>13. ASSUME Exit PROVE LInv'
  <2>1. StreamInv'
    BY <1>13 DEF LInv, StreamInv, InStatement, Exit
  <2>2. \A f \in Files : Synced(files[f], disk.full) \in GoodFile
    BY SyncedGood DEF LInv, LinesInv
  <2>3. LinesInv'
    BY <1>13, <2>2 DEF LInv, LinesInv, Exit
  <2> QED
    BY <2>1, <2>3 DEF LInv
<1>14. ASSUME DiskFills \/ DiskFrees PROVE LInv'
  BY <1>2, <1>3, <1>14 DEF LInv, DiskFills, DiskFrees
<1>15. ASSUME UNCHANGED vars PROVE LInv'
  BY <1>2, <1>3, <1>15 DEF LInv, vars
<1> QED
  BY <1>4, <1>5, <1>6, <1>7, <1>8, <1>9, <1>10, <1>11, <1>12, <1>13, <1>14, <1>15 DEF Next

LEMMA LInvAlways == Spec => []LInv
BY InitLInv, StepLInv, PTL DEF Spec

(* A line in a file or on the terminal is one statement's message, all of it
   and nothing else, whatever a signal interrupts; of a crash's two lines only
   the first may begin with what the interrupted statement had said. *)
THEOREM LinesAreWhole == Spec => []LinesWhole
<1>1. LInv => LinesWhole
  <2> SUFFICES ASSUME LInv PROVE LinesWhole
    OBVIOUS
  <2>1. ASSUME NEW lines \in {terminal} \cup {files[f].disk : f \in Files} PROVE lines \in GoodLines
    BY DEF LInv, LinesInv, GoodFile
  <2>2. ASSUME NEW lines \in {terminal} \cup {files[f].disk : f \in Files}, NEW i \in DOMAIN lines
        PROVE  WholeLine(lines[i])
    <3>1. lines[i] \in GoodLine
      BY <2>1, <2>2 DEF GoodLines
    <3> QED
      BY <3>1 DEF GoodLine
  <2> QED
    BY <2>2 DEF LinesWhole, WholeLine
<1> QED
  BY <1>1, LInvAlways, PTL

=============================================================================
