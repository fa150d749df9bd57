------------------------------- MODULE Logging -------------------------------
(***************************************************************************)
(* What the librf24pp programs log: the part of Easylogging++ they use.     *)
(* Every program constructs the storage and the crash handler before main   *)
(* (INITIALIZE_EASYLOGGINGPP), gives it the command line                    *)
(* (START_EASYLOGGINGPP), and then executes LOG(INFO) and LOG(ERROR)        *)
(* statements; LOG(DEBUG) is compiled out.  A line goes to a file and to    *)
(* the terminal, and a signal ends the program with two lines more.         *)
(*                                                                         *)
(* A line is its level and the pieces of its message; how it is laid out    *)
(* is left out.  Of the types of configuration, only those that decide      *)
(* where a line goes and when it is flushed are kept.                       *)
(***************************************************************************)
EXTENDS Integers, Sequences, SequencesExt, FiniteSets, TLC

CONSTANTS
  Files,          \* paths of log files
  kDefaultLogFile,
  CommandLines,   \* argv: sequences of words [key, value], value None without an '='
  CreatableFiles, \* the sets of files that may turn out to be possible to open
  Signals,        \* signals the program may get
  MaxStatements,  \* bound: statements executed
  MaxFills        \* bound: how often the disk becomes full

None == ""
kDefaultLogFileParam == "--default-log-file"

ASSUME LoggingAssumption ==
  /\ kDefaultLogFile \in Files /\ None \notin UNION CreatableFiles
  /\ UNION CreatableFiles \subseteq Files
  /\ MaxStatements \in Nat /\ MaxFills \in Nat

-----------------------------------------------------------------------------
(***************************************************************************)
(* Configurations: for each type a function from the levels that have a     *)
(* value.  A value for Global is a value for every level.                   *)
(***************************************************************************)
Level == <<"Trace", "Debug", "Fatal", "Error", "Warning", "Verbose", "Info">>

Global == "Global"
InOrder == <<Global>> \o Level
Unset == <<>>

unsafeSetGlobally(value) == [level \in ToSet(InOrder) |-> value]

set(conf, level, value) ==
  IF level = Global THEN unsafeSetGlobally(value) ELSE (level :> value) @@ conf

forEachLevel(conf, value) == FoldLeft(LAMBDA c, level : set(c, level, value), conf, Level)
setGlobally(conf, value) == forEachLevel(conf, value)

\* Mutant of setToDefault: every other line is flushed.
setToDefaultBuffered ==
  [Filename |-> setGlobally(set(Unset, Global, kDefaultLogFile), kDefaultLogFile),
   ToFile |-> setGlobally(set(Unset, Global, TRUE), TRUE),
   LogFlushThreshold |-> setGlobally(set(Unset, Global, 2), 2)]
setToDefault ==
  [Filename |-> setGlobally(set(Unset, Global, kDefaultLogFile), kDefaultLogFile),
   ToFile |-> setGlobally(set(Unset, Global, TRUE), TRUE),
   LogFlushThreshold |-> setGlobally(set(Unset, Global, 0), 0)]

HasValues(conf) == SelectSeq(InOrder, LAMBDA level : level \in DOMAIN conf)

setFromBase(confs, base) ==
  [type \in DOMAIN confs |->
     FoldLeft(LAMBDA c, level : set(c, level, base[type][level]), confs[type],
              HasValues(base[type]))]

-----------------------------------------------------------------------------
(***************************************************************************)
(* TypedConfigurations: the same, in maps where Global stands for every     *)
(* level that has no entry, and with the files open.  The loggers share     *)
(* their streams by name; a stream is TRUE when it could be opened.         *)
(***************************************************************************)
lookup(map, level) == map[IF level \in DOMAIN map THEN level ELSE Global]

setValue(map, level, value) ==
  CASE DOMAIN map = {} -> Global :> value
    [] Global \in DOMAIN map /\ map[Global] = value -> map
    [] OTHER -> (level :> value) @@ map

\* The directories of the path are made on the way.
newFileStream(file, creatable) == file \in creatable

insertFile(built, level, file, creatable) ==
  LET at == IF DOMAIN built.typed.filename = {} THEN Global ELSE level
      streams == built.streams @@ (file :> newFileStream(file, creatable))
      typed == [built.typed EXCEPT !.filename = @ @@ (at :> file)]
  IN  [streams |-> streams,
       typed |-> IF streams[file] THEN typed
                 ELSE [typed EXCEPT !.toFile = setValue(@, at, FALSE)]]

Typed(conf) ==
  FoldLeft(LAMBDA map, level : setValue(map, level, conf[level]), Unset, HasValues(conf))

build(confs, streams, creatable) ==
  FoldLeft(LAMBDA built, level : insertFile(built, level, confs.Filename[level], creatable),
           [streams |-> streams,
            typed |-> [filename |-> Unset, toFile |-> Typed(confs.ToFile),
                       threshold |-> Typed(confs.LogFlushThreshold)]],
           HasValues(confs.Filename))

-----------------------------------------------------------------------------
(***************************************************************************)
(* The registry: the loggers by name, the streams they share and the        *)
(* configurations a new logger starts with.                                *)
(***************************************************************************)
initUnflushedCount == [level \in ToSet(Level) |-> 0]

\* Nothing is in the streams when a logger is configured: the flush is left out.
configure(registry, id, base, creatable) ==
  LET confs == IF registry.loggers[id].confs = base THEN base
               ELSE setFromBase(registry.loggers[id].confs, base)
      built == build(confs, registry.streams, creatable)
  IN  [registry EXCEPT
         !.loggers[id] = [confs |-> confs, typed |-> built.typed,
                          unflushed |-> initUnflushedCount],
         !.streams = built.streams]

NewLogger == [confs |-> [type \in DOMAIN setToDefault |-> Unset], typed |-> Unset,
              unflushed |-> initUnflushedCount]
registerNew(registry, id) == [registry EXCEPT !.loggers = @ @@ (id :> NewLogger)]

get(registry, id, creatable) ==
  IF id \in DOMAIN registry.loggers THEN registry
  ELSE configure(registerNew(registry, id), id, registry.defaults, creatable)

RegisteredLoggers == [defaults |-> setToDefault, loggers |-> Unset, streams |-> Unset]

reconfigure(registry, id, creatable) ==
  configure(registry, id, registry.loggers[id].confs, creatable)

Storage(creatable) ==
  LET registered == get(RegisteredLoggers, "default", creatable)
      performance == get(registered, "performance", creatable)
  IN  reconfigure(performance, "performance", creatable)

-----------------------------------------------------------------------------
(***************************************************************************)
(* The command line.                                                       *)
(***************************************************************************)
WithValue(argv, key) == SelectSeq(argv, LAMBDA word : word.key = key /\ word.hasValue)
hasParamWithValue(argv, key) == WithValue(argv, key) # <<>>
getParamValue(argv, key) == Head(WithValue(argv, key)).value

AskedFile(argv) ==
  IF hasParamWithValue(argv, kDefaultLogFileParam)
  THEN getParamValue(argv, kDefaultLogFileParam) ELSE kDefaultLogFile

FilenameOnly(file) ==
  [type \in DOMAIN setToDefault |-> IF type = "Filename" THEN setGlobally(Unset, file) ELSE Unset]

setApplicationArguments(registry, argv, creatable) ==
  IF ~hasParamWithValue(argv, kDefaultLogFileParam) THEN registry
  ELSE LET c == FilenameOnly(AskedFile(argv))
           told == [registry EXCEPT !.defaults = setFromBase(@, c)]
       IN  FoldLeft(LAMBDA r, id : configure(r, id, c, creatable), told,
                    <<"default", "performance">>)

-----------------------------------------------------------------------------
(***************************************************************************)
(* The running program.  A file on the disk has a stream with a buffer of   *)
(* its own; the disk takes all of a buffer or, when it is full, nothing.    *)
(***************************************************************************)
VARIABLES
  pc,         \* static, main, ready, message, flush, print, clear, ended or aborted
  argv, creatable,
  registry,
  stream,     \* the pieces in the default logger's stringstream
  statement,  \* the LOG statement executed: its number, level, pieces and pieces done
  files,      \* [Files -> [pending, disk, failed]]
  terminal,   \* the lines on standard output
  disk        \* [full, fills]

vars == <<pc, argv, creatable, registry, stream, statement, files, terminal, disk>>

LoggedLevels == {"Info", "Error"}
Nothing == [pending |-> <<>>, disk |-> <<>>, failed |-> FALSE]

Init ==
  /\ pc = "static" /\ argv \in CommandLines /\ creatable \in CreatableFiles
  /\ registry = RegisteredLoggers /\ stream = <<>>
  /\ statement = [number |-> 0, level |-> "Info", pieces |-> 0, done |-> 0]
  /\ files = [f \in Files |-> Nothing] /\ terminal = <<>>
  /\ disk = [full |-> FALSE, fills |-> 0]

(* What dispatching a line does: st holds the registry, the files and the
   terminal, and the line is [level, parts]. *)
Now == [registry |-> registry, files |-> files, terminal |-> terminal]
Becomes(st) == registry' = st.registry /\ files' = st.files /\ terminal' = st.terminal

LogMessage(level, parts) == [level |-> level, parts |-> parts]

DefaultLogger(st) == st.registry.loggers["default"]
fileStream(st, level) == lookup(DefaultLogger(st).typed.filename, level)
toFile(st, line) == lookup(DefaultLogger(st).typed.toFile, line.level)

isFlushNeeded(st, level) ==
  DefaultLogger(st).unflushed[level] >= lookup(DefaultLogger(st).typed.threshold, level)

\* A stream that has failed takes no more lines.
Taken(st, line) == toFile(st, line) /\ ~st.files[fileStream(st, line.level)].failed

write(st, line) ==
  IF ~Taken(st, line) THEN st
  ELSE [st EXCEPT !.files[fileStream(st, line.level)].pending = Append(@, line),
                  !.registry.loggers["default"].unflushed[line.level] = @ + 1]

\* Mutant of Synced: what the disk does not take is dropped, and the stream goes on.
SyncedOrLost(file, full) ==
  [file EXCEPT !.disk = IF full THEN @ ELSE @ \o file.pending, !.pending = <<>>]
Synced(file, full) ==
  CASE file.pending = <<>> -> file
    [] full -> [file EXCEPT !.failed = TRUE]
    [] OTHER -> [file EXCEPT !.disk = @ \o file.pending, !.pending = <<>>]

flush(st, level, full) ==
  [st EXCEPT !.files[fileStream(st, level)] = Synced(@, full),
             !.registry.loggers["default"].unflushed[level] = 0]

print(st, line) == [st EXCEPT !.terminal = Append(@, line)]

MustFlush(st, line) == Taken(st, line) /\ isFlushNeeded(st, line.level)

dispatch(st, line, full) ==
  LET written == write(st, line)
  IN  print(IF MustFlush(written, line) THEN flush(written, line.level, full) ELSE written, line)

-----------------------------------------------------------------------------
(***************************************************************************)
(* Before main, and at its start.                                          *)
(***************************************************************************)
Construct ==
  /\ pc = "static" /\ pc' = "main" /\ registry' = Storage(creatable)
  /\ UNCHANGED <<argv, creatable, stream, statement, files, terminal, disk>>

Start ==
  /\ pc = "main" /\ pc' = "ready"
  /\ registry' = setApplicationArguments(registry, argv, creatable)
  /\ UNCHANGED <<argv, creatable, stream, statement, files, terminal, disk>>

(***************************************************************************)
(* A LOG(level) statement: the Writer, its pieces, and its destructor.      *)
(***************************************************************************)
Log(level, pieces) ==
  /\ pc = "ready" /\ statement.number < MaxStatements
  /\ pc' = "message"
  /\ statement' = [number |-> statement.number + 1, level |-> level, pieces |-> pieces, done |-> 0]
  /\ UNCHANGED <<argv, creatable, registry, stream, files, terminal, disk>>

Piece(n, k, of) == [statement |-> n, piece |-> k, of |-> of]

AddPiece ==
  /\ pc = "message" /\ statement.done < statement.pieces
  /\ statement' = [statement EXCEPT !.done = @ + 1]
  /\ stream' = Append(stream, Piece(statement.number, statement'.done, statement.pieces))
  /\ UNCHANGED <<pc, argv, creatable, registry, files, terminal, disk>>

Message == LogMessage(statement.level, stream)

WriteLine ==
  /\ pc = "message" /\ statement.done = statement.pieces
  /\ LET written == write(Now, Message)
     IN  /\ Becomes(written)
         /\ pc' = IF MustFlush(written, Message) THEN "flush" ELSE "print"
  /\ UNCHANGED <<argv, creatable, stream, statement, disk>>

FlushLine ==
  /\ pc = "flush" /\ pc' = "print"
  /\ Becomes(flush(Now, statement.level, disk.full))
  /\ UNCHANGED <<argv, creatable, stream, statement, disk>>

PrintLine ==
  /\ pc = "print" /\ pc' = "clear" /\ Becomes(print(Now, Message))
  /\ UNCHANGED <<argv, creatable, stream, statement, disk>>

\* Mutant of Cleared: the stream keeps the message.
ClearedNot(pieces) == pieces

\* The last thing a Writer does with the stream it shares with all others.
Cleared(pieces) == <<>>

Clear ==
  /\ pc = "clear" /\ pc' = "ready" /\ stream' = Cleared(stream)
  /\ UNCHANGED <<argv, creatable, registry, statement, files, terminal, disk>>

-----------------------------------------------------------------------------
(***************************************************************************)
(* The ends.  A handled signal logs its line through the same logger, to    *)
(* whose stream an interrupted statement has written its pieces; the Fatal  *)
(* line is followed by a Warning, and by abort(), which flushes nothing.    *)
(***************************************************************************)
kCrashSignals == <<"SIGABRT", "SIGFPE", "SIGILL", "SIGSEGV", "SIGINT">>
Handled == {kCrashSignals[i] : i \in 2..Len(kCrashSignals)}
Over == {"ended", "aborted"}

abort(st) == [st EXCEPT !.files = [f \in Files |-> [@[f] EXCEPT !.pending = <<>>]]]

Reported(sig) == Append(stream, sig)
logCrashReason(st, sig) == dispatch(st, LogMessage("Fatal", Reported(sig)), disk.full)
FatalAborts(st, said) ==
  abort(dispatch(st, LogMessage("Warning", Append(Cleared(said), "Aborting")), disk.full))

Crash(sig) ==
  /\ pc \notin Over \cup {"static"} /\ sig \in Handled
  /\ pc' = "aborted" /\ stream' = <<>>
  /\ Becomes(FatalAborts(logCrashReason(Now, sig), Reported(sig)))
  /\ UNCHANGED <<argv, creatable, statement, disk>>

\* A signal without a handler, or too early for it; abort() by an exception.
Die(sig) ==
  /\ pc \notin Over /\ (sig \notin Handled \/ pc = "static")
  /\ pc' = "aborted" /\ stream' = <<>> /\ Becomes(abort(Now))
  /\ UNCHANGED <<argv, creatable, statement, disk>>

\* main returns; the storage flushes its streams and closes them.
Exit ==
  /\ pc = "ready" /\ pc' = "ended"
  /\ files' = [f \in Files |-> Synced(files[f], disk.full)]
  /\ UNCHANGED <<argv, creatable, registry, stream, statement, terminal, disk>>

DiskFills ==
  /\ ~disk.full /\ disk.fills < MaxFills /\ pc \notin Over
  /\ disk' = [full |-> TRUE, fills |-> disk.fills + 1]
  /\ UNCHANGED <<pc, argv, creatable, registry, stream, statement, files, terminal>>

DiskFrees ==
  /\ disk.full /\ pc \notin Over /\ disk' = [disk EXCEPT !.full = FALSE]
  /\ UNCHANGED <<pc, argv, creatable, registry, stream, statement, files, terminal>>

Next ==
  \/ Construct \/ Start
  \/ \E level \in LoggedLevels, pieces \in 1..2 : Log(level, pieces)
  \/ AddPiece \/ WriteLine \/ FlushLine \/ PrintLine \/ Clear
  \/ \E sig \in Signals : Crash(sig) \/ Die(sig)
  \/ Exit \/ DiskFills \/ DiskFrees

Spec == Init /\ [][Next]_vars

-----------------------------------------------------------------------------
(***************************************************************************)
(* Properties.                                                             *)
(***************************************************************************)
IsOrdinary(line) == line.level \in LoggedLevels
Ordinary(lines) == SelectSeq(lines, IsOrdinary)

(* As long as the file the user asked for, and the default one, can be opened
   and written, the terminal shows no line that a crash may take from the file,
   and nothing the program logs gets into another file. *)
LinesKept ==
  LET asked == AskedFile(argv)
  IN  ({asked, kDefaultLogFile} \subseteq creatable /\ statement.number > 0) =>
        /\ ~files[asked].failed => ToSet(terminal) \subseteq ToSet(files[asked].disk)
        /\ \A f \in Files \ {asked} : files[f].disk = <<>>

(* Whatever the disk does, the file holds the program's lines from the first
   on: one that could not be written is not followed by a later one. *)
FileHasNoGap ==
  \A f \in Files : \A i \in DOMAIN Ordinary(files[f].disk) :
    Ordinary(files[f].disk)[i].parts[1].statement = i

IsBegun(parts) ==
  \A k \in DOMAIN parts : parts[k] = Piece(parts[1].statement, k, parts[1].of)
IsWhole(parts) == parts # <<>> /\ IsBegun(parts) /\ Len(parts) = parts[1].of

(* A line is one statement's message, all of it and nothing else; only the
   line about a crash may begin with what an interrupted statement had said,
   and the one after it is free of that again. *)
LinesWhole ==
  \A lines \in {terminal} \cup {files[f].disk : f \in Files} : \A i \in DOMAIN lines :
    CASE IsOrdinary(lines[i]) -> IsWhole(lines[i].parts)
      [] lines[i].level = "Fatal" -> /\ Last(lines[i].parts) \in Signals
                                   /\ IsBegun(Front(lines[i].parts))
      [] OTHER -> lines[i].parts = <<"Aborting">>

=============================================================================
