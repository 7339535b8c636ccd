--------------------------------- MODULE Log --------------------------------
(***************************************************************************)
(* Log: which messages reach the file main.log, and when.  Messages go     *)
(* through the sink's buffer; what is in the buffer when the process ends  *)
(* without closing the file is lost.  The sinks for the console and the    *)
(* debugger keep nothing and are left out.                                 *)
(***************************************************************************)
EXTENDS Naturals, Sequences

CONSTANTS Debugging, Plain   \* the messages of levels below info, and the others

Message == Debugging \union Plain

VARIABLES
    level,     \* of the logger: "trace", "info" or "off"
    noFlush,   \* noLogFlush
    sink,      \* the sink for the file has been added
    file,      \* main.log
    buffer     \* of the sink

log == <<level, noFlush, sink, file, buffer>>

LogInit == level = "trace" /\ noFlush = FALSE /\ sink = FALSE /\ file = << >> /\ buffer = << >>

(* Log::Log, in a process that has just been started: main.log is as it was. *)
Construct ==
    /\ level' = "trace" /\ noFlush' = FALSE /\ sink' = FALSE /\ buffer' = << >>
    /\ UNCHANGED file

(* Mutated form: goes on after it has switched the log off. *)
InitializeFile_AnyKey(noLog, noLogFlush, debug) ==
    /\ level' = IF noLog THEN "off" ELSE IF debug THEN level ELSE "info"
    /\ sink' = TRUE /\ file' = << >> /\ buffer' = << >>
    /\ UNCHANGED noFlush

(* Log::Initialize without the keys nolog and nologflush: the file is emptied. *)
InitializeFile(noLog, noLogFlush, debug) ==
    /\ ~noLog /\ ~noLogFlush
    /\ level' = IF debug THEN level ELSE "info"
    /\ sink' = TRUE /\ file' = << >> /\ buffer' = << >>
    /\ UNCHANGED noFlush

(* With one of them it returns before it adds the sink: nologflush switches the file off, too. *)
InitializeNoFile(noLog, noLogFlush, debug) ==
    /\ noLog \/ noLogFlush
    /\ level' = IF noLog THEN "off" ELSE IF debug THEN level ELSE "info"
    /\ noFlush' = TRUE
    /\ UNCHANGED <<sink, file, buffer>>

Passes(m) == level = "trace" \/ (level = "info" /\ m \in Plain)

(* Trace, Debug, Info, Warning, Error, Critical. *)
Put(m) ==
    /\ buffer' = IF sink /\ Passes(m) THEN Append(buffer, m) ELSE buffer
    /\ UNCHANGED <<level, noFlush, sink, file>>

(* Mutated form: opens the file anew, and empties it, before it writes the buffer. *)
Flush_Reopens ==
    /\ IF noFlush THEN UNCHANGED <<file, buffer>> ELSE file' = buffer /\ buffer' = << >>
    /\ UNCHANGED <<level, noFlush, sink>>

(* Log::Flush *)
Flush ==
    /\ IF noFlush THEN UNCHANGED <<file, buffer>> ELSE file' = file \o buffer /\ buffer' = << >>
    /\ UNCHANGED <<level, noFlush, sink>>

(* The sink's buffer is full: the file grows. *)
Spill ==
    /\ \E n \in 1..Len(buffer) :
          /\ file' = file \o SubSeq(buffer, 1, n)
          /\ buffer' = SubSeq(buffer, n + 1, Len(buffer))
    /\ UNCHANGED <<level, noFlush, sink>>

(* Log::~Log; the sink closes the file. *)
Destroy ==
    /\ level' = "off" /\ noFlush' = TRUE
    /\ file' = file \o buffer /\ buffer' = << >>
    /\ UNCHANGED sink

(* The process is gone without having closed the file. *)
Lose == buffer' = << >> /\ UNCHANGED <<level, noFlush, sink, file>>
=============================================================================
