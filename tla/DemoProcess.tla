----------------------------- MODULE DemoProcess ----------------------------
(***************************************************************************)
(* The process of the Vulkan demo from its start to its end: main,         *)
(* Core.Initialize with the directories and the log, and the handlers for  *)
(* failures that the constructor of Debug installs.  What the demo does    *)
(* while its window is open is in FrameLoop; here it speaks and fails.     *)
(*                                                                         *)
(* A failure is an assertion, an exception nobody catches, a signal, the   *)
(* want of memory, or a command.  The process may be killed at any time    *)
(* and is started again on what it left on the disk.                       *)
(***************************************************************************)
EXTENDS Filesystem, Log

CONSTANTS
    MaxSaid,     \* bound on the messages in the buffer and the file
    MaxEvents    \* bound on what the user and the machine do

ASSUME ProcessAssumption ==
    /\ MaxSaid \in Nat /\ MaxEvents \in Nat
    /\ {"info", "error", "failure", "aborting", "unverified", "no memory"} \subseteq Plain
    /\ Debugging \intersect Plain = {}

VARIABLES
    pc,          \* where the process is
    noLog, noLogFlush, debug,   \* keys nolog, nologflush and debug
    armed,       \* the signals with a handler
    report,      \* what Fail has been called with, and where it returns to
    ended,       \* how the process ended: "normally", "failed" or "killed"
    events,      \* how much the user and the machine have done
    removed,     \* auxiliary: directories were removed under this process
    lost         \* auxiliary: messages were lost when the process ended

keys    == <<noLog, noLogFlush, debug>>
outside == <<events, removed>>
rest    == <<ended, lost>>
vars    == <<disk, unmade, log, pc, keys, armed, report, outside, rest>>

Signals == {"SIGSEGV", "SIGABRT"}

(* Mutated form: SetupHandlers without the handler for an abort. *)
SetupHandlers_NoAbort == {"SIGSEGV"}

(* SetupHandlers.  A fault stands for SIGILL and SIGFPE, too; SIGTERM is raised by nobody. *)
SetupHandlers == Signals

NoReport == [message |-> "failure", fatal |-> FALSE, ignore |-> FALSE, back |-> "gone"]

Init ==
    /\ FilesystemInit /\ LogInit
    /\ pc = "gone" /\ ended = "normally" /\ lost = FALSE
    /\ noLog = FALSE /\ noLogFlush = FALSE /\ debug = FALSE
    /\ armed = {} /\ report = NoReport
    /\ events = 0 /\ removed = FALSE

-----------------------------------------------------------------------------
(* The ends of the process. *)
Forgets ==
    /\ pc' = "gone" /\ armed' = {} /\ unmade' = << >> /\ report' = NoReport
    /\ noLog' = FALSE /\ noLogFlush' = FALSE /\ debug' = FALSE
    /\ UNCHANGED disk

Gone(how) ==
    /\ Forgets /\ Lose
    /\ ended' = how /\ lost' = (buffer # << >>)

(* Debug::Fail begins, and goes on behind back if it returns. *)
Fails(message, fatal, ignore, back) ==
    /\ pc' = "fail"
    /\ report' = [message |-> message, fatal |-> fatal, ignore |-> ignore, back |-> back]

(* A signal resets its handler before it calls it, and HandlerBase calls Fail; without a *)
(* handler the process ends.  HandlerBase never returns.                                 *)
Raise(signal, message) ==
    \/ /\ signal \in armed
       /\ armed' = armed \ {signal}
       /\ Fails(message, TRUE, FALSE, "gone")
       /\ UNCHANGED <<disk, unmade, log, keys, rest>>
    \/ signal \notin armed /\ Gone("failed")

FailLogs ==
    /\ pc = "fail" /\ pc' = "flush"
    /\ Put(report.message)
    /\ UNCHANGED <<disk, unmade, keys, armed, report, outside, rest>>

FailFlushes ==
    /\ pc = "flush" /\ pc' = "decide"
    /\ Flush
    /\ UNCHANGED <<disk, unmade, keys, armed, report, outside, rest>>

(* Terminate.Execute() calls std::terminate, which aborts. *)
FailDecides ==
    /\ pc = "decide"
    /\ pc' = IF report.fatal /\ ~report.ignore THEN "abort" ELSE report.back
    /\ report' = NoReport
    /\ UNCHANGED <<disk, unmade, log, keys, armed, outside, rest>>

Abort == pc = "abort" /\ Raise("SIGABRT", "aborting") /\ UNCHANGED outside

-----------------------------------------------------------------------------
(* main and Core.Initialize.  The static objects are constructed first. *)
Start ==
    /\ pc = "gone" /\ pc' = "dirs"
    /\ Construct
    /\ unmade' = CreateOrder
    /\ armed' = SetupHandlers
    /\ noLog' \in BOOLEAN /\ noLogFlush' \in BOOLEAN /\ debug' \in BOOLEAN
    /\ removed' = FALSE
    /\ UNCHANGED <<disk, report, events, rest>>

CreateNext ==
    /\ pc = "dirs" /\ unmade # << >>
    /\ CreateDirIfNotExist(Head(unmade))
    /\ unmade' = Tail(unmade)
    /\ UNCHANGED <<files, bare, parents, log, pc, keys, armed, report, outside, rest>>

(* create_directory throws, and nobody catches. *)
CreateThrows ==
    /\ pc = "dirs" /\ unmade # << >>
    /\ CannotCreate(Head(unmade))
    /\ pc' = "abort"
    /\ UNCHANGED <<disk, unmade, log, keys, armed, report, outside, rest>>

LogInitialize ==
    /\ pc = "dirs" /\ unmade = << >>
    /\ \/ InitializeFile(noLog, noLogFlush, debug) /\ "logs" \in dirs
       \/ InitializeNoFile(noLog, noLogFlush, debug)
    /\ pc' = "announce"
    /\ UNCHANGED <<disk, unmade, keys, armed, report, outside, rest>>

(* The file of the log cannot be opened: the sink's constructor throws. *)
LogThrows ==
    /\ pc = "dirs" /\ unmade = << >>
    /\ ~noLog /\ ~noLogFlush /\ "logs" \notin dirs
    /\ pc' = "abort"
    /\ UNCHANGED <<disk, unmade, log, keys, armed, report, outside, rest>>

(* The messages of Core.Initialize and Keys::Help. *)
Announce ==
    /\ pc = "announce" /\ pc' = "glfw"
    /\ Put("info")
    /\ UNCHANGED <<disk, unmade, keys, armed, report, outside, rest>>

GlfwReady ==
    /\ pc = "glfw" /\ pc' = "run"
    /\ UNCHANGED <<disk, unmade, log, keys, armed, report, outside, rest>>

(* GLFW is not initialized, or has no monitor, or makes no window: the error is reported, if  *)
(* GLFW calls it one, and the program goes on with a null pointer.                            *)
GlfwFails ==
    /\ pc = "glfw" /\ pc' = "null"
    /\ Put("error") \/ UNCHANGED log
    /\ UNCHANGED <<disk, unmade, keys, armed, report, outside, rest>>

UseNull == pc = "null" /\ Raise("SIGSEGV", "failure") /\ UNCHANGED outside

(* main returns; the static objects are destroyed. *)
Return ==
    /\ pc = "run"
    /\ Forgets /\ Destroy
    /\ ended' = "normally" /\ lost' = FALSE
    /\ UNCHANGED outside

-----------------------------------------------------------------------------
(* The window is open. *)
Speak(m) ==
    /\ pc = "run" /\ Len(file) + Len(buffer) < MaxSaid
    /\ Put(m)
    /\ UNCHANGED <<disk, unmade, pc, keys, armed, report, outside, rest>>

(* The command flush. *)
FlushLog ==
    /\ pc = "run" /\ Flush
    /\ UNCHANGED <<disk, unmade, pc, keys, armed, report, outside, rest>>

(* Mutated form: ASSERT starts with ignoreAlways set, as FATAL does. *)
Assertion_Ignored ==
    /\ pc = "run" /\ Fails("failure", TRUE, TRUE, "run")
    /\ UNCHANGED <<disk, unmade, log, keys, armed, outside, rest>>

(* ASSERT fails; so do a call of a pure function and an invalid parameter of the runtime. *)
Assertion ==
    /\ pc = "run" /\ Fails("failure", TRUE, FALSE, "run")
    /\ UNCHANGED <<disk, unmade, log, keys, armed, outside, rest>>

(* VERIFY fails: the program goes on. *)
Verification ==
    /\ pc = "run" /\ Len(file) + Len(buffer) < MaxSaid
    /\ Fails("unverified", FALSE, FALSE, "run")
    /\ UNCHANGED <<disk, unmade, log, keys, armed, outside, rest>>

(* operator new finds no memory and calls OutOfMemoryHandler, whose FATAL is ignored.  The *)
(* handler returns 1, and operator new tries again.                                        *)
OutOfMemory ==
    /\ pc \in {"run", "oom"} /\ Len(file) + Len(buffer) < MaxSaid
    /\ Fails("no memory", TRUE, TRUE, "oom")
    /\ UNCHANGED <<disk, unmade, log, keys, armed, outside, rest>>

MemoryFound ==
    /\ pc = "oom" /\ pc' = "run"
    /\ UNCHANGED <<disk, unmade, log, keys, armed, report, outside, rest>>

(* The command terminate, or an exception nobody catches. *)
Terminate ==
    /\ pc = "run" /\ pc' = "abort"
    /\ UNCHANGED <<disk, unmade, log, keys, armed, report, outside, rest>>

(* The command crash; or the destructor of the surface, which has no instance. *)
Crash == pc = "run" /\ Raise("SIGSEGV", "failure") /\ UNCHANGED outside

-----------------------------------------------------------------------------
(* The user and the machine. *)
Occurs == events < MaxEvents /\ events' = events + 1

Kill ==
    /\ pc # "gone" /\ Occurs
    /\ Gone("killed")
    /\ UNCHANGED removed

(* A directory with an open file in it cannot be removed; main.log goes with its own. *)
RemoveDirs(r) ==
    /\ Occurs
    /\ r \in dirs /\ (r = "data" => pc = "gone" \/ ~sink)
    /\ Remove(r) /\ removed' = TRUE
    /\ file' = IF r = "data" THEN << >> ELSE file
    /\ UNCHANGED <<bare, parents, unmade, level, noFlush, sink, buffer, pc, keys, armed, report,
                   rest>>

SpillBuffer ==
    /\ pc # "gone" /\ Spill
    /\ UNCHANGED <<disk, unmade, pc, keys, armed, report, outside, rest>>

Failing == FailLogs \/ FailFlushes \/ FailDecides \/ Abort \/ UseNull
Initialize == CreateNext \/ CreateThrows \/ LogInitialize \/ LogThrows \/ Announce \/ GlfwReady \/ GlfwFails
Running ==
    \/ (\E m \in Message : Speak(m)) \/ FlushLog \/ Assertion \/ Verification
    \/ OutOfMemory \/ MemoryFound \/ Terminate \/ Crash \/ Return

Next ==
    \/ Start \/ Initialize \/ Running \/ Failing
    \/ Kill \/ SpillBuffer \/ \E r \in Root : RemoveDirs(r)

(* The operating system runs the process; nothing is assumed of what it does while its window *)
(* is open, and nobody need start it again.                                                   *)
Spec == Init /\ [][Next]_vars /\ WF_vars(Initialize) /\ WF_vars(Failing)

-----------------------------------------------------------------------------
(* Types; a file is only written by a log that is switched on; the process ends as it should. *)
ProcessTypeOK ==
    /\ dirs \subseteq Dir /\ files \subseteq Dir /\ bare \subseteq Root /\ parents \in [Root -> BOOLEAN]
    /\ unmade \in Seq(Dir) /\ Len(unmade) <= Len(CreateOrder)
    /\ level \in {"trace", "info", "off"} /\ noFlush \in BOOLEAN /\ sink \in BOOLEAN
    /\ file \in Seq(Message) /\ buffer \in Seq(Message)
    /\ buffer # << >> => sink
    /\ sink /\ pc # "gone" => level # "off" /\ ~noFlush
    /\ pc \in {"gone", "dirs", "announce", "glfw", "null", "run", "oom", "fail", "flush", "decide",
               "abort"}
    /\ noLog \in BOOLEAN /\ noLogFlush \in BOOLEAN /\ debug \in BOOLEAN
    /\ armed \subseteq Signals
    /\ report \in [message : Message, fatal : BOOLEAN, ignore : BOOLEAN, back : {"gone", "run", "oom"}]
    /\ ended \in {"normally", "failed", "killed"} /\ lost \in BOOLEAN
    /\ events \in 0..MaxEvents /\ removed \in BOOLEAN

(* Whatever an earlier run left, Initialize asks for a directory only when the one it is in is  *)
(* there, or is a file that exists() took for it: then nothing can be made in it, and it never  *)
(* gets to its end, where every directory is there (Filesystem.cpp:59).                         *)
ParentsFirst ==
    pc = "dirs" /\ ~removed =>
        /\ unmade # << >> /\ Head(unmade) \notin Root =>
               HasParent(Head(unmade)) \/ Parent[Head(unmade)] \in bare
        /\ unmade = << >> => dirs = Dir

(* A process that failed with a log file has left in it everything it said, and the abort last  *)
(* (Debug.cpp:130, Log.cpp:79).                                                                 *)
FailureReported ==
    pc = "gone" /\ ended = "failed" /\ sink /\ ~removed =>
        ~lost /\ file # << >> /\ file[Len(file)] = "aborting"

(* The log file implements a journal, over all runs. *)
LogJournal == INSTANCE Journal WITH said <- file \o buffer, kept <- Len(file)
RefinesJournal == LogJournal!JournalSpec

(* A failed assertion, an abort or a fault ends the process: the handlers run once each, and    *)
(* none returns to what failed (Debug.cpp:127).                                                 *)
FatalEnds == pc = "fail" /\ report.message \in {"failure", "aborting"} ~> pc = "gone"
=============================================================================
