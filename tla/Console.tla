------------------------------ MODULE Console -------------------------------
(***************************************************************************)
(* The engine's console: the commands xdCore and xdEngine register, the    *)
(* functions behind them, and the interpreter that config_load, the        *)
(* startup config and the typed lines share.                               *)
(*                                                                         *)
(* A thread that executes a line first looks the command up (Fetch,        *)
(* Resolve) and then calls it (Call): main can clear the registry in       *)
(* between.  config_load nests: every activation is a load frame holding   *)
(* the lines its stream has yet to yield.  config_save writes one line at  *)
(* a time (std::endl flushes each), so the process can die half way.       *)
(*                                                                         *)
(* A file of a few lines fits the stream's buffer, so a load frame keeps   *)
(* the contents it was opened with.                                        *)
(***************************************************************************)
EXTENDS Naturals, Sequences

CONSTANTS
    Thread,      \* threads that execute console lines
    Path,        \* files of the configs' directory
    Word,        \* argument words, Path among them
    ToLower,     \* lower case of a word
    Null,        \* the null ICommand*
    ConfigFile,  \* CConsole::ConfigFile, the main config
    Absent,      \* what disk holds for a file that does not exist
    MaxDepth,    \* nested config_load activations the call stack has room for
    UserFiles,   \* per file: what it may hold before the program runs
    Typed        \* lines the user may type

ASSUME ConsoleAssumption ==
    /\ Path \subseteq Word /\ ConfigFile \in Path
    /\ MaxDepth \in Nat \ {0}

-----------------------------------------------------------------------------
(* The commands, in the order of their registration. *)
CoreCommands   == <<"terminate", "crash", "flush", "help", "cmd">>
EngineCommands == <<"quit", "exit", "config_save", "config_load", "fullscreen">>
AllCommands    == CoreCommands \o EngineCommands

CommandName == {AllCommands[i] : i \in DOMAIN AllCommands}

CommandKind == [c \in CommandName |->
                   CASE c = "fullscreen" -> "bool"
                     [] c \in {"help", "cmd", "config_save", "config_load"} -> "CallWithArgs"
                     [] OTHER -> "Call"]

(* Mutated form of TakesEmpty: every CallWithArgs command takes them. *)
TakesEmpty_All == [c \in CommandName |-> TRUE]

(* help and cmd are constructed to take empty arguments; config_save and   *)
(* config_load are not, although their functions test args.empty().        *)
TakesEmpty == [c \in CommandName |-> c \in {"help", "cmd"}]

Line == [cmd : CommandName \cup {"unknown"}, args : Word]

ASSUME LineAssumption ==
    /\ {"", "on", "off"} \subseteq Word /\ ToLower \in [Word -> Word]
    /\ \A w \in Word : ToLower[w] = "" <=> w = ""
    /\ Null \notin CommandName /\ Absent \notin Seq(Line)
    /\ Typed \subseteq Line
    /\ \A p \in Path : UserFiles[p] \subseteq {Absent} \cup Seq(Line)

VARIABLES
    commands,    \* the registry's vector
    fullscreen,  \* XDayEngine::windowMainFullscreen, which Fullscreen refers to
    window,      \* XDayEngine::windowMain is a window
    shouldClose, \* the window's close flag inside GLFW
    disk,        \* the files
    stack,       \* per thread: its active config_load and config_save calls
    call,        \* per thread: the command it looked up and is about to call
    process      \* "running", or how the process ended

consoleVars == <<commands, fullscreen, window, shouldClose, disk, stack, call, process>>

AllOn      == [c \in CommandName |-> TRUE]
NoLast     == [command |-> Null, handler |-> "none", args |-> "", handled |-> FALSE]
Registry   == INSTANCE CommandRegistry
                WITH Command <- CommandName, Name <- CommandName \cup {"unknown"},
                     NameOf <- [c \in CommandName |-> c], Kind <- CommandKind,
                     EmptyArg <- TakesEmpty, LowerArg <- AllOn,
                     enabled <- AllOn, last <- NoLast

NoCall == [command |-> Null, args |-> ""]

LoadFrame(path, lines) == [kind |-> "load", path |-> path, rest |-> lines]
SaveFrame(path, cmds)  == [kind |-> "save", path |-> path, rest |-> cmds]

Running == process = "running"
Idle(t) == stack[t] = << >> /\ call[t] = NoCall

Top(t)        == stack[t][Len(stack[t])]
Under(t)      == SubSeq(stack[t], 1, Len(stack[t]) - 1)
TopIs(t, k)   == stack[t] # << >> /\ Top(t).kind = k
Consumed_Stays(t) == stack     \* mutated form: the line is not consumed
Consumed(t)   == [stack EXCEPT ![t] = Append(Under(t), [Top(t) EXCEPT !.rest = Tail(@)])]
Pushed(t, f)  == [stack EXCEPT ![t] = Append(@, f)]
Popped(t)     == [stack EXCEPT ![t] = Under(t)]

-----------------------------------------------------------------------------
(* Commands::Execute(cpcstr): split off the command's name and look it up. *)
Resolved(line) == LET c == Registry!Get(line.cmd)
                  IN  IF c = Null THEN NoCall ELSE [command |-> c, args |-> line.args]

Resolve(t, line) ==
    /\ Running /\ Idle(t)
    /\ call' = [call EXCEPT ![t] = Resolved(line)]
    /\ UNCHANGED <<commands, fullscreen, window, shouldClose, disk, stack, process>>

(* The next turn of ConfigLoad's getline loop. *)
Fetch(t) ==
    /\ Running /\ call[t] = NoCall
    /\ TopIs(t, "load") /\ Top(t).rest # << >>
    /\ call' = [call EXCEPT ![t] = Resolved(Head(Top(t).rest))]
    /\ stack' = Consumed(t)
    /\ UNCHANGED <<commands, fullscreen, window, shouldClose, disk, process>>

(* The loop has met the end of the file. *)
EndLoad(t) ==
    /\ Running /\ call[t] = NoCall
    /\ TopIs(t, "load") /\ Top(t).rest = << >>
    /\ stack' = Popped(t)
    /\ UNCHANGED <<commands, fullscreen, window, shouldClose, disk, call, process>>

(* config_load and config_save: no arguments mean the main config. *)
Target(args) == IF args = "" THEN ConfigFile ELSE args

(* Mutated form of ConfigLoad: is_open is not tested. *)
ConfigLoad_NoOpenTest(t, path) ==
    /\ IF path \notin Path \/ Len(stack[t]) = MaxDepth
       THEN UNCHANGED stack
       ELSE stack' = Pushed(t, LoadFrame(path, disk[path]))
    /\ UNCHANGED <<commands, fullscreen, window, shouldClose, disk, process>>

(* ConfigLoad: open the file; a file that does not open is only logged.    *)
(* One activation too many overflows the thread's stack.                   *)
ConfigLoad(t, path) ==
    /\ IF path \notin Path \/ disk[path] = Absent
       THEN UNCHANGED <<stack, process>>
       ELSE IF Len(stack[t]) = MaxDepth
       THEN process' = "overflow" /\ UNCHANGED stack
       ELSE stack' = Pushed(t, LoadFrame(path, disk[path])) /\ UNCHANGED process
    /\ UNCHANGED <<commands, fullscreen, window, shouldClose, disk>>

(* Mutated form of ConfigSave: the stream appends to what is there. *)
ConfigSave_Append(t, path) ==
    /\ IF path \in Path
       THEN /\ disk' = [disk EXCEPT ![path] = IF @ = Absent THEN << >> ELSE @]
            /\ stack' = Pushed(t, SaveFrame(path, commands))
       ELSE UNCHANGED <<disk, stack>>
    /\ UNCHANGED <<commands, fullscreen, window, shouldClose, process>>

(* ConfigSave: opening the stream truncates the file; the loop walks a     *)
(* copy of the vector.  A path that cannot be created is written nowhere.  *)
ConfigSave(t, path) ==
    /\ IF path \in Path
       THEN /\ disk' = [disk EXCEPT ![path] = << >>]
            /\ stack' = Pushed(t, SaveFrame(path, commands))
       ELSE UNCHANGED <<disk, stack>>
    /\ UNCHANGED <<commands, fullscreen, window, shouldClose, process>>

(* The line Save() returns: the name and the status. *)
Status(c)    == IF c = "fullscreen" THEN Registry!BoolStatus(fullscreen) ELSE ""
SavedLine(c) == [cmd |-> c, args |-> Status(c)]

SaveLine(t) ==
    /\ Running /\ TopIs(t, "save") /\ Top(t).rest # << >>
    /\ LET c == Head(Top(t).rest) IN
         disk' = IF Registry!SaveAllowed(c)
                 THEN [disk EXCEPT ![Top(t).path] = Append(@, SavedLine(c))]
                 ELSE disk
    /\ stack' = Consumed(t)
    /\ UNCHANGED <<commands, fullscreen, window, shouldClose, call, process>>

EndSave(t) ==
    /\ Running /\ TopIs(t, "save") /\ Top(t).rest = << >>
    /\ stack' = Popped(t)
    /\ UNCHANGED <<commands, fullscreen, window, shouldClose, disk, call, process>>

(* Calls::Quit.  Without a window GLFW refuses the null pointer: a build   *)
(* with assertions dies, one without logs the error and returns.           *)
Quit ==
    /\ IF window
       THEN shouldClose' = TRUE /\ UNCHANGED process
       ELSE process' \in {"running", "crashed"} /\ UNCHANGED shouldClose
    /\ UNCHANGED <<commands, fullscreen, window, disk, stack>>

End(how) ==
    /\ process' = how
    /\ UNCHANGED <<commands, fullscreen, window, shouldClose, disk, stack>>

Skip == UNCHANGED <<commands, fullscreen, window, shouldClose, disk, stack, process>>

(* The function or parser behind command c. *)
Effect(t, c, args) ==
    \/ c = "terminate" /\ End("terminated")
    \/ c = "crash" /\ End("crashed")
    \/ c \in {"flush", "help", "cmd"} /\ Skip
    \/ c \in {"quit", "exit"} /\ Quit
    \/ c = "config_save" /\ ConfigSave(t, Target(args))
    \/ c = "config_load" /\ ConfigLoad(t, Target(args))
    \/ /\ c = "fullscreen"
       /\ fullscreen' = Registry!BoolValue(args, fullscreen)
       /\ UNCHANGED <<commands, window, shouldClose, disk, stack, process>>

(* Commands::Execute(ICommand*, args). *)
Call(t) ==
    /\ Running /\ call[t] # NoCall
    /\ call' = [call EXCEPT ![t] = NoCall]
    /\ LET c == call[t].command
           h == Registry!Handler(c, call[t].args, TRUE)
       IN  IF Registry!Invokes(h)
           THEN Effect(t, c, Registry!SeenArgs(c, h, Registry!PassedArgs(c, call[t].args)))
           ELSE Skip

(* Everything a thread does on its own once it has a line or a file. *)
Interpret(t) == Fetch(t) \/ EndLoad(t) \/ SaveLine(t) \/ EndSave(t) \/ Call(t)

-----------------------------------------------------------------------------
(* Main's writes that can fall between two steps of another thread. *)
RevertFullscreen ==
    /\ fullscreen' = ~fullscreen
    /\ UNCHANGED <<commands, window, shouldClose, disk, stack, call, process>>

DestroyCommands ==
    /\ commands' = << >>
    /\ UNCHANGED <<fullscreen, window, shouldClose, disk, stack, call, process>>

-----------------------------------------------------------------------------
UserDisks == {d \in [Path -> UNION {UserFiles[p] : p \in Path}] :
                 \A p \in Path : d[p] \in UserFiles[p]}

(* The console by itself: one registry, every thread free to start a line  *)
(* whenever it has finished the one before, main writing in between.       *)
ConsoleInit ==
    /\ commands = AllCommands
    /\ fullscreen \in BOOLEAN
    /\ window = TRUE /\ shouldClose = FALSE
    /\ disk \in UserDisks
    /\ stack = [t \in Thread |-> << >>]
    /\ call = [t \in Thread |-> NoCall]
    /\ process = "running"

Ended == ~Running /\ UNCHANGED consoleVars

ConsoleNext ==
    \/ \E t \in Thread : Interpret(t) \/ \E line \in Typed : Resolve(t, line)
    \/ Running /\ (RevertFullscreen \/ DestroyCommands)
    \/ Ended

(* An interpreter that has something to do runs: it is a plain loop.       *)
ConsoleFairness == \A t \in Thread : WF_consoleVars(Interpret(t))

ConsoleSpec == ConsoleInit /\ [][ConsoleNext]_consoleVars /\ ConsoleFairness

-----------------------------------------------------------------------------
Frame == [kind : {"load"}, path : Path, rest : Seq(Line)]
         \cup [kind : {"save"}, path : Path, rest : Seq(CommandName)]

(* "aborted" is std::terminate called by the program's own shutdown. *)
Outcome == {"running", "terminated", "crashed", "overflow", "aborted"}

ConsoleTypeOK ==
    /\ commands \in Seq(CommandName)
    /\ fullscreen \in BOOLEAN /\ window \in BOOLEAN /\ shouldClose \in BOOLEAN
    /\ disk \in [Path -> {Absent} \cup Seq(Line)]
    /\ stack \in [Thread -> Seq(Frame)]
    /\ call \in [Thread -> [command : CommandName \cup {Null}, args : Word]]
    /\ process \in Outcome

(* Whatever thread dies or clears the registry while a save is under way,  *)
(* a file is either what the user wrote or the saved lines of the first    *)
(* commands of the registration order: never a mixture of the two, a line  *)
(* out of order or one written twice.                                      *)
CommandsOf(lines) == [i \in DOMAIN lines |-> lines[i].cmd]
SavedIsPrefix ==
    \A p \in Path : \/ disk[p] \in UserFiles[p]
                    \/ CommandsOf(disk[p]) = SubSeq(AllCommands, 1, Len(disk[p]))

(* The stack overflows only for files that include one another in a cycle: *)
(* nothing config_save writes, and no nesting of saved and user files,     *)
(* makes a load recurse.  A chain of includes has at most one activation   *)
(* per file.  A load without arguments only prints a line of help.         *)
Includes(lines) ==
    {ToLower[lines[i].args] : i \in {k \in DOMAIN lines : /\ lines[k].cmd = "config_load"
                                                         /\ lines[k].args # ""}} \cap Path
Cyclic(files) == \E S \in SUBSET Path :
                    S # {} /\ \A p \in S : files[p] # Absent /\ Includes(files[p]) \cap S # {}
OverflowOnlyFromCycle == ~Cyclic(disk) => [](process # "overflow")

(* Every line and every file comes to an end: the thread is idle again or  *)
(* the process is gone.                                                    *)
BusyEnds == \A t \in Thread : ~Idle(t) ~> Idle(t) \/ ~Running

(* A file that config_save wrote can be loaded: unless somebody typed, or  *)
(* put into a file, the command terminate, nothing terminates the process. *)
UserTerminates == \/ \E l \in Typed : l.cmd = "terminate"
                  \/ \E p \in Path : \E f \in UserFiles[p] \ {Absent} :
                        \E i \in DOMAIN f : f[i].cmd = "terminate"
SavedConfigLoads == process = "terminated" => UserTerminates
=============================================================================
