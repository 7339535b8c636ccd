------------------------------- MODULE Engine -------------------------------
(***************************************************************************)
(* The application of xdMain: main's startup, event loop and shutdown, the *)
(* thread that watches the system console, the GLFW window and its event   *)
(* queue, and the console (module Console) both threads execute lines on.  *)
(*                                                                         *)
(* Every action is a stretch of one thread that touches what the other one *)
(* reads or writes at most once; between two of them the other may run.    *)
(* fullscreen, the close flag and the registry are shared without a lock.  *)
(***************************************************************************)
EXTENDS Console

CONSTANTS
    MaxEvents,   \* bound on the events the user produces in one run
    MaxRuns      \* bound on how often the program is started

ASSUME EngineAssumption == /\ MaxEvents \in Nat \ {0} /\ MaxRuns \in Nat \ {0}
                           /\ Thread = {"main", "watcher"}

VARIABLES
    pc,        \* where main is
    todo,      \* the commands the current Initialize still has to register
    glfw,      \* glfwInit succeeded
    mode,      \* the window covers the monitor
    events,    \* events GLFW has received and not yet dispatched
    posted,    \* how many events GLFW has received
    flip,      \* the value RevertValue computed and is about to store
    allowed,   \* the key "syscmd" is set
    watcher,   \* where the thread that runs watch_console is
    input,     \* the line it has read, or NoInput
    runs       \* how often the program was started

engineVars == <<pc, todo, glfw, mode, events, posted, flip, allowed, watcher, input>>
vars == <<consoleVars, engineVars, runs>>

NoInput == [cmd |-> "", args |-> ""]      \* an empty line, or the end of stdin

Init ==
    /\ commands = << >> /\ fullscreen = FALSE
    /\ window = FALSE /\ shouldClose = FALSE
    /\ disk \in UserDisks
    /\ stack = [t \in Thread |-> << >>] /\ call = [t \in Thread |-> NoCall]
    /\ process = "running"
    /\ pc = "core" /\ todo = CoreCommands
    /\ glfw = FALSE /\ mode = FALSE /\ events = << >> /\ posted = 0 /\ flip = FALSE
    /\ allowed \in BOOLEAN /\ watcher = "unborn" /\ input = NoInput
    /\ runs = 1

(* The program is started again: only the files are what they were. *)
Restart ==
    /\ ~Running /\ runs < MaxRuns
    /\ commands' = << >> /\ fullscreen' = FALSE
    /\ window' = FALSE /\ shouldClose' = FALSE
    /\ stack' = [t \in Thread |-> << >>] /\ call' = [t \in Thread |-> NoCall]
    /\ process' = "running"
    /\ pc' = "core" /\ todo' = CoreCommands
    /\ glfw' = FALSE /\ mode' = FALSE /\ events' = << >> /\ posted' = 0 /\ flip' = FALSE
    /\ allowed' \in BOOLEAN /\ watcher' = "unborn" /\ input' = NoInput
    /\ runs' = runs + 1 /\ UNCHANGED disk

-----------------------------------------------------------------------------
(* Startup.  Core.Initialize registers xdCore's commands, then             *)
(* CConsole::Initialize the engine's, one Commands::Register at a time.    *)
RegisterNext ==
    /\ Running /\ pc \in {"core", "console"} /\ todo # << >>
    /\ commands' = Registry!Added(commands, Head(todo))
    /\ todo' = Tail(todo)
    /\ UNCHANGED <<fullscreen, window, shouldClose, disk, stack, call, process,
                   pc, glfw, mode, events, posted, flip, allowed, watcher, input, runs>>

CoreInitialized ==
    /\ Running /\ pc = "core" /\ todo = << >>
    /\ pc' = "console" /\ todo' = EngineCommands
    /\ UNCHANGED <<consoleVars, glfw, mode, events, posted, flip, allowed, watcher, input, runs>>

(* ExecuteConfig calls config_load's function without the dispatcher. *)
ExecuteConfig ==
    /\ Running /\ pc = "console" /\ todo = << >>
    /\ pc' = "config"
    /\ ConfigLoad("main", ConfigFile)
    /\ UNCHANGED <<call, todo, glfw, mode, events, posted, flip, allowed, watcher, input, runs>>

(* A failure of glfwInit is logged and startup goes on. *)
InitGlfw ==
    /\ Running /\ pc = "config" /\ Idle("main")
    /\ glfw' \in BOOLEAN /\ pc' = "engine"
    /\ UNCHANGED <<consoleVars, todo, mode, events, posted, flip, allowed, watcher, input, runs>>

(* Engine.Initialize dereferences the current video mode, which is null    *)
(* without GLFW or without a monitor.                                      *)
InitEngine ==
    /\ Running /\ pc = "engine"
    /\ \/ glfw /\ pc' = "window" /\ UNCHANGED process
       \/ process' = "crashed" /\ UNCHANGED pc
    /\ UNCHANGED <<commands, fullscreen, window, shouldClose, disk, stack, call,
                   todo, glfw, mode, events, posted, flip, allowed, watcher, input, runs>>

(* Mutated form of CreateWindow: a null window is carried on with. *)
CreateWindow_IgnoresFailure ==
    /\ Running /\ pc = "window"
    /\ window' \in BOOLEAN /\ mode' = fullscreen /\ pc' = "spawn"
    /\ UNCHANGED <<commands, fullscreen, shouldClose, disk, stack, call, process,
                   todo, glfw, events, posted, flip, allowed, watcher, input, runs>>

(* The window takes the mode the flag asks for; a null window is           *)
(* dereferenced by the calls that follow glfwCreateWindow.                 *)
CreateWindow ==
    /\ Running /\ pc = "window"
    /\ \/ /\ window' = TRUE /\ mode' = fullscreen /\ pc' = "spawn"
          /\ UNCHANGED process
       \/ process' = "crashed" /\ UNCHANGED <<window, mode, pc>>
    /\ UNCHANGED <<commands, fullscreen, shouldClose, disk, stack, call,
                   todo, glfw, events, posted, flip, allowed, watcher, input, runs>>

SpawnWatcher ==
    /\ Running /\ pc = "spawn"
    /\ watcher' = "test" /\ pc' = "loop"
    /\ UNCHANGED <<consoleVars, todo, glfw, mode, events, posted, flip, allowed, input, runs>>

-----------------------------------------------------------------------------
(* XDayEngine::mainLoop. *)
LoopTest ==
    /\ Running /\ pc = "loop"
    /\ pc' = IF shouldClose THEN "destroy" ELSE "wait"
    /\ UNCHANGED <<consoleVars, todo, glfw, mode, events, posted, flip, allowed, watcher, input, runs>>

(* glfwWaitEvents sleeps until an event is there, then dispatches all.     *)
WaitEvents ==
    /\ Running /\ pc = "wait" /\ events # << >>
    /\ pc' = "poll"
    /\ UNCHANGED <<consoleVars, todo, glfw, mode, events, posted, flip, allowed, watcher, input, runs>>

(* Mutated form of PollEnds: the loop sleeps again without its test. *)
PollEnds_NoTest ==
    /\ Running /\ pc = "poll" /\ events = << >>
    /\ pc' = "wait"
    /\ UNCHANGED <<consoleVars, todo, glfw, mode, events, posted, flip, allowed, watcher, input, runs>>

PollEnds ==
    /\ Running /\ pc = "poll" /\ events = << >>
    /\ pc' = "loop"
    /\ UNCHANGED <<consoleVars, todo, glfw, mode, events, posted, flip, allowed, watcher, input, runs>>

(* onKeyPress(ESCAPE) calls Quit directly; the close button is GLFW's own. *)
DispatchClose ==
    /\ Running /\ pc = "poll" /\ events # << >> /\ Head(events) \in {"escape", "close"}
    /\ events' = Tail(events) /\ shouldClose' = TRUE
    /\ UNCHANGED <<commands, fullscreen, window, disk, stack, call, process,
                   pc, todo, glfw, mode, posted, flip, allowed, watcher, input, runs>>

(* Other keys, focus, refresh and mouse have no effect. *)
DispatchOther ==
    /\ Running /\ pc = "poll" /\ events # << >> /\ Head(events) = "other"
    /\ events' = Tail(events)
    /\ UNCHANGED <<consoleVars, pc, todo, glfw, mode, posted, flip, allowed, watcher, input, runs>>

(* onKeyPress(ENTER): RevertValue reads the flag and stores its negation,  *)
(* then Value() reads it again and the window is moved to that mode.       *)
RevertRead ==
    /\ Running /\ pc = "poll" /\ events # << >> /\ Head(events) = "enter"
    /\ events' = Tail(events) /\ flip' = ~fullscreen /\ pc' = "revert"
    /\ UNCHANGED <<consoleVars, todo, glfw, mode, posted, allowed, watcher, input, runs>>

RevertStore ==
    /\ Running /\ pc = "revert"
    /\ fullscreen' = flip /\ pc' = "apply"
    /\ UNCHANGED <<commands, window, shouldClose, disk, stack, call, process,
                   todo, glfw, mode, events, posted, flip, allowed, watcher, input, runs>>

(* Mutated form of SetWindowMonitor: the window is toggled, not set to the *)
(* value read again.                                                       *)
SetWindowMonitor_Toggles ==
    /\ Running /\ pc = "apply"
    /\ mode' = ~mode /\ pc' = "poll"
    /\ UNCHANGED <<consoleVars, todo, glfw, events, posted, flip, allowed, watcher, input, runs>>

SetWindowMonitor ==
    /\ Running /\ pc = "apply"
    /\ mode' = fullscreen /\ pc' = "poll"
    /\ UNCHANGED <<consoleVars, todo, glfw, events, posted, flip, allowed, watcher, input, runs>>

(* Mutated form of CoreDestroy: only the keys are destroyed. *)
CoreDestroy_KeepsCommands ==
    /\ Running /\ pc = "destroy"
    /\ pc' = "join"
    /\ UNCHANGED <<consoleVars, todo, glfw, mode, events, posted, flip, allowed, watcher, input, runs>>

(* Core.Destroy clears the registry under the watcher.                     *)
CoreDestroy ==
    /\ Running /\ pc = "destroy"
    /\ DestroyCommands /\ pc' = "join"
    /\ UNCHANGED <<todo, glfw, mode, events, posted, flip, allowed, watcher, input, runs>>

(* WatchConsole.~thread(): nobody joined or detached the thread, and a     *)
(* thread object that was started stays joinable even after its function   *)
(* returned, so the destructor calls std::terminate.  glfwTerminate and    *)
(* the return behind it are not reached.                                   *)
DestroyThread ==
    /\ Running /\ pc = "join"
    /\ process' = "aborted"
    /\ UNCHANGED <<commands, fullscreen, window, shouldClose, disk, stack, call, engineVars, runs>>

-----------------------------------------------------------------------------
(* watch_console. *)
WatchTest ==
    /\ Running /\ watcher = "test"
    /\ watcher' = IF allowed /\ ~shouldClose THEN "read" ELSE "done"
    /\ UNCHANGED <<consoleVars, pc, todo, glfw, mode, events, posted, flip, allowed, input, runs>>

(* std::getline returns with a line, an empty line or at the end of stdin. *)
WatchRead ==
    /\ Running /\ watcher = "read"
    /\ input' \in Typed \cup {NoInput} /\ watcher' = "recheck"
    /\ UNCHANGED <<consoleVars, pc, todo, glfw, mode, events, posted, flip, allowed, runs>>

(* Mutated form of WatchCheck: the window is not asked again. *)
WatchCheck_NoRecheck ==
    /\ Running /\ watcher = "recheck"
    /\ watcher' = IF input # NoInput THEN "execute" ELSE "test"
    /\ UNCHANGED <<consoleVars, pc, todo, glfw, mode, events, posted, flip, allowed, input, runs>>

WatchCheck ==
    /\ Running /\ watcher = "recheck"
    /\ watcher' = IF ~shouldClose /\ input # NoInput THEN "execute" ELSE "test"
    /\ UNCHANGED <<consoleVars, pc, todo, glfw, mode, events, posted, flip, allowed, input, runs>>

WatchExecute ==
    /\ watcher = "execute"
    /\ Resolve("watcher", input) /\ watcher' = "executing"
    /\ UNCHANGED <<pc, todo, glfw, mode, events, posted, flip, allowed, input, runs>>

WatchExecuted ==
    /\ Running /\ watcher = "executing" /\ Idle("watcher")
    /\ watcher' = "test"
    /\ UNCHANGED <<consoleVars, pc, todo, glfw, mode, events, posted, flip, allowed, input, runs>>

-----------------------------------------------------------------------------
(* The user and the operating system. *)
Post(e) ==
    /\ Running /\ window /\ posted < MaxEvents
    /\ events' = Append(events, e) /\ posted' = posted + 1
    /\ UNCHANGED <<consoleVars, pc, todo, glfw, mode, flip, allowed, watcher, input, runs>>

InterpretMain    == Interpret("main") /\ UNCHANGED <<engineVars, runs>>
InterpretWatcher == Interpret("watcher") /\ UNCHANGED <<engineVars, runs>>

Startup  == \/ RegisterNext \/ CoreInitialized \/ ExecuteConfig \/ InterpretMain
            \/ InitGlfw \/ InitEngine \/ CreateWindow \/ SpawnWatcher
MainLoop == \/ LoopTest \/ WaitEvents \/ PollEnds \/ DispatchClose \/ DispatchOther
            \/ RevertRead \/ RevertStore \/ SetWindowMonitor
Main     == Startup \/ MainLoop \/ CoreDestroy \/ DestroyThread
Watcher  == WatchTest \/ WatchCheck \/ WatchExecute \/ InterpretWatcher \/ WatchExecuted
User     == \/ WatchRead \/ Restart
            \/ \E e \in {"escape", "close", "enter", "other"} : Post(e)

(* The system may rest when the process is gone and while main sleeps in   *)
(* glfwWaitEvents; anywhere else it would be stuck.                        *)
Rest == /\ ~Running \/ (pc = "wait" /\ events = << >>)
        /\ UNCHANGED vars

Next == Main \/ Watcher \/ User \/ Rest

(* The operating system runs both threads.  Nothing makes the user type a  *)
(* line or produce an event.                                               *)
Fairness == WF_vars(Main) /\ WF_vars(Watcher)

Spec == Init /\ [][Next]_vars /\ Fairness

-----------------------------------------------------------------------------
MainPlace == {"core", "console", "config", "engine", "window", "spawn", "loop", "wait",
              "poll", "revert", "apply", "destroy", "join"}
WatcherPlace == {"unborn", "test", "read", "recheck", "execute", "executing", "done"}
Event == {"escape", "close", "enter", "other"}

EngineTypeOK ==
    /\ ConsoleTypeOK
    /\ pc \in MainPlace /\ watcher \in WatcherPlace
    /\ todo \in Seq(CommandName)
    /\ events \in Seq(Event) /\ posted \in 0..MaxEvents
    /\ runs \in 1..MaxRuns
    /\ input \in Typed \cup {NoInput}
    /\ glfw \in BOOLEAN /\ mode \in BOOLEAN /\ flip \in BOOLEAN /\ allowed \in BOOLEAN

(* The watcher asks GLFW about the window in every turn of its loop: it    *)
(* never does so before main has created the window, and the two threads   *)
(* never execute lines at the same time, so that one stream at a time      *)
(* writes a config file.                                                   *)
WatcherHasWindow ==
    watcher # "unborn" => window /\ Idle("main")

(* The flag and the window agree outside the ENTER handler, and the only   *)
(* step that parts them is a fullscreen command the watcher executes.      *)
(* Neither startup, in whatever order its parts write and read the flag,   *)
(* nor an ENTER that races with the console does.                          *)
Agree == window /\ pc \notin {"revert", "apply"} => mode = fullscreen
OnlyConsoleParts == [][Agree /\ ~Agree' => call["watcher"].command = "fullscreen"]_vars

(* Once Core.Destroy has cleared the registry, a watcher that holds no     *)
(* command finds none any more: of all the lines it still reads from a     *)
(* config or the console, at most the call it had looked up is made.       *)
NoLateCommand ==
    [][pc = "join" /\ pc' = "join" /\ call["watcher"] = NoCall => call'["watcher"] = NoCall]_vars

(* The application's life as module AppLifecycle promises it. *)
phase == IF ~Running THEN "gone"
         ELSE IF ~window THEN "starting"
         ELSE IF shouldClose THEN "closing"
         ELSE "open"
busy == Running /\ (~Idle("main") \/ watcher \in {"execute", "executing"})
Lifecycle == INSTANCE AppLifecycle
RefinesLifecycle == Lifecycle!Spec

(* ESC and the close button end the program, whatever the console does in  *)
(* the meantime.                                                           *)
CloseEnds == (\E i \in DOMAIN events : events[i] \in {"escape", "close"}) ~> ~Running

(* quit and exit end the program: once the window was asked to close, the  *)
(* process ends.                                                           *)
QuitEnds == shouldClose ~> ~Running

(* exit is not terminate: asking the window to close ends in main's        *)
(* return, not in std::terminate.                                          *)
ExitIsClean == process # "aborted"
=============================================================================
