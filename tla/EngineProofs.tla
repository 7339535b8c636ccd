----------------------------- MODULE EngineProofs ---------------------------
(***************************************************************************)
(* For every set of files and lines, any depth of nesting and any number   *)
(* of events and runs: main and the console thread never execute lines at  *)
(* the same time, only the console parts the window from its flag, no      *)
(* command is found after Core.Destroy, and the application has the life   *)
(* AppLifecycle promises.                                                  *)
(***************************************************************************)
EXTENDS Engine, TLAPS

LEMMA Threads == "main" \in Thread /\ "watcher" \in Thread
BY EngineAssumption DEF EngineAssumption

(* Both threads have a stack and a place for the command they looked up. *)
Shape == DOMAIN stack = Thread /\ DOMAIN call = Thread

(* Main's places from the creation of the thread on, and from that of the window on. *)
WithWatcher == {"loop", "wait", "poll", "revert", "apply", "destroy", "join"}
WithWindow  == {"spawn"} \union WithWatcher

(* Who executes lines, who is there, and what exists, by the place main has reached. *)
Control ==
    /\ Shape /\ pc \in MainPlace /\ watcher \in WatcherPlace
    /\ pc # "config" => Idle("main")
    /\ ~Idle("watcher") => watcher = "executing"
    /\ watcher # "unborn" => pc \in WithWatcher
    /\ window <=> pc \in WithWindow
    /\ shouldClose => window
    /\ pc \in {"destroy", "join"} => shouldClose
    /\ pc = "join" => commands = << >>

-----------------------------------------------------------------------------
(* A thread without a line does nothing on its own.  One that has a line touches neither the  *)
(* other thread's stack and command, nor the window and the registry; it asks the window to   *)
(* close only when there is one, and writes the flag only for the command fullscreen.         *)
LEMMA IdleWaits == ASSUME NEW t \in Thread, Idle(t) PROVE ~Interpret(t)
BY DEF Idle, Interpret, Fetch, EndLoad, SaveLine, EndSave, Call, TopIs

LEMMA InterpretLeaves ==
    ASSUME Shape, NEW t \in Thread, Interpret(t)
    PROVE  /\ Running /\ Shape' /\ UNCHANGED <<commands, window>>
           /\ \A u \in Thread \ {t} : stack'[u] = stack[u] /\ call'[u] = call[u]
           /\ shouldClose' # shouldClose => window /\ shouldClose'
           /\ fullscreen' # fullscreen => call[t].command = "fullscreen"
<1> USE DEF Shape
<1>1. CASE Fetch(t)
  BY <1>1 DEF Fetch, Consumed
<1>2. CASE EndLoad(t)
  BY <1>2 DEF EndLoad, Popped
<1>3. CASE SaveLine(t)
  BY <1>3 DEF SaveLine, Consumed
<1>4. CASE EndSave(t)
  BY <1>4 DEF EndSave, Popped
<1>5. CASE Call(t)
  <2>1. Running /\ call' = [call EXCEPT ![t] = NoCall]
    BY <1>5 DEF Call
  <2>2. ASSUME NEW args, Effect(t, call[t].command, args)
        PROVE  /\ UNCHANGED <<commands, window>>
               /\ stack' = stack \/ \E f : stack' = Pushed(t, f)
               /\ shouldClose' # shouldClose => window /\ shouldClose'
               /\ fullscreen' # fullscreen => call[t].command = "fullscreen"
    BY <2>2 DEF Effect, End, Skip, Quit, ConfigSave, ConfigLoad
  <2>3. /\ UNCHANGED <<commands, window>>
        /\ stack' = stack \/ \E f : stack' = Pushed(t, f)
        /\ shouldClose' # shouldClose => window /\ shouldClose'
        /\ fullscreen' # fullscreen => call[t].command = "fullscreen"
    BY <1>5, <2>2 DEF Call, Skip
  <2>4. DOMAIN stack' = Thread /\ \A u \in Thread \ {t} : stack'[u] = stack[u]
    BY <2>3 DEF Pushed
  <2> QED
    BY <2>1, <2>3, <2>4
<1> QED
  BY <1>1, <1>2, <1>3, <1>4, <1>5 DEF Interpret

LEMMA ControlInit == ASSUME Init PROVE Control
BY Threads DEF Init, Control, Shape, Idle, MainPlace, WatcherPlace, WithWindow, WithWatcher

(* The steps of main that move it from place to place with nothing else the control is about. *)
LEMMA ControlStep == ASSUME Control, [Next]_vars PROVE Control'
<1> USE DEF MainPlace, WatcherPlace, WithWindow, WithWatcher
<1>0. /\ Shape /\ pc \in MainPlace /\ watcher \in WatcherPlace
      /\ pc # "config" => Idle("main")
      /\ ~Idle("watcher") => watcher = "executing"
      /\ watcher # "unborn" => pc \in WithWatcher
      /\ window <=> pc \in WithWindow
      /\ shouldClose => window
      /\ pc \in {"destroy", "join"} => shouldClose
      /\ pc = "join" => commands = << >>
  BY DEF Control
<1>1. ASSUME UNCHANGED <<stack, call, shouldClose>>
      PROVE  UNCHANGED <<Idle("main"), Idle("watcher"), shouldClose>> /\ Shape'
  BY <1>0, <1>1 DEF Idle, Shape
<1>2. CASE Restart
  BY <1>2, Threads DEF Restart, Control, Shape, Idle
<1>3. CASE ExecuteConfig
  BY <1>0, <1>3, Threads DEF ExecuteConfig, ConfigLoad, Pushed, Control, Shape, Idle
<1>4. CASE DispatchClose
  BY <1>0, <1>4 DEF DispatchClose, Control, Shape, Idle
<1>5. CASE WatchExecute
  BY <1>0, <1>5, Threads DEF WatchExecute, Resolve, Control, Shape, Idle
<1>6. CASE InterpretMain
  <2>1. Interpret("main") /\ UNCHANGED <<pc, watcher>>
    BY <1>6 DEF InterpretMain, engineVars
  <2>2. ~Idle("main") /\ pc = "config"
    BY <1>0, <2>1, IdleWaits, Threads
  <2>3. /\ Shape' /\ UNCHANGED <<commands, window>> /\ (shouldClose' # shouldClose => window /\ shouldClose')
        /\ stack'["watcher"] = stack["watcher"] /\ call'["watcher"] = call["watcher"]
    BY <1>0, <2>1, InterpretLeaves, Threads
  <2> QED
    BY <1>0, <2>1, <2>2, <2>3 DEF Control, Idle
<1>7. CASE InterpretWatcher
  <2>1. Interpret("watcher") /\ UNCHANGED <<pc, watcher>>
    BY <1>7 DEF InterpretWatcher, engineVars
  <2>2. ~Idle("watcher") /\ watcher = "executing"
    BY <1>0, <2>1, IdleWaits, Threads
  <2>3. /\ Shape' /\ UNCHANGED <<commands, window>> /\ (shouldClose' # shouldClose => window /\ shouldClose')
        /\ stack'["main"] = stack["main"] /\ call'["main"] = call["main"]
    BY <1>0, <2>1, InterpretLeaves, Threads
  <2> QED
    BY <1>0, <2>1, <2>2, <2>3 DEF Control, Idle
<1>8. CASE RegisterNext \/ CoreInitialized \/ InitGlfw \/ InitEngine \/ CreateWindow \/ SpawnWatcher
  <2>1. UNCHANGED <<stack, call, shouldClose>>
    BY <1>8 DEF RegisterNext, CoreInitialized, InitGlfw, InitEngine, CreateWindow, SpawnWatcher, consoleVars
  <2> QED
    BY <1>0, <1>1, <1>8, <2>1
       DEF Control, RegisterNext, CoreInitialized, InitGlfw, InitEngine, CreateWindow, SpawnWatcher, consoleVars
<1>9. CASE LoopTest \/ WaitEvents \/ PollEnds \/ RevertRead \/ RevertStore \/ SetWindowMonitor
  <2>1. UNCHANGED <<stack, call, shouldClose>>
    BY <1>9 DEF LoopTest, WaitEvents, PollEnds, RevertRead, RevertStore, SetWindowMonitor, consoleVars
  <2> QED
    BY <1>0, <1>1, <1>9, <2>1
       DEF Control, LoopTest, WaitEvents, PollEnds, RevertRead, RevertStore, SetWindowMonitor, consoleVars
<1>10. CASE CoreDestroy
  <2>1. UNCHANGED <<stack, call, shouldClose>>
    BY <1>10 DEF CoreDestroy, DestroyCommands
  <2> QED
    BY <1>0, <1>1, <1>10, <2>1 DEF Control, CoreDestroy, DestroyCommands
<1>11. CASE WatchTest \/ WatchCheck \/ WatchRead \/ WatchExecuted
  <2>1. UNCHANGED <<stack, call, shouldClose>>
    BY <1>11 DEF WatchTest, WatchCheck, WatchRead, WatchExecuted, consoleVars
  <2> QED
    BY <1>0, <1>1, <1>11, <2>1 DEF Control, WatchTest, WatchCheck, WatchRead, WatchExecuted, consoleVars
<1>12. CASE UNCHANGED <<stack, call, shouldClose, pc, watcher, window, commands>>
  BY <1>0, <1>1, <1>12 DEF Control
<1>13. CASE DispatchOther \/ DestroyThread \/ Rest \/ (\E e \in Event : Post(e)) \/ UNCHANGED vars
  BY <1>12, <1>13 DEF DispatchOther, DestroyThread, Rest, Post, vars, consoleVars, engineVars
<1> QED
  BY <1>2, <1>3, <1>4, <1>5, <1>6, <1>7, <1>8, <1>9, <1>10, <1>11, <1>13
     DEF Next, Main, Startup, MainLoop, Watcher, User, Event

LEMMA ControlInvariant == Spec => []Control
BY ControlInit, ControlStep, PTL DEF Spec

-----------------------------------------------------------------------------
(* The thread never asks GLFW about a window that is not there, and it and main never execute *)
(* lines at the same time, whatever the startup config holds and however often it nests.      *)
THEOREM EngineWatcherHasWindow == Spec => []WatcherHasWindow
<1>1. Control => WatcherHasWindow
  BY DEF Control, WatcherHasWindow, WithWindow, WithWatcher
<1> QED
  BY <1>1, ControlInvariant, PTL

(* After a step that parts the window from its flag, which is none of main's. *)
LEMMA ConsoleParts ==
    ASSUME Control, [Next]_vars, Agree, ~Agree'
    PROVE  call["watcher"].command = "fullscreen"
<1> USE DEF Agree
<1>1. CASE UNCHANGED <<window, mode, fullscreen>> /\ (pc' = pc \/ pc \notin {"revert", "apply"})
  BY <1>1
<1>2. CASE Restart
  BY <1>2 DEF Restart
<1>3. CASE CreateWindow \/ RevertRead \/ RevertStore \/ SetWindowMonitor
  BY <1>3 DEF CreateWindow, RevertRead, RevertStore, SetWindowMonitor, consoleVars
<1>4. CASE InterpretMain
  <2>1. Interpret("main") /\ UNCHANGED pc
    BY <1>4 DEF InterpretMain, engineVars
  <2>2. ~window
    BY <2>1, IdleWaits, Threads DEF Control, WithWindow, WithWatcher
  <2>3. ~window'
    BY <2>1, <2>2, InterpretLeaves, Threads DEF Control
  <2> QED
    BY <2>3
<1>5. CASE InterpretWatcher
  <2>1. Interpret("watcher") /\ UNCHANGED <<pc, mode>>
    BY <1>5 DEF InterpretWatcher, engineVars
  <2>2. window' = window /\ (fullscreen' # fullscreen => call["watcher"].command = "fullscreen")
    BY <2>1, InterpretLeaves, Threads DEF Control
  <2> QED
    BY <2>1, <2>2
<1>6. CASE RegisterNext \/ CoreInitialized \/ ExecuteConfig \/ InitGlfw \/ InitEngine \/ SpawnWatcher
  BY <1>1, <1>6
     DEF RegisterNext, CoreInitialized, ExecuteConfig, ConfigLoad, InitGlfw, InitEngine, SpawnWatcher,
         consoleVars
<1>7. CASE LoopTest \/ WaitEvents \/ PollEnds \/ DispatchClose \/ DispatchOther \/ CoreDestroy
           \/ DestroyThread
  BY <1>1, <1>7
     DEF LoopTest, WaitEvents, PollEnds, DispatchClose, DispatchOther, CoreDestroy, DestroyCommands,
         DestroyThread, consoleVars, engineVars
<1>8. CASE WatchTest \/ WatchRead \/ WatchCheck \/ WatchExecute \/ WatchExecuted
           \/ (\E e \in Event : Post(e)) \/ Rest \/ UNCHANGED vars
  BY <1>1, <1>8
     DEF WatchTest, WatchRead, WatchCheck, WatchExecute, Resolve, WatchExecuted, Post, Rest, vars,
         consoleVars, engineVars
<1> QED
  BY <1>2, <1>3, <1>4, <1>5, <1>6, <1>7, <1>8 DEF Next, Main, Startup, MainLoop, Watcher, User, Event

(* However ENTER, the startup config and the console interleave, the window leaves the mode   *)
(* its flag says only by a fullscreen command typed at the console.                           *)
THEOREM EngineOnlyConsoleParts == Spec => OnlyConsoleParts
<1>1. Control /\ [Next]_vars => [Agree /\ ~Agree' => call["watcher"].command = "fullscreen"]_vars
  BY ConsoleParts
<1> QED
  BY <1>1, ControlInvariant, PTL DEF Spec, OnlyConsoleParts

-----------------------------------------------------------------------------
(* An empty registry answers to no name. *)
LEMMA NothingFound == ASSUME commands = << >>, NEW line PROVE Resolved(line) = NoCall
BY DEF Resolved, Registry!Get, Registry!Lookup, Registry!Holds

LEMMA LateStep ==
    ASSUME Control, [Next]_vars, pc = "join", pc' = "join", call["watcher"] = NoCall
    PROVE  call'["watcher"] = NoCall
<1>1. commands = << >> /\ Idle("main") /\ Shape
  BY DEF Control
<1>2. CASE UNCHANGED call
  BY <1>2
<1>3. CASE WatchExecute
  BY <1>1, <1>3, NothingFound, Threads DEF WatchExecute, Resolve, Shape
<1>4. CASE InterpretMain
  BY <1>1, <1>4, IdleWaits, Threads DEF InterpretMain
<1>5. CASE InterpretWatcher
  <2>1. Interpret("watcher")
    BY <1>5 DEF InterpretWatcher
  <2>2. CASE Fetch("watcher")
    BY <1>1, <2>2, NothingFound, Threads DEF Fetch, Shape
  <2>3. CASE ~Fetch("watcher")
    BY <1>2, <2>1, <2>3 DEF Interpret, EndLoad, SaveLine, EndSave, Call
  <2> QED
    BY <2>2, <2>3
<1>6. CASE DestroyThread \/ WatchTest \/ WatchRead \/ WatchCheck \/ WatchExecuted
           \/ (\E e \in Event : Post(e)) \/ Rest \/ UNCHANGED vars
  BY <1>2, <1>6
     DEF DestroyThread, WatchTest, WatchRead, WatchCheck, WatchExecuted, Post, Rest, vars, consoleVars
<1> QED
  BY <1>3, <1>4, <1>5, <1>6
     DEF Next, Main, Startup, MainLoop, Watcher, User, Event, RegisterNext, CoreInitialized, ExecuteConfig,
         InitGlfw, InitEngine, CreateWindow, SpawnWatcher, LoopTest, WaitEvents, PollEnds, DispatchClose,
         DispatchOther, RevertRead, RevertStore, SetWindowMonitor, CoreDestroy, Restart

(* Behind Core.Destroy the console thread may still make the call it had looked up, and no    *)
(* other: whatever files it has open, no line of them finds a command.                        *)
THEOREM EngineNoLateCommand == Spec => NoLateCommand
<1>1. Control /\ [Next]_vars =>
        [pc = "join" /\ pc' = "join" /\ call["watcher"] = NoCall => call'["watcher"] = NoCall]_vars
  BY LateStep
<1> QED
  BY <1>1, ControlInvariant, PTL DEF Spec, NoLateCommand

-----------------------------------------------------------------------------
(* The promised life, step by step. *)
LifeStep == [Lifecycle!Next]_<<phase, busy>>

LEMMA LifeInit == ASSUME Init PROVE Lifecycle!Init
BY Threads DEF Init, Lifecycle!Init, phase, busy, Running, Idle

(* A step that ends the process: while the window is open it is one of a line.  The only end  *)
(* main comes to by itself, in the destructor of the thread, lies behind a request to close.  *)
LEMMA EndsByLine ==
    ASSUME Control, [Next]_vars, Running, ~Running', window, ~shouldClose
    PROVE  busy
<1> USE DEF WithWindow, WithWatcher
<1>1. process' # process
  BY DEF Running
<1>2. CASE InterpretMain
  BY <1>2, IdleWaits, Threads DEF InterpretMain, busy
<1>3. CASE InterpretWatcher
  BY <1>3, IdleWaits, Threads DEF InterpretWatcher, Control, busy
<1>4. CASE ExecuteConfig \/ InitEngine \/ CreateWindow \/ DestroyThread \/ Restart
  BY <1>4 DEF ExecuteConfig, InitEngine, CreateWindow, DestroyThread, Restart, Control
<1> QED
  BY <1>1, <1>2, <1>3, <1>4
     DEF Next, Main, Startup, MainLoop, Watcher, User, Event, RegisterNext, CoreInitialized, InitGlfw,
         SpawnWatcher, LoopTest, WaitEvents, PollEnds, DispatchClose, DispatchOther, RevertRead,
         RevertStore, SetWindowMonitor, CoreDestroy, DestroyCommands, WatchTest, WatchRead, WatchCheck,
         WatchExecute, Resolve, WatchExecuted, Post, Rest, vars, consoleVars

LEMMA Ends == ASSUME Control, [Next]_vars, Running, ~Running' PROVE LifeStep
BY EndsByLine DEF LifeStep, Lifecycle!Next, Lifecycle!Die, phase, busy

(* A step that the life does not show. *)

LEMMA Unseen ==
    ASSUME UNCHANGED <<process, window, shouldClose, Idle("main"), watcher \in {"execute", "executing"}>>
    PROVE  LifeStep
BY DEF LifeStep, phase, busy, Running

LEMMA LifeSteps == ASSUME Control, Control', [Next]_vars PROVE LifeStep
<1> USE DEF WithWindow, WithWatcher
<1>1. CASE Running /\ ~Running'
  BY <1>1, Ends
<1>2. CASE Restart
  <2>1. ~Running /\ Running' /\ ~window' /\ Idle("main")' /\ watcher' = "unborn"
    BY <1>2, Threads DEF Restart, Running, Idle
  <2> QED
    BY <2>1 DEF LifeStep, Lifecycle!Next, Lifecycle!Start, phase, busy
<1>3. CASE ExecuteConfig /\ Running'
  <2>1. Running /\ ~window /\ ~window' /\ busy = FALSE
    BY <1>3 DEF ExecuteConfig, ConfigLoad, Control, busy
  <2>2. busy' \in BOOLEAN
    BY DEF busy
  <2> QED
    BY <1>3, <2>1, <2>2 DEF LifeStep, Lifecycle!Next, Lifecycle!Accept, phase
<1>4. CASE CreateWindow /\ Running'
  <2>1. Running /\ ~window /\ busy = FALSE /\ ~shouldClose
    BY <1>4 DEF CreateWindow, Control, busy
  <2>2. window' /\ ~shouldClose' /\ busy' = FALSE
    BY <1>4, <2>1 DEF CreateWindow, Control, busy, Running, Idle
  <2> QED
    BY <1>4, <2>1, <2>2 DEF LifeStep, Lifecycle!Next, Lifecycle!Open, phase
<1>5. CASE DispatchClose
  <2>1. /\ Running /\ Running' /\ window /\ window' /\ shouldClose'
        /\ UNCHANGED <<stack, call, watcher>>
    BY <1>5 DEF DispatchClose, Control, Running
  <2>2. busy' = busy
    BY <2>1 DEF busy, Idle
  <2> QED
    BY <2>1, <2>2 DEF LifeStep, Lifecycle!Next, Lifecycle!RequestClose, phase
<1>6. CASE WatchCheck
  <2>1. /\ Running /\ Running' /\ watcher = "recheck" /\ UNCHANGED <<stack, call, window, shouldClose>>
        /\ watcher' = "test" \/ (watcher' = "execute" /\ ~shouldClose)
    BY <1>6 DEF WatchCheck, consoleVars, Running
  <2>2. busy = FALSE /\ window
    BY <2>1 DEF Control, busy
  <2>3. busy' \in BOOLEAN /\ (watcher' = "test" => busy' = FALSE)
    BY <2>1, <2>2 DEF busy, Idle, Control
  <2> QED
    BY <2>1, <2>2, <2>3 DEF LifeStep, Lifecycle!Next, Lifecycle!Accept, phase
<1>7. CASE WatchExecuted
  <2>1. Running /\ Running' /\ watcher = "executing" /\ UNCHANGED <<window, shouldClose>>
    BY <1>7 DEF WatchExecuted, consoleVars, Running
  <2>2. busy /\ busy' \in BOOLEAN
    BY <2>1 DEF busy
  <2> QED
    BY <2>1, <2>2 DEF LifeStep, Lifecycle!Next, Lifecycle!Finish, phase
<1>8. CASE InterpretMain /\ Running'
  <2>1. Interpret("main") /\ UNCHANGED <<pc, watcher>>
    BY <1>8 DEF InterpretMain, engineVars
  <2>2. Running /\ ~Idle("main") /\ ~window
    BY <2>1, IdleWaits, InterpretLeaves, Threads DEF Control
  <2>3. ~window' /\ busy /\ busy' \in BOOLEAN
    BY <2>1, <2>2, InterpretLeaves, Threads DEF Control, busy
  <2> QED
    BY <1>8, <2>2, <2>3 DEF LifeStep, Lifecycle!Next, Lifecycle!Finish, phase
<1>9. CASE InterpretWatcher /\ Running'
  <2>1. Interpret("watcher") /\ UNCHANGED <<pc, watcher>>
    BY <1>9 DEF InterpretWatcher, engineVars
  <2>2. Running /\ watcher = "executing" /\ window
    BY <2>1, IdleWaits, InterpretLeaves, Threads DEF Control
  <2>3. window' /\ busy /\ busy' /\ (shouldClose' # shouldClose => shouldClose')
    BY <1>9, <2>1, <2>2, InterpretLeaves, Threads DEF Control, busy
  <2> QED
    BY <1>9, <2>2, <2>3 DEF LifeStep, Lifecycle!Next, Lifecycle!RequestClose, phase
<1>10. CASE RegisterNext \/ CoreInitialized \/ InitGlfw \/ LoopTest \/ WaitEvents \/ PollEnds
           \/ DispatchOther \/ RevertRead \/ RevertStore \/ SetWindowMonitor \/ CoreDestroy
           \/ (\E e \in Event : Post(e)) \/ Rest \/ UNCHANGED vars
  <2>1. UNCHANGED <<process, window, shouldClose, stack, call, watcher>>
    BY <1>10
       DEF RegisterNext, CoreInitialized, InitGlfw, LoopTest, WaitEvents, PollEnds, DispatchOther,
           RevertRead, RevertStore, SetWindowMonitor, CoreDestroy, DestroyCommands, Post, Rest, vars,
           consoleVars, engineVars
  <2> QED
    BY <2>1, Unseen DEF Idle
<1>11. CASE SpawnWatcher \/ WatchTest \/ WatchRead
  <2>1. /\ UNCHANGED <<process, window, shouldClose, stack, call>>
        /\ watcher \notin {"execute", "executing"} /\ watcher' \notin {"execute", "executing"}
    BY <1>11 DEF SpawnWatcher, WatchTest, WatchRead, consoleVars, Control
  <2> QED
    BY <2>1, Unseen DEF Idle
<1>12. CASE WatchExecute
  <2>1. /\ UNCHANGED <<process, window, shouldClose, stack>> /\ call'["main"] = call["main"]
        /\ watcher = "execute" /\ watcher' = "executing"
    BY <1>12, Threads DEF WatchExecute, Resolve, Control, Shape
  <2> QED
    BY <2>1, Unseen DEF Idle
<1>13. CASE InitEngine \/ CreateWindow \/ DestroyThread
  <2>1. Running
    BY <1>13 DEF InitEngine, CreateWindow, DestroyThread
  <2>2. CASE Running' /\ ~CreateWindow
    <3>1. UNCHANGED <<process, window, shouldClose, stack, call, watcher>>
      BY <1>13, <2>2 DEF InitEngine, DestroyThread, Running
    <3> QED
      BY <3>1, Unseen DEF Idle
  <2> QED
    BY <1>1, <1>4, <2>1, <2>2
<1> QED
  BY <1>1, <1>2, <1>3, <1>4, <1>5, <1>6, <1>7, <1>8, <1>9, <1>10, <1>11, <1>12, <1>13
     DEF Next, Main, Startup, MainLoop, Watcher, User, Event, ExecuteConfig, InterpretMain,
         InterpretWatcher, Interpret, Fetch, EndLoad, SaveLine, EndSave, Call

(* From any number of starts over the same files, main and the console thread together have   *)
(* the life AppLifecycle promises: lines are taken one at a time, and none once the window    *)
(* has been asked to close; and an open window goes only by a request to close or by a line.  *)
THEOREM EngineRefinesLifecycle == Spec => RefinesLifecycle
<1>1. Init => Lifecycle!Init
  BY LifeInit
<1>2. Control /\ Control' /\ [Next]_vars => [Lifecycle!Next]_<<phase, busy>>
  BY LifeSteps DEF LifeStep
<1> QED
  BY <1>1, <1>2, ControlInvariant, PTL DEF Spec, RefinesLifecycle, Lifecycle!Spec
=============================================================================
