-------------------------- MODULE DemoProcessProofs -------------------------
(***************************************************************************)
(* For every set of messages and any number of events: the types of the    *)
(* demo's process, the order in which it makes its directories, and that   *)
(* its log file implements Journal over all runs.                          *)
(***************************************************************************)
EXTENDS DemoProcess, SequenceTheorems, TLAPS

(* What the process says is a message. *)
LEMMA Messages ==
    /\ {"info", "error", "failure", "aborting", "unverified", "no memory"} \subseteq Message
BY ProcessAssumption DEF ProcessAssumption, Message

(* The parts of the type invariant, by component. *)
DiskTypeOK ==
    /\ dirs \subseteq Dir /\ files \subseteq Dir /\ bare \subseteq Root /\ parents \in [Root -> BOOLEAN]
    /\ unmade \in Seq(Dir) /\ Len(unmade) <= Len(CreateOrder)

LogTypeOK ==
    /\ level \in {"trace", "info", "off"} /\ noFlush \in BOOLEAN /\ sink \in BOOLEAN
    /\ file \in Seq(Message) /\ buffer \in Seq(Message)
    /\ buffer # << >> => sink

(* A process with a file has its log switched on, and one that has no file yet can get one. *)
SinkIsOn ==
    /\ sink /\ pc # "gone" => level # "off" /\ ~noFlush
    /\ pc = "dirs" => ~sink /\ ~noFlush /\ level = "trace"

ControlTypeOK ==
    /\ pc \in {"gone", "dirs", "announce", "glfw", "null", "run", "oom", "fail", "flush", "decide",
               "abort"}
    /\ noLog \in BOOLEAN /\ noLogFlush \in BOOLEAN /\ debug \in BOOLEAN
    /\ armed \subseteq Signals
    /\ report \in [message : Message, fatal : BOOLEAN, ignore : BOOLEAN, back : {"gone", "run", "oom"}]
    /\ ended \in {"normally", "failed", "killed"} /\ lost \in BOOLEAN
    /\ events \in 0..MaxEvents /\ removed \in BOOLEAN

TypeInv == DiskTypeOK /\ LogTypeOK /\ ControlTypeOK /\ SinkIsOn

LEMMA TypeParts == TypeInv => ProcessTypeOK
BY DEF TypeInv, ProcessTypeOK, DiskTypeOK, LogTypeOK, ControlTypeOK, SinkIsOn

(* The directories by their names, and the order in which they are made. *)
LEMMA Directories ==
    /\ Dir = {"data", "resources", "binary_shaders", "logs", "saves", "archives", "configs",
              "models", "shaders", "sounds", "textures"}
    /\ CreateOrder \in Seq(Dir) /\ Len(CreateOrder) = 11
BY DEF Dir, Root, Parent, CreateOrder

-----------------------------------------------------------------------------
(* The file and the buffer together, and what a full buffer parts into. *)
LEMMA WholeLog ==
    ASSUME LogTypeOK
    PROVE  /\ file \o buffer \in Seq(Message)
           /\ Len(file) \in Nat /\ Len(buffer) \in Nat
           /\ Len(file \o buffer) = Len(file) + Len(buffer)
BY ConcatProperties, LenProperties DEF LogTypeOK

LEMMA SpilledParts ==
    ASSUME LogTypeOK, NEW n \in 1..Len(buffer)
    PROVE  /\ SubSeq(buffer, 1, n) \in Seq(Message) /\ SubSeq(buffer, n + 1, Len(buffer)) \in Seq(Message)
           /\ Len(SubSeq(buffer, 1, n)) = n
           /\ SubSeq(buffer, 1, n) \o SubSeq(buffer, n + 1, Len(buffer)) = buffer
<1>1. buffer \in Seq(Message) /\ Len(buffer) \in Nat /\ n \in Nat /\ 1 <= n /\ n <= Len(buffer)
  BY LenProperties DEF LogTypeOK
<1>2. \A i \in 1..Len(buffer) : buffer[i] \in Message
  BY <1>1, ElementOfSeq
<1>3. SubSeq(buffer, 1, n) \in Seq(Message) /\ Len(SubSeq(buffer, 1, n)) = n
  <2>1. \A i \in 1..n : buffer[i] \in Message
    BY <1>1, <1>2
  <2> QED
    BY <1>1, <2>1, SubSeqProperties
<1>4. SubSeq(buffer, n + 1, Len(buffer)) \in Seq(Message)
  <2>1. \A i \in (n + 1)..Len(buffer) : buffer[i] \in Message
    BY <1>1, <1>2
  <2> QED
    BY <1>1, <2>1, SubSeqProperties
<1>5. SubSeq(buffer, 1, n) \o SubSeq(buffer, n + 1, Len(buffer)) = SubSeq(buffer, 1, Len(buffer))
  BY <1>1, ConcatAdjacentSubSeq
<1> QED
  BY <1>1, <1>3, <1>4, <1>5, SubSeqFull

(* The operations of the log keep its types. *)
LEMMA LogOperations ==
    ASSUME LogTypeOK
    PROVE  /\ Construct => LogTypeOK'
           /\ \A a, b, c \in BOOLEAN :
                 InitializeFile(a, b, c) \/ InitializeNoFile(a, b, c) => LogTypeOK'
           /\ \A m \in Message : Put(m) => LogTypeOK'
           /\ Flush => LogTypeOK'
           /\ Spill => LogTypeOK'
           /\ Destroy => LogTypeOK'
           /\ Lose => LogTypeOK'
<1> USE EmptySeq DEF LogTypeOK
<1>1. Construct => LogTypeOK'
  BY DEF Construct
<1>2. ASSUME NEW a \in BOOLEAN, NEW b \in BOOLEAN, NEW c \in BOOLEAN,
             InitializeFile(a, b, c) \/ InitializeNoFile(a, b, c)
      PROVE  LogTypeOK'
  BY <1>2 DEF InitializeFile, InitializeNoFile
<1>3. ASSUME NEW m \in Message, Put(m) PROVE LogTypeOK'
  <2>1. Append(buffer, m) \in Seq(Message)
    BY AppendProperties
  <2> QED
    BY <1>3, <2>1 DEF Put
<1>4. ASSUME Flush PROVE LogTypeOK'
  <2>1. CASE noFlush
    BY <1>4, <2>1 DEF Flush
  <2>2. CASE ~noFlush
    BY <1>4, <2>2, WholeLog DEF Flush
  <2> QED
    BY <2>1, <2>2
<1>5. ASSUME Spill PROVE LogTypeOK'
  <2>1. PICK n \in 1..Len(buffer) :
            /\ file' = file \o SubSeq(buffer, 1, n)
            /\ buffer' = SubSeq(buffer, n + 1, Len(buffer))
    BY <1>5 DEF Spill
  <2>2. file \o SubSeq(buffer, 1, n) \in Seq(Message)
    BY SpilledParts, ConcatProperties
  <2>3. buffer # << >>
    BY <2>1
  <2> QED
    BY <1>5, <2>1, <2>2, <2>3, SpilledParts DEF Spill
<1>6. Destroy => LogTypeOK'
  BY WholeLog DEF Destroy
<1>7. Lose => LogTypeOK'
  BY DEF Lose
<1> QED
  BY <1>1, <1>2, <1>3, <1>4, <1>5, <1>6, <1>7

-----------------------------------------------------------------------------
(* The types of the disk, the log and the control, each kept by every step. *)
Report == [message : Message, fatal : BOOLEAN, ignore : BOOLEAN, back : {"gone", "run", "oom"}]

LEMMA NoReportType == NoReport \in Report
BY Messages DEF NoReport, Report

LEMMA BoundIsNat == MaxEvents \in Nat
BY ProcessAssumption DEF ProcessAssumption

LEMMA TypeInit == ASSUME Init PROVE TypeInv
<1>1. DiskTypeOK
  BY Directories, EmptySeq DEF Init, FilesystemInit, DiskTypeOK
<1>2. LogTypeOK
  BY EmptySeq DEF Init, LogInit, LogTypeOK
<1>3. ControlTypeOK
  <2>1. 0 \in 0..MaxEvents
    BY BoundIsNat
  <2>2. sink = FALSE /\ report = NoReport /\ armed = {}
    BY DEF Init, LogInit
  <2>3. report \in Report
    BY <2>2, NoReportType
  <2>4. events \in 0..MaxEvents /\ armed \subseteq Signals
    BY <2>1, <2>2 DEF Init
  <2>5. /\ pc = "gone" /\ noLog \in BOOLEAN /\ noLogFlush \in BOOLEAN /\ debug \in BOOLEAN
        /\ ended = "normally" /\ lost \in BOOLEAN /\ removed \in BOOLEAN
    BY DEF Init
  <2> QED
    BY <2>2, <2>3, <2>4, <2>5 DEF ControlTypeOK, Report
<1>4. SinkIsOn
  BY DEF Init, LogInit, SinkIsOn
<1> QED
  BY <1>1, <1>2, <1>3, <1>4 DEF TypeInv

(* Nothing but the end of the process and its start touches both the disk and the plan. *)
LEMMA DiskStep == ASSUME DiskTypeOK, [Next]_vars PROVE DiskTypeOK'
<1> USE DEF DiskTypeOK
<1>1. CASE CreateNext
  <2>1. Head(unmade) \in Dir /\ Tail(unmade) \in Seq(Dir) /\ Len(Tail(unmade)) = Len(unmade) - 1
    BY <1>1, HeadTailProperties DEF CreateNext
  <2>2. Len(unmade) \in Nat
    BY LenProperties
  <2>3. /\ dirs' \subseteq dirs \union {Head(unmade)} /\ unmade' = Tail(unmade)
        /\ UNCHANGED <<files, bare, parents>>
    BY <1>1 DEF CreateNext, CreateDirIfNotExist
  <2>4. dirs' \subseteq Dir /\ files' \subseteq Dir /\ bare' \subseteq Root
    BY <2>1, <2>3
  <2>5. parents' \in [Root -> BOOLEAN]
    BY <2>3
  <2>6. unmade' \in Seq(Dir) /\ Len(unmade') <= Len(CreateOrder)
    BY <2>1, <2>2, <2>3, Directories
  <2> QED
    BY <2>4, <2>5, <2>6
<1>2. CASE Start
  BY <1>2, Directories DEF Start, disk
<1>3. ASSUME NEW r \in Root, RemoveDirs(r) PROVE DiskTypeOK'
  BY <1>3 DEF RemoveDirs, Remove
<1>4. CASE Return \/ Kill \/ Abort \/ UseNull \/ Crash
  <2>1. Raise("SIGABRT", "aborting") \/ Raise("SIGSEGV", "failure") \/ Forgets
    BY <1>4 DEF Return, Kill, Abort, UseNull, Crash, Gone
  <2>2. UNCHANGED disk /\ unmade' \in {unmade, << >>}
    BY <2>1 DEF Raise, Gone, Forgets
  <2>3. UNCHANGED <<dirs, files, bare, parents>>
    BY <2>2 DEF disk
  <2>4. dirs' \subseteq Dir /\ files' \subseteq Dir /\ bare' \subseteq Root
    BY <2>3
  <2>5. parents' \in [Root -> BOOLEAN]
    BY <2>3
  <2>6. << >> \in Seq(Dir) /\ Len(<< >>) <= Len(CreateOrder)
    BY EmptySeq, Directories
  <2>7. unmade' \in Seq(Dir) /\ Len(unmade') <= Len(CreateOrder)
    BY <2>2, <2>6
  <2> QED
    BY <2>4, <2>5, <2>7
<1>5. CASE UNCHANGED <<disk, unmade>>
  BY <1>5 DEF disk
<1> QED
  BY <1>1, <1>2, <1>3, <1>4, <1>5
     DEF Next, Initialize, Running, Failing, CreateThrows, LogInitialize, LogThrows, Announce,
         GlfwReady, GlfwFails, Speak, FlushLog, Assertion, Verification, OutOfMemory, MemoryFound,
         Terminate, FailLogs, FailFlushes, FailDecides, SpillBuffer, vars

(* What an action outside the log leaves to it. *)
LEMMA LogStep ==
    ASSUME LogTypeOK, ControlTypeOK, [Next]_vars
    PROVE  LogTypeOK'
<1>1. CASE Start
  BY <1>1, LogOperations DEF Start
<1>2. CASE LogInitialize
  BY <1>2, LogOperations DEF LogInitialize, ControlTypeOK
<1>3. CASE \E m \in Message : Put(m)
  BY <1>3, LogOperations
<1>4. CASE Flush \/ Spill \/ Destroy \/ Lose
  BY <1>4, LogOperations
<1>5. ASSUME NEW r \in Root, RemoveDirs(r) PROVE LogTypeOK'
  BY <1>5, EmptySeq DEF RemoveDirs, LogTypeOK
<1>6. CASE UNCHANGED log
  BY <1>6 DEF LogTypeOK, log
<1>7. CASE FailLogs \/ Announce \/ GlfwFails \/ \E m \in Message : Speak(m)
  <2>1. report.message \in Message
    BY DEF ControlTypeOK
  <2>2. (\E m \in Message : Put(m)) \/ UNCHANGED log
    BY <1>7, <2>1, Messages DEF FailLogs, Announce, GlfwFails, Speak
  <2> QED
    BY <2>2, <1>3, <1>6
<1>8. CASE FailFlushes \/ FlushLog \/ SpillBuffer \/ Return \/ Kill
  BY <1>8, <1>4 DEF FailFlushes, FlushLog, SpillBuffer, Return, Kill, Gone
<1>9. CASE Abort \/ UseNull \/ Crash
  BY <1>9, <1>4, <1>6 DEF Abort, UseNull, Crash, Raise, Gone
<1> QED
  BY <1>1, <1>2, <1>5, <1>6, <1>7, <1>8, <1>9
     DEF Next, Initialize, Running, Failing, CreateNext, CreateThrows, LogThrows,
         GlfwReady, Assertion, Verification, OutOfMemory, MemoryFound,
         Terminate, FailDecides, vars

(* Which operations touch the flags of the log. *)
LEMMA SinkStep == ASSUME SinkIsOn, ControlTypeOK, [Next]_vars PROVE SinkIsOn'
<1> USE DEF SinkIsOn
<1>1. CASE Start
  BY <1>1 DEF Start, Construct
<1>2. CASE LogInitialize
  BY <1>2 DEF LogInitialize, InitializeFile, InitializeNoFile
<1>3. CASE pc' = "gone"
  BY <1>3
<1>4. CASE UNCHANGED <<level, noFlush, sink>> /\ (pc' = "dirs" => pc = "dirs") /\ pc # "gone"
  BY <1>4
<1>5. ASSUME NEW r \in Root, RemoveDirs(r) PROVE SinkIsOn'
  BY <1>5 DEF RemoveDirs
<1>6. CASE UNCHANGED vars
  BY <1>6 DEF vars, log
<1>7. CASE Initialize /\ ~LogInitialize
  <2>1. UNCHANGED <<level, noFlush, sink>>
    BY <1>7 DEF Initialize, CreateNext, CreateThrows, LogThrows, Announce, GlfwReady, GlfwFails, Put, log
  <2>2. (pc' = "dirs" => pc = "dirs") /\ pc # "gone"
    BY <1>7 DEF Initialize, CreateNext, CreateThrows, LogThrows, Announce, GlfwReady, GlfwFails
  <2> QED
    BY <2>1, <2>2, <1>4
<1>8. CASE Return \/ Kill
  BY <1>8, <1>3 DEF Return, Kill, Gone, Forgets
<1>9. CASE Abort \/ UseNull \/ Crash
  <2>1. pc' = "gone" \/ (UNCHANGED log /\ pc' = "fail" /\ pc # "gone")
    BY <1>9 DEF Abort, UseNull, Crash, Raise, Fails, Gone, Forgets
  <2> QED
    BY <2>1, <1>3, <1>4 DEF log
<1>10. CASE SpillBuffer \/ FailLogs \/ FailFlushes \/ FlushLog \/ \E m \in Message : Speak(m)
  <2>1. UNCHANGED <<level, noFlush, sink>>
    BY <1>10 DEF SpillBuffer, FailLogs, FailFlushes, FlushLog, Speak, Spill, Put, Flush
  <2>2. (pc' = "dirs" => pc = "dirs") /\ pc # "gone"
    BY <1>10 DEF SpillBuffer, FailLogs, FailFlushes, FlushLog, Speak
  <2> QED
    BY <2>1, <2>2, <1>4
<1>11. CASE Assertion \/ Verification \/ OutOfMemory \/ MemoryFound \/ Terminate
  BY <1>11, <1>4 DEF Assertion, Verification, OutOfMemory, MemoryFound, Terminate, Fails, log
<1>12. CASE FailDecides
  <2>1. report.back \in {"gone", "run", "oom"}
    BY DEF ControlTypeOK
  <2> QED
    BY <1>12, <2>1, <1>4 DEF FailDecides, log
<1> QED
  BY <1>1, <1>2, <1>5, <1>6, <1>7, <1>8, <1>9, <1>10, <1>11, <1>12
     DEF Next, Running, Failing, Initialize

(* Where the process can go, what a report is made of, and which handlers there are. *)
LEMMA ControlStep == ASSUME ControlTypeOK, [Next]_vars PROVE ControlTypeOK'
<1> USE DEF ControlTypeOK
<1>0. NoReport \in Report /\ MaxEvents \in Nat /\ SetupHandlers \subseteq Signals
  BY NoReportType, BoundIsNat DEF SetupHandlers
<1>1. ASSUME NEW how \in {"normally", "failed", "killed"}, Forgets, ended' = how, lost' \in BOOLEAN,
             events' \in 0..MaxEvents, UNCHANGED removed
      PROVE  ControlTypeOK'
  <2>1. report' \in Report /\ armed' \subseteq Signals
    BY <1>0, <1>1 DEF Forgets
  <2>2. pc' = "gone" /\ noLog' \in BOOLEAN /\ noLogFlush' \in BOOLEAN /\ debug' \in BOOLEAN
    BY <1>1 DEF Forgets
  <2> QED
    BY <1>1, <2>1, <2>2 DEF Report
<1>2. ASSUME NEW message \in Message, NEW fatal \in BOOLEAN, NEW ignore \in BOOLEAN,
             NEW back \in {"gone", "run", "oom"}, Fails(message, fatal, ignore, back),
             armed' \subseteq armed, UNCHANGED <<keys, outside, rest>>
      PROVE  ControlTypeOK'
  <2>1. report' \in Report
    BY <1>2 DEF Fails, Report
  <2>2. UNCHANGED <<noLog, noLogFlush, debug, events, removed, ended, lost>> /\ pc' = "fail"
    BY <1>2 DEF Fails, keys, outside, rest
  <2> QED
    BY <1>2, <2>1, <2>2 DEF Report
<1>3. ASSUME NEW message \in Message, NEW signal \in Signals, Raise(signal, message), UNCHANGED outside
      PROVE  ControlTypeOK'
  <2>1. CASE signal \in armed
    BY <1>3, <2>1, <1>2 DEF Raise, Gone, Forgets
  <2>2. CASE signal \notin armed
    <3>1. Gone("failed") /\ UNCHANGED <<events, removed>>
      BY <1>3, <2>2 DEF Raise, outside
    <3> QED
      BY <3>1, <1>1 DEF Gone
  <2> QED
    BY <2>1, <2>2
<1>4. ASSUME UNCHANGED <<keys, armed, rest>>, UNCHANGED report, removed' \in BOOLEAN,
             events' \in 0..MaxEvents, 
             pc' \in {pc, "abort", "announce", "glfw", "null", "run", "flush", "decide"}
      PROVE  ControlTypeOK'
  BY <1>4 DEF keys, rest
<1>5. pc \in {"gone", "dirs", "announce", "glfw", "null", "run", "oom", "fail", "flush", "decide",
              "abort"}
  OBVIOUS
<1>6. events \in 0..MaxEvents /\ removed \in BOOLEAN /\ (Occurs => events' \in 0..MaxEvents)
  BY <1>0 DEF Occurs
<1>7. CASE Start
  <2>1. report' \in Report /\ armed' \subseteq Signals /\ pc' = "dirs"
    BY <1>0, <1>7 DEF Start, Report
  <2>2. noLog' \in BOOLEAN /\ noLogFlush' \in BOOLEAN /\ debug' \in BOOLEAN /\ removed' = FALSE
    BY <1>7 DEF Start
  <2>3. UNCHANGED <<events, ended, lost>>
    BY <1>7 DEF Start, rest
  <2> QED
    BY <2>1, <2>2, <2>3 DEF Report
<1>8. CASE Initialize \/ FailLogs \/ FailFlushes \/ FlushLog \/ MemoryFound \/ Terminate
           \/ SpillBuffer \/ (\E m \in Message : Speak(m))
  <2>1. /\ UNCHANGED <<keys, armed, rest>> /\ UNCHANGED report /\ UNCHANGED outside
        /\ pc' \in {pc, "abort", "announce", "glfw", "null", "run", "flush", "decide"}
    BY <1>8 DEF Initialize, CreateNext, CreateThrows, LogInitialize, LogThrows, Announce, GlfwReady,
                GlfwFails, FailLogs, FailFlushes, FlushLog, MemoryFound, Terminate, SpillBuffer, Speak
  <2>2. removed' \in BOOLEAN /\ events' \in 0..MaxEvents
    BY <2>1, <1>6 DEF outside
  <2> QED
    BY <2>1, <2>2, <1>4
<1>9. CASE Assertion \/ Verification \/ OutOfMemory
  <2>1. UNCHANGED <<keys, outside, rest>> /\ armed' \subseteq armed
    BY <1>9 DEF Assertion, Verification, OutOfMemory
  <2> QED
    BY <1>9, <2>1, <1>2, Messages DEF Assertion, Verification, OutOfMemory
<1>10. CASE FailDecides
  <2>1. report' \in Report /\ pc' \in {"abort", "gone", "run", "oom"}
    BY <1>0, <1>10 DEF FailDecides
  <2>2. UNCHANGED <<noLog, noLogFlush, debug, armed, events, removed, ended, lost>>
    BY <1>10 DEF FailDecides, keys, outside, rest
  <2> QED
    BY <2>1, <2>2 DEF Report
<1>11. CASE Abort \/ UseNull \/ Crash
  BY <1>11, <1>3, Messages DEF Abort, UseNull, Crash, Signals
<1>12. CASE Return
  <2>1. Forgets /\ ended' = "normally" /\ lost' = FALSE /\ UNCHANGED <<events, removed>>
    BY <1>12 DEF Return, outside
  <2> QED
    BY <2>1, <1>1, <1>6
<1>13. CASE Kill
  <2>1. Forgets /\ ended' = "killed" /\ lost' \in BOOLEAN /\ Occurs /\ UNCHANGED removed
    BY <1>13 DEF Kill, Gone
  <2> QED
    BY <2>1, <1>1, <1>6
<1>14. ASSUME NEW r \in Root, RemoveDirs(r) PROVE ControlTypeOK'
  <2>1. /\ UNCHANGED <<keys, armed, rest>> /\ UNCHANGED report /\ pc' = pc
        /\ removed' = TRUE /\ Occurs
    BY <1>14 DEF RemoveDirs
  <2> QED
    BY <2>1, <1>4, <1>6
<1>15. CASE UNCHANGED vars
  <2>1. UNCHANGED <<keys, armed, rest>> /\ UNCHANGED report /\ UNCHANGED pc /\ UNCHANGED outside
    BY <1>15 DEF vars
  <2>2. removed' \in BOOLEAN /\ events' \in 0..MaxEvents
    BY <2>1, <1>6 DEF outside
  <2> QED
    BY <2>1, <2>2, <1>4
<1> QED
  BY <1>7, <1>8, <1>9, <1>10, <1>11, <1>12, <1>13, <1>14, <1>15 DEF Next, Running, Failing

(* Every reachable state has the types of ProcessTypeOK: the log is switched on whenever a     *)
(* living process has a file, and nothing is buffered without one.                             *)
LEMMA TypeInvariant == Spec => []TypeInv
<1>1. Init => TypeInv
  BY TypeInit
<1>2. TypeInv /\ [Next]_vars => TypeInv'
  BY DiskStep, LogStep, SinkStep, ControlStep DEF TypeInv
<1> QED
  BY <1>1, <1>2, PTL DEF Spec

THEOREM ProcessTypes == Spec => []ProcessTypeOK
<1>1. TypeInv => ProcessTypeOK
  BY TypeParts
<1> QED
  BY <1>1, TypeInvariant, PTL

-----------------------------------------------------------------------------
(* In the order of the program every directory has its turn, behind the one it is in. *)
LEMMA PlannedOrder ==
    /\ \A k \in 1..11 : CreateOrder[k] \notin Root =>
          \E j \in 1..(k - 1) : CreateOrder[j] = Parent[CreateOrder[k]]
    /\ \A d \in Dir : \E k \in 1..11 : CreateOrder[k] = d
<1> DEFINE c == CreateOrder
<1>1. /\ c[1] = "data" /\ c[2] = "binary_shaders" /\ c[3] = "logs" /\ c[4] = "saves"
      /\ c[5] = "resources" /\ c[6] = "archives" /\ c[7] = "configs" /\ c[8] = "models"
      /\ c[9] = "shaders" /\ c[10] = "sounds" /\ c[11] = "textures"
  BY DEF CreateOrder
<1>2. /\ \A k \in {2, 3, 4} : Parent[c[k]] = c[1]
      /\ \A k \in {6, 7, 8, 9, 10, 11} : Parent[c[k]] = c[5]
      /\ c[1] \in Root /\ c[5] \in Root
  BY <1>1 DEF Parent, Root
<1> HIDE DEF c
<1>3. ASSUME NEW k \in 1..11, c[k] \notin Root PROVE \E j \in 1..(k - 1) : c[j] = Parent[c[k]]
  <2>1. CASE k \in {2, 3, 4}
    <3>1. 1 \in 1..(k - 1)
      BY <2>1
    <3> QED
      BY <3>1, <2>1, <1>2
  <2>2. CASE k \in {6, 7, 8, 9, 10, 11}
    <3>1. 5 \in 1..(k - 1)
      BY <2>2
    <3> QED
      BY <3>1, <2>2, <1>2
  <2>3. k \in {2, 3, 4} \/ k \in {6, 7, 8, 9, 10, 11}
    BY <1>3, <1>2
  <2> QED
    BY <2>1, <2>2, <2>3
<1>4. \A d \in Dir : \E k \in 1..11 : c[k] = d
  <2>1. {1, 2, 3, 4, 5, 6, 7, 8, 9, 10, 11} \subseteq 1..11
    OBVIOUS
  <2> QED
    BY <2>1, <1>1, Directories
<1> QED
  BY <1>3, <1>4 DEF c

(* The first n directories have been made, and are still there unless somebody removed one. *)
MadeUpTo(n) ==
    /\ Len(unmade) = 11 - n
    /\ \A k \in 1..(11 - n) : unmade[k] = CreateOrder[n + k]
    /\ ~removed => \A k \in 1..n : CreateOrder[k] \in dirs \union bare

(* The directories form a tree, and none has the name of a file. *)
Tree ==
    /\ \A d \in DOMAIN Parent : d \in dirs => Parent[d] \in dirs
    /\ bare \intersect dirs = {}

LEMMA TreeStep == ASSUME TypeInv, Tree, [Next]_vars PROVE Tree'
<1> USE DEF Tree
<1>0. /\ \A d \in DOMAIN Parent : d \notin Root /\ Parent[d] \in Root
      /\ bare \subseteq Root
  BY DEF Parent, Root, TypeInv, DiskTypeOK
<1>1. CASE UNCHANGED <<dirs, bare>>
  BY <1>1
<1>2. CASE CreateNext
  <2>1. PICK d \in Dir : /\ UNCHANGED dirs \/ (d \notin bare /\ HasParent(d) /\ dirs' = dirs \union {d})
                         /\ UNCHANGED bare
    <3>1. Head(unmade) \in Dir
      BY <1>2, HeadTailProperties DEF CreateNext, TypeInv, DiskTypeOK
    <3> QED
      BY <1>2, <3>1 DEF CreateNext, CreateDirIfNotExist, Exists
  <2>2. CASE UNCHANGED dirs
    BY <1>1, <2>1, <2>2
  <2>3. CASE d \notin bare /\ HasParent(d) /\ dirs' = dirs \union {d}
    <3>1. bare' \intersect dirs' = {}
      BY <2>1, <2>3
    <3>2. ASSUME NEW e \in DOMAIN Parent, e \in dirs' PROVE Parent[e] \in dirs'
      BY <1>0, <2>1, <2>3, <3>2 DEF HasParent
    <3> QED
      BY <3>1, <3>2
  <2> QED
    BY <2>1, <2>2, <2>3
<1>3. ASSUME NEW r \in Root, RemoveDirs(r) PROVE Tree'
  <2>1. dirs' = dirs \ Within(r) /\ UNCHANGED bare
    BY <1>3 DEF RemoveDirs, Remove
  <2>2. ASSUME NEW d \in DOMAIN Parent, d \in dirs' PROVE Parent[d] \in dirs'
    <3>1. d \in dirs /\ Parent[d] # r /\ Parent[d] \in Root
      BY <1>0, <2>1, <2>2 DEF Within
    <3>2. Parent[d] \notin Within(r)
      BY <1>0, <3>1 DEF Within
    <3> QED
      BY <2>1, <2>2, <3>1, <3>2
  <2> QED
    BY <2>1, <2>2
<1>4. CASE UNCHANGED disk
  BY <1>1, <1>4 DEF disk
<1>5. CASE Start \/ (Initialize /\ ~CreateNext) \/ SpillBuffer
  BY <1>4, <1>5 DEF Start, Initialize, CreateThrows, LogInitialize, LogThrows, Announce, GlfwReady,
                    GlfwFails, SpillBuffer
<1>6. CASE Running \/ Kill \/ Failing
  BY <1>4, <1>6 DEF Running, Speak, FlushLog, Assertion, Verification, OutOfMemory, MemoryFound,
                    Terminate, Crash, Return, Kill, Gone, Forgets, Raise,
                    Failing, FailLogs, FailFlushes, FailDecides, Abort, UseNull
<1>7. CASE UNCHANGED vars
  BY <1>4, <1>7 DEF vars
<1> QED
  BY <1>2, <1>3, <1>5, <1>6, <1>7 DEF Next, Initialize

LEMMA TreeInit == ASSUME Init PROVE Tree
<1>1. bare \subseteq files /\ \A d \in dirs : HasParent(d)
  BY DEF Init, FilesystemInit
<1>2. \A f \in files : f \notin dirs
  BY DEF Init, FilesystemInit, Within
<1>3. \A d \in DOMAIN Parent : d \notin Root
  BY DEF Parent, Root
<1> QED
  BY <1>1, <1>2, <1>3 DEF Tree, HasParent

LEMMA TreeInvariant == Spec => []Tree
BY TreeInit, TreeStep, TypeInvariant, PTL DEF Spec

MadeInOrder == pc = "dirs" => \E n \in 0..11 : MadeUpTo(n)

LEMMA MadeStep == ASSUME TypeInv, MadeInOrder, [Next]_vars PROVE MadeInOrder'
<1>1. CASE Start
  <2>1. unmade' = CreateOrder /\ removed' = FALSE
    BY <1>1 DEF Start
  <2>2. MadeUpTo(0)'
    BY <2>1, Directories DEF MadeUpTo
  <2> QED
    BY <2>2 DEF MadeInOrder
<1>2. CASE CreateNext
  <2>1. PICK n \in 0..11 : MadeUpTo(n)
    BY <1>2 DEF CreateNext, MadeInOrder
  <2>2. unmade \in Seq(Dir) /\ unmade # << >>
    BY <1>2 DEF CreateNext, TypeInv, DiskTypeOK
  <2>3. /\ Head(unmade) = unmade[1] /\ Len(Tail(unmade)) = Len(unmade) - 1
        /\ \A k \in 1..Len(Tail(unmade)) : Tail(unmade)[k] = unmade[k + 1]
    BY <2>2, HeadTailProperties
  <2>4. Len(unmade) > 0
    BY <2>2, EmptySeq, LenProperties
  <2>5. n \in 0..10 /\ Head(unmade) = CreateOrder[n + 1]
    BY <2>1, <2>3, <2>4 DEF MadeUpTo
  <2>6. /\ unmade' = Tail(unmade) /\ removed' = removed /\ bare' = bare
        /\ dirs \subseteq dirs' /\ Head(unmade) \in dirs' \union bare
    BY <1>2 DEF CreateNext, CreateDirIfNotExist, Exists, outside
  <2>7. Len(unmade') = 11 - (n + 1)
    BY <2>1, <2>3, <2>5, <2>6 DEF MadeUpTo
  <2>8. ASSUME NEW k \in 1..(11 - (n + 1)) PROVE unmade'[k] = CreateOrder[(n + 1) + k]
    <3>1. k + 1 \in 1..(11 - n) /\ n + (k + 1) = (n + 1) + k
      BY <2>5
    <3>2. unmade'[k] = unmade[k + 1]
      BY <2>3, <2>6, <2>7
    <3> QED
      BY <2>1, <3>1, <3>2 DEF MadeUpTo
  <2>9. ASSUME ~removed', NEW k \in 1..(n + 1) PROVE CreateOrder[k] \in dirs' \union bare'
    <3>1. k \in 1..n \/ k = n + 1
      BY <2>5
    <3> QED
      BY <3>1, <2>1, <2>5, <2>6, <2>9 DEF MadeUpTo
  <2>10. MadeUpTo(n + 1)'
    BY <2>7, <2>8, <2>9 DEF MadeUpTo
  <2>11. n + 1 \in 0..11
    BY <2>5
  <2> QED
    BY <2>10, <2>11 DEF MadeInOrder
<1>3. ASSUME NEW r \in Root, RemoveDirs(r) PROVE MadeInOrder'
  BY <1>3 DEF RemoveDirs, MadeInOrder, MadeUpTo
<1>4. CASE UNCHANGED <<dirs, bare, unmade, pc, removed>>
  BY <1>4 DEF MadeInOrder, MadeUpTo
<1>5. CASE pc' # "dirs"
  BY <1>5 DEF MadeInOrder
<1>6. CASE SpillBuffer \/ UNCHANGED vars
  BY <1>4, <1>6 DEF SpillBuffer, vars, disk, outside
<1>7. CASE Initialize /\ ~CreateNext
  BY <1>5, <1>7 DEF Initialize, CreateThrows, LogInitialize, LogThrows, Announce, GlfwReady, GlfwFails
<1>8. CASE Running \/ Kill
  BY <1>5, <1>8 DEF Running, Speak, FlushLog, Assertion, Verification, OutOfMemory, MemoryFound,
                    Terminate, Crash, Return, Kill, Gone, Forgets, Raise, Fails
<1>9. CASE Failing
  <2>1. report.back # "dirs"
    BY DEF TypeInv, ControlTypeOK
  <2> QED
    BY <1>5, <1>9, <2>1
       DEF Failing, FailLogs, FailFlushes, FailDecides, Abort, UseNull, Raise, Fails, Gone, Forgets
<1> QED
  BY <1>1, <1>2, <1>3, <1>6, <1>7, <1>8, <1>9 DEF Next, Initialize

(* The next directory to make has its parent, or a file in its place; and none is forgotten. *)
LEMMA ParentsAreMade == ASSUME TypeInv, Tree, MadeInOrder PROVE ParentsFirst
<1> SUFFICES ASSUME pc = "dirs", ~removed
             PROVE  /\ unmade # << >> /\ Head(unmade) \notin Root =>
                           HasParent(Head(unmade)) \/ Parent[Head(unmade)] \in bare
                    /\ unmade = << >> => dirs = Dir
  BY DEF ParentsFirst
<1>1. PICK n \in 0..11 : MadeUpTo(n)
  BY DEF MadeInOrder
<1>2. /\ unmade \in Seq(Dir) /\ Len(unmade) = 11 - n /\ dirs \subseteq Dir /\ bare \subseteq Root
      /\ \A k \in 1..n : CreateOrder[k] \in dirs \union bare
  BY <1>1 DEF TypeInv, DiskTypeOK, MadeUpTo
<1>3. ASSUME unmade # << >>, Head(unmade) \notin Root
      PROVE  HasParent(Head(unmade)) \/ Parent[Head(unmade)] \in bare
  <2>1. Len(unmade) > 0 /\ Head(unmade) = unmade[1]
    BY <1>2, <1>3, EmptySeq, LenProperties, HeadTailProperties
  <2>2. n \in 0..10 /\ Head(unmade) = CreateOrder[n + 1]
    BY <1>1, <2>1 DEF MadeUpTo
  <2>3. PICK j \in 1..n : CreateOrder[j] = Parent[Head(unmade)]
    <3>1. n + 1 \in 1..11 /\ (n + 1) - 1 = n
      BY <2>2
    <3> QED
      BY <3>1, <2>2, <1>3, PlannedOrder
  <2> QED
    BY <1>2, <1>3, <2>3 DEF HasParent
<1>4. ASSUME unmade = << >> PROVE Dir \subseteq dirs
  <2>1. n = 11
    BY <1>2, <1>4, EmptySeq
  <2>2. \A d \in Dir : d \in dirs \union bare
    BY <1>2, <2>1, PlannedOrder
  <2>3. /\ Dir = Root \union DOMAIN Parent /\ \A d \in DOMAIN Parent : d \notin Root
        /\ \A r \in Root : \E d \in DOMAIN Parent : Parent[d] = r
    <3>1. Parent["logs"] = "data" /\ Parent["shaders"] = "resources"
      BY DEF Parent
    <3>2. "logs" \in DOMAIN Parent /\ "shaders" \in DOMAIN Parent
      BY DEF Parent
    <3>3. \A d \in DOMAIN Parent : d \notin Root
      BY DEF Parent, Root
    <3> QED
      BY <3>1, <3>2, <3>3 DEF Dir, Root
  <2>4. \A d \in DOMAIN Parent : d \in dirs
    BY <1>2, <2>2, <2>3
  <2>5. \A r \in Root : r \in dirs
    BY <2>3, <2>4 DEF Tree
  <2> QED
    BY <2>3, <2>4, <2>5
<1> QED
  BY <1>2, <1>3, <1>4

(* Whatever an earlier run left and however far this one has got, Initialize never asks for a *)
(* directory whose parent it has not made, unless a file has the parent's name and exists()   *)
(* took it for a directory; and it never gets to its end without all of them.                 *)
THEOREM ProcessParentsFirst == Spec => []ParentsFirst
<1>1. Init => MadeInOrder
  BY DEF Init, MadeInOrder
<1>2. TypeInv /\ MadeInOrder /\ [Next]_vars => MadeInOrder'
  BY MadeStep
<1>3. TypeInv /\ Tree /\ MadeInOrder => ParentsFirst
  BY ParentsAreMade
<1> QED
  BY <1>1, <1>2, <1>3, TypeInvariant, TreeInvariant, PTL DEF Spec

-----------------------------------------------------------------------------
(* All that has been said since the file was opened, and what each operation makes of it. *)
Said == file \o buffer

LEMMA SaidSteps ==
    ASSUME LogTypeOK
    PROVE  /\ \A m \in Message : Put(m) =>
                 /\ UNCHANGED file
                 /\ Said' = IF sink /\ Passes(m) THEN Append(Said, m) ELSE Said
           /\ Flush \/ Destroy => Said' = Said /\ Len(file') \in {Len(file), Len(Said)}
           /\ Spill => Said' = Said /\ Len(file') \in (Len(file) + 1)..Len(Said)
           /\ Lose => Said' = SubSeq(Said, 1, Len(file)) /\ UNCHANGED file
<1>1. /\ file \in Seq(Message) /\ buffer \in Seq(Message) /\ Said \in Seq(Message)
      /\ Len(file) \in Nat /\ Len(buffer) \in Nat /\ Len(Said) = Len(file) + Len(buffer)
  BY WholeLog DEF LogTypeOK, Said
<1>2. file \o << >> = file /\ Said \o << >> = Said
  BY <1>1, ConcatEmptySeq
<1>3. ASSUME NEW m \in Message, Put(m)
      PROVE  UNCHANGED file /\ Said' = IF sink /\ Passes(m) THEN Append(Said, m) ELSE Said
  <2>1. CASE sink /\ Passes(m)
    <3>1. buffer' = Append(buffer, m) /\ file' = file
      BY <1>3, <2>1 DEF Put
    <3>2. <<m>> \in Seq(Message) /\ Append(buffer, m) = buffer \o <<m>> /\ Append(Said, m) = Said \o <<m>>
      BY <1>1, AppendIsConcat
    <3>3. file \o (buffer \o <<m>>) = (file \o buffer) \o <<m>>
      BY <1>1, <3>2, ConcatAssociative
    <3> QED
      BY <2>1, <3>1, <3>2, <3>3 DEF Said
  <2>2. CASE ~(sink /\ Passes(m))
    BY <1>3, <2>2 DEF Put, Said
  <2> QED
    BY <2>1, <2>2
<1>4. ASSUME Flush \/ Destroy PROVE Said' = Said /\ Len(file') \in {Len(file), Len(Said)}
  <2>1. UNCHANGED <<file, buffer>> \/ (file' = Said /\ buffer' = << >>)
    BY <1>4 DEF Flush, Destroy, Said
  <2>2. CASE UNCHANGED <<file, buffer>>
    BY <2>2 DEF Said
  <2>3. CASE file' = Said /\ buffer' = << >>
    <3>1. Said' = file' \o buffer'
      BY DEF Said
    <3> QED
      BY <1>2, <2>3, <3>1
  <2> QED
    BY <2>1, <2>2, <2>3
<1>5. ASSUME Spill PROVE Said' = Said /\ Len(file') \in (Len(file) + 1)..Len(Said)
  <2>1. PICK n \in 1..Len(buffer) :
            /\ file' = file \o SubSeq(buffer, 1, n)
            /\ buffer' = SubSeq(buffer, n + 1, Len(buffer))
    BY <1>5 DEF Spill
  <2> DEFINE front == SubSeq(buffer, 1, n)
             back  == SubSeq(buffer, n + 1, Len(buffer))
  <2>2. front \in Seq(Message) /\ back \in Seq(Message) /\ Len(front) = n /\ front \o back = buffer
    BY SpilledParts
  <2> HIDE DEF front, back
  <2>3. file' = file \o front /\ buffer' = back
    BY <2>1 DEF front, back
  <2>4. (file \o front) \o back = file \o (front \o back)
    <3>1. file \in Seq(Message) /\ front \in Seq(Message) /\ back \in Seq(Message)
      BY <1>1, <2>2
    <3> QED
      BY ONLY <3>1, ConcatAssociative
  <2>5. Len(file') = Len(file) + n
    BY <1>1, <2>2, <2>3, ConcatProperties
  <2> QED
    BY <1>1, <2>2, <2>3, <2>4, <2>5 DEF Said
<1>6. ASSUME Lose PROVE Said' = SubSeq(Said, 1, Len(file)) /\ UNCHANGED file
  <2>1. file' = file /\ Said' = file
    BY <1>2, <1>6 DEF Lose, Said
  <2>2. SubSeq(Said, 1, Len(file)) = file
    BY <1>1, SubSeqOfConcat1 DEF Said
  <2> QED
    BY <2>1, <2>2
<1> QED
  BY <1>3, <1>4, <1>5, <1>6

(* Only a handler of a signal gives Fail nothing to return to, and it asks for the end.  What *)
(* was in the buffer when the process ended is gone when it is started again.                 *)
EndIsAsked ==
    pc \in {"fail", "flush", "decide"} /\ report.back = "gone" => report.fatal /\ ~report.ignore

NothingPending == pc = "gone" => buffer = << >>

LEMMA EndStep == ASSUME ControlTypeOK, EndIsAsked, [Next]_vars PROVE EndIsAsked'
<1> USE DEF EndIsAsked
<1>1. CASE pc' \notin {"fail", "flush", "decide"}
  BY <1>1
<1>2. CASE UNCHANGED report /\ (pc' # pc => pc \in {"fail", "flush"})
  BY <1>2
<1>3. CASE FailLogs \/ FailFlushes \/ SpillBuffer \/ UNCHANGED vars
  BY <1>2, <1>3 DEF FailLogs, FailFlushes, SpillBuffer, vars
<1>4. ASSUME NEW r \in Root, RemoveDirs(r) PROVE EndIsAsked'
  BY <1>4 DEF RemoveDirs
<1>5. CASE Assertion \/ Verification \/ OutOfMemory
  <2>1. PICK message, fatal, ignore, back : Fails(message, fatal, ignore, back) /\ back # "gone"
    BY <1>5 DEF Assertion, Verification, OutOfMemory
  <2>2. report'.back # "gone"
    BY <2>1 DEF Fails
  <2> QED
    BY <2>2
<1>6. CASE Abort \/ UseNull \/ Crash
  BY <1>6 DEF Abort, UseNull, Crash, Raise, Fails, Gone, Forgets
<1>7. CASE FailDecides
  BY <1>7, <1>1 DEF FailDecides, ControlTypeOK
<1>8. CASE Start \/ Initialize
  BY <1>8, <1>1, <1>2
     DEF Start, Initialize, CreateNext, CreateThrows, LogInitialize, LogThrows, Announce, GlfwReady, GlfwFails
<1>9. CASE (\E m \in Message : Speak(m)) \/ FlushLog \/ MemoryFound \/ Terminate \/ Return \/ Kill
  BY <1>9, <1>1 DEF Speak, FlushLog, MemoryFound, Terminate, Return, Kill, Gone, Forgets
<1> QED
  BY <1>3, <1>4, <1>5, <1>6, <1>7, <1>8, <1>9 DEF Next, Running, Failing

LEMMA PendingStep ==
    ASSUME TypeInv, EndIsAsked, NothingPending, [Next]_vars
    PROVE  NothingPending'
<1> USE DEF NothingPending
<1>1. CASE Return \/ Kill
  BY <1>1 DEF Return, Kill, Gone, Destroy, Lose
<1>2. CASE pc' # "gone"
  BY <1>2
<1>3. ASSUME NEW r \in Root, RemoveDirs(r) PROVE NothingPending'
  BY <1>3 DEF RemoveDirs
<1>4. CASE UNCHANGED vars
  BY <1>4 DEF vars, log
<1>5. CASE Start \/ Initialize
  BY <1>5, <1>2 DEF Start, Initialize, CreateNext, CreateThrows, LogInitialize, LogThrows, Announce,
                    GlfwReady, GlfwFails
<1>6. CASE (\E m \in Message : Speak(m)) \/ FlushLog \/ Assertion \/ Verification \/ OutOfMemory
           \/ MemoryFound \/ Terminate \/ SpillBuffer \/ FailLogs \/ FailFlushes
  BY <1>6, <1>2 DEF Speak, FlushLog, Assertion, Verification, OutOfMemory, MemoryFound, Terminate,
                    SpillBuffer, FailLogs, FailFlushes, Fails
<1>7. CASE Abort \/ UseNull \/ Crash
  BY <1>7, <1>2 DEF Abort, UseNull, Crash, Raise, Fails, Gone, Lose
<1>8. CASE FailDecides
  BY <1>8, <1>2 DEF FailDecides, EndIsAsked
<1> QED
  BY <1>1, <1>3, <1>4, <1>5, <1>6, <1>7, <1>8 DEF Next, Running, Failing

(* A step of the log is a step of the journal. *)
JournalStep == [LogJournal!JournalNext]_(LogJournal!journal)

LEMMA JournalSteps ==
    ASSUME LogTypeOK
    PROVE  /\ \A m \in Message : Put(m) => JournalStep
           /\ Flush \/ Destroy \/ Spill \/ Lose => JournalStep
           /\ UNCHANGED <<file, buffer>> => JournalStep
           /\ file' = << >> /\ buffer' = << >> => JournalStep
<1> USE DEF JournalStep, LogJournal!journal, LogJournal!JournalNext
<1>1. Said = file \o buffer /\ Said' = file' \o buffer'
  BY DEF Said
<1>2. ASSUME UNCHANGED Said, UNCHANGED Len(file) PROVE JournalStep
  BY <1>1, <1>2
<1>3. ASSUME NEW m \in Message, Put(m) PROVE JournalStep
  <2>1. UNCHANGED Len(file) /\ (Said' = Append(Said, m) \/ Said' = Said)
    BY <1>3, SaidSteps
  <2>2. CASE Said' = Append(Said, m)
    BY <1>1, <2>1, <2>2 DEF LogJournal!Say
  <2> QED
    BY <2>1, <2>2, <1>2
<1>4. ASSUME Flush \/ Destroy \/ Spill PROVE JournalStep
  <2>1. Len(file) \in Nat /\ Len(Said) \in Nat /\ Len(file) <= Len(Said)
    BY WholeLog DEF Said
  <2>2. Said' = Said /\ (Len(file') = Len(file) \/ Len(file') \in (Len(file) + 1)..Len(Said))
    BY <1>4, <2>1, SaidSteps
  <2>3. CASE Len(file') \in (Len(file) + 1)..Len(Said)
    BY <1>1, <2>2, <2>3 DEF LogJournal!Keep
  <2> QED
    BY <2>2, <2>3, <1>2
<1>5. ASSUME Lose PROVE JournalStep
  BY <1>1, <1>5, SaidSteps DEF LogJournal!Forget
<1>6. ASSUME UNCHANGED <<file, buffer>> PROVE JournalStep
  BY <1>2, <1>6 DEF Said
<1>7. ASSUME file' = << >>, buffer' = << >> PROVE JournalStep
  <2>1. file' \o buffer' = << >> /\ Len(file') = 0
    BY <1>7, EmptySeq, ConcatEmptySeq
  <2> QED
    BY <2>1 DEF LogJournal!Open
<1> QED
  BY <1>3, <1>4, <1>5, <1>6, <1>7

LEMMA StepIsJournalStep == ASSUME TypeInv, NothingPending, [Next]_vars PROVE JournalStep
<1>0. LogTypeOK /\ report.message \in Message
  BY DEF TypeInv, ControlTypeOK
<1>1. CASE FailLogs \/ Announce \/ GlfwFails \/ \E m \in Message : Speak(m)
  <2>1. (\E m \in Message : Put(m)) \/ UNCHANGED <<file, buffer>>
    BY <1>0, <1>1, Messages DEF FailLogs, Announce, GlfwFails, Speak, log
  <2> QED
    BY <1>0, <2>1, JournalSteps
<1>2. CASE FailFlushes \/ FlushLog \/ SpillBuffer \/ Return \/ Kill
  BY <1>0, <1>2, JournalSteps DEF FailFlushes, FlushLog, SpillBuffer, Return, Kill, Gone
<1>3. CASE Abort \/ UseNull \/ Crash
  BY <1>0, <1>3, JournalSteps DEF Abort, UseNull, Crash, Raise, Gone, log
<1>4. CASE Start
  BY <1>0, <1>4, JournalSteps DEF Start, Construct, NothingPending
<1>5. CASE LogInitialize
  BY <1>0, <1>5, JournalSteps DEF LogInitialize, InitializeFile, InitializeNoFile
<1>6. ASSUME NEW r \in Root, RemoveDirs(r) PROVE JournalStep
  <2>1. CASE r = "data"
    <3>1. buffer = << >>
      BY <1>6, <2>1 DEF RemoveDirs, NothingPending, TypeInv, LogTypeOK
    <3> QED
      BY <1>0, <1>6, <2>1, <3>1, JournalSteps DEF RemoveDirs
  <2>2. CASE r # "data"
    BY <1>0, <1>6, <2>2, JournalSteps DEF RemoveDirs
  <2> QED
    BY <2>1, <2>2
<1>7. CASE UNCHANGED log
  BY <1>0, <1>7, JournalSteps DEF log
<1> QED
  BY <1>1, <1>2, <1>3, <1>4, <1>5, <1>6, <1>7
     DEF Next, Initialize, Running, Failing, CreateNext, CreateThrows, LogThrows, GlfwReady, Assertion,
         Verification, OutOfMemory, MemoryFound, Terminate, FailDecides, vars

LEMMA PendingInvariant == Spec => [](TypeInv /\ NothingPending)
<1>1. Init => EndIsAsked /\ NothingPending
  BY DEF Init, LogInit, EndIsAsked, NothingPending
<1>2. TypeInv => ControlTypeOK
  BY DEF TypeInv
<1>3. TypeInv /\ EndIsAsked /\ NothingPending /\ [Next]_vars => EndIsAsked' /\ NothingPending'
  BY <1>2, EndStep, PendingStep
<1> QED
  BY <1>1, <1>3, TypeInvariant, PTL DEF Spec

(* However its runs end and are followed by others, main.log is a journal: what it holds is  *)
(* the beginning of what has been said since it was opened, in order, and only a run that     *)
(* opens it, or its removal, makes it shorter.                                                *)
THEOREM ProcessRefinesJournal == Spec => RefinesJournal
<1>1. Init => LogJournal!JournalInit
  <2>1. ASSUME Init PROVE file = << >> /\ buffer = << >>
    BY <2>1 DEF Init, LogInit
  <2>2. << >> \o << >> = << >> /\ Len(<< >>) = 0
    BY EmptySeq, ConcatEmptySeq
  <2> QED
    BY <2>1, <2>2 DEF LogJournal!JournalInit
<1>2. TypeInv /\ NothingPending /\ [Next]_vars => [LogJournal!JournalNext]_(LogJournal!journal)
  BY StepIsJournalStep DEF JournalStep
<1> QED
  BY <1>1, <1>2, PendingInvariant, PTL DEF Spec, RefinesJournal, LogJournal!JournalSpec

-----------------------------------------------------------------------------
(* A handler that has been used up belongs to a failure that nothing returns from, and once    *)
(* that of the abort has been, "aborting" is said last, and is in the file after the flush.    *)
HandlersLeft ==
    pc # "gone" /\ armed # Signals =>
        /\ pc \in {"fail", "flush", "decide", "abort"}
        /\ pc # "abort" => report.fatal /\ ~report.ignore

SaysAborting == Said # << >> /\ Said[Len(Said)] = "aborting"

LastWord ==
    pc # "gone" /\ "SIGABRT" \notin armed =>
        /\ pc \in {"fail", "flush", "decide"} => report.message = "aborting"
        /\ sink /\ pc \in {"flush", "decide", "abort"} => SaysAborting
        /\ sink /\ pc \in {"decide", "abort"} => buffer = << >>

LEMMA HandlersStep == ASSUME TypeInv, HandlersLeft, [Next]_vars PROVE HandlersLeft'
<1> USE DEF HandlersLeft
<1>1. CASE pc' = "gone" \/ armed' = Signals
  BY <1>1
<1>2. CASE pc # "gone" /\ pc \notin {"fail", "flush", "decide", "abort"} /\ UNCHANGED armed
  BY <1>1, <1>2
<1>3. CASE UNCHANGED <<pc, armed, report>>
  BY <1>3
<1>4. CASE FailLogs \/ FailFlushes
  BY <1>4 DEF FailLogs, FailFlushes
<1>5. CASE FailDecides
  BY <1>5 DEF FailDecides
<1>6. CASE Abort \/ UseNull \/ Crash
  <2>1. CASE pc' = "gone"
    BY <1>1, <2>1
  <2>2. CASE pc' # "gone"
    <3>1. PICK message : Fails(message, TRUE, FALSE, "gone")
      BY <1>6, <2>2 DEF Abort, UseNull, Crash, Raise, Gone, Forgets
    <3> QED
      BY <3>1 DEF Fails
  <2> QED
    BY <2>1, <2>2
<1>7. CASE Start
  BY <1>1, <1>7 DEF Start, SetupHandlers
<1>8. CASE Return \/ Kill
  BY <1>1, <1>8 DEF Return, Kill, Gone, Forgets
<1>9. CASE Initialize
  BY <1>2, <1>9 DEF Initialize, CreateNext, CreateThrows, LogInitialize, LogThrows, Announce,
                    GlfwReady, GlfwFails
<1>10. CASE (\E m \in Message : Speak(m)) \/ FlushLog \/ Assertion \/ Verification \/ OutOfMemory
           \/ MemoryFound \/ Terminate
  BY <1>2, <1>10 DEF Speak, FlushLog, Assertion, Verification, OutOfMemory, MemoryFound, Terminate
<1>11. CASE SpillBuffer \/ (\E r \in Root : RemoveDirs(r)) \/ UNCHANGED vars
  BY <1>3, <1>11 DEF SpillBuffer, RemoveDirs, vars
<1> QED
  BY <1>4, <1>5, <1>6, <1>7, <1>8, <1>9, <1>10, <1>11 DEF Next, Running, Failing

LEMMA LastWordStep ==
    ASSUME TypeInv, HandlersLeft, LastWord, [Next]_vars
    PROVE  LastWord'
<1>0. LogTypeOK /\ Said \in Seq(Message) /\ "aborting" \in Plain /\ "aborting" \in Message
  BY WholeLog, Messages, ProcessAssumption DEF TypeInv, Said, ProcessAssumption
<1>1. CASE pc' = "gone" \/ "SIGABRT" \in armed'
  BY <1>1 DEF LastWord
<1>2. CASE pc # "gone" /\ pc \notin {"fail", "flush", "decide", "abort"} /\ UNCHANGED armed
  BY <1>1, <1>2 DEF HandlersLeft, Signals
<1>3. CASE UNCHANGED <<pc, armed, report, sink, file, buffer>>
  BY <1>3 DEF LastWord, SaysAborting, Said
<1>4. CASE FailLogs
  <2>1. /\ pc = "fail" /\ pc' = "flush" /\ armed' = armed /\ report' = report /\ sink' = sink
        /\ Put(report.message)
    BY <1>4 DEF FailLogs, Put
  <2> SUFFICES ASSUME "SIGABRT" \notin armed
               PROVE  report.message = "aborting" /\ (sink => SaysAborting')
    BY <2>1 DEF LastWord
  <2>2. report.message = "aborting"
    BY <2>1 DEF LastWord
  <2>3. ASSUME sink PROVE SaysAborting'
    <3>1. Passes("aborting")
      BY <1>0, <2>1, <2>3 DEF TypeInv, SinkIsOn, LogTypeOK, Passes
    <3>2. Said' = Append(Said, "aborting")
      BY <1>0, <2>1, <2>2, <2>3, <3>1, SaidSteps
    <3> QED
      BY <1>0, <3>2, AppendProperties DEF SaysAborting
  <2> QED
    BY <2>2, <2>3
<1>5. CASE FailFlushes
  <2>1. /\ pc = "flush" /\ pc' = "decide" /\ armed' = armed /\ report' = report /\ sink' = sink
        /\ Flush
    BY <1>5 DEF FailFlushes, Flush
  <2>2. Said' = Said
    BY <1>0, <2>1, SaidSteps
  <2>3. sink => buffer' = << >>
    BY <2>1 DEF TypeInv, SinkIsOn, Flush
  <2> QED
    BY <2>1, <2>2, <2>3 DEF LastWord, SaysAborting
<1>6. CASE FailDecides
  <2>1. "SIGABRT" \notin armed => pc' = "abort"
    BY <1>6 DEF FailDecides, HandlersLeft, Signals
  <2>2. pc = "decide" /\ UNCHANGED <<armed, sink, file, buffer>>
    BY <1>6 DEF FailDecides, log
  <2> QED
    BY <2>1, <2>2 DEF LastWord, SaysAborting, Said
<1>7. CASE Abort
  <2>1. CASE pc' = "gone"
    BY <1>1, <2>1
  <2>2. CASE pc' # "gone"
    BY <1>7, <2>2 DEF Abort, Raise, Fails, Gone, Forgets, LastWord
  <2> QED
    BY <2>1, <2>2
<1>8. CASE UseNull \/ Crash
  BY <1>1, <1>8 DEF UseNull, Crash, Raise, Gone, Forgets, HandlersLeft, Signals
<1>9. CASE Start
  BY <1>1, <1>9 DEF Start, SetupHandlers, Signals
<1>10. CASE Return \/ Kill
  BY <1>1, <1>10 DEF Return, Kill, Gone, Forgets
<1>11. CASE Initialize
  BY <1>2, <1>11 DEF Initialize, CreateNext, CreateThrows, LogInitialize, LogThrows, Announce,
                     GlfwReady, GlfwFails
<1>12. CASE (\E m \in Message : Speak(m)) \/ FlushLog \/ Assertion \/ Verification \/ OutOfMemory
           \/ MemoryFound \/ Terminate
  BY <1>2, <1>12 DEF Speak, FlushLog, Assertion, Verification, OutOfMemory, MemoryFound, Terminate
<1>13. CASE SpillBuffer
  <2>1. pc' = pc /\ armed' = armed /\ report' = report /\ sink' = sink /\ Spill
    BY <1>13 DEF SpillBuffer, Spill
  <2>2. Said' = Said
    BY <1>0, <2>1, SaidSteps
  <2>3. buffer # << >>
    <3>1. \E n \in 1..Len(buffer) : TRUE
      BY <2>1 DEF Spill
    <3> QED
      BY <3>1, EmptySeq
  <2> QED
    BY <2>1, <2>2, <2>3 DEF LastWord, SaysAborting
<1>14. ASSUME NEW r \in Root, RemoveDirs(r) PROVE LastWord'
  <2>1. UNCHANGED <<pc, armed, report, sink, buffer>> /\ (pc # "gone" /\ sink => file' = file)
    BY <1>14 DEF RemoveDirs
  <2> QED
    BY <2>1 DEF LastWord, SaysAborting, Said
<1>15. CASE UNCHANGED vars
  BY <1>3, <1>15 DEF vars, log
<1> QED
  BY <1>4, <1>5, <1>6, <1>7, <1>8, <1>9, <1>10, <1>11, <1>12, <1>13, <1>14, <1>15
     DEF Next, Running, Failing

(* The last step of a process that fails finds the handler of the abort used up. *)
LEMMA ReportedStep ==
    ASSUME TypeInv, EndIsAsked, HandlersLeft, LastWord, FailureReported, [Next]_vars
    PROVE  FailureReported'
<1>1. CASE pc' # "gone"
  BY <1>1 DEF FailureReported
<1>2. CASE Return \/ Kill
  BY <1>2 DEF Return, Kill, Gone, FailureReported
<1>3. ASSUME NEW r \in Root, RemoveDirs(r) PROVE FailureReported'
  BY <1>3 DEF RemoveDirs, FailureReported
<1>4. CASE UNCHANGED vars
  BY <1>4 DEF vars, log, outside, rest, FailureReported
<1>5. CASE Gone("failed") /\ pc = "abort" /\ "SIGABRT" \notin armed
  <2>1. pc' = "gone" /\ sink' = sink /\ file' = file /\ lost' = (buffer # << >>)
    BY <1>5 DEF Gone, Forgets, Lose
  <2>2. ASSUME sink PROVE buffer = << >> /\ SaysAborting
    BY <1>5, <2>2 DEF LastWord
  <2>3. ASSUME buffer = << >> PROVE Said = file
    BY <2>3, ConcatEmptySeq DEF Said, TypeInv, LogTypeOK
  <2> QED
    BY <2>1, <2>2, <2>3 DEF SaysAborting, FailureReported
<1>6. CASE Abort
  BY <1>1, <1>5, <1>6 DEF Abort, Raise, Fails
<1>7. CASE UseNull \/ Crash
  <2>1. armed = Signals
    BY <1>7 DEF UseNull, Crash, HandlersLeft
  <2> QED
    BY <1>1, <1>7, <2>1 DEF UseNull, Crash, Raise, Fails, Signals
<1>8. CASE FailDecides
  BY <1>1, <1>8 DEF FailDecides, EndIsAsked
<1>9. CASE Start \/ Initialize
  BY <1>1, <1>9 DEF Start, Initialize, CreateNext, CreateThrows, LogInitialize, LogThrows, Announce,
                    GlfwReady, GlfwFails
<1>10. CASE (\E m \in Message : Speak(m)) \/ FlushLog \/ Assertion \/ Verification \/ OutOfMemory
           \/ MemoryFound \/ Terminate \/ SpillBuffer \/ FailLogs \/ FailFlushes
  BY <1>1, <1>10 DEF Speak, FlushLog, Assertion, Verification, OutOfMemory, MemoryFound, Terminate,
                     SpillBuffer, FailLogs, FailFlushes, Fails
<1> QED
  BY <1>2, <1>3, <1>4, <1>6, <1>7, <1>8, <1>9, <1>10 DEF Next, Running, Failing

(* For every failure - an assertion, a fault, a null pointer from GLFW, an uncaught exception - *)
(* a process that has a log file ends with all it said in the file, and the abort as the last   *)
(* line: no handler is entered twice and the flush precedes the end.                            *)
THEOREM ProcessFailureReported == Spec => []FailureReported
<1> DEFINE Inv == EndIsAsked /\ HandlersLeft /\ LastWord /\ FailureReported
<1>1. Init => Inv
  BY DEF Init, EndIsAsked, HandlersLeft, LastWord, FailureReported
<1>2. TypeInv => ControlTypeOK
  BY DEF TypeInv
<1>3. TypeInv /\ Inv /\ [Next]_vars => Inv'
  BY <1>2, EndStep, HandlersStep, LastWordStep, ReportedStep
<1> QED
  BY <1>1, <1>3, TypeInvariant, PTL DEF Spec
=============================================================================
