---------------------------- MODULE ConsoleProofs ----------------------------
(***************************************************************************)
(* The console's files and stacks, for every set of files and lines, any   *)
(* depth of nesting and any number of starts: every variable keeps its     *)
(* type, and whatever dies while a config is saved, a file holds what the  *)
(* user wrote or the first commands in the order of their registration.    *)
(***************************************************************************)
EXTENDS EngineProofs, SequenceTheorems, FiniteSetTheorems

(* The ten commands, one by one. *)
LEMMA AllCommandsAre ==
    /\ AllCommands \in Seq(CommandName) /\ Len(AllCommands) = 10 /\ DOMAIN AllCommands = 1..10
    /\ \A i, j \in 1..10 : AllCommands[i] = AllCommands[j] => i = j
    /\ CommandName = {"terminate", "crash", "flush", "help", "cmd", "quit", "exit", "config_save",
                      "config_load", "fullscreen"}
<1> DEFINE S == {"terminate", "crash", "flush", "help", "cmd", "quit", "exit", "config_save",
                 "config_load", "fullscreen"}
           A == <<"terminate", "crash", "flush", "help", "cmd", "quit", "exit", "config_save",
                  "config_load", "fullscreen">>
<1>1. CoreCommands \in Seq(S) /\ Len(CoreCommands) = 5 /\ \A i \in 1..5 : CoreCommands[i] = A[i]
  BY DEF CoreCommands
<1>2. /\ EngineCommands \in Seq(S) /\ Len(EngineCommands) = 5
      /\ \A i \in 6..10 : EngineCommands[i - 5] = A[i]
  BY DEF EngineCommands
<1>3. A \in Seq(S) /\ Len(A) = 10 /\ DOMAIN A = 1..10 /\ S = {A[i] : i \in 1..10}
  OBVIOUS
<1>4. \A i, j \in 1..10 : A[i] = A[j] => i = j
  OBVIOUS
<1> HIDE DEF A, S
<1>5. /\ AllCommands \in Seq(S) /\ Len(AllCommands) = 10
      /\ \A i \in 1..10 : AllCommands[i] = IF i <= 5 THEN CoreCommands[i] ELSE EngineCommands[i - 5]
  <2> DEFINE C == CoreCommands
             E == EngineCommands
  <2>1. C \in Seq(S) /\ E \in Seq(S) /\ Len(C) = 5 /\ Len(E) = 5
    BY <1>1, <1>2
  <2> HIDE DEF C, E
  <2>2. /\ C \o E \in Seq(S) /\ Len(C \o E) = Len(C) + Len(E)
        /\ \A i \in 1..Len(C) + Len(E) : (C \o E)[i] = IF i <= Len(C) THEN C[i] ELSE E[i - Len(C)]
    BY <2>1, ConcatProperties
  <2>3. AllCommands = C \o E
    BY DEF AllCommands, C, E
  <2> QED
    BY <2>1, <2>2, <2>3 DEF C, E
<1>6. AllCommands = A
  <2>1. \A i \in 1..10 : AllCommands[i] = A[i]
    BY <1>1, <1>2, <1>5
  <2> QED
    BY <1>3, <1>5, <2>1, SeqEqual
<1>7. CommandName = S
  BY <1>3, <1>6 DEF CommandName
<1> QED
  BY <1>3, <1>4, <1>6, <1>7 DEF S

(* The commands n + 1 to m in the order of their registration. *)
Stretch(s, n, m) ==
    /\ s \in Seq(CommandName) /\ n \in 0..10 /\ m \in n..10 /\ Len(s) = m - n
    /\ \A k \in 1..(m - n) : s[k] = AllCommands[n + k]

LEMMA StartLists ==
    /\ Stretch(<< >>, 0, 0) /\ Stretch(AllCommands, 0, 10)
    /\ Stretch(CoreCommands, 0, 5) /\ Stretch(EngineCommands, 5, 10)
<1>1. /\ CoreCommands \in Seq(CommandName) /\ Len(CoreCommands) = 5
      /\ EngineCommands \in Seq(CommandName) /\ Len(EngineCommands) = 5
  BY AllCommandsAre DEF CoreCommands, EngineCommands
<1> DEFINE C == CoreCommands
           E == EngineCommands
<1> HIDE DEF C, E
<1>2. \A i \in 1..Len(C) + Len(E) : (C \o E)[i] = IF i <= Len(C) THEN C[i] ELSE E[i - Len(C)]
  <2>1. C \in Seq(CommandName) /\ E \in Seq(CommandName)
    BY <1>1 DEF C, E
  <2> QED
    BY <2>1, ConcatProperties
<1>3. \A i \in 1..10 : AllCommands[i] = IF i <= 5 THEN CoreCommands[i] ELSE EngineCommands[i - 5]
  <2>1. Len(C) = 5 /\ Len(E) = 5 /\ AllCommands = C \o E
    BY <1>1 DEF AllCommands, C, E
  <2>2. \A i \in 1..10 : AllCommands[i] = IF i <= 5 THEN C[i] ELSE E[i - 5]
    <3>1. 1..Len(C) + Len(E) = 1..10
      BY <2>1
    <3>2. \A i \in 1..10 : (C \o E)[i] = IF i <= Len(C) THEN C[i] ELSE E[i - Len(C)]
      BY ONLY <1>2, <3>1
    <3> QED
      BY <2>1, <3>2
  <2> QED
    BY <2>2 DEF C, E
<1>4. << >> \in Seq(CommandName) /\ Len(<< >>) = 0
  BY EmptySeq
<1>5. Stretch(<< >>, 0, 0) /\ Stretch(AllCommands, 0, 10)
  BY <1>4, AllCommandsAre DEF Stretch
<1>6. \A k \in 1..5 : CoreCommands[k] = AllCommands[0 + k]
  BY <1>3
<1>7. \A k \in 1..5 : EngineCommands[k] = AllCommands[5 + k]
  BY <1>3
<1> QED
  BY <1>1, <1>5, <1>6, <1>7 DEF Stretch

LEMMA StretchTail ==
    ASSUME NEW s, NEW n, NEW m, Stretch(s, n, m), s # << >>
    PROVE  /\ Head(s) = AllCommands[n + 1] /\ Head(s) \in CommandName /\ n + 1 \in 1..10
           /\ Stretch(Tail(s), n + 1, m)
<1>1. /\ s \in Seq(CommandName) /\ n \in 0..10 /\ m \in n..10 /\ Len(s) = m - n
      /\ \A k \in 1..(m - n) : s[k] = AllCommands[n + k]
  BY DEF Stretch
<1>2. m - n \in Nat \ {0}
  BY <1>1, EmptySeq
<1>3. /\ Head(s) = s[1] /\ Head(s) \in CommandName /\ Tail(s) \in Seq(CommandName)
      /\ Len(Tail(s)) = Len(s) - 1 /\ \A k \in 1..(Len(s) - 1) : Tail(s)[k] = s[k + 1]
  BY <1>1, HeadTailProperties
<1>4. Head(s) = AllCommands[n + 1] /\ n + 1 \in 1..10 /\ n + 1 \in 0..10 /\ m \in (n + 1)..10
  BY <1>1, <1>2, <1>3
<1>5. \A k \in 1..(m - (n + 1)) : Tail(s)[k] = AllCommands[(n + 1) + k]
  <2> SUFFICES ASSUME NEW k \in 1..(m - (n + 1)) PROVE Tail(s)[k] = AllCommands[(n + 1) + k]
    OBVIOUS
  <2>1. k \in 1..(Len(s) - 1) /\ k + 1 \in 1..(m - n) /\ n + (k + 1) = (n + 1) + k
    BY <1>1
  <2> QED
    BY <1>1, <1>3, <2>1
<1> QED
  BY <1>1, <1>3, <1>4, <1>5 DEF Stretch

LEMMA StretchAppended ==
    ASSUME NEW s, NEW n \in 0..9, Stretch(s, 0, n)
    PROVE  Stretch(Append(s, AllCommands[n + 1]), 0, n + 1)
<1> DEFINE c == AllCommands[n + 1]
           r == Append(s, c)
<1>1. s \in Seq(CommandName) /\ Len(s) = n /\ \A k \in 1..n : s[k] = AllCommands[k]
  BY DEF Stretch
<1>2. c \in CommandName
  <2>1. n + 1 \in 1..10
    OBVIOUS
  <2>2. n + 1 \in 1..Len(AllCommands) /\ AllCommands \in Seq(CommandName)
    BY <2>1, AllCommandsAre
  <2> QED
    BY <2>2, ElementOfSeq
<1> HIDE DEF c
<1>3. r \in Seq(CommandName) /\ Len(r) = n + 1 /\ (\A k \in 1..n : r[k] = s[k]) /\ r[n + 1] = c
  BY <1>1, <1>2, AppendProperties
<1> HIDE DEF r
<1>4. \A k \in 1..(n + 1) : r[k] = AllCommands[k]
  BY <1>1, <1>3 DEF c
<1> QED
  BY <1>3, <1>4 DEF Stretch, r, c

-----------------------------------------------------------------------------
(* The frames on the stacks, and what taking one off or shortening it leaves. *)
LoadFrames == [kind : {"load"}, path : Path, rest : Seq(Line)]
SaveFrames == [kind : {"save"}, path : Path, rest : Seq(CommandName)]

LEMMA TopFrame ==
    ASSUME NEW s \in Seq(Frame), s # << >>
    PROVE  LET f == s[Len(s)]
               u == SubSeq(s, 1, Len(s) - 1)
           IN  /\ Len(s) \in Nat \ {0} /\ f \in Frame
               /\ u \in Seq(Frame) /\ Len(u) = Len(s) - 1 /\ \A k \in 1..(Len(s) - 1) : u[k] = s[k]
<1> DEFINE n == Len(s) - 1
<1>1. Len(s) \in Nat \ {0} /\ s[Len(s)] \in Frame /\ n \in Nat /\ 1 \in Int /\ n \in Int
  <2>1. Len(s) \in Nat \ {0}
    BY EmptySeq
  <2>2. Len(s) \in 1..Len(s)
    BY <2>1
  <2> QED
    BY <2>1, <2>2, ElementOfSeq
<1>2. \A k \in 1..n : s[k] \in Frame
  BY <1>1, ElementOfSeq
<1>3. /\ SubSeq(s, 1, n) \in Seq(Frame) /\ Len(SubSeq(s, 1, n)) = IF 1 <= n THEN n - 1 + 1 ELSE 0
      /\ \A k \in 1..(n - 1 + 1) : SubSeq(s, 1, n)[k] = s[1 + k - 1]
  <2> HIDE DEF n
  <2> QED
    BY <1>1, <1>2, SubSeqProperties
<1> HIDE DEF n
<1>4. Len(SubSeq(s, 1, n)) = n /\ \A k \in 1..n : SubSeq(s, 1, n)[k] = s[k]
  BY <1>1, <1>3
<1> QED
  BY <1>1, <1>3, <1>4 DEF n

LEMMA FrameKinds ==
    ASSUME NEW f \in Frame
    PROVE  /\ f.kind \in {"load", "save"} /\ f.path \in Path
           /\ f.kind = "load" => f \in LoadFrames /\ f.rest \in Seq(Line)
           /\ f.kind = "save" => f \in SaveFrames /\ f.rest \in Seq(CommandName)
           /\ f.rest # << >> => /\ [f EXCEPT !.rest = Tail(f.rest)] \in Frame
                                /\ [f EXCEPT !.rest = Tail(f.rest)].kind = f.kind
                                /\ [f EXCEPT !.rest = Tail(f.rest)].path = f.path
                                /\ [f EXCEPT !.rest = Tail(f.rest)].rest = Tail(f.rest)
<1>1. CASE f \in LoadFrames
  <2>1. /\ f.kind = "load" /\ f.path \in Path /\ f.rest \in Seq(Line)
        /\ f = [kind |-> "load", path |-> f.path, rest |-> f.rest]
    BY <1>1 DEF LoadFrames
  <2>2. f.rest # << >> => Tail(f.rest) \in Seq(Line)
    BY <2>1, HeadTailProperties
  <2> QED
    BY <1>1, <2>1, <2>2 DEF Frame, LoadFrames
<1>2. CASE f \in SaveFrames
  <2>1. /\ f.kind = "save" /\ f.path \in Path /\ f.rest \in Seq(CommandName)
        /\ f = [kind |-> "save", path |-> f.path, rest |-> f.rest]
    BY <1>2 DEF SaveFrames
  <2>2. f.rest # << >> => Tail(f.rest) \in Seq(CommandName)
    BY <2>1, HeadTailProperties
  <2> QED
    BY <1>2, <2>1, <2>2 DEF Frame, SaveFrames
<1> QED
  BY <1>1, <1>2 DEF Frame, LoadFrames, SaveFrames

(* With distinct commands the first one of a name is the only one: the lookup answers a       *)
(* command or the null pointer.                                                               *)
LEMMA Found ==
    ASSUME NEW n, Stretch(commands, 0, n), NEW line, line.args \in Word
    PROVE  Resolved(line) \in [command : CommandName \cup {Null}, args : Word]
<1> DEFINE x == line.cmd
<1>1. commands \in Seq(CommandName) /\ DOMAIN commands = 1..n /\ n \in 0..10
  BY LenProperties DEF Stretch
<1>2. \A k \in 1..n : commands[k] = AllCommands[k] /\ commands[k] \in CommandName
  BY <1>1, ElementOfSeq, LenProperties DEF Stretch
<1>3. Registry!Get(x) \in CommandName \cup {Null}
  <2>1. CASE Registry!Holds(commands, x)
    <3>1. PICK i \in 1..n : commands[i] = x
      BY <1>1, <1>2, <2>1 DEF Registry!Holds
    <3>2. Registry!IsFirst(commands, x, i)
      <4>1. \A j \in 1..(i - 1) : j \in 1..n /\ j \in 1..10 /\ i \in 1..10 /\ j # i
        BY <1>1
      <4>2. \A j \in 1..(i - 1) : commands[j] # x /\ commands[j] \in CommandName
        BY <1>2, <3>1, <4>1, AllCommandsAre
      <4> QED
        BY <1>2, <3>1, <4>2 DEF Registry!IsFirst
    <3>3. (CHOOSE k \in DOMAIN commands : Registry!IsFirst(commands, x, k)) \in 1..n
      BY <1>1, <3>2
    <3> QED
      BY <1>2, <2>1, <3>3 DEF Registry!Get, Registry!Lookup
  <2>2. CASE ~Registry!Holds(commands, x)
    BY <2>2 DEF Registry!Get, Registry!Lookup
  <2> QED
    BY <2>1, <2>2
<1> QED
  BY <1>3, LineAssumption DEF Resolved, NoCall

-----------------------------------------------------------------------------
(* The three things that happen to a stack: its top frame is shortened, one is put on it, and *)
(* its top frame is taken off.                                                                *)
LEMMA Consuming ==
    ASSUME NEW t, stack[t] \in Seq(Frame), stack[t] # << >>, Top(t).rest # << >>
    PROVE  LET s == stack[t]
               f == [Top(t) EXCEPT !.rest = Tail(@)]
               r == Append(Under(t), f)
           IN  /\ Consumed(t) = [stack EXCEPT ![t] = r]
               /\ r \in Seq(Frame) /\ Len(r) = Len(s) /\ Len(s) \in Nat \ {0} /\ r[Len(s)] = f
               /\ \A k \in 1..(Len(s) - 1) : r[k] = s[k]
               /\ \A k \in 1..Len(r) : r[k].kind = s[k].kind /\ r[k].path = s[k].path
<1> DEFINE s == stack[t]
           f == [Top(t) EXCEPT !.rest = Tail(@)]
           u == Under(t)
<1>1. /\ Len(s) \in Nat \ {0} /\ Top(t) = s[Len(s)] /\ Top(t) \in Frame /\ u \in Seq(Frame)
      /\ Len(u) = Len(s) - 1 /\ \A k \in 1..(Len(s) - 1) : u[k] = s[k]
  BY TopFrame DEF Top, Under
<1>2. f \in Frame /\ f.kind = Top(t).kind /\ f.path = Top(t).path
  BY <1>1, FrameKinds
<1>3. Consumed(t) = [stack EXCEPT ![t] = Append(u, f)]
  BY DEF Consumed
<1> HIDE DEF u, f, s
<1>4. /\ Append(u, f) \in Seq(Frame) /\ Len(Append(u, f)) = Len(u) + 1
      /\ (\A k \in 1..Len(u) : Append(u, f)[k] = u[k]) /\ Append(u, f)[Len(u) + 1] = f
  BY <1>1, <1>2, AppendProperties
<1>5. Len(Append(u, f)) = Len(s) /\ Append(u, f)[Len(s)] = f
  BY <1>1, <1>4
<1>6. \A k \in 1..(Len(s) - 1) : Append(u, f)[k] = s[k]
  BY <1>1, <1>4
<1>7. ASSUME NEW k \in 1..Len(s)
      PROVE  Append(u, f)[k].kind = s[k].kind /\ Append(u, f)[k].path = s[k].path
  <2>1. CASE k = Len(s)
    BY <1>1, <1>2, <1>5, <2>1
  <2>2. CASE k # Len(s)
    <3>1. k \in 1..(Len(s) - 1)
      BY <1>1, <2>2
    <3> QED
      BY <1>6, <3>1
  <2> QED
    BY <2>1, <2>2
<1> QED
  BY <1>1, <1>3, <1>4, <1>5, <1>6, <1>7 DEF u, f, s

LEMMA Pushing ==
    ASSUME NEW t, stack[t] \in Seq(Frame), NEW f \in Frame
    PROVE  LET s == stack[t]
               r == Append(s, f)
           IN  /\ Pushed(t, f) = [stack EXCEPT ![t] = r]
               /\ r \in Seq(Frame) /\ Len(r) = Len(s) + 1 /\ Len(s) \in Nat /\ r[Len(s) + 1] = f
               /\ \A k \in 1..Len(s) : r[k] = s[k]
BY AppendProperties, LenProperties DEF Pushed

LEMMA Popping ==
    ASSUME NEW t, stack[t] \in Seq(Frame), stack[t] # << >>
    PROVE  LET s == stack[t]
               r == Under(t)
           IN  /\ Popped(t) = [stack EXCEPT ![t] = r]
               /\ r \in Seq(Frame) /\ Len(r) = Len(s) - 1 /\ Len(s) \in Nat \ {0}
               /\ \A k \in 1..(Len(s) - 1) : r[k] = s[k]
BY TopFrame DEF Popped, Under

(* A file that is being saved has been opened. *)
SavesOpen ==
    \A u \in Thread : \A k \in 1..Len(stack[u]) :
        stack[u][k].kind = "save" => disk[stack[u][k].path] \in Seq(Line)

ConsoleInv == ConsoleTypeOK /\ SavesOpen

LEMMA StacksKept ==
    ASSUME stack \in [Thread -> Seq(Frame)], SavesOpen, NEW t \in Thread, NEW r \in Seq(Frame),
           stack' = [stack EXCEPT ![t] = r],
           \A p \in Path : disk[p] \in Seq(Line) => disk'[p] \in Seq(Line),
           \A k \in 1..Len(r) : r[k].kind = "save" => disk'[r[k].path] \in Seq(Line)
    PROVE  stack' \in [Thread -> Seq(Frame)] /\ SavesOpen'
<1>1. stack' \in [Thread -> Seq(Frame)]
  OBVIOUS
<1>2. ASSUME NEW u \in Thread, NEW k \in 1..Len(stack'[u]), stack'[u][k].kind = "save"
      PROVE  disk'[stack'[u][k].path] \in Seq(Line)
  <2>1. CASE u = t
    BY <1>2, <2>1
  <2>2. CASE u # t
    <3>1. stack'[u] = stack[u] /\ stack[u][k] \in Frame
      BY <2>2, ElementOfSeq
    <3>2. stack[u][k].path \in Path
      BY <3>1, FrameKinds
    <3> QED
      BY <1>2, <3>1, <3>2 DEF SavesOpen
  <2> QED
    BY <2>1, <2>2
<1> QED
  BY <1>1, <1>2 DEF SavesOpen

-----------------------------------------------------------------------------
(* Whatever a thread does with a line keeps the types. *)
CallTypes == [command : CommandName \cup {Null}, args : Word]

(* What the function behind a command is given is a word. *)
LEMMA ArgumentsAreWords ==
    ASSUME NEW c \in CommandName, NEW args \in Word, NEW h
    PROVE  Registry!SeenArgs(c, h, Registry!PassedArgs(c, args)) \in Word
<1>1. Registry!PassedArgs(c, args) \in Word
  BY LineAssumption DEF Registry!PassedArgs
<1> QED
  BY <1>1, LineAssumption DEF Registry!SeenArgs

LEMMA SavedLineIsLine == ASSUME NEW c \in CommandName PROVE SavedLine(c) \in Line
BY ZenonT(30), LineAssumption DEF SavedLine, Status, Registry!BoolStatus, Line

LEMMA EffectTyped ==
    ASSUME ConsoleInv, NEW n, Stretch(commands, 0, n),
           NEW t \in Thread, NEW c, NEW args \in Word, Effect(t, c, args)
    PROVE  /\ commands' = commands /\ fullscreen' \in BOOLEAN /\ window' = window
           /\ shouldClose' \in BOOLEAN /\ process' \in Outcome
           /\ disk' \in [Path -> {Absent} \cup Seq(Line)]
           /\ stack' \in [Thread -> Seq(Frame)] /\ SavesOpen'
<1>1. /\ fullscreen \in BOOLEAN /\ window \in BOOLEAN /\ shouldClose \in BOOLEAN /\ process \in Outcome
      /\ disk \in [Path -> {Absent} \cup Seq(Line)] /\ stack \in [Thread -> Seq(Frame)] /\ SavesOpen
      /\ stack[t] \in Seq(Frame)
  BY DEF ConsoleInv, ConsoleTypeOK
<1>2. CASE UNCHANGED <<commands, window, disk, stack>> /\ fullscreen' \in BOOLEAN
           /\ shouldClose' \in BOOLEAN /\ process' \in Outcome
  BY <1>1, <1>2 DEF SavesOpen
<1>3. CASE ConfigSave(t, Target(args))
  <2> DEFINE path == Target(args)
             f == SaveFrame(path, commands)
  <2>1. CASE path \notin Path
    BY <1>1, <1>2, <1>3, <2>1 DEF ConfigSave
  <2>2. CASE path \in Path
    <3>1. /\ disk' = [disk EXCEPT ![path] = << >>] /\ stack' = Pushed(t, f)
          /\ UNCHANGED <<commands, fullscreen, window, shouldClose, process>>
      BY <1>3, <2>2 DEF ConfigSave
    <3>2. << >> \in Seq(Line) /\ commands \in Seq(CommandName)
      BY EmptySeq DEF Stretch
    <3>3. f \in Frame /\ f.path = path
      BY <2>2, <3>2 DEF SaveFrame, Frame
    <3> HIDE DEF f, path
    <3>4. disk' \in [Path -> {Absent} \cup Seq(Line)] /\ disk'[path] \in Seq(Line)
          /\ \A p \in Path : disk[p] \in Seq(Line) => disk'[p] \in Seq(Line)
      BY <1>1, <2>2, <3>1, <3>2
    <3> DEFINE r == Append(stack[t], f)
    <3>5. /\ stack' = [stack EXCEPT ![t] = r] /\ r \in Seq(Frame)
          /\ Len(r) = Len(stack[t]) + 1 /\ Len(stack[t]) \in Nat /\ r[Len(stack[t]) + 1] = f
          /\ \A k \in 1..Len(stack[t]) : r[k] = stack[t][k]
      BY <1>1, <3>1, <3>3, Pushing
    <3> HIDE DEF r
    <3>6. ASSUME NEW k \in 1..Len(r), r[k].kind = "save" PROVE disk'[r[k].path] \in Seq(Line)
      <4>1. CASE k \in 1..Len(stack[t])
        <5>1. r[k] = stack[t][k] /\ stack[t][k] \in Frame /\ disk[stack[t][k].path] \in Seq(Line)
          BY <1>1, <3>5, <3>6, <4>1, ElementOfSeq DEF SavesOpen
        <5> QED
          BY <3>4, <5>1, FrameKinds
      <4>2. CASE k = Len(stack[t]) + 1
        BY <3>3, <3>4, <3>5, <4>2
      <4> QED
        BY <3>5, <4>1, <4>2
    <3>7. stack' \in [Thread -> Seq(Frame)] /\ SavesOpen'
      BY <1>1, <3>4, <3>5, <3>6, StacksKept
    <3> QED
      BY <1>1, <3>1, <3>4, <3>7
  <2> QED
    BY <2>1, <2>2
<1>4. CASE ConfigLoad(t, Target(args))
  <2> DEFINE path == Target(args)
             f == LoadFrame(path, disk[path])
  <2>1. CASE UNCHANGED stack
    BY <1>1, <1>2, <1>4, <2>1 DEF ConfigLoad, Outcome
  <2>2. CASE ~UNCHANGED stack
    <3>1. /\ path \in Path /\ disk[path] # Absent /\ stack' = Pushed(t, f)
          /\ UNCHANGED <<commands, fullscreen, window, shouldClose, disk, process>>
      BY <1>4, <2>2 DEF ConfigLoad
    <3>2. f \in Frame /\ f.kind = "load"
      BY <1>1, <3>1 DEF LoadFrame, Frame
    <3> HIDE DEF f, path
    <3> DEFINE r == Append(stack[t], f)
    <3>3. /\ stack' = [stack EXCEPT ![t] = r] /\ r \in Seq(Frame)
          /\ Len(r) = Len(stack[t]) + 1 /\ Len(stack[t]) \in Nat /\ r[Len(stack[t]) + 1] = f
          /\ \A k \in 1..Len(stack[t]) : r[k] = stack[t][k]
      BY <1>1, <3>1, <3>2, Pushing
    <3> HIDE DEF r
    <3>4. ASSUME NEW k \in 1..Len(r), r[k].kind = "save" PROVE disk'[r[k].path] \in Seq(Line)
      <4>1. k # Len(stack[t]) + 1
        BY <3>2, <3>3, <3>4
      <4>2. k \in 1..Len(stack[t])
        BY <3>3, <4>1
      <4> QED
        BY <1>1, <3>1, <3>3, <3>4, <4>2 DEF SavesOpen
    <3>5. stack' \in [Thread -> Seq(Frame)] /\ SavesOpen'
      BY <1>1, <3>1, <3>3, <3>4, StacksKept
    <3> QED
      BY <1>1, <3>1, <3>5
  <2> QED
    BY <2>1, <2>2
<1>5. CASE c = "fullscreen" /\ fullscreen' = Registry!BoolValue(args, fullscreen)
           /\ UNCHANGED <<commands, window, shouldClose, disk, stack, process>>
  <2>1. Registry!BoolValue(args, fullscreen) \in BOOLEAN
    <3>1. CASE args \in Registry!TrueWords
      BY <3>1 DEF Registry!BoolValue, Registry!TrueWords, Registry!FalseWords
    <3>2. CASE args \in Registry!FalseWords
      BY <3>2 DEF Registry!BoolValue, Registry!TrueWords, Registry!FalseWords
    <3>3. CASE args \notin Registry!TrueWords /\ args \notin Registry!FalseWords
      BY <1>1, <3>3 DEF Registry!BoolValue
    <3> QED
      BY <3>1, <3>2, <3>3
  <2> QED
    BY <1>1, <1>2, <1>5, <2>1
<1>6. CASE End("terminated") \/ End("crashed") \/ Skip \/ Quit
  BY <1>1, <1>2, <1>6 DEF End, Skip, Quit, Outcome
<1> QED
  BY <1>3, <1>4, <1>5, <1>6 DEF Effect

(* The null pointer is no command. *)
LEMMA NullDoesNothing == ASSUME NEW t, NEW args PROVE ~Effect(t, Null, args)
<1>1. Null \notin CommandName
  BY LineAssumption
<1> QED
  BY <1>1, AllCommandsAre DEF Effect

LEMMA InterpretTyped ==
    ASSUME ConsoleInv, NEW n, Stretch(commands, 0, n), NEW t \in Thread, Interpret(t)
    PROVE  ConsoleInv'
<1>1. /\ commands \in Seq(CommandName) /\ fullscreen \in BOOLEAN /\ window \in BOOLEAN
      /\ shouldClose \in BOOLEAN /\ process \in Outcome
      /\ disk \in [Path -> {Absent} \cup Seq(Line)] /\ stack \in [Thread -> Seq(Frame)]
      /\ call \in [Thread -> CallTypes] /\ SavesOpen /\ stack[t] \in Seq(Frame)
  BY DEF ConsoleInv, ConsoleTypeOK, CallTypes
<1>2. ASSUME commands' = commands, fullscreen' \in BOOLEAN, window' = window,
             shouldClose' \in BOOLEAN, process' \in Outcome,
             disk' \in [Path -> {Absent} \cup Seq(Line)], call' \in [Thread -> CallTypes],
             stack' \in [Thread -> Seq(Frame)], SavesOpen'
      PROVE  ConsoleInv'
  BY <1>1, <1>2 DEF ConsoleInv, ConsoleTypeOK, CallTypes
<1>3. ASSUME Fetch(t) \/ SaveLine(t), disk' \in [Path -> {Absent} \cup Seq(Line)],
             \A p \in Path : disk[p] \in Seq(Line) => disk'[p] \in Seq(Line),
             stack[t] # << >>, Top(t).rest # << >>, stack' = Consumed(t)
      PROVE  stack' \in [Thread -> Seq(Frame)] /\ SavesOpen'
  <2> DEFINE r == Append(Under(t), [Top(t) EXCEPT !.rest = Tail(@)])
  <2>1. /\ stack' = [stack EXCEPT ![t] = r] /\ r \in Seq(Frame) /\ Len(r) = Len(stack[t])
        /\ \A k \in 1..Len(r) : r[k].kind = stack[t][k].kind /\ r[k].path = stack[t][k].path
    BY <1>1, <1>3, Consuming
  <2> HIDE DEF r
  <2>2. ASSUME NEW k \in 1..Len(r), r[k].kind = "save" PROVE disk'[r[k].path] \in Seq(Line)
    <3>1. /\ r[k].path = stack[t][k].path /\ stack[t][k] \in Frame
          /\ disk[stack[t][k].path] \in Seq(Line)
      BY <1>1, <2>1, <2>2, ElementOfSeq DEF SavesOpen
    <3> QED
      BY <1>3, <3>1, FrameKinds
  <2> QED
    BY <1>1, <1>3, <2>1, <2>2, StacksKept
<1>4. CASE Fetch(t)
  <2>1. /\ stack[t] # << >> /\ Top(t).kind = "load" /\ Top(t).rest # << >> /\ stack' = Consumed(t)
        /\ call' = [call EXCEPT ![t] = Resolved(Head(Top(t).rest))]
        /\ UNCHANGED <<commands, fullscreen, window, shouldClose, disk, process>>
    BY <1>4 DEF Fetch, TopIs
  <2>2. Top(t) \in Frame /\ Top(t).rest \in Seq(Line)
    BY <1>1, <2>1, TopFrame, FrameKinds DEF Top
  <2>3. Head(Top(t).rest) \in Line
    BY <2>1, <2>2, HeadTailProperties
  <2>4. Resolved(Head(Top(t).rest)) \in CallTypes
    BY <2>3, Found DEF Line, CallTypes
  <2>5. call' \in [Thread -> CallTypes]
    BY <1>1, <2>1, <2>4
  <2>6. stack' \in [Thread -> Seq(Frame)] /\ SavesOpen'
    BY <1>1, <1>3, <1>4, <2>1
  <2> QED
    BY <1>1, <1>2, <2>1, <2>5, <2>6
<1>5. CASE EndLoad(t) \/ EndSave(t)
  <2>1. /\ stack[t] # << >> /\ stack' = Popped(t)
        /\ UNCHANGED <<commands, fullscreen, window, shouldClose, disk, call, process>>
    BY <1>5 DEF EndLoad, EndSave, TopIs
  <2> DEFINE r == Under(t)
  <2>2. /\ stack' = [stack EXCEPT ![t] = r] /\ r \in Seq(Frame) /\ Len(r) = Len(stack[t]) - 1
        /\ Len(stack[t]) \in Nat \ {0} /\ \A k \in 1..(Len(stack[t]) - 1) : r[k] = stack[t][k]
    BY <1>1, <2>1, Popping
  <2> HIDE DEF r
  <2>3. ASSUME NEW k \in 1..Len(r), r[k].kind = "save" PROVE disk'[r[k].path] \in Seq(Line)
    <3>1. r[k] = stack[t][k] /\ k \in 1..Len(stack[t])
      BY <2>2
    <3> QED
      BY <1>1, <2>1, <2>3, <3>1 DEF SavesOpen
  <2>4. stack' \in [Thread -> Seq(Frame)] /\ SavesOpen'
    BY <1>1, <2>1, <2>2, <2>3, StacksKept
  <2> QED
    BY <1>1, <1>2, <2>1, <2>4
<1>6. CASE SaveLine(t)
  <2>1. /\ stack[t] # << >> /\ Top(t).kind = "save" /\ Top(t).rest # << >> /\ stack' = Consumed(t)
        /\ disk' = [disk EXCEPT ![Top(t).path] = Append(@, SavedLine(Head(Top(t).rest)))]
        /\ UNCHANGED <<commands, fullscreen, window, shouldClose, call, process>>
    BY <1>6 DEF SaveLine, TopIs, Registry!SaveAllowed
  <2>2. Top(t) \in Frame /\ Top(t).rest \in Seq(CommandName) /\ Top(t).path \in Path
    BY <1>1, <2>1, TopFrame, FrameKinds DEF Top
  <2>3. Head(Top(t).rest) \in CommandName
    BY <2>1, <2>2, HeadTailProperties
  <2>4. disk[Top(t).path] \in Seq(Line)
    <3>1. Len(stack[t]) \in 1..Len(stack[t])
      BY <1>1, <2>1, TopFrame
    <3> QED
      BY <1>1, <2>1, <3>1 DEF SavesOpen, Top
  <2>5. Append(disk[Top(t).path], SavedLine(Head(Top(t).rest))) \in Seq(Line)
    BY <2>3, <2>4, SavedLineIsLine, AppendProperties
  <2>6. /\ disk' \in [Path -> {Absent} \cup Seq(Line)]
        /\ \A p \in Path : disk[p] \in Seq(Line) => disk'[p] \in Seq(Line)
    BY <1>1, <2>1, <2>2, <2>5
  <2>7. stack' \in [Thread -> Seq(Frame)] /\ SavesOpen'
    BY <1>1, <1>3, <1>6, <2>1, <2>6
  <2> QED
    BY <1>1, <1>2, <2>1, <2>6, <2>7
<1>7. CASE Call(t)
  <2> DEFINE c == call[t].command
             h == Registry!Handler(c, call[t].args, TRUE)
             a == Registry!SeenArgs(c, h, Registry!PassedArgs(c, call[t].args))
  <2>1. /\ call[t] # NoCall /\ call' = [call EXCEPT ![t] = NoCall]
        /\ Effect(t, c, a) \/ Skip
    BY <1>7 DEF Call
  <2>2. call' \in [Thread -> CallTypes]
    BY <1>1, <2>1, LineAssumption DEF NoCall, CallTypes
  <2>3. CASE Skip
    BY <1>1, <1>2, <2>2, <2>3 DEF Skip, SavesOpen
  <2>4. CASE Effect(t, c, a) /\ ~Skip
    <3>1. c \in CommandName /\ call[t].args \in Word
      <4>1. call[t] \in CallTypes
        BY <1>1
      <4>2. c # Null
        BY <2>4, NullDoesNothing
      <4> QED
        BY <4>1, <4>2 DEF CallTypes
    <3>2. a \in Word
      BY <3>1, ArgumentsAreWords
    <3> HIDE DEF a, c
    <3> QED
      BY <1>1, <1>2, <2>2, <2>4, <3>2, EffectTyped
  <2> QED
    BY <2>1, <2>3, <2>4
<1> QED
  BY <1>4, <1>5, <1>6, <1>7 DEF Interpret

LEMMA ResolveTyped ==
    ASSUME ConsoleInv, NEW n, Stretch(commands, 0, n), NEW t \in Thread, NEW line, line.args \in Word,
           Resolve(t, line)
    PROVE  ConsoleInv'
<1>1. /\ call' = [call EXCEPT ![t] = Resolved(line)]
      /\ UNCHANGED <<commands, fullscreen, window, shouldClose, disk, stack, process>>
  BY DEF Resolve
<1>2. Resolved(line) \in [command : CommandName \cup {Null}, args : Word]
  BY Found
<1> QED
  BY <1>1, <1>2 DEF ConsoleInv, ConsoleTypeOK, SavesOpen

(* Before and after a step of a thread that executes a line: its frames, and no others.       *)
LEMMA ShapeHolds == ASSUME ConsoleInv PROVE Shape
BY DEF ConsoleInv, ConsoleTypeOK, Shape

LEMMA UserDisksTyped == ASSUME disk \in UserDisks PROVE disk \in [Path -> {Absent} \cup Seq(Line)]
BY LineAssumption DEF UserDisks

-----------------------------------------------------------------------------
(* The console by itself, with the registry full or cleared. *)
Registering == ConsoleInv /\ (commands = AllCommands \/ commands = << >>)

LEMMA RegisteringStretch == ASSUME Registering PROVE \E n : Stretch(commands, 0, n)
BY StartLists DEF Registering

LEMMA RegisteringInit == ASSUME ConsoleInit PROVE Registering
<1>1. /\ commands = AllCommands /\ fullscreen \in BOOLEAN /\ window = TRUE /\ shouldClose = FALSE
      /\ disk \in [Path -> {Absent} \cup Seq(Line)] /\ stack = [t \in Thread |-> << >>]
      /\ call = [t \in Thread |-> NoCall] /\ process = "running"
  BY UserDisksTyped DEF ConsoleInit
<1>2. << >> \in Seq(Frame) /\ Len(<< >>) = 0
  BY EmptySeq
<1>3. NoCall \in [command : CommandName \cup {Null}, args : Word]
  BY LineAssumption DEF NoCall
<1>4. ConsoleTypeOK
  BY <1>1, <1>2, <1>3, AllCommandsAre DEF ConsoleTypeOK, Outcome
<1>5. SavesOpen
  BY <1>1, <1>2 DEF SavesOpen
<1> QED
  BY <1>1, <1>4, <1>5 DEF Registering, ConsoleInv

LEMMA RegisteringStep == ASSUME Registering, [ConsoleNext]_consoleVars PROVE Registering'
<1>1. ConsoleInv /\ (commands = AllCommands \/ commands = << >>)
  BY DEF Registering
<1>2. PICK n : Stretch(commands, 0, n)
  BY RegisteringStretch
<1>3. ASSUME NEW t \in Thread, Interpret(t) PROVE Registering'
  BY <1>1, <1>2, <1>3, InterpretTyped, InterpretLeaves, ShapeHolds DEF Registering
<1>4. ASSUME NEW t \in Thread, NEW line \in Typed, Resolve(t, line) PROVE Registering'
  <2>1. line.args \in Word
    BY LineAssumption DEF Line
  <2> QED
    BY <1>1, <1>2, <1>4, <2>1, ResolveTyped DEF Registering, Resolve
<1>5. CASE RevertFullscreen
  BY <1>1, <1>5 DEF RevertFullscreen, Registering, ConsoleInv, ConsoleTypeOK, SavesOpen
<1>6. CASE DestroyCommands
  BY <1>1, <1>6, EmptySeq DEF DestroyCommands, Registering, ConsoleInv, ConsoleTypeOK, SavesOpen
<1>7. CASE UNCHANGED consoleVars
  BY <1>1, <1>7 DEF consoleVars, Registering, ConsoleInv, ConsoleTypeOK, SavesOpen
<1> QED
  BY <1>3, <1>4, <1>5, <1>6, <1>7 DEF ConsoleNext, Ended

(* Whatever lines are typed and whatever files nest, with main reverting the flag and         *)
(* clearing the registry in between: the variables of the console keep their types.           *)
THEOREM ConsoleTypes == ConsoleSpec => []ConsoleTypeOK
<1>1. Registering => ConsoleTypeOK
  BY DEF Registering, ConsoleInv
<1> QED
  BY <1>1, RegisteringInit, RegisteringStep, PTL DEF ConsoleSpec

-----------------------------------------------------------------------------
(* The registry while main starts up: the commands registered so far and those still to come  *)
(* are the ten in their order.                                                                *)
Lists ==
    /\ pc = "core" => \E n \in 0..5 : Stretch(commands, 0, n) /\ Stretch(todo, n, 5)
    /\ pc = "console" => \E n \in 5..10 : Stretch(commands, 0, n) /\ Stretch(todo, n, 10)
    /\ pc \notin {"core", "console", "join"} => Stretch(commands, 0, 10)
    /\ todo \in Seq(CommandName)

LEMMA ListsStretch == ASSUME Control, Lists PROVE \E n : Stretch(commands, 0, n)
<1>1. CASE pc = "join"
  BY <1>1, StartLists DEF Control
<1>2. CASE pc # "join"
  BY <1>2 DEF Lists
<1> QED
  BY <1>1, <1>2

(* The next command is not registered yet, and Register puts it behind the others.            *)
LEMMA NextAdded ==
    ASSUME NEW n \in 0..9, Stretch(commands, 0, n)
    PROVE  Stretch(Registry!Added(commands, AllCommands[n + 1]), 0, n + 1)
<1> DEFINE c == AllCommands[n + 1]
<1>1. commands \in Seq(CommandName) /\ DOMAIN commands = 1..n /\ Len(commands) = n
  BY LenProperties DEF Stretch
<1>2. \A k \in 1..n : commands[k] = AllCommands[k] /\ commands[k] \in CommandName
  BY <1>1, ElementOfSeq DEF Stretch
<1>3. c \in CommandName
  <2>1. n + 1 \in 1..10 /\ AllCommands \in Seq(CommandName) /\ Len(AllCommands) = 10
    BY AllCommandsAre
  <2>2. n + 1 \in 1..Len(AllCommands)
    BY <2>1
  <2> QED
    BY <2>1, <2>2, ElementOfSeq
<1>4. \A k \in 1..n : commands[k] # c
  <2> SUFFICES ASSUME NEW k \in 1..n PROVE AllCommands[k] # c
    BY <1>2
  <2>1. k \in 1..10 /\ n + 1 \in 1..10 /\ k # n + 1
    OBVIOUS
  <2> QED
    BY <2>1, AllCommandsAre
<1> HIDE DEF c
<1>5. ~Registry!Holds(commands, c)
  BY <1>1, <1>2, <1>3, <1>4 DEF Registry!Holds
<1>6. Registry!Added(commands, c) = Append(commands, c)
  BY <1>3, <1>5 DEF Registry!Added
<1> QED
  BY <1>6, StretchAppended DEF c

LEMMA RegisterLists ==
    ASSUME NEW n \in 0..10, NEW m \in n..10, Stretch(commands, 0, n), Stretch(todo, n, m),
           RegisterNext
    PROVE  /\ n + 1 \in 0..m /\ Stretch(commands', 0, n + 1) /\ Stretch(todo', n + 1, m)
           /\ todo' \in Seq(CommandName)
<1>1. /\ todo # << >> /\ commands' = Registry!Added(commands, Head(todo)) /\ todo' = Tail(todo)
  BY DEF RegisterNext
<1>2. /\ Head(todo) = AllCommands[n + 1] /\ n + 1 \in 1..10 /\ Stretch(Tail(todo), n + 1, m)
  BY <1>1, StretchTail
<1>3. n \in 0..9 /\ n + 1 \in 0..m
  BY <1>2 DEF Stretch
<1>4. Stretch(commands', 0, n + 1)
  BY <1>1, <1>2, <1>3, NextAdded
<1> QED
  BY <1>1, <1>2, <1>3, <1>4 DEF Stretch

LEMMA ListsInit == ASSUME Init PROVE Lists
<1>1. 0 \in 0..5 /\ pc = "core" /\ commands = << >> /\ todo = CoreCommands
  BY DEF Init
<1>2. Stretch(commands, 0, 0) /\ Stretch(todo, 0, 5)
  BY <1>1, StartLists
<1> QED
  BY <1>1, <1>2 DEF Lists, Stretch

LEMMA ListsStep == ASSUME Control, Lists, [Next]_vars PROVE Lists'
<1>1. CASE UNCHANGED <<commands, todo>> /\ (pc' = pc \/ (/\ pc' \notin {"core", "console", "join"}
                                                          /\ pc \notin {"core", "console", "join"}))
  BY <1>1 DEF Lists
<1>2. CASE Restart
  <2>1. 0 \in 0..5 /\ pc' = "core" /\ commands' = << >> /\ todo' = CoreCommands
    BY <1>2 DEF Restart
  <2>2. Stretch(commands', 0, 0) /\ Stretch(todo', 0, 5)
    BY <2>1, StartLists
  <2> QED
    BY <2>1, <2>2 DEF Lists, Stretch
<1>3. CASE RegisterNext
  <2>1. pc' = pc /\ pc \in {"core", "console"}
    BY <1>3 DEF RegisterNext
  <2>2. CASE pc = "core"
    <3>1. PICK n \in 0..5 : Stretch(commands, 0, n) /\ Stretch(todo, n, 5)
      BY <2>2 DEF Lists
    <3>2. n \in 0..10 /\ 5 \in n..10
      OBVIOUS
    <3>3. /\ n + 1 \in 0..5 /\ Stretch(commands', 0, n + 1) /\ Stretch(todo', n + 1, 5)
          /\ todo' \in Seq(CommandName)
      BY <1>3, <3>1, <3>2, RegisterLists
    <3> QED
      BY <2>1, <2>2, <3>3 DEF Lists
  <2>3. CASE pc = "console"
    <3>1. PICK n \in 5..10 : Stretch(commands, 0, n) /\ Stretch(todo, n, 10)
      BY <2>3 DEF Lists
    <3>2. n \in 0..10 /\ 10 \in n..10
      OBVIOUS
    <3>3. /\ n + 1 \in 0..10 /\ Stretch(commands', 0, n + 1) /\ Stretch(todo', n + 1, 10)
          /\ todo' \in Seq(CommandName)
      BY <1>3, <3>1, <3>2, RegisterLists
    <3>4. n + 1 \in 5..10
      BY <3>3
    <3> QED
      BY <2>1, <2>3, <3>3, <3>4 DEF Lists
  <2> QED
    BY <2>1, <2>2, <2>3
<1>4. CASE CoreInitialized
  <2>1. pc = "core" /\ todo = << >> /\ pc' = "console" /\ todo' = EngineCommands /\ commands' = commands
    BY <1>4 DEF CoreInitialized, consoleVars
  <2>2. PICK n \in 0..5 : Stretch(commands, 0, n) /\ Stretch(todo, n, 5)
    BY <2>1 DEF Lists
  <2>3. n = 5
    <3>1. Len(todo) = 5 - n /\ Len(todo) = 0
      BY <2>1, <2>2, EmptySeq DEF Stretch
    <3> QED
      BY <3>1
  <2>4. 5 \in 5..10 /\ Stretch(commands', 0, 5) /\ Stretch(todo', 5, 10)
    BY <2>1, <2>2, <2>3, StartLists
  <2> QED
    BY <2>1, <2>4 DEF Lists, Stretch
<1>5. CASE ExecuteConfig
  <2>1. pc = "console" /\ todo = << >> /\ pc' = "config" /\ todo' = todo /\ commands' = commands
    BY <1>5 DEF ExecuteConfig, ConfigLoad
  <2>2. PICK n \in 5..10 : Stretch(commands, 0, n) /\ Stretch(todo, n, 10)
    BY <2>1 DEF Lists
  <2>3. n = 10
    <3>1. Len(todo) = 10 - n /\ Len(todo) = 0
      BY <2>1, <2>2, EmptySeq DEF Stretch
    <3> QED
      BY <3>1
  <2> QED
    BY <2>1, <2>2, <2>3 DEF Lists
<1>6. CASE CoreDestroy
  BY <1>6 DEF CoreDestroy, DestroyCommands, Lists
<1>7. CASE InterpretMain \/ InterpretWatcher
  <2>1. commands' = commands
    BY <1>7, InterpretLeaves, Threads DEF InterpretMain, InterpretWatcher, Control
  <2> QED
    BY <1>1, <1>7, <2>1 DEF InterpretMain, InterpretWatcher, engineVars
<1>8. CASE InitGlfw \/ InitEngine \/ CreateWindow \/ SpawnWatcher
  BY <1>1, <1>8 DEF InitGlfw, InitEngine, CreateWindow, SpawnWatcher, consoleVars
<1>9. CASE LoopTest \/ WaitEvents \/ PollEnds \/ DispatchClose \/ DispatchOther \/ RevertRead
           \/ RevertStore \/ SetWindowMonitor
  BY <1>1, <1>9
     DEF LoopTest, WaitEvents, PollEnds, DispatchClose, DispatchOther, RevertRead, RevertStore,
         SetWindowMonitor, consoleVars
<1>10. CASE DestroyThread \/ WatchTest \/ WatchRead \/ WatchCheck \/ WatchExecute \/ WatchExecuted
            \/ (\E e \in Event : Post(e)) \/ Rest \/ UNCHANGED vars
  BY <1>1, <1>10
     DEF DestroyThread, WatchTest, WatchRead, WatchCheck, WatchExecute, Resolve, WatchExecuted, Post,
         Rest, vars, consoleVars, engineVars
<1> QED
  BY <1>2, <1>3, <1>4, <1>5, <1>6, <1>7, <1>8, <1>9, <1>10
     DEF Next, Main, Startup, MainLoop, Watcher, User, Event

-----------------------------------------------------------------------------
(* The types of the application. *)
OwnTypes ==
    /\ events \in Seq(Event) /\ posted \in 0..MaxEvents
    /\ runs \in 1..MaxRuns
    /\ input \in Typed \cup {NoInput}
    /\ glfw \in BOOLEAN /\ mode \in BOOLEAN /\ flip \in BOOLEAN /\ allowed \in BOOLEAN

Typing == Control /\ Lists /\ ConsoleInv /\ OwnTypes

LEMMA TypingInit == ASSUME Init PROVE Typing
<1>1. Control /\ Lists
  BY ControlInit, ListsInit
<1>2. << >> \in Seq(Frame) /\ Len(<< >>) = 0 /\ << >> \in Seq(CommandName) /\ << >> \in Seq(Event)
  BY EmptySeq
<1>3. disk \in [Path -> {Absent} \cup Seq(Line)]
  BY UserDisksTyped DEF Init
<1>4. NoCall \in [command : CommandName \cup {Null}, args : Word]
  BY LineAssumption DEF NoCall
<1>5. ConsoleTypeOK
  BY <1>2, <1>3, <1>4 DEF Init, ConsoleTypeOK, Outcome
<1>6. SavesOpen
  BY <1>2 DEF Init, SavesOpen
<1>7. OwnTypes
  <2>1. 0 \in 0..MaxEvents /\ 1 \in 1..MaxRuns
    BY EngineAssumption DEF EngineAssumption
  <2> QED
    BY <1>2, <2>1 DEF Init, OwnTypes
<1> QED
  BY <1>1, <1>5, <1>6, <1>7 DEF Typing, ConsoleInv

LEMMA OwnTypesStep == ASSUME ConsoleInv, OwnTypes, [Next]_vars PROVE OwnTypes'
<1>1. /\ events \in Seq(Event) /\ posted \in 0..MaxEvents /\ runs \in 1..MaxRuns
      /\ input \in Typed \cup {NoInput} /\ fullscreen \in BOOLEAN
      /\ glfw \in BOOLEAN /\ mode \in BOOLEAN /\ flip \in BOOLEAN /\ allowed \in BOOLEAN
      /\ MaxEvents \in Nat \ {0} /\ MaxRuns \in Nat \ {0}
  BY EngineAssumption DEF OwnTypes, ConsoleInv, ConsoleTypeOK, EngineAssumption
<1>2. CASE UNCHANGED <<glfw, mode, events, posted, flip, allowed, input, runs>>
  BY <1>2 DEF OwnTypes
<1>3. CASE Restart
  <2>1. << >> \in Seq(Event)
    BY EmptySeq
  <2>2. runs + 1 \in 1..MaxRuns /\ 0 \in 0..MaxEvents
    BY <1>1, <1>3 DEF Restart
  <2>3. /\ events' = << >> /\ posted' = 0 /\ runs' = runs + 1 /\ input' = NoInput
        /\ glfw' = FALSE /\ mode' = FALSE /\ flip' = FALSE /\ allowed' \in BOOLEAN
    BY <1>3 DEF Restart
  <2> QED
    BY <2>1, <2>2, <2>3 DEF OwnTypes
<1>4. CASE InitGlfw \/ CreateWindow \/ SetWindowMonitor \/ WatchRead
  BY <1>1, <1>4 DEF InitGlfw, CreateWindow, SetWindowMonitor, WatchRead, OwnTypes
<1>5. CASE RevertRead \/ DispatchClose \/ DispatchOther
  <2>1. events # << >> /\ events' = Tail(events)
        /\ UNCHANGED <<glfw, mode, posted, allowed, input, runs>> /\ flip' \in BOOLEAN
    BY <1>1, <1>5 DEF RevertRead, DispatchClose, DispatchOther
  <2>2. Tail(events) \in Seq(Event)
    BY <1>1, <2>1, HeadTailProperties
  <2> QED
    BY <1>1, <2>1, <2>2 DEF OwnTypes
<1>6. ASSUME NEW e \in Event, Post(e) PROVE OwnTypes'
  <2>1. Append(events, e) \in Seq(Event)
    BY <1>1, AppendProperties
  <2>2. posted + 1 \in 0..MaxEvents
    BY <1>1, <1>6 DEF Post
  <2> QED
    BY <1>1, <1>6, <2>1, <2>2 DEF Post, OwnTypes
<1>7. CASE RegisterNext \/ CoreInitialized \/ ExecuteConfig \/ InterpretMain \/ InitEngine \/ SpawnWatcher
  BY <1>2, <1>7
     DEF RegisterNext, CoreInitialized, ExecuteConfig, InterpretMain, engineVars, InitEngine, SpawnWatcher
<1>8. CASE LoopTest \/ WaitEvents \/ PollEnds \/ RevertStore \/ CoreDestroy \/ DestroyThread
  BY <1>2, <1>8
     DEF LoopTest, WaitEvents, PollEnds, RevertStore, CoreDestroy, DestroyThread, engineVars
<1>9. CASE WatchTest \/ WatchCheck \/ WatchExecute \/ InterpretWatcher \/ WatchExecuted \/ Rest
           \/ UNCHANGED vars
  BY <1>2, <1>9
     DEF WatchTest, WatchCheck, WatchExecute, InterpretWatcher, WatchExecuted, Rest, vars, engineVars
<1> QED
  BY <1>3, <1>4, <1>5, <1>6, <1>7, <1>8, <1>9
     DEF Next, Main, Startup, MainLoop, Watcher, User, Event

LEMMA ConsoleInvStep ==
    ASSUME Control, Lists, ConsoleInv, OwnTypes, Lists', [Next]_vars
    PROVE  ConsoleInv'
<1>1. /\ commands \in Seq(CommandName) /\ fullscreen \in BOOLEAN /\ window \in BOOLEAN
      /\ shouldClose \in BOOLEAN /\ process \in Outcome
      /\ disk \in [Path -> {Absent} \cup Seq(Line)] /\ stack \in [Thread -> Seq(Frame)]
      /\ call \in [Thread -> CallTypes] /\ SavesOpen
  BY DEF ConsoleInv, ConsoleTypeOK, CallTypes
<1>2. PICK n : Stretch(commands, 0, n)
  BY ListsStretch
<1>3. ASSUME UNCHANGED <<disk, stack, call>>, commands' \in Seq(CommandName), fullscreen' \in BOOLEAN,
             window' \in BOOLEAN, shouldClose' \in BOOLEAN, process' \in Outcome
      PROVE  ConsoleInv'
  BY <1>1, <1>3 DEF ConsoleInv, ConsoleTypeOK, SavesOpen, CallTypes
<1>4. CASE Restart
  <2>1. /\ commands' = << >> /\ fullscreen' = FALSE /\ window' = FALSE /\ shouldClose' = FALSE
        /\ disk' = disk /\ stack' = [t \in Thread |-> << >>] /\ call' = [t \in Thread |-> NoCall]
        /\ process' = "running"
    BY <1>4 DEF Restart
  <2>2. << >> \in Seq(Frame) /\ Len(<< >>) = 0 /\ << >> \in Seq(CommandName)
    BY EmptySeq
  <2>3. NoCall \in [command : CommandName \cup {Null}, args : Word]
    BY LineAssumption DEF NoCall
  <2>4. ConsoleTypeOK'
    BY <1>1, <2>1, <2>2, <2>3 DEF ConsoleTypeOK, Outcome
  <2>5. SavesOpen'
    BY <2>1, <2>2 DEF SavesOpen
  <2> QED
    BY <2>4, <2>5 DEF ConsoleInv
<1>5. CASE RegisterNext
  <2>1. commands' \in Seq(CommandName)
    <3>1. pc' = pc /\ pc \in {"core", "console"}
      BY <1>5 DEF RegisterNext
    <3> QED
      BY <3>1 DEF Lists, Stretch
  <2> QED
    BY <1>1, <1>3, <1>5, <2>1 DEF RegisterNext
<1>6. CASE ExecuteConfig
  <2>1. /\ ConfigLoad("main", ConfigFile) /\ call' = call
    BY <1>6 DEF ExecuteConfig
  <2>2. ConfigFile = Target("") /\ "" \in Word
    BY LineAssumption DEF Target
  <2>3. Effect("main", "config_load", "")
    BY <2>1, <2>2 DEF Effect
  <2>4. /\ commands' = commands /\ fullscreen' \in BOOLEAN /\ window' = window
        /\ shouldClose' \in BOOLEAN /\ process' \in Outcome
        /\ disk' \in [Path -> {Absent} \cup Seq(Line)]
        /\ stack' \in [Thread -> Seq(Frame)] /\ SavesOpen'
    BY <1>2, <2>2, <2>3, Threads, EffectTyped
  <2> QED
    BY <1>1, <2>1, <2>4 DEF ConsoleInv, ConsoleTypeOK, CallTypes
<1>7. CASE InterpretMain \/ InterpretWatcher
  BY <1>2, <1>7, Threads, InterpretTyped DEF InterpretMain, InterpretWatcher
<1>8. CASE WatchExecute
  <2>1. input.args \in Word
    <3>1. input = NoInput \/ input \in Line
      BY LineAssumption DEF OwnTypes
    <3>2. NoInput.args \in Word
      BY LineAssumption DEF NoInput
    <3>3. \A line \in Line : line.args \in Word
      BY DEF Line
    <3> QED
      BY ONLY <3>1, <3>2, <3>3
  <2> QED
    BY <1>2, <1>8, <2>1, Threads, ResolveTyped DEF WatchExecute
<1>9. CASE CoreDestroy
  BY <1>1, <1>3, <1>9, EmptySeq DEF CoreDestroy, DestroyCommands
<1>10. CASE InitEngine \/ CreateWindow \/ DispatchClose \/ RevertStore \/ DestroyThread
  BY <1>1, <1>3, <1>10
     DEF InitEngine, CreateWindow, DispatchClose, RevertStore, DestroyThread, Outcome, OwnTypes
<1>11. CASE UNCHANGED consoleVars
  BY <1>1, <1>3, <1>11 DEF consoleVars
<1>12. CASE CoreInitialized \/ InitGlfw \/ SpawnWatcher \/ LoopTest \/ WaitEvents \/ PollEnds
            \/ DispatchOther \/ RevertRead \/ SetWindowMonitor
  BY <1>11, <1>12
     DEF CoreInitialized, InitGlfw, SpawnWatcher, LoopTest, WaitEvents, PollEnds, DispatchOther,
         RevertRead, SetWindowMonitor
<1>13. CASE WatchTest \/ WatchRead \/ WatchCheck \/ WatchExecuted \/ (\E e \in Event : Post(e))
            \/ Rest \/ UNCHANGED vars
  BY <1>11, <1>13 DEF WatchTest, WatchRead, WatchCheck, WatchExecuted, Post, Rest, vars
<1> QED
  BY <1>4, <1>5, <1>6, <1>7, <1>8, <1>9, <1>10, <1>12, <1>13
     DEF Next, Main, Startup, MainLoop, Watcher, User, Event

LEMMA TypingStep == ASSUME Typing, [Next]_vars PROVE Typing'
<1>1. Control' /\ Lists' /\ OwnTypes'
  BY ControlStep, ListsStep, OwnTypesStep DEF Typing
<1>2. ConsoleInv'
  BY <1>1, ConsoleInvStep DEF Typing
<1> QED
  BY <1>1, <1>2 DEF Typing

LEMMA TypingInvariant == Spec => []Typing
BY TypingInit, TypingStep, PTL DEF Spec

(* Through startup, the event loop, every line of both threads, the shutdown and any number   *)
(* of restarts, the variables of the application and of its console keep their types.         *)
THEOREM EngineTypes == Spec => []EngineTypeOK
<1>1. Typing => EngineTypeOK
  BY DEF Typing, EngineTypeOK, Control, Lists, ConsoleInv, OwnTypes
<1> QED
  BY <1>1, TypingInvariant, PTL

-----------------------------------------------------------------------------
(* What a save leaves in a file, and what is left of it to do.  A thread that saves has no    *)
(* command in its hand, and below its save there are only loads: nothing else writes the file *)
(* until it is done.                                                                          *)
SavedLines(d) ==
    d \in Seq(Line) /\ Len(d) \in 0..10 /\ \A i \in 1..Len(d) : d[i].cmd = AllCommands[i]

Files == \A p \in Path : disk[p] \in UserFiles[p] \/ SavedLines(disk[p])

Loading(t) == \A k \in 1..Len(stack[t]) : stack[t][k].kind = "load"

Saving(t) ==
    /\ TopIs(t, "save") /\ call[t] = NoCall
    /\ \A k \in 1..(Len(stack[t]) - 1) : stack[t][k].kind = "load"
    /\ SavedLines(disk[Top(t).path])
    /\ Top(t).rest = << >> \/ Stretch(Top(t).rest, Len(disk[Top(t).path]), 10)

Full == commands = << >> \/ Stretch(commands, 0, 10)

LEMMA EffectSaves ==
    ASSUME ConsoleInv, Full, Files, NEW t \in Thread, Loading(t), NEW c, NEW args,
           Effect(t, c, args), call'[t] = NoCall
    PROVE  Files' /\ (Loading(t)' \/ Saving(t)')
<1>1. stack \in [Thread -> Seq(Frame)] /\ stack[t] \in Seq(Frame) /\ commands \in Seq(CommandName)
      /\ disk \in [Path -> {Absent} \cup Seq(Line)]
  BY DEF ConsoleInv, ConsoleTypeOK
<1>2. CASE UNCHANGED <<disk, stack>>
  BY <1>2 DEF Files, Loading
<1>3. CASE ConfigSave(t, Target(args))
  <2> DEFINE path == Target(args)
             f == SaveFrame(path, commands)
             r == Append(stack[t], f)
  <2>1. CASE path \notin Path
    BY <1>2, <1>3, <2>1 DEF ConfigSave
  <2>2. CASE path \in Path
    <3>1. disk' = [disk EXCEPT ![path] = << >>] /\ stack' = Pushed(t, f)
      BY <1>3, <2>2 DEF ConfigSave
    <3>2. f \in Frame /\ f.kind = "save" /\ f.path = path /\ f.rest = commands
      BY <1>1, <2>2 DEF SaveFrame, Frame
    <3> HIDE DEF f, path
    <3>3. SavedLines(<< >>) /\ Len(<< >>) = 0
      BY EmptySeq DEF SavedLines
    <3>4. disk'[path] = << >> /\ \A p \in Path \ {path} : disk'[p] = disk[p]
      BY <1>1, <2>2, <3>1
    <3>5. Files'
      BY <3>3, <3>4 DEF Files
    <3>6. /\ stack' = [stack EXCEPT ![t] = r] /\ r \in Seq(Frame)
          /\ Len(r) = Len(stack[t]) + 1 /\ Len(stack[t]) \in Nat /\ r[Len(stack[t]) + 1] = f
          /\ \A k \in 1..Len(stack[t]) : r[k] = stack[t][k]
      BY <1>1, <3>1, <3>2, Pushing
    <3> HIDE DEF r
    <3>7. stack'[t] = r /\ r # << >> /\ r[Len(r)] = f
      BY <1>1, <3>6, EmptySeq
    <3>8. TopIs(t, "save")' /\ Top(t)' = f
      BY <3>2, <3>7 DEF TopIs, Top
    <3>9. \A k \in 1..(Len(r) - 1) : r[k].kind = "load"
      BY <3>6 DEF Loading
    <3>10. f.rest = << >> \/ Stretch(f.rest, Len(disk'[f.path]), 10)
      BY <3>2, <3>3, <3>4 DEF Full
    <3>11. SavedLines(disk'[f.path])
      BY <3>2, <3>3, <3>4
    <3> QED
      BY <3>5, <3>7, <3>8, <3>9, <3>10, <3>11 DEF Saving
  <2> QED
    BY <2>1, <2>2
<1>4. CASE ConfigLoad(t, Target(args))
  <2> DEFINE path == Target(args)
             f == LoadFrame(path, disk[path])
             r == Append(stack[t], f)
  <2>1. CASE UNCHANGED stack
    BY <1>2, <1>4, <2>1 DEF ConfigLoad
  <2>2. CASE ~UNCHANGED stack
    <3>1. path \in Path /\ disk[path] # Absent /\ stack' = Pushed(t, f) /\ disk' = disk
      BY <1>4, <2>2 DEF ConfigLoad
    <3>2. f \in Frame /\ f.kind = "load"
      BY <1>1, <3>1 DEF LoadFrame, Frame
    <3> HIDE DEF f, path
    <3>3. /\ stack' = [stack EXCEPT ![t] = r] /\ r \in Seq(Frame)
          /\ Len(r) = Len(stack[t]) + 1 /\ Len(stack[t]) \in Nat /\ r[Len(stack[t]) + 1] = f
          /\ \A k \in 1..Len(stack[t]) : r[k] = stack[t][k]
      BY <1>1, <3>1, <3>2, Pushing
    <3> HIDE DEF r
    <3>4. ASSUME NEW k \in 1..Len(r) PROVE r[k].kind = "load"
      <4>1. k \in 1..Len(stack[t]) \/ k = Len(stack[t]) + 1
        BY <3>3
      <4> QED
        BY <3>2, <3>3, <4>1 DEF Loading
    <3> QED
      BY <1>1, <3>1, <3>3, <3>4 DEF Files, Loading
  <2> QED
    BY <2>1, <2>2
<1> QED
  BY <1>2, <1>3, <1>4 DEF Effect, End, Skip, Quit

LEMMA InterpretSaves ==
    ASSUME ConsoleInv, Full, Files, NEW t \in Thread, Loading(t) \/ Saving(t), Interpret(t)
    PROVE  Files' /\ (Loading(t)' \/ Saving(t)')
<1>1. /\ stack \in [Thread -> Seq(Frame)] /\ stack[t] \in Seq(Frame) /\ commands \in Seq(CommandName)
      /\ disk \in [Path -> {Absent} \cup Seq(Line)] /\ DOMAIN call = Thread
  BY DEF ConsoleInv, ConsoleTypeOK
<1>2. CASE Fetch(t)
  <2>1. /\ stack[t] # << >> /\ Top(t).kind = "load" /\ Top(t).rest # << >> /\ stack' = Consumed(t)
        /\ disk' = disk
    BY <1>2 DEF Fetch, TopIs
  <2>2. Loading(t)
    BY <2>1 DEF Saving, TopIs
  <2> DEFINE r == Append(Under(t), [Top(t) EXCEPT !.rest = Tail(@)])
  <2>3. /\ stack' = [stack EXCEPT ![t] = r] /\ Len(r) = Len(stack[t])
        /\ \A k \in 1..Len(r) : r[k].kind = stack[t][k].kind
    BY <1>1, <2>1, Consuming
  <2> HIDE DEF r
  <2> QED
    BY <1>1, <2>1, <2>2, <2>3 DEF Files, Loading
<1>3. CASE EndLoad(t) \/ EndSave(t)
  <2>1. stack[t] # << >> /\ stack' = Popped(t) /\ disk' = disk
    BY <1>3 DEF EndLoad, EndSave, TopIs
  <2> DEFINE r == Under(t)
  <2>2. /\ stack' = [stack EXCEPT ![t] = r] /\ Len(r) = Len(stack[t]) - 1
        /\ Len(stack[t]) \in Nat \ {0} /\ \A k \in 1..(Len(stack[t]) - 1) : r[k] = stack[t][k]
    BY <1>1, <2>1, Popping
  <2> HIDE DEF r
  <2>3. \A k \in 1..(Len(stack[t]) - 1) : k \in 1..Len(stack[t])
    BY <2>2
  <2>4. \A k \in 1..(Len(stack[t]) - 1) : stack[t][k].kind = "load"
    BY <2>3 DEF Loading, Saving
  <2> QED
    BY <1>1, <2>1, <2>2, <2>4 DEF Files, Loading
<1>4. CASE SaveLine(t)
  <2> DEFINE f == Top(t)
             c == Head(Top(t).rest)
             g == [Top(t) EXCEPT !.rest = Tail(@)]
             r == Append(Under(t), g)
             d == disk[Top(t).path]
             e == Append(disk[Top(t).path], SavedLine(Head(Top(t).rest)))
  <2>1. /\ stack[t] # << >> /\ f.kind = "save" /\ f.rest # << >> /\ stack' = Consumed(t)
        /\ disk' = [disk EXCEPT ![f.path] = e] /\ call' = call
    BY <1>4 DEF SaveLine, TopIs, Registry!SaveAllowed
  <2>2. f \in Frame /\ f.path \in Path /\ f.rest \in Seq(CommandName)
    BY <1>1, <2>1, TopFrame, FrameKinds DEF Top
  <2>3. /\ stack' = [stack EXCEPT ![t] = r] /\ r \in Seq(Frame) /\ Len(r) = Len(stack[t])
        /\ Len(stack[t]) \in Nat \ {0} /\ r[Len(stack[t])] = g
        /\ \A k \in 1..(Len(stack[t]) - 1) : r[k] = stack[t][k]
    BY <1>1, <2>1, Consuming
  <2>4. g.kind = "save" /\ g.path = f.path /\ g.rest = Tail(f.rest)
    BY <2>1, <2>2, FrameKinds
  <2>5. Saving(t)
    <3>1. Len(stack[t]) \in 1..Len(stack[t])
      BY <2>3
    <3> QED
      BY <2>1, <3>1 DEF Loading, Top
  <2>6. SavedLines(d) /\ Stretch(f.rest, Len(d), 10)
    BY <2>1, <2>5 DEF Saving
  <2>7. /\ c = AllCommands[Len(d) + 1] /\ c \in CommandName /\ Len(d) + 1 \in 1..10
        /\ Stretch(Tail(f.rest), Len(d) + 1, 10)
    BY <2>1, <2>6, StretchTail
  <2>8. SavedLine(c) \in Line /\ SavedLine(c).cmd = c
    BY <2>7, SavedLineIsLine DEF SavedLine
  <2>9. /\ e \in Seq(Line) /\ Len(e) = Len(d) + 1 /\ Len(d) \in Nat
        /\ (\A i \in 1..Len(d) : e[i] = d[i]) /\ e[Len(d) + 1] = SavedLine(c)
    <3>1. d \in Seq(Line) /\ Len(d) \in 0..10
      BY <2>6 DEF SavedLines
    <3> QED
      BY <2>8, <3>1, AppendProperties
  <2> HIDE DEF c, g, r, d, e, f
  <2>10. \A i \in 1..(Len(d) + 1) : e[i].cmd = AllCommands[i]
    <3>1. \A i \in 1..(Len(d) + 1) : i \in 1..Len(d) \/ i = Len(d) + 1
      BY <2>9
    <3>2. \A i \in 1..Len(d) : e[i].cmd = AllCommands[i]
      BY <2>6, <2>9 DEF SavedLines
    <3> QED
      BY <2>7, <2>8, <2>9, <3>1, <3>2
  <2>11. SavedLines(e)
    BY <2>7, <2>9, <2>10 DEF SavedLines
  <2>12. disk'[f.path] = e /\ \A p \in Path \ {f.path} : disk'[p] = disk[p]
    BY <1>1, <2>1, <2>2
  <2>13. Files'
    BY <2>11, <2>12 DEF Files
  <2>14. stack'[t] = r /\ r # << >> /\ r[Len(r)] = g
    BY <1>1, <2>3, EmptySeq
  <2>15. TopIs(t, "save")' /\ Top(t)' = g
    BY <2>4, <2>14 DEF TopIs, Top
  <2>16. call'[t] = NoCall /\ \A k \in 1..(Len(r) - 1) : r[k].kind = "load"
    BY <2>1, <2>3, <2>5 DEF Saving
  <2>17. SavedLines(disk'[g.path]) /\ Stretch(g.rest, Len(disk'[g.path]), 10)
    BY <2>4, <2>7, <2>9, <2>11, <2>12
  <2> QED
    BY <2>13, <2>14, <2>15, <2>16, <2>17 DEF Saving
<1>5. CASE Call(t)
  <2>1. Loading(t) /\ call'[t] = NoCall
    BY <1>1, <1>5 DEF Call, Saving
  <2>2. CASE Skip
    BY <2>1, <2>2 DEF Skip, Files, Loading
  <2>3. CASE ~Skip
    <3>1. \E args : Effect(t, call[t].command, args)
      BY <1>5, <2>3 DEF Call
    <3> QED
      BY <2>1, <3>1, EffectSaves
  <2> QED
    BY <2>2, <2>3
<1> QED
  BY <1>2, <1>3, <1>4, <1>5 DEF Interpret

-----------------------------------------------------------------------------
(* In the application: one thread at a time executes lines, and never before the ten commands *)
(* are registered.                                                                            *)
Saves == Files /\ \A t \in Thread : Loading(t) \/ Saving(t)

LEMMA IdleLoads == ASSUME NEW t, Idle(t) PROVE Loading(t)
<1>1. Len(<< >>) = 0
  BY EmptySeq
<1> QED
  BY <1>1 DEF Idle, Loading

LEMMA SavesInit == ASSUME Init PROVE Saves
<1>1. \A t \in Thread : Idle(t)
  BY DEF Init, Idle
<1>2. Files
  BY DEF Init, UserDisks, Files
<1> QED
  BY <1>1, <1>2, IdleLoads DEF Saves

(* The other thread is idle while one executes a line. *)
LEMMA OneInterprets ==
    ASSUME Typing, Saves, NEW t \in Thread, NEW u \in Thread \ {t}, Idle(u), Full, Interpret(t)
    PROVE  Saves'
<1>1. Thread = {t, u}
  BY EngineAssumption DEF EngineAssumption
<1>2. Files' /\ (Loading(t)' \/ Saving(t)')
  BY InterpretSaves DEF Typing, Saves
<1>3. stack'[u] = stack[u] /\ Len(<< >>) = 0 /\ stack[u] = << >>
  BY InterpretLeaves, EmptySeq DEF Typing, Control, Idle
<1>4. Loading(u)'
  BY <1>3 DEF Loading
<1> QED
  BY <1>1, <1>2, <1>4 DEF Saves

LEMMA SavesStep == ASSUME Typing, Typing', Saves, [Next]_vars PROVE Saves'
<1>1. CASE UNCHANGED <<disk, stack, call>>
  BY <1>1 DEF Saves, Files, Loading, Saving, TopIs, Top
<1>2. CASE Restart
  <2>1. disk' = disk /\ stack' = [t \in Thread |-> << >>] /\ Len(<< >>) = 0
    BY <1>2, EmptySeq DEF Restart
  <2> QED
    BY <2>1 DEF Saves, Files, Loading
<1>3. CASE ExecuteConfig
  <2>1. /\ pc = "console" /\ pc' = "config" /\ commands' = commands /\ call' = call
        /\ ConfigLoad("main", ConfigFile)
    BY <1>3 DEF ExecuteConfig, ConfigLoad
  <2>2. Full
    BY <2>1 DEF Typing, Lists, Full
  <2>3. Idle("main") /\ Idle("watcher") /\ Shape
    BY <2>1 DEF Typing, Control, WithWatcher
  <2>4. Effect("main", "config_load", "")
    BY <2>1 DEF Effect, Target
  <2>5. Loading("main") /\ call'["main"] = NoCall
    BY <2>1, <2>3, IdleLoads DEF Idle
  <2>6. Files' /\ (Loading("main")' \/ Saving("main")')
    BY <2>2, <2>4, <2>5, Threads, EffectSaves DEF Typing, Saves
  <2>7. stack'["watcher"] = << >> /\ Len(<< >>) = 0
    BY <2>1, <2>3, Threads, EmptySeq DEF ConfigLoad, Pushed, Idle, Shape
  <2>8. Loading("watcher")'
    BY <2>7 DEF Loading
  <2> QED
    BY <2>6, <2>8, EngineAssumption DEF Saves, EngineAssumption
<1>4. CASE InterpretMain
  <2>1. Interpret("main") /\ "main" \in Thread /\ "watcher" \in Thread \ {"main"}
    BY <1>4, Threads DEF InterpretMain
  <2>2. pc = "config" /\ Idle("watcher")
    BY <2>1, IdleWaits DEF Typing, Control, WithWatcher
  <2>3. Full
    BY <2>2 DEF Typing, Lists, Full
  <2> QED
    BY <2>1, <2>2, <2>3, OneInterprets
<1>5. CASE InterpretWatcher
  <2>1. Interpret("watcher") /\ "watcher" \in Thread /\ "main" \in Thread \ {"watcher"}
    BY <1>5, Threads DEF InterpretWatcher
  <2>2. pc \in WithWatcher /\ Idle("main")
    BY <2>1, IdleWaits DEF Typing, Control, WithWatcher
  <2>3. Full
    BY <2>2 DEF Typing, Control, Lists, Full, WithWatcher
  <2> QED
    BY <2>1, <2>2, <2>3, OneInterprets
<1>6. CASE WatchExecute
  <2>1. /\ disk' = disk /\ stack' = stack /\ Idle("watcher") /\ Shape
        /\ call' = [call EXCEPT !["watcher"] = Resolved(input)]
    BY <1>6 DEF WatchExecute, Resolve, Typing, Control
  <2>2. Loading("watcher")'
    BY <2>1, IdleLoads DEF Loading
  <2>3. call'["main"] = call["main"]
    BY <2>1, Threads DEF Shape
  <2>4. Loading("main")' \/ Saving("main")'
    BY <2>1, <2>3, Threads DEF Saves, Loading, Saving, TopIs, Top
  <2>5. Files'
    BY <2>1 DEF Saves, Files
  <2> QED
    BY <2>2, <2>4, <2>5, EngineAssumption DEF Saves, EngineAssumption
<1>7. CASE RegisterNext \/ CoreInitialized \/ InitGlfw \/ InitEngine \/ CreateWindow \/ SpawnWatcher
  BY <1>1, <1>7
     DEF RegisterNext, CoreInitialized, InitGlfw, InitEngine, CreateWindow, SpawnWatcher, consoleVars
<1>8. CASE LoopTest \/ WaitEvents \/ PollEnds \/ DispatchClose \/ DispatchOther \/ RevertRead
           \/ RevertStore \/ SetWindowMonitor
  BY <1>1, <1>8
     DEF LoopTest, WaitEvents, PollEnds, DispatchClose, DispatchOther, RevertRead, RevertStore,
         SetWindowMonitor, consoleVars
<1>9. CASE CoreDestroy \/ DestroyThread \/ WatchTest \/ WatchRead \/ WatchCheck \/ WatchExecuted
  BY <1>1, <1>9
     DEF CoreDestroy, DestroyCommands, DestroyThread, WatchTest, WatchRead, WatchCheck, WatchExecuted,
         consoleVars
<1>10. CASE (\E e \in Event : Post(e)) \/ Rest \/ UNCHANGED vars
  BY <1>1, <1>10 DEF Post, Rest, vars, consoleVars
<1> QED
  BY <1>2, <1>3, <1>4, <1>5, <1>6, <1>7, <1>8, <1>9, <1>10
     DEF Next, Main, Startup, MainLoop, Watcher, User, Event

LEMMA SavedPrefix ==
    ASSUME NEW d, SavedLines(d)
    PROVE  CommandsOf(d) = SubSeq(AllCommands, 1, Len(d))
<1>1. /\ d \in Seq(Line) /\ Len(d) \in 0..10 /\ DOMAIN d = 1..Len(d)
      /\ \A i \in 1..Len(d) : d[i].cmd = AllCommands[i]
  BY LenProperties DEF SavedLines
<1> DEFINE n == Len(d)
           s == SubSeq(AllCommands, 1, n)
<1>2. n \in 0..10 /\ n \in Int /\ 1 \in Int
  <2>1. n \in 0..10
    BY <1>1
  <2> HIDE DEF n
  <2> QED
    BY ONLY <2>1
<1> HIDE DEF n
<1>3. \A k \in 1..n : AllCommands[k] \in CommandName
  <2>1. \A k \in 1..n : k \in 1..10
    BY <1>2
  <2> QED
    BY <2>1, AllCommandsAre, ElementOfSeq
<1>4. /\ s \in Seq(CommandName) /\ Len(s) = IF 1 <= n THEN n - 1 + 1 ELSE 0
      /\ \A k \in 1..(n - 1 + 1) : s[k] = AllCommands[1 + k - 1]
  BY <1>2, <1>3, SubSeqProperties
<1> HIDE DEF s
<1>5. Len(s) = n /\ \A k \in 1..n : s[k] = AllCommands[k]
  BY <1>2, <1>4
<1>6. s = [k \in 1..n |-> AllCommands[k]]
  <2>1. s \in [1..n -> CommandName]
    BY <1>4, <1>5, LenProperties
  <2> QED
    BY <1>5, <2>1
<1>7. CommandsOf(d) = [k \in 1..n |-> AllCommands[k]]
  BY <1>1 DEF CommandsOf, n
<1> QED
  BY <1>6, <1>7 DEF s, n

LEMMA FilesPrefix == ASSUME Files PROVE SavedIsPrefix
BY SavedPrefix DEF Files, SavedIsPrefix

(* Whichever thread dies, is aborted with the process or clears the registry while a config   *)
(* is being saved, and however often the program is started on the files of the run before,   *)
(* every file holds what the user wrote or the first commands in their order.                 *)
THEOREM EngineSavedIsPrefix == Spec => []SavedIsPrefix
<1>1. Init => Saves
  BY SavesInit
<1>2. Typing /\ Typing' /\ Saves /\ [Next]_vars => Saves'
  BY SavesStep
<1>3. Saves => SavedIsPrefix
  BY FilesPrefix DEF Saves
<1> QED
  BY <1>1, <1>2, <1>3, TypingInvariant, PTL DEF Spec

-----------------------------------------------------------------------------
(* Which files a thread may still go from one into the other: a file says so on the disk, in  *)
(* the lines an activation has yet to read, by an activation under another one, or by the     *)
(* command that was looked up.  Here s is the thread's stack, c its call and d the disk.      *)
Wanted(c) == {q \in Path : c.command = "config_load" /\ c.args # "" /\ q = ToLower[c.args]}

Edge(s, c, d, p, q) ==
    \/ d[p] # Absent /\ q \in Includes(d[p])
    \/ \E k \in 1..Len(s) : s[k].kind = "load" /\ s[k].path = p /\ q \in Includes(s[k].rest)
    \/ \E k \in 1..(Len(s) - 1) : s[k].path = p /\ s[k + 1].kind = "load" /\ s[k + 1].path = q
    \/ s # << >> /\ s[Len(s)].path = p /\ q \in Wanted(c)

Acyclic(s, c, d) ==
    \A S \in SUBSET Path : S # {} => \E p \in S : \A q \in S : ~Edge(s, c, d, p, q)

(* Below the top there are only loads, and a thread that saves holds no command. *)
Piled(s, c) == /\ \A k \in 1..(Len(s) - 1) : s[k].kind = "load"
               /\ s # << >> /\ s[Len(s)].kind = "save" => c = NoCall

(* The files of d2 lead nowhere that those of d do not. *)
Narrower(d, d2) ==
    \A p \in Path : \A q : /\ d2[p] # Absent /\ q \in Includes(d2[p])
                           => d[p] # Absent /\ q \in Includes(d[p])

LEMMA FewerEdges ==
    ASSUME NEW s, NEW c, NEW d, NEW s2, NEW c2, NEW d2, Acyclic(s, c, d),
           \A p, q \in Path : Edge(s2, c2, d2, p, q) => Edge(s, c, d, p, q)
    PROVE  Acyclic(s2, c2, d2)
<1> SUFFICES ASSUME NEW S \in SUBSET Path, S # {}
             PROVE  \E p \in S : \A q \in S : ~Edge(s2, c2, d2, p, q)
  BY DEF Acyclic
<1>1. PICK p \in S : \A q \in S : ~Edge(s, c, d, p, q)
  BY DEF Acyclic
<1> QED
  BY <1>1

LEMMA NarrowerFiles ==
    ASSUME NEW s, NEW c, NEW d, NEW d2, Acyclic(s, c, d), Narrower(d, d2)
    PROVE  Acyclic(s, c, d2)
<1>1. ASSUME NEW p \in Path, NEW q \in Path, Edge(s, c, d2, p, q) PROVE Edge(s, c, d, p, q)
  BY <1>1 DEF Edge, Narrower
<1> QED
  BY <1>1, FewerEdges

LEMMA NoIncludes == Includes(<< >>) = {}
BY DEF Includes

LEMMA SavedIncludes ==
    ASSUME NEW l \in Seq(Line), NEW c \in CommandName, NEW q \in Includes(Append(l, SavedLine(c)))
    PROVE  q \in Includes(l)
<1> DEFINE r == Append(l, SavedLine(c))
<1>1. /\ DOMAIN l = 1..Len(l) /\ Len(l) \in Nat /\ DOMAIN r = 1..(Len(l) + 1)
      /\ (\A i \in 1..Len(l) : r[i] = l[i]) /\ r[Len(l) + 1] = SavedLine(c)
  BY SavedLineIsLine, AppendProperties, LenProperties
<1>2. SavedLine(c).cmd = "config_load" => SavedLine(c).args = ""
  BY DEF SavedLine, Status
<1> HIDE DEF r
<1>3. PICK i \in DOMAIN r : r[i].cmd = "config_load" /\ r[i].args # "" /\ q = ToLower[r[i].args] /\ q \in Path
  BY DEF Includes, r
<1>4. i # Len(l) + 1
  <2> SUFFICES ASSUME i = Len(l) + 1 PROVE FALSE
    OBVIOUS
  <2>1. r[i] = SavedLine(c)
    BY <1>1
  <2> QED
    BY ONLY <1>2, <1>3, <2>1
<1>5. i \in DOMAIN l /\ r[i] = l[i]
  <2>1. i \in 1..(Len(l) + 1)
    BY <1>1
  <2>2. i \in 1..Len(l)
    BY <1>1, <1>4, <2>1
  <2> QED
    BY <1>1, <2>2
<1> QED
  BY <1>3, <1>5 DEF Includes

(* The lookup answers the name it was given or nothing. *)
LEMMA FoundIs ==
    ASSUME NEW n, Stretch(commands, 0, n), NEW line
    PROVE  Resolved(line) = NoCall \/ Resolved(line) = [command |-> line.cmd, args |-> line.args]
<1> DEFINE x == line.cmd
<1>1. commands \in Seq(CommandName) /\ DOMAIN commands = 1..n /\ n \in 0..10
  BY LenProperties DEF Stretch
<1>2. \A k \in 1..n : commands[k] = AllCommands[k] /\ commands[k] \in CommandName
  BY <1>1, ElementOfSeq, LenProperties DEF Stretch
<1>3. Registry!Get(x) \in {x, Null}
  <2>1. CASE Registry!Holds(commands, x)
    <3>1. PICK i \in 1..n : commands[i] = x
      BY <1>1, <1>2, <2>1 DEF Registry!Holds
    <3>2. Registry!IsFirst(commands, x, i)
      <4>1. \A j \in 1..(i - 1) : j \in 1..n /\ j \in 1..10 /\ i \in 1..10 /\ j # i
        BY <1>1
      <4>2. \A j \in 1..(i - 1) : commands[j] # x /\ commands[j] \in CommandName
        BY <1>2, <3>1, <4>1, AllCommandsAre
      <4> QED
        BY <1>2, <3>1, <4>2 DEF Registry!IsFirst
    <3> DEFINE l == CHOOSE k \in DOMAIN commands : Registry!IsFirst(commands, x, k)
    <3>3. l \in 1..n /\ Registry!IsFirst(commands, x, l)
      BY <1>1, <3>2
    <3>4. Registry!Get(x) = commands[l]
      BY <2>1 DEF Registry!Get, Registry!Lookup
    <3> HIDE DEF l
    <3>5. commands[l] = x
      BY <1>2, <3>3 DEF Registry!IsFirst
    <3> QED
      BY <3>4, <3>5
  <2>2. CASE ~Registry!Holds(commands, x)
    BY <2>2 DEF Registry!Get, Registry!Lookup
  <2> QED
    BY <2>1, <2>2
<1> QED
  BY <1>3 DEF Resolved

(* Reading a line leaves the ways into other files that the lines and the call had together.  *)
LEMMA ReadIncludes ==
    ASSUME NEW l \in Seq(Line), l # << >>, NEW n, Stretch(commands, 0, n), NEW q
    PROVE  /\ q \in Includes(Tail(l)) => q \in Includes(l)
           /\ q \in Wanted(Resolved(Head(l))) => q \in Includes(l)
<1>1. /\ DOMAIN l = 1..Len(l) /\ Len(l) \in Nat \ {0} /\ DOMAIN Tail(l) = 1..(Len(l) - 1)
      /\ Head(l) = l[1] /\ \A i \in 1..(Len(l) - 1) : Tail(l)[i] = l[i + 1]
  BY HeadTailProperties, LenProperties, EmptySeq
<1>2. ASSUME q \in Includes(Tail(l)) PROVE q \in Includes(l)
  <2>1. PICK i \in 1..(Len(l) - 1) : /\ Tail(l)[i].cmd = "config_load" /\ Tail(l)[i].args # ""
                                     /\ q = ToLower[Tail(l)[i].args] /\ q \in Path
    BY <1>1, <1>2 DEF Includes
  <2>2. i + 1 \in DOMAIN l /\ Tail(l)[i] = l[i + 1]
    BY <1>1
  <2> QED
    BY <2>1, <2>2 DEF Includes
<1>3. ASSUME q \in Wanted(Resolved(Head(l))) PROVE q \in Includes(l)
  <2>1. Resolved(Head(l)) # NoCall
    <3>1. NoCall.command # "config_load"
      BY LineAssumption, AllCommandsAre DEF NoCall
    <3> QED
      BY <1>3, <3>1 DEF Wanted
  <2>2. Resolved(Head(l)) = [command |-> Head(l).cmd, args |-> Head(l).args]
    BY <2>1, FoundIs
  <2>3. 1 \in DOMAIN l /\ Head(l) = l[1]
    BY <1>1
  <2>4. l[1].cmd = "config_load" /\ l[1].args # "" /\ q = ToLower[l[1].args] /\ q \in Path
    <3> DEFINE x == Resolved(Head(l))
    <3>1. x.command = l[1].cmd /\ x.args = l[1].args
      BY <2>2, <2>3
    <3>2. q \in Path /\ x.command = "config_load" /\ x.args # "" /\ q = ToLower[x.args]
      BY <1>3 DEF Wanted
    <3> HIDE DEF x
    <3> QED
      BY ONLY <3>1, <3>2
  <2> QED
    BY <2>3, <2>4 DEF Includes
<1> QED
  BY <1>2, <1>3

(* With as many activations as there are files, one more closes a circle. *)
LEMMA FullStackIsCyclic ==
    ASSUME IsFiniteSet(Path), Cardinality(Path) <= MaxDepth,
           NEW s \in Seq(Frame), Len(s) = MaxDepth, \A k \in 1..Len(s) : s[k].kind = "load",
           NEW c, NEW d, NEW q \in Wanted(c)
    PROVE  ~Acyclic(s, c, d)
<1> DEFINE m == Len(s)
           f == [i \in 1..(m + 1) |-> IF i <= m THEN s[i].path ELSE q]
<1>1. m \in Nat \ {0} /\ q \in Path /\ Cardinality(Path) \in Nat
  BY ConsoleAssumption, FS_CardinalityType DEF Wanted
<1>2. \A i \in 1..m : s[i].path \in Path
  BY ElementOfSeq, FrameKinds
<1>3. s # << >>
  BY <1>1, EmptySeq
<1> HIDE DEF m
<1>4. f \in [1..(m + 1) -> Path]
  BY <1>1, <1>2
<1>5. \A i \in 1..m : Edge(s, c, d, f[i], f[i + 1])
  <2> SUFFICES ASSUME NEW i \in 1..m PROVE Edge(s, c, d, f[i], f[i + 1])
    OBVIOUS
  <2>1. f[i] = s[i].path /\ i + 1 \in 1..(m + 1)
    BY <1>1
  <2>2. CASE i = m
    <3>1. f[i + 1] = q /\ f[i] = s[Len(s)].path
      BY <1>1, <2>1, <2>2 DEF m
    <3> QED
      BY <1>3, <3>1 DEF Edge
  <2>3. CASE i # m
    <3>1. i \in 1..(m - 1) /\ i + 1 \in 1..m /\ f[i + 1] = s[i + 1].path
      BY <1>1, <2>1, <2>3
    <3> HIDE DEF f
    <3>2. s[i + 1].kind = "load" /\ i \in 1..(Len(s) - 1)
      BY <3>1 DEF m
    <3> QED
      BY <2>1, <3>1, <3>2 DEF Edge
  <2> QED
    BY <2>2, <2>3
<1>6. \E i, j \in 1..(m + 1) : i # j /\ f[i] = f[j]
  <2>1. IsFiniteSet(1..(m + 1)) /\ Cardinality(1..(m + 1)) = m + 1
    <3>1. 1 \in Int /\ m + 1 \in Int /\ ~(1 > m + 1) /\ (m + 1) - 1 + 1 = m + 1
      BY <1>1
    <3> QED
      BY <3>1, FS_Interval
  <2>2. Cardinality(Path) < Cardinality(1..(m + 1))
    BY <1>1, <2>1 DEF m
  <2> DEFINE D == 1..(m + 1)
  <2>3. IsFiniteSet(D) /\ IsFiniteSet(Path) /\ Cardinality(Path) < Cardinality(D) /\ f \in [D -> Path]
    BY <1>4, <2>1, <2>2
  <2> HIDE DEF f, D
  <2>4. \E i, j \in D : i # j /\ f[i] = f[j]
    BY ONLY <2>3, FS_PigeonHole
  <2> QED
    BY <2>4 DEF D
<1>7. PICK i, j \in 1..(m + 1) : i < j /\ f[i] = f[j]
  <2>1. PICK i, j \in 1..(m + 1) : i # j /\ f[i] = f[j]
    BY <1>6
  <2>2. i < j \/ j < i
    BY <1>1, <2>1
  <2> QED
    BY <2>1, <2>2
<1> DEFINE S == {f[k] : k \in i..(j - 1)}
<1>8. S \in SUBSET Path /\ f[i] \in S /\ i \in i..(j - 1)
  <2>1. i \in i..(j - 1) /\ \A k \in i..(j - 1) : k \in 1..(m + 1)
    BY <1>1, <1>7
  <2> HIDE DEF f
  <2> QED
    BY <1>4, <2>1
<1>9. ASSUME NEW p \in S PROVE \E r \in S : Edge(s, c, d, p, r)
  <2>1. PICK k \in i..(j - 1) : p = f[k]
    OBVIOUS
  <2>2. k \in 1..m /\ (k + 1 \in i..(j - 1) \/ k + 1 = j)
    BY <1>1, <1>7
  <2> HIDE DEF f
  <2>3. f[k + 1] \in S
    BY <1>7, <1>8, <2>2
  <2> QED
    BY <1>5, <2>1, <2>2, <2>3
<1> HIDE DEF S
<1> QED
  BY <1>8, <1>9 DEF Acyclic

(* config_load is called only with arguments, and opens the file they name in lower case.     *)
LEMMA LoadArguments ==
    ASSUME NEW args \in Word, NEW h, h = Registry!Handler("config_load", args, TRUE), Registry!Invokes(h)
    PROVE  /\ args # ""
           /\ Target(Registry!SeenArgs("config_load", h, Registry!PassedArgs("config_load", args)))
                 = ToLower[args]
<1>1. "config_load" \in CommandName /\ CommandKind["config_load"] = "CallWithArgs"
      /\ ~TakesEmpty["config_load"] /\ AllOn["config_load"]
  BY AllCommandsAre DEF CommandKind, TakesEmpty, AllOn
<1>2. args # "" /\ h = "ExecuteArgs"
  BY <1>1 DEF Registry!Handler, Registry!Invokes, Registry!EmptyArgumentsHandled
<1>3. Registry!PassedArgs("config_load", args) = ToLower[args]
  BY <1>1 DEF Registry!PassedArgs, Registry!LowerCaseArguments, Registry!CallKinds
<1>4. ToLower[args] # ""
  BY <1>2, LineAssumption
<1> QED
  BY <1>1, <1>2, <1>3, <1>4 DEF Registry!SeenArgs, Target

LEMMA NothingWanted == Wanted(NoCall) = {}
<1>1. NoCall.command # "config_load"
  BY LineAssumption, AllCommandsAre DEF NoCall
<1> QED
  BY <1>1 DEF Wanted

(* What the steps of an interpreter make of its ways. *)
LEMMA ReadEdges ==
    ASSUME NEW s \in Seq(Frame), s # << >>, s[Len(s)].kind = "load", s[Len(s)].rest # << >>,
           NEW n, Stretch(commands, 0, n), NEW r, Len(r) = Len(s),
           \A k \in 1..(Len(s) - 1) : r[k] = s[k],
           r[Len(s)] = [s[Len(s)] EXCEPT !.rest = Tail(@)],
           NEW c, NEW d, NEW p \in Path, NEW q \in Path,
           Edge(r, Resolved(Head(s[Len(s)].rest)), d, p, q)
    PROVE  Edge(s, c, d, p, q)
<1> DEFINE m == Len(s)
           f == s[Len(s)]
           g == r[Len(s)]
           x == Resolved(Head(s[Len(s)].rest))
<1>1. m \in Nat \ {0} /\ f \in Frame /\ Len(r) = m /\ m \in 1..m
  BY TopFrame
<1>2. f.rest \in Seq(Line) /\ g.kind = f.kind /\ g.path = f.path /\ g.rest = Tail(f.rest)
  BY <1>1, FrameKinds
<1>3. /\ q \in Includes(Tail(f.rest)) => q \in Includes(f.rest)
      /\ q \in Wanted(x) => q \in Includes(f.rest)
  BY <1>2, ReadIncludes
<1>4. f.path = p /\ q \in Includes(f.rest) => Edge(s, c, d, p, q)
  BY <1>1 DEF Edge
<1> HIDE DEF x
<1>5. ASSUME NEW k \in 1..m, r[k].kind = "load", r[k].path = p, q \in Includes(r[k].rest)
      PROVE  Edge(s, c, d, p, q)
  <2>1. CASE k = m
    BY <1>2, <1>3, <1>4, <1>5, <2>1
  <2>2. CASE k # m
    <3>1. r[k] = s[k]
      BY <1>1, <2>2
    <3> QED
      BY <1>5, <3>1 DEF Edge
  <2> QED
    BY <2>1, <2>2
<1>6. ASSUME NEW k \in 1..(m - 1), r[k].path = p, r[k + 1].kind = "load", r[k + 1].path = q
      PROVE  Edge(s, c, d, p, q)
  <2>1. s[k].path = p
    BY <1>6
  <2>2. s[k + 1].kind = "load" /\ s[k + 1].path = q
    <3>1. CASE k + 1 = m
      BY <1>2, <1>6, <3>1
    <3>2. CASE k + 1 # m
      <4>1. k + 1 \in 1..(m - 1)
        BY <1>1, <3>2
      <4> QED
        BY <1>6, <4>1
    <3> QED
      BY <3>1, <3>2
  <2> QED
    BY <2>1, <2>2 DEF Edge
<1>7. CASE g.path = p /\ q \in Wanted(x)
  BY <1>2, <1>3, <1>4, <1>7
<1>8. CASE d[p] # Absent /\ q \in Includes(d[p])
  BY <1>8 DEF Edge
<1>9. \/ d[p] # Absent /\ q \in Includes(d[p])
      \/ \E k \in 1..m : r[k].kind = "load" /\ r[k].path = p /\ q \in Includes(r[k].rest)
      \/ \E k \in 1..(m - 1) : r[k].path = p /\ r[k + 1].kind = "load" /\ r[k + 1].path = q
      \/ g.path = p /\ q \in Wanted(x)
  BY DEF Edge, x
<1> QED
  BY <1>5, <1>6, <1>7, <1>8, <1>9

(* A shorter stack, or one whose top no longer loads, has fewer ways. *)
LEMMA FewerFrames ==
    ASSUME NEW s, Len(s) \in Nat, NEW r, Len(r) \in Nat, NEW j \in Nat, j <= Len(s), j <= Len(r),
           \A k \in 1..j : r[k] = s[k],
           \A k \in 1..Len(r) : k > j => r[k].kind = "save",
           NEW c, NEW d, NEW p \in Path, NEW q \in Path, Edge(r, NoCall, d, p, q)
    PROVE  Edge(s, c, d, p, q)
<1>1. CASE d[p] # Absent /\ q \in Includes(d[p])
  BY <1>1 DEF Edge
<1>2. ASSUME NEW k \in 1..Len(r), r[k].kind = "load", r[k].path = p, q \in Includes(r[k].rest)
      PROVE  Edge(s, c, d, p, q)
  <2>1. k \in 1..j /\ k \in 1..Len(s)
    BY <1>2
  <2> QED
    BY <1>2, <2>1 DEF Edge
<1>3. ASSUME NEW k \in 1..(Len(r) - 1), r[k].path = p, r[k + 1].kind = "load", r[k + 1].path = q
      PROVE  Edge(s, c, d, p, q)
  <2>1. k + 1 \in 1..Len(r)
    OBVIOUS
  <2>2. k + 1 \in 1..j
    BY <1>3, <2>1
  <2>3. k \in 1..j /\ k \in 1..(Len(s) - 1)
    BY <2>2
  <2> QED
    BY <1>3, <2>2, <2>3 DEF Edge
<1>4. q \notin Wanted(NoCall)
  BY NothingWanted
<1> QED
  BY <1>1, <1>2, <1>3, <1>4 DEF Edge

(* An activation that the call asked for, of a file on the disk, leads nowhere new. *)
LEMMA LoadEdges ==
    ASSUME NEW s \in Seq(Frame), NEW c, NEW d, NEW path \in Wanted(c), d[path] # Absent, NEW r,
           Len(r) = Len(s) + 1, \A k \in 1..Len(s) : r[k] = s[k],
           r[Len(s) + 1] = LoadFrame(path, d[path]),
           NEW p \in Path, NEW q \in Path, Edge(r, NoCall, d, p, q)
    PROVE  Edge(s, c, d, p, q)
<1> DEFINE m == Len(s)
<1>1. m \in Nat /\ (s # << >> => m # 0) /\ (m # 0 => s # << >>)
  BY EmptySeq, LenProperties
<1> HIDE DEF m
<1>2. CASE d[p] # Absent /\ q \in Includes(d[p])
  BY <1>2 DEF Edge
<1>3. ASSUME NEW k \in 1..(m + 1), r[k].kind = "load", r[k].path = p, q \in Includes(r[k].rest)
      PROVE  Edge(s, c, d, p, q)
  <2>1. CASE k = m + 1
    BY <1>2, <1>3, <2>1 DEF LoadFrame, m
  <2>2. CASE k # m + 1
    <3>1. k \in 1..Len(s)
      BY <1>1, <2>2 DEF m
    <3> QED
      BY <1>3, <3>1 DEF Edge
  <2> QED
    BY <2>1, <2>2
<1>4. ASSUME NEW k \in 1..m, r[k].path = p, r[k + 1].kind = "load", r[k + 1].path = q
      PROVE  Edge(s, c, d, p, q)
  <2>1. r[k] = s[k]
    BY DEF m
  <2>2. CASE k = m
    <3>1. q = path
      BY <1>4, <2>2 DEF LoadFrame, m
    <3>2. s # << >> /\ s[Len(s)].path = p
      BY <1>1, <1>4, <2>1, <2>2 DEF m
    <3> QED
      BY <3>1, <3>2 DEF Edge
  <2>3. CASE k # m
    <3>1. k \in 1..(Len(s) - 1) /\ k + 1 \in 1..Len(s)
      BY <1>1, <2>3 DEF m
    <3> QED
      BY <1>4, <2>1, <3>1 DEF Edge
  <2> QED
    BY <2>2, <2>3
<1>5. q \notin Wanted(NoCall)
  BY NothingWanted
<1>6. Len(r) = m + 1 /\ 1..(Len(r) - 1) = 1..m
  BY <1>1 DEF m
<1> QED
  BY <1>2, <1>3, <1>4, <1>5, <1>6 DEF Edge

-----------------------------------------------------------------------------
Nested(t) == Piled(stack[t], call[t]) /\ Acyclic(stack[t], call[t], disk)

LEMMA CallNests ==
    ASSUME IsFiniteSet(Path), Cardinality(Path) <= MaxDepth,
           ConsoleInv, NEW t \in Thread, Nested(t), process # "overflow", Call(t)
    PROVE  process' # "overflow" /\ Nested(t)' /\ Narrower(disk, disk')
<1> DEFINE s == stack[t]
           c == call[t].command
           h == Registry!Handler(c, call[t].args, TRUE)
           a == Registry!SeenArgs(c, h, Registry!PassedArgs(c, call[t].args))
<1>1. /\ stack \in [Thread -> Seq(Frame)] /\ s \in Seq(Frame) /\ call[t] \in CallTypes
      /\ DOMAIN call = Thread /\ disk \in [Path -> {Absent} \cup Seq(Line)]
  BY DEF ConsoleInv, ConsoleTypeOK, CallTypes
<1>2. /\ call[t] # NoCall /\ call'[t] = NoCall
      /\ (Registry!Invokes(h) /\ Effect(t, c, a)) \/ Skip
  BY <1>1 DEF Call
<1>3. Piled(s, call[t]) /\ Acyclic(s, call[t], disk)
  BY DEF Nested
<1>4. \A k \in 1..Len(s) : s[k].kind = "load"
  <2> SUFFICES ASSUME NEW k \in 1..Len(s) PROVE s[k].kind = "load"
    OBVIOUS
  <2>1. s # << >> /\ Len(s) \in Nat
    BY <1>1, LenProperties, EmptySeq
  <2>2. s[k].kind \in {"load", "save"}
    BY <1>1, ElementOfSeq, FrameKinds
  <2>3. CASE k = Len(s)
    BY <1>2, <1>3, <2>1, <2>2, <2>3 DEF Piled
  <2>4. CASE k # Len(s)
    <3>1. k \in 1..(Len(s) - 1)
      BY <2>1, <2>4
    <3> QED
      BY <1>3, <3>1 DEF Piled
  <2> QED
    BY <2>3, <2>4
<1>5. Len(s) \in Nat
  BY <1>1, LenProperties
<1>6. CASE UNCHANGED <<stack, disk>> /\ process' # "overflow"
  <2>1. \A p, q \in Path : Edge(s, NoCall, disk, p, q) => Edge(s, call[t], disk, p, q)
    BY NothingWanted DEF Edge
  <2>2. Acyclic(s, NoCall, disk)
    BY <1>3, <2>1, FewerEdges
  <2>3. Piled(s, NoCall)
    BY <1>3 DEF Piled
  <2> QED
    BY <1>2, <1>6, <2>2, <2>3 DEF Nested, Narrower
<1>7. CASE Effect(t, c, a) /\ ConfigSave(t, Target(a))
  <2> DEFINE path == Target(a)
             f == SaveFrame(path, commands)
             r == Append(stack[t], f)
  <2>1. CASE path \notin Path
    BY <1>6, <1>7, <2>1 DEF ConfigSave
  <2>2. CASE path \in Path
    <3>1. disk' = [disk EXCEPT ![path] = << >>] /\ stack' = Pushed(t, f) /\ process' = process
      BY <1>7, <2>2 DEF ConfigSave
    <3>2. f \in Frame /\ f.kind = "save"
      BY <2>2 DEF SaveFrame, Frame, ConsoleInv, ConsoleTypeOK
    <3>3. Narrower(disk, disk')
      <4>1. disk'[path] = << >> /\ \A p \in Path \ {path} : disk'[p] = disk[p]
        BY <1>1, <2>2, <3>1
      <4> HIDE DEF path
      <4> QED
        BY <4>1, NoIncludes DEF Narrower
    <3> HIDE DEF f, path
    <3>4. /\ stack' = [stack EXCEPT ![t] = r] /\ r \in Seq(Frame)
          /\ Len(r) = Len(stack[t]) + 1 /\ r[Len(stack[t]) + 1] = f
          /\ \A k \in 1..Len(stack[t]) : r[k] = stack[t][k]
      BY <1>1, <3>1, <3>2, Pushing
    <3> HIDE DEF r
    <3>5. stack'[t] = r
      BY <1>1, <3>4
    <3>6. ASSUME NEW k \in 1..Len(r), k > Len(s) PROVE r[k].kind = "save"
      <4>1. k = Len(s) + 1
        BY <1>5, <3>4, <3>6
      <4> QED
        BY <3>2, <3>4, <4>1
    <3>7. ASSUME NEW p \in Path, NEW q \in Path, Edge(r, NoCall, disk, p, q)
          PROVE  Edge(s, call[t], disk, p, q)
      <4>1. Len(r) \in Nat /\ Len(s) <= Len(s) /\ Len(s) <= Len(r)
        BY <1>5, <3>4
      <4> HIDE DEF s
      <4> QED
        BY <1>5, <3>4, <3>6, <3>7, <4>1, FewerFrames DEF s
    <3>8. Acyclic(r, NoCall, disk')
      BY <1>3, <3>3, <3>7, FewerEdges, NarrowerFiles
    <3>9. Piled(r, NoCall)
      BY <1>4, <1>5, <3>4 DEF Piled
    <3> QED
      BY <1>2, <3>1, <3>3, <3>5, <3>8, <3>9 DEF Nested
  <2> QED
    BY <2>1, <2>2
<1>8. CASE Registry!Invokes(h) /\ c = "config_load" /\ ConfigLoad(t, Target(a))
  <2>1. call[t].args # "" /\ Target(a) = ToLower[call[t].args]
    <3>1. call[t].args \in Word
      BY <1>1 DEF CallTypes
    <3> QED
      BY <1>8, <3>1, LoadArguments
  <2> DEFINE path == Target(a)
             f == LoadFrame(path, disk[path])
             r == Append(stack[t], f)
  <2>2. CASE path \notin Path \/ disk[path] = Absent
    BY <1>6, <1>8, <2>2 DEF ConfigLoad
  <2>3. CASE path \in Path /\ disk[path] # Absent
    <3>1. path \in Wanted(call[t])
      BY <1>8, <2>1, <2>3 DEF Wanted
    <3>2. Len(s) # MaxDepth
      <4> HIDE DEF path, s
      <4> QED
        BY <1>1, <1>3, <1>4, <3>1, FullStackIsCyclic
    <3>3. stack' = Pushed(t, f) /\ disk' = disk /\ process' = process
      BY <1>8, <2>3, <3>2 DEF ConfigLoad
    <3>4. f \in Frame /\ f.kind = "load"
      BY <1>1, <2>3 DEF LoadFrame, Frame
    <3>5. /\ stack' = [stack EXCEPT ![t] = r] /\ r \in Seq(Frame)
          /\ Len(r) = Len(stack[t]) + 1 /\ r[Len(stack[t]) + 1] = f
          /\ \A k \in 1..Len(stack[t]) : r[k] = stack[t][k]
      <4> HIDE DEF f
      <4> QED
        BY <1>1, <3>3, <3>4, Pushing
    <3> HIDE DEF r
    <3>6. stack'[t] = r
      BY <1>1, <3>5
    <3>7. ASSUME NEW p \in Path, NEW q \in Path, Edge(r, NoCall, disk, p, q)
          PROVE  Edge(s, call[t], disk, p, q)
      <4> HIDE DEF path
      <4> QED
        BY <1>1, <2>3, <3>1, <3>5, <3>7, LoadEdges
    <3>8. Acyclic(r, NoCall, disk)
      BY <1>3, <3>7, FewerEdges
    <3>9. Piled(r, NoCall)
      BY <1>4, <1>5, <3>5 DEF Piled
    <3> QED
      BY <1>2, <3>3, <3>6, <3>8, <3>9 DEF Nested, Narrower
  <2> QED
    BY <2>2, <2>3
<1>9. CASE Skip \/ Quit \/ (\E how \in {"terminated", "crashed"} : End(how)) \/ UNCHANGED <<stack, disk, process>>
  BY <1>6, <1>9 DEF Skip, Quit, End
<1> HIDE DEF a, c, h
<1> QED
  BY <1>2, <1>7, <1>8, <1>9 DEF Effect

LEMMA InterpretNests ==
    ASSUME IsFiniteSet(Path), Cardinality(Path) <= MaxDepth,
           ConsoleInv, NEW n, Stretch(commands, 0, n), NEW t \in Thread, Nested(t),
           process # "overflow", Interpret(t)
    PROVE  process' # "overflow" /\ Nested(t)' /\ Narrower(disk, disk')
<1> DEFINE s == stack[t]
<1>1. /\ stack \in [Thread -> Seq(Frame)] /\ s \in Seq(Frame) /\ DOMAIN call = Thread
      /\ disk \in [Path -> {Absent} \cup Seq(Line)]
  BY DEF ConsoleInv, ConsoleTypeOK
<1>2. Piled(s, call[t]) /\ Acyclic(s, call[t], disk)
  BY DEF Nested
<1>3. CASE Fetch(t)
  <2> DEFINE r == Append(Under(t), [Top(t) EXCEPT !.rest = Tail(@)])
             x == Resolved(Head(Top(t).rest))
  <2>1. /\ s # << >> /\ Top(t) = s[Len(s)] /\ Top(t).kind = "load" /\ Top(t).rest # << >>
        /\ stack' = Consumed(t) /\ call' = [call EXCEPT ![t] = x] /\ disk' = disk /\ process' = process
    BY <1>3 DEF Fetch, TopIs, Top
  <2>2. /\ stack' = [stack EXCEPT ![t] = r] /\ r \in Seq(Frame) /\ Len(r) = Len(s)
        /\ Len(s) \in Nat \ {0} /\ r[Len(s)] = [Top(t) EXCEPT !.rest = Tail(@)]
        /\ \A k \in 1..(Len(s) - 1) : r[k] = s[k]
        /\ \A k \in 1..Len(r) : r[k].kind = s[k].kind /\ r[k].path = s[k].path
    BY <1>1, <2>1, Consuming
  <2> HIDE DEF r
  <2>3. stack'[t] = r /\ call'[t] = x
    BY <1>1, <2>1, <2>2
  <2>4. ASSUME NEW p \in Path, NEW q \in Path, Edge(r, x, disk, p, q)
        PROVE  Edge(s, call[t], disk, p, q)
    BY <1>1, <2>1, <2>2, <2>4, ReadEdges
  <2>5. Acyclic(r, x, disk)
    BY <1>2, <2>4, FewerEdges
  <2>6. Piled(r, x)
    <3>1. r[Len(r)].kind = "load"
      BY <2>1, <2>2
    <3>2. \A k \in 1..(Len(r) - 1) : r[k].kind = "load"
      BY <1>2, <2>2 DEF Piled
    <3> QED
      BY <3>1, <3>2 DEF Piled
  <2> QED
    BY <2>1, <2>3, <2>5, <2>6 DEF Nested, Narrower
<1>4. CASE EndLoad(t) \/ EndSave(t)
  <2>1. /\ s # << >> /\ stack' = Popped(t) /\ disk' = disk /\ process' = process /\ call' = call
        /\ call[t] = NoCall
    BY <1>2, <1>4 DEF EndLoad, EndSave, TopIs, Top, Piled
  <2> DEFINE r == Under(t)
  <2>2. /\ stack' = [stack EXCEPT ![t] = r] /\ r \in Seq(Frame) /\ Len(r) = Len(s) - 1
        /\ Len(s) \in Nat \ {0} /\ \A k \in 1..(Len(s) - 1) : r[k] = s[k]
    BY <1>1, <2>1, Popping
  <2> HIDE DEF r
  <2>3. stack'[t] = r
    BY <1>1, <2>2
  <2>4. ASSUME NEW p \in Path, NEW q \in Path, Edge(r, NoCall, disk, p, q)
        PROVE  Edge(s, call[t], disk, p, q)
    <3>1. /\ Len(s) \in Nat /\ Len(r) \in Nat /\ Len(r) <= Len(s) /\ Len(r) <= Len(r)
          /\ (\A k \in 1..Len(r) : r[k] = s[k])
          /\ \A k \in 1..Len(r) : k > Len(r) => r[k].kind = "save"
      BY <2>2
    <3> HIDE DEF s
    <3> QED
      BY <2>4, <3>1, FewerFrames
  <2>5. Acyclic(r, NoCall, disk)
    BY <1>2, <2>4, FewerEdges
  <2>6. Piled(r, NoCall)
    <3>1. \A k \in 1..(Len(r) - 1) : k \in 1..(Len(s) - 1)
      BY <2>2
    <3> QED
      BY <1>2, <2>2, <3>1 DEF Piled
  <2> QED
    BY <2>1, <2>3, <2>5, <2>6 DEF Nested, Narrower
<1>5. CASE SaveLine(t)
  <2> DEFINE f == Top(t)
             c == Head(Top(t).rest)
             r == Append(Under(t), [Top(t) EXCEPT !.rest = Tail(@)])
  <2>1. /\ s # << >> /\ f = s[Len(s)] /\ f.kind = "save" /\ f.rest # << >> /\ stack' = Consumed(t)
        /\ disk' = [disk EXCEPT ![f.path] = Append(@, SavedLine(c))] /\ call' = call /\ process' = process
    BY <1>5 DEF SaveLine, TopIs, Top, Registry!SaveAllowed
  <2>2. f \in Frame /\ f.rest \in Seq(CommandName) /\ f.path \in Path
    BY <1>1, <2>1, TopFrame, FrameKinds
  <2>3. c \in CommandName
    BY <2>1, <2>2, HeadTailProperties
  <2>4. /\ stack' = [stack EXCEPT ![t] = r] /\ r \in Seq(Frame) /\ Len(r) = Len(s)
        /\ Len(s) \in Nat \ {0}
        /\ (\A k \in 1..(Len(s) - 1) : r[k] = s[k])
        /\ \A k \in 1..Len(r) : r[k].kind = s[k].kind /\ r[k].path = s[k].path
    BY <1>1, <2>1, Consuming
  <2> HIDE DEF r
  <2>5. disk[f.path] \in Seq(Line)
    <3>1. Len(s) \in 1..Len(s) /\ s[Len(s)].kind = "save"
      BY <2>1, <2>4
    <3> QED
      BY <2>1, <3>1 DEF ConsoleInv, SavesOpen
  <2>6. Narrower(disk, disk')
    <3>1. /\ disk'[f.path] = Append(disk[f.path], SavedLine(c))
          /\ \A p \in Path \ {f.path} : disk'[p] = disk[p]
      BY <1>1, <2>1, <2>2
    <3>2. disk[f.path] # Absent
      BY <2>5, LineAssumption
    <3> QED
      BY <2>3, <2>5, <3>1, <3>2, SavedIncludes DEF Narrower
  <2>7. stack'[t] = r /\ call'[t] = NoCall /\ call[t] = NoCall
    BY <1>1, <1>2, <2>1, <2>4 DEF Piled
  <2>8. ASSUME NEW p \in Path, NEW q \in Path, Edge(r, NoCall, disk, p, q)
        PROVE  Edge(s, call[t], disk, p, q)
    <3>1. ASSUME NEW k \in 1..Len(r), k > Len(s) - 1 PROVE r[k].kind = "save"
      <4>1. k = Len(s)
        BY <2>4, <3>1
      <4> QED
        BY <2>1, <2>4, <4>1
    <3>2. Len(s) \in Nat /\ Len(r) \in Nat /\ Len(s) - 1 \in Nat /\ Len(s) - 1 <= Len(s) /\ Len(s) - 1 <= Len(r)
      BY <2>4
    <3> DEFINE j == Len(s) - 1
    <3>3. /\ j \in Nat /\ j <= Len(s) /\ j <= Len(r) /\ (\A k \in 1..j : r[k] = s[k])
          /\ \A k \in 1..Len(r) : k > j => r[k].kind = "save"
      BY <2>4, <3>1, <3>2
    <3> HIDE DEF s, j
    <3> QED
      BY <2>8, <3>2, <3>3, FewerFrames
  <2>9. Acyclic(r, NoCall, disk')
    BY <1>2, <2>6, <2>8, FewerEdges, NarrowerFiles
  <2>10. Piled(r, NoCall)
    BY <1>2, <2>4 DEF Piled
  <2> QED
    BY <2>1, <2>6, <2>7, <2>9, <2>10 DEF Nested
<1>6. CASE Call(t)
  BY <1>6, CallNests
<1> QED
  BY <1>3, <1>4, <1>5, <1>6 DEF Interpret

Nesting == Registering /\ process # "overflow" /\ \A t \in Thread : Nested(t)

LEMMA NestingInit == ASSUME ConsoleInit, ~Cyclic(disk) PROVE Nesting
<1>1. Len(<< >>) = 0
  BY EmptySeq
<1>2. ASSUME NEW t \in Thread PROVE Nested(t)
  <2>1. stack[t] = << >> /\ call[t] = NoCall
    BY DEF ConsoleInit
  <2>2. Piled(<< >>, NoCall)
    BY <1>1 DEF Piled
  <2>3. \A p, q \in Path : Edge(<< >>, NoCall, disk, p, q) <=> disk[p] # Absent /\ q \in Includes(disk[p])
    BY <1>1 DEF Edge
  <2>4. ASSUME NEW S \in SUBSET Path, S # {}
        PROVE  \E p \in S : \A q \in S : ~Edge(<< >>, NoCall, disk, p, q)
    <3>1. PICK p \in S : disk[p] = Absent \/ Includes(disk[p]) \cap S = {}
      BY <2>4 DEF Cyclic
    <3> QED
      BY <2>3, <3>1
  <2> QED
    BY <2>1, <2>2, <2>4 DEF Nested, Acyclic
<1>3. process # "overflow"
  BY DEF ConsoleInit
<1> QED
  BY <1>2, <1>3, RegisteringInit DEF Nesting

LEMMA NestingStep ==
    ASSUME IsFiniteSet(Path), Cardinality(Path) <= MaxDepth, Nesting, [ConsoleNext]_consoleVars
    PROVE  Nesting'
<1>1. Registering' /\ ConsoleInv /\ Shape /\ process # "overflow" /\ \A t \in Thread : Nested(t)
  BY RegisteringStep, ShapeHolds DEF Nesting, Registering
<1>2. PICK n : Stretch(commands, 0, n)
  BY RegisteringStretch DEF Nesting
<1>3. CASE UNCHANGED <<disk, stack, call, process>>
  BY <1>1, <1>3 DEF Nesting, Nested
<1>4. ASSUME NEW t \in Thread, Interpret(t) PROVE Nesting'
  <2>1. process' # "overflow" /\ Nested(t)' /\ Narrower(disk, disk')
    BY <1>1, <1>2, <1>4, InterpretNests
  <2>2. ASSUME NEW u \in Thread \ {t} PROVE Nested(u)'
    <3>1. stack'[u] = stack[u] /\ call'[u] = call[u] /\ Nested(u)
      BY <1>1, <1>4, InterpretLeaves
    <3>2. Acyclic(stack[u], call[u], disk')
      BY <2>1, <3>1, NarrowerFiles DEF Nested
    <3> QED
      BY <3>1, <3>2 DEF Nested
  <2>3. \A u \in Thread : Nested(u)'
    BY <2>1, <2>2
  <2> QED
    BY <1>1, <2>1, <2>3 DEF Nesting
<1>5. ASSUME NEW t \in Thread, NEW line, Resolve(t, line) PROVE Nesting'
  <2>1. /\ Idle(t) /\ stack' = stack /\ disk' = disk /\ process' = process
        /\ call' = [call EXCEPT ![t] = Resolved(line)]
    BY <1>5 DEF Resolve
  <2>2. ASSUME NEW u \in Thread \ {t} PROVE Nested(u)'
    <3>1. call'[u] = call[u] /\ Nested(u)
      BY <1>1, <2>1 DEF Shape
    <3> QED
      BY <2>1, <3>1 DEF Nested
  <2>3. Nested(t)'
    <3>1. stack[t] = << >> /\ call[t] = NoCall /\ Len(<< >>) = 0 /\ Nested(t)
      BY <1>1, <2>1, EmptySeq DEF Idle
    <3>2. \A c : \A p, q \in Path : Edge(<< >>, c, disk, p, q) => Edge(<< >>, NoCall, disk, p, q)
      BY <3>1 DEF Edge
    <3>3. \A c : Acyclic(<< >>, c, disk)
      BY <3>1, <3>2, FewerEdges DEF Nested
    <3>4. \A c : Piled(<< >>, c)
      BY <3>1 DEF Piled
    <3> QED
      BY <2>1, <3>1, <3>3, <3>4 DEF Nested
  <2> QED
    BY <1>1, <2>1, <2>2, <2>3 DEF Nesting
<1> QED
  BY <1>3, <1>4, <1>5 DEF ConsoleNext, RevertFullscreen, DestroyCommands, Ended, consoleVars

(* With room for one activation per file: whatever is typed, saved over or loaded again, and  *)
(* in whatever order several threads do it, files that do not include one another in a circle *)
(* when the program begins never exhaust a thread's stack.                                    *)
THEOREM ConsoleOverflowOnlyFromCycle ==
    ASSUME IsFiniteSet(Path), Cardinality(Path) <= MaxDepth
    PROVE  ConsoleSpec => OverflowOnlyFromCycle
<1>1. ConsoleInit /\ ~Cyclic(disk) => Nesting
  BY NestingInit
<1>2. Nesting /\ [ConsoleNext]_consoleVars => Nesting'
  BY NestingStep
<1>3. Nesting => process # "overflow"
  BY DEF Nesting
<1> QED
  BY <1>1, <1>2, <1>3, PTL DEF ConsoleSpec, OverflowOnlyFromCycle
=============================================================================
