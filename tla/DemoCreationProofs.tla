------------------------- MODULE DemoCreationProofs -------------------------
(***************************************************************************)
(* What the Vulkan demo creates.  The shaders, for every set of texts and  *)
(* every order of edits, clearings, failures and kills: types, what an     *)
(* undisturbed worker makes its module from, and that the files and the    *)
(* worker implement CompiledCache.  The data of the other objects, for     *)
(* every machine, surface, model and order of the device's work: what is   *)
(* asked of a surface fits it, what frames draw with agrees, no command    *)
(* misses what it needs, and the model on the disk is what is drawn.       *)
(***************************************************************************)
EXTENDS ShaderCache, DemoData, FiniteSetTheorems, WellFoundedInduction, NaturalsInduction, TLAPS

(* What an undisturbed worker knows of the stored binary on its way.  Until the output is        *)
(* opened it is the one found at the beginning; after a compilation it is either the new one or, *)
(* if the text was rejected, still the old one.                                                  *)
OldKept == pc \in {"find", "compile", "output"} => binary[It] = before

NewOrOld ==
    pc \in {"written", "reopen"} =>
        \/ text \in Valid /\ binary[It] = text
        \/ text \notin Usable /\ binary[It] = before

Promises == SourceIsUsed /\ KeepsWorking

Undisturbed == ~disturbed => OldKept /\ NewOrOld

CacheInv == CacheTypeOK /\ Undisturbed /\ Promises

(* The two workers, first to last. *)
LEMMA StageOrder ==
    /\ Stages # << >> /\ Tail(Stages) # << >> /\ Tail(Tail(Stages)) = << >>
    /\ Head(Stages) \in Shader /\ Head(Tail(Stages)) \in Shader
    /\ Tail(<< >>) = << >>
BY DEF Stages, Shader

(* A running worker works for one of the shaders. *)
LEMMA ItIsShader == ASSUME CacheTypeOK, Busy PROVE It \in Shader
BY StageOrder DEF CacheTypeOK, Busy, It

(* The types hold at the beginning and after every step. *)
LEMMA TypeInit == ASSUME Init PROVE CacheTypeOK
<1>1. MaxEvents \in Nat
  BY ShaderAssumption DEF ShaderAssumption
<1>2. binary \in [Shader -> Content] /\ modules \in [Shader -> Content]
  BY DEF Init, Content
<1>3. events \in 0..MaxEvents
  BY <1>1 DEF Init
<1>4. Missing \in Content
  BY DEF Content
<1> QED
  BY <1>2, <1>3, <1>4 DEF Init, CacheTypeOK, Compiling, Busy

(* They are kept by every step. *)
LEMMA TypeStep == ASSUME CacheTypeOK, [Next]_vars PROVE CacheTypeOK'
<1>1. MaxEvents \in Nat /\ Valid \subseteq Version
  BY ShaderAssumption DEF ShaderAssumption
<1>2. Busy => It \in Shader
  BY ItIsShader
<1> USE <1>1, <1>2, StageOrder DEF CacheTypeOK, Content, Compiling, Busy, It
<1>3. CASE LoadShader
  BY <1>3 DEF LoadShader, files, keys
<1>4. CASE UseStored
  BY <1>4 DEF UseStored, Serves, CheckIfShaderChanged, files, keys, aux
<1>5. CASE NotStored
  BY <1>5 DEF NotStored, files, keys, worker, aux
<1>6. CASE Reopen
  BY <1>6 DEF Reopen, files, keys, aux
<1>7. CASE Accept
  BY <1>7 DEF Accept, files, keys, worker, aux
<1>8. CASE Reject
  BY <1>8 DEF Reject, files, keys, worker, aux
<1>9. CASE OpenOutput
  BY <1>9 DEF OpenOutput, keys, worker, aux
<1>10. CASE OpenOutputFails
  BY <1>10 DEF OpenOutputFails, files, keys, worker
<1>11. CASE WriteSome
  BY <1>11 DEF WriteSome, keys, worker, aux
<1>12. CASE WriteRest
  BY <1>12 DEF WriteRest, keys, worker, aux
<1>13. CASE WriteFails
  BY <1>13 DEF WriteFails, files, keys, worker
<1>14. CASE Compiled
  BY <1>14 DEF Compiled, files, keys, worker, aux
<1>15. CASE CompiledThrows
  BY <1>15 DEF CompiledThrows, Ends, files
<1>16. CASE CreateModule
  BY <1>16 DEF CreateModule, files, keys, worker, aux
<1>17. CASE CreateModuleFails
  BY <1>17 DEF CreateModuleFails, Ends, files
<1>18. CASE Start
  BY <1>18 DEF Start, files, worker, aux
<1>19. CASE RecreateSwapChain
  BY <1>19 DEF RecreateSwapChain, files, keys, worker, aux
<1>20. CASE Kill
  <2>1. events' \in 0..MaxEvents
    BY <1>20 DEF Kill, Occurs
  <2> QED
    BY <1>20, <2>1 DEF Kill, Ends, files
<1>21. ASSUME NEW s \in Shader, EditSource(s) PROVE CacheTypeOK'
  BY <1>21 DEF EditSource, Occurs, keys, worker, aux
<1>22. ASSUME NEW s \in Shader, ClearBinary(s) PROVE CacheTypeOK'
  <2>1. binary' \in [Shader -> Content]
    BY <1>22 DEF ClearBinary
  <2>2. events' \in 0..MaxEvents
    BY <1>22 DEF ClearBinary, Occurs
  <2>3. UNCHANGED <<source, force, debug, pc, todo, text, code, modules, before>>
    BY <1>22 DEF ClearBinary, keys, worker
  <2>4. pc = "writing" => binary'[It] = binary[It]
    BY <1>22 DEF ClearBinary
  <2>5. disturbed' \in BOOLEAN
    BY <1>22 DEF ClearBinary
  <2> QED
    BY <2>1, <2>2, <2>3, <2>4, <2>5
<1>23. CASE UNCHANGED vars
  BY <1>23 DEF vars, files, keys, worker, aux
<1> QED
  BY <1>3, <1>4, <1>5, <1>6, <1>7, <1>8, <1>9, <1>10, <1>11, <1>12, <1>13, <1>14, <1>15, <1>16,
     <1>17, <1>18, <1>19, <1>20, <1>21, <1>22, <1>23
     DEF Next, Program, User, LoadBinaryShader, CompileShader, OutputSpvBin

(* A theorem about types alone: the key, the worker and the files always fit together. *)
THEOREM ShaderTypes == Spec => []CacheTypeOK
<1>1. Init => CacheTypeOK
  BY TypeInit
<1>2. CacheTypeOK /\ [Next]_vars => CacheTypeOK'
  BY TypeStep
<1> QED
  BY <1>1, <1>2, PTL DEF Spec

(* No text is mistaken for a file that is missing or damaged. *)
LEMMA TextsAreWhole == ASSUME NEW v \in Valid PROVE v \notin {Missing, Nothing, Torn, NoText}
BY ShaderAssumption DEF ShaderAssumption

(* The promises hold when the worker begins, and are kept by every step. *)
LEMMA PromisesInit == ASSUME Init PROVE Undisturbed /\ Promises
BY DEF Init, Undisturbed, OldKept, NewOrOld, Promises, SourceIsUsed, KeepsWorking

LEMMA PromisesStep ==
    ASSUME CacheInv, [Next]_vars
    PROVE  Undisturbed' /\ Promises'
<1> USE DEF Undisturbed, Promises, OldKept, NewOrOld, SourceIsUsed, KeepsWorking
<1>1. CASE LoadShader
  BY <1>1, ItIsShader, TextsAreWhole
     DEF CacheInv, CacheTypeOK, Busy, Compiling, LoadShader, files, It
<1>2. CASE UseStored
  BY <1>2, ItIsShader, TextsAreWhole
     DEF CacheInv, CacheTypeOK, Busy, Compiling, UseStored, Serves, CheckIfShaderChanged, files, keys, aux, It
<1>3. CASE NotStored
  BY <1>3, ItIsShader, TextsAreWhole
     DEF CacheInv, CacheTypeOK, Busy, Compiling, NotStored, Serves, Usable,
              files, keys, worker, aux, It
<1>4. CASE Reopen
  BY <1>4, ItIsShader, TextsAreWhole
     DEF CacheInv, CacheTypeOK, Busy, Compiling, Reopen, files, keys, aux, It
<1>5. CASE Accept
  BY <1>5, ItIsShader, TextsAreWhole
     DEF CacheInv, CacheTypeOK, Busy, Compiling, Accept, files, keys, worker, aux, It
<1>6. CASE Reject
  BY <1>6, ItIsShader, TextsAreWhole
     DEF CacheInv, CacheTypeOK, Busy, Compiling, Reject, files, keys, worker, aux, It, Usable
<1>7. CASE OpenOutput
  BY <1>7, ItIsShader, TextsAreWhole
     DEF CacheInv, CacheTypeOK, Busy, Compiling, OpenOutput, keys, worker, aux
<1>8. CASE OpenOutputFails
  BY <1>8, ItIsShader, TextsAreWhole DEF CacheInv, CacheTypeOK, Busy, Compiling, OpenOutputFails
<1>9. CASE WriteSome
  BY <1>9, ItIsShader, TextsAreWhole
     DEF CacheInv, CacheTypeOK, Busy, Compiling, WriteSome, keys, worker, aux
<1>10. CASE WriteRest
  BY <1>10, ItIsShader, TextsAreWhole
     DEF CacheInv, CacheTypeOK, Busy, Compiling, WriteRest, keys, worker, aux, It
<1>11. CASE WriteFails
  BY <1>11, ItIsShader, TextsAreWhole DEF CacheInv, CacheTypeOK, Busy, Compiling, WriteFails
<1>12. CASE Compiled
  BY <1>12, ItIsShader, TextsAreWhole
     DEF CacheInv, CacheTypeOK, Busy, Compiling, Compiled, files, keys, worker, aux, It
<1>13. CASE CompiledThrows
  BY <1>13, ItIsShader, TextsAreWhole
     DEF CacheInv, CacheTypeOK, Busy, Compiling, CompiledThrows, Ends
<1>14. CASE CreateModule
  BY <1>14, ItIsShader, TextsAreWhole DEF CacheInv, CacheTypeOK, Busy, Compiling, CreateModule
<1>15. CASE CreateModuleFails
  BY <1>15, ItIsShader, TextsAreWhole
     DEF CacheInv, CacheTypeOK, Busy, Compiling, CreateModuleFails, Ends
<1>16. CASE Start
  BY <1>16, ItIsShader, TextsAreWhole DEF CacheInv, CacheTypeOK, Busy, Compiling, Start
<1>17. CASE RecreateSwapChain
  BY <1>17, ItIsShader, TextsAreWhole DEF CacheInv, CacheTypeOK, Busy, Compiling, RecreateSwapChain
<1>18. CASE Kill
  BY <1>18, ItIsShader, TextsAreWhole DEF CacheInv, CacheTypeOK, Busy, Compiling, Kill, Ends
<1>19. ASSUME NEW s \in Shader, EditSource(s) PROVE Undisturbed' /\ Promises'
  BY <1>19, ItIsShader DEF CacheInv, CacheTypeOK, Busy, Compiling, EditSource, keys, worker, aux, It
<1>20. ASSUME NEW s \in Shader, ClearBinary(s) PROVE Undisturbed' /\ Promises'
  BY <1>20, ItIsShader DEF CacheInv, CacheTypeOK, Busy, Compiling, ClearBinary, keys, worker, It
<1>21. CASE UNCHANGED vars
  BY <1>21 DEF CacheInv, vars, files, keys, worker, aux, It
<1> QED
  BY <1>1, <1>2, <1>3, <1>4, <1>5, <1>6, <1>7, <1>8, <1>9, <1>10, <1>11, <1>12, <1>13, <1>14,
     <1>15, <1>16, <1>17, <1>18, <1>19, <1>20, <1>21
     DEF Next, Program, User, LoadBinaryShader, CompileShader, OutputSpvBin

(* Types and promises together always hold. *)
LEMMA Invariance == Spec => []CacheInv
<1>1. Init => CacheInv
  BY TypeInit, PromisesInit DEF CacheInv
<1>2. CacheInv /\ [Next]_vars => CacheInv'
  BY TypeStep, PromisesStep DEF CacheInv
<1> QED
  BY <1>1, <1>2, PTL DEF Spec

(* An undisturbed worker makes its module from a good source as it is: with the key shrec, and *)
(* without a binary or with an empty one.                                                      *)
THEOREM ShaderSourceIsUsed == Spec => []SourceIsUsed
BY Invariance, PTL DEF CacheInv, Promises

(* Whatever becomes of a compilation, an undisturbed worker that had a binary has code. *)
THEOREM ShaderKeepsWorking == Spec => []KeepsWorking
BY Invariance, PTL DEF CacheInv, Promises

-----------------------------------------------------------------------------
(* The files implement the cache. *)
LEMMA CacheStarts == ASSUME Init PROVE Cache!CacheInit
<1>1. Kept = binary
  BY DEF Init, Kept
<1>2. Used = [s \in Shader |-> Missing]
  BY DEF Init, Used
<1> QED
  BY <1>1, <1>2 DEF Init, Cache!CacheInit

(* What the cache holds and what is used, read off the state of the worker. *)
LEMMA NotWriting == ASSUME CacheTypeOK, pc # "writing" PROVE Kept = binary
BY DEF CacheTypeOK, Kept

LEMMA NotCreating == ASSUME CacheTypeOK, pc # "create" PROVE Used = modules
BY DEF CacheTypeOK, Used

LEMMA WhileWriting == ASSUME CacheTypeOK, pc = "writing" PROVE Kept = [binary EXCEPT ![It] = text]
BY ItIsShader DEF CacheTypeOK, Kept, Busy

LEMMA WhileCreating == ASSUME CacheTypeOK, pc = "create" PROVE Used = [modules EXCEPT ![It] = code]
BY ItIsShader DEF CacheTypeOK, Used, Busy

(* Every step is one of the abstract cache, or none. *)
LEMMA CacheSteps ==
    ASSUME CacheTypeOK, CacheTypeOK', [Next]_vars
    PROVE  [Cache!CacheNext]_Cache!cache
<1>1. Busy => It \in Shader
  BY ItIsShader
<1>2. pc # "writing" => Kept = binary
  BY NotWriting
<1>3. pc # "create" => Used = modules
  BY NotCreating
<1>4. (pc # "writing" => Kept = binary)'
  BY NotWriting DEF CacheTypeOK, Kept
<1>5. (pc # "create" => Used = modules)'
  BY DEF CacheTypeOK, Used
<1>6. (pc = "writing" => Kept = [binary EXCEPT ![It] = text])'
  BY StageOrder DEF CacheTypeOK, Kept, Busy, It
<1>7. (pc = "create" => Used = [modules EXCEPT ![It] = code])'
  BY StageOrder DEF CacheTypeOK, Used, Busy, It
<1>8. pc = "writing" => Kept = [binary EXCEPT ![It] = text]
  BY WhileWriting
<1>9. pc = "create" => Used = [modules EXCEPT ![It] = code]
  BY WhileCreating
<1>10. CASE LoadShader
  BY <1>1, <1>2, <1>3, <1>4, <1>5, <1>6, <1>7, <1>8, <1>9, <1>10
     DEF Cache!cache, Cache!CacheNext, Cache!Want, CacheTypeOK, Busy, Compiling, LoadShader, files
<1>11. CASE UseStored
  BY <1>1, <1>2, <1>3, <1>4, <1>5, <1>6, <1>7, <1>8, <1>9, <1>11
     DEF Cache!cache, Cache!CacheNext, Cache!Use, CacheTypeOK, Busy, Compiling, UseStored, CheckIfShaderChanged, files, It
<1>12. CASE NotStored
  BY <1>1, <1>2, <1>3, <1>4, <1>5, <1>6, <1>7, <1>8, <1>9, <1>12
     DEF Cache!cache, Cache!CacheNext, Cache!Use, CacheTypeOK, Busy, Compiling, NotStored, files, worker, It
<1>13. CASE Reopen
  BY <1>1, <1>2, <1>3, <1>4, <1>5, <1>6, <1>7, <1>8, <1>9, <1>13
     DEF Cache!cache, Cache!CacheNext, Cache!Use, CacheTypeOK, Busy, Compiling, Reopen, files, It
<1>14. CASE Accept
  BY <1>1, <1>2, <1>3, <1>4, <1>5, <1>6, <1>7, <1>8, <1>9, <1>14
     DEF Cache!cache, CacheTypeOK, Busy, Compiling, Accept, files, worker, It
<1>15. CASE Reject
  BY <1>1, <1>2, <1>3, <1>4, <1>5, <1>6, <1>7, <1>8, <1>9, <1>15
     DEF Cache!cache, CacheTypeOK, Busy, Compiling, Reject, files, worker, It
<1>16. CASE OpenOutput
  BY <1>1, <1>2, <1>3, <1>4, <1>5, <1>6, <1>7, <1>8, <1>9, <1>16
     DEF Cache!cache, Cache!CacheNext, Cache!Put, CacheTypeOK, Busy, Compiling, OpenOutput, worker, It
<1>17. CASE OpenOutputFails
  BY <1>1, <1>2, <1>3, <1>4, <1>5, <1>6, <1>7, <1>8, <1>9, <1>17
     DEF Cache!cache, Cache!CacheNext, Cache!Want, CacheTypeOK, Busy, Compiling, OpenOutputFails, files, worker, It
<1>18. CASE WriteSome
  <2>1. binary' = [binary EXCEPT ![It] = Torn] /\ pc = "writing" /\ It' = It /\ It \in Shader
    BY <1>1, <1>18 DEF WriteSome, CacheTypeOK, Busy, It
  <2>2. Kept' = Kept
    BY <1>6, <1>8, <1>18, <2>1 DEF WriteSome, worker, CacheTypeOK
  <2>3. Used' = Used /\ UNCHANGED <<text, events>>
    BY <1>3, <1>5, <1>18 DEF WriteSome, worker
  <2> QED
    BY <2>2, <2>3 DEF Cache!cache
<1>19. CASE WriteRest
  BY <1>1, <1>2, <1>3, <1>4, <1>5, <1>6, <1>7, <1>8, <1>9, <1>19
     DEF Cache!cache, CacheTypeOK, Busy, Compiling, WriteRest, worker, It
<1>20. CASE WriteFails
  <2>1. pc = "writing" /\ pc' = "written" /\ It \in Shader /\ binary[It] \in {Nothing, Torn}
    BY <1>1, <1>20 DEF WriteFails, CacheTypeOK, Busy
  <2>2. Kept = [binary EXCEPT ![It] = text] /\ Kept' = binary
    BY <1>4, <1>8, <1>20, <2>1 DEF WriteFails, files
  <2>3. Kept[It] = text /\ Kept' = [Kept EXCEPT ![It] = binary[It]]
    BY <2>1, <2>2 DEF CacheTypeOK
  <2>4. Used' = Used /\ text' = text /\ events' = events + 1
    BY <1>3, <1>5, <1>20, <2>1 DEF WriteFails, worker
  <2>5. Cache!Spoil(It)
    BY <2>1, <2>3, <2>4 DEF Cache!Spoil, Cache!Trouble
  <2> QED
    BY <2>1, <2>5 DEF Cache!CacheNext
<1>21. CASE Compiled
  BY <1>1, <1>2, <1>3, <1>4, <1>5, <1>6, <1>7, <1>8, <1>9, <1>21
     DEF Cache!cache, CacheTypeOK, Busy, Compiling, Compiled, files, worker, It
<1>22. CASE CompiledThrows
  BY <1>1, <1>2, <1>3, <1>4, <1>5, <1>6, <1>7, <1>8, <1>9, <1>22
     DEF Cache!cache, Cache!CacheNext, Cache!Stop, CacheTypeOK, Busy, Compiling, CompiledThrows, Ends, files
<1>23. CASE CreateModule
  BY <1>1, <1>2, <1>3, <1>4, <1>5, <1>6, <1>7, <1>8, <1>9, <1>23
     DEF Cache!cache, CacheTypeOK, Busy, Compiling, CreateModule, files, worker
<1>24. CASE CreateModuleFails
  BY <1>1, <1>2, <1>3, <1>4, <1>5, <1>6, <1>7, <1>8, <1>9, <1>24
     DEF Cache!cache, Cache!CacheNext, Cache!Stop, CacheTypeOK, Busy, Compiling, CreateModuleFails, Ends, files
<1>25. CASE Start
  BY <1>1, <1>2, <1>3, <1>4, <1>5, <1>6, <1>7, <1>8, <1>9, <1>25
     DEF Cache!cache, CacheTypeOK, Busy, Compiling, Start, files, worker, It
<1>26. CASE RecreateSwapChain
  BY <1>1, <1>2, <1>3, <1>4, <1>5, <1>6, <1>7, <1>8, <1>9, <1>26
     DEF Cache!cache, CacheTypeOK, Busy, Compiling, RecreateSwapChain, files, worker
<1>27. CASE Kill
  <2>1. Used' = [s \in Shader |-> Missing] /\ Kept' = binary /\ events' = events + 1
    BY <1>4, <1>5, <1>27 DEF Kill, Occurs, Ends, files
  <2>2. CASE pc # "writing"
    BY <1>2, <2>1, <2>2 DEF Cache!CacheNext, Cache!Stop, Cache!Trouble
  <2>3. CASE pc = "writing"
    <3>1. It \in Shader /\ binary[It] \in {Nothing, Torn}
      BY <1>1, <2>3 DEF CacheTypeOK, Busy
    <3>2. Kept[It] = text /\ Kept' = [Kept EXCEPT ![It] = binary[It]]
      BY <1>8, <2>1, <2>3, <3>1 DEF CacheTypeOK
    <3> QED
      BY <2>1, <3>1, <3>2 DEF Cache!CacheNext, Cache!Stop, Cache!Trouble
  <2> QED
    BY <2>2, <2>3
<1>28. ASSUME NEW s \in Shader, EditSource(s) PROVE [Cache!CacheNext]_Cache!cache
  BY <1>1, <1>2, <1>3, <1>4, <1>5, <1>6, <1>7, <1>8, <1>9, <1>28
     DEF Cache!cache, Cache!CacheNext, Cache!Want, CacheTypeOK, Busy, Compiling, EditSource, Occurs, worker, It
<1>29. ASSUME NEW s \in Shader, ClearBinary(s) PROVE [Cache!CacheNext]_Cache!cache
  <2>1. binary' = [binary EXCEPT ![s] = Missing] /\ ~(pc = "writing" /\ s = It)
    BY <1>29 DEF ClearBinary
  <2>2. It' = It /\ UNCHANGED <<pc, text, code, modules>> /\ events' = events + 1
    BY <1>29 DEF ClearBinary, Occurs, worker, It
  <2>3. Kept' = [Kept EXCEPT ![s] = Missing]
    BY <1>2, <1>4, <1>6, <1>8, <2>1, <2>2 DEF CacheTypeOK
  <2>4. Used' = Used
    BY <1>3, <1>5, <1>7, <1>9, <2>2
  <2>5. Cache!Drop(s)
    BY <2>2, <2>3, <2>4 DEF Cache!Drop, Cache!Trouble
  <2> QED
    BY <2>5 DEF Cache!CacheNext
<1>30. CASE UNCHANGED vars
  BY <1>30 DEF vars, files, worker, Kept, Used, It, Cache!cache
<1> QED
  BY <1>10, <1>11, <1>12, <1>13, <1>14, <1>15, <1>16, <1>17, <1>18, <1>19, <1>20, <1>21, <1>22, <1>23, <1>24, <1>25, <1>26, <1>27, <1>28, <1>29, <1>30
     DEF Next, Program, User, LoadBinaryShader, CompileShader, OutputSpvBin

(* The workers and their files implement the cache, for every set of texts. *)
THEOREM ShaderRefinesCache == Spec => RefinesCache
<1>1. Init => Cache!CacheInit
  BY CacheStarts
<1>2. CacheTypeOK /\ CacheTypeOK' /\ [Next]_vars => [Cache!CacheNext]_Cache!cache
  BY CacheSteps
<1> QED
  BY <1>1, <1>2, ShaderTypes, PTL DEF Spec, RefinesCache, Cache!CacheSpec

-----------------------------------------------------------------------------
(* Where the create functions that matter stand in the two lists, 0 where  *)
(* a list does not have them; and how many of its operations one has done. *)
OfChain   == {"swapchain", "renderPass", "pipeline", "depth", "framebuffers", "commandBuffers"}
OfStart   == {"texture", "model", "vertexBuffer", "indexBuffer", "uniformBuffer"}
Matters   == OfChain \union OfStart

Spot(c, o) ==
    IF c = InitializeSteps
    THEN CASE o = "swapchain" -> 6 [] o = "renderPass" -> 8 [] o = "pipeline" -> 10
           [] o = "depth" -> 12 [] o = "framebuffers" -> 13 [] o = "texture" -> 14
           [] o = "model" -> 17 [] o = "vertexBuffer" -> 18 [] o = "indexBuffer" -> 19
           [] o = "uniformBuffer" -> 20 [] o = "commandBuffers" -> 23 [] OTHER -> 0
    ELSE CASE o = "swapchain" -> 1 [] o = "renderPass" -> 3 [] o = "pipeline" -> 4
           [] o = "depth" -> 5 [] o = "framebuffers" -> 6 [] o = "commandBuffers" -> 7
           [] OTHER -> 0

All == 10
Reach(c, p, d, o) == IF Spot(c, o) < p THEN All ELSE IF Spot(c, o) = p THEN d ELSE 0
Progress(o) == Reach(calls, at, done, o)

Placed == /\ calls \in {InitializeSteps, RecreateSteps} /\ at \in 1..(Len(calls) + 1)
          /\ IF at \in DOMAIN calls THEN done \in 0..(Len(Work(Now)) - 1) ELSE done = 0

(* The two lists of create functions. *)
LEMMA Lengths == /\ Len(InitializeSteps) = 24 /\ DOMAIN InitializeSteps = 1..24
                 /\ Len(RecreateSteps) = 7 /\ DOMAIN RecreateSteps = 1..7
                 /\ InitializeSteps # RecreateSteps
BY DEF InitializeSteps, RecreateSteps

(* The operations of each function, and how many they are. *)
LEMMA Worked ==
    ASSUME NEW o
    PROVE  /\ o = "depth" => Work(o) = DepthWork
           /\ o = "texture" => Work(o) = TextureWork
           /\ o \in {"vertexBuffer", "indexBuffer"} => Work(o) = BufferWork
           /\ o \notin {"depth", "texture", "vertexBuffer", "indexBuffer"} => Work(o) = <<"whole">>
BY DEF Work

LEMMA WorkLengths == Len(DepthWork) = 3 /\ Len(TextureWork) = 9 /\ Len(BufferWork) = 5
BY DEF DepthWork, TextureWork, BufferWork

(* Spot gives the place of a function in its list. *)
LEMMA InitSpots ==
    ASSUME NEW a \in 1..24, NEW o \in Matters
    PROVE  InitializeSteps[a] = o <=> Spot(InitializeSteps, o) = a
<1>1. \/ a = 1 \/ a = 2 \/ a = 3 \/ a = 4 \/ a = 5 \/ a = 6 \/ a = 7 \/ a = 8
      \/ a = 9 \/ a = 10 \/ a = 11 \/ a = 12 \/ a = 13 \/ a = 14 \/ a = 15 \/ a = 16
      \/ a = 17 \/ a = 18 \/ a = 19 \/ a = 20 \/ a = 21 \/ a = 22 \/ a = 23 \/ a = 24
  OBVIOUS
<1>2. o \in {"swapchain", "renderPass", "pipeline", "depth", "framebuffers", "commandBuffers",
             "texture", "model", "vertexBuffer", "indexBuffer", "uniformBuffer"}
  BY DEF Matters, OfChain, OfStart
<1> QED
  BY <1>1, <1>2 DEF InitializeSteps, Spot

LEMMA AgainSpots ==
    ASSUME NEW a \in 1..7, NEW o \in Matters
    PROVE  RecreateSteps[a] = o <=> Spot(RecreateSteps, o) = a
<1>1. a = 1 \/ a = 2 \/ a = 3 \/ a = 4 \/ a = 5 \/ a = 6 \/ a = 7
  OBVIOUS
<1>2. o \in {"swapchain", "renderPass", "pipeline", "depth", "framebuffers", "commandBuffers",
             "texture", "model", "vertexBuffer", "indexBuffer", "uniformBuffer"}
  BY DEF Matters, OfChain, OfStart
<1> QED
  BY <1>1, <1>2, Lengths DEF RecreateSteps, Spot

(* What the bounds of the place say. *)
LEMMA Bounds ==
    ASSUME Placed
    PROVE  /\ calls \in {InitializeSteps, RecreateSteps} /\ Len(calls) \in {7, 24}
           /\ DOMAIN calls = 1..Len(calls)
           /\ at \in Nat /\ at >= 1 /\ at <= Len(calls) + 1
           /\ at \in DOMAIN calls <=> at <= Len(calls)
<1>1. calls \in {InitializeSteps, RecreateSteps} /\ at \in 1..(Len(calls) + 1)
  BY DEF Placed
<1>2. Len(calls) \in {7, 24} /\ DOMAIN calls = 1..Len(calls)
  BY <1>1, Lengths
<1> QED
  BY SMTT(30), <1>1, <1>2

(* The running function is the one whose place has been reached. *)
LEMMA NowIs ==
    ASSUME Placed, at \in DOMAIN calls, NEW o \in Matters
    PROVE  Now = o <=> Spot(calls, o) = at
<1>1. CASE calls = InitializeSteps
  <2>1. at \in 1..24
    BY <1>1, Lengths
  <2> QED
    BY <1>1, <2>1, InitSpots DEF Now
<1>2. CASE calls = RecreateSteps
  <2>1. at \in 1..7
    BY <1>2, Lengths
  <2> QED
    BY <1>2, <2>1, AgainSpots DEF Now
<1> QED
  BY <1>1, <1>2, Bounds

LEMMA SpotNumbers ==
    ASSUME NEW c, NEW o
    PROVE  Spot(c, o) \in 0..23 /\ (c # InitializeSteps => Spot(c, o) \in 0..7)
BY DEF Spot

(* The running function has an operation left. *)
LEMMA OpsLeft ==
    ASSUME Placed, at \in DOMAIN calls
    PROVE  /\ Len(Work(Now)) \in {1, 3, 5, 9} /\ done \in 0..8 /\ done + 1 <= Len(Work(Now))
           /\ at \in Nat /\ at <= Len(calls) /\ Len(calls) \in {7, 24}
<1>1. Len(Work(Now)) \in {1, 3, 5, 9}
  BY Worked, WorkLengths
<1>2. done \in 0..(Len(Work(Now)) - 1)
  BY DEF Placed
<1>3. done \in 0..8 /\ done + 1 <= Len(Work(Now))
  <2> DEFINE n == Len(Work(Now))
  <2>1. n \in {1, 3, 5, 9} /\ done \in 0..(n - 1)
    BY <1>1, <1>2
  <2> HIDE DEF n
  <2>2. done \in 0..8 /\ done + 1 <= n
    BY ONLY <2>1
  <2> QED
    BY <2>2 DEF n
<1> QED
  BY <1>1, <1>3, Bounds

(* Only the running function is between its first and its last operation. *)
LEMMA ProgressOf ==
    ASSUME Placed, at \in DOMAIN calls, NEW o \in Matters
    PROVE  /\ Now = o => Progress(o) = done
           /\ Progress(o) \notin {0, All} => Now = o
           /\ Progress(o) \in 0..All
<1>1. at \in Nat /\ done \in 0..8 /\ (Now = o <=> Spot(calls, o) = at)
  BY Bounds, OpsLeft, NowIs
<1>2. Spot(calls, o) \in Nat
  BY SpotNumbers
<1> QED
  <2>1. Progress(o) = IF Spot(calls, o) < at THEN All ELSE IF Spot(calls, o) = at THEN done ELSE 0
    BY DEF Progress, Reach
  <2> QED
    BY <1>1, <1>2, <2>1 DEF All

(* On to the next operation: only the progress of the running function changes. *)
LEMMA Forwarded ==
    ASSUME Placed, Creating, Forward, NEW o \in Matters
    PROVE  Progress(o)' = IF Now = o THEN (IF done + 1 = Len(Work(o)) THEN All ELSE done + 1)
                          ELSE Progress(o)
<1>1. at \in DOMAIN calls /\ at \in Nat /\ calls' = calls
  BY Bounds DEF Creating, Forward
<1>2. done \in 0..8 /\ (Now = o <=> Spot(calls, o) = at)
  BY <1>1, OpsLeft, NowIs
<1>2a. Spot(calls, o) \in Nat
  BY SpotNumbers
<1>3. CASE done + 1 = Len(Work(Now))
  <2>1. at' = at + 1 /\ done' = 0
    BY <1>3 DEF Forward
  <2> QED
    BY <1>1, <1>2, <1>2a, <1>3, <2>1 DEF Progress, Reach
<1>4. CASE done + 1 # Len(Work(Now))
  <2>1. at' = at /\ done' = done + 1
    BY <1>4 DEF Forward
  <2> QED
    BY <1>1, <1>2, <1>2a, <1>4, <2>1 DEF Progress, Reach
<1> QED
  BY <1>3, <1>4

(* While the place stays, so does the progress of every function. *)
LEMMA Stayed ==
    ASSUME UNCHANGED <<calls, at, done>>, NEW o
    PROVE  Progress(o)' = Progress(o)
BY DEF Progress, Reach

(* A recreation begins the functions of the swap chain anew, and leaves the others as they are. *)
LEMMA Restarted ==
    ASSUME Recreate, NEW o \in Matters
    PROVE  Progress(o)' = IF o \in OfChain THEN 0 ELSE All
BY Lengths DEF Recreate, Progress, Reach, Spot, Matters, OfChain, OfStart, All

(* When frames can be drawn every function is through. *)
LEMMA AllThrough ==
    ASSUME Placed, Ready, NEW o \in Matters
    PROVE  Progress(o) = All
<1>1. /\ \/ calls = InitializeSteps /\ Len(calls) = 24
         \/ calls = RecreateSteps /\ Len(calls) = 7
      /\ at \in Nat /\ at > Len(calls)
  <2>1. calls \in {InitializeSteps, RecreateSteps} /\ at \in Nat
    BY Bounds
  <2>2. at > Len(calls)
    BY DEF Ready
  <2> QED
    BY <2>1, <2>2, Lengths
<1>2. Spot(calls, o) < at
  <2>1. CASE calls = InitializeSteps /\ Len(calls) = 24
    <3>1. Spot(calls, o) \in 0..23
      BY SpotNumbers
    <3> QED
      BY <1>1, <2>1, <3>1
  <2>2. CASE calls = RecreateSteps /\ Len(calls) = 7
    <3>1. Spot(calls, o) \in 0..7
      BY <2>2, SpotNumbers, Lengths
    <3> QED
      BY <1>1, <2>2, <3>1
  <2> QED
    BY <1>1, <2>1, <2>2
<1> QED
  BY <1>2 DEF Progress, Reach

(* What is done before and what after the running function. *)
LEMMA Ordered ==
    ASSUME Placed, at \in DOMAIN calls
    PROVE  /\ Now = "swapchain" => \A o \in OfChain \ {"swapchain"} : Progress(o) = 0
           /\ Now = "renderPass" => Progress("swapchain") = All
           /\ Now = "pipeline" => Progress("swapchain") = All
           /\ Now = "depth" => Progress("swapchain") = All /\ Progress("framebuffers") = 0
           /\ Now = "framebuffers" => Progress("depth") = All
           /\ Now = "model" => \A o \in {"vertexBuffer", "indexBuffer", "commandBuffers"} : Progress(o) = 0
           /\ Now \in {"vertexBuffer", "indexBuffer", "commandBuffers"} => Progress("model") = All
<1>1. \A o \in Matters : Now = o <=> Spot(calls, o) = at
  BY NowIs
<1>2. at \in Nat /\ at >= 1 /\ calls \in {InitializeSteps, RecreateSteps}
  BY Lengths DEF Placed
<1>3. Matters = {"swapchain", "renderPass", "pipeline", "depth", "framebuffers", "commandBuffers",
             "texture", "model", "vertexBuffer", "indexBuffer", "uniformBuffer"}
  BY DEF Matters, OfChain, OfStart
<1> QED
  BY <1>1, <1>2, <1>3, Lengths DEF OfChain, Progress, Reach, Spot, All

(* Every function has a first operation. *)
LEMMA FirstOf == ASSUME NEW o PROVE 0 \in 0..(Len(Work(o)) - 1)
<1> DEFINE n == Len(Work(o))
<1>1. n \in {1, 3, 5, 9}
  BY Worked, WorkLengths
<1> HIDE DEF n
<1>2. 0 \in 0..(n - 1)
  BY ONLY <1>1
<1> QED
  BY <1>2 DEF n

(* The place stays within its bounds. *)
LEMMA PlacedForward ==
    ASSUME Placed, Creating, Forward
    PROVE  Placed'
<1>1. at \in DOMAIN calls /\ at \in Nat /\ calls' = calls /\ DOMAIN calls = 1..Len(calls)
  BY Bounds DEF Creating, Forward
<1>3. CASE done + 1 = Len(Work(Now))
  <2>1. at' = at + 1 /\ done' = 0
    BY <1>3 DEF Forward
  <2> QED
    <3>1. at' \in 1..(Len(calls) + 1) /\ calls' \in {InitializeSteps, RecreateSteps}
      BY <1>1, <2>1, Bounds
    <3>2. 0 \in 0..(Len(Work(Now')) - 1)
      BY FirstOf
    <3> QED
      BY <1>1, <2>1, <3>1, <3>2 DEF Placed
<1>4. CASE done + 1 # Len(Work(Now))
  <2>1. at' = at /\ done' = done + 1 /\ Now' = Now
    BY <1>1, <1>4 DEF Forward, Now
  <2>2. Len(Work(Now)') = Len(Work(Now))
    BY <2>1 DEF Work
  <2> QED
    BY <1>1, <1>4, <2>1, <2>2, OpsLeft DEF Placed
<1> QED
  BY <1>3, <1>4

LEMMA PlacedAgain == Recreate => Placed'
<1> SUFFICES ASSUME Recreate PROVE Placed'
  OBVIOUS
<1>1. calls' = RecreateSteps /\ at' = 1 /\ done' = 0
  BY DEF Recreate
<1> QED
  <2>1. 0 \in 0..(Len(Work(Now')) - 1)
    BY FirstOf
  <2>2. 1 \in 1..(Len(RecreateSteps) + 1)
    BY Lengths
  <2> QED
    BY <1>1, <2>1, <2>2 DEF Placed

-----------------------------------------------------------------------------
(* What holds of the targets of drawing once their functions are through,  *)
(* with the formats and extents of the swap chain there is.                *)
TargetsInv ==
    /\ chain # NoObject => offer \in Offer /\ chain = Request(offer)
    /\ Progress("renderPass") = All =>
          pass = [color |-> chain.format.format, depth |-> DepthFormat(machine)]
    /\ Progress("pipeline") = All => pipeline = chain.extent
    /\ Progress("framebuffers") = All =>
          frames = [color |-> chain.format.format, depth |-> DepthFormat(machine),
                    extent |-> chain.extent]
    /\ Progress("commandBuffers") = All =>
          commands = [count |-> Len(file.corners), extent |-> chain.extent]

(* The corners read so far are behind the indices. *)
MeshInv ==
    /\ Len(indices) <= Len(file.corners)
    /\ Progress("model") = All => Len(indices) = Len(file.corners)
    /\ \A k \in DOMAIN indices :
          file.corners[k] \in Vertex \ Odd => vertices[indices[k] + 1] = file.corners[k]

(* The images and buffers are records with the fields they are given. *)
ShapeInv ==
    /\ DOMAIN image = {"depth", "texture"}
    /\ \A o \in DOMAIN image :
          DOMAIN image[o] = {"format", "extent", "memory", "layout", "holds"}
    /\ DOMAIN buffer = {"vertexBuffer", "indexBuffer", "uniformBuffer"}
    /\ \A o \in DOMAIN buffer : DOMAIN buffer[o] = {"memory", "holds"}

(* The depth image, operation by operation. *)
DepthInv ==
    /\ Progress("depth") >= 1 => /\ image["depth"].format = DepthFormat(machine)
                                 /\ image["depth"].extent = chain.extent
                                 /\ image["depth"].layout # "none"
    /\ ~lost /\ (Progress("depth") >= 3 \/ (Progress("depth") = 2 /\ queue = << >>)) =>
          image["depth"].layout = "depthAttachment"

(* The texture: received, copied, shown, with a wait after each. *)
Receiving == Progress("texture") = 2 \/ (Progress("texture") = 3 /\ queue # << >>)
Received  == \/ Progress("texture") = 3 /\ queue = << >>
             \/ Progress("texture") \in {4, 5, 6}
             \/ Progress("texture") = 7 /\ queue # << >>
Shown     == Progress("texture") >= 8 \/ (Progress("texture") = 7 /\ queue = << >>)
Copied    == Progress("texture") >= 6 \/ (Progress("texture") = 5 /\ queue = << >>)

TextureInv ==
    /\ Progress("texture") >= 2 => image["texture"].format = "A8B8G8R8"
    /\ Receiving => image["texture"].layout = "preinitialized"
    /\ ~lost => /\ Received => image["texture"].layout = "transferTarget"
                /\ Shown => image["texture"].layout = "shader"
                /\ Copied => image["texture"].holds = file.texture

(* The buffers of vertices and indices, and the one that is written to. *)
FilledInv(o) ==
    /\ Progress(o) >= 2 => DeviceLocal \subseteq buffer[o].memory
    /\ ~lost /\ (Progress(o) >= 4 \/ (Progress(o) = 3 /\ queue = << >>)) => buffer[o].holds = Data(o)

BufferInv ==
    /\ FilledInv("vertexBuffer") /\ FilledInv("indexBuffer")
    /\ Progress("uniformBuffer") = All => Staged \subseteq buffer["uniformBuffer"].memory

(* The staging buffer is there while one of the three functions uses it. *)
StagedFor == {"texture", "vertexBuffer", "indexBuffer"}

StagingInv ==
    /\ \A o \in StagedFor :
          Progress(o) \in 1..8 => Staged \subseteq staging.memory /\ staging.holds = Data(o)
    /\ (\A o \in StagedFor : Progress(o) \in {0, All}) => staging = NoBuffer

(* At most one command is pending, that of the operation before the wait.  *)
Barrier(o, from, to, aspects) ==
    [kind |-> "barrier", of |-> o, from |-> from, to |-> to, aspects |-> aspects]

QueueInv ==
    queue # << >> =>
        \/ /\ Progress("depth") = 2
           /\ queue = <<Barrier("depth", "undefined", "depthAttachment",
                                Aspects(DepthFormat(machine), "depthAttachment"))>>
        \/ /\ Progress("texture") = 3
           /\ queue = <<Barrier("texture", "preinitialized", "transferTarget", {"color"})>>
        \/ /\ Progress("texture") = 7
           /\ queue = <<Barrier("texture", "transferTarget", "shader", {"color"})>>
        \/ /\ Progress("texture") = 5 /\ queue = <<[kind |-> "copy", of |-> "texture"]>>
        \/ \E o \in {"vertexBuffer", "indexBuffer"} :
              Progress(o) = 3 /\ queue = <<[kind |-> "copy", of |-> o]>>

DataInv == /\ DataTypeOK /\ VerticesShared
           /\ TargetsInv /\ MeshInv /\ ShapeInv /\ DepthInv /\ TextureInv /\ BufferInv
           /\ StagingInv /\ QueueInv

-----------------------------------------------------------------------------
(* The operations of the long functions, each at its number. *)
LEMMA DoingIs ==
    ASSUME Placed, Creating
    PROVE  /\ Doing("image") => (Now = "depth" /\ done = 0) \/ (Now = "texture" /\ done = 1)
           /\ Doing("attach") => Now = "depth" /\ done = 1
           /\ Doing("stage") => Now \in StagedFor /\ done = 0
           /\ Doing("receive") => Now = "texture" /\ done = 2
           /\ Doing("show") => Now = "texture" /\ done = 6
           /\ Doing("buffer") => Now \in {"vertexBuffer", "indexBuffer"} /\ done = 1
           /\ Doing("copy") => \/ Now = "texture" /\ done = 4
                               \/ Now \in {"vertexBuffer", "indexBuffer"} /\ done = 2
           /\ Doing("unstage") => \/ Now = "texture" /\ done = 8
                                  \/ Now \in {"vertexBuffer", "indexBuffer"} /\ done = 4
           /\ Doing("wait") => \/ Now = "depth" /\ done = 2
                               \/ Now = "texture" /\ done \in {3, 5, 7}
                               \/ Now \in {"vertexBuffer", "indexBuffer"} /\ done = 3
<1>1. at \in DOMAIN calls
  BY Bounds DEF Creating
<1>2. done \in 0..8 /\ done + 1 <= Len(Work(Now))
  BY <1>1, OpsLeft
<1>3. CASE Now = "depth"
  <2>1. Work(Now) = DepthWork /\ done \in {0, 1, 2}
    BY SMTT(30), <1>2, <1>3, Worked, WorkLengths
  <2> QED
    BY <1>3, <2>1 DEF DepthWork, Doing, StagedFor
<1>4. CASE Now = "texture"
  <2>1. Work(Now) = TextureWork /\ done \in {0, 1, 2, 3, 4, 5, 6, 7, 8}
    BY <1>2, <1>4, Worked, WorkLengths
  <2> QED
    BY <1>4, <2>1 DEF TextureWork, Doing, StagedFor
<1>5. CASE Now \in {"vertexBuffer", "indexBuffer"}
  <2>0. Work(Now) = BufferWork /\ Len(Work(Now)) = 5
    BY <1>5, Worked, WorkLengths
  <2>1. Work(Now) = BufferWork /\ done \in {0, 1, 2, 3, 4}
    BY <1>2, <2>0
  <2> QED
    BY <1>5, <2>1 DEF BufferWork, Doing, StagedFor
<1>6. CASE Now \notin {"depth", "texture", "vertexBuffer", "indexBuffer"}
  <2>0. Work(Now) = <<"whole">>
    BY <1>6, Worked
  <2>a. Len(Work(Now)) = 1
    BY <2>0
  <2>1. Work(Now) = <<"whole">> /\ done = 0
    BY <1>2, <2>0, <2>a
  <2> QED
    BY <2>1 DEF Doing
<1> QED
  BY <1>3, <1>4, <1>5, <1>6

(* A pending command is waited for, so nothing else is done. *)
LEMMA WaitsFor ==
    ASSUME Placed, QueueInv, queue # << >>, Creating
    PROVE  Doing("wait")
<1>1. at \in DOMAIN calls
  BY Bounds DEF Creating
<1>2. {"depth", "texture", "vertexBuffer", "indexBuffer"} \subseteq Matters
  BY DEF Matters, OfChain, OfStart
<1>3. \A o \in {"depth", "texture", "vertexBuffer", "indexBuffer"} :
          Progress(o) \notin {0, All} => Now = o /\ done = Progress(o)
  BY <1>1, <1>2, ProgressOf
<1>4. CASE Progress("depth") = 2
  <2>1. Now = "depth" /\ done = 2 /\ Work(Now) = DepthWork
    BY <1>3, <1>4, Worked DEF All
  <2> QED
    BY <2>1 DEF Doing, DepthWork
<1>5. CASE Progress("texture") \in {3, 5, 7}
  <2>1. Now = "texture" /\ done \in {3, 5, 7} /\ Work(Now) = TextureWork
    BY <1>3, <1>5, Worked DEF All
  <2> QED
    BY <2>1 DEF Doing, TextureWork
<1>6. CASE \E o \in {"vertexBuffer", "indexBuffer"} : Progress(o) = 3
  <2>1. Now \in {"vertexBuffer", "indexBuffer"} /\ done = 3 /\ Work(Now) = BufferWork
    BY <1>3, <1>6, Worked DEF All
  <2> QED
    BY <2>1 DEF Doing, BufferWork
<1> QED
  BY <1>4, <1>5, <1>6 DEF QueueInv

-----------------------------------------------------------------------------
(* Of a set of places that is not empty one comes first. *)
LEMMA FirstPlace ==
    ASSUME NEW S, S \subseteq Nat, S # {}
    PROVE  \E m \in S : \A l \in S : m <= l
<1> DEFINE R == OpToRel(<, Nat)
<1>1. IsWellFoundedOn(R, Nat)
  BY NatLessThanWellFounded
<1>2. \A x, y \in Nat : x < y => <<x, y>> \in R
  BY DEF OpToRel
<1> HIDE DEF R
<1>3. \E m \in S : \A l \in S : ~ (<<l, m>> \in R)
  BY <1>1, WFMin, Zenon
<1>4. PICK m \in S : \A l \in S : ~ (<<l, m>> \in R)
  BY <1>3
<1>5. ASSUME NEW l \in S PROVE m <= l
  <2>1. m \in Nat /\ l \in Nat
    OBVIOUS
  <2>2. ~ (l < m)
    BY <1>2, <1>4, <2>1
  <2> QED
    BY <2>1, <2>2
<1> QED
  BY <1>5

(* A machine has a depth format the program knows. *)
LEMMA DepthFormatIs ==
    ASSUME NEW m \in Machine
    PROVE  DepthFormat(m) \in {"D32", "D32S8", "D24S8"}
<1> DEFINE S == {k \in 1..Len(DepthCandidates) : DepthCandidates[k] \in m.depth}
<1>1. /\ Len(DepthCandidates) = 3 /\ DepthCandidates[1] = "D32"
      /\ DepthCandidates[2] = "D32S8" /\ DepthCandidates[3] = "D24S8"
  BY DEF DepthCandidates
<1>2. "D32S8" \in m.depth \/ "D24S8" \in m.depth
  BY DataAssumption
<1>3. S \subseteq {1, 2, 3} /\ S # {}
  BY <1>1, <1>2
<1>4. FirstUsable(m) = IF S # {} THEN Min(S) ELSE 0
  BY DEF FirstUsable, SelectInSeq
<1> HIDE DEF S
<1>5. Min(S) \in S
  <2>1. S \subseteq Nat /\ S # {}
    BY <1>3
  <2> QED
    BY <2>1, FirstPlace DEF Min
<1>6. FirstUsable(m) \in {1, 2, 3}
  BY <1>3, <1>4, <1>5
<1> QED
  BY <1>1, <1>6 DEF DepthFormat

(* The barrier for the depth image names all the aspects of its format. *)
LEMMA AllAspects ==
    ASSUME NEW m \in Machine
    PROVE  Aspects(DepthFormat(m), "depthAttachment") = AspectsOf(DepthFormat(m))
BY DepthFormatIs DEF Aspects, AspectsOf, HasStencil

(* The memory an object lies in has the properties that were asked for. *)
LEMMA MemoryIs ==
    ASSUME NEW wanted, NEW m, machine \in Machine, Memory(wanted, m)
    PROVE  wanted \subseteq m
<1>1. PICK types \in SUBSET DOMAIN machine.memory :
            /\ MemoryType(machine, types, wanted) # 0
            /\ m = machine.memory[MemoryType(machine, types, wanted)]
  BY DEF Memory
<1> DEFINE s == [k \in DOMAIN machine.memory |-> k \in types /\ wanted \subseteq machine.memory[k]]
           S == {k \in 1..Len(s) : s[k]}
<1>2. DOMAIN machine.memory = 1..Len(machine.memory) /\ Len(machine.memory) \in Nat
  BY DataAssumption
<1>3. Len(s) = Len(machine.memory)
  <2>1. s \in [1..Len(machine.memory) -> BOOLEAN]
    BY <1>2
  <2> HIDE DEF s
  <2>2. DOMAIN s = 1..Len(machine.memory)
    BY <2>1
  <2>3. s \in Seq(BOOLEAN)
    BY <1>2, <2>1
  <2> QED
    BY <1>2, <2>2, <2>3
<1>4. MemoryType(machine, types, wanted) = IF S # {} THEN Min(S) ELSE 0
  BY DEF MemoryType, SelectInSeq
<1>4a. \A k \in DOMAIN machine.memory : s[k] <=> k \in types /\ wanted \subseteq machine.memory[k]
  OBVIOUS
<1> HIDE DEF s
<1>5. S \subseteq Nat /\ \A k \in S : k \in DOMAIN machine.memory /\ wanted \subseteq machine.memory[k]
  BY <1>2, <1>3, <1>4a
<1> HIDE DEF S
<1>6. S # {} => Min(S) \in S
  BY <1>5, FirstPlace DEF Min
<1> QED
  BY <1>1, <1>4, <1>5, <1>6

(* A request fits the offer it is made from. *)
Right(c, o) ==
    /\ \/ c.format = Preferred /\ o.formats[1].format = "undefined"
       \/ \E k \in DOMAIN o.formats : c.format = o.formats[k]
    /\ (\E k \in DOMAIN o.formats : o.formats[k] = Preferred) => c.format = Preferred
    /\ c.mode \in o.modes /\ ("mailbox" \in o.modes => c.mode = "mailbox")
    /\ c.count >= o.minImages
    /\ o.maxImages = 0 \/ c.count <= o.maxImages
    /\ c.count = o.minImages => o.maxImages = o.minImages
    /\ IF o.current # AsYouLike THEN c.extent = o.current
       ELSE \A d \in Dimension :
                /\ c.extent[d] \in o.least[d]..o.most[d]
                /\ \A n \in o.least[d]..o.most[d] :
                      Distance(c.extent[d], Screen[d]) <= Distance(n, Screen[d])

(* The choices made of an offer, and so the swap chain, fit it. *)
LEMMA RequestRight ==
    ASSUME NEW o \in Offer
    PROVE  Right(Request(o), o)
<1> DEFINE c == Request(o)
<1>1. /\ c.format = SurfaceFormat(o.formats) /\ c.extent = SwapExtent(o)
      /\ c.mode = PresentMode(o) /\ c.count = ImageCount(o)
  BY DEF Request
<1>2. /\ o.least \in [Dimension -> Nat] /\ o.most \in [Dimension -> Nat]
      /\ \A d \in Dimension : o.least[d] <= o.most[d]
  BY OfferAssumption
<1>3. /\ Len(o.formats) \in Nat \ {0} /\ DOMAIN o.formats = 1..Len(o.formats)
      /\ "fifo" \in o.modes /\ o.minImages \in Nat /\ o.maxImages \in Nat
      /\ o.maxImages = 0 \/ o.minImages <= o.maxImages
  BY OfferAssumption
<1>4. 1 \in DOMAIN o.formats
  BY <1>3
<1>5. /\ \/ c.format = Preferred /\ o.formats[1].format = "undefined"
         \/ \E k \in DOMAIN o.formats : c.format = o.formats[k]
      /\ (\E k \in DOMAIN o.formats : o.formats[k] = Preferred) => c.format = Preferred
  BY <1>1, <1>3, <1>4 DEF SurfaceFormat
<1>6. c.mode \in o.modes /\ ("mailbox" \in o.modes => c.mode = "mailbox")
  BY <1>1, <1>3 DEF PresentMode
<1>7. /\ c.count >= o.minImages
      /\ o.maxImages = 0 \/ c.count <= o.maxImages
      /\ c.count = o.minImages => o.maxImages = o.minImages
  BY <1>1, <1>3 DEF ImageCount
<1>8. ASSUME o.current = AsYouLike, NEW d \in Dimension
      PROVE  /\ c.extent[d] \in o.least[d]..o.most[d]
             /\ \A n \in o.least[d]..o.most[d] :
                   Distance(c.extent[d], Screen[d]) <= Distance(n, Screen[d])
  <2>1. c.extent[d] = Larger(o.least[d], Smaller(o.most[d], Screen[d]))
    BY <1>1, <1>8 DEF SwapExtent
  <2>2. o.least[d] \in Nat /\ o.most[d] \in Nat /\ o.least[d] <= o.most[d] /\ Screen[d] \in Nat
    BY <1>2, DataAssumption
  <2> QED
    BY <2>1, <2>2 DEF Larger, Smaller, Distance
<1>9. o.current # AsYouLike => c.extent = o.current
  BY <1>1 DEF SwapExtent
<1> HIDE DEF c
<1>10. Right(c, o)
  BY <1>5, <1>6, <1>7, <1>8, <1>9 DEF Right
<1> QED
  BY <1>10 DEF c

LEMMA RequestFitsNow == TargetsInv => RequestFits
<1> SUFFICES ASSUME TargetsInv, chain # NoObject PROVE Right(chain, offer)
  BY DEF RequestFits, Right
<1> QED
  BY RequestRight DEF TargetsInv

(* The device finds what the pending command names. *)
LEMMA PendingFitsNow ==
    ASSUME DataInv, ~lost, queue # << >>
    PROVE  /\ Fitting(Head(queue)) /\ Len(queue) = 1
           /\ \A k \in DOMAIN queue : queue[k] = Head(queue)
<1>1. machine \in Machine /\ QueueInv /\ DepthInv /\ TextureInv /\ BufferInv /\ StagingInv
  BY DEF DataInv, DataTypeOK
<1>2. CASE /\ Progress("depth") = 2
           /\ queue = <<Barrier("depth", "undefined", "depthAttachment",
                                Aspects(DepthFormat(machine), "depthAttachment"))>>
  <2>1. /\ image["depth"].layout # "none" /\ image["depth"].format = DepthFormat(machine)
    BY <1>1, <1>2 DEF DepthInv
  <2> QED
    BY <1>1, <1>2, <2>1, AllAspects DEF Fitting, Barrier
<1>3. CASE /\ Progress("texture") = 3
           /\ queue = <<Barrier("texture", "preinitialized", "transferTarget", {"color"})>>
  <2>1. image["texture"].layout = "preinitialized" /\ image["texture"].format = "A8B8G8R8"
    BY <1>1, <1>3 DEF TextureInv, Receiving
  <2> QED
    BY <1>3, <2>1 DEF Fitting, Barrier, AspectsOf
<1>4. CASE /\ Progress("texture") = 7
           /\ queue = <<Barrier("texture", "transferTarget", "shader", {"color"})>>
  <2>1. image["texture"].layout = "transferTarget" /\ image["texture"].format = "A8B8G8R8"
    BY <1>1, <1>4 DEF TextureInv, Received
  <2> QED
    BY <1>4, <2>1 DEF Fitting, Barrier, AspectsOf
<1>5. CASE Progress("texture") = 5 /\ queue = <<[kind |-> "copy", of |-> "texture"]>>
  <2>1. image["texture"].layout = "transferTarget"
    BY <1>1, <1>5 DEF TextureInv, Received
  <2>2. Staged \subseteq staging.memory
    BY <1>1, <1>5 DEF StagingInv, StagedFor
  <2> QED
    BY <1>5, <2>1, <2>2 DEF Fitting, Staged
<1>6. ASSUME NEW o \in {"vertexBuffer", "indexBuffer"},
             Progress(o) = 3 /\ queue = <<[kind |-> "copy", of |-> o]>>
      PROVE  /\ Fitting(Head(queue)) /\ Len(queue) = 1
             /\ \A k \in DOMAIN queue : queue[k] = Head(queue)
  <2>1. DeviceLocal \subseteq buffer[o].memory
    BY <1>1, <1>6 DEF BufferInv, FilledInv
  <2>2. Staged \subseteq staging.memory
    BY <1>1, <1>6 DEF StagingInv, StagedFor
  <2> QED
    BY <1>6, <2>1, <2>2 DEF Fitting, Staged, DeviceLocal
<1> QED
  BY <1>1, <1>2, <1>3, <1>4, <1>5, <1>6 DEF QueueInv

-----------------------------------------------------------------------------
(* Which actions change what. *)
Submits == Attach \/ Receive \/ Show \/ Copy

(* Each variable is changed by the actions named here only. *)
LEMMA OnlyBy ==
    ASSUME [DataNext]_dataVars
    PROVE  /\ UNCHANGED <<machine, file>>
           /\ CreateSwapChain \/ UNCHANGED <<offer, chain>>
           /\ CreateRenderPass \/ UNCHANGED pass
           /\ CreateGraphicsPipeline \/ UNCHANGED pipeline
           /\ CreateFramebuffers \/ UNCHANGED frames
           /\ CreateCommandBuffers \/ UNCHANGED commands
           /\ CreateImage \/ Execute \/ UNCHANGED image
           /\ CreateBuffer \/ CreateUniformBuffer \/ ExecuteCopy \/ UNCHANGED buffer
           /\ Stage \/ Unstage \/ UNCHANGED staging
           /\ Submits \/ UNCHANGED lost
           /\ Submits \/ Execute \/ UNCHANGED queue
           /\ ReadCorner \/ UNCHANGED <<vertices, indices>>
<1> USE DEF dataVars, given, place, targets, storage, mesh, Submits
<1>1. CASE Create
  BY <1>1 DEF Create, CreateSwapChain, CreateRenderPass, CreateGraphicsPipeline,
      CreateFramebuffers, CreateCommandBuffers, CreateOther, CreateUniformBuffer, ReadCorner, ModelLoaded
<1>2. CASE Operate
  BY <1>2 DEF Operate, CreateImage, CreateBuffer, Stage, Unstage, Attach, Receive, Show, Copy, Wait,
      TransitionImageLayout, Submit
<1>3. CASE Execute
  BY <1>3 DEF Execute, ExecuteBarrier, ExecuteCopy
<1>4. CASE Recreate \/ Fails \/ Over \/ UNCHANGED dataVars
  BY <1>4 DEF Recreate, Fails, Over
<1> QED
  BY <1>1, <1>2, <1>3, <1>4 DEF DataNext

Still == UNCHANGED <<calls, at, done>>

(* A step stays in its place, starts a recreation, or does an operation of the running function. *)
LEMMA Moves ==
    ASSUME Placed, [DataNext]_dataVars
    PROVE  \/ Still /\ (ReadCorner \/ Execute \/ Fails \/ Over \/ UNCHANGED dataVars)
           \/ Recreate
           \/ /\ Creating /\ Forward
              /\ \/ Now = "depth" /\ (CreateImage \/ Attach \/ Wait)
                 \/ /\ Now = "texture"
                    /\ Stage \/ CreateImage \/ Receive \/ Wait \/ Copy \/ Show \/ Unstage
                 \/ /\ Now \in {"vertexBuffer", "indexBuffer"}
                    /\ Stage \/ CreateBuffer \/ Copy \/ Wait \/ Unstage
                 \/ Now = "swapchain" /\ CreateSwapChain
                 \/ Now = "renderPass" /\ CreateRenderPass
                 \/ Now = "pipeline" /\ CreateGraphicsPipeline
                 \/ Now = "framebuffers" /\ CreateFramebuffers
                 \/ Now = "commandBuffers" /\ CreateCommandBuffers
                 \/ Now = "uniformBuffer" /\ CreateUniformBuffer
                 \/ Now = "model" /\ ModelLoaded
                 \/ Now \notin Matters /\ CreateOther
<1>1. CASE Operate
  <2>1. Creating /\ Forward
    BY <1>1 DEF Operate, CreateImage, CreateBuffer, Stage, Unstage, Attach, Receive, Show, Copy, Wait,
        TransitionImageLayout, Submit, Doing
  <2>2. CASE CreateImage
    BY <2>1, <2>2, DoingIs DEF CreateImage
  <2>3. CASE CreateBuffer
    BY <2>1, <2>3, DoingIs DEF CreateBuffer
  <2>4. CASE Stage
    BY <2>1, <2>4, DoingIs DEF Stage, StagedFor
  <2>5. CASE Unstage
    BY <2>1, <2>5, DoingIs DEF Unstage
  <2>6. CASE Attach
    BY <2>1, <2>6, DoingIs DEF Attach
  <2>7. CASE Receive
    BY <2>1, <2>7, DoingIs DEF Receive
  <2>8. CASE Show
    BY <2>1, <2>8, DoingIs DEF Show
  <2>9. CASE Copy
    BY <2>1, <2>9, DoingIs DEF Copy
  <2>10. CASE Wait
    BY <2>1, <2>10, DoingIs DEF Wait
  <2> QED
    BY <1>1, <2>2, <2>3, <2>4, <2>5, <2>6, <2>7, <2>8, <2>9, <2>10 DEF Operate
<1>2. CASE Create
  BY <1>2 DEF Create, CreateSwapChain, CreateRenderPass, CreateGraphicsPipeline, CreateFramebuffers,
      CreateCommandBuffers, CreateOther, CreateUniformBuffer, ModelLoaded, ReadCorner, place, At,
      Still, Matters, OfChain, OfStart
<1>3. CASE Execute
  BY <1>3 DEF Execute, ExecuteBarrier, ExecuteCopy, place, Still
<1>4. CASE Recreate \/ Fails \/ Over \/ UNCHANGED dataVars
  BY <1>4 DEF Fails, Over, dataVars, place, Still
<1> QED
  BY <1>1, <1>2, <1>3, <1>4 DEF DataNext

(* What a step does to the progress of a function. *)
LEMMA Progresses ==
    ASSUME DataTypeOK, [DataNext]_dataVars, NEW o \in Matters
    PROVE  \/ Progress(o)' = Progress(o)
           \/ Recreate /\ o \in OfChain /\ Progress(o)' = 0
           \/ /\ Creating /\ Forward /\ Now = o /\ Progress(o) = done
              /\ Progress(o)' = IF done + 1 = Len(Work(o)) THEN All ELSE done + 1
<1>1. Placed
  BY DEF DataTypeOK, Placed
<1>2. CASE Still
  BY <1>2, Stayed DEF Still
<1>3. CASE Recreate
  <2>1. Progress(o) = All
    BY <1>1, <1>3, AllThrough DEF Recreate
  <2> QED
    BY <1>3, <2>1, Restarted
<1>4. CASE Creating /\ Forward
  <2>1. at \in DOMAIN calls
    BY <1>1, <1>4, Bounds DEF Creating
  <2> QED
    BY <1>1, <1>4, <2>1, Forwarded, ProgressOf
<1> QED
  BY <1>1, <1>2, <1>3, <1>4, Moves

(* Types are kept. *)
LEMMA DataTypeStep ==
    ASSUME DataTypeOK, [DataNext]_dataVars, (vertices \in Seq(Vertex) /\ indices \in Seq(Nat))'
    PROVE  DataTypeOK'
<1>1. Placed /\ (Placed' => calls' \in {InitializeSteps, RecreateSteps} /\ at' \in 1..(Len(calls') + 1)
                            /\ (IF at \in DOMAIN calls THEN done \in 0..(Len(Work(Now)) - 1) ELSE done = 0)')
  BY DEF DataTypeOK, Placed
<1>2. Placed'
  <2>1. CASE Still
    <3>1. Work(Now)' = Work(Now)
      BY <2>1 DEF Still, Work, Now
    <3> QED
      BY <1>1, <2>1, <3>1 DEF Placed, Still
  <2> QED
    BY <1>1, <2>1, Moves, PlacedForward, PlacedAgain
<1>3. machine' \in Machine /\ file' \in [texture : {Texels, Junk}, corners : Model]
  BY OnlyBy DEF DataTypeOK
<1>4. lost' \in BOOLEAN
  <2>1. CASE Submits
    BY <2>1 DEF Submits, Attach, Receive, Show, Copy, TransitionImageLayout, Submit, DataTypeOK
  <2> QED
    BY <2>1, OnlyBy DEF DataTypeOK
<1>5. alive' \in BOOLEAN
  <2>1. CASE (Creating /\ Forward) \/ Recreate \/ Fails \/ Over \/ UNCHANGED dataVars
    BY <2>1 DEF Creating, Forward, Recreate, Fails, Over, dataVars, place, DataTypeOK
  <2>2. CASE ReadCorner \/ Execute
    BY <2>2 DEF ReadCorner, Execute, ExecuteBarrier, ExecuteCopy, place, DataTypeOK
  <2> QED
    BY <1>1, <2>1, <2>2, Moves
<1> QED
  BY <1>1, <1>2, <1>3, <1>4, <1>5 DEF DataTypeOK

(* While a command is pending the program waits. *)
LEMMA Quiet ==
    ASSUME Placed, QueueInv, Operate \/ Create
    PROVE  queue = << >>
<1> SUFFICES ASSUME queue # << >> PROVE FALSE
  OBVIOUS
<1>1. Creating
  BY DEF Operate, Create, CreateImage, CreateBuffer, Stage, Unstage, Attach, Receive, Show, Copy, Wait,
      Doing, CreateSwapChain, CreateRenderPass, CreateGraphicsPipeline, CreateFramebuffers,
      CreateCommandBuffers, CreateOther, CreateUniformBuffer, ModelLoaded, ReadCorner, At
<1>2. Doing("wait")
  BY <1>1, WaitsFor
<1>3. CASE Operate
  BY <1>2, <1>3 DEF Operate, CreateImage, CreateBuffer, Stage, Unstage, Attach, Receive, Show, Copy,
      Wait, Doing
<1>4. CASE Create
  <2>1. Now \in {"depth", "texture", "vertexBuffer", "indexBuffer"}
    BY <1>1, <1>2, DoingIs
  <2> QED
    BY <1>4, <2>1 DEF Create, CreateSwapChain, CreateRenderPass, CreateGraphicsPipeline,
        CreateFramebuffers, CreateCommandBuffers, CreateOther, CreateUniformBuffer, ModelLoaded,
        ReadCorner, At
<1> QED
  BY <1>3, <1>4

(* The progress of the running function when it is one of the long ones. *)
LEMMA Long ==
    ASSUME DataTypeOK, [DataNext]_dataVars, Creating, Forward
    PROVE  /\ Now = "depth" => Progress("depth") = done
                               /\ Progress("depth")' = IF done = 2 THEN All ELSE done + 1
           /\ Now = "texture" => Progress("texture") = done
                               /\ Progress("texture")' = IF done = 8 THEN All ELSE done + 1
           /\ \A o \in {"vertexBuffer", "indexBuffer"} :
                 Now = o => Progress(o) = done /\ Progress(o)' = IF done = 4 THEN All ELSE done + 1
<1>1. Placed
  BY DEF DataTypeOK, Placed
<1>2. at \in DOMAIN calls
  BY <1>1, Bounds DEF Creating
<1>3. done \in 0..8
  BY <1>1, <1>2, OpsLeft
<1>4. {"depth", "texture", "vertexBuffer", "indexBuffer"} \subseteq Matters
  BY DEF Matters, OfChain, OfStart
<1>5. \A o \in {"depth", "texture", "vertexBuffer", "indexBuffer"} :
          Now = o => /\ Progress(o) = done
                     /\ Progress(o)' = IF done + 1 = Len(Work(o)) THEN All ELSE done + 1
  BY <1>1, <1>2, <1>4, Forwarded, ProgressOf
<1>6. /\ Len(Work("depth")) = 3 /\ Len(Work("texture")) = 9
      /\ Len(Work("vertexBuffer")) = 5 /\ Len(Work("indexBuffer")) = 5
  BY Worked, WorkLengths
<1>7. /\ done + 1 = 3 <=> done = 2
      /\ done + 1 = 9 <=> done = 8
      /\ done + 1 = 5 <=> done = 4
  BY <1>3
<1>8. Now = "depth" => Progress("depth") = done
                       /\ Progress("depth")' = IF done = 2 THEN All ELSE done + 1
  BY <1>5, <1>6, <1>7
<1>9. Now = "texture" => Progress("texture") = done
                         /\ Progress("texture")' = IF done = 8 THEN All ELSE done + 1
  BY <1>5, <1>6, <1>7
<1>10. ASSUME NEW o \in {"vertexBuffer", "indexBuffer"}, Now = o
       PROVE  Progress(o) = done /\ Progress(o)' = IF done = 4 THEN All ELSE done + 1
  BY <1>5, <1>6, <1>7, <1>10
<1> QED
  BY <1>8, <1>9, <1>10

(* The queue holds the command the program is about to wait for. *)
LEMMA QueueStep ==
    ASSUME DataInv, [DataNext]_dataVars
    PROVE  QueueInv'
<1>1. DataTypeOK /\ Placed /\ QueueInv /\ DepthInv
  BY DEF DataInv, DataTypeOK, Placed
<1>2. machine' = machine /\ file' = file
  BY OnlyBy
<1>3. ASSUME Submits
      PROVE  QueueInv'
  <2>1. Creating /\ Forward /\ Operate
    BY <1>3 DEF Submits, Operate, Attach, Receive, Show, Copy, TransitionImageLayout, Submit, Doing
  <2>2. queue = << >>
    BY <1>1, <2>1, Quiet
  <2>3. CASE Attach
    <3>1. Now = "depth" /\ done = 1
      BY <1>1, <2>1, <2>3, DoingIs DEF Attach
    <3>2. Progress("depth") = 1 /\ Progress("depth")' = 2
      BY <1>1, <2>1, <3>1, Long
    <3>3. image["depth"].format = DepthFormat(machine)
      BY <1>1, <3>2 DEF DepthInv
    <3> QED
      BY <1>2, <2>2, <2>3, <3>1, <3>2, <3>3
      DEF Attach, TransitionImageLayout, Submit, QueueInv, Barrier
  <2>4. CASE Receive
    <3>1. Now = "texture" /\ done = 2
      BY <1>1, <2>1, <2>4, DoingIs DEF Receive
    <3>2. Progress("texture")' = 3
      BY <1>1, <2>1, <3>1, Long
    <3> QED
      BY <1>2, <2>2, <2>4, <3>1, <3>2 DEF Receive, TransitionImageLayout, Submit, QueueInv, Barrier, Aspects
  <2>5. CASE Show
    <3>1. Now = "texture" /\ done = 6
      BY <1>1, <2>1, <2>5, DoingIs DEF Show
    <3>2. Progress("texture")' = 7
      BY <1>1, <2>1, <3>1, Long
    <3> QED
      BY <1>2, <2>2, <2>5, <3>1, <3>2 DEF Show, TransitionImageLayout, Submit, QueueInv, Barrier, Aspects
  <2>6. CASE Copy
    <3>1. \/ Now = "texture" /\ done = 4
          \/ Now \in {"vertexBuffer", "indexBuffer"} /\ done = 2
      BY <1>1, <2>1, <2>6, DoingIs DEF Copy
    <3>2. /\ Now = "texture" => Progress("texture")' = 5
          /\ \A o \in {"vertexBuffer", "indexBuffer"} : Now = o => Progress(o)' = 3
      BY <1>1, <2>1, <3>1, Long
    <3>3. queue' = << >> \/ queue' = <<[kind |-> "copy", of |-> Now]>>
      BY <2>2, <2>6 DEF Copy, Submit
    <3> QED
      BY <3>1, <3>2, <3>3 DEF QueueInv
  <2> QED
    BY <1>3, <2>3, <2>4, <2>5, <2>6 DEF Submits
<1>4. CASE Execute
  <2>1. queue' = Tail(queue) /\ queue # << >>
    BY <1>4 DEF Execute, ExecuteBarrier, ExecuteCopy
  <2>2. \E c : queue = <<c>>
    BY <1>1, <2>1 DEF QueueInv
  <2>3. queue' = << >>
    BY <2>1, <2>2
  <2> QED
    BY <2>3 DEF QueueInv
<1>5. CASE queue' = queue /\ (Create \/ Operate)
  BY <1>1, <1>5, Quiet DEF QueueInv
<1>6. CASE queue' = queue /\ Still
  <2>1. \A o : Progress(o)' = Progress(o)
    BY <1>6, Stayed DEF Still
  <2> QED
    BY <1>1, <1>2, <1>6, <2>1 DEF QueueInv
<1>7. CASE Recreate
  BY <1>7 DEF Recreate, storage, QueueInv
<1>8. Still \/ Recreate \/ Create \/ Operate
  BY <1>1, Moves DEF Create, Operate
<1> QED
  BY <1>3, <1>4, <1>5, <1>6, <1>7, <1>8, OnlyBy

(* Images and buffers keep their fields. *)
LEMMA ShapeStep ==
    ASSUME DataInv, [DataNext]_dataVars
    PROVE  ShapeInv'
<1>1. ShapeInv /\ Placed
  BY DEF DataInv, DataTypeOK, Placed
<1>2. CASE CreateImage
  BY <1>1, <1>2 DEF CreateImage, storage, ShapeInv
<1>3. CASE CreateBuffer \/ CreateUniformBuffer
  BY <1>1, <1>3 DEF CreateBuffer, CreateUniformBuffer, ShapeInv
<1>4. CASE ExecuteBarrier
  BY <1>1, <1>4 DEF ExecuteBarrier, ShapeInv, Moved
<1>5. CASE ExecuteCopy
  BY <1>1, <1>5 DEF ExecuteCopy, ShapeInv
<1>6. CASE UNCHANGED <<image, buffer>>
  BY <1>1, <1>6 DEF ShapeInv
<1>7. CreateImage \/ CreateBuffer \/ CreateUniformBuffer \/ Execute \/ UNCHANGED <<image, buffer>>
  BY OnlyBy DEF Execute
<1> QED
  BY <1>2, <1>3, <1>4, <1>5, <1>6, <1>7 DEF Execute

(* An operation done is neither a rest nor a recreation. *)
LEMMA MovesForward ==
    ASSUME Placed, [DataNext]_dataVars, Creating, Forward
    PROVE  ~Still /\ ~Recreate
<1>1. at \in Nat /\ at <= Len(calls) /\ at \in DOMAIN calls
  BY Bounds DEF Creating
<1>2. done \in 0..8
  BY <1>1, OpsLeft
<1> QED
  BY <1>1, <1>2, Bounds DEF Forward, Still, Recreate, Ready

(* The functions of one operation are through when it is done. *)
LEMMA Finishes ==
    ASSUME DataTypeOK, [DataNext]_dataVars
    PROVE  /\ Progress("renderPass")' = All => Progress("renderPass") = All \/ CreateRenderPass
           /\ Progress("pipeline")' = All => Progress("pipeline") = All \/ CreateGraphicsPipeline
           /\ Progress("framebuffers")' = All => Progress("framebuffers") = All \/ CreateFramebuffers
           /\ Progress("commandBuffers")' = All =>
                 Progress("commandBuffers") = All \/ CreateCommandBuffers
           /\ Progress("uniformBuffer")' = All => Progress("uniformBuffer") = All \/ CreateUniformBuffer
           /\ Progress("model")' = All => Progress("model") = All \/ ModelLoaded
<1> DEFINE Single == {"renderPass", "pipeline", "framebuffers", "commandBuffers", "uniformBuffer", "model"}
<1>1. Placed
  BY DEF DataTypeOK, Placed
<1>2. Single \subseteq Matters
  BY DEF Matters, OfChain, OfStart
<1>3. ASSUME NEW o \in Single, Progress(o)' = All
      PROVE  Progress(o) = All \/ (Creating /\ Forward /\ Now = o)
  BY <1>2, <1>3, Progresses DEF All
<1>4. ASSUME Creating, Forward, Now \in Single
      PROVE  /\ Now = "renderPass" => CreateRenderPass
             /\ Now = "pipeline" => CreateGraphicsPipeline
             /\ Now = "framebuffers" => CreateFramebuffers
             /\ Now = "commandBuffers" => CreateCommandBuffers
             /\ Now = "uniformBuffer" => CreateUniformBuffer
             /\ Now = "model" => ModelLoaded
  BY <1>1, <1>2, <1>4, Moves, MovesForward
<1> QED
  BY <1>3, <1>4

(* The targets agree with the swap chain as far as they are made. *)
LEMMA TargetsStep ==
    ASSUME DataInv, [DataNext]_dataVars
    PROVE  TargetsInv'
<1>1. DataTypeOK /\ Placed /\ TargetsInv /\ DepthInv /\ MeshInv
  BY DEF DataInv, DataTypeOK, Placed
<1>2. machine' = machine /\ file' = file
  BY OnlyBy
<1>3. CASE CreateSwapChain
  <2>1. Creating /\ Forward /\ Now = "swapchain" /\ at \in DOMAIN calls
    BY <1>1, <1>3, Bounds DEF CreateSwapChain, At, Creating
  <2>2. OfChain \ {"swapchain"} = {"renderPass", "pipeline", "depth", "framebuffers", "commandBuffers"}
    BY DEF OfChain
  <2>3. \A o \in OfChain \ {"swapchain"} : Progress(o)' = 0
    BY <1>1, <2>1, Ordered, Forwarded DEF Matters
  <2>4. offer' \in Offer /\ chain' = Request(offer')
    BY <1>3 DEF CreateSwapChain
  <2> QED
    BY <2>2, <2>3, <2>4 DEF TargetsInv, All
<1>4. CASE UNCHANGED <<offer, chain>>
  <2>1. (chain # NoObject => offer \in Offer /\ chain = Request(offer))'
    BY <1>1, <1>4 DEF TargetsInv, Request, SwapExtent
  <2>2. (Progress("renderPass") = All =>
            pass = [color |-> chain.format.format, depth |-> DepthFormat(machine)])'
    <3>1. CASE CreateRenderPass
      BY <1>2, <1>4, <3>1 DEF CreateRenderPass
    <3> QED
      BY <1>1, <1>2, <1>4, <3>1, Finishes, OnlyBy DEF TargetsInv
  <2>3. (Progress("pipeline") = All => pipeline = chain.extent)'
    <3>1. CASE CreateGraphicsPipeline
      BY <1>4, <3>1 DEF CreateGraphicsPipeline
    <3> QED
      BY <1>1, <1>4, <3>1, Finishes, OnlyBy DEF TargetsInv
  <2>4. (Progress("framebuffers") = All =>
            frames = [color |-> chain.format.format, depth |-> DepthFormat(machine),
                      extent |-> chain.extent])'
    <3>1. CASE CreateFramebuffers
      <4>1. at \in DOMAIN calls /\ Now = "framebuffers"
        BY <1>1, <3>1, Bounds DEF CreateFramebuffers, At, Creating
      <4>2. image["depth"].format = DepthFormat(machine)
        BY <1>1, <4>1, Ordered DEF DepthInv, All
      <4> QED
        BY <1>2, <1>4, <3>1, <4>2 DEF CreateFramebuffers
    <3> QED
      BY <1>1, <1>2, <1>4, <3>1, Finishes, OnlyBy DEF TargetsInv
  <2>5. (Progress("commandBuffers") = All =>
            commands = [count |-> Len(file.corners), extent |-> chain.extent])'
    <3>1. CASE CreateCommandBuffers
      <4>1. at \in DOMAIN calls /\ Now = "commandBuffers"
        BY <1>1, <3>1, Bounds DEF CreateCommandBuffers, At, Creating
      <4>2. Len(indices) = Len(file.corners)
        BY <1>1, <4>1, Ordered DEF MeshInv
      <4> QED
        BY <1>2, <1>4, <3>1, <4>2 DEF CreateCommandBuffers
    <3> QED
      BY <1>1, <1>2, <1>4, <3>1, Finishes, OnlyBy DEF TargetsInv
  <2> QED
    BY <2>1, <2>2, <2>3, <2>4, <2>5 DEF TargetsInv
<1> QED
  BY <1>3, <1>4, OnlyBy

(* A corner is read. *)
LEMMA CornerRead ==
    ASSUME DataInv, ReadCorner
    PROVE  /\ vertices' \in Seq(Vertex) /\ indices' \in Seq(Nat)
           /\ Len(indices') = Len(indices) + 1 /\ Len(indices) < Len(file.corners)
           /\ VerticesShared'
           /\ \A k \in DOMAIN indices' :
                 file.corners[k] \in Vertex \ Odd => vertices'[indices'[k] + 1] = file.corners[k]
<1>1. /\ vertices \in Seq(Vertex) /\ indices \in Seq(Nat) /\ file.corners \in Seq(Vertex \union {Outside})
      /\ VerticesShared /\ MeshInv
  BY DataAssumption DEF DataInv, DataTypeOK
<1>2. Len(indices) < Len(file.corners)
  BY DEF ReadCorner
<1> DEFINE corner == file.corners[Len(indices) + 1]
<1>3. PICK v \in (IF corner = Outside THEN Vertex ELSE {corner}) : AddVertex(v)
  BY DEF ReadCorner
<1>4. v \in Vertex /\ (corner \in Vertex => v = corner)
  <2>1. corner \in Vertex \union {Outside}
    BY <1>1, <1>2
  <2> QED
    BY <1>3, <2>1, DataAssumption
<1> HIDE DEF corner
<1>5. /\ \A i, j \in DOMAIN vertices : vertices[i] = vertices[j] /\ vertices[i] \notin Odd => i = j
      /\ \A k \in DOMAIN indices : indices[k] < Len(vertices)
      /\ \A k \in DOMAIN indices :
            file.corners[k] \in Vertex \ Odd => vertices[indices[k] + 1] = file.corners[k]
  BY <1>1 DEF VerticesShared, MeshInv
<1>6. CASE Met(v) # {}
  <2>1. PICK k \in Met(v) : indices' = Append(indices, k - 1)
    BY <1>3, <1>6 DEF AddVertex
  <2>2. vertices' = vertices
    BY <1>3, <1>6 DEF AddVertex
  <2>3. k \in 1..Len(vertices) /\ vertices[k] = v /\ v \notin Odd
    BY <1>1, <2>1 DEF Met
  <2>4. /\ indices' \in Seq(Nat) /\ Len(indices') = Len(indices) + 1
        /\ \A n \in DOMAIN indices : indices'[n] = indices[n]
        /\ indices'[Len(indices) + 1] = k - 1
        /\ DOMAIN indices' = DOMAIN indices \union {Len(indices) + 1}
    BY <1>1, <2>1, <2>3
  <2>5. \A n \in DOMAIN indices' : indices'[n] < Len(vertices')
    BY <1>5, <2>2, <2>3, <2>4
  <2>6. \A n \in DOMAIN indices' :
            file.corners[n] \in Vertex \ Odd => vertices'[indices'[n] + 1] = file.corners[n]
    BY <1>4, <1>5, <2>2, <2>3, <2>4 DEF corner
  <2> QED
    BY <1>1, <1>2, <1>5, <2>2, <2>4, <2>5, <2>6 DEF VerticesShared
<1>7. CASE Met(v) = {}
  <2>1. /\ vertices' = Append(vertices, v)
        /\ indices' = Append(indices, IF v \in Odd THEN 0 ELSE Len(vertices))
    BY <1>3, <1>7 DEF AddVertex
  <2> DEFINE k == IF v \in Odd THEN 0 ELSE Len(vertices)
  <2>2. k \in Nat /\ k <= Len(vertices) /\ (v \notin Odd => k = Len(vertices))
    BY <1>1
  <2> HIDE DEF k
  <2>3. /\ indices' \in Seq(Nat) /\ Len(indices') = Len(indices) + 1
        /\ \A n \in DOMAIN indices : indices'[n] = indices[n]
        /\ indices'[Len(indices) + 1] = k
        /\ DOMAIN indices' = DOMAIN indices \union {Len(indices) + 1}
    BY <1>1, <2>1, <2>2 DEF k
  <2>4. /\ vertices' \in Seq(Vertex) /\ Len(vertices') = Len(vertices) + 1
        /\ \A n \in DOMAIN vertices : vertices'[n] = vertices[n]
        /\ vertices'[Len(vertices) + 1] = v
        /\ DOMAIN vertices' = DOMAIN vertices \union {Len(vertices) + 1}
    BY <1>1, <1>4, <2>1
  <2>5. \A n \in DOMAIN indices' : indices'[n] < Len(vertices')
    BY <1>1, <1>5, <2>2, <2>3, <2>4
  <2>6. \A n \in DOMAIN indices' :
            file.corners[n] \in Vertex \ Odd => vertices'[indices'[n] + 1] = file.corners[n]
    <3>1. ASSUME NEW n \in DOMAIN indices, file.corners[n] \in Vertex \ Odd
          PROVE  vertices'[indices'[n] + 1] = file.corners[n]
      <4>1. indices'[n] = indices[n] /\ indices[n] \in Nat /\ indices[n] < Len(vertices)
        BY <1>1, <1>5, <2>3
      <4>2. indices[n] + 1 \in DOMAIN vertices
        BY <1>1, <4>1
      <4> QED
        BY <1>5, <2>4, <3>1, <4>1, <4>2
    <3>2. file.corners[Len(indices) + 1] \in Vertex \ Odd =>
              vertices'[indices'[Len(indices) + 1] + 1] = file.corners[Len(indices) + 1]
      BY <1>1, <1>4, <2>2, <2>3, <2>4 DEF corner
    <3> QED
      BY <2>3, <3>1, <3>2
  <2>7. \A i, j \in DOMAIN vertices' : vertices'[i] = vertices'[j] /\ vertices'[i] \notin Odd => i = j
    <3>1. \A i \in DOMAIN vertices : vertices[i] = v => v \in Odd
      BY <1>7 DEF Met
    <3> QED
      BY <1>5, <2>4, <3>1
  <2> QED
    BY <1>2, <2>3, <2>4, <2>5, <2>6, <2>7 DEF VerticesShared
<1> QED
  BY <1>6, <1>7

(* Vertices and indices, corner by corner. *)
LEMMA MeshStep ==
    ASSUME DataInv, [DataNext]_dataVars
    PROVE  /\ vertices' \in Seq(Vertex) /\ indices' \in Seq(Nat)
           /\ VerticesShared' /\ MeshInv'
<1>1. DataTypeOK /\ Placed /\ VerticesShared /\ MeshInv
  BY DEF DataInv, DataTypeOK, Placed
<1>2. file' = file
  BY OnlyBy
<1>3. CASE ReadCorner
  <2>1. at \in DOMAIN calls /\ Now = "model" /\ Still
    BY <1>1, <1>3, Bounds DEF ReadCorner, At, Creating, place, Still
  <2>2. Progress("model")' = Progress("model")
    BY <2>1, Stayed DEF Still
  <2>3. Progress("model") # All
    <3>1. "model" \in Matters
      BY DEF Matters, OfStart
    <3>2. Progress("model") = done /\ done \in 0..8
      BY <1>1, <2>1, <3>1, ProgressOf, OpsLeft
    <3> QED
      BY <3>2 DEF All
  <2> QED
    BY <1>2, <1>3, <2>2, <2>3, CornerRead DEF MeshInv
<1>4. CASE UNCHANGED <<vertices, indices>>
  <2>1. Progress("model")' = All => Len(indices) = Len(file.corners)
    BY <1>1, Finishes DEF MeshInv, ModelLoaded
  <2> QED
    BY <1>1, <1>2, <1>4, <2>1 DEF VerticesShared, MeshInv, DataTypeOK
<1> QED
  BY <1>3, <1>4, OnlyBy

(* Only one function is in its midst. *)
LEMMA Midst ==
    ASSUME Placed, NEW o \in Matters, Progress(o) \notin {0, All}
    PROVE  at \in DOMAIN calls /\ Now = o /\ done = Progress(o)
<1>1. CASE at \in DOMAIN calls
  BY <1>1, ProgressOf
<1>2. CASE at \notin DOMAIN calls
  BY <1>2 DEF Placed, Progress, Reach
<1> QED
  BY <1>1, <1>2

(* The functions of several operations. *)
LEMMA LongOnes == {"depth", "texture", "vertexBuffer", "indexBuffer"} \subseteq Matters
BY DEF Matters, OfChain, OfStart

(* Where the running function is in the steps that take one of its operations. *)
LEMMA OperationAt ==
    ASSUME DataTypeOK
    PROVE  /\ Operate => Creating /\ Forward /\ at \in DOMAIN calls
           /\ CreateImage => (Now = "depth" /\ done = 0) \/ (Now = "texture" /\ done = 1)
           /\ CreateBuffer => Now \in {"vertexBuffer", "indexBuffer"} /\ done = 1
           /\ Stage => Now \in StagedFor /\ done = 0
           /\ Unstage => \/ Now = "texture" /\ done = 8
                         \/ Now \in {"vertexBuffer", "indexBuffer"} /\ done = 4
           /\ Attach => Now = "depth" /\ done = 1
           /\ Receive => Now = "texture" /\ done = 2
           /\ Show => Now = "texture" /\ done = 6
           /\ Copy => \/ Now = "texture" /\ done = 4
                      \/ Now \in {"vertexBuffer", "indexBuffer"} /\ done = 2
           /\ Wait => \/ Now = "depth" /\ done = 2
                      \/ Now = "texture" /\ done \in {3, 5, 7}
                      \/ Now \in {"vertexBuffer", "indexBuffer"} /\ done = 3
<1>1. Placed
  BY DEF DataTypeOK, Placed
<1>2. Operate => Creating /\ Forward
  BY DEF Operate, CreateImage, CreateBuffer, Stage, Unstage, Attach, Receive, Show, Copy, Wait,
      TransitionImageLayout, Submit, Doing
<1>3. Operate => at \in DOMAIN calls
  BY <1>1, <1>2, Bounds DEF Creating
<1>4. CreateImage => Creating /\ Doing("image")
  BY DEF CreateImage, Doing
<1>5. CreateBuffer => Creating /\ Doing("buffer")
  BY DEF CreateBuffer, Doing
<1>6. Stage => Creating /\ Doing("stage")
  BY DEF Stage, Doing
<1>7. Unstage => Creating /\ Doing("unstage")
  BY DEF Unstage, Doing
<1>8. Attach => Creating /\ Doing("attach")
  BY DEF Attach, Doing
<1>9. Receive => Creating /\ Doing("receive")
  BY DEF Receive, Doing
<1>10. Show => Creating /\ Doing("show")
  BY DEF Show, Doing
<1>11. Copy => Creating /\ Doing("copy")
  BY DEF Copy, Doing
<1>12. Wait => Creating /\ Doing("wait")
  BY DEF Wait, Doing
<1>13. CreateImage => (Now = "depth" /\ done = 0) \/ (Now = "texture" /\ done = 1)
  BY <1>1, <1>4, DoingIs
<1>14. CreateBuffer => Now \in {"vertexBuffer", "indexBuffer"} /\ done = 1
  BY <1>1, <1>5, DoingIs
<1>15. Stage => Now \in StagedFor /\ done = 0
  BY <1>1, <1>6, DoingIs
<1>16. Unstage => \/ Now = "texture" /\ done = 8
                  \/ Now \in {"vertexBuffer", "indexBuffer"} /\ done = 4
  BY <1>1, <1>7, DoingIs
<1>17. Attach => Now = "depth" /\ done = 1
  BY <1>1, <1>8, DoingIs
<1>18. Receive => Now = "texture" /\ done = 2
  BY <1>1, <1>9, DoingIs
<1>19. Show => Now = "texture" /\ done = 6
  BY <1>1, <1>10, DoingIs
<1>20. Copy => \/ Now = "texture" /\ done = 4
               \/ Now \in {"vertexBuffer", "indexBuffer"} /\ done = 2
  BY <1>1, <1>11, DoingIs
<1>21. Wait => \/ Now = "depth" /\ done = 2
               \/ Now = "texture" /\ done \in {3, 5, 7}
               \/ Now \in {"vertexBuffer", "indexBuffer"} /\ done = 3
  BY <1>1, <1>12, DoingIs
<1> QED
  BY <1>2, <1>3, <1>13, <1>14, <1>15, <1>16, <1>17, <1>18, <1>19, <1>20, <1>21

(* What a submission leaves behind. *)
LEMMA Submitted ==
    ASSUME DataInv, Submits
    PROVE  /\ Creating /\ Forward /\ at \in DOMAIN calls /\ Operate
           /\ queue = << >> /\ (~lost' => ~lost /\ queue' # << >>)
           /\ UNCHANGED <<image, buffer, staging, chain, machine, file, vertices, indices>>
<1>1. DataTypeOK /\ Placed /\ QueueInv /\ Operate
  BY DEF DataInv, DataTypeOK, Placed, Submits, Operate
<1>2. queue = << >>
  BY <1>1, Quiet
<1> QED
  BY <1>1, <1>2, OperationAt
  DEF Submits, Attach, Receive, Show, Copy, TransitionImageLayout, Submit, storage, targets, given, mesh

(* Which function a pending command is of. *)
LEMMA HeadIs ==
    ASSUME DataInv, queue # << >>
    PROVE  /\ Len(queue) = 1 /\ queue = <<Head(queue)>>
           /\ at \in DOMAIN calls /\ Now = Head(queue).of /\ done = Progress(Now)
           /\ Now = "depth" => /\ Progress("depth") = 2 /\ Head(queue).kind = "barrier"
                               /\ Head(queue).to = "depthAttachment"
           /\ Now = "texture" => \/ /\ Progress("texture") = 3 /\ Head(queue).kind = "barrier"
                                    /\ Head(queue).to = "transferTarget"
                                 \/ Progress("texture") = 5 /\ Head(queue).kind = "copy"
                                 \/ /\ Progress("texture") = 7 /\ Head(queue).kind = "barrier"
                                    /\ Head(queue).to = "shader"
                                    /\ Head(queue).from = "transferTarget"
           /\ Now \in {"vertexBuffer", "indexBuffer"} => Progress(Now) = 3 /\ Head(queue).kind = "copy"
           /\ Now \in {"depth", "texture", "vertexBuffer", "indexBuffer"}
<1>1. Placed /\ QueueInv
  BY DEF DataInv, DataTypeOK, Placed
<1>2. \A o \in {"depth", "texture", "vertexBuffer", "indexBuffer"} :
          Progress(o) \notin {0, All} => at \in DOMAIN calls /\ Now = o /\ done = Progress(o)
  BY <1>1, Midst, LongOnes
<1>3. CASE /\ Progress("depth") = 2
           /\ queue = <<Barrier("depth", "undefined", "depthAttachment",
                                Aspects(DepthFormat(machine), "depthAttachment"))>>
  <2>1. at \in DOMAIN calls /\ Now = "depth" /\ done = 2
    BY <1>2, <1>3 DEF All
  <2> QED
    BY <1>3, <2>1 DEF Barrier
<1>4. CASE /\ Progress("texture") = 3
           /\ queue = <<Barrier("texture", "preinitialized", "transferTarget", {"color"})>>
  <2>1. at \in DOMAIN calls /\ Now = "texture" /\ done = 3
    BY <1>2, <1>4 DEF All
  <2> QED
    BY <1>4, <2>1 DEF Barrier
<1>5. CASE /\ Progress("texture") = 7
           /\ queue = <<Barrier("texture", "transferTarget", "shader", {"color"})>>
  <2>1. at \in DOMAIN calls /\ Now = "texture" /\ done = 7
    BY <1>2, <1>5 DEF All
  <2> QED
    BY <1>5, <2>1 DEF Barrier
<1>6. CASE Progress("texture") = 5 /\ queue = <<[kind |-> "copy", of |-> "texture"]>>
  <2>1. at \in DOMAIN calls /\ Now = "texture" /\ done = 5
    BY <1>2, <1>6 DEF All
  <2> QED
    BY <1>6, <2>1
<1>7. CASE \E o \in {"vertexBuffer", "indexBuffer"} :
              Progress(o) = 3 /\ queue = <<[kind |-> "copy", of |-> o]>>
  <2>1. PICK o \in {"vertexBuffer", "indexBuffer"} :
              Progress(o) = 3 /\ queue = <<[kind |-> "copy", of |-> o]>>
    BY <1>7
  <2>2. at \in DOMAIN calls /\ Now = o /\ done = 3
    BY <1>2, <2>1 DEF All
  <2> QED
    BY <2>1, <2>2
<1> QED
  BY <1>1, <1>3, <1>4, <1>5, <1>6, <1>7 DEF QueueInv

-----------------------------------------------------------------------------
(* The depth image. *)
LEMMA DepthKept ==
    ASSUME DepthInv, Progress("depth")' = Progress("depth"), UNCHANGED <<machine, chain>>,
           image'["depth"] = image["depth"], ~lost' => ~lost,
           Progress("depth") # 2 \/ queue' = queue
    PROVE  DepthInv'
BY DEF DepthInv

(* It is made, attached, and stays attached until its next creation. *)
LEMMA DepthStep ==
    ASSUME DataInv, [DataNext]_dataVars
    PROVE  DepthInv'
<1>1. DataTypeOK /\ Placed /\ DepthInv /\ QueueInv /\ ShapeInv
  BY DEF DataInv, DataTypeOK, Placed
<1>2. machine' = machine /\ "depth" \in Matters /\ "depth" \in OfChain
  BY OnlyBy DEF Matters, OfChain
<1>3. CASE CreateSwapChain
  <2>1. Creating /\ Forward /\ Now = "swapchain" /\ at \in DOMAIN calls
    BY <1>1, <1>3, Bounds DEF CreateSwapChain, At, Creating
  <2>2. Progress("depth")' = 0
    BY <1>1, <1>2, <2>1, Ordered, Forwarded
  <2> QED
    BY <2>2 DEF DepthInv
<1>4. CASE Recreate
  <2>1. Progress("depth")' = 0
    BY <1>2, <1>4, Restarted
  <2> QED
    BY <2>1 DEF DepthInv
<1>5. CASE CreateImage
  <2>1. Creating /\ Forward /\ UNCHANGED <<chain, queue, lost>>
    BY <1>1, <1>5, OperationAt DEF CreateImage, Operate, targets
  <2>2. CASE Now = "depth"
    <3>1. Progress("depth")' = 1
      BY <1>1, <1>5, <2>1, <2>2, Long, OperationAt
    <3>2. /\ image'["depth"].format = DepthFormat(machine)
          /\ image'["depth"].extent = chain.extent /\ image'["depth"].layout = "preinitialized"
      BY <1>1, <1>5, <2>2 DEF CreateImage, ImageFormat, ShapeInv
    <3> QED
      BY <1>2, <2>1, <3>1, <3>2 DEF DepthInv
  <2>3. CASE Now # "depth"
    <3>1. Progress("depth")' = Progress("depth")
      BY <1>1, <1>2, <2>1, <2>3, Forwarded
    <3>2. image'["depth"] = image["depth"]
      BY <1>1, <1>5, <2>3 DEF CreateImage, ShapeInv
    <3> QED
      BY <1>1, <1>2, <2>1, <3>1, <3>2, DepthKept
  <2> QED
    BY <2>2, <2>3
<1>6. CASE Submits
  <2>1. /\ Creating /\ Forward /\ at \in DOMAIN calls /\ (~lost' => ~lost /\ queue' # << >>)
        /\ UNCHANGED <<image, chain>>
    BY <1>6, Submitted
  <2>2. CASE Now = "depth"
    <3>1. Attach /\ done = 1
      BY <1>1, <1>6, <2>2, OperationAt DEF Submits
    <3>2. Progress("depth") = 1 /\ Progress("depth")' = 2
      BY <1>1, <2>1, <2>2, <3>1, Long
    <3> QED
      BY <1>1, <1>2, <2>1, <3>2 DEF DepthInv
  <2>3. CASE Now # "depth"
    <3>1. Progress("depth")' = Progress("depth") /\ Progress("depth") # 2
      BY <1>1, <1>2, <2>1, <2>3, Forwarded, ProgressOf DEF All
    <3> QED
      BY <1>1, <1>2, <2>1, <3>1, DepthKept
  <2> QED
    BY <2>2, <2>3
<1>7. CASE Wait
  <2>1. Creating /\ Forward /\ queue = << >> /\ UNCHANGED <<chain, image, queue, lost>>
    BY <1>1, <1>7, OperationAt DEF Wait, Operate, targets, storage
  <2>2. CASE Now = "depth"
    <3>1. Progress("depth") = 2 /\ Progress("depth")' = All
      BY <1>1, <1>7, <2>1, <2>2, Long, OperationAt
    <3> QED
      BY <1>1, <1>2, <2>1, <3>1 DEF DepthInv
  <2>3. CASE Now # "depth"
    <3>1. Progress("depth")' = Progress("depth")
      BY <1>1, <1>2, <2>1, <2>3, Forwarded
    <3> QED
      BY <1>1, <1>2, <2>1, <3>1, DepthKept
  <2> QED
    BY <2>2, <2>3
<1>8. CASE Execute
  <2>1. /\ queue # << >> /\ queue' = Tail(queue) /\ UNCHANGED <<calls, at, done, chain, lost>>
        /\ \/ /\ Head(queue).kind = "barrier"
              /\ image' = [image EXCEPT ![Head(queue).of] = Moved(Head(queue))]
           \/ /\ Head(queue).kind = "copy"
              /\ \/ image' = [image EXCEPT !["texture"].holds = Arrived(Head(queue))]
                 \/ UNCHANGED image
    BY <1>8 DEF Execute, ExecuteBarrier, ExecuteCopy, place, targets
  <2>2. Progress("depth")' = Progress("depth")
    BY <2>1, Stayed
  <2>3. CASE Now = "depth"
    <3>1. /\ Progress("depth") = 2 /\ Head(queue).of = "depth" /\ Head(queue).kind = "barrier"
          /\ Head(queue).to = "depthAttachment"
      BY <2>1, <2>3, HeadIs
    <3>2. image'["depth"] = Moved(Head(queue))
      BY <1>1, <2>1, <3>1 DEF ShapeInv
    <3>3. /\ image'["depth"].format = image["depth"].format
          /\ image'["depth"].extent = image["depth"].extent
          /\ image'["depth"].layout = IF Fitting(Head(queue)) THEN "depthAttachment" ELSE "broken"
      BY <1>1, <3>1, <3>2 DEF Moved, ShapeInv
    <3>4. ~lost => Fitting(Head(queue))
      BY <2>1, PendingFitsNow
    <3> QED
      BY <1>1, <1>2, <2>1, <2>2, <3>1, <3>3, <3>4 DEF DepthInv
  <2>4. CASE Now # "depth"
    <3>1. Progress("depth") # 2
      BY <1>1, <1>2, <2>4, Midst DEF All
    <3>2. Head(queue).of # "depth"
      BY <2>1, <2>4, HeadIs
    <3>3. image'["depth"] = image["depth"]
      BY <1>1, <2>1, <3>2 DEF ShapeInv
    <3> QED
      BY <1>1, <1>2, <2>1, <2>2, <3>1, <3>3, DepthKept
  <2> QED
    BY <2>3, <2>4
<1>9. CASE /\ ~CreateSwapChain /\ ~Recreate /\ ~CreateImage /\ ~Submits /\ ~Wait /\ ~Execute
  <2>1. UNCHANGED <<chain, image, queue, lost>>
    BY <1>9, OnlyBy
  <2>2. Progress("depth")' = Progress("depth")
    BY <1>1, <1>2, <1>9, Progresses, Moves, MovesForward DEF Submits
  <2> QED
    BY <1>1, <1>2, <2>1, <2>2, DepthKept
<1> QED
  BY <1>3, <1>4, <1>5, <1>6, <1>7, <1>8, <1>9

-----------------------------------------------------------------------------
(* The texture. *)
LEMMA TextureKept ==
    ASSUME TextureInv, Progress("texture")' = Progress("texture"), UNCHANGED file,
           image'["texture"] = image["texture"], ~lost' => ~lost,
           Progress("texture") \notin {3, 5, 7} \/ queue' = queue
    PROVE  TextureInv'
BY DEF TextureInv, Receiving, Received, Shown, Copied

(* It is in the layout its next command needs, and holds the file once the copy is through. *)
LEMMA TextureStep ==
    ASSUME DataInv, [DataNext]_dataVars
    PROVE  TextureInv'
<1>1. DataTypeOK /\ Placed /\ TextureInv /\ QueueInv /\ ShapeInv /\ StagingInv
  BY DEF DataInv, DataTypeOK, Placed
<1>2. file' = file /\ "texture" \in Matters /\ "texture" \notin OfChain
  BY OnlyBy DEF Matters, OfStart, OfChain
<1>3. CASE Recreate
  <2>1. Progress("texture") = All /\ Progress("texture")' = All
    BY <1>1, <1>2, <1>3, Restarted, AllThrough DEF Recreate
  <2>2. UNCHANGED <<image, lost, queue>>
    BY <1>3 DEF Recreate, storage
  <2> QED
    BY <1>1, <1>2, <2>1, <2>2, TextureKept
<1>4. CASE CreateImage
  <2>1. Creating /\ Forward /\ UNCHANGED <<queue, lost>>
    BY <1>1, <1>4, OperationAt DEF CreateImage, Operate
  <2>2. CASE Now = "texture"
    <3>1. Progress("texture")' = 2
      BY <1>1, <1>4, <2>1, <2>2, Long, OperationAt
    <3>2. image'["texture"].format = "A8B8G8R8" /\ image'["texture"].layout = "preinitialized"
      BY <1>1, <1>4, <2>2 DEF CreateImage, ImageFormat, ShapeInv
    <3> QED
      BY <3>1, <3>2 DEF TextureInv, Receiving, Received, Shown, Copied
  <2>3. CASE Now # "texture"
    <3>1. Progress("texture")' = Progress("texture")
      BY <1>1, <1>2, <2>1, <2>3, Forwarded
    <3>2. image'["texture"] = image["texture"]
      BY <1>1, <1>4, <2>3 DEF CreateImage, ShapeInv
    <3> QED
      BY <1>1, <1>2, <2>1, <3>1, <3>2, TextureKept
  <2> QED
    BY <2>2, <2>3
<1>5. CASE Submits
  <2>1. /\ Creating /\ Forward /\ at \in DOMAIN calls /\ queue = << >>
        /\ (~lost' => ~lost /\ queue' # << >>) /\ UNCHANGED image
    BY <1>5, Submitted
  <2>2. CASE Now = "texture"
    <3>1. done \in {2, 4, 6}
      BY <1>1, <1>5, <2>2, OperationAt DEF Submits
    <3>2. Progress("texture") = done /\ Progress("texture")' = done + 1
      BY <1>1, <2>1, <2>2, <3>1, Long
    <3>3. CASE done = 2
      BY <1>1, <1>2, <2>1, <3>2, <3>3 DEF TextureInv, Receiving, Received, Shown, Copied
    <3>4. CASE done = 4
      BY <1>1, <1>2, <2>1, <3>2, <3>4 DEF TextureInv, Receiving, Received, Shown, Copied
    <3>5. CASE done = 6
      BY <1>1, <1>2, <2>1, <3>2, <3>5 DEF TextureInv, Receiving, Received, Shown, Copied
    <3> QED
      BY <3>1, <3>3, <3>4, <3>5
  <2>3. CASE Now # "texture"
    <3>1. Progress("texture")' = Progress("texture") /\ Progress("texture") \notin {3, 5, 7}
      BY <1>1, <1>2, <2>1, <2>3, Forwarded, ProgressOf DEF All
    <3> QED
      BY <1>1, <1>2, <2>1, <3>1, TextureKept
  <2> QED
    BY <2>2, <2>3
<1>6. CASE Wait
  <2>1. Creating /\ Forward /\ queue = << >> /\ UNCHANGED <<image, queue, lost>>
    BY <1>1, <1>6, OperationAt DEF Wait, Operate, storage
  <2>2. CASE Now = "texture"
    <3>1. done \in {3, 5, 7}
      BY <1>1, <1>6, <2>2, OperationAt
    <3>2. Progress("texture") = done /\ Progress("texture")' = done + 1
      BY <1>1, <2>1, <2>2, <3>1, Long
    <3>3. CASE done = 3
      BY <1>1, <1>2, <2>1, <3>2, <3>3 DEF TextureInv, Receiving, Received, Shown, Copied
    <3>4. CASE done = 5
      BY <1>1, <1>2, <2>1, <3>2, <3>4 DEF TextureInv, Receiving, Received, Shown, Copied
    <3>5. CASE done = 7
      BY <1>1, <1>2, <2>1, <3>2, <3>5 DEF TextureInv, Receiving, Received, Shown, Copied
    <3> QED
      BY <3>1, <3>3, <3>4, <3>5
  <2>3. CASE Now # "texture"
    <3>1. Progress("texture")' = Progress("texture")
      BY <1>1, <1>2, <2>1, <2>3, Forwarded
    <3> QED
      BY <1>1, <1>2, <2>1, <3>1, TextureKept
  <2> QED
    BY <2>2, <2>3
<1>7. CASE Stage \/ Unstage
  <2>1. Creating /\ Forward /\ UNCHANGED <<image, queue, lost>>
    BY <1>1, <1>7, OperationAt DEF Stage, Unstage, Operate
  <2>2. CASE Now = "texture"
    <3>1. done \in {0, 8}
      BY <1>1, <1>7, <2>2, OperationAt
    <3>2. /\ Progress("texture") = done
          /\ Progress("texture")' = IF done = 8 THEN All ELSE 1
      BY <1>1, <2>1, <2>2, <3>1, Long
    <3> QED
      BY <1>1, <1>2, <2>1, <3>1, <3>2 DEF TextureInv, Receiving, Received, Shown, Copied, All
  <2>3. CASE Now # "texture"
    <3>1. Progress("texture")' = Progress("texture")
      BY <1>1, <1>2, <2>1, <2>3, Forwarded
    <3> QED
      BY <1>1, <1>2, <2>1, <3>1, TextureKept
  <2> QED
    BY <2>2, <2>3
<1>8. CASE Execute
  <2>1. /\ queue # << >> /\ queue' = Tail(queue) /\ UNCHANGED <<calls, at, done, staging, lost>>
        /\ \/ /\ Head(queue).kind = "barrier"
              /\ image' = [image EXCEPT ![Head(queue).of] = Moved(Head(queue))]
           \/ /\ Head(queue).kind = "copy"
              /\ IF Head(queue).of = "texture"
                 THEN image' = [image EXCEPT !["texture"].holds = Arrived(Head(queue))]
                 ELSE UNCHANGED image
    BY <1>8 DEF Execute, ExecuteBarrier, ExecuteCopy, place, targets
  <2>2. Progress("texture")' = Progress("texture")
    BY <2>1, Stayed
  <2>3. Now = Head(queue).of /\ queue = <<Head(queue)>> /\ (~lost => Fitting(Head(queue)))
    BY <2>1, HeadIs, PendingFitsNow
  <2>3a. queue' = << >>
    BY <2>1, <2>3
  <2>4. CASE Now = "texture"
    <3>1. \/ /\ Progress("texture") = 3 /\ Head(queue).kind = "barrier"
             /\ Head(queue).to = "transferTarget"
          \/ Progress("texture") = 5 /\ Head(queue).kind = "copy"
          \/ /\ Progress("texture") = 7 /\ Head(queue).kind = "barrier"
             /\ Head(queue).to = "shader" /\ Head(queue).from = "transferTarget"
      BY <2>1, <2>4, HeadIs
    <3>2. CASE Head(queue).kind = "barrier"
      <4>1. image'["texture"] = Moved(Head(queue))
        BY <1>1, <2>1, <2>3, <2>4, <3>2 DEF ShapeInv
      <4>2. /\ image'["texture"].format = image["texture"].format
            /\ image'["texture"].layout = IF Fitting(Head(queue)) THEN Head(queue).to ELSE "broken"
            /\ Fitting(Head(queue)) /\ Head(queue).from # "undefined" =>
                  image'["texture"].holds = image["texture"].holds
        BY <1>1, <2>3, <2>4, <4>1 DEF Moved, ShapeInv
      <4>3. CASE Progress("texture") = 3
        BY <1>1, <2>1, <2>2, <2>3, <2>3a, <3>1, <4>2, <4>3
        DEF TextureInv, Receiving, Received, Shown, Copied
      <4>4. CASE Progress("texture") = 7
        BY <1>1, <1>2, <2>1, <2>2, <2>3, <2>3a, <3>1, <4>2, <4>4
        DEF TextureInv, Receiving, Received, Shown, Copied
      <4> QED
        BY <3>1, <3>2, <4>3, <4>4
    <3>3. CASE Head(queue).kind = "copy"
      <4>1. Progress("texture") = 5
        BY <3>1, <3>3
      <4>2. image' = [image EXCEPT !["texture"].holds = Arrived(Head(queue))]
        BY <2>1, <2>3, <2>4, <3>3
      <4>3. /\ image'["texture"].format = image["texture"].format
            /\ image'["texture"].layout = image["texture"].layout
            /\ image'["texture"].holds = Arrived(Head(queue))
        BY <1>1, <4>2 DEF ShapeInv
      <4>4. staging.holds = file.texture
        BY <1>1, <4>1 DEF StagingInv, StagedFor, Data
      <4> QED
        BY <1>1, <1>2, <2>1, <2>2, <2>3, <2>3a, <4>1, <4>3, <4>4
        DEF TextureInv, Receiving, Received, Shown, Copied, Arrived
    <3> QED
      BY <3>1, <3>2, <3>3
  <2>5. CASE Now # "texture"
    <3>1. Progress("texture") \notin {3, 5, 7}
      BY <1>1, <1>2, <2>5, Midst DEF All
    <3>2. image'["texture"] = image["texture"]
      BY <1>1, <2>1, <2>3, <2>5 DEF ShapeInv
    <3> QED
      BY <1>1, <1>2, <2>1, <2>2, <3>1, <3>2, TextureKept
  <2> QED
    BY <2>4, <2>5
<1>9. CASE ~Recreate /\ ~CreateImage /\ ~Submits /\ ~Wait /\ ~Stage /\ ~Unstage /\ ~Execute
  <2>1. UNCHANGED <<image, queue, lost>>
    BY <1>9, OnlyBy
  <2>2. Progress("texture")' = Progress("texture")
    BY <1>1, <1>2, <1>9, Progresses, Moves, MovesForward DEF Submits
  <2> QED
    BY <1>1, <1>2, <2>1, <2>2, TextureKept
<1> QED
  BY <1>3, <1>4, <1>5, <1>6, <1>7, <1>8, <1>9

-----------------------------------------------------------------------------
(* The buffers of vertices and indices. *)
LEMMA FilledKept ==
    ASSUME NEW o, FilledInv(o), Progress(o)' = Progress(o), Data(o)' = Data(o),
           buffer'[o] = buffer[o], ~lost' => ~lost, Progress(o) # 3 \/ queue' = queue
    PROVE  FilledInv(o)'
BY DEF FilledInv

(* Each is made, filled, and stays filled. *)
LEMMA FilledStep ==
    ASSUME DataInv, [DataNext]_dataVars, NEW o \in {"vertexBuffer", "indexBuffer"}
    PROVE  FilledInv(o)'
<1>1. /\ DataTypeOK /\ Placed /\ FilledInv(o) /\ QueueInv /\ ShapeInv /\ StagingInv
      /\ machine \in Machine
  BY DEF DataInv, DataTypeOK, Placed, BufferInv
<1>2. o \in Matters /\ o \notin OfChain /\ o \in DOMAIN buffer /\ o \in StagedFor
  BY <1>1 DEF Matters, OfStart, OfChain, ShapeInv, StagedFor
<1>3. CASE ReadCorner
  <2>1. at \in DOMAIN calls /\ Now = "model" /\ Still
    BY <1>1, <1>3, Bounds DEF ReadCorner, At, Creating, place, Still
  <2>2. Progress(o) = 0
    BY <1>1, <2>1, Ordered
  <2>3. Progress(o)' = 0
    BY <2>1, <2>2, Stayed DEF Still
  <2> QED
    BY <2>3 DEF FilledInv
<1>4. UNCHANGED <<vertices, indices>> => Data(o)' = Data(o)
  BY DEF Data
<1>5. CASE Recreate
  <2>1. Progress(o) = All /\ Progress(o)' = All
    BY <1>1, <1>2, <1>5, Restarted, AllThrough DEF Recreate
  <2>2. UNCHANGED <<buffer, lost, queue, vertices, indices>>
    BY <1>5 DEF Recreate, storage, mesh
  <2> QED
    BY <1>1, <1>4, <2>1, <2>2, FilledKept
<1>6. CASE CreateBuffer
  <2>1. Creating /\ Forward /\ UNCHANGED <<queue, lost, vertices, indices>>
    BY <1>1, <1>6, OperationAt DEF CreateBuffer, Operate, mesh
  <2>2. CASE Now = o
    <3>1. Progress(o)' = 2
      BY <1>1, <1>6, <2>1, <2>2, Long, OperationAt
    <3>2. PICK m \in Properties :
               Memory(DeviceLocal, m) /\ buffer' = [buffer EXCEPT ![Now] = [memory |-> m, holds |-> Junk]]
      BY <1>6 DEF CreateBuffer
    <3>3. DeviceLocal \subseteq m /\ buffer'[o].memory = m
      BY <1>1, <1>2, <2>2, <3>2, MemoryIs
    <3> QED
      BY <3>1, <3>3 DEF FilledInv
  <2>3. CASE Now # o
    <3>1. Progress(o)' = Progress(o)
      BY <1>1, <1>2, <2>1, <2>3, Forwarded
    <3>2. buffer'[o] = buffer[o]
      BY <1>1, <1>2, <1>6, <2>3 DEF CreateBuffer
    <3> QED
      BY <1>1, <1>4, <2>1, <3>1, <3>2, FilledKept
  <2> QED
    BY <2>2, <2>3
<1>7. CASE Submits
  <2>1. /\ Creating /\ Forward /\ at \in DOMAIN calls /\ queue = << >>
        /\ (~lost' => ~lost /\ queue' # << >>) /\ UNCHANGED <<buffer, vertices, indices>>
    BY <1>7, Submitted
  <2>2. CASE Now = o
    <3>1. done = 2
      BY <1>1, <1>7, <2>2, OperationAt DEF Submits
    <3>2. Progress(o) = 2 /\ Progress(o)' = 3
      BY <1>1, <2>1, <2>2, <3>1, Long
    <3> QED
      BY <1>1, <2>1, <3>2 DEF FilledInv
  <2>3. CASE Now # o
    <3>1. Progress(o)' = Progress(o) /\ Progress(o) # 3
      BY <1>1, <1>2, <2>1, <2>3, Forwarded, ProgressOf DEF All
    <3> QED
      BY <1>1, <1>4, <2>1, <3>1, FilledKept
  <2> QED
    BY <2>2, <2>3
<1>8. CASE Wait
  <2>1. Creating /\ Forward /\ queue = << >> /\ UNCHANGED <<buffer, queue, lost, vertices, indices>>
    BY <1>1, <1>8, OperationAt DEF Wait, Operate, storage, mesh
  <2>2. CASE Now = o
    <3>1. Progress(o) = 3 /\ Progress(o)' = 4
      BY <1>1, <1>8, <2>1, <2>2, Long, OperationAt
    <3> QED
      BY <1>1, <1>4, <2>1, <3>1 DEF FilledInv
  <2>3. CASE Now # o
    <3>1. Progress(o)' = Progress(o)
      BY <1>1, <1>2, <2>1, <2>3, Forwarded
    <3> QED
      BY <1>1, <1>4, <2>1, <3>1, FilledKept
  <2> QED
    BY <2>2, <2>3
<1>9. CASE Stage \/ Unstage
  <2>1. Creating /\ Forward /\ UNCHANGED <<buffer, queue, lost, vertices, indices>>
    BY <1>1, <1>9, OperationAt DEF Stage, Unstage, Operate, mesh
  <2>2. CASE Now = o
    <3>1. done \in {0, 4}
      BY <1>1, <1>9, <2>2, OperationAt
    <3>2. Progress(o) = done /\ Progress(o)' = IF done = 4 THEN All ELSE 1
      BY <1>1, <2>1, <2>2, <3>1, Long
    <3> QED
      BY <1>1, <1>4, <2>1, <3>1, <3>2 DEF FilledInv, All
  <2>3. CASE Now # o
    <3>1. Progress(o)' = Progress(o)
      BY <1>1, <1>2, <2>1, <2>3, Forwarded
    <3> QED
      BY <1>1, <1>4, <2>1, <3>1, FilledKept
  <2> QED
    BY <2>2, <2>3
<1>10. CASE Execute
  <2>1. /\ queue # << >> /\ queue' = Tail(queue)
        /\ UNCHANGED <<calls, at, done, staging, lost, vertices, indices>>
        /\ \/ Head(queue).kind = "barrier" /\ UNCHANGED buffer
           \/ /\ Head(queue).kind = "copy"
              /\ IF Head(queue).of = "texture" THEN UNCHANGED buffer
                 ELSE buffer' = [buffer EXCEPT ![Head(queue).of].holds = Arrived(Head(queue))]
    BY <1>10 DEF Execute, ExecuteBarrier, ExecuteCopy, place, targets, mesh
  <2>2. Progress(o)' = Progress(o)
    BY <2>1, Stayed
  <2>3. Now = Head(queue).of /\ queue = <<Head(queue)>> /\ (~lost => Fitting(Head(queue)))
    BY <2>1, HeadIs, PendingFitsNow
  <2>4. CASE Now = o
    <3>1. Progress(o) = 3 /\ Head(queue).kind = "copy"
      BY <2>1, <2>4, HeadIs
    <3>2. buffer' = [buffer EXCEPT ![o].holds = Arrived(Head(queue))]
      BY <2>1, <2>3, <2>4, <3>1
    <3>3. buffer'[o].memory = buffer[o].memory /\ buffer'[o].holds = Arrived(Head(queue))
      BY <1>1, <1>2, <3>2 DEF ShapeInv
    <3>4. staging.holds = Data(o)
      BY <1>1, <1>2, <3>1 DEF StagingInv
    <3> QED
      BY <1>1, <1>4, <2>1, <2>2, <2>3, <3>1, <3>3, <3>4 DEF FilledInv, Arrived
  <2>5. CASE Now # o
    <3>1. Progress(o) # 3
      BY <1>1, <1>2, <2>5, Midst DEF All
    <3>2. buffer'[o] = buffer[o]
      BY <1>2, <2>1, <2>3, <2>5
    <3> QED
      BY <1>1, <1>4, <2>1, <2>2, <3>1, <3>2, FilledKept
  <2> QED
    BY <2>4, <2>5
<1>11. CASE CreateUniformBuffer
  <2>1. Creating /\ Forward /\ Now = "uniformBuffer" /\ UNCHANGED <<queue, lost, vertices, indices>>
    BY <1>11 DEF CreateUniformBuffer, At, mesh
  <2>2. Progress(o)' = Progress(o)
    BY <1>1, <1>2, <2>1, Forwarded
  <2>3. buffer'[o] = buffer[o]
    BY <1>1, <1>2, <1>11 DEF CreateUniformBuffer
  <2> QED
    BY <1>1, <1>4, <2>1, <2>2, <2>3, FilledKept
<1>12. CASE /\ ~ReadCorner /\ ~Recreate /\ ~CreateBuffer /\ ~Submits /\ ~Wait /\ ~Stage /\ ~Unstage
            /\ ~Execute /\ ~CreateUniformBuffer
  <2>1. UNCHANGED <<buffer, queue, lost, vertices, indices>>
    BY <1>12, OnlyBy DEF Execute
  <2>2. Progress(o)' = Progress(o)
    BY <1>1, <1>2, <1>12, Progresses, Moves, MovesForward DEF Submits
  <2> QED
    BY <1>1, <1>4, <2>1, <2>2, FilledKept
<1> QED
  BY <1>3, <1>5, <1>6, <1>7, <1>8, <1>9, <1>10, <1>11, <1>12

(* All three buffers. *)
LEMMA BufferStep ==
    ASSUME DataInv, [DataNext]_dataVars
    PROVE  BufferInv'
<1>1. DataTypeOK /\ BufferInv /\ ShapeInv /\ machine \in Machine /\ Placed
  BY DEF DataInv, DataTypeOK, Placed
<1>2. FilledInv("vertexBuffer")' /\ FilledInv("indexBuffer")'
  BY FilledStep
<1>3. (Progress("uniformBuffer") = All => Staged \subseteq buffer["uniformBuffer"].memory)'
  <2>1. CASE CreateUniformBuffer
    <3>1. PICK m \in Properties :
              /\ Memory(Staged, m)
              /\ buffer' = [buffer EXCEPT !["uniformBuffer"] = [memory |-> m, holds |-> Junk]]
      BY <2>1 DEF CreateUniformBuffer
    <3>2. Staged \subseteq m /\ buffer'["uniformBuffer"].memory = m
      BY <1>1, <3>1, MemoryIs DEF ShapeInv
    <3> QED
      BY <3>2
  <2>2. CASE ~CreateUniformBuffer
    <3>1. buffer'["uniformBuffer"] = buffer["uniformBuffer"]
      <4>1. CASE CreateBuffer
        BY <1>1, <4>1, OperationAt DEF CreateBuffer, ShapeInv
      <4>2. CASE ExecuteCopy
        <5>1. queue # << >> /\ Head(queue).of # "uniformBuffer"
          BY <4>2, HeadIs DEF ExecuteCopy
        <5> QED
          BY <1>1, <4>2, <5>1 DEF ExecuteCopy, ShapeInv
      <4> QED
        BY <2>2, <4>1, <4>2, OnlyBy
    <3>2. Progress("uniformBuffer")' = All => Progress("uniformBuffer") = All
      BY <1>1, <2>2, Finishes
    <3> QED
      BY <1>1, <3>1, <3>2 DEF BufferInv
  <2> QED
    BY <2>1, <2>2
<1> QED
  BY <1>2, <1>3 DEF BufferInv

-----------------------------------------------------------------------------
(* The staging buffer. *)
Using(o) == Progress(o) \in 1..8

(* A function that is running has the staging buffer between its first and *)
(* its last operation.                                                     *)
LEMMA UsingKept ==
    ASSUME DataTypeOK, [DataNext]_dataVars, ~Stage, ~Unstage, NEW o \in StagedFor
    PROVE  /\ Using(o)' <=> Using(o)
           /\ Progress(o)' \in {0, All} <=> Progress(o) \in {0, All}
<1>1. Placed /\ o \in Matters /\ o \notin OfChain
  BY DEF DataTypeOK, Placed, Matters, OfStart, OfChain, StagedFor
<1>2. CASE Progress(o)' = Progress(o)
  BY <1>2 DEF Using
<1>3. CASE Creating /\ Forward /\ Now = o /\ Progress(o)' # Progress(o)
  <2>1. \/ o = "texture" /\ (CreateImage \/ Receive \/ Wait \/ Copy \/ Show)
        \/ o \in {"vertexBuffer", "indexBuffer"} /\ (CreateBuffer \/ Copy \/ Wait)
    BY <1>1, <1>3, Moves, MovesForward DEF StagedFor
  <2>2. \/ o = "texture" /\ done \in 1..7
        \/ o \in {"vertexBuffer", "indexBuffer"} /\ done \in 1..3
    BY <1>3, <2>1, OperationAt
  <2>3. Progress(o) = done /\ Progress(o)' = done + 1
    BY <1>3, <2>2, Long
  <2> QED
    BY <2>2, <2>3 DEF Using, All
<1> QED
  BY <1>1, <1>2, <1>3, Progresses

(* Nobody else has it. *)
LEMMA OneUser ==
    ASSUME Placed, NEW o \in StagedFor, Now # o
    PROVE  ~Using(o) /\ Progress(o) \in {0, All}
<1>1. o \in Matters
  BY DEF Matters, OfStart, StagedFor
<1>2. Progress(o) \in {0, All}
  BY <1>1, Midst
<1> QED
  BY <1>2 DEF Using, All

(* It is filled by the function that uses it and gone when that is through. *)
LEMMA StagingStep ==
    ASSUME DataInv, [DataNext]_dataVars
    PROVE  StagingInv'
<1>1. DataTypeOK /\ Placed /\ StagingInv /\ machine \in Machine
  BY DEF DataInv, DataTypeOK, Placed
<1>2. /\ \A o \in StagedFor : Using(o) => Staged \subseteq staging.memory /\ staging.holds = Data(o)
      /\ (\A o \in StagedFor : Progress(o) \in {0, All}) => staging = NoBuffer
  BY <1>1 DEF StagingInv, Using
<1>3. SUFFICES
        /\ \A o \in StagedFor : Using(o)' => Staged \subseteq staging'.memory /\ staging'.holds = Data(o)'
        /\ (\A o \in StagedFor : Progress(o)' \in {0, All}) => staging' = NoBuffer
  BY DEF StagingInv, Using
<1>4. CASE Stage \/ Unstage
  <2>1. Creating /\ Forward /\ at \in DOMAIN calls /\ UNCHANGED <<file, vertices, indices>>
    BY <1>1, <1>4, OperationAt DEF Operate, Stage, Unstage, given, mesh
  <2>2. Now \in StagedFor
    BY <1>1, <1>4, OperationAt DEF StagedFor
  <2>3. ASSUME NEW o \in StagedFor, o # Now
        PROVE  ~Using(o)' /\ Progress(o)' \in {0, All}
    <3>1. o \in Matters
      BY DEF Matters, OfStart, StagedFor
    <3>2. Progress(o)' = Progress(o)
      BY <1>1, <2>1, <2>3, <3>1, Forwarded
    <3> QED
      BY <1>1, <2>3, <3>2, OneUser DEF Using
  <2>4. \A o : Data(o)' = Data(o)
    BY <2>1 DEF Data
  <2>5. CASE Stage
    <3>1. \A o \in StagedFor : Now = o => Progress(o)' = 1
      BY <1>1, <2>1, <2>5, Long, OperationAt DEF StagedFor
    <3>2. PICK m \in Properties :
              /\ Memory(Staged, m)
              /\ staging' = [memory |-> m, holds |-> IF Staged \subseteq m THEN Data(Now) ELSE Junk]
      BY <2>5 DEF Stage
    <3>3. Staged \subseteq staging'.memory /\ staging'.holds = Data(Now)
      BY <1>1, <3>2, MemoryIs
    <3> QED
      BY <2>2, <2>3, <2>4, <3>1, <3>3 DEF All
  <2>6. CASE Unstage
    <3>1. \A o \in StagedFor : Now = o => Progress(o)' = All
      BY <1>1, <2>1, <2>6, Long, OperationAt DEF StagedFor
    <3>2. staging' = NoBuffer
      BY <2>6 DEF Unstage
    <3>3. \A o \in StagedFor : ~Using(o)'
      BY <2>3, <3>1 DEF Using, All
    <3> QED
      BY <3>2, <3>3
  <2> QED
    BY <1>4, <2>5, <2>6
<1>5. CASE ReadCorner
  <2>1. Now = "model"
    BY <1>5 DEF ReadCorner, At
  <2>2. \A o \in StagedFor : ~Using(o) /\ Progress(o) \in {0, All}
    BY <1>1, <2>1, OneUser DEF StagedFor
  <2>3. UNCHANGED <<calls, at, done, staging>>
    BY <1>5 DEF ReadCorner, place, storage
  <2>4. \A o : Progress(o)' = Progress(o)
    BY <2>3, Stayed
  <2> QED
    BY <1>2, <2>2, <2>3, <2>4 DEF Using
<1>6. CASE ~Stage /\ ~Unstage /\ ~ReadCorner
  <2>1. UNCHANGED <<staging, file, vertices, indices>>
    BY <1>6, OnlyBy
  <2>2. \A o \in StagedFor : /\ Using(o)' <=> Using(o)
                             /\ Progress(o)' \in {0, All} <=> Progress(o) \in {0, All}
    BY <1>1, <1>6, UsingKept
  <2>3. \A o : Data(o)' = Data(o)
    BY <2>1 DEF Data
  <2> QED
    BY <1>2, <2>1, <2>2, <2>3
<1> QED
  BY <1>4, <1>5, <1>6

-----------------------------------------------------------------------------
(* The invariant holds at the beginning, after every step, and says what   *)
(* the properties ask for.                                                 *)
LEMMA DataStart == DataInit => DataInv
<1> SUFFICES ASSUME DataInit PROVE DataInv
  OBVIOUS
<1>1. Len(Work(Now)) \in {1, 3, 5, 9}
  BY Worked, WorkLengths
<1>2. DataTypeOK
  <2>1. 0 \in 0..(Len(Work(Now)) - 1)
    <3> DEFINE n == Len(Work(Now))
    <3>1. n \in {1, 3, 5, 9}
      BY <1>1
    <3> HIDE DEF n
    <3>2. 0 \in 0..(n - 1)
      BY ONLY <3>1
    <3> QED
      BY <3>2 DEF n
  <2>2. at \in 1..(Len(calls) + 1) /\ at \in DOMAIN calls
    BY Lengths DEF DataInit
  <2>3. /\ machine \in Machine /\ file \in [texture : {Texels, Junk}, corners : Model]
        /\ calls \in {InitializeSteps, RecreateSteps} /\ done = 0
        /\ alive \in BOOLEAN /\ lost \in BOOLEAN
    BY DEF DataInit
  <2>4. vertices \in Seq(Vertex) /\ indices \in Seq(Nat)
    BY DEF DataInit
  <2> QED
    BY <2>1, <2>2, <2>3, <2>4 DEF DataTypeOK
<1>3. \A o \in Matters : Progress(o) = 0
  BY Lengths DEF DataInit, Progress, Reach, Spot, Matters, OfChain, OfStart
<1>4. /\ Progress("renderPass") = 0 /\ Progress("pipeline") = 0 /\ Progress("framebuffers") = 0
      /\ Progress("commandBuffers") = 0 /\ Progress("model") = 0 /\ Progress("depth") = 0
      /\ Progress("texture") = 0 /\ Progress("vertexBuffer") = 0 /\ Progress("indexBuffer") = 0
      /\ Progress("uniformBuffer") = 0
  BY <1>3 DEF Matters, OfChain, OfStart
<1>5. VerticesShared
  BY DEF DataInit, VerticesShared
<1>6. TargetsInv
  BY <1>4 DEF DataInit, TargetsInv, All
<1>7. MeshInv
  <2>1. file.corners \in Seq(Vertex \union {Outside})
    BY DataAssumption DEF DataInit
  <2>2. Len(file.corners) \in Nat
    BY <2>1
  <2> QED
    BY <1>4, <2>2 DEF DataInit, MeshInv, All
<1>8. ShapeInv
  BY DEF DataInit, ShapeInv, NoImage, NoBuffer
<1>9. DepthInv
  BY <1>4 DEF DepthInv
<1>10. TextureInv
  BY <1>4 DEF TextureInv, Receiving, Received, Shown, Copied
<1>11. BufferInv
  BY <1>4 DEF BufferInv, FilledInv, All
<1>12. StagingInv
  BY <1>4 DEF DataInit, StagingInv, StagedFor
<1>13. QueueInv
  BY DEF DataInit, QueueInv
<1> QED
  BY <1>2, <1>5, <1>6, <1>7, <1>8, <1>9, <1>10, <1>11, <1>12, <1>13 DEF DataInv

(* Every step keeps the invariant. *)
LEMMA DataKept ==
    ASSUME DataInv, [DataNext]_dataVars
    PROVE  DataInv'
<1>1. /\ vertices' \in Seq(Vertex) /\ indices' \in Seq(Nat) /\ VerticesShared' /\ MeshInv'
  BY MeshStep
<1>2. DataTypeOK'
  BY <1>1, DataTypeStep DEF DataInv
<1> QED
  BY <1>1, <1>2, TargetsStep, ShapeStep, DepthStep, TextureStep, BufferStep, StagingStep, QueueStep
  DEF DataInv

(* So it always holds. *)
LEMMA DataAlways == DataSpec => []DataInv
<1>1. DataInv /\ [DataNext]_dataVars => DataInv'
  BY DataKept
<1> QED
  BY <1>1, DataStart, PTL DEF DataSpec

(* Frames are drawn when every function is through, the device has nothing *)
(* left to do and nothing is staged.                                       *)
LEMMA ReadyMeans ==
    ASSUME DataInv, Ready
    PROVE  \A o \in Matters : Progress(o) = All
BY AllThrough DEF DataInv, DataTypeOK, Placed

LEMMA ReadyQuiet ==
    ASSUME DataInv, Ready
    PROVE  queue = << >> /\ staging = NoBuffer
<1>1. QueueInv /\ StagingInv /\ StagedFor \subseteq Matters
  BY DEF DataInv, StagedFor, Matters, OfStart
<1>2. \A o \in {"depth", "texture", "vertexBuffer", "indexBuffer"} : Progress(o) = 10
  BY ReadyMeans, LongOnes DEF All
<1>3. queue = << >>
  BY <1>1, <1>2 DEF QueueInv
<1>4. staging = NoBuffer
  BY <1>1, ReadyMeans DEF StagingInv
<1> QED
  BY <1>3, <1>4

(* The properties follow from the invariant. *)
LEMMA FramesFitNow == DataInv => FramesFit
<1> SUFFICES ASSUME DataInv, Ready PROVE FramesFit
  BY DEF FramesFit
<1>1. TargetsInv /\ DepthInv /\ BufferInv
  BY DEF DataInv
<1>2. /\ Progress("renderPass") = All /\ Progress("pipeline") = All /\ Progress("framebuffers") = All
      /\ Progress("commandBuffers") = All /\ Progress("depth") = All /\ Progress("uniformBuffer") = All
  BY ReadyMeans DEF Matters, OfChain, OfStart
<1>3. image["depth"].format = DepthFormat(machine) /\ image["depth"].extent = chain.extent
  BY <1>1, <1>2 DEF DepthInv, All
<1>4. ~lost => image["depth"].layout = "depthAttachment"
  BY <1>1, <1>2 DEF DepthInv, All
<1>5. Staged \subseteq buffer["uniformBuffer"].memory
  BY <1>1, <1>2 DEF BufferInv
<1>6. /\ pass = [color |-> chain.format.format, depth |-> DepthFormat(machine)]
      /\ frames = [color |-> chain.format.format, depth |-> DepthFormat(machine),
                   extent |-> chain.extent]
      /\ pipeline = chain.extent /\ commands.extent = chain.extent
  BY <1>1, <1>2 DEF TargetsInv
<1> QED
  BY <1>3, <1>4, <1>5, <1>6 DEF FramesFit

LEMMA PendingFitsInv == DataInv => PendingFits
<1> SUFFICES ASSUME DataInv PROVE PendingFits
  OBVIOUS
<1>1. ASSUME ~lost, NEW k \in DOMAIN queue
      PROVE  Fitting(queue[k])
  <2>1. queue # << >>
    BY <1>1
  <2> QED
    BY <1>1, <2>1, PendingFitsNow
<1> QED
  BY <1>1, ReadyQuiet DEF PendingFits

LEMMA ModelShownNow == DataInv => ModelShown
<1> SUFFICES ASSUME DataInv, Ready, ~lost PROVE ModelShown
  BY DEF ModelShown, DataInv
<1>1. /\ TargetsInv /\ TextureInv /\ BufferInv /\ MeshInv /\ DataTypeOK /\ VerticesShared
  BY DEF DataInv
<1>2. /\ Progress("texture") = 10 /\ Progress("model") = All /\ Progress("vertexBuffer") = 10
      /\ Progress("indexBuffer") = 10 /\ Progress("commandBuffers") = All
  BY ReadyMeans DEF Matters, OfChain, OfStart, All
<1>3. image["texture"].layout = "shader" /\ image["texture"].holds = file.texture
  BY <1>1, <1>2 DEF TextureInv, Shown, Copied
<1>4. commands.count = Len(file.corners) /\ Len(indices) = Len(file.corners)
  BY <1>1, <1>2 DEF TargetsInv, MeshInv
<1>5. buffer["vertexBuffer"].holds = vertices /\ buffer["indexBuffer"].holds = indices
  BY <1>1, <1>2 DEF BufferInv, FilledInv, Data
<1>6. ASSUME NEW k \in 1..commands.count, file.corners[k] \in Vertex \ Odd
      PROVE  Drawn(k) = file.corners[k]
  <2>1. k \in DOMAIN indices
    BY <1>1, <1>4 DEF DataTypeOK
  <2> QED
    BY <1>1, <1>5, <1>6, <2>1 DEF MeshInv, Drawn
<1> QED
  BY <1>1, <1>3, <1>4, <1>6 DEF ModelShown

-----------------------------------------------------------------------------
(* Every run of the create functions is worked off within its bounds, and  *)
(* what is read from the model file keeps its types, whatever fails.       *)
THEOREM DataTypes == DataSpec => []DataTypeOK
<1>1. DataInv => DataTypeOK
  BY DEF DataInv
<1> QED
  BY <1>1, DataAlways, PTL

(* For any surface whose capabilities Vulkan allows, and any screen:       *)
(* chooseSwapSurfaceFormat, chooseSwapPresentMode, chooseSwapExtent and    *)
(* the number of images ask for something the surface offers, and for the  *)
(* best of it.                                                             *)
THEOREM DataRequestFits == DataSpec => []RequestFits
<1>1. DataInv => RequestFits
  BY RequestFitsNow DEF DataInv
<1> QED
  BY <1>1, DataAlways, PTL

(* After Initialize and after every RecreateSwapChain, with whatever the   *)
(* surface offered then, render pass, framebuffers, depth image, viewport  *)
(* and command buffers agree in their formats and extents, on every        *)
(* machine; and UpdateUniformBuffer can write what it maps.                *)
THEOREM DataFramesFit == DataSpec => []FramesFit
<1> QED
  BY FramesFitNow, DataAlways, PTL

(* For any machine, memory types and failures: unless a submission was     *)
(* refused, every barrier and every copy finds the layout and the buffers  *)
(* it was recorded for, and no staging buffer is destroyed too early or    *)
(* left behind.                                                            *)
THEOREM DataPendingFits == DataSpec => []PendingFits
<1> QED
  BY PendingFitsInv, DataAlways, PTL

(* For any model and texture, however often a vertex is repeated:          *)
(* LoadModel stores none twice but one with a NaN in it; and when a frame  *)
(* can be drawn, unless a submission was refused, the texture and every    *)
(* sound corner of the model are in device memory, behind as many indices  *)
(* as are drawn, also after a recreation, which fills none of them again.  *)
THEOREM DataModelShown == DataSpec => []ModelShown
<1> QED
  BY ModelShownNow, DataAlways, PTL
=============================================================================
