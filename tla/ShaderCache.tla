----------------------------- MODULE ShaderCache ----------------------------
(***************************************************************************)
(* The shaders of the Vulkan demo.  CreateGraphicsPipeline makes a         *)
(* ShaderWorker for each of its two shaders, at the start and whenever the *)
(* swap chain is created anew.  A worker reads the source, then uses the   *)
(* stored binary or compiles the source, stores the result and reads it    *)
(* back.  Source and binary are files: the user edits the sources and may  *)
(* clear the stored binaries while the program runs, a disk may be full,   *)
(* and the program may be killed between any two steps and started again.  *)
(*                                                                         *)
(* A text, and the whole binary compiled from it, is a member of Version.  *)
(***************************************************************************)
EXTENDS Naturals, Sequences

CONSTANTS
    Version,     \* the texts a source file may hold
    Valid,       \* those that parse and link
    ZeroEnded,   \* those that are followed by a zero when they have been read
    MaxEvents    \* bound on what the user and the machine do

Missing == "missing"     \* no such file
Nothing == "nothing"     \* a file of size zero
Torn    == "torn"        \* the beginning of a binary
NoText  == "no text"     \* no source file, one that cannot be opened for both reading and
                         \* writing, as LoadShader does, or an empty one

ASSUME ShaderAssumption ==
    /\ Valid \subseteq Version /\ ZeroEnded \subseteq Version
    /\ Version \intersect {Missing, Nothing, Torn, NoText} = {}
    /\ MaxEvents \in Nat

Shader == {"shader.frag", "shader.vert"}
Stages == <<"shader.frag", "shader.vert">>
Content == Valid \union {Missing, Nothing, Torn}

VARIABLES
    source, binary,    \* the files of each shader
    force, debug,      \* keys shrec and debug
    pc, todo,          \* where the program is, the workers still to be made, the running first
    text, code,        \* the worker's shaderSource and binaryShader
    modules,           \* the code each stage of the pipeline was built from
    events,            \* how much the user and the machine have done
    before, disturbed  \* auxiliary: the binary when the worker began; whether the user cleared
                       \* it or the disk refused it since

files  == <<source, binary>>
keys   == <<force, debug>>
worker == <<text, code>>
aux    == <<before, disturbed>>
vars   == <<files, keys, pc, todo, worker, modules, events, aux>>

Busy == todo # << >>
It   == Head(todo)           \* the shader of the running worker

(* Installed with or without binaries. *)
Init ==
    /\ source \in [Shader -> Version \union {NoText}]
    /\ binary \in [Shader -> Valid \union {Missing}]
    /\ force = FALSE /\ debug = FALSE
    /\ pc = "off" /\ todo = << >>
    /\ text = NoText /\ code = Missing
    /\ modules = [s \in Shader |-> Missing]
    /\ events = 0
    /\ before = Missing /\ disturbed = FALSE

-----------------------------------------------------------------------------
(* Mutated form: one worker for all shaders, whose buffers stay. *)
LoadShader_OneWorker ==
    /\ pc = "load" /\ pc' = "find"
    /\ text' = source[It] /\ UNCHANGED code
    /\ before' = binary[It] /\ disturbed' = FALSE
    /\ UNCHANGED <<files, keys, todo, modules, events>>

(* A worker of its own for the shader begins: LoadShader. *)
LoadShader ==
    /\ pc = "load" /\ pc' = "find"
    /\ text' = source[It] /\ code' = Missing
    /\ before' = binary[It] /\ disturbed' = FALSE
    /\ UNCHANGED <<files, keys, todo, modules, events>>

(* The comparison of checksums has not been written: every binary counts as current. *)
CheckIfShaderChanged == FALSE

(* Mutated form: without the test of the key. *)
Serves_Always(content) == content \notin {Missing, Nothing}

(* The stored binary serves: no recompilation is asked for, the file opens and is not empty. *)
Serves(content) == ~force /\ content \notin {Missing, Nothing}

(* LoadBinaryShader up to the call of CompileShader. *)
UseStored ==
    /\ pc = "find" /\ Serves(binary[It])
    /\ code' = binary[It]
    /\ pc' = IF CheckIfShaderChanged /\ text # NoText THEN "compile" ELSE "create"
    /\ UNCHANGED <<files, keys, todo, text, modules, events, aux>>

(* Without a source either, the shader is not found and the worker goes on with no code. *)
NotStored ==
    /\ pc = "find" /\ ~Serves(binary[It])
    /\ pc' = IF text # NoText THEN "compile" ELSE "create"
    /\ UNCHANGED <<files, keys, todo, worker, modules, events, aux>>

(* CompileShader: the text parses and links. *)
Accept ==
    /\ pc = "compile" /\ text \in Valid
    /\ pc' = "output"
    /\ UNCHANGED <<files, keys, todo, worker, modules, events, aux>>

(* Mutated form: leaves LoadBinaryShader as well. *)
Reject_Returns ==
    /\ pc = "compile" /\ text \notin Valid \intersect ZeroEnded
    /\ pc' = "create"
    /\ UNCHANGED <<files, keys, todo, worker, modules, events, aux>>

(* It does not.  parse takes the text as a string that ends with a zero, but the buffer holds    *)
(* just the characters of the file: unless a zero follows, parse may read on and fail.           *)
Reject ==
    /\ pc = "compile" /\ text \notin Valid \intersect ZeroEnded
    /\ pc' = "reopen"
    /\ UNCHANGED <<files, keys, todo, worker, modules, events, aux>>

(* OutputSpvBin: opening the file empties it, then the words follow, which the disk may refuse; *)
(* neither failure is noticed.                                                                  *)
OpenOutput ==
    /\ pc = "output" /\ pc' = "writing"
    /\ binary' = [binary EXCEPT ![It] = Nothing]
    /\ UNCHANGED <<source, keys, todo, worker, modules, events, aux>>

OpenOutputFails ==
    /\ pc = "output" /\ pc' = "written"
    /\ events < MaxEvents /\ events' = events + 1
    /\ disturbed' = TRUE
    /\ UNCHANGED <<files, keys, todo, worker, modules, before>>

WriteSome ==
    /\ pc = "writing" /\ binary[It] = Nothing
    /\ binary' = [binary EXCEPT ![It] = Torn]
    /\ UNCHANGED <<source, keys, pc, todo, worker, modules, events, aux>>

WriteRest ==
    /\ pc = "writing" /\ binary[It] = Torn
    /\ binary' = [binary EXCEPT ![It] = text]
    /\ pc' = "written"
    /\ UNCHANGED <<source, keys, todo, worker, modules, events, aux>>

WriteFails ==
    /\ pc = "writing" /\ pc' = "written"
    /\ events < MaxEvents /\ events' = events + 1
    /\ disturbed' = TRUE
    /\ UNCHANGED <<files, keys, todo, worker, modules, before>>

-----------------------------------------------------------------------------
(* The program ends: nothing is left of it but the files. *)
Ends ==
    /\ pc' = "off" /\ todo' = << >>
    /\ text' = NoText /\ code' = Missing
    /\ modules' = [s \in Shader |-> Missing]
    /\ before' = Missing /\ disturbed' = FALSE
    /\ force' = FALSE /\ debug' = FALSE

(* The end of CompileShader.  In debug mode it asks for the size of the file, and *)
(* if there is none the exception ends the program.                               *)
Compiled ==
    /\ pc = "written"
    /\ ~(debug /\ binary[It] = Missing)
    /\ pc' = "reopen"
    /\ UNCHANGED <<files, keys, todo, worker, modules, events, aux>>

CompiledThrows ==
    /\ pc = "written"
    /\ debug /\ binary[It] = Missing
    /\ Ends
    /\ UNCHANGED <<files, events>>

(* LoadBinaryShader after CompileShader: whatever is in the file now. *)
Reopen ==
    /\ pc = "reopen" /\ pc' = "create"
    /\ code' = IF binary[It] = Missing THEN code ELSE binary[It]
    /\ UNCHANGED <<files, keys, todo, text, modules, events, aux>>

(* CreateVkShaderModule, and on with the next worker. *)
CreateModule ==
    /\ pc = "create"
    /\ modules' = [modules EXCEPT ![It] = code]
    /\ todo' = Tail(todo)
    /\ pc' = IF Tail(todo) = << >> THEN "run" ELSE "load"
    /\ UNCHANGED <<files, keys, worker, events, aux>>

(* What is not a whole binary is no code for a module: the driver throws, or does not look. *)
CreateModuleFails ==
    /\ pc = "create" /\ code \notin Valid
    /\ Ends
    /\ UNCHANGED <<files, events>>

(* CreateGraphicsPipeline, from Initialize and from RecreateSwapChain. *)
Start ==
    /\ pc = "off" /\ pc' = "load" /\ todo' = Stages
    /\ force' \in BOOLEAN /\ debug' \in BOOLEAN
    /\ UNCHANGED <<files, worker, modules, events, aux>>

RecreateSwapChain ==
    /\ pc = "run" /\ pc' = "load" /\ todo' = Stages
    /\ UNCHANGED <<files, keys, worker, modules, events, aux>>

-----------------------------------------------------------------------------
(* The user and the machine. *)
Occurs == events < MaxEvents /\ events' = events + 1

EditSource(s) ==
    /\ Occurs
    /\ source' \in {[source EXCEPT ![s] = v] : v \in Version \union {NoText}}
    /\ UNCHANGED <<binary, keys, pc, todo, worker, modules, aux>>

(* A file the program has open cannot be removed. *)
ClearBinary(s) ==
    /\ Occurs
    /\ ~(pc = "writing" /\ s = It)
    /\ binary' = [binary EXCEPT ![s] = Missing]
    /\ disturbed' = IF Busy /\ s = It THEN TRUE ELSE disturbed
    /\ UNCHANGED <<source, keys, pc, todo, worker, modules, before>>

(* The program is killed, or closed. *)
Kill ==
    /\ pc # "off"
    /\ Occurs
    /\ Ends
    /\ UNCHANGED files

LoadBinaryShader == UseStored \/ NotStored \/ Reopen
OutputSpvBin  == OpenOutput \/ OpenOutputFails \/ WriteSome \/ WriteRest \/ WriteFails
CompileShader == Accept \/ Reject \/ OutputSpvBin \/ Compiled \/ CompiledThrows
Program ==
    \/ LoadShader \/ LoadBinaryShader \/ CompileShader \/ CreateModule \/ CreateModuleFails
    \/ Start \/ RecreateSwapChain
User == Kill \/ \E s \in Shader : EditSource(s) \/ ClearBinary(s)

Next == Program \/ User

Spec == Init /\ [][Next]_vars

-----------------------------------------------------------------------------
Compiling == {"compile", "output", "writing", "written", "reopen"}
Usable    == Valid \intersect ZeroEnded   \* the texts that are sure to compile

(* Types; a worker is running exactly between load and create, only a text is compiled, and a   *)
(* file is being written only for a text that has been accepted.                                *)
CacheTypeOK ==
    /\ source \in [Shader -> Version \union {NoText}]
    /\ binary \in [Shader -> Content]
    /\ force \in BOOLEAN /\ debug \in BOOLEAN
    /\ pc \in {"off", "load", "find", "create", "run"} \union Compiling
    /\ todo \in {<< >>, Stages, Tail(Stages)}
    /\ Busy <=> pc \notin {"off", "run"}
    /\ text \in Version \union {NoText} /\ code \in Content
    /\ pc \in Compiling => text \in Version
    /\ pc \in {"find"} \union Compiling => code = Missing
    /\ pc \in {"output", "writing", "written"} => text \in Valid
    /\ pc = "writing" => binary[It] \in {Nothing, Torn}
    /\ modules \in [Shader -> Content]
    /\ events \in 0..MaxEvents
    /\ before \in Content /\ disturbed \in BOOLEAN

(* A worker that nobody disturbs makes its module from a good source as it is: with the key     *)
(* shrec, however old or damaged the stored binary was (Shader.cpp:68, :94); and without a      *)
(* stored binary, or with an empty one that an interrupted program left (Shader.cpp:67, :90).   *)
SourceIsUsed ==
    pc = "create" /\ ~disturbed /\ text \in Usable /\ (force \/ before \in {Missing, Nothing})
        => code = text

(* A program that had a binary keeps working: whatever becomes of a compilation, the module is  *)
(* made from the old binary or from a new one.  Only shrec without a source gives that up       *)
(* (Shader.cpp:71, :85, :112).                                                                  *)
KeepsWorking ==
    pc = "create" /\ ~disturbed /\ before \in Valid /\ (force => text # NoText) => code \in Valid

(* The cache as a whole: a text becomes a binary in one step, at the moment its file is opened, *)
(* only an interruption leaves a part of one, and every module is made from what the cache held *)
(* for this very shader at the moment it was read.                                              *)
Kept == [s \in Shader |-> IF pc = "writing" /\ s = It THEN text ELSE binary[s]]
Used == [s \in Shader |-> IF pc = "create" /\ s = It THEN code ELSE modules[s]]

Cache == INSTANCE CompiledCache
    WITH Partial <- {Nothing, Torn}, kept <- Kept, wanted <- text, used <- Used,
         troubles <- events

RefinesCache == Cache!CacheSpec
=============================================================================
