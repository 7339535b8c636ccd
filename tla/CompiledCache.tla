---------------------------- MODULE CompiledCache ---------------------------
(***************************************************************************)
(* What a cache of compiled shaders promises.  For every shader it keeps   *)
(* one binary, and a text can be turned into a binary in one step or not   *)
(* at all.  A binary is whole, unless the program was interrupted while it *)
(* was storing it.  What a pipeline is built from is what the cache holds  *)
(* at one moment.                                                          *)
(***************************************************************************)
EXTENDS Naturals

CONSTANTS
    Shader,    \* the names of the shaders
    Valid,     \* the texts that can be compiled; a whole binary is named by its text
    Partial,   \* what is left of a binary whose storing was interrupted
    Missing    \* no binary

VARIABLES
    kept,      \* the binary of each shader
    wanted,    \* the text that is being compiled
    used,      \* what the pipeline was last built from
    troubles   \* how often the program was disturbed or interrupted

cache == <<kept, wanted, used, troubles>>

CacheInit ==
    /\ kept \in [Shader -> Valid \union Partial \union {Missing}]
    /\ used = [s \in Shader |-> Missing]

Trouble == troubles' = troubles + 1

(* The next text, or another edit: the cache is not concerned. *)
Want == troubles' \in {troubles, troubles + 1} /\ UNCHANGED <<kept, used>>

Put(s) ==
    /\ wanted \in Valid
    /\ kept' = [kept EXCEPT ![s] = wanted]
    /\ UNCHANGED <<wanted, used, troubles>>

(* The disk refuses the rest of what is being put. *)
Spoil(s) ==
    /\ kept[s] = wanted
    /\ kept' \in {[kept EXCEPT ![s] = p] : p \in Partial}
    /\ Trouble
    /\ UNCHANGED <<wanted, used>>

Drop(s) ==
    /\ kept' = [kept EXCEPT ![s] = Missing]
    /\ Trouble
    /\ UNCHANGED <<wanted, used>>

Use(s) ==
    /\ used' \in {[used EXCEPT ![s] = b] : b \in {kept[s], Missing}}
    /\ UNCHANGED <<kept, wanted, troubles>>

(* The program ends.  If it is stopped, what is being put may be spoilt. *)
Stop ==
    /\ used' = [s \in Shader |-> Missing]
    /\ \/ UNCHANGED <<kept, troubles>>
       \/ /\ Trouble
          /\ \/ UNCHANGED kept
             \/ \E s \in Shader :
                   kept[s] = wanted /\ kept' \in {[kept EXCEPT ![s] = p] : p \in Partial}

CacheNext == Want \/ Stop \/ \E s \in Shader : Put(s) \/ Spoil(s) \/ Drop(s) \/ Use(s)

CacheSpec == CacheInit /\ [][CacheNext]_cache
=============================================================================
