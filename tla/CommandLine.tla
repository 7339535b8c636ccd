---------------------------- MODULE CommandLine -----------------------------
(***************************************************************************)
(* XDay::CommandLine: the key objects that describe command line           *)
(* parameters, the singleton Keys they register with, and the two searches *)
(* xdCore makes in the arguments.                                          *)
(*                                                                         *)
(* Most keys are static objects: they are constructed, in an order the     *)
(* linker chooses, before main passes the arguments on.  A key that is     *)
(* constructed later (by a module loaded at run time) initialises itself.  *)
(*                                                                         *)
(* The searches compare substrings.  What matters of an argument is        *)
(* whether it contains the prefix "--p_" and which key names follow it     *)
(* there: Mentions["--p_nologflush"] has "nolog" and "nologflush".         *)
(***************************************************************************)
EXTENDS Naturals, Sequences

CONSTANTS
    Key,          \* the Key objects
    KeyName,      \* their names
    NameOfKey,    \* Key -> KeyName
    KeyType,      \* Key -> "Boolean", "Number" or "String"
    Token,        \* arguments
    Prefixed,     \* the arguments that contain KeyPrefix
    Mentions,     \* Token -> the names that follow KeyPrefix in it
    Exact,        \* KeyName -> the argument that is KeyPrefix and the name
    Numeric,      \* the arguments std::stof accepts
    Argv,         \* the argument vectors of a run
    NoKey

Empty == ""     \* the value of a key without one

ASSUME KeysAssumption ==
    /\ NameOfKey \in [Key -> KeyName]
    /\ KeyType \in [Key -> {"Boolean", "Number", "String"}]
    /\ NoKey \notin Key

ASSUME TokenAssumption ==
    /\ Prefixed \subseteq Token /\ Numeric \subseteq Token /\ Empty \notin Numeric
    /\ Mentions \in [Token -> SUBSET KeyName]
    /\ \A t \in Token : Mentions[t] # {} => t \in Prefixed
    /\ Exact \in [KeyName -> Token]
    /\ \A n \in KeyName : n \in Mentions[Exact[n]]
    /\ \A v \in Argv : v \in Seq(Token)

VARIABLES
    params,        \* xdCore::params
    keys,          \* Keys::keys
    autoInit,      \* Keys::autoInitAllowed
    isInitialized, \* Key::isInitialized of every object
    isSet,         \* Key::isSet, meaningless before initialisation
    stringValue,   \* Key::stringValue
    next,          \* the key Keys::Initialize has reached
    pc,            \* "static", "initializing", "running" or "destroyed"
    failed         \* the process was ended by a failed assertion or an exception

keysVars == <<params, keys, autoInit, isInitialized, isSet, stringValue, next, pc, failed>>

-----------------------------------------------------------------------------
(* xdCore::FindParam: the joined arguments contain the prefix and the name.*)
Mentioned(n) == {i \in DOMAIN params : n \in Mentions[params[i]]}

FindParam(n) == Mentioned(n) # {}

(* xdCore::ReturnParam: the argument behind the first that mentions the    *)
(* name, unless that is a parameter itself or there is none.               *)
ReturnParam_AnyNext(n) ==      \* mutated form: a parameter is taken for a value
    LET i == CHOOSE i \in Mentioned(n) : \A j \in Mentioned(n) : i <= j
    IN  IF Mentioned(n) # {} /\ i < Len(params) THEN params[i + 1] ELSE Empty

ReturnParam(n) ==
    LET i == CHOOSE i \in Mentioned(n) : \A j \in Mentioned(n) : i <= j
    IN  IF /\ Mentioned(n) # {} /\ i < Len(params)
           /\ params[i + 1] \notin Prefixed
        THEN params[i + 1] ELSE Empty

-----------------------------------------------------------------------------
KeysInit ==
    /\ params = << >> /\ keys = << >> /\ autoInit = FALSE
    /\ isInitialized = [k \in Key |-> FALSE]
    /\ isSet = [k \in Key |-> FALSE] /\ stringValue = [k \in Key |-> Empty]
    /\ next = 1 /\ pc = "static" /\ failed = FALSE

(* Key::Initialize.  It is noexcept: what std::stof throws ends the        *)
(* process.                                                                *)
Initialize(k) ==
    LET n     == NameOfKey[k]
        found == FindParam(n)
        value == ReturnParam(n)
    IN  IF isInitialized[k] THEN UNCHANGED <<isInitialized, isSet, stringValue, failed>>
        ELSE /\ isSet' = [isSet EXCEPT ![k] = found]
             /\ IF found /\ KeyType[k] # "Boolean"
                THEN stringValue' = [stringValue EXCEPT ![k] = value]
                ELSE UNCHANGED stringValue
             /\ IF found /\ KeyType[k] = "Number" /\ value \notin Numeric
                THEN failed' = TRUE /\ UNCHANGED isInitialized
                ELSE isInitialized' = [isInitialized EXCEPT ![k] = TRUE] /\ UNCHANGED failed

(* Keys::AddKey refuses a name it has. *)
Known(n) == \E i \in DOMAIN keys : NameOfKey[keys[i]] = n

Unconstructed(k) == \A i \in DOMAIN keys : keys[i] # k

(* Mutated form of Construct: a late key waits for Keys::Initialize. *)
Construct_NoAutoInit(k) ==
    /\ ~failed /\ pc \in {"static", "running"} /\ Unconstructed(k)
    /\ IF Known(NameOfKey[k])
       THEN failed' = TRUE /\ UNCHANGED keys
       ELSE keys' = Append(keys, k) /\ UNCHANGED failed
    /\ UNCHANGED <<params, autoInit, isInitialized, isSet, stringValue, next, pc>>

(* Mutated form of Construct: the second key of a name replaces the first. *)
Construct_Replaces(k) ==
    /\ ~failed /\ pc \in {"static", "running"} /\ Unconstructed(k)
    /\ keys' = IF Known(NameOfKey[k])
               THEN [i \in DOMAIN keys |->
                       IF NameOfKey[keys[i]] = NameOfKey[k] THEN k ELSE keys[i]]
               ELSE Append(keys, k)
    /\ IF autoInit
       THEN Initialize(k)
       ELSE UNCHANGED <<isInitialized, isSet, stringValue, failed>>
    /\ UNCHANGED <<params, autoInit, next, pc>>

(* The constructor: the assertion ends the process on a duplicate name.    *)
Construct(k) ==
    /\ ~failed /\ pc \in {"static", "running"} /\ Unconstructed(k)
    /\ IF Known(NameOfKey[k])
       THEN failed' = TRUE /\ UNCHANGED <<keys, isInitialized, isSet, stringValue>>
       ELSE /\ keys' = Append(keys, k)
            /\ IF autoInit
               THEN Initialize(k)
               ELSE UNCHANGED <<isInitialized, isSet, stringValue, failed>>
    /\ UNCHANGED <<params, autoInit, next, pc>>

(* xdCore::InitializeArguments, up to its call of Keys::Initialize. *)
InitializeArguments(argv) ==
    /\ ~failed /\ pc = "static"
    /\ params' = argv /\ pc' = "initializing"
    /\ UNCHANGED <<keys, autoInit, isInitialized, isSet, stringValue, next, failed>>

(* One turn of the loop in Keys::Initialize, and what follows the loop. *)
InitializeNext ==
    /\ ~failed /\ pc = "initializing" /\ next <= Len(keys)
    /\ Initialize(keys[next])
    /\ next' = next + 1
    /\ UNCHANGED <<params, keys, autoInit, pc>>

KeysInitialized ==
    /\ ~failed /\ pc = "initializing" /\ next > Len(keys)
    /\ autoInit' = TRUE /\ pc' = "running"
    /\ UNCHANGED <<params, keys, isInitialized, isSet, stringValue, next, failed>>

(* Keys::Destroy, from Core.Destroy. *)
KeysDestroy ==
    /\ ~failed /\ pc = "running"
    /\ keys' = << >> /\ pc' = "destroyed"
    /\ UNCHANGED <<params, autoInit, isInitialized, isSet, stringValue, next, failed>>

Finished == (failed \/ pc = "destroyed") /\ UNCHANGED keysVars

KeysNext == \/ \E k \in Key : Construct(k)
            \/ \E argv \in Argv : InitializeArguments(argv)
            \/ InitializeNext \/ KeysInitialized \/ KeysDestroy \/ Finished

KeysSpec == KeysInit /\ [][KeysNext]_keysVars

-----------------------------------------------------------------------------
(* Keys::GetKey. *)
GetKey(n) == IF Known(n)
             THEN keys[CHOOSE i \in DOMAIN keys :
                         /\ NameOfKey[keys[i]] = n
                         /\ \A j \in 1..(i - 1) : NameOfKey[keys[j]] # n]
             ELSE NoKey

KeysTypeOK ==
    /\ params \in Seq(Token) /\ keys \in Seq(Key)
    /\ autoInit \in BOOLEAN /\ failed \in BOOLEAN
    /\ isInitialized \in [Key -> BOOLEAN] /\ isSet \in [Key -> BOOLEAN]
    /\ stringValue \in [Key -> Token \cup {Empty}]
    /\ next \in Nat /\ next >= 1 /\ pc \in {"static", "initializing", "running", "destroyed"}

(* Whoever asks a registered key after Keys::Initialize gets an answer     *)
(* about the arguments of this run, whether the key was constructed before *)
(* main or long after: no key is left uninitialised or initialised from    *)
(* arguments that had not arrived.                                         *)
KeysAnswer ==
    autoInit /\ ~failed =>
       \A i \in DOMAIN keys : /\ isInitialized[keys[i]]
                              /\ isSet[keys[i]] = FindParam(NameOfKey[keys[i]])

(* A key's value is an argument of its own: it stands behind one that      *)
(* mentions the key and is not a parameter.                                *)
ValueFollowsKey ==
    \A k \in Key : stringValue[k] # Empty =>
       /\ stringValue[k] \notin Prefixed
       /\ \E i \in Mentioned(NameOfKey[k]) : i < Len(params) /\ params[i + 1] = stringValue[k]

(* The keys form a table of names: a name is bound once and keeps its key  *)
(* until Keys::Destroy; a second key of a name never replaces the first.   *)
keyTable == [n \in KeyName |-> GetKey(n)]
KeyTable == INSTANCE NameTable WITH
    Command <- Key, Name <- KeyName, NameOf <- NameOfKey, Null <- NoKey, table <- keyTable
KeysRefineTable == KeyTable!Spec

(* FindParam "returns true if param exists": a key is set only when its    *)
(* own parameter is among the arguments.                                   *)
SetOnlyIfGiven ==
    \A k \in Key : isInitialized[k] /\ isSet[k] =>
       \E i \in DOMAIN params : params[i] = Exact[NameOfKey[k]]
=============================================================================
