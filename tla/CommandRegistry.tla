-------------------------- MODULE CommandRegistry ---------------------------
(***************************************************************************)
(* XDay::Console::Commands: the vector of pointers to the registered       *)
(* commands and the operations on it.                                      *)
(*                                                                         *)
(* Command objects are distinct from their names.  The header declares     *)
(* every command `static', so each translation unit that includes it owns  *)
(* a copy with the same name; only the copy somebody registers first       *)
(* answers to the name.  The type of the stored elements is a pointer,     *)
(* so Unregister compares objects and Register compares names.             *)
(***************************************************************************)
EXTENDS Naturals, Sequences, ConsoleCommand

CONSTANTS
    Name,        \* command names
    NameOf,      \* Command -> Name
    Null         \* the null ICommand*

ASSUME NameAssumption == NameOf \in [Command -> Name] /\ Null \notin Command

VARIABLES
    commands,    \* Commands::instance.commands
    enabled,     \* CommandBase::enabled of every object, registered or not
    last         \* the last dispatch: which object, which method, what it returned

vars == <<commands, enabled, last>>

NoDispatch == [command |-> Null, handler |-> "none", args |-> "", handled |-> FALSE]

-----------------------------------------------------------------------------
(* The lookups: both walk the vector from its front. *)
Holds(s, n)  == \E i \in DOMAIN s : NameOf[s[i]] = n
IsFirst(s, n, i) == NameOf[s[i]] = n /\ \A j \in 1..(i - 1) : NameOf[s[j]] # n

Lookup(s, n) == IF Holds(s, n)
                THEN s[CHOOSE i \in DOMAIN s : IsFirst(s, n, i)]
                ELSE Null

Get(n) == Lookup(commands, n)

Registered(c) == \E i \in DOMAIN commands : commands[i] = c

-----------------------------------------------------------------------------
Init == /\ commands = << >>
        /\ enabled = [c \in Command |-> TRUE]
        /\ last = NoDispatch

(* Mutated forms of Added: the walk for a duplicate is missing, or the     *)
(* newcomer replaces the one that holds the name.                          *)
Added_NoDuplicateTest(s, c) == Append(s, c)
Added_Replace(s, c) ==
    IF Holds(s, NameOf[c])
    THEN [i \in DOMAIN s |-> IF NameOf[s[i]] = NameOf[c] THEN c ELSE s[i]]
    ELSE Append(s, c)

(* A command whose name is taken is dropped with a warning. *)
Added(s, c) == IF Holds(s, NameOf[c]) THEN s ELSE Append(s, c)

Register(c) == commands' = Added(commands, c) /\ UNCHANGED <<enabled, last>>

(* Mutated form of Erased: the hole is filled with the last element. *)
Erased_SwapWithLast(s, i) == SubSeq([s EXCEPT ![i] = s[Len(s)]], 1, Len(s) - 1)

(* The erase-remove idiom takes out every element equal to c; Register     *)
(* never lets the same object in twice, so that is the element at one i.   *)
Erased(s, i) == SubSeq(s, 1, i - 1) \o SubSeq(s, i + 1, Len(s))

(* Mutated form of Unregister: the element is sought by name. *)
Unregister_ByName(c) ==
    /\ IF Holds(commands, NameOf[c])
       THEN \E i \in DOMAIN commands :
                IsFirst(commands, NameOf[c], i) /\ commands' = Erased(commands, i)
       ELSE UNCHANGED commands
    /\ UNCHANGED <<enabled, last>>

Unregister(c) ==
    /\ IF Registered(c)
       THEN \E i \in DOMAIN commands :
                commands[i] = c /\ commands' = Erased(commands, i)
       ELSE UNCHANGED commands
    /\ UNCHANGED <<enabled, last>>

(* ICommand::Enabled(bool). *)
SetEnabled(c, value) ==
    /\ enabled' = [enabled EXCEPT ![c] = value]
    /\ UNCHANGED <<commands, last>>

(* Commands::Execute on an object, and on a name looked up first. *)
Execute(c, args) ==
    /\ last' = IF c = Null
               THEN NoDispatch
               ELSE LET h == Handler(c, args, enabled[c])
                    IN  [command |-> c, handler |-> h,
                         args |-> PassedArgs(c, args), handled |-> Invokes(h)]
    /\ UNCHANGED <<commands, enabled>>

ExecuteNamed(n, args) == Execute(Get(n), args)

Destroy == commands' = << >> /\ UNCHANGED <<enabled, last>>

Next == \/ Destroy
        \/ \E c \in Command : \/ Register(c) \/ Unregister(c)
                              \/ \E b \in BOOLEAN : SetEnabled(c, b)
                              \/ \E w \in Word : Execute(c, w)
        \/ \E n \in Name, w \in Word : ExecuteNamed(n, w)

Spec == Init /\ [][Next]_vars

-----------------------------------------------------------------------------
TypeOK == /\ commands \in Seq(Command)
          /\ enabled \in [Command -> BOOLEAN]
          /\ last \in [command : Command \cup {Null},
                       handler : {"none", "status", "Execute", "ExecuteArgs"},
                       args : Word, handled : BOOLEAN]

(* No two registered commands share a name, however Register, Unregister   *)
(* and Destroy alternate over objects that do: this is what lets Get stop  *)
(* at the first match and Unregister erase one element.                    *)
Distinct(s) == \A i, j \in DOMAIN s : NameOf[s[i]] = NameOf[s[j]] => i = j
UniqueNames == Distinct(commands)

(* A value command's Execute() without arguments, which its own warning    *)
(* says "shouldn't happen", is never what the dispatcher calls; a command  *)
(* that was asked to ignore empty arguments never sees them; a command     *)
(* that wants lower case never sees anything else.                         *)
HandlerFits ==
    /\ last.handler = "Execute" => /\ Kind[last.command] \notin ValueKinds
                                   /\ last.args = ""
    /\ last.handler = "ExecuteArgs" =>
          /\ last.args # ""
          /\ LowerCaseArguments(last.command) => ToLower[last.args] = last.args
    /\ last.handled <=> last.handler \in {"Execute", "ExecuteArgs"}

(* The order of registration, in which help and config_save print and the  *)
(* first-match lookup walks: no operation swaps two commands that stay.    *)
Before(s, a, b) == \E i, j \in DOMAIN s : i < j /\ s[i] = a /\ s[j] = b
OrderStep == \A a, b \in Command : Before(commands, a, b) => ~Before(commands', b, a)

(* The copy of a command that lost the clash of names cannot take the one  *)
(* that won out of the registry: after Unregister(c) every name that c did *)
(* not answer to is answered by the same command as before.                *)
OwnNameStep == \A c \in Command :
                  Unregister(c) => \A n \in Name : Get(n) \notin {c, Null} => Get(n)' = Get(n)

(* No operation disturbs the commands it is not about (Commands::Register, *)
(* Unregister): neither their order nor the names they answer to.          *)
OthersKept == [][OrderStep /\ OwnNameStep]_vars

(* The vector, its walks and its erasures implement the table of names.    *)
table == [n \in Name |-> Get(n)]
Abstract == INSTANCE NameTable
RefinesNameTable == Abstract!Spec
=============================================================================
