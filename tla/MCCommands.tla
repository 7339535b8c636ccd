----------------------------- MODULE MCCommands ------------------------------
(***************************************************************************)
(* The registry of commands, one command with a value and the keys of the  *)
(* command line, side by side.  They share the rule of dispatch and the    *)
(* idea of a name that belongs to one object, but no state: each moves     *)
(* only while the others rest where they began, and the run visits the     *)
(* states of one after those of the other, not their product.              *)
(***************************************************************************)
EXTENDS CommandRegistry, ValueCommand, MCCommandLine

(* Four objects under three names for the registry: its own copy of "help" *)
(* and the one another translation unit owns, a value command and a call;  *)
(* and a value command of every other kind, which is never registered.     *)
Objects   == {"help@core", "help@engine", "fullscreen", "quit"}
Numbers   == {"int", "float", "double", "string"}
MCCommand == Objects \union Numbers
MCName    == {"help", "fullscreen", "quit"}
MCNameOf  == [c \in MCCommand |-> CASE c \in {"help@core", "help@engine"} -> "help"
                                    [] c = "quit" -> "quit"
                                    [] OTHER -> "fullscreen"]
MCKind    == [c \in MCCommand |-> CASE c \in Numbers -> c
                                    [] c = "fullscreen" -> "bool"
                                    [] c = "quit" -> "Call"
                                    [] OTHER -> "CallWithArgs"]
MCEmptyArg == [c \in MCCommand |-> c = "help@core"]
MCLowerArg == [c \in MCCommand |-> c # "help@engine"]

MCWord     == {"", " ", "on", "ON", "off", "1", "1 x", "1  x",
               "0", "3", "4", "8", "1000", "nan"}
MCToLower  == [w \in MCWord |-> IF w = "ON" THEN "on" ELSE w]

(* Six decimals are the multiples of four; the floats are scarcer than the *)
(* doubles, and 1000 is a double beyond them.                              *)
MCReread   == [w \in MCWord |-> CASE w = " " -> "" [] w = "1  x" -> "1 x" [] OTHER -> w]
MCSize     == [w \in MCWord |-> CASE w = "" -> 0
                                  [] w \in {" ", "0", "1", "3", "4", "8"} -> 1
                                  [] w \in {"on", "ON"} -> 2
                                  [] w \in {"1  x", "1000"} -> 4
                                  [] OTHER -> 3]
Text(n)    == CASE n = 0 -> "0" [] n = 1 -> "1" [] n = 3 -> "3"
                [] n = 4 -> "4" [] n = 8 -> "8" [] OTHER -> "1000"

MCIntText  == [n \in {0, 1, 3, 4, 8, 1000} |-> Text(n)]
MCFloat    == {0, 1, 3, 8, NaN}
MCRealText == [x \in MCFloat \union {4, 7, 1000} |->
                  CASE x = NaN -> "nan" [] x \in {0, 1} -> "0" [] x \in {3, 4} -> "4"
                    [] x \in {7, 8} -> "8" [] OTHER -> "1000"]

Written(w) == CASE w \in {"1 x", "1  x"} -> 1 [] OTHER -> CHOOSE n \in DOMAIN MCIntText : Text(n) = w
Digits(w)  == w \in {"0", "1", "3", "4", "8", "1000", "1 x", "1  x"}

MCStoI     == [w \in MCWord |-> IF Digits(w) THEN Written(w) ELSE Throws]
MCStoF     == [w \in MCWord |-> CASE w = "nan" -> NaN
                                  [] w = "4" -> 3
                                  [] w # "1000" /\ Digits(w) -> Written(w)
                                  [] OTHER -> Throws]
MCLimit    == {-1, 0, 3, 8}

-----------------------------------------------------------------------------
(* The registry is given its four objects, one of them disabled at a time, *)
(* and three words.                                                        *)
Small == /\ \A i \in DOMAIN commands : commands[i] \in Objects
         /\ \E d \in Objects : \A c \in Command \ {d} : enabled[c]
         /\ last.command \in Objects \union {Null} /\ last.args \in {"", "on", "ON"}

ValueRests    == /\ command = "fullscreen" /\ value = FALSE /\ min = 0 /\ max = 0
                 /\ saved.of = FALSE /\ Running
RegistryRests == Init
KeysRest      == KeysInit

CommandsInit == Init /\ ValueInit /\ KeysInit
CommandsNext ==
    \/ ValueRests /\ KeysRest /\ Next /\ Small' /\ UNCHANGED <<valueVars, keysVars>>
    \/ RegistryRests /\ KeysRest /\ ValueNext /\ UNCHANGED <<vars, keysVars>>
    \/ RegistryRests /\ ValueRests /\ KeysNext /\ UNCHANGED <<vars, valueVars>>

CommandsSpec == CommandsInit /\ [][CommandsNext]_<<vars, valueVars, keysVars>>
=============================================================================
