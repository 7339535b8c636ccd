----------------------------- MODULE NameTable ------------------------------
(***************************************************************************)
(* What the console promises its users: a table that gives every name at   *)
(* most one command.  A name is bound while free, stays bound to the same  *)
(* command until that very command is taken out or the table is cleared.   *)
(***************************************************************************)
CONSTANTS Command, Name, NameOf, Null

VARIABLE table     \* table[n] is the command that answers to n, or Null

Init == table = [n \in Name |-> Null]

Bind(c) == /\ table[NameOf[c]] = Null
           /\ table' = [table EXCEPT ![NameOf[c]] = c]

Unbind(c) == /\ table[NameOf[c]] = c
             /\ table' = [table EXCEPT ![NameOf[c]] = Null]

Clear == table' = [n \in Name |-> Null]

Next == \/ Clear
        \/ \E c \in Command : Bind(c) \/ Unbind(c)

Spec == Init /\ [][Next]_table
=============================================================================
