----------------------------- MODULE MCConsole ------------------------------
(* One console thread and two files that may include each other, so that   *)
(* some initial disks have a cycle and the others do not.                  *)
EXTENDS Console

MCPath == {"a.cfg", "b.cfg"}
MCWord == MCPath \cup {"B.CFG", "", "on", "OFF", "off"}
MCToLower == [w \in MCWord |-> CASE w = "OFF" -> "off"
                                 [] w = "B.CFG" -> "b.cfg"
                                 [] OTHER -> w]

L(c, w) == [cmd |-> c, args |-> w]
MCTyped == {L("config_save", "a.cfg"), L("config_load", "a.cfg"), L("config_load", "b.cfg"),
            L("config_load", ""), L("unknown", "on")}
MCUserFiles ==
    [p \in MCPath |->
       IF p = "a.cfg"
       THEN {Absent, <<L("config_load", "B.CFG"), L("fullscreen", "OFF"), L("config_load", "b.cfg")>>}
       ELSE {<<L("config_save", "a.cfg"), L("help", ""), L("quit", "on")>>,
             <<L("config_load", ""), L("fullscreen", "on")>>,
             <<L("fullscreen", "on"), L("config_load", "a.cfg")>>}]
=============================================================================
