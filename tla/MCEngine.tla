------------------------------ MODULE MCEngine ------------------------------
(* The application with one config file besides the main config.  The      *)
(* user's main config asks for full screen, for a save of itself, or does  *)
(* not exist.                                                              *)
EXTENDS Engine

MCPath == {"main.config"}
MCWord == MCPath \cup {"", "on", "OFF", "off"}
MCToLower == [w \in MCWord |-> IF w = "OFF" THEN "off" ELSE w]

L(c, w) == [cmd |-> c, args |-> w]
MCTyped == {L("quit", ""), L("fullscreen", "OFF"), L("config_load", "main.config"),
            L("config_save", "main.config")}
MCUserFiles == [p \in MCPath |->
                  {Absent, <<L("fullscreen", "on"), L("help", ""), L("exit", "")>>,
                   <<L("config_save", "main.config"), L("fullscreen", "on")>>}]
=============================================================================
