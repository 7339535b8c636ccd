---------------------------- MODULE AppLifecycle ----------------------------
(***************************************************************************)
(* What the application promises about its life: it starts, opens one      *)
(* window, may be asked to close, and is gone until the user starts it     *)
(* again.  Console lines are taken one at a time, never two at once, and   *)
(* none is taken any more once the window was asked to close; the one in   *)
(* progress may still finish.  An open application ends by a request to    *)
(* close or by what a line makes it do, and by nothing else.               *)
(***************************************************************************)
VARIABLES
    phase,     \* "starting", "open", "closing" or "gone"
    busy       \* a console line or a config file is being executed

Init == phase = "starting" /\ busy = FALSE

Accept == /\ phase \in {"starting", "open"} /\ ~busy
          /\ busy' = TRUE /\ UNCHANGED phase

Finish == busy /\ busy' = FALSE /\ UNCHANGED phase

(* The window opens when the startup config has run to its end. *)
Open == /\ phase = "starting" /\ ~busy
        /\ phase' = "open" /\ UNCHANGED busy

RequestClose == phase = "open" /\ phase' = "closing" /\ UNCHANGED busy

(* An open window does not go unless a line is being executed. *)
Die == /\ phase # "gone" /\ (phase = "open" => busy)
       /\ phase' = "gone" /\ busy' = FALSE

Start == phase = "gone" /\ phase' = "starting" /\ UNCHANGED busy

Next == Accept \/ Finish \/ Open \/ RequestClose \/ Die \/ Start

Spec == Init /\ [][Next]_<<phase, busy>>
=============================================================================
