--------------------------- MODULE FrameOwnership ---------------------------
(***************************************************************************)
(* What double buffering promises: an image has one owner at a time, and   *)
(* it is drawn on only when the screen no longer reads it.  The program    *)
(* ("app") takes an image from the presentation engine, the graphics       *)
(* processor draws it, the engine gets it back.  All images may be         *)
(* exchanged for new ones only while the engine owns every one of them.    *)
(***************************************************************************)
EXTENDS FiniteSets

CONSTANT Image

VARIABLES
    owner,     \* who may touch an image: "engine", "app" or "gpu"
    onScreen   \* the images the screen may still read

ownership == <<owner, onScreen>>

OwnerInit == owner = [i \in Image |-> "engine"] /\ onScreen = {}

Take(i) ==
    /\ owner[i] = "engine"
    /\ \A j \in Image : owner[j] # "app"
    /\ owner' = [owner EXCEPT ![i] = "app"]
    /\ UNCHANGED onScreen

Draw(i) ==
    /\ owner[i] = "app" /\ i \notin onScreen
    /\ owner' = [owner EXCEPT ![i] = "gpu"]
    /\ UNCHANGED onScreen

(* Given back to be shown, or dropped because the surface has changed. *)
Give(i) ==
    /\ owner[i] = "gpu"
    /\ owner' = [owner EXCEPT ![i] = "engine"]
    /\ onScreen' \in {onScreen, onScreen \union {i}}

Leave(i) ==
    /\ i \in onScreen
    /\ onScreen' = onScreen \ {i}
    /\ UNCHANGED owner

Exchange ==
    /\ \A i \in Image : owner[i] = "engine"
    /\ onScreen' = {}
    /\ UNCHANGED owner

OwnerNext == Exchange \/ \E i \in Image : Take(i) \/ Draw(i) \/ Give(i) \/ Leave(i)

OwnerSpec == OwnerInit /\ [][OwnerNext]_ownership
=============================================================================
