--------------------------- MODULE MCDemoCreation ----------------------------
(***************************************************************************)
(* Two parts of what the Vulkan demo creates, side by side: the shaders    *)
(* with their files, and the data of the other objects.  They share        *)
(* nothing, so each moves only while the other rests where it began, and   *)
(* the run visits the states of the one and those of the other, not their  *)
(* product.                                                                *)
(***************************************************************************)
EXTENDS ShaderCache, DemoData

CONSTANTS good, unended, bad, a, b, nan

(* A text that compiles, one that compiles if a zero happens to follow it, *)
(* one that does not.                                                      *)
MCVersion   == {good, unended, bad}
MCValid     == {good, unended}
MCZeroEnded == {good, bad}

(* Models that repeat a vertex, have one with a NaN, or point outside. *)
MCVertex == {a, b, nan}
MCOdd    == {nan}
MCModel  == {<<a, b, a>>, <<a, nan, a>>, <<b, Outside, a, b>>}

(* Depth formats with and without stencil; memory of several types, or of one. *)
Type(depth, memory) == [depth |-> depth, memory |-> memory]
MCMachine == {Type({"D32", "D24S8"}, <<{"local"}, {"host"}, {"host", "coherent"}>>),
              Type({"D24S8"}, <<{"host", "coherent", "local"}>>)}

(* A surface with an extent of its own, one that leaves it to the program  *)
(* and allows any format, one too wide and too low for the screen.         *)
Extent(w, h) == [d \in Dimension |-> IF d = "width" THEN w ELSE h]
MCScreen     == Extent(3, 2)
Colour(f)    == [format |-> f, space |-> "sRGB"]
Surface(current, least, most, formats, modes, min, max) ==
    [current |-> current, least |-> least, most |-> most, formats |-> formats,
     modes |-> modes, minImages |-> min, maxImages |-> max]

MCOffer ==
    {Surface(Extent(2, 1), Extent(1, 1), Extent(4, 4), <<Colour("R8"), Preferred>>,
             {"fifo", "mailbox"}, 2, 0),
     Surface(AsYouLike, Extent(1, 1), Extent(2, 4), <<Colour("undefined")>>, {"fifo"}, 2, 2),
     Surface(AsYouLike, Extent(4, 1), Extent(4, 1), <<Colour("R8")>>, {"fifo", "immediate"}, 1, 3)}

-----------------------------------------------------------------------------
ShadersRest == /\ pc = "off" /\ events = 0
               /\ source = [s \in Shader |-> good] /\ binary = [s \in Shader |-> Missing]
DataRests   == /\ calls = InitializeSteps /\ at = 1 /\ alive
               /\ machine = Type({"D24S8"}, <<{"host", "coherent", "local"}>>)
               /\ file = [texture |-> Texels, corners |-> <<a, b, a>>]

CreationNext == \/ DataRests /\ Next /\ UNCHANGED dataVars
                \/ ShadersRest /\ DataNext /\ UNCHANGED vars

CreationInit == Init /\ DataInit /\ (ShadersRest \/ DataRests)
CreationSpec == CreationInit /\ [][CreationNext]_<<vars, dataVars>>
=============================================================================
