---------------------------- MODULE MCFrameLoop -----------------------------
(* The Vulkan demo on machines with one or two adapters.                   *)
EXTENDS FrameLoop

Both == {"graphics", "present"}
A(families, modes, min, max) ==
    [families |-> families, modes |-> modes, minImages |-> min, maxImages |-> max,
     formats |-> {"bgra"}, swapchains |-> TRUE, anisotropy |-> TRUE]

OneQueueFifo    == A(<<Both>>, {"fifo"}, 1, 0)
OneQueueMailbox == A(<<{"graphics"}, Both>>, {"fifo", "mailbox"}, 2, 3)
AtItsMost       == A(<<Both, {"present"}>>, {"fifo", "mailbox"}, 2, 2)
TwoQueues       == A(<<{"present"}, {"graphics"}, Both>>, {"fifo"}, 2, 8)
NoScreen        == A(<<{"graphics"}>>, {"fifo"}, 2, 0)
NoFilter        == [OneQueueFifo EXCEPT !.anisotropy = FALSE]
NoFormat        == [OneQueueMailbox EXCEPT !.formats = {}]

MCAdapters == {<<OneQueueFifo>>, <<NoScreen, OneQueueMailbox>>, <<NoFormat, AtItsMost>>, <<TwoQueues>>,
               <<NoFilter>>}
MCShared   == {<<OneQueueFifo>>, <<NoFilter, AtItsMost>>}
=============================================================================
