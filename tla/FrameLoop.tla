----------------------------- MODULE FrameLoop ------------------------------
(***************************************************************************)
(* The Vulkan demo: the loop that polls the window and draws frames, the   *)
(* window callbacks that run inside it, the graphics processor with its    *)
(* queues, and the presentation engine that shows images.                  *)
(*                                                                         *)
(* The program is one thread.  The processor and the engine work beside it *)
(* and are known only through the Vulkan calls the program makes: their    *)
(* actions stand for the driver and are chosen as freely as it may choose. *)
(***************************************************************************)
EXTENDS DemoParts

CONSTANTS
    Adapters,    \* the lists of adapters a machine may have
    MaxImages,   \* bound on the images of a swap chain
    MaxEvents    \* bound on what the user does

ASSUME FrameLoopAssumption ==
    /\ MaxImages \in Nat \ {0} /\ MaxEvents \in Nat
    /\ \A l \in Adapters : /\ Len(l) \in Nat /\ DOMAIN l = 1..Len(l)
                           /\ \A k \in DOMAIN l : ImageCount(l[k]) \in 1..MaxImages

VARIABLES
    pc, steps, back,   \* where the program is, what it has still to create, where it goes on
    made, stale,       \* the objects it holds; those made from something created anew since
    list, adapter,     \* the machine's adapters, the index of the chosen one
    debug,             \* enableValidationLayers
    extent, images,    \* of the swap chain: its extent, how many images
    aspect,            \* the extent the projection in the uniform buffer is for
    held,              \* the image the program has acquired and not yet presented, or 0
    fence, semaphore,  \* imageAvailableFence; renderFinishedSemaphore is signalled
    shouldClose, paused, fullscreen,
    focused, surface,  \* the window: its focus and its extent
    events,            \* how many things the user has done
    gfx, prs,          \* graphicsQueue and presentQueue: operations not yet executed
    queued, shown, reading  \* images to be shown, on the screen, still read for it

program == <<pc, steps, back, held>>
objects == <<made, stale, list, adapter, debug, extent, images>>
window  == <<shouldClose, paused, fullscreen, focused, surface, events>>
signals == <<fence, semaphore>>
screen  == <<queued, shown, reading>>
queues  == <<gfx, prs>>
vars    == <<program, objects, aspect, window, signals, queues, screen>>

Extent == {"window", "full", "other", "zero"}   \* "zero": the window is minimised
Image  == 1..MaxImages
Shared == adapter > 0 /\ OneFamily(list[adapter])    \* one queue draws and presents

DrawOf(i)        == [kind |-> "draw", image |-> i, shows |-> FALSE]
PresentOf(i, ok) == [kind |-> "present", image |-> i, shows |-> ok]
Pending(i)       == \E q \in {gfx, prs} : \E k \in DOMAIN q : q[k].image = i
Quiet            == gfx = << >> /\ prs = << >>
Ended            == pc \in {"over", "dead"}
Fits             == surface = extent
WindowOpen       == pc \notin {"destroy", "over", "dead"}

Init ==
    /\ pc = "create" /\ steps = InitializeSteps /\ back = "test"
    /\ made = {} /\ stale = {}
    /\ list \in Adapters /\ adapter = 0 /\ debug \in BOOLEAN
    /\ extent = "zero" /\ images = 0 /\ aspect = "zero" /\ held = 0
    /\ fence = "idle" /\ semaphore = FALSE
    /\ shouldClose = FALSE /\ paused = FALSE /\ fullscreen = FALSE
    /\ focused = TRUE /\ surface = "window" /\ events = 0
    /\ gfx = << >> /\ prs = << >>
    /\ queued = << >> /\ shown = 0 /\ reading = {}

-----------------------------------------------------------------------------
(* Initialize and RecreateSwapChain create the objects one after another.  *)
(* An object that replaces one leaves those that were made from the old    *)
(* one stale.                                                              *)
At(o) == pc = "create" /\ steps # << >> /\ Head(steps) = o

Created(o) ==
    /\ made' = made \union {o}
    /\ stale' = (stale \ {o}) \union {x \in made : o \in Uses[x]}
    /\ steps' = Tail(steps)

(* Functions that do nothing but create their object.  The debug callback  *)
(* is only created with the validation layers.                             *)
Create(o) ==
    /\ At(o) /\ o \notin {"physDevice", "swapchain"}
    /\ IF o = "callback" /\ ~debug
       THEN steps' = Tail(steps) /\ UNCHANGED <<made, stale>>
       ELSE Created(o)
    /\ UNCHANGED <<pc, back, held, list, adapter, debug, extent, images, aspect, window, signals,
                   queues, screen>>

GetPhysDevice ==
    /\ At("physDevice") /\ FirstSuitable(list) > 0
    /\ adapter' = FirstSuitable(list) /\ Created("physDevice")
    /\ UNCHANGED <<pc, back, held, list, debug, extent, images, aspect, window, signals, queues,
                   screen>>

(* The new swap chain takes the extent the surface has now.  Nothing of it *)
(* has been shown; the old one goes.                                       *)
CreateSwapChain ==
    /\ At("swapchain")
    /\ extent' = surface /\ images' = ImageCount(list[adapter])
    /\ Created("swapchain")
    /\ queued' = << >> /\ shown' = 0 /\ reading' = {}
    /\ UNCHANGED <<pc, back, held, list, adapter, debug, aspect, window, signals, queues>>

(* A create function throws, or its assertion fails: the program ends.     *)
CreateFails ==
    /\ pc = "create" /\ steps # << >> /\ pc' = "dead"
    /\ UNCHANGED <<steps, back, held, objects, aspect, window, signals, queues, screen>>

AllCreated ==
    /\ pc = "create" /\ steps = << >> /\ pc' = back
    /\ UNCHANGED <<steps, back, held, objects, aspect, window, signals, queues, screen>>

(* RecreateSwapChain is called; afterwards the caller goes on at place. *)
GoRecreate(place) == pc' = "recreate" /\ back' = place

(* Mutated form: without device->waitIdle(). *)
WaitIdle_None ==
    /\ pc = "recreate" /\ pc' = "create" /\ steps' = RecreateSteps
    /\ UNCHANGED <<back, held, objects, aspect, window, signals, queues, screen>>

(* RecreateSwapChain waits until the device is idle. *)
WaitIdle ==
    /\ pc = "recreate" /\ Quiet
    /\ pc' = "create" /\ steps' = RecreateSteps
    /\ UNCHANGED <<back, held, objects, aspect, window, signals, queues, screen>>

-----------------------------------------------------------------------------
(* mainLoop. *)
LoopTest ==
    /\ pc = "test" /\ pc' = IF shouldClose THEN "final" ELSE "poll"
    /\ UNCHANGED <<steps, back, held, objects, aspect, window, signals, queues, screen>>

(* glfwPollEvents returns; so does glfwWaitEvents once renderPaused is     *)
(* FALSE (while it is TRUE the loop goes back to sleep).                   *)
PollReturns ==
    /\ pc \in {"poll", "wait"} /\ pc' = IF paused THEN "wait" ELSE "update"
    /\ pc' # pc
    /\ UNCHANGED <<steps, back, held, objects, aspect, window, signals, queues, screen>>

UpdateUniformBuffer ==
    /\ pc = "update" /\ pc' = "acquire" /\ aspect' = extent
    /\ UNCHANGED <<steps, back, held, objects, window, signals, queues, screen>>

(* Mutated form: a suboptimal surface recreates the swap chain although an *)
(* image has been acquired.                                                *)
Acquire_SuboptimalRecreates(i) ==
    /\ pc = "acquire" /\ i \in 1..images
    /\ i # shown /\ i \notin Range(queued) /\ ~Pending(i)
    /\ IF Fits THEN pc' = "fence" /\ UNCHANGED back ELSE GoRecreate("test")
    /\ held' = i /\ fence' = "pending"
    /\ UNCHANGED <<steps, objects, aspect, window, semaphore, queues, screen>>

(* DrawFrame.  The engine hands out an image that is neither shown nor     *)
(* queued, though the screen may still read it: the fence tells when it    *)
(* has stopped.  An extent the window no longer has is out of date or      *)
(* suboptimal, as the platform likes.                                      *)
Acquire(i) ==
    /\ pc = "acquire" /\ i \in 1..images
    /\ i # shown /\ i \notin Range(queued) /\ ~Pending(i)
    /\ pc' = "fence" /\ held' = i
    /\ fence' = IF fence = "signaled" THEN fence ELSE "pending"
    /\ UNCHANGED <<steps, back, objects, aspect, window, semaphore, queues, screen>>

(* Mutated form: the next try follows at once, not round the loop. *)
AcquireOutOfDate_Retries ==
    /\ pc = "acquire" /\ ~Fits /\ GoRecreate("acquire")
    /\ UNCHANGED <<steps, held, objects, aspect, window, signals, queues, screen>>

AcquireOutOfDate ==
    /\ pc = "acquire" /\ ~Fits /\ GoRecreate("test")
    /\ UNCHANGED <<steps, held, objects, aspect, window, signals, queues, screen>>

(* Mutated form: the fence is not reset. *)
WaitForFence_NoReset ==
    /\ pc = "fence" /\ fence = "signaled" /\ pc' = "submit"
    /\ UNCHANGED <<steps, back, held, objects, aspect, window, signals, queues, screen>>

(* Mutated form: the program does not wait. *)
WaitForFence_None ==
    /\ pc = "fence" /\ pc' = "submit" /\ fence' = "idle"
    /\ UNCHANGED <<steps, back, held, objects, aspect, window, semaphore, queues, screen>>

WaitForFence ==
    /\ pc = "fence" /\ fence = "signaled"
    /\ pc' = "submit" /\ fence' = "idle"
    /\ UNCHANGED <<steps, back, held, objects, aspect, window, semaphore, queues, screen>>

Submit ==
    /\ pc = "submit" /\ pc' = "present"
    /\ gfx' = Append(gfx, DrawOf(held))
    /\ UNCHANGED <<steps, back, held, objects, aspect, window, signals, prs, screen>>

(* presentKHR queues the wait for the semaphore even when it reports that  *)
(* the surface is out of date.  Any result but success recreates.          *)
Presented(ok) ==
    /\ IF Shared THEN gfx' = Append(gfx, PresentOf(held, ok)) /\ UNCHANGED prs
                 ELSE prs' = Append(prs, PresentOf(held, ok)) /\ UNCHANGED gfx
    /\ held' = 0
    /\ UNCHANGED <<steps, objects, aspect, window, signals, screen>>

(* Mutated form: a suboptimal result is taken for success. *)
PresentMisfit_Accepts ==
    /\ pc = "present" /\ ~Fits /\ pc' = "test" /\ Presented(TRUE) /\ UNCHANGED back

PresentFits   == pc = "present" /\ Fits /\ pc' = "test" /\ Presented(TRUE) /\ UNCHANGED back
PresentMisfit == pc = "present" /\ ~Fits /\ GoRecreate("test") /\ \E ok \in BOOLEAN : Presented(ok)

(* Any other error ends the program: mapMemory and waitIdle throw, an assertion stands behind *)
(* acquire, submit and present.  The result of waitForFences is dropped: the device is lost,  *)
(* and submit finds that out.                                                                 *)
CallFails ==
    /\ pc \in {"update", "acquire", "fence", "submit", "present", "recreate", "final"}
    /\ pc' = "dead"
    /\ UNCHANGED <<steps, back, held, objects, aspect, window, signals, queues, screen>>

-----------------------------------------------------------------------------
(* The loop is left: the program waits until the device is idle.           *)
LeaveLoop ==
    /\ pc = "final" /\ Quiet
    /\ pc' = "terminate"
    /\ UNCHANGED <<steps, back, held, objects, aspect, window, signals, queues, screen>>

(* glfwTerminate destroys the window.  Then main returns, and the          *)
(* destructors of the static renderer run.                                 *)
GlfwTerminate ==
    /\ pc = "terminate"
    /\ pc' = "destroy" /\ steps' = Members
    /\ UNCHANGED <<back, held, objects, aspect, window, signals, queues, screen>>

(* What outlives the renderer: the surface has no owner, and the function  *)
(* that destroys the callback is asked of GLFW, which is terminated.       *)
Outliving == {"surface", "callback"}

DestroyMember ==
    /\ pc = "destroy" /\ steps # << >> /\ Last(steps) \notin Outliving
    /\ made' = made \ GoesWith(Last(steps)) /\ steps' = Front(steps)
    /\ UNCHANGED <<pc, back, held, stale, list, adapter, debug, extent, images, aspect, window,
                   signals, queues, screen>>

(* The surface is destroyed through no instance, which is undefined:       *)
(* nothing happens, or the process ends.                                   *)
LeaveMember ==
    /\ pc = "destroy" /\ steps # << >> /\ Last(steps) \in Outliving
    /\ \/ steps' = Front(steps) /\ UNCHANGED pc
       \/ Last(steps) = "surface" /\ pc' = "dead" /\ UNCHANGED steps
    /\ UNCHANGED <<back, held, objects, aspect, window, signals, queues, screen>>

Destroyed ==
    /\ pc = "destroy" /\ steps = << >> /\ pc' = "over"
    /\ UNCHANGED <<steps, back, held, objects, aspect, window, signals, queues, screen>>

-----------------------------------------------------------------------------
(* What the user does to the window.  GLFW changes the window and calls    *)
(* back while it dispatches, that is in glfwPollEvents and glfwWaitEvents. *)
Dispatching == pc \in {"poll", "wait"}
Event == events < MaxEvents /\ events' = events + 1
Elsewhere == UNCHANGED <<steps, held, objects, aspect, signals, queues, screen>>
Stays     == Elsewhere /\ UNCHANGED <<pc, back>>
FullOrWindow(full) == IF full THEN "full" ELSE "window"

(* onWindowFocus.  A full screen window that loses the focus is minimised, *)
(* a minimised window that gets it is restored.                            *)
FocusLost(minimised) ==
    /\ Dispatching /\ Event /\ focused
    /\ focused' = FALSE /\ paused' = TRUE
    /\ surface' = IF fullscreen \/ minimised THEN "zero" ELSE surface
    /\ Stays /\ UNCHANGED <<shouldClose, fullscreen>>

FocusGained ==
    /\ Dispatching /\ Event /\ ~focused
    /\ focused' = TRUE /\ paused' = FALSE
    /\ surface' = IF surface = "zero" THEN FullOrWindow(fullscreen) ELSE surface
    /\ Stays /\ UNCHANGED <<shouldClose, fullscreen>>

(* A window without the focus is minimised: no callback tells. *)
Minimised ==
    /\ Dispatching /\ Event /\ ~focused /\ surface # "zero"
    /\ surface' = "zero"
    /\ Stays /\ UNCHANGED <<shouldClose, paused, fullscreen, focused>>

(* Mutated form: the focus is not asked. *)
Refresh_AnyFocus ==
    /\ Dispatching /\ Event /\ GoRecreate(pc)
    /\ Elsewhere /\ UNCHANGED <<shouldClose, paused, fullscreen, focused, surface>>

(* onWindowRefresh. *)
Refresh ==
    /\ Dispatching /\ Event /\ focused /\ GoRecreate(pc)
    /\ Elsewhere /\ UNCHANGED <<shouldClose, paused, fullscreen, focused, surface>>

(* ESC, or the close button, which needs no focus. *)
CloseAsked ==
    /\ Dispatching /\ Event /\ ~shouldClose
    /\ shouldClose' = TRUE
    /\ Stays /\ UNCHANGED <<paused, fullscreen, focused, surface>>

EnterPressed ==
    /\ Dispatching /\ Event /\ focused
    /\ fullscreen' = ~fullscreen /\ surface' = FullOrWindow(~fullscreen)
    /\ Stays /\ UNCHANGED <<shouldClose, paused, focused>>

(* No callback is set for the size of the window; some window systems      *)
(* change it at any moment.                                                *)
Resize(x) ==
    /\ WindowOpen /\ Event /\ ~fullscreen /\ surface \notin {"zero", x}
    /\ surface' = x
    /\ Stays /\ UNCHANGED <<shouldClose, paused, fullscreen, focused>>

-----------------------------------------------------------------------------
(* The graphics processor and the presentation engine. *)
Outside == UNCHANGED <<program, objects, aspect, window>>

(* The draw is done and signals the semaphore; to signal one that is       *)
(* signalled changes nothing.                                              *)
FinishDraw ==
    /\ ~Ended /\ gfx # << >> /\ Head(gfx).kind = "draw"
    /\ gfx' = Tail(gfx) /\ semaphore' = TRUE
    /\ Outside /\ UNCHANGED <<prs, fence, screen>>

(* A present waits for the semaphore and resets it.  A mailbox keeps only  *)
(* the newest image.                                                       *)
ExecutePresent ==
    /\ ~Ended
    /\ LET q  == IF Shared THEN gfx ELSE prs
           op == Head(q)
       IN /\ q # << >> /\ op.kind = "present"
          /\ semaphore /\ semaphore' = FALSE
          /\ IF Shared THEN gfx' = Tail(q) /\ UNCHANGED prs
                       ELSE prs' = Tail(q) /\ UNCHANGED gfx
          /\ queued' = IF ~op.shows THEN queued
                       ELSE IF PresentMode(list[adapter]) = "mailbox" THEN <<op.image>>
                       ELSE Append(queued, op.image)
          /\ reading' = IF op.shows THEN reading \union {op.image} ELSE reading
    /\ Outside /\ UNCHANGED <<fence, shown>>

Show ==
    /\ ~Ended /\ queued # << >>
    /\ shown' = Head(queued) /\ queued' = Tail(queued)
    /\ Outside /\ UNCHANGED <<signals, queues, reading>>

StopReading(i) ==
    /\ ~Ended /\ i \in reading /\ i # shown /\ i \notin Range(queued)
    /\ reading' = reading \ {i}
    /\ Outside /\ UNCHANGED <<signals, queues, queued, shown>>

SignalFence ==
    /\ ~Ended /\ fence = "pending" /\ held \notin reading
    /\ fence' = "signaled"
    /\ Outside /\ UNCHANGED <<semaphore, queues, screen>>

-----------------------------------------------------------------------------
Creating   == (\E o \in Part : Create(o)) \/ GetPhysDevice \/ CreateSwapChain \/ AllCreated
Looping    == LoopTest \/ PollReturns \/ UpdateUniformBuffer
DrawFrame  == \/ \E i \in Image : Acquire(i)
              \/ AcquireOutOfDate \/ WaitForFence \/ Submit \/ PresentFits \/ PresentMisfit
Leaving    == LeaveLoop \/ GlfwTerminate \/ DestroyMember \/ LeaveMember \/ Destroyed
Program    == Creating \/ WaitIdle \/ Looping \/ DrawFrame \/ Leaving
Failures   == CreateFails \/ CallFails
Processor  == FinishDraw \/ ExecutePresent
Engine     == Show \/ SignalFence \/ \E i \in Image : StopReading(i)
User       == \/ \E minimised \in BOOLEAN : FocusLost(minimised)
              \/ FocusGained \/ Minimised \/ Refresh \/ CloseAsked \/ EnterPressed
              \/ \E x \in {"window", "other"} : Resize(x)

(* The process has ended, or the paused loop sleeps until the user acts.   *)
Rest == (Ended \/ (pc = "wait" /\ paused)) /\ UNCHANGED vars

Next == Program \/ Failures \/ Processor \/ Engine \/ User \/ Rest

(* The thread is scheduled, the device executes what is queued and the     *)
(* engine goes on to the next image; nobody makes the user act.            *)
Fairness == WF_vars(Program) /\ WF_vars(Processor) /\ WF_vars(Show)
            /\ WF_vars(SignalFence) /\ \A i \in Image : WF_vars(StopReading(i))

Spec == Init /\ [][Next]_vars /\ Fairness

-----------------------------------------------------------------------------
Place == {"create", "recreate", "test", "poll", "wait", "update", "acquire", "fence", "submit",
          "present", "final", "terminate", "destroy", "over", "dead"}
Operation == [kind : {"draw", "present"}, image : Image, shows : BOOLEAN]

FrameTypeOK ==
    /\ pc \in Place /\ back \in Place /\ steps \in Seq(Part)
    /\ made \subseteq Part /\ stale \subseteq made
    /\ list \in Adapters /\ adapter \in {0} \union DOMAIN list /\ debug \in BOOLEAN
    /\ {extent, aspect, surface} \subseteq Extent
    /\ {images, held, shown} \subseteq {0} \union Image
    /\ held # 0 => pc \in {"fence", "submit", "present", "dead"}
    /\ fence \in {"idle", "pending", "signaled"} /\ semaphore \in BOOLEAN
    /\ {shouldClose, paused, fullscreen, focused} \subseteq BOOLEAN /\ events \in 0..MaxEvents
    /\ gfx \in Seq(Operation) /\ prs \in Seq(Operation)
    /\ queued \in Seq(Image) /\ reading \subseteq Image

(* Every function finds the objects it reads created, and not older than   *)
(* what they were made from: the two lists of calls are in a right order,  *)
(* and the second one is long enough.                                      *)
BuiltFromCurrent == pc = "create" /\ steps # << >> => Uses[Head(steps)] \subseteq made \ stale

(* While a draw is queued or running, the objects its commands use exist   *)
(* and are those the swap chain has now: neither a refresh in the middle   *)
(* of polling, nor an out of date surface, nor the end of the program      *)
(* takes them away.                                                        *)
DrawsUseCurrent ==
    (\E k \in DOMAIN gfx : gfx[k].kind = "draw") => stale = {} /\ Part \ {"callback"} \subseteq made

(* The one uniform buffer carries the aspect of the extent every frame in  *)
(* flight is drawn with, although it is written before the swap chain is   *)
(* acquired from and never together with it.                               *)
ProjectionFits == (\E k \in DOMAIN gfx : gfx[k].kind = "draw") => aspect = extent

(* The fence is neither signalled nor pending when an image is acquired    *)
(* with it; and on a device with one queue no draw signals the semaphore   *)
(* while the present before it has still to wait for it.                   *)
SignalsFit ==
    /\ pc \in {"acquire", "recreate"} => fence = "idle"
    /\ FirstSuitable(list) > 0 /\ OneFamily(list[FirstSuitable(list)]) =>
         ~(semaphore /\ gfx # << >> /\ Head(gfx).kind = "draw")

(* No swap chain is ever created for a minimised window: such a window is  *)
(* paused before the program draws or refreshes, whichever way it was      *)
(* minimised.                                                              *)
NoEmptySwapChain == "swapchain" \in made => extent # "zero"

(* The static renderer is taken apart child by child, and with GLFW gone   *)
(* (main.cpp:37) exactly two things outlive it: the surface, and the debug *)
(* callback, whose instance goes without it.                               *)
TakenApart ==
    /\ \A o \in made \ Outliving : Parent(o) \subseteq made
    /\ pc = "over" => made = IF debug THEN {"surface", "callback"} ELSE {"surface"}

(* The images change hands as FrameOwnership promises.                     *)
Owner == [i \in Image |->
            IF held = i /\ (pc \in {"fence", "submit"} \/ fence # "idle") THEN "app"
            ELSE IF held = i \/ Pending(i) THEN "gpu" ELSE "engine"]
Ownership == INSTANCE FrameOwnership WITH owner <- Owner, onScreen <- reading
RefinesOwnership == Ownership!OwnerSpec

(* A request to close ends the program unless the loop pauses.             *)
CloseEnds == shouldClose /\ ~paused ~> Ended \/ paused

(* A swap chain of another extent than the window's is replaced, although  *)
(* nothing tells the program that the size has changed.                    *)
FollowsWindow == pc = "test" /\ ~Fits ~> Fits \/ paused \/ shouldClose \/ Ended
=============================================================================
