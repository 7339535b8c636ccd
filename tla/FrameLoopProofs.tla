--------------------------- MODULE FrameLoopProofs --------------------------
(***************************************************************************)
(* For every list of adapters, every number of images and any number of    *)
(* events: no swap chain is made for a minimised window, the images change *)
(* hands as FrameOwnership promises, and every frame is drawn with the     *)
(* projection of its swap chain.                                           *)
(***************************************************************************)
EXTENDS FrameLoop, SequenceTheorems, TLAPS

(* What an action outside a group leaves alone. *)
USE DEF program, objects, window, signals, screen, queues

(* The window is minimised only without the focus, and without it the program sleeps. *)
Awake ==
    /\ paused => pc \in {"poll", "wait"}
    /\ paused <=> ~focused
    /\ surface = "zero" => paused
    /\ "swapchain" \in made => extent # "zero"

LEMMA AwakeStep == ASSUME Awake, [Next]_vars PROVE Awake'
<1> USE DEF Awake
<1>1. CASE UNCHANGED <<paused, focused, surface, made, extent>> /\ (paused => pc' \in {"poll", "wait"})
  BY <1>1
<1>2. CASE Creating \/ CreateFails
  <2>1. ASSUME NEW o \in Part, Create(o) PROVE Awake'
    BY <2>1 DEF Create, At, Created
  <2>2. CASE GetPhysDevice
    BY <2>2 DEF GetPhysDevice, At, Created
  <2>3. CASE CreateSwapChain
    BY <2>3 DEF CreateSwapChain, At, Created
  <2>4. CASE AllCreated \/ CreateFails
    BY <1>1, <2>4 DEF AllCreated, CreateFails
  <2> QED
    BY <1>2, <2>1, <2>2, <2>3, <2>4 DEF Creating
<1>3. CASE WaitIdle \/ Looping
  BY <1>1, <1>3 DEF WaitIdle, Looping, LoopTest, PollReturns, UpdateUniformBuffer
<1>4. CASE DrawFrame \/ CallFails
  BY <1>1, <1>4 DEF DrawFrame, CallFails, Acquire, AcquireOutOfDate, GoRecreate, WaitForFence, Submit,
                    PresentFits, PresentMisfit, Presented
<1>5. CASE Leaving
  BY <1>1, <1>5 DEF Leaving, LeaveLoop, GlfwTerminate, DestroyMember,
                    LeaveMember, Destroyed
<1>6. CASE Processor \/ Engine \/ Rest
  BY <1>1, <1>6 DEF Processor, Engine, Rest, FinishDraw, ExecutePresent, Outside, Show, StopReading,
                    SignalFence, vars
<1>7. CASE User
  BY <1>7 DEF User, FocusLost, FocusGained, Minimised, Refresh, CloseAsked, EnterPressed, Resize,
              Dispatching, Elsewhere, Stays, GoRecreate, FullOrWindow
<1>8. CASE UNCHANGED vars
  BY <1>1, <1>8 DEF vars
<1> QED
  BY <1>2, <1>3, <1>4, <1>5, <1>6, <1>7, <1>8 DEF Next, Program, Failures

(* However the window is minimised, and whatever is created at its start or again, no swap    *)
(* chain gets the extent of a minimised window.                                               *)
THEOREM FrameNoEmptySwapChain == Spec => []NoEmptySwapChain
<1>1. Init => Awake
  BY DEF Init, Awake
<1>2. Awake => NoEmptySwapChain
  BY DEF Awake, NoEmptySwapChain
<1> QED
  BY <1>1, <1>2, AwakeStep, PTL DEF Spec

-----------------------------------------------------------------------------
(* Sequences of operations: their ends, and what is in them after a step. *)
LEMMA Dropped ==
    ASSUME NEW q \in Seq(Operation), q # << >>
    PROVE  /\ Head(q) = q[1] /\ Head(q) \in Operation /\ Tail(q) \in Seq(Operation)
           /\ Len(q) \in Nat \ {0} /\ Len(Tail(q)) = Len(q) - 1
           /\ DOMAIN q = 1..Len(q) /\ DOMAIN Tail(q) = 1..(Len(q) - 1)
           /\ \A k \in 1..(Len(q) - 1) : Tail(q)[k] = q[k + 1]
<1>1. Len(q) \in Nat /\ Len(q) # 0 /\ DOMAIN q = 1..Len(q)
  BY EmptySeq, LenProperties
<1>2. Head(q) = q[1] /\ Tail(q) \in Seq(Operation) /\ Len(Tail(q)) = Len(q) - 1
  BY HeadTailProperties
<1>3. \A k \in 1..(Len(q) - 1) : Tail(q)[k] = q[k + 1]
  BY <1>2, HeadTailProperties
<1>4. DOMAIN Tail(q) = 1..(Len(q) - 1)
  BY <1>2, LenProperties
<1>5. q[1] \in Operation
  BY <1>1, ElementOfSeq
<1> QED
  BY <1>1, <1>2, <1>3, <1>4, <1>5

LEMMA Appended ==
    ASSUME NEW q \in Seq(Operation), NEW op \in Operation
    PROVE  /\ Append(q, op) \in Seq(Operation) /\ Len(Append(q, op)) = Len(q) + 1
           /\ Len(q) \in Nat /\ DOMAIN q = 1..Len(q) /\ DOMAIN Append(q, op) = 1..(Len(q) + 1)
           /\ \A k \in 1..Len(q) : Append(q, op)[k] = q[k]
           /\ Append(q, op)[Len(q) + 1] = op
<1>1. Len(q) \in Nat /\ DOMAIN q = 1..Len(q)
  BY LenProperties
<1>2. /\ Append(q, op) \in Seq(Operation) /\ Len(Append(q, op)) = Len(q) + 1
      /\ \A k \in 1..Len(q) : Append(q, op)[k] = q[k]
      /\ Append(q, op)[Len(q) + 1] = op
  BY <1>1, AppendProperties
<1>3. DOMAIN Append(q, op) = 1..(Len(q) + 1)
  BY <1>2, LenProperties
<1> QED
  BY <1>1, <1>2, <1>3

(* Nothing of an image comes behind its present in one queue. *)
PresentLast(q) ==
    \A k, l \in DOMAIN q : k < l /\ q[k].kind = "present" => q[l].image # q[k].image

Presents(q, i) == \E k \in DOMAIN q : q[k].kind = "present" /\ q[k].image = i
Has(q, i)      == \E k \in DOMAIN q : q[k].image = i

LEMMA PresentLastKept ==
    ASSUME NEW q \in Seq(Operation), PresentLast(q)
    PROVE  /\ q # << >> => PresentLast(Tail(q))
           /\ q # << >> /\ Head(q).kind = "present" => ~Has(Tail(q), Head(q).image)
           /\ \A op \in Operation : ~Presents(q, op.image) => PresentLast(Append(q, op))
<1>1. ASSUME q # << >> PROVE PresentLast(Tail(q))
  <2> SUFFICES ASSUME NEW k \in DOMAIN Tail(q), NEW l \in DOMAIN Tail(q), k < l,
                      Tail(q)[k].kind = "present"
               PROVE  Tail(q)[l].image # Tail(q)[k].image
    BY DEF PresentLast
  <2>1. /\ k + 1 \in DOMAIN q /\ l + 1 \in DOMAIN q /\ k + 1 < l + 1
        /\ Tail(q)[k] = q[k + 1] /\ Tail(q)[l] = q[l + 1]
    BY <1>1, Dropped
  <2> QED
    BY <2>1 DEF PresentLast
<1>2. ASSUME q # << >>, Head(q).kind = "present", Has(Tail(q), Head(q).image) PROVE FALSE
  <2>1. PICK k \in DOMAIN Tail(q) : Tail(q)[k].image = Head(q).image
    BY <1>2 DEF Has
  <2>2. /\ 1 \in DOMAIN q /\ k + 1 \in DOMAIN q /\ 1 < k + 1 /\ Head(q) = q[1]
        /\ Tail(q)[k] = q[k + 1]
    BY <1>2, Dropped
  <2> QED
    BY <1>2, <2>1, <2>2 DEF PresentLast
<1>3. ASSUME NEW op \in Operation, ~Presents(q, op.image) PROVE PresentLast(Append(q, op))
  <2> DEFINE r == Append(q, op)
  <2>1. /\ Len(q) \in Nat /\ DOMAIN q = 1..Len(q) /\ DOMAIN r = 1..(Len(q) + 1)
        /\ (\A k \in 1..Len(q) : r[k] = q[k]) /\ r[Len(q) + 1] = op
    BY Appended
  <2> HIDE DEF r
  <2> SUFFICES ASSUME NEW k \in DOMAIN r, NEW l \in DOMAIN r, k < l, r[k].kind = "present"
               PROVE  r[l].image # r[k].image
    BY DEF PresentLast, r
  <2>2. k \in DOMAIN q /\ r[k] = q[k]
    BY <2>1
  <2>3. CASE l \in DOMAIN q
    BY <2>1, <2>2, <2>3 DEF PresentLast
  <2>4. CASE l \notin DOMAIN q
    <3>1. r[l] = op
      BY <2>1, <2>4
    <3> QED
      BY <1>3, <2>2, <3>1 DEF Presents
  <2> QED
    BY <2>3, <2>4
<1> QED
  BY <1>1, <1>2, <1>3

(* What is in a queue after a step at its ends. *)
LEMMA HasKept ==
    ASSUME NEW q \in Seq(Operation)
    PROVE  /\ \A op \in Operation, i \in Image :
                 /\ Has(Append(q, op), i) <=> Has(q, i) \/ op.image = i
                 /\ Presents(Append(q, op), i) <=>
                       Presents(q, i) \/ (op.kind = "present" /\ op.image = i)
           /\ q # << >> => \A i \in Image :
                 /\ Has(q, i) <=> Has(Tail(q), i) \/ Head(q).image = i
                 /\ Presents(Tail(q), i) => Presents(q, i)
<1>1. ASSUME NEW op \in Operation, NEW i \in Image
      PROVE  /\ Has(Append(q, op), i) <=> Has(q, i) \/ op.image = i
             /\ Presents(Append(q, op), i) <=>
                   Presents(q, i) \/ (op.kind = "present" /\ op.image = i)
  <2> DEFINE r == Append(q, op)
  <2>1. /\ Len(q) \in Nat /\ DOMAIN q = 1..Len(q) /\ DOMAIN r = 1..(Len(q) + 1)
        /\ (\A k \in 1..Len(q) : r[k] = q[k]) /\ r[Len(q) + 1] = op
    BY Appended
  <2> HIDE DEF r
  <2>2. \A k \in DOMAIN r : (k \in DOMAIN q /\ r[k] = q[k]) \/ r[k] = op
    BY <2>1
  <2>3. (\A k \in DOMAIN q : k \in DOMAIN r /\ r[k] = q[k]) /\ (\E k \in DOMAIN r : r[k] = op)
    BY <2>1
  <2>4. (\E k \in DOMAIN r : r[k].image = i) <=> (\E k \in DOMAIN q : q[k].image = i) \/ op.image = i
    BY <2>2, <2>3
  <2>5. (\E k \in DOMAIN r : r[k].kind = "present" /\ r[k].image = i) <=>
           \/ \E k \in DOMAIN q : q[k].kind = "present" /\ q[k].image = i
           \/ op.kind = "present" /\ op.image = i
    BY <2>2, <2>3
  <2> QED
    BY <2>4, <2>5 DEF Has, Presents, r
<1>2. ASSUME q # << >>, NEW i \in Image
      PROVE  /\ Has(q, i) <=> Has(Tail(q), i) \/ Head(q).image = i
             /\ Presents(Tail(q), i) => Presents(q, i)
  <2> DEFINE r == Tail(q)
  <2>1. /\ Len(q) \in Nat \ {0} /\ DOMAIN q = 1..Len(q) /\ DOMAIN r = 1..(Len(q) - 1)
        /\ (\A k \in 1..(Len(q) - 1) : r[k] = q[k + 1]) /\ Head(q) = q[1]
    BY <1>2, Dropped
  <2> HIDE DEF r
  <2>2. \A k \in DOMAIN r : k + 1 \in DOMAIN q /\ r[k] = q[k + 1]
    BY <2>1
  <2>3. \A k \in DOMAIN q : k = 1 \/ (k - 1 \in DOMAIN r /\ r[k - 1] = q[k])
    BY <2>1
  <2>4. 1 \in DOMAIN q
    BY <2>1
  <2>5. ASSUME NEW k \in DOMAIN q, q[k].image = i
        PROVE  (\E l \in DOMAIN r : r[l].image = i) \/ Head(q).image = i
    BY <2>1, <2>3, <2>5
  <2>6. ASSUME NEW l \in DOMAIN r, r[l].image = i PROVE \E k \in DOMAIN q : q[k].image = i
    BY <2>2, <2>6
  <2>7. ASSUME NEW l \in DOMAIN r, r[l].kind = "present", r[l].image = i
        PROVE  \E k \in DOMAIN q : q[k].kind = "present" /\ q[k].image = i
    BY <2>2, <2>7
  <2>8. Has(q, i) <=> Has(r, i) \/ Head(q).image = i
    BY <2>1, <2>4, <2>5, <2>6 DEF Has
  <2>9. Presents(r, i) => Presents(q, i)
    BY <2>7 DEF Presents
  <2> QED
    BY <2>8, <2>9 DEF r
<1> QED
  BY <1>1, <1>2

LEMMA WaitingImage == ASSUME NEW i PROVE Pending(i) <=> Has(gfx, i) \/ Has(prs, i)
BY DEF Pending, Has

-----------------------------------------------------------------------------
(* Where the program holds an image, and what it knows of it then. *)
Holding ==
    /\ back \in {"test", "poll", "wait"}
    /\ held \in {0} \union Image
    /\ held # 0 => pc \in {"fence", "submit", "present", "dead"}
    /\ pc \in {"fence", "submit", "present"} => held # 0
    /\ fence # "idle" => pc \in {"fence", "dead"}
    /\ pc = "fence" => fence # "idle"
    /\ pc = "submit" \/ (pc = "fence" /\ fence = "signaled") => held \notin reading

(* An image is in the queues once per frame: its draw, and behind it its present. *)
Queueing ==
    /\ gfx \in Seq(Operation) /\ prs \in Seq(Operation)
    /\ PresentLast(gfx) /\ PresentLast(prs)
    /\ pc = "create" => Quiet
    /\ pc \in {"fence", "submit"} => ~Has(gfx, held) /\ ~Has(prs, held)
    /\ pc = "present" => ~Presents(gfx, held) /\ ~Presents(prs, held)
    /\ Shared => prs = << >>
    /\ ~Shared => /\ \A k \in DOMAIN gfx : gfx[k].kind = "draw"
                  /\ \A k \in DOMAIN prs : prs[k].kind = "present"

(* With two queues the draws not yet done belong to the last presents not yet done, or to the *)
(* present the program is about to call; there is one present more if the semaphore is        *)
(* signalled.  So a present that finds it signalled finds its own draw done.                  *)
Count(b) == IF b THEN 1 ELSE 0
WaitAt(p, h, k) == IF k <= Len(p) THEN p[k].image ELSE h
Matching(g, p, h, about, signalled) ==
    LET waits == Len(p) + about
    IN  /\ Len(g) + signalled <= waits
        /\ \A k \in DOMAIN g : g[k].image = WaitAt(p, h, waits - Len(g) + k)
Matched ==
    ~Shared /\ ~Ended => Matching(gfx, prs, held, Count(pc = "present"), Count(semaphore))

(* The adapter is chosen once, before anything was drawn. *)
PartName ==
    {"instance", "callback", "surface", "physDevice", "device", "swapchain", "imageViews",
     "renderPass", "setLayout", "pipeline", "commandPool", "depth", "framebuffers", "texture",
     "textureView", "sampler", "model", "vertexBuffer", "indexBuffer", "uniformBuffer",
     "descriptorPool", "descriptorSet", "commandBuffers", "sync"}

Choosing ==
    pc = "create" => /\ steps \in Seq(PartName)
                     /\ (\E k \in DOMAIN steps : steps[k] = "physDevice") => ~semaphore

FrameInv == Holding /\ Queueing /\ Matched /\ Choosing

LEMMA StepLists ==
    /\ InitializeSteps \in Seq(PartName) /\ RecreateSteps \in Seq(PartName)
    /\ \A k \in DOMAIN RecreateSteps : RecreateSteps[k] # "physDevice"
<1>1. InitializeSteps \in Seq(PartName)
  BY DEF InitializeSteps, PartName
<1>2. RecreateSteps \in Seq(PartName) /\ DOMAIN RecreateSteps = 1..7
  BY DEF RecreateSteps, PartName
<1>3. \A k \in 1..7 : RecreateSteps[k] # "physDevice"
  BY DEF RecreateSteps
<1> QED
  BY <1>1, <1>2, <1>3

LEMMA FrameInit == ASSUME Init PROVE FrameInv
<1>1. /\ pc = "create" /\ back = "test" /\ held = 0 /\ fence = "idle" /\ semaphore = FALSE
      /\ gfx = << >> /\ prs = << >> /\ steps = InitializeSteps /\ reading = {}
  BY DEF Init
<1>2. << >> \in Seq(Operation) /\ Len(<< >>) = 0 /\ DOMAIN << >> = {}
  BY EmptySeq
<1>3. Holding
  BY <1>1 DEF Holding
<1>4. Queueing
  BY <1>1, <1>2 DEF Queueing, PresentLast, Quiet
<1>5. Matched
  BY <1>1, <1>2 DEF Matched, Matching, Count
<1>6. Choosing
  BY <1>1, StepLists DEF Choosing
<1> QED
  BY <1>3, <1>4, <1>5, <1>6 DEF FrameInv

LEMMA ChoosingStep == ASSUME FrameInv, [Next]_vars PROVE Choosing'
<1> USE DEF Choosing
<1>0. Choosing /\ (pc = "create" => gfx = << >> /\ prs = << >>)
  BY DEF FrameInv, Queueing, Quiet
<1>1. CASE pc' # "create"
  BY <1>1
<1>2. CASE UNCHANGED <<steps, pc, semaphore>>
  BY <1>0, <1>2
<1>3. CASE pc = "create" /\ steps # << >> /\ steps' = Tail(steps) /\ UNCHANGED <<pc, semaphore>>
  <2>1. /\ steps \in Seq(PartName) /\ Len(steps) \in Nat /\ DOMAIN steps = 1..Len(steps)
        /\ Tail(steps) \in Seq(PartName) /\ DOMAIN Tail(steps) = 1..(Len(steps) - 1)
        /\ \A k \in 1..(Len(steps) - 1) : Tail(steps)[k] = steps[k + 1]
    BY <1>0, <1>3, HeadTailProperties, LenProperties
  <2>2. \A k \in DOMAIN Tail(steps) : k + 1 \in DOMAIN steps /\ Tail(steps)[k] = steps[k + 1]
    BY <2>1
  <2> QED
    BY <1>0, <1>3, <2>1, <2>2
<1>4. CASE WaitIdle
  <2>1. pc' = "create" /\ steps' = RecreateSteps
    BY <1>4 DEF WaitIdle
  <2> QED
    BY <2>1, StepLists
<1>5. CASE Creating \/ CreateFails
  <2>1. ASSUME NEW o \in Part, Create(o) PROVE Choosing'
    BY <1>3, <2>1 DEF Create, At, Created
  <2>2. CASE GetPhysDevice \/ CreateSwapChain
    BY <1>3, <2>2 DEF GetPhysDevice, CreateSwapChain, At, Created
  <2>3. CASE AllCreated \/ CreateFails
    <3>1. back # "create"
      BY DEF FrameInv, Holding
    <3> QED
      BY <1>1, <2>3, <3>1 DEF AllCreated, CreateFails
  <2> QED
    BY <1>5, <2>1, <2>2, <2>3 DEF Creating
<1>6. CASE Looping \/ DrawFrame \/ CallFails \/ Leaving
  BY <1>1, <1>6 DEF Looping, LoopTest, PollReturns, UpdateUniformBuffer, DrawFrame, CallFails, Acquire,
                    AcquireOutOfDate, GoRecreate, WaitForFence, Submit, PresentFits, PresentMisfit,
                    Leaving, LeaveLoop, GlfwTerminate, DestroyMember,
                    LeaveMember, Destroyed
<1>7. CASE Processor
  BY <1>0, <1>1, <1>7 DEF Processor, FinishDraw, ExecutePresent, Outside
<1>8. CASE Engine \/ Rest \/ UNCHANGED vars
  BY <1>2, <1>8 DEF Engine, Rest, Show, StopReading, SignalFence, Outside, vars
<1>9. CASE User
  BY <1>1, <1>2, <1>9 DEF User, FocusLost, FocusGained, Minimised, Refresh, CloseAsked, EnterPressed,
                          Resize, Dispatching, Elsewhere, Stays, GoRecreate
<1> QED
  BY <1>4, <1>5, <1>6, <1>7, <1>8, <1>9 DEF Next, Program, Failures

(* What a present at the head of its queue stands for: an image the program does not hold,    *)
(* and that is nowhere in the queues once the present is done.                                *)
Presenting == IF Shared THEN gfx ELSE prs

LEMMA PresentExecuted ==
    ASSUME FrameInv, ExecutePresent
    PROVE  LET i == Head(Presenting).image
           IN  i \in Image /\ held # i /\ ~Has(gfx', i) /\ ~Has(prs', i)
<1> DEFINE op == Head(Presenting)
           i  == op.image
<1>0. /\ gfx \in Seq(Operation) /\ prs \in Seq(Operation) /\ PresentLast(gfx) /\ PresentLast(prs)
      /\ pc \in {"fence", "submit"} => ~Has(gfx, held) /\ ~Has(prs, held)
      /\ pc = "present" => ~Presents(gfx, held) /\ ~Presents(prs, held)
      /\ Shared => prs = << >>
  BY DEF FrameInv, Queueing
<1>1. /\ ~Ended /\ Presenting # << >> /\ op.kind = "present" /\ semaphore
      /\ Shared => gfx' = Tail(gfx) /\ prs' = prs
      /\ ~Shared => prs' = Tail(prs) /\ gfx' = gfx
  BY DEF ExecutePresent, Presenting
<1>2. /\ Presenting \in Seq(Operation) /\ PresentLast(Presenting)
      /\ pc \in {"fence", "submit"} => ~Has(Presenting, held)
      /\ pc = "present" => ~Presents(Presenting, held)
  BY <1>0 DEF Presenting
<1>3. op = Presenting[1] /\ op \in Operation /\ 1 \in DOMAIN Presenting /\ i \in Image
  <2>1. op = Presenting[1] /\ op \in Operation /\ 1 \in DOMAIN Presenting
    BY <1>1, <1>2, Dropped
  <2> QED
    BY <2>1 DEF Operation
<1> HIDE DEF op
<1>4. Has(Presenting, i) /\ Presents(Presenting, i) /\ ~Has(Tail(Presenting), i)
  BY <1>1, <1>2, <1>3, PresentLastKept DEF Has, Presents, op
<1>5. held # i
  <2>1. held # 0 => pc \in {"fence", "submit", "present"}
    BY <1>1 DEF FrameInv, Holding, Ended
  <2>2. 0 \notin Image
    BY DEF Image
  <2> QED
    BY <1>2, <1>3, <1>4, <2>1, <2>2
<1>6. ~Has(gfx', i) /\ ~Has(prs', i)
  <2>1. CASE Shared
    <3>1. gfx' = Tail(Presenting) /\ prs' = << >>
      BY <1>0, <1>1, <2>1 DEF Presenting
    <3> QED
      BY <1>4, <3>1, EmptySeq DEF Has
  <2>2. CASE ~Shared
    <3>1. prs' = Tail(Presenting) /\ gfx' = gfx /\ Presenting = prs
      BY <1>1, <2>2 DEF Presenting
    <3>2. ASSUME NEW k \in DOMAIN gfx, gfx[k].image = i PROVE FALSE
      <4>1. /\ Len(gfx) \in Nat /\ Len(prs) \in Nat /\ k \in 1..Len(gfx) /\ DOMAIN prs = 1..Len(prs)
        BY <1>0, LenProperties
      <4> DEFINE about == Count(pc = "present")
                 n     == Len(prs) + about - Len(gfx) + k
      <4>2. /\ about \in {0, 1} /\ Len(gfx) + 1 <= Len(prs) + about
            /\ gfx[k].image = WaitAt(prs, held, n)
        BY <1>1, <2>2 DEF FrameInv, Matched, Matching, Count
      <4> HIDE DEF about
      <4>3. n \in Nat /\ 1 < n
        BY <4>1, <4>2
      <4>4. CASE n <= Len(prs)
        <5>1. n \in DOMAIN prs /\ 1 < n /\ gfx[k].image = prs[n].image
          BY <4>1, <4>2, <4>3, <4>4 DEF WaitAt
        <5> QED
          BY <1>2, <1>3, <1>1, <3>1, <3>2, <5>1 DEF PresentLast
      <4>5. CASE ~(n <= Len(prs))
        <5>1. gfx[k].image = held
          BY <4>2, <4>5 DEF WaitAt
        <5> QED
          BY <1>5, <3>2, <5>1
      <4> QED
        BY <4>4, <4>5
    <3> QED
      BY <1>4, <3>1, <3>2 DEF Has
  <2> QED
    BY <2>1, <2>2
<1> QED
  BY <1>3, <1>5, <1>6 DEF op

LEMMA HoldingStep == ASSUME FrameInv, [Next]_vars PROVE Holding'
<1> USE DEF Holding
<1>0. Holding /\ 0 \notin Image
  BY DEF FrameInv, Image
<1>1. CASE UNCHANGED <<back, held, fence, reading>> /\ pc' \in {pc, "dead"}
  BY <1>0, <1>1
<1>2. CASE /\ UNCHANGED <<held, fence>> /\ back' \in {"test", "poll", "wait"}
           /\ pc \notin {"fence", "submit", "present"} /\ pc' \notin {"fence", "submit", "present"}
           /\ (held # 0 \/ fence # "idle" => pc' = pc)
  BY <1>0, <1>2
<1>3. CASE Creating \/ CreateFails
  <2>1. ASSUME NEW o \in Part, Create(o) PROVE Holding'
    BY <1>1, <2>1 DEF Create
  <2>2. CASE GetPhysDevice \/ CreateFails
    BY <1>1, <2>2 DEF GetPhysDevice, CreateFails
  <2>3. CASE CreateSwapChain \/ AllCreated
    BY <1>0, <1>2, <2>3 DEF CreateSwapChain, AllCreated, At
  <2> QED
    BY <1>3, <2>1, <2>2, <2>3 DEF Creating
<1>4. CASE WaitIdle \/ Looping \/ Leaving
  BY <1>0, <1>2, <1>4 DEF WaitIdle, Looping, LoopTest, PollReturns, UpdateUniformBuffer, Leaving,
                          LeaveLoop, GlfwTerminate, DestroyMember, LeaveMember, Destroyed
<1>5. ASSUME NEW i \in Image, Acquire(i) PROVE Holding'
  BY <1>0, <1>5 DEF Acquire
<1>6. CASE WaitForFence \/ Submit
  BY <1>0, <1>6 DEF WaitForFence, Submit
<1>7. CASE AcquireOutOfDate \/ PresentFits \/ PresentMisfit
  BY <1>0, <1>7 DEF AcquireOutOfDate, GoRecreate, PresentFits, PresentMisfit, Presented
<1>8. CASE CallFails
  BY <1>0, <1>1, <1>8 DEF CallFails
<1>9. CASE FinishDraw \/ Show \/ Rest \/ UNCHANGED vars
  BY <1>1, <1>9 DEF FinishDraw, Show, Rest, Outside, vars
<1>10. CASE ExecutePresent
  <2>1. held # Head(Presenting).image
    BY <1>10, PresentExecuted
  <2>2. /\ UNCHANGED <<pc, back, held, fence>>
        /\ reading' = reading \/ reading' = reading \union {Head(Presenting).image}
    BY <1>10 DEF ExecutePresent, Presenting, Outside
  <2> QED
    BY <1>0, <2>1, <2>2
<1>11. CASE SignalFence \/ \E i \in Image : StopReading(i)
  BY <1>0, <1>11 DEF SignalFence, StopReading, Outside, Ended
<1>12. CASE User
  BY <1>0, <1>1, <1>2, <1>12
     DEF User, FocusLost, FocusGained, Minimised, Refresh, CloseAsked, EnterPressed,
         Resize, Dispatching, Elsewhere, Stays, GoRecreate
<1> QED
  BY <1>3, <1>4, <1>5, <1>6, <1>7, <1>8, <1>9, <1>10, <1>11, <1>12
     DEF Next, Program, Failures, Processor, Engine, DrawFrame

-----------------------------------------------------------------------------
(* The queues after an operation was taken from, or put into, one of them. *)
AllOf(q, kind) == \A k \in DOMAIN q : q[k].kind = kind

LEMMA Dequeued ==
    ASSUME NEW q \in Seq(Operation), q # << >>, PresentLast(q)
    PROVE  /\ Tail(q) \in Seq(Operation) /\ PresentLast(Tail(q))
           /\ AllOf(q, "draw") => AllOf(Tail(q), "draw")
           /\ AllOf(q, "present") => AllOf(Tail(q), "present")
           /\ \A i \in Image : /\ ~Has(q, i) => ~Has(Tail(q), i)
                               /\ ~Presents(q, i) => ~Presents(Tail(q), i)
<1>1. Tail(q) \in Seq(Operation) /\ \A k \in DOMAIN Tail(q) : k + 1 \in DOMAIN q /\ Tail(q)[k] = q[k + 1]
  BY Dropped
<1>2. /\ AllOf(q, "draw") => AllOf(Tail(q), "draw")
      /\ AllOf(q, "present") => AllOf(Tail(q), "present")
  BY <1>1 DEF AllOf
<1> QED
  BY <1>1, <1>2, PresentLastKept, HasKept

LEMMA Enqueued ==
    ASSUME NEW q \in Seq(Operation), PresentLast(q), NEW op \in Operation, ~Presents(q, op.image)
    PROVE  /\ Append(q, op) \in Seq(Operation) /\ PresentLast(Append(q, op))
           /\ AllOf(q, op.kind) => AllOf(Append(q, op), op.kind)
<1>1. /\ Append(q, op) \in Seq(Operation)
      /\ \A k \in DOMAIN Append(q, op) : (k \in DOMAIN q /\ Append(q, op)[k] = q[k]) \/ Append(q, op)[k] = op
  BY Appended
<1>2. AllOf(q, op.kind) => AllOf(Append(q, op), op.kind)
  BY <1>1 DEF AllOf
<1> QED
  BY <1>1, <1>2, PresentLastKept

LEMMA SharedKept == ASSUME UNCHANGED <<adapter, list>> PROVE Shared' = Shared
BY DEF Shared

LEMMA QueueingStep == ASSUME FrameInv, [Next]_vars PROVE Queueing'
<1>0. /\ gfx \in Seq(Operation) /\ prs \in Seq(Operation) /\ PresentLast(gfx) /\ PresentLast(prs)
      /\ pc = "create" => gfx = << >> /\ prs = << >>
      /\ pc \in {"fence", "submit"} => ~Has(gfx, held) /\ ~Has(prs, held)
      /\ pc = "present" => ~Presents(gfx, held) /\ ~Presents(prs, held)
      /\ Shared => prs = << >>
      /\ ~Shared => AllOf(gfx, "draw") /\ AllOf(prs, "present")
      /\ pc \in {"fence", "submit", "present"} => held \in Image
      /\ back \in {"test", "poll", "wait"}
  BY DEF FrameInv, Queueing, Holding, Quiet, AllOf
<1> DEFINE After ==
             /\ gfx' \in Seq(Operation) /\ prs' \in Seq(Operation) /\ PresentLast(gfx') /\ PresentLast(prs')
             /\ pc' = "create" => gfx' = << >> /\ prs' = << >>
             /\ pc' \in {"fence", "submit"} => ~Has(gfx', held') /\ ~Has(prs', held')
             /\ pc' = "present" => ~Presents(gfx', held') /\ ~Presents(prs', held')
             /\ Shared' => prs' = << >>
             /\ ~Shared' => AllOf(gfx', "draw") /\ AllOf(prs', "present")
<1>1. After => Queueing'
  BY DEF Queueing, Quiet, AllOf, PresentLast, Has, Presents
<1>2. CASE /\ UNCHANGED <<gfx, prs, adapter, list>> /\ (pc' = "create" => pc = "create" \/ Quiet)
           /\ pc' \in {"fence", "submit", "present"} => pc' = pc /\ held' = held
  BY <1>0, <1>1, <1>2, SharedKept DEF Quiet
<1>3. CASE GetPhysDevice
  <2>1. UNCHANGED <<pc, gfx, prs>> /\ pc = "create"
    BY <1>3 DEF GetPhysDevice, At
  <2>2. AllOf(<< >>, "draw") /\ AllOf(<< >>, "present")
    BY EmptySeq DEF AllOf
  <2> QED
    BY <1>0, <1>1, <2>1, <2>2
<1>4. CASE Creating \/ CreateFails \/ WaitIdle \/ Looping \/ Leaving \/ AcquireOutOfDate \/ CallFails
  <2>1. ASSUME NEW o \in Part, Create(o) PROVE Queueing'
    BY <1>2, <2>1 DEF Create, At
  <2>2. CASE CreateSwapChain \/ AllCreated
    BY <1>0, <1>2, <2>2 DEF CreateSwapChain, AllCreated, At
  <2>3. CASE CreateFails \/ WaitIdle \/ Looping \/ Leaving \/ AcquireOutOfDate \/ CallFails
    BY <1>2, <2>3 DEF CreateFails, WaitIdle, Looping, LoopTest, PollReturns, UpdateUniformBuffer,
                      Leaving, LeaveLoop, GlfwTerminate, DestroyMember,
                    LeaveMember, Destroyed, AcquireOutOfDate, CallFails, GoRecreate
  <2> QED
    BY <1>3, <1>4, <2>1, <2>2, <2>3 DEF Creating
<1>5. ASSUME NEW i \in Image, Acquire(i) PROVE Queueing'
  <2>1. ~Has(gfx, i) /\ ~Has(prs, i)
    BY <1>5, WaitingImage DEF Acquire
  <2>2. UNCHANGED <<gfx, prs, adapter, list>> /\ pc' = "fence" /\ held' = i
    BY <1>5 DEF Acquire
  <2> QED
    BY <1>0, <1>1, <2>1, <2>2, SharedKept
<1>6. CASE WaitForFence
  <2>1. UNCHANGED <<gfx, prs, adapter, list, held>> /\ pc = "fence" /\ pc' = "submit"
    BY <1>6 DEF WaitForFence
  <2> QED
    BY <1>0, <1>1, <2>1, SharedKept
<1>7. CASE Submit
  <2>1. /\ pc = "submit" /\ pc' = "present" /\ UNCHANGED <<prs, adapter, list, held>>
        /\ gfx' = Append(gfx, DrawOf(held)) /\ held \in Image
    BY <1>0, <1>7 DEF Submit
  <2>2. DrawOf(held) \in Operation /\ DrawOf(held).image = held /\ DrawOf(held).kind = "draw"
    BY <2>1 DEF DrawOf, Operation
  <2>3. ~Presents(gfx, held) /\ ~Presents(prs, held)
    BY <1>0, <2>1 DEF Has, Presents
  <2>4. /\ gfx' \in Seq(Operation) /\ PresentLast(gfx')
        /\ AllOf(gfx, "draw") => AllOf(gfx', "draw")
    BY <1>0, <2>1, <2>2, <2>3, Enqueued
  <2>5. ~Presents(gfx', held)
    BY <1>0, <2>1, <2>2, <2>3, HasKept
  <2> QED
    BY <1>0, <1>1, <2>1, <2>3, <2>4, <2>5, SharedKept
<1>8. CASE PresentFits \/ PresentMisfit
  <2>1. /\ pc = "present" /\ pc' \in {"test", "recreate"} /\ UNCHANGED <<adapter, list>> /\ held \in Image
    BY <1>0, <1>8 DEF PresentFits, PresentMisfit, GoRecreate, Presented
  <2>2. PICK ok \in BOOLEAN : Presented(ok)
    BY <1>8 DEF PresentFits, PresentMisfit
  <2> DEFINE op == PresentOf(held, ok)
  <2>3. op \in Operation /\ op.image = held /\ op.kind = "present"
    BY <2>1 DEF PresentOf, Operation
  <2>4. IF Shared THEN gfx' = Append(gfx, op) /\ prs' = prs ELSE prs' = Append(prs, op) /\ gfx' = gfx
    BY <2>2 DEF Presented
  <2> HIDE DEF op
  <2>5. /\ Append(gfx, op) \in Seq(Operation) /\ PresentLast(Append(gfx, op))
        /\ Append(prs, op) \in Seq(Operation) /\ PresentLast(Append(prs, op))
        /\ AllOf(prs, "present") => AllOf(Append(prs, op), "present")
    BY <1>0, <2>1, <2>3, Enqueued
  <2>6. CASE Shared
    BY <1>0, <1>1, <2>1, <2>4, <2>5, <2>6, SharedKept
  <2>7. CASE ~Shared
    BY <1>0, <1>1, <2>1, <2>4, <2>5, <2>7, SharedKept
  <2> QED
    BY <2>6, <2>7
<1>9. CASE FinishDraw
  <2>1. gfx # << >> /\ gfx' = Tail(gfx) /\ UNCHANGED <<prs, pc, held, adapter, list>>
    BY <1>9 DEF FinishDraw, Outside
  <2>2. /\ Tail(gfx) \in Seq(Operation) /\ PresentLast(Tail(gfx))
        /\ AllOf(gfx, "draw") => AllOf(Tail(gfx), "draw")
        /\ held \in Image /\ ~Has(gfx, held) => ~Has(Tail(gfx), held)
        /\ held \in Image /\ ~Presents(gfx, held) => ~Presents(Tail(gfx), held)
    <3>1. gfx \in Seq(Operation) /\ PresentLast(gfx) /\ gfx # << >>
      BY <1>0, <2>1
    <3>2. /\ Tail(gfx) \in Seq(Operation) /\ PresentLast(Tail(gfx))
          /\ AllOf(gfx, "draw") => AllOf(Tail(gfx), "draw")
          /\ AllOf(gfx, "present") => AllOf(Tail(gfx), "present")
      BY ONLY <3>1, Dequeued
    <3>3. \A i \in Image : /\ ~Has(gfx, i) => ~Has(Tail(gfx), i)
                           /\ ~Presents(gfx, i) => ~Presents(Tail(gfx), i)
      BY ONLY <3>1, Dequeued
    <3>4. held \in Image /\ ~Has(gfx, held) => ~Has(Tail(gfx), held)
      BY ONLY <3>3, Zenon
    <3>5. held \in Image /\ ~Presents(gfx, held) => ~Presents(Tail(gfx), held)
      BY ONLY <3>3, Zenon
    <3> QED
      BY ONLY <3>2, <3>4, <3>5
  <2> QED
    BY <1>0, <1>1, <2>1, <2>2, SharedKept
<1>10. CASE ExecutePresent
  <2>1. /\ UNCHANGED <<pc, held, adapter, list>>
        /\ \/ Shared /\ gfx # << >> /\ gfx' = Tail(gfx) /\ prs' = prs
           \/ ~Shared /\ prs # << >> /\ prs' = Tail(prs) /\ gfx' = gfx
    BY <1>10 DEF ExecutePresent, Outside
  <2>2. ASSUME NEW q \in {gfx, prs}, q # << >>
        PROVE  /\ Tail(q) \in Seq(Operation) /\ PresentLast(Tail(q))
               /\ AllOf(q, "present") => AllOf(Tail(q), "present")
               /\ held \in Image /\ ~Has(q, held) => ~Has(Tail(q), held)
               /\ held \in Image /\ ~Presents(q, held) => ~Presents(Tail(q), held)
    <3>1. q \in Seq(Operation) /\ PresentLast(q)
      BY <1>0
    <3>2. /\ Tail(q) \in Seq(Operation) /\ PresentLast(Tail(q))
          /\ AllOf(q, "draw") => AllOf(Tail(q), "draw")
          /\ AllOf(q, "present") => AllOf(Tail(q), "present")
      BY ONLY <2>2, <3>1, Dequeued
    <3>3. \A i \in Image : /\ ~Has(q, i) => ~Has(Tail(q), i)
                           /\ ~Presents(q, i) => ~Presents(Tail(q), i)
      BY ONLY <2>2, <3>1, Dequeued
    <3>4. held \in Image /\ ~Has(q, held) => ~Has(Tail(q), held)
      BY ONLY <3>3, Zenon
    <3>5. held \in Image /\ ~Presents(q, held) => ~Presents(Tail(q), held)
      BY ONLY <3>3, Zenon
    <3> QED
      BY ONLY <3>2, <3>4, <3>5
  <2>3. CASE Shared /\ gfx # << >> /\ gfx' = Tail(gfx) /\ prs' = prs
    BY <1>0, <1>1, <2>1, <2>2, <2>3, SharedKept
  <2>4. CASE ~Shared /\ prs # << >> /\ prs' = Tail(prs) /\ gfx' = gfx
    BY <1>0, <1>1, <2>1, <2>2, <2>4, SharedKept
  <2> QED
    BY <2>1, <2>3, <2>4
<1>11. CASE Engine \/ Rest \/ User \/ UNCHANGED vars
  BY <1>2, <1>11
     DEF Engine, Show, StopReading, SignalFence, Rest, Outside, vars,
         User, FocusLost, FocusGained, Minimised, Refresh, CloseAsked, EnterPressed, Resize, Dispatching,
         Elsewhere, Stays, GoRecreate
<1> QED
  BY <1>4, <1>5, <1>6, <1>7, <1>8, <1>9, <1>10, <1>11
     DEF Next, Program, Failures, Processor, DrawFrame

-----------------------------------------------------------------------------
(* The four steps at the ends of the two queues. *)
LEMMA DrawQueued ==
    ASSUME NEW g \in Seq(Operation), NEW p \in Seq(Operation), NEW op \in Operation,
           NEW s \in {0, 1}, Matching(g, p, op.image, 0, s)
    PROVE  Matching(Append(g, op), p, op.image, 1, s)
<1> DEFINE r == Append(g, op)
           h == op.image
<1>1. /\ Len(g) \in Nat /\ DOMAIN g = 1..Len(g) /\ DOMAIN r = 1..(Len(g) + 1) /\ Len(r) = Len(g) + 1
      /\ (\A k \in 1..Len(g) : r[k] = g[k]) /\ r[Len(g) + 1] = op /\ Len(p) \in Nat
  BY Appended, LenProperties
<1>2. /\ Len(g) + s <= Len(p)
      /\ \A k \in 1..Len(g) : g[k].image = WaitAt(p, h, Len(p) - Len(g) + k)
  BY <1>1 DEF Matching
<1> HIDE DEF r, h
<1>3. ASSUME NEW k \in 1..(Len(g) + 1)
      PROVE  r[k].image = WaitAt(p, h, Len(p) + 1 - Len(r) + k)
  <2>1. Len(p) + 1 - Len(r) + k = Len(p) - Len(g) + k
    BY <1>1
  <2>2. CASE k \in 1..Len(g)
    BY <1>1, <1>2, <2>1, <2>2
  <2>3. CASE k = Len(g) + 1
    <3>1. ~(Len(p) - Len(g) + k <= Len(p)) /\ r[k].image = h
      BY <1>1, <2>3 DEF h
    <3> QED
      BY <2>1, <3>1 DEF WaitAt
  <2> QED
    BY <1>1, <2>2, <2>3
<1>4. Len(r) + s <= Len(p) + 1
  BY <1>1, <1>2
<1> QED
  BY <1>1, <1>3, <1>4 DEF Matching, r, h

LEMMA PresentQueued ==
    ASSUME NEW g \in Seq(Operation), NEW p \in Seq(Operation), NEW op \in Operation, NEW i,
           NEW s \in {0, 1}, Matching(g, p, op.image, 1, s)
    PROVE  Matching(g, Append(p, op), i, 0, s)
<1> DEFINE r == Append(p, op)
           h == op.image
<1>1. /\ Len(p) \in Nat /\ DOMAIN p = 1..Len(p) /\ Len(r) = Len(p) + 1
      /\ (\A k \in 1..Len(p) : r[k] = p[k]) /\ r[Len(p) + 1] = op
      /\ Len(g) \in Nat /\ DOMAIN g = 1..Len(g)
  BY Appended, LenProperties
<1>2. /\ Len(g) + s <= Len(p) + 1
      /\ \A k \in 1..Len(g) : g[k].image = WaitAt(p, h, Len(p) + 1 - Len(g) + k)
  BY <1>1 DEF Matching
<1> HIDE DEF r, h
<1>3. ASSUME NEW k \in 1..Len(g) PROVE g[k].image = WaitAt(r, i, Len(r) + 0 - Len(g) + k)
  <2> DEFINE n == Len(p) + 1 - Len(g) + k
  <2>1. n \in 1..(Len(p) + 1) /\ n = Len(r) + 0 - Len(g) + k
    BY <1>1, <1>2
  <2>2. g[k].image = WaitAt(p, h, n)
    BY <1>2
  <2> HIDE DEF n
  <2>3. CASE n <= Len(p)
    BY <1>1, <2>1, <2>2, <2>3 DEF WaitAt
  <2>4. CASE n = Len(p) + 1
    <3>1. ~(n <= Len(p)) /\ n <= Len(r) /\ r[n].image = h
      BY <1>1, <2>4 DEF h
    <3> QED
      BY <2>1, <2>2, <3>1 DEF WaitAt
  <2> QED
    BY <1>1, <2>1, <2>3, <2>4
<1>4. Len(g) + s <= Len(r) + 0
  BY <1>1, <1>2
<1> QED
  BY <1>1, <1>3, <1>4 DEF Matching, r

LEMMA DrawDone ==
    ASSUME NEW g \in Seq(Operation), g # << >>, NEW p \in Seq(Operation), NEW h,
           NEW about \in {0, 1}, NEW s \in {0, 1}, Matching(g, p, h, about, s)
    PROVE  Matching(Tail(g), p, h, about, 1)
<1> DEFINE r == Tail(g)
<1>1. /\ Len(g) \in Nat \ {0} /\ DOMAIN g = 1..Len(g) /\ Len(p) \in Nat
      /\ DOMAIN r = 1..(Len(g) - 1) /\ Len(r) = Len(g) - 1
      /\ \A k \in 1..(Len(g) - 1) : r[k] = g[k + 1]
  BY Dropped, LenProperties
<1>2. /\ Len(g) + s <= Len(p) + about
      /\ \A k \in 1..Len(g) : g[k].image = WaitAt(p, h, Len(p) + about - Len(g) + k)
  BY <1>1 DEF Matching
<1> HIDE DEF r
<1>3. ASSUME NEW k \in 1..(Len(g) - 1)
      PROVE  r[k].image = WaitAt(p, h, Len(p) + about - Len(r) + k)
  <2>1. /\ k + 1 \in 1..Len(g)
        /\ Len(p) + about - Len(r) + k = Len(p) + about - Len(g) + (k + 1)
    BY <1>1
  <2>2. r[k] = g[k + 1] /\ g[k + 1].image = WaitAt(p, h, Len(p) + about - Len(g) + (k + 1))
    BY <1>1, <1>2, <2>1
  <2> QED
    BY ONLY <2>1, <2>2
<1>4. Len(r) + 1 <= Len(p) + about
  BY <1>1, <1>2
<1> QED
  BY <1>1, <1>3, <1>4 DEF Matching, r

LEMMA PresentDone ==
    ASSUME NEW g \in Seq(Operation), NEW p \in Seq(Operation), p # << >>, NEW h,
           NEW about \in {0, 1}, Matching(g, p, h, about, 1)
    PROVE  Matching(g, Tail(p), h, about, 0)
<1> DEFINE r == Tail(p)
<1>1. /\ Len(p) \in Nat \ {0} /\ Len(g) \in Nat /\ DOMAIN g = 1..Len(g)
      /\ Len(r) = Len(p) - 1 /\ \A k \in 1..(Len(p) - 1) : r[k] = p[k + 1]
  BY Dropped, LenProperties
<1>2. /\ Len(g) + 1 <= Len(p) + about
      /\ \A k \in 1..Len(g) : g[k].image = WaitAt(p, h, Len(p) + about - Len(g) + k)
  BY <1>1 DEF Matching
<1> HIDE DEF r
<1>3. ASSUME NEW k \in 1..Len(g) PROVE g[k].image = WaitAt(r, h, Len(r) + about - Len(g) + k)
  <2> DEFINE n == Len(p) + about - Len(g) + k
             m == Len(r) + about - Len(g) + k
  <2>1. n \in Nat /\ m \in Nat \ {0} /\ n = m + 1
    BY <1>1, <1>2
  <2>2. g[k].image = WaitAt(p, h, n)
    BY <1>2
  <2> HIDE DEF n, m
  <2>3. CASE n <= Len(p)
    <3>1. m <= Len(r) /\ m \in 1..(Len(p) - 1)
      BY <1>1, <2>1, <2>3
    <3>2. r[m] = p[n]
      BY <1>1, <2>1, <3>1
    <3> QED
      BY <2>2, <2>3, <3>1, <3>2 DEF WaitAt, m
  <2>4. CASE ~(n <= Len(p))
    <3>1. ~(m <= Len(r))
      BY <1>1, <2>1, <2>4
    <3> QED
      BY <2>2, <2>4, <3>1 DEF WaitAt, m
  <2> QED
    BY <2>3, <2>4
<1>4. Len(g) + 0 <= Len(r) + about
  BY <1>1, <1>2
<1> QED
  BY <1>1, <1>3, <1>4 DEF Matching, r

LEMMA MatchedStep == ASSUME FrameInv, [Next]_vars PROVE Matched'
<1> USE DEF Matched, Count
<1>0. /\ ~Shared /\ ~Ended => Matching(gfx, prs, held, Count(pc = "present"), Count(semaphore))
      /\ gfx \in Seq(Operation) /\ prs \in Seq(Operation)
      /\ pc = "create" => gfx = << >> /\ prs = << >>
      /\ back \in {"test", "poll", "wait"}
      /\ pc \in {"fence", "submit", "present"} => held \in Image
  BY DEF FrameInv, Queueing, Holding, Quiet
<1>1. CASE pc' \in {"over", "dead"}
  BY <1>1 DEF Ended
<1>2. CASE /\ UNCHANGED <<gfx, prs, held, semaphore, adapter, list>>
           /\ pc' = pc \/ (pc \notin {"present", "over", "dead"} /\ pc' \notin {"present", "over", "dead"})
  <2>1. Shared' = Shared /\ Ended' = Ended /\ Count(pc = "present")' = Count(pc = "present")
    BY <1>2, SharedKept DEF Ended
  <2> QED
    BY <1>0, <1>2, <2>1
<1>3. CASE GetPhysDevice
  <2>1. /\ UNCHANGED <<pc, gfx, prs, held, semaphore>> /\ pc = "create"
        /\ steps # << >> /\ Head(steps) = "physDevice"
    BY <1>3 DEF GetPhysDevice, At
  <2>2. semaphore = FALSE
    <3>1. steps \in Seq(PartName) /\ ((\E k \in DOMAIN steps : steps[k] = "physDevice") => ~semaphore)
      BY <2>1 DEF FrameInv, Choosing
    <3>2. 1 \in DOMAIN steps /\ steps[1] = "physDevice"
      BY <2>1, <3>1, EmptySeq, LenProperties
    <3> QED
      BY <3>1, <3>2
  <2>3. gfx = << >> /\ prs = << >> /\ Len(<< >>) = 0 /\ DOMAIN << >> = {}
    BY <1>0, <2>1, EmptySeq
  <2> QED
    BY <2>1, <2>2, <2>3 DEF Matching
<1>4. CASE Creating \/ WaitIdle \/ Looping \/ AcquireOutOfDate \/ WaitForFence
  <2>1. ASSUME NEW o \in Part, Create(o) PROVE Matched'
    BY <1>2, <2>1 DEF Create, At
  <2>2. CASE CreateSwapChain \/ AllCreated \/ WaitIdle \/ Looping
    BY <1>0, <1>2, <2>2 DEF CreateSwapChain, AllCreated, At, WaitIdle, Looping, LoopTest, PollReturns,
                            UpdateUniformBuffer
  <2>3. CASE AcquireOutOfDate \/ WaitForFence
    BY <1>2, <2>3 DEF AcquireOutOfDate, GoRecreate, WaitForFence
  <2> QED
    BY <1>3, <1>4, <2>1, <2>2, <2>3 DEF Creating
<1>5. CASE Failures \/ Leaving
  BY <1>1, <1>2, <1>5 DEF Failures, CreateFails, CallFails, Leaving, LeaveLoop, GlfwTerminate, DestroyMember,
                    LeaveMember, Destroyed
<1>6. ASSUME NEW i \in Image, Acquire(i) PROVE Matched'
  <2>1. /\ pc = "acquire" /\ pc' = "fence" /\ UNCHANGED <<gfx, prs, semaphore, adapter, list>>
    BY <1>6 DEF Acquire
  <2>2. Shared' = Shared /\ ~Ended
    BY <2>1, SharedKept DEF Ended
  <2>3. ASSUME Matching(gfx, prs, held, 0, Count(semaphore))
        PROVE  Matching(gfx, prs, held', 0, Count(semaphore))
    <3>1. Len(gfx) \in Nat /\ Len(prs) \in Nat /\ DOMAIN gfx = 1..Len(gfx)
      BY <1>0, LenProperties
    <3>2. \A k \in DOMAIN gfx : Len(prs) + 0 - Len(gfx) + k <= Len(prs)
      BY <3>1
    <3> QED
      BY <2>3, <3>2 DEF Matching, WaitAt
  <2> QED
    BY <1>0, <2>1, <2>2, <2>3
<1>7. CASE Submit
  <2>1. /\ pc = "submit" /\ pc' = "present" /\ gfx' = Append(gfx, DrawOf(held))
        /\ UNCHANGED <<prs, held, semaphore, adapter, list>>
    BY <1>7 DEF Submit
  <2>2. Shared' = Shared /\ ~Ended
    BY <2>1, SharedKept DEF Ended
  <2>3. DrawOf(held) \in Operation /\ DrawOf(held).image = held
    BY <1>0, <2>1 DEF DrawOf, Operation
  <2>4. ASSUME Matching(gfx, prs, held, 0, Count(semaphore))
        PROVE  Matching(Append(gfx, DrawOf(held)), prs, held, 1, Count(semaphore))
    <3>1. Count(semaphore) \in {0, 1}
      OBVIOUS
    <3> QED
      BY <1>0, <2>3, <2>4, <3>1, DrawQueued
  <2> QED
    BY <1>0, <2>1, <2>2, <2>4
<1>8. CASE PresentFits \/ PresentMisfit
  <2>1. PICK ok \in BOOLEAN : pc = "present" /\ pc' \in {"test", "recreate"} /\ Presented(ok)
    BY <1>8 DEF PresentFits, PresentMisfit, GoRecreate
  <2>2. /\ UNCHANGED <<semaphore, adapter, list>>
        /\ ~Shared => prs' = Append(prs, PresentOf(held, ok)) /\ gfx' = gfx
    BY <2>1 DEF Presented
  <2>3. Shared' = Shared /\ ~Ended
    BY <2>1, <2>2, SharedKept DEF Ended
  <2>4. PresentOf(held, ok) \in Operation /\ PresentOf(held, ok).image = held
    BY <1>0, <2>1 DEF PresentOf, Operation
  <2>5. ASSUME Matching(gfx, prs, held, 1, Count(semaphore))
        PROVE  Matching(gfx, Append(prs, PresentOf(held, ok)), held', 0, Count(semaphore))
    <3>1. Count(semaphore) \in {0, 1}
      OBVIOUS
    <3> QED
      BY <1>0, <2>4, <2>5, <3>1, PresentQueued
  <2> QED
    BY <1>0, <2>1, <2>2, <2>3, <2>5
<1>9. CASE FinishDraw
  <2>1. /\ gfx # << >> /\ gfx' = Tail(gfx) /\ semaphore' = TRUE
        /\ UNCHANGED <<prs, pc, held, adapter, list>>
    BY <1>9 DEF FinishDraw, Outside
  <2>2. Shared' = Shared /\ Ended' = Ended
    BY <2>1, SharedKept DEF Ended
  <2>3. ASSUME Matching(gfx, prs, held, Count(pc = "present"), Count(semaphore))
        PROVE  Matching(Tail(gfx), prs, held, Count(pc = "present"), 1)
    <3>1. Count(semaphore) \in {0, 1} /\ Count(pc = "present") \in {0, 1}
      OBVIOUS
    <3> HIDE DEF Count
    <3> QED
      BY <1>0, <2>1, <2>3, <3>1, DrawDone
  <2> QED
    BY <1>0, <2>1, <2>2, <2>3
<1>10. CASE ExecutePresent
  <2>1. /\ semaphore /\ semaphore' = FALSE /\ UNCHANGED <<pc, held, adapter, list>>
        /\ ~Shared => prs # << >> /\ prs' = Tail(prs) /\ gfx' = gfx
    BY <1>10 DEF ExecutePresent, Outside
  <2>2. Shared' = Shared /\ Ended' = Ended
    BY <2>1, SharedKept DEF Ended
  <2>3. ASSUME ~Shared, Matching(gfx, prs, held, Count(pc = "present"), 1)
        PROVE  Matching(gfx, Tail(prs), held, Count(pc = "present"), 0)
    <3>1. Count(pc = "present") \in {0, 1}
      OBVIOUS
    <3> HIDE DEF Count
    <3> QED
      BY <1>0, <2>1, <2>3, <3>1, PresentDone
  <2> QED
    BY <1>0, <2>1, <2>2, <2>3
<1>11. CASE Engine \/ Rest \/ User \/ UNCHANGED vars
  BY <1>2, <1>11
     DEF Engine, Show, StopReading, SignalFence, Rest, Outside, vars,
         User, FocusLost, FocusGained, Minimised, Refresh, CloseAsked, EnterPressed, Resize, Dispatching,
         Elsewhere, Stays, GoRecreate
<1> QED
  BY <1>4, <1>5, <1>6, <1>7, <1>8, <1>9, <1>10, <1>11 DEF Next, Program, Processor, DrawFrame

LEMMA FrameInvariant == Spec => []FrameInv
<1>1. FrameInv /\ [Next]_vars => FrameInv'
  BY ChoosingStep, HoldingStep, QueueingStep, MatchedStep DEF FrameInv
<1> QED
  BY <1>1, FrameInit, PTL DEF Spec

-----------------------------------------------------------------------------
(* Who owns an image, read off the program counter and the queues. *)
App(i)  == held = i /\ (pc \in {"fence", "submit"} \/ fence # "idle")
Gpu(i)  == held = i \/ Has(gfx, i) \/ Has(prs, i)
Owns(i) == IF App(i) THEN "app" ELSE IF Gpu(i) THEN "gpu" ELSE "engine"

LEMMA OwnerIs == Owner = [i \in Image |-> Owns(i)]
<1>1. \A i : Pending(i) <=> Has(gfx, i) \/ Has(prs, i)
  BY WaitingImage
<1> QED
  BY <1>1 DEF Owner, Owns, App, Gpu

LEMMA OwnerIsNext == Owner' = [i \in Image |-> Owns(i)']
<1>1. \A i \in Image : Pending(i)' <=> Has(gfx', i) \/ Has(prs', i)
  BY DEF Pending, Has
<1>2. \A i \in Image : Owner'[i] = Owns(i)'
  BY <1>1 DEF Owner, Owns, App, Gpu, Has
<1>3. Owner' = [i \in Image |-> Owner'[i]]
  BY DEF Owner
<1> QED
  BY <1>2, <1>3

LEMMA OwnerStays ==
    ASSUME \A j \in Image : Owns(j)' = Owns(j)
    PROVE  Owner' = Owner
BY OwnerIs, OwnerIsNext

LEMMA OwnerMoves ==
    ASSUME NEW i \in Image, NEW o, Owns(i)' = o, \A j \in Image \ {i} : Owns(j)' = Owns(j)
    PROVE  Owner' = [Owner EXCEPT ![i] = o]
BY OwnerIs, OwnerIsNext

OwnerStep == Ownership!OwnerNext \/ (Owner' = Owner /\ reading' = reading)

LEMMA StepIsOwnerStep ==
    ASSUME FrameInv, [Next]_vars
    PROVE  OwnerStep
<1>0. /\ gfx \in Seq(Operation) /\ prs \in Seq(Operation)
      /\ pc = "create" => gfx = << >> /\ prs = << >>
      /\ pc \in {"fence", "submit"} => ~Has(gfx, held) /\ ~Has(prs, held)
      /\ held # 0 => pc \in {"fence", "submit", "present", "dead"}
      /\ pc \in {"fence", "submit", "present"} => held \in Image
      /\ back \in {"test", "poll", "wait"}
      /\ pc = "submit" => held \notin reading
      /\ fence # "idle" => pc \in {"fence", "dead"}
      /\ pc = "fence" => fence # "idle"
      /\ 0 \notin Image
      /\ \A i : ~Has(<< >>, i)
  BY EmptySeq DEF FrameInv, Queueing, Holding, Quiet, Image, Has
<1>1. Owner = [i \in Image |-> Owns(i)]
  BY OwnerIs
<1>2. ASSUME Owner' = Owner, reading' = reading
      PROVE  OwnerStep
  BY <1>2 DEF OwnerStep
<1>3. CASE /\ UNCHANGED <<held, gfx, prs, reading>>
           /\ \/ pc' = pc /\ (fence' = fence \/ (fence # "idle" /\ fence' # "idle"))
              \/ pc \notin {"fence", "submit"} /\ pc' \notin {"fence", "submit"} /\ fence' = fence
              \/ pc = "fence" /\ pc' = "submit"
              \/ pc = "fence" /\ fence # "idle" /\ fence' = fence
  <2>1. \A j \in Image : Owns(j)' = Owns(j)
    BY <1>3 DEF Owns, App, Gpu, Has
  <2> QED
    BY <1>2, <1>3, <2>1, OwnerStays
<1>4. CASE CreateSwapChain
  <2>1. UNCHANGED <<held, gfx, prs, pc, fence>> /\ pc = "create" /\ reading' = {}
    BY <1>4 DEF CreateSwapChain, At
  <2>2. \A j \in Image : Owns(j)' = Owns(j)
    BY <2>1 DEF Owns, App, Gpu, Has
  <2>3. \A j \in Image : Owner[j] = "engine"
    BY <1>0, <1>1, <2>1 DEF Owns, App, Gpu
  <2> QED
    BY <2>1, <2>2, <2>3, OwnerStays DEF OwnerStep, Ownership!OwnerNext, Ownership!Exchange
<1>5. CASE Creating \/ CreateFails \/ WaitIdle \/ Looping \/ Leaving \/ AcquireOutOfDate \/ WaitForFence
  <2>1. ASSUME NEW o \in Part, Create(o) PROVE OwnerStep
    BY <1>3, <2>1 DEF Create
  <2>2. CASE GetPhysDevice \/ AllCreated \/ CreateFails
    BY <1>0, <1>3, <2>2 DEF GetPhysDevice, AllCreated, CreateFails
  <2>3. CASE WaitIdle \/ Looping \/ Leaving
    BY <1>3, <2>3 DEF WaitIdle, Looping, LoopTest, PollReturns, UpdateUniformBuffer, Leaving, LeaveLoop,
                      GlfwTerminate, DestroyMember, LeaveMember, Destroyed
  <2>4. CASE AcquireOutOfDate \/ WaitForFence
    BY <1>3, <2>4 DEF AcquireOutOfDate, GoRecreate, WaitForFence
  <2> QED
    BY <1>4, <1>5, <2>1, <2>2, <2>3, <2>4 DEF Creating
<1>6. ASSUME NEW i \in Image, Acquire(i) PROVE Ownership!Take(i)
  <2>1. /\ pc = "acquire" /\ ~Pending(i) /\ pc' = "fence" /\ held' = i
        /\ UNCHANGED <<gfx, prs, reading>>
    BY <1>6 DEF Acquire
  <2>2. held = 0 /\ ~Has(gfx, i) /\ ~Has(prs, i)
    BY <1>0, <2>1, WaitingImage
  <2>3. Owns(i)' = "app" /\ \A j \in Image \ {i} : Owns(j)' = Owns(j)
    BY <1>0, <2>1, <2>2 DEF Owns, App, Gpu, Has
  <2>4. Owner[i] = "engine" /\ \A j \in Image : Owner[j] # "app"
    BY <1>0, <1>1, <2>1, <2>2 DEF Owns, App, Gpu
  <2>5. Owner' = [Owner EXCEPT ![i] = "app"]
    BY <2>3, OwnerMoves
  <2> QED
    BY <2>1, <2>4, <2>5 DEF Ownership!Take
<1>7. CASE Submit \/ (CallFails /\ pc = "submit")
  <2>1. /\ pc = "submit" /\ pc' \in {"present", "dead"} /\ UNCHANGED <<held, prs, reading, fence>>
        /\ gfx' = gfx \/ gfx' = Append(gfx, DrawOf(held))
    BY <1>7 DEF Submit, CallFails
  <2>2. PICK i \in Image : i = held
    BY <1>0, <2>1
  <2>3. DrawOf(i) \in Operation /\ DrawOf(i).image = i
    BY DEF DrawOf, Operation
  <2>4. \A j \in Image \ {i} : Has(gfx', j) <=> Has(gfx, j)
    <3>1. \A j \in Image : Has(Append(gfx, DrawOf(i)), j) <=> Has(gfx, j) \/ DrawOf(i).image = j
      BY <1>0, <2>3, HasKept
    <3>2. gfx' = gfx \/ gfx' = Append(gfx, DrawOf(i))
      BY <2>1, <2>2
    <3> QED
      BY ONLY <2>3, <3>1, <3>2
  <2>5. Owns(i)' = "gpu" /\ \A j \in Image \ {i} : Owns(j)' = Owns(j)
    <3>1. fence = "idle" /\ fence' = "idle" /\ held' = i
      BY <1>0, <2>1, <2>2
    <3>2. Owns(i)' = "gpu"
      BY <2>1, <3>1 DEF Owns, App, Gpu
    <3> QED
      BY <2>1, <2>2, <2>4, <3>1, <3>2 DEF Owns, App, Gpu, Has
  <2>6. Owner[i] = "app" /\ Owner' = [Owner EXCEPT ![i] = "gpu"]
    <3>1. Owner[i] = "app"
      BY <1>1, <2>1, <2>2 DEF Owns, App
    <3> QED
      BY <2>5, <3>1, OwnerMoves
  <2>7. Ownership!Draw(i)
    BY <1>0, <2>1, <2>2, <2>6 DEF Ownership!Draw
  <2> QED
    BY <2>7 DEF OwnerStep, Ownership!OwnerNext
<1>8. CASE CallFails /\ pc # "submit"
  BY <1>0, <1>3, <1>8 DEF CallFails
<1>9. CASE PresentFits \/ PresentMisfit
  <2>1. PICK ok \in BOOLEAN : pc = "present" /\ pc' \in {"test", "recreate"} /\ Presented(ok)
    BY <1>9 DEF PresentFits, PresentMisfit, GoRecreate
  <2> DEFINE op == PresentOf(held, ok)
  <2>2. op \in Operation /\ op.image = held /\ held \in Image
    BY <1>0, <2>1 DEF PresentOf, Operation
  <2>3. /\ held' = 0 /\ reading' = reading /\ fence' = fence
        /\ \/ gfx' = Append(gfx, op) /\ prs' = prs
           \/ prs' = Append(prs, op) /\ gfx' = gfx
    BY <2>1 DEF Presented
  <2> HIDE DEF op
  <2>4. \A j \in Image : Has(gfx', j) \/ Has(prs', j) <=> j = held \/ Has(gfx, j) \/ Has(prs, j)
    <3>1. \A j \in Image : /\ Has(Append(gfx, op), j) <=> Has(gfx, j) \/ op.image = j
                           /\ Has(Append(prs, op), j) <=> Has(prs, j) \/ op.image = j
      BY <1>0, <2>2, HasKept
    <3>2. CASE gfx' = Append(gfx, op) /\ prs' = prs
      BY ONLY <2>2, <3>1, <3>2
    <3>3. CASE prs' = Append(prs, op) /\ gfx' = gfx
      BY ONLY <2>2, <3>1, <3>3
    <3> QED
      BY <2>3, <3>2, <3>3
  <2>5. \A j \in Image : Owns(j)' = Owns(j)
    BY <1>0, <2>1, <2>3, <2>4 DEF Owns, App, Gpu, Has
  <2> QED
    BY <1>2, <2>3, <2>5, OwnerStays
<1>10. CASE FinishDraw
  <2>1. /\ gfx # << >> /\ gfx' = Tail(gfx) /\ UNCHANGED <<pc, held, prs, reading, fence>>
        /\ ~Ended
    BY <1>10 DEF FinishDraw, Outside
  <2>2. PICK i \in Image : i = Head(gfx).image
    BY <1>0, <2>1, Dropped DEF Operation
  <2>3. \A j \in Image : Has(gfx, j) <=> Has(gfx', j) \/ i = j
    BY <1>0, <2>1, <2>2, HasKept
  <2>4. ~App(i) /\ ~App(i)'
    BY <1>0, <2>1, <2>2, <2>3 DEF App, Ended
  <2>5. Owner[i] = "gpu"
    BY <1>1, <2>2, <2>3, <2>4 DEF Owns, Gpu
  <2>6. \A j \in Image \ {i} : Owns(j)' = Owns(j)
    BY <2>1, <2>3 DEF Owns, App, Gpu, Has
  <2>7. CASE Gpu(i)'
    <3>1. \A j \in Image : Owns(j)' = Owns(j)
      BY <2>2, <2>3, <2>4, <2>6, <2>7 DEF Owns, Gpu
    <3> QED
      BY <1>2, <2>1, <3>1, OwnerStays
  <2>8. CASE ~Gpu(i)'
    <3>1. Owns(i)' = "engine"
      BY <2>4, <2>8 DEF Owns
    <3>2. Owner' = [Owner EXCEPT ![i] = "engine"]
      BY <2>2, <2>6, <3>1, OwnerMoves
    <3>3. Ownership!Give(i)
      BY <2>1, <2>5, <3>2 DEF Ownership!Give
    <3> QED
      BY <2>2, <3>3 DEF OwnerStep, Ownership!OwnerNext
  <2> QED
    BY <2>7, <2>8
<1>11. CASE ExecutePresent
  <2>1. PICK i \in Image : i = Head(Presenting).image /\ held # i /\ ~Has(gfx', i) /\ ~Has(prs', i)
    BY <1>11, PresentExecuted
  <2>2. /\ UNCHANGED <<pc, held, fence>>
        /\ reading' = reading \/ reading' = reading \union {i}
        /\ \/ gfx # << >> /\ gfx' = Tail(gfx) /\ prs' = prs /\ i = Head(gfx).image
           \/ prs # << >> /\ prs' = Tail(prs) /\ gfx' = gfx /\ i = Head(prs).image
    BY <1>11, <2>1 DEF ExecutePresent, Presenting, Outside
  <2>3. \A j \in Image : Has(gfx, j) \/ Has(prs, j) <=> Has(gfx', j) \/ Has(prs', j) \/ i = j
    <3>1. CASE gfx # << >> /\ gfx' = Tail(gfx) /\ prs' = prs /\ i = Head(gfx).image
      <4>1. \A j \in Image : Has(gfx, j) <=> Has(Tail(gfx), j) \/ Head(gfx).image = j
        BY <1>0, <3>1, HasKept
      <4> QED
        BY ONLY <3>1, <4>1
    <3>2. CASE prs # << >> /\ prs' = Tail(prs) /\ gfx' = gfx /\ i = Head(prs).image
      <4>1. \A j \in Image : Has(prs, j) <=> Has(Tail(prs), j) \/ Head(prs).image = j
        BY <1>0, <3>2, HasKept
      <4> QED
        BY ONLY <3>2, <4>1
    <3> QED
      BY <2>2, <3>1, <3>2
  <2>4. Owns(i) = "gpu" /\ Owns(i)' = "engine"
    BY <2>1, <2>2, <2>3 DEF Owns, App, Gpu, Has
  <2>5. \A j \in Image \ {i} : Owns(j)' = Owns(j)
    BY <2>2, <2>3 DEF Owns, App, Gpu, Has
  <2>6. Owner[i] = "gpu" /\ Owner' = [Owner EXCEPT ![i] = "engine"]
    BY <1>1, <2>1, <2>4, <2>5, OwnerMoves
  <2>7. Ownership!Give(i)
    BY <2>2, <2>6 DEF Ownership!Give
  <2> QED
    BY <2>1, <2>7 DEF OwnerStep, Ownership!OwnerNext
<1>12. ASSUME NEW i \in Image, StopReading(i) PROVE Ownership!Leave(i)
  <2>1. UNCHANGED <<held, gfx, prs, pc, fence>> /\ i \in reading /\ reading' = reading \ {i}
    BY <1>12 DEF StopReading, Outside
  <2>2. \A j \in Image : Owns(j)' = Owns(j)
    BY <2>1 DEF Owns, App, Gpu, Has
  <2> QED
    BY <2>1, <2>2, OwnerStays DEF Ownership!Leave
<1>13. CASE Show \/ SignalFence \/ Rest \/ User \/ UNCHANGED vars
  BY <1>3, <1>13
     DEF Show, SignalFence, Rest, Outside, vars,
         User, FocusLost, FocusGained, Minimised, Refresh, CloseAsked, EnterPressed, Resize, Dispatching,
         Elsewhere, Stays, GoRecreate
<1> QED
  BY <1>5, <1>6, <1>7, <1>8, <1>9, <1>10, <1>11, <1>12, <1>13
     DEF Next, Program, Processor, DrawFrame, Failures, Engine, OwnerStep, Ownership!OwnerNext

(* With whatever adapter and however many images the program, the graphics processor and the  *)
(* presentation engine hand the images on as FrameOwnership promises: no image is drawn on    *)
(* while the screen reads it, and none is exchanged while it is in use.                       *)
THEOREM FrameRefinesOwnership == Spec => RefinesOwnership
<1>1. Init => Ownership!OwnerInit
  <2> SUFFICES ASSUME Init PROVE Owner = [i \in Image |-> "engine"] /\ reading = {}
    BY DEF Ownership!OwnerInit
  <2>1. held = 0 /\ gfx = << >> /\ prs = << >> /\ reading = {} /\ 0 \notin Image /\ \A i : ~Has(<< >>, i)
    BY EmptySeq DEF Init, Image, Has
  <2> QED
    BY <2>1, OwnerIs DEF Owns, App, Gpu
<1>2. FrameInv /\ [Next]_vars => [Ownership!OwnerNext]_(Ownership!ownership)
  BY StepIsOwnerStep DEF OwnerStep, Ownership!ownership
<1> QED
  BY <1>1, <1>2, FrameInvariant, PTL
     DEF Spec, RefinesOwnership, Ownership!OwnerSpec

-----------------------------------------------------------------------------
(* The extent changes only while the queues are empty, the uniform buffer is written only     *)
(* before an image is acquired.                                                               *)
Projected ==
    /\ pc \in {"acquire", "fence", "submit", "present"} => aspect = extent
    /\ gfx # << >> => aspect = extent

LEMMA ProjectedStep == ASSUME FrameInv, Projected, [Next]_vars PROVE Projected'
<1> USE DEF Projected
<1>0. /\ gfx \in Seq(Operation) /\ (pc = "create" => gfx = << >>)
      /\ back \in {"test", "poll", "wait"}
  BY DEF FrameInv, Queueing, Holding, Quiet
<1>1. CASE /\ UNCHANGED <<aspect, extent>>
           /\ gfx' \in {gfx, << >>} \/ pc \in {"submit", "present"} \/ gfx # << >>
           /\ \/ pc' = pc \/ pc' \notin {"acquire", "fence", "submit", "present"}
              \/ pc \in {"acquire", "fence", "submit", "present"}
  BY <1>1
<1>2. CASE Creating \/ CreateFails
  <2>1. ASSUME NEW o \in Part, Create(o) PROVE Projected'
    BY <1>1, <2>1 DEF Create
  <2>2. CASE CreateSwapChain
    BY <1>0, <2>2 DEF CreateSwapChain, At
  <2>3. CASE GetPhysDevice \/ AllCreated \/ CreateFails
    BY <1>0, <1>1, <2>3 DEF GetPhysDevice, AllCreated, CreateFails
  <2> QED
    BY <1>2, <2>1, <2>2, <2>3 DEF Creating
<1>3. CASE UpdateUniformBuffer
  BY <1>3 DEF UpdateUniformBuffer
<1>4. CASE WaitIdle \/ LoopTest \/ PollReturns \/ Leaving
  BY <1>1, <1>4 DEF WaitIdle, LoopTest, PollReturns, Leaving, LeaveLoop, GlfwTerminate, DestroyMember,
                    LeaveMember, Destroyed
<1>5. CASE DrawFrame \/ CallFails
  BY <1>1, <1>5 DEF DrawFrame, CallFails, Acquire, AcquireOutOfDate, GoRecreate, WaitForFence, Submit,
                    PresentFits, PresentMisfit, Presented
<1>6. CASE Processor \/ Engine \/ Rest \/ UNCHANGED vars
  BY <1>1, <1>6 DEF Processor, Engine, Rest, FinishDraw, ExecutePresent, Outside, Show, StopReading,
                    SignalFence, vars
<1>7. CASE User
  BY <1>1, <1>7 DEF User, FocusLost, FocusGained, Minimised, Refresh, CloseAsked, EnterPressed, Resize,
                    Dispatching, Elsewhere, Stays, GoRecreate
<1> QED
  BY <1>2, <1>3, <1>4, <1>5, <1>6, <1>7 DEF Next, Program, Looping, Failures

(* However the window is resized, refreshed and recreated: no frame is drawn with a           *)
(* projection for another extent than its swap chain has.                                     *)
THEOREM FrameProjectionFits == Spec => []ProjectionFits
<1>1. Init => Projected
  BY DEF Init, Projected
<1>2. FrameInv /\ Projected => ProjectionFits
  <2> SUFFICES ASSUME FrameInv, Projected, NEW k \in DOMAIN gfx PROVE aspect = extent
    BY DEF ProjectionFits
  <2>1. gfx # << >>
    BY EmptySeq
  <2> QED
    BY <2>1 DEF Projected
<1> QED
  BY <1>1, <1>2, FrameInvariant, ProjectedStep, PTL DEF Spec
=============================================================================
