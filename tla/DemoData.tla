------------------------------ MODULE DemoData ------------------------------
(***************************************************************************)
(* What the create functions of the Vulkan demo put into its objects: the  *)
(* choices among what the machine offers, the formats and extents that     *)
(* must agree, the vertices and indices read from the model, the images    *)
(* and buffers filled through a staging buffer by commands of the device.  *)
(* DemoParts has the order of the functions, FrameLoop what goes on        *)
(* between them; here each runs operation by operation.                    *)
(*                                                                         *)
(* The program submits one command at a time and waits for it; the device  *)
(* executes it meanwhile.  Any operation may fail, which ends the program, *)
(* except a submission: nobody looks at its result.                        *)
(*                                                                         *)
(* A corner of a triangle is the vertex the model file says it has, or     *)
(* Outside if an index of it points out of the file's arrays.              *)
(***************************************************************************)
EXTENDS DemoParts, Integers

CONSTANTS
    Machine,    \* depth: the depth formats it can draw to; memory: its types of memory
    Offer,      \* what the surface may offer: capabilities, formats and present modes
    Vertex,     \* position and texture coordinates
    Odd,        \* the vertices with a NaN in them, which equal none
    Outside,
    Model,      \* the corners a model file may have
    Screen,     \* width and height of the video mode
    AsYouLike,  \* the current extent of a surface that leaves it to the swap chain
    Texels,     \* what is in a texture file of four bytes a texel
    Junk,       \* any other bytes
    NoObject    \* a null handle

Preferred       == [format |-> "B8G8R8A8", space |-> "sRGB"]
DepthCandidates == <<"D32", "D32S8", "D24S8">>
Staged          == {"host", "coherent"}
DeviceLocal     == {"local"}
Dimension       == {"width", "height"}

(* Vulkan demands of every device one of the depth formats with stencil.   *)
ASSUME DataAssumption ==
    /\ Odd \subseteq Vertex /\ Outside \notin Vertex
    /\ Model \subseteq Seq(Vertex \union {Outside})
    /\ \A m \in Machine : /\ m.memory \in Seq(SUBSET {"host", "coherent", "local"})
                         /\ m.depth \intersect {"D32S8", "D24S8"} # {}
    /\ Screen \in [Dimension -> Nat]

(* What Vulkan says of every surface: a range of extents, at least one     *)
(* format, fifo among the modes, limits for the number of images.          *)
ASSUME OfferAssumption ==
    \A o \in Offer :
        /\ \/ o.current \in [Dimension -> Nat] /\ o.current # AsYouLike
           \/ o.current = AsYouLike
        /\ o.least \in [Dimension -> Nat] /\ o.most \in [Dimension -> Nat]
        /\ \A d \in Dimension : o.least[d] <= o.most[d]
        /\ Len(o.formats) \in Nat \ {0} /\ DOMAIN o.formats = 1..Len(o.formats)
        /\ "fifo" \in o.modes
        /\ o.minImages \in Nat /\ o.maxImages \in Nat
        /\ o.maxImages = 0 \/ o.minImages <= o.maxImages

-----------------------------------------------------------------------------
(* chooseSwapSurfaceFormat; a list of one undefined format allows any. *)
SurfaceFormat(formats) ==
    IF (Len(formats) = 1 /\ formats[1].format = "undefined")
       \/ (\E k \in DOMAIN formats : formats[k] = Preferred)
    THEN Preferred ELSE formats[1]

(* chooseSwapExtent. *)
Larger(m, n)  == IF m > n THEN m ELSE n
Smaller(m, n) == IF m < n THEN m ELSE n

(* Mutated form: the limits change places. *)
SwapExtent_Swapped(offer) ==
    IF offer.current # AsYouLike THEN offer.current
    ELSE [d \in Dimension |-> Larger(offer.most[d], Smaller(offer.least[d], Screen[d]))]

SwapExtent(offer) ==
    IF offer.current # AsYouLike THEN offer.current
    ELSE [d \in Dimension |-> Larger(offer.least[d], Smaller(offer.most[d], Screen[d]))]

(* findSupportedFormat over the candidates of findDepthFormat. *)
FirstUsable(machine) == SelectInSeq(DepthCandidates, LAMBDA f : f \in machine.depth)
DepthFormat(machine) ==
    IF FirstUsable(machine) = 0 THEN "undefined" ELSE DepthCandidates[FirstUsable(machine)]

(* findMemoryType among the types an object may lie in; 0 where it throws. *)
MemoryType(machine, types, wanted) ==
    SelectInSeq([k \in DOMAIN machine.memory |-> k \in types /\ wanted \subseteq machine.memory[k]],
                LAMBDA fits : fits)

HasStencil(format) == format \in {"D32S8", "D24S8"}

(* The aspects of the barrier transitionImageLayout makes, and the layouts *)
(* it knows how to go from and to.                                         *)
Aspects(format, to) ==
    IF to # "depthAttachment" THEN {"color"}
    ELSE {"depth"} \union (IF HasStencil(format) THEN {"stencil"} ELSE {})
Transition == {<<"preinitialized", "transferSource">>, <<"preinitialized", "transferTarget">>,
               <<"transferTarget", "shader">>, <<"undefined", "depthAttachment">>}

-----------------------------------------------------------------------------
(* The operations of the create functions that take more than one. *)
DepthWork   == <<"image", "attach", "wait">>
TextureWork == <<"stage", "image", "receive", "wait", "copy", "wait", "show", "wait", "unstage">>
BufferWork  == <<"stage", "buffer", "copy", "wait", "unstage">>
Work(o)     == CASE o = "depth" -> DepthWork
                 [] o = "texture" -> TextureWork
                 [] o \in {"vertexBuffer", "indexBuffer"} -> BufferWork
                 [] OTHER -> <<"whole">>

VARIABLES
    machine, file,            \* the machine; the texture and the model on the disk
    calls, at, done,          \* the create functions, the running one, its operations done
    alive, lost,              \* the program runs; a submission has failed unnoticed
    offer, chain,             \* what the surface offered, what the swap chain was made of it
    pass, pipeline, frames,   \* formats of the render pass, viewport, framebuffers
    commands,                 \* what the command buffers of the frames draw
    image, buffer, staging,   \* images, buffers, and what is in the staging buffer
    queue,                    \* submitted commands the device has not executed
    vertices, indices         \* the vectors LoadModel fills

given    == <<machine, file>>
place    == <<calls, at, done, alive>>
targets  == <<offer, chain, pass, pipeline, frames, commands>>
storage  == <<image, buffer, staging>>
mesh     == <<vertices, indices>>
dataVars == <<given, place, lost, targets, storage, queue, mesh>>

Now        == calls[at]
Ready     == alive /\ at > Len(calls)
Creating  == alive /\ at <= Len(calls)
Doing(op) == Creating /\ Work(Now)[done + 1] = op
At(o)     == Creating /\ Now = o

NoImage  == [format |-> "undefined", extent |-> NoObject, memory |-> {}, layout |-> "none",
             holds |-> NoObject]
NoBuffer == [memory |-> {}, holds |-> NoObject]

DataInit ==
    /\ machine \in Machine
    /\ file \in [texture : {Texels, Junk}, corners : Model]
    /\ calls = InitializeSteps /\ at = 1 /\ done = 0
    /\ alive = TRUE /\ lost = FALSE
    /\ offer = NoObject /\ chain = NoObject
    /\ pass = NoObject /\ pipeline = NoObject /\ frames = NoObject /\ commands = NoObject
    /\ image = [o \in {"depth", "texture"} |-> NoImage]
    /\ buffer = [o \in {"vertexBuffer", "indexBuffer", "uniformBuffer"} |-> NoBuffer]
    /\ staging = NoBuffer /\ queue = << >>
    /\ vertices = << >> /\ indices = << >>

(* On to the next operation, of the next function after the last one.      *)
Forward ==
    /\ IF done + 1 = Len(Work(Now)) THEN at' = at + 1 /\ done' = 0
       ELSE done' = done + 1 /\ UNCHANGED at
    /\ UNCHANGED <<calls, alive>>

-----------------------------------------------------------------------------
(* The swap chain and what is made for it. *)
Request(o) ==
    [format |-> SurfaceFormat(o.formats), extent |-> SwapExtent(o),
     mode |-> PresentMode(o), count |-> ImageCount(o)]

CreateSwapChain ==
    /\ At("swapchain") /\ Forward
    /\ \E o \in Offer : offer' = o /\ chain' = Request(o)
    /\ UNCHANGED <<given, lost, pass, pipeline, frames, commands, storage, queue, mesh>>

CreateRenderPass ==
    /\ At("renderPass") /\ Forward
    /\ pass' = [color |-> chain.format.format, depth |-> DepthFormat(machine)]
    /\ UNCHANGED <<given, lost, offer, chain, pipeline, frames, commands, storage, queue, mesh>>

CreateGraphicsPipeline ==
    /\ At("pipeline") /\ Forward /\ pipeline' = chain.extent
    /\ UNCHANGED <<given, lost, offer, chain, pass, frames, commands, storage, queue, mesh>>

CreateFramebuffers ==
    /\ At("framebuffers") /\ Forward
    /\ frames' = [color |-> chain.format.format, depth |-> image["depth"].format,
                  extent |-> chain.extent]
    /\ UNCHANGED <<given, lost, offer, chain, pass, pipeline, commands, storage, queue, mesh>>

(* Mutated form: the vertices are counted, not the indices. *)
CreateCommandBuffers_Vertices ==
    /\ At("commandBuffers") /\ Forward
    /\ commands' = [count |-> Len(vertices), extent |-> chain.extent]
    /\ UNCHANGED <<given, lost, offer, chain, pass, pipeline, frames, storage, queue, mesh>>

CreateCommandBuffers ==
    /\ At("commandBuffers") /\ Forward
    /\ commands' = [count |-> Len(indices), extent |-> chain.extent]
    /\ UNCHANGED <<given, lost, offer, chain, pass, pipeline, frames, storage, queue, mesh>>

(* The functions that put nothing of all this into their objects. *)
CreateOther ==
    /\ \E o \in {"instance", "callback", "surface", "physDevice", "device", "imageViews",
               "setLayout", "commandPool", "textureView", "sampler", "descriptorPool",
               "descriptorSet", "sync"} : At(o)
    /\ Forward
    /\ UNCHANGED <<given, lost, targets, storage, queue, mesh>>

-----------------------------------------------------------------------------
(* Images and buffers.  The driver says which types of memory will do.     *)
Memory(wanted, memory) ==
    \E types \in SUBSET DOMAIN machine.memory :
        /\ MemoryType(machine, types, wanted) # 0
        /\ memory = machine.memory[MemoryType(machine, types, wanted)]

(* Mutated form: the depth image does not ask which format is supported.   *)
ImageFormat_First(o) == IF o = "depth" THEN "D32" ELSE "A8B8G8R8"

ImageFormat(o) == IF o = "depth" THEN DepthFormat(machine) ELSE "A8B8G8R8"

Properties == SUBSET {"host", "coherent", "local"}

CreateImage ==
    /\ Doing("image") /\ Forward
    /\ \E m \in Properties :
          /\ Memory(DeviceLocal, m)
          /\ image' = [image EXCEPT ![Now] =
                [format |-> ImageFormat(Now), memory |-> m,
                 extent |-> IF Now = "depth" THEN chain.extent ELSE NoObject,
                 layout |-> "preinitialized", holds |-> Junk]]
    /\ UNCHANGED <<given, lost, targets, buffer, staging, queue, mesh>>

CreateBuffer ==
    /\ Doing("buffer") /\ Forward
    /\ \E m \in Properties :
          /\ Memory(DeviceLocal, m)
          /\ buffer' = [buffer EXCEPT ![Now] = [memory |-> m, holds |-> Junk]]
    /\ UNCHANGED <<given, lost, targets, image, staging, queue, mesh>>

CreateUniformBuffer ==
    /\ At("uniformBuffer") /\ Forward
    /\ \E m \in Properties :
          /\ Memory(Staged, m)
          /\ buffer' = [buffer EXCEPT !["uniformBuffer"] = [memory |-> m, holds |-> Junk]]
    /\ UNCHANGED <<given, lost, targets, image, staging, queue, mesh>>

(* What is copied into the staging buffer; it gets there if the program    *)
(* can see the memory and need not flush it.                               *)
Data(o) == CASE o = "texture"      -> file.texture
             [] o = "vertexBuffer" -> vertices
             [] o = "indexBuffer"  -> indices

Stage ==
    /\ Doing("stage") /\ Forward
    /\ \E m \in Properties :
          /\ Memory(Staged, m)
          /\ staging' = [memory |-> m, holds |-> IF Staged \subseteq m THEN Data(Now) ELSE Junk]
    /\ UNCHANGED <<given, lost, targets, image, buffer, queue, mesh>>

Unstage ==
    /\ Doing("unstage") /\ Forward /\ staging' = NoBuffer
    /\ UNCHANGED <<given, lost, targets, image, buffer, queue, mesh>>

-----------------------------------------------------------------------------
(* A command is submitted, or refused unnoticed, and waited for. *)
Submit(command) ==
    /\ \/ queue' = Append(queue, command) /\ UNCHANGED lost
       \/ lost' = TRUE /\ UNCHANGED queue
    /\ Forward
    /\ UNCHANGED <<given, targets, storage, mesh>>

TransitionImageLayout(from, to) ==
    /\ <<from, to>> \in Transition
    /\ Submit([kind |-> "barrier", of |-> Now, from |-> from, to |-> to,
               aspects |-> Aspects(image[Now].format, to)])

Attach  == Doing("attach") /\ TransitionImageLayout("undefined", "depthAttachment")
Receive == Doing("receive") /\ TransitionImageLayout("preinitialized", "transferTarget")
Show    == Doing("show") /\ TransitionImageLayout("transferTarget", "shader")
Copy    == Doing("copy") /\ Submit([kind |-> "copy", of |-> Now])

(* Mutated form: the program goes on while the device works. *)
Wait_No ==
    /\ Doing("wait") /\ Forward
    /\ UNCHANGED <<given, lost, targets, storage, queue, mesh>>

Wait ==
    /\ Doing("wait") /\ queue = << >> /\ Forward
    /\ UNCHANGED <<given, lost, targets, storage, queue, mesh>>

(* The aspects a format has, all of which a barrier must name. *)
AspectsOf(format) == CASE format = "A8B8G8R8" -> {"color"}
                       [] format = "D32" -> {"depth"}
                       [] format \in {"D32S8", "D24S8"} -> {"depth", "stencil"}
                       [] OTHER -> {}

(* Whether a command finds what it needs. *)
Fitting(c) ==
    IF c.kind = "barrier"
    THEN /\ c.from \in {"undefined", image[c.of].layout} /\ image[c.of].layout # "none"
         /\ c.aspects = AspectsOf(image[c.of].format)
    ELSE /\ staging.memory # {}
         /\ IF c.of = "texture" THEN image["texture"].layout = "transferTarget"
            ELSE buffer[c.of].memory # {}

(* The device: a command that does not fit leaves anything behind. *)
Moved(c) ==
    [image[c.of] EXCEPT !.layout = IF Fitting(c) THEN c.to ELSE "broken",
                        !.holds = IF Fitting(c) /\ c.from # "undefined" THEN @ ELSE Junk]

ExecuteBarrier ==
    /\ queue # << >> /\ Head(queue).kind = "barrier"
    /\ image' = [image EXCEPT ![Head(queue).of] = Moved(Head(queue))]
    /\ queue' = Tail(queue)
    /\ UNCHANGED <<given, place, lost, targets, buffer, staging, mesh>>

Arrived(c) == IF Fitting(c) THEN staging.holds ELSE Junk

ExecuteCopy ==
    /\ queue # << >> /\ Head(queue).kind = "copy"
    /\ IF Head(queue).of = "texture"
       THEN image' = [image EXCEPT !["texture"].holds = Arrived(Head(queue))] /\ UNCHANGED buffer
       ELSE buffer' = [buffer EXCEPT ![Head(queue).of].holds = Arrived(Head(queue))] /\ UNCHANGED image
    /\ queue' = Tail(queue)
    /\ UNCHANGED <<given, place, lost, targets, staging, mesh>>

-----------------------------------------------------------------------------
(* LoadModel, corner by corner.  A vertex that has been met is found in    *)
(* the map, unless it is odd: then the map has no entry for it when its    *)
(* index is asked for, and makes one that says zero.                       *)
Met(v) == {k \in DOMAIN vertices : vertices[k] = v /\ v \notin Odd}

AddVertex(v) ==
    IF Met(v) # {}
    THEN (\E k \in Met(v) : indices' = Append(indices, k - 1)) /\ UNCHANGED vertices
    ELSE /\ vertices' = Append(vertices, v)
         /\ indices' = Append(indices, IF v \in Odd THEN 0 ELSE Len(vertices))

ReadCorner ==
    /\ At("model") /\ Len(indices) < Len(file.corners)
    /\ LET corner == file.corners[Len(indices) + 1]
       IN  \E v \in IF corner = Outside THEN Vertex ELSE {corner} : AddVertex(v)
    /\ UNCHANGED <<given, place, lost, targets, storage, queue>>

ModelLoaded ==
    /\ At("model") /\ Len(indices) = Len(file.corners) /\ Forward
    /\ UNCHANGED <<given, lost, targets, storage, queue, mesh>>

-----------------------------------------------------------------------------
Recreate ==
    /\ Ready /\ queue = << >>
    /\ calls' = RecreateSteps /\ at' = 1 /\ done' = 0
    /\ UNCHANGED <<given, alive, lost, targets, storage, queue, mesh>>

(* An exception nobody catches, or a failed assertion. *)
Fails ==
    /\ Creating /\ alive' = FALSE
    /\ UNCHANGED <<given, calls, at, done, lost, targets, storage, queue, mesh>>

Over == ~alive /\ queue = << >> /\ UNCHANGED dataVars

Create  == \/ CreateSwapChain \/ CreateRenderPass \/ CreateGraphicsPipeline \/ CreateFramebuffers
           \/ CreateCommandBuffers \/ CreateOther \/ CreateUniformBuffer
           \/ ReadCorner \/ ModelLoaded
Operate == \/ CreateImage \/ CreateBuffer \/ Stage \/ Unstage
           \/ Attach \/ Receive \/ Show \/ Copy \/ Wait
Execute == ExecuteBarrier \/ ExecuteCopy

DataNext == Create \/ Operate \/ Execute \/ Recreate \/ Fails \/ Over
DataSpec == DataInit /\ [][DataNext]_dataVars

-----------------------------------------------------------------------------
(* Types; every list of operations is worked off within its bounds.        *)
DataTypeOK ==
    /\ machine \in Machine /\ file \in [texture : {Texels, Junk}, corners : Model]
    /\ calls \in {InitializeSteps, RecreateSteps} /\ at \in 1..(Len(calls) + 1)
    /\ IF at \in DOMAIN calls THEN done \in 0..(Len(Work(Now)) - 1) ELSE done = 0
    /\ alive \in BOOLEAN /\ lost \in BOOLEAN
    /\ vertices \in Seq(Vertex) /\ indices \in Seq(Nat)

(* The swap chain that is asked for is one the surface offers, with the    *)
(* preferred format and mailbox if it can be, as many images as allow one  *)
(* more than needed, and the extent nearest to the screen's.               *)
Distance(m, n) == IF m > n THEN m - n ELSE n - m
RequestFits ==
    chain # NoObject =>
        /\ \/ chain.format = Preferred /\ offer.formats[1].format = "undefined"
           \/ \E k \in DOMAIN offer.formats : chain.format = offer.formats[k]
        /\ (\E k \in DOMAIN offer.formats : offer.formats[k] = Preferred) => chain.format = Preferred
        /\ chain.mode \in offer.modes /\ ("mailbox" \in offer.modes => chain.mode = "mailbox")
        /\ chain.count >= offer.minImages
        /\ offer.maxImages = 0 \/ chain.count <= offer.maxImages
        /\ chain.count = offer.minImages => offer.maxImages = offer.minImages
        /\ IF offer.current # AsYouLike THEN chain.extent = offer.current
           ELSE \A d \in Dimension :
                    /\ chain.extent[d] \in offer.least[d]..offer.most[d]
                    /\ \A n \in offer.least[d]..offer.most[d] :
                          Distance(chain.extent[d], Screen[d]) <= Distance(n, Screen[d])

(* When frames can be drawn, after Initialize or any recreation, what they *)
(* draw to has the formats the render pass was made for, and viewport,     *)
(* framebuffers, depth image and command buffers have the extent of the    *)
(* swap chain; and the program can write into the uniform buffer.          *)
FramesFit ==
    Ready =>
        /\ pass = [color |-> chain.format.format, depth |-> image["depth"].format]
        /\ frames = [color |-> pass.color, depth |-> pass.depth, extent |-> chain.extent]
        /\ pipeline = chain.extent /\ commands.extent = chain.extent
        /\ image["depth"].extent = chain.extent
        /\ ~lost => image["depth"].layout = "depthAttachment"
        /\ Staged \subseteq buffer["uniformBuffer"].memory

(* Unless a submission was refused, the device finds the images, layouts   *)
(* and buffers its next command names; no staging buffer goes while it is  *)
(* read, and none is left when the functions are through.                  *)
PendingFits ==
    /\ ~lost => \A k \in DOMAIN queue : Fitting(queue[k])
    /\ Ready => queue = << >> /\ staging = NoBuffer

(* The vertices are shared: none is stored twice, but one with a NaN, and  *)
(* every index is that of a vertex.                                        *)
VerticesShared ==
    /\ \A i, j \in DOMAIN vertices : vertices[i] = vertices[j] /\ vertices[i] \notin Odd => i = j
    /\ \A k \in DOMAIN indices : indices[k] < Len(vertices)

(* What is drawn is the model: its vertices are shared; the texture is     *)
(* there, in the layout it is read in, and behind the indices and vertices *)
(* on the device is every corner of the file that has a number for each of *)
(* its coordinates.                                                        *)
Drawn(k) == buffer["vertexBuffer"].holds[buffer["indexBuffer"].holds[k] + 1]

ModelShown ==
    VerticesShared /\ (Ready /\ ~lost =>
        /\ image["texture"].layout = "shader" /\ image["texture"].holds = file.texture
        /\ commands.count = Len(file.corners)
        /\ \A k \in 1..commands.count : file.corners[k] \in Vertex \ Odd => Drawn(k) = file.corners[k])
=============================================================================
