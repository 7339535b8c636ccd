----------------------------- MODULE DemoParts ------------------------------
(***************************************************************************)
(* The objects the Vulkan demo keeps in VkDemoRenderer: in which order     *)
(* they are created, created again with the swap chain and destroyed, and  *)
(* which others each create function reads.  Pure: no state.               *)
(***************************************************************************)
EXTENDS Naturals, Sequences, FiniteSets, Functions, SequencesExt

(* What the helpers read: a buffer or an image with its memory, a view,    *)
(* and a command that is recorded, submitted and waited for at once.       *)
Helper ==
    [memory  |-> {"physDevice", "device"},
     view    |-> {"device"},
     command |-> {"device", "commandPool"}]

(* What the create functions read, in the order of the source.  A format   *)
(* or an extent kept from the swap chain counts as the swap chain itself.  *)
PlatformUses ==
    [instance   |-> {},
     callback   |-> {"instance"},
     surface    |-> {"instance"},
     physDevice |-> {"instance", "surface"},
     device     |-> {"physDevice", "surface"}]

ChainUses ==
    [swapchain  |-> {"physDevice", "surface", "device"},
     imageViews |-> Helper.view \union {"swapchain"},
     renderPass |-> {"physDevice", "device", "swapchain"}]

PipelineUses ==
    [setLayout    |-> {"device"},
     pipeline     |-> {"device", "swapchain", "setLayout", "renderPass"},
     framebuffers |-> {"device", "swapchain", "imageViews", "depth", "renderPass"},
     commandPool  |-> {"physDevice", "surface", "device"},
     depth        |-> Helper.memory \union Helper.view \union Helper.command \union {"swapchain"}]

TextureUses ==
    [texture     |-> Helper.memory \union Helper.command,
     textureView |-> Helper.view \union {"texture"},
     sampler     |-> {"device"}]

ModelUses ==
    [model         |-> {},
     vertexBuffer  |-> Helper.memory \union Helper.command \union {"model"},
     indexBuffer   |-> Helper.memory \union Helper.command \union {"model"},
     uniformBuffer |-> Helper.memory]

FrameUses ==
    [descriptorPool |-> {"device"},
     descriptorSet  |-> {"device", "setLayout", "descriptorPool", "uniformBuffer",
                         "sampler", "textureView"},
     commandBuffers |-> {"device", "commandPool", "swapchain", "renderPass", "framebuffers",
                         "pipeline", "vertexBuffer", "indexBuffer", "descriptorSet", "model"},
     sync           |-> {"device"}]

(* The tables together.  (TLC's @@ would do, but the provers do not know it.) *)
With(f, g) == [x \in DOMAIN f \union DOMAIN g |-> IF x \in DOMAIN f THEN f[x] ELSE g[x]]
Uses == With(PlatformUses, With(ChainUses, With(PipelineUses,
            With(TextureUses, With(ModelUses, FrameUses)))))
Part == DOMAIN Uses

(* Initialize and RecreateSwapChain. *)
InitializeSteps ==
    <<"instance", "callback", "surface", "physDevice", "device", "swapchain", "imageViews",
      "renderPass", "setLayout", "pipeline", "commandPool", "depth", "framebuffers", "texture",
      "textureView", "sampler", "model", "vertexBuffer", "indexBuffer", "uniformBuffer",
      "descriptorPool", "descriptorSet", "commandBuffers", "sync">>

(* Mutated form: the depth image of the old extent is kept. *)
RecreateSteps_KeepsDepth ==
    <<"swapchain", "imageViews", "renderPass", "pipeline", "framebuffers", "commandBuffers">>

RecreateSteps ==
    <<"swapchain", "imageViews", "renderPass", "pipeline", "depth", "framebuffers",
      "commandBuffers">>

(* Mutated form: the device is declared behind the objects it made.        *)
Members_DeviceLast ==
    <<"instance", "callback", "surface", "swapchain", "imageViews", "framebuffers", "renderPass",
      "setLayout", "pipeline", "commandPool", "depth", "texture", "textureView", "sampler",
      "vertexBuffer", "indexBuffer", "uniformBuffer", "descriptorPool", "commandBuffers", "sync",
      "device", "model">>

(* The order of the data members: destruction runs through it backwards.   *)
Members ==
    <<"instance", "callback", "surface", "device", "swapchain", "imageViews", "framebuffers",
      "renderPass", "setLayout", "pipeline", "commandPool", "depth", "texture", "textureView",
      "sampler", "vertexBuffer", "indexBuffer", "uniformBuffer", "descriptorPool",
      "commandBuffers", "sync", "model">>

(* What disappears with a member: the set with its pool, the physical      *)
(* device with the instance.                                               *)
GoesWith(o) == {o} \union (CASE o = "instance" -> {"physDevice"}
                             [] o = "descriptorPool" -> {"descriptorSet"}
                             [] OTHER -> {})

(* The object through which an object is destroyed.  The surface has none: GLFW writes it into  *)
(* a unique handle that was constructed without an owner.                                       *)
Parent(o) ==
    CASE o \in {"instance", "model", "surface"} -> {}
      [] o \in {"callback", "physDevice", "device"} -> {"instance"}
      [] o = "commandBuffers" -> {"commandPool", "device"}
      [] o = "descriptorSet"  -> {"descriptorPool", "device"}
      [] OTHER -> {"device"}

-----------------------------------------------------------------------------
(* findQueueFamilies: families is the sequence of what each family can do. *)
(* The walk stops where both have been seen; until then the last family    *)
(* with an ability wins.                                                   *)
Complete(families, k) ==
    \A ability \in {"graphics", "present"} : \E i \in 1..k : ability \in families[i]
Walked(families) ==
    SelectInSeq([k \in DOMAIN families |-> Complete(families, k)], LAMBDA c : c)
FamilyOf(families, ability) ==
    SelectLastInSubSeq(families, 1, Walked(families), LAMBDA f : ability \in f)
OneFamily(adapter) ==
    FamilyOf(adapter.families, "graphics") = FamilyOf(adapter.families, "present")

(* isPhysDeviceSuitable. *)
Suitable(adapter) ==
    /\ Walked(adapter.families) > 0
    /\ adapter.swapchains /\ adapter.formats # {} /\ adapter.modes # {}
    /\ adapter.anisotropy

(* GetPhysDevice: the first adapter that will do, 0 if there is none. *)
FirstSuitable(adapters) == SelectInSeq(adapters, Suitable)

PresentMode(adapter) == IF "mailbox" \in adapter.modes THEN "mailbox" ELSE "fifo"

(* Mutated form: the least possible number of images. *)
ImageCount_Least(adapter) == adapter.minImages

(* CreateSwapChain asks for one image more than the least possible. *)
ImageCount(adapter) ==
    IF adapter.maxImages > 0 /\ adapter.minImages + 1 > adapter.maxImages
    THEN adapter.maxImages
    ELSE adapter.minImages + 1
=============================================================================
