------------------------- MODULE FrameObjectsProofs -------------------------
(***************************************************************************)
(* The objects of the Vulkan demo: for every list of adapters and any      *)
(* number of events each is made from current ones, at the start and when  *)
(* the swap chain is made again, no draw finds one gone or stale, and each *)
(* but two is destroyed through its parent.  Also: one semaphore is enough *)
(* for one queue, and every variable keeps its type.                       *)
(***************************************************************************)
EXTENDS FrameLoopProofs, WellFoundedInduction

(* What an action outside a group leaves alone. *)
USE DEF program, objects, window, signals, screen, queues

(* The place of an object in Initialize. *)
Rank ==
    [instance |-> 1, callback |-> 2, surface |-> 3, physDevice |-> 4, device |-> 5,
     swapchain |-> 6, imageViews |-> 7, renderPass |-> 8, setLayout |-> 9, pipeline |-> 10,
     commandPool |-> 11, depth |-> 12, framebuffers |-> 13, texture |-> 14, textureView |-> 15,
     sampler |-> 16, model |-> 17, vertexBuffer |-> 18, indexBuffer |-> 19, uniformBuffer |-> 20,
     descriptorPool |-> 21, descriptorSet |-> 22, commandBuffers |-> 23, sync |-> 24]

(* What RecreateSwapChain makes again. *)
Again == {"swapchain", "imageViews", "renderPass", "pipeline", "depth", "framebuffers",
          "commandBuffers"}

(* A table of uses in which every object is made only from objects of a lower rank, none from *)
(* the debug callback, and what is made from something made again is made again too.          *)
Ranked(f) ==
    \A x \in DOMAIN f : \A u \in f[x] : /\ u \in PartName \ {"callback"}
                                        /\ Rank[u] < Rank[x]
                                        /\ u \in Again => x \in Again

LEMMA RankedUnion ==
    ASSUME NEW f, NEW g, Ranked(f), Ranked(g)
    PROVE  Ranked(With(f, g)) /\ DOMAIN With(f, g) = DOMAIN f \union DOMAIN g
BY DEF Ranked, With

LEMMA RankedTables ==
    /\ Ranked(PlatformUses) /\ Ranked(ChainUses) /\ Ranked(PipelineUses)
    /\ Ranked(TextureUses) /\ Ranked(ModelUses) /\ Ranked(FrameUses)
<1>1. Ranked(PlatformUses)
  BY DEF Ranked, Again, PlatformUses, Rank, PartName
<1>2. Ranked(ChainUses)
  BY DEF Ranked, Again, ChainUses, Helper, Rank, PartName
<1>3. Ranked(PipelineUses)
  BY DEF Ranked, Again, PipelineUses, Helper, Rank, PartName
<1>4. Ranked(TextureUses)
  BY DEF Ranked, Again, TextureUses, Helper, Rank, PartName
<1>5. Ranked(ModelUses)
  BY DEF Ranked, Again, ModelUses, Helper, Rank, PartName
<1>6. Ranked(FrameUses)
  BY DEF Ranked, Again, FrameUses, Rank, PartName
<1> QED
  BY <1>1, <1>2, <1>3, <1>4, <1>5, <1>6

LEMMA UsesRanked == Ranked(Uses) /\ Part = PartName
<1> DEFINE f2 == With(ModelUses, FrameUses)
           f3 == With(TextureUses, f2)
           f4 == With(PipelineUses, f3)
           f5 == With(ChainUses, f4)
<1>1. Ranked(f2) /\ DOMAIN f2 = DOMAIN ModelUses \union DOMAIN FrameUses
  BY RankedTables, RankedUnion
<1> HIDE DEF f2
<1>2. Ranked(f3) /\ DOMAIN f3 = DOMAIN TextureUses \union DOMAIN f2
  BY <1>1, RankedTables, RankedUnion
<1> HIDE DEF f3
<1>3. Ranked(f4) /\ DOMAIN f4 = DOMAIN PipelineUses \union DOMAIN f3
  BY <1>2, RankedTables, RankedUnion
<1> HIDE DEF f4
<1>4. Ranked(f5) /\ DOMAIN f5 = DOMAIN ChainUses \union DOMAIN f4
  BY <1>3, RankedTables, RankedUnion
<1> HIDE DEF f5
<1>5. Uses = With(PlatformUses, f5)
  BY DEF Uses, f5, f4, f3, f2
<1>6. Ranked(Uses) /\ DOMAIN Uses = DOMAIN PlatformUses \union DOMAIN f5
  BY <1>4, <1>5, RankedTables, RankedUnion
<1>7. DOMAIN Uses = DOMAIN PlatformUses \union DOMAIN ChainUses \union DOMAIN PipelineUses
                     \union DOMAIN TextureUses \union DOMAIN ModelUses \union DOMAIN FrameUses
  BY <1>1, <1>2, <1>3, <1>4, <1>6
<1>8. /\ DOMAIN PlatformUses = {"instance", "callback", "surface", "physDevice", "device"}
      /\ DOMAIN ChainUses = {"swapchain", "imageViews", "renderPass"}
      /\ DOMAIN PipelineUses = {"setLayout", "pipeline", "framebuffers", "commandPool", "depth"}
      /\ DOMAIN TextureUses = {"texture", "textureView", "sampler"}
      /\ DOMAIN ModelUses = {"model", "vertexBuffer", "indexBuffer", "uniformBuffer"}
      /\ DOMAIN FrameUses = {"descriptorPool", "descriptorSet", "commandBuffers", "sync"}
  BY DEF PlatformUses, ChainUses, PipelineUses, TextureUses, ModelUses, FrameUses
<1> QED
  BY <1>6, <1>7, <1>8 DEF Part, PartName

LEMMA InitializeRanked ==
    /\ DOMAIN InitializeSteps = 1..24
    /\ \A k \in 1..24 : Rank[InitializeSteps[k]] = k
    /\ \A x \in PartName : Rank[x] \in 1..24 /\ InitializeSteps[Rank[x]] = x
<1>1. DOMAIN InitializeSteps = 1..24
  BY DEF InitializeSteps
<1>2. \A k \in 1..24 : Rank[InitializeSteps[k]] = k
  BY DEF InitializeSteps, Rank
<1>3. \A x \in PartName : Rank[x] \in 1..24 /\ InitializeSteps[Rank[x]] = x
  BY DEF InitializeSteps, Rank, PartName
<1> QED
  BY <1>1, <1>2, <1>3

LEMMA RecreateRanked ==
    /\ DOMAIN RecreateSteps = 1..7
    /\ \A k \in 1..7 : RecreateSteps[k] \in Again
    /\ \A x \in Again : \E k \in 1..7 : RecreateSteps[k] = x
    /\ \A k, l \in 1..7 : k <= l <=> Rank[RecreateSteps[k]] <= Rank[RecreateSteps[l]]
<1>1. DOMAIN RecreateSteps = 1..7
  BY DEF RecreateSteps
<1>2. \A k \in 1..7 : RecreateSteps[k] \in Again
  BY DEF RecreateSteps, Again
<1>3. \A x \in Again : \E k \in 1..7 : RecreateSteps[k] = x
  <2>1. /\ RecreateSteps[1] = "swapchain" /\ RecreateSteps[2] = "imageViews"
        /\ RecreateSteps[3] = "renderPass" /\ RecreateSteps[4] = "pipeline"
        /\ RecreateSteps[5] = "depth" /\ RecreateSteps[6] = "framebuffers"
        /\ RecreateSteps[7] = "commandBuffers"
    BY DEF RecreateSteps
  <2> QED
    BY <2>1 DEF Again
<1>4. \A k, l \in 1..7 : k <= l <=> Rank[RecreateSteps[k]] <= Rank[RecreateSteps[l]]
  BY DEF RecreateSteps, Rank
<1> QED
  BY <1>1, <1>2, <1>3, <1>4

-----------------------------------------------------------------------------
(* The list s of objects still to make can be worked off, when m is made and st of it stale:  *)
(* it has what is missing and what is stale; behind an object it has all that was made from   *)
(* it; and what an object is made from is current, or made before it.                         *)
Lacking(s, m)   == \A x \in PartName \ {"callback"} : x \in m \/ \E k \in DOMAIN s : s[k] = x
Renewing(s, st) == \A x \in st : \E k \in DOMAIN s : s[k] = x
Following(s, m) ==
    \A k \in DOMAIN s : \A x \in m : s[k] \in Uses[x] => \E l \in DOMAIN s : k < l /\ s[l] = x
InOrder(s)      == \A k, l \in DOMAIN s : k <= l => s[l] \notin Uses[s[k]]
Supplied(s, m, st) ==
    \A k \in DOMAIN s : \A u \in Uses[s[k]] :
        u \in m \ st \/ \E l \in DOMAIN s : l < k /\ s[l] = u
Plan(s, m, st) ==
    Lacking(s, m) /\ Renewing(s, st) /\ Following(s, m) /\ InOrder(s) /\ Supplied(s, m, st)

LEMMA TailOfPlan ==
    ASSUME NEW s \in Seq(PartName), s # << >>
    PROVE  /\ Tail(s) \in Seq(PartName) /\ Head(s) = s[1] /\ Head(s) \in PartName
           /\ 1 \in DOMAIN s /\ DOMAIN s \subseteq Nat \ {0} /\ DOMAIN Tail(s) \subseteq Nat
           /\ \A k \in DOMAIN Tail(s) : k + 1 \in DOMAIN s /\ Tail(s)[k] = s[k + 1]
           /\ \A k \in DOMAIN s : k = 1 \/ (k - 1 \in DOMAIN Tail(s) /\ Tail(s)[k - 1] = s[k])
<1>1. Len(s) \in Nat /\ Len(s) # 0 /\ DOMAIN s = 1..Len(s)
  BY EmptySeq, LenProperties
<1>2. /\ Head(s) = s[1] /\ Head(s) \in PartName /\ Tail(s) \in Seq(PartName)
      /\ Len(Tail(s)) = Len(s) - 1 /\ \A k \in 1..(Len(s) - 1) : Tail(s)[k] = s[k + 1]
  BY HeadTailProperties
<1>3. DOMAIN Tail(s) = 1..(Len(s) - 1)
  BY <1>2, LenProperties
<1> QED
  BY <1>1, <1>2, <1>3

(* Every creation leaves a plan for the rest. *)
LEMMA PlanCreated ==
    ASSUME NEW s \in Seq(PartName), s # << >>, NEW m, NEW st, Plan(s, m, st)
    PROVE  Plan(Tail(s), m \union {Head(s)},
                (st \ {Head(s)}) \union {x \in m : Head(s) \in Uses[x]})
<1> DEFINE r  == Tail(s)
           o  == Head(s)
           n  == m \union {o}
           sn == (st \ {o}) \union {x \in m : o \in Uses[x]}
<1>1. /\ o = s[1] /\ 1 \in DOMAIN s /\ DOMAIN s \subseteq Nat \ {0} /\ DOMAIN r \subseteq Nat
      /\ \A k \in DOMAIN r : k + 1 \in DOMAIN s /\ r[k] = s[k + 1]
      /\ \A k \in DOMAIN s : k = 1 \/ (k - 1 \in DOMAIN r /\ r[k - 1] = s[k])
  BY TailOfPlan
<1>2. Lacking(s, m) /\ Renewing(s, st) /\ Following(s, m) /\ InOrder(s) /\ Supplied(s, m, st)
  BY DEF Plan
<1> HIDE DEF r, o
<1>3. \A x \in m : o \in Uses[x] => \E l \in DOMAIN s : 1 < l /\ s[l] = x
  BY <1>1, <1>2 DEF Following
<1>4. Lacking(r, n)
  BY <1>1, <1>2 DEF Lacking
<1>5. Renewing(r, sn)
  <2> SUFFICES ASSUME NEW x \in sn PROVE \E k \in DOMAIN r : r[k] = x
    BY DEF Renewing
  <2>1. PICK l \in DOMAIN s : l # 1 /\ s[l] = x
    <3>1. CASE x \in st /\ x # o
      BY <1>1, <1>2, <3>1 DEF Renewing
    <3>2. CASE x \in m /\ o \in Uses[x]
      BY <1>1, <1>3, <3>2
    <3> QED
      BY <3>1, <3>2
  <2> QED
    BY <1>1, <2>1
<1>6. Following(r, n)
  <2> SUFFICES ASSUME NEW k \in DOMAIN r, NEW x \in n, r[k] \in Uses[x]
               PROVE  \E l \in DOMAIN r : k < l /\ r[l] = x
    BY DEF Following
  <2>1. k + 1 \in DOMAIN s /\ s[k + 1] \in Uses[x] /\ 1 <= k + 1 /\ k \in Nat
    BY <1>1
  <2>2. x \in m
    BY <1>1, <1>2, <2>1 DEF InOrder
  <2>3. PICK l \in DOMAIN s : k + 1 < l /\ s[l] = x
    BY <1>2, <2>1, <2>2 DEF Following
  <2>4. l - 1 \in DOMAIN r /\ k < l - 1 /\ r[l - 1] = x
    BY <1>1, <2>1, <2>3
  <2> QED
    BY <2>4
<1>7. InOrder(r)
  <2> SUFFICES ASSUME NEW k \in DOMAIN r, NEW l \in DOMAIN r, k <= l PROVE r[l] \notin Uses[r[k]]
    BY DEF InOrder
  <2>1. k + 1 \in DOMAIN s /\ l + 1 \in DOMAIN s /\ k + 1 <= l + 1
    BY <1>1
  <2> QED
    BY <1>1, <1>2, <2>1 DEF InOrder
<1>8. Supplied(r, n, sn)
  <2> SUFFICES ASSUME NEW k \in DOMAIN r, NEW u \in Uses[r[k]]
               PROVE  u \in n \ sn \/ \E l \in DOMAIN r : l < k /\ r[l] = u
    BY DEF Supplied
  <2>1. k + 1 \in DOMAIN s /\ u \in Uses[s[k + 1]] /\ k \in Nat
    BY <1>1
  <2>2. ASSUME NEW l \in DOMAIN s, 1 < l, s[l] = u PROVE \E j \in DOMAIN r : j < k /\ r[j] = u
    <3>1. ~(k + 1 <= l)
      BY <1>2, <2>1, <2>2 DEF InOrder
    <3>2. l - 1 \in DOMAIN r /\ l - 1 < k /\ r[l - 1] = u
      BY <1>1, <2>1, <2>2, <3>1
    <3> QED
      BY <3>2
  <2>3. CASE u \in m \ st
    <3>1. CASE o \in Uses[u]
      BY <1>3, <2>2, <2>3, <3>1
    <3>2. CASE o \notin Uses[u]
      BY <2>3, <3>2
    <3> QED
      BY <3>1, <3>2
  <2>4. ASSUME NEW l \in DOMAIN s, l < k + 1, s[l] = u
        PROVE  u \in n \ sn \/ \E j \in DOMAIN r : j < k /\ r[j] = u
    <3>1. CASE l = 1
      <4>1. u = o /\ o \notin Uses[o]
        BY <1>1, <1>2, <2>4, <3>1 DEF InOrder
      <4> QED
        BY <4>1
    <3>2. CASE 1 < l
      BY <2>2, <2>4, <3>2
    <3> QED
      BY SMTT(30), <1>1, <3>1, <3>2
  <2> QED
    BY <1>2, <2>1, <2>3, <2>4 DEF Supplied
<1> QED
  BY <1>4, <1>5, <1>6, <1>7, <1>8 DEF Plan, r, o

(* Without the validation layers the debug callback is passed over. *)
LEMMA PlanPassed ==
    ASSUME NEW s \in Seq(PartName), s # << >>, Head(s) = "callback",
           NEW m, NEW st, "callback" \notin st, Plan(s, m, st)
    PROVE  Plan(Tail(s), m, st)
<1> DEFINE r == Tail(s)
<1>1. /\ s[1] = "callback" /\ 1 \in DOMAIN s /\ DOMAIN s \subseteq Nat \ {0} /\ DOMAIN r \subseteq Nat
      /\ \A k \in DOMAIN r : k + 1 \in DOMAIN s /\ r[k] = s[k + 1]
      /\ \A k \in DOMAIN s : k = 1 \/ (k - 1 \in DOMAIN r /\ r[k - 1] = s[k])
  BY TailOfPlan
<1>2. Lacking(s, m) /\ Renewing(s, st) /\ Following(s, m) /\ InOrder(s) /\ Supplied(s, m, st)
  BY DEF Plan
<1>3. \A k \in DOMAIN s : "callback" \notin Uses[s[k]]
  <2>1. \A k \in DOMAIN s : s[k] \in DOMAIN Uses
    BY UsesRanked, ElementOfSeq, LenProperties DEF Part
  <2> QED
    BY <2>1, UsesRanked DEF Ranked
<1> HIDE DEF r
<1>4. Lacking(r, m)
  BY ZenonT(30), <1>1, <1>2 DEF Lacking
<1>5. Renewing(r, st)
  BY <1>1, <1>2 DEF Renewing
<1>6. Following(r, m)
  <2> SUFFICES ASSUME NEW k \in DOMAIN r, NEW x \in m, r[k] \in Uses[x]
               PROVE  \E l \in DOMAIN r : k < l /\ r[l] = x
    BY DEF Following
  <2>1. k + 1 \in DOMAIN s /\ s[k + 1] \in Uses[x] /\ k \in Nat
    BY <1>1
  <2>2. PICK l \in DOMAIN s : k + 1 < l /\ s[l] = x
    BY <1>2, <2>1 DEF Following
  <2>3. l - 1 \in DOMAIN r /\ k < l - 1 /\ r[l - 1] = x
    BY <1>1, <2>1, <2>2
  <2> QED
    BY <2>3
<1>7. InOrder(r)
  <2> SUFFICES ASSUME NEW k \in DOMAIN r, NEW l \in DOMAIN r, k <= l PROVE r[l] \notin Uses[r[k]]
    BY DEF InOrder
  <2>1. k + 1 \in DOMAIN s /\ l + 1 \in DOMAIN s /\ k + 1 <= l + 1
    BY <1>1
  <2> QED
    BY <1>1, <1>2, <2>1 DEF InOrder
<1>8. Supplied(r, m, st)
  <2> SUFFICES ASSUME NEW k \in DOMAIN r, NEW u \in Uses[r[k]], u \notin m \ st
               PROVE  \E l \in DOMAIN r : l < k /\ r[l] = u
    BY DEF Supplied
  <2>1. k + 1 \in DOMAIN s /\ u \in Uses[s[k + 1]] /\ k \in Nat
    BY <1>1
  <2>2. PICK l \in DOMAIN s : l < k + 1 /\ s[l] = u
    BY <1>2, <2>1 DEF Supplied
  <2>3. l # 1
    BY <1>1, <1>3, <2>1, <2>2
  <2>4. l - 1 \in DOMAIN r /\ l - 1 < k /\ r[l - 1] = u
    BY <1>1, <2>1, <2>2, <2>3
  <2> QED
    BY <2>4
<1> QED
  BY <1>4, <1>5, <1>6, <1>7, <1>8 DEF Plan, r

LEMMA PlanInitialize == Plan(InitializeSteps, {}, {})
<1> DEFINE s == InitializeSteps
<1>1. /\ DOMAIN s = 1..24 /\ \A k \in 1..24 : Rank[s[k]] = k
      /\ \A x \in PartName : Rank[x] \in 1..24 /\ s[Rank[x]] = x
  BY InitializeRanked
<1>2. s \in Seq(PartName)
  BY StepLists
<1>3. \A k \in 1..24 : s[k] \in PartName
  BY <1>1, <1>2, ElementOfSeq, LenProperties
<1> HIDE DEF s
<1>4. \A k \in 1..24 : \A u \in Uses[s[k]] : u \in PartName /\ Rank[u] < k
  BY <1>1, <1>3, UsesRanked DEF Ranked, Part
<1>5. Lacking(s, {}) /\ Renewing(s, {}) /\ Following(s, {})
  BY <1>1 DEF Lacking, Renewing, Following
<1>6. InOrder(s)
  <2> SUFFICES ASSUME NEW k \in 1..24, NEW l \in 1..24, k <= l, s[l] \in Uses[s[k]] PROVE FALSE
    BY <1>1 DEF InOrder
  <2>1. l < k
    BY <1>1, <1>4
  <2> QED
    BY <2>1
<1>7. Supplied(s, {}, {})
  <2> SUFFICES ASSUME NEW k \in 1..24, NEW u \in Uses[s[k]] PROVE \E l \in 1..24 : l < k /\ s[l] = u
    BY <1>1 DEF Supplied
  <2> QED
    BY <1>1, <1>4
<1> QED
  BY <1>5, <1>6, <1>7 DEF Plan, s

LEMMA PlanRecreate ==
    ASSUME NEW m \in SUBSET PartName, PartName \ {"callback"} \subseteq m
    PROVE  Plan(RecreateSteps, m, {})
<1> DEFINE s == RecreateSteps
<1>1. /\ DOMAIN s = 1..7 /\ \A k \in 1..7 : s[k] \in Again
      /\ \A x \in Again : \E k \in 1..7 : s[k] = x
      /\ \A k, l \in 1..7 : k <= l <=> Rank[s[k]] <= Rank[s[l]]
  BY RecreateRanked
<1>2. Again \subseteq PartName
  BY DEF Again, PartName
<1>3. \A x \in PartName : \A u \in Uses[x] :
          u \in PartName \ {"callback"} /\ Rank[u] < Rank[x] /\ (u \in Again => x \in Again)
  BY UsesRanked DEF Ranked, Part
<1>4. \A x \in PartName : Rank[x] \in 1..24
  BY InitializeRanked
<1> HIDE DEF s
<1>5. Lacking(s, m) /\ Renewing(s, {})
  BY DEF Lacking, Renewing
<1>6. Following(s, m)
  <2> SUFFICES ASSUME NEW k \in 1..7, NEW x \in m, s[k] \in Uses[x]
               PROVE  \E l \in 1..7 : k < l /\ s[l] = x
    BY <1>1 DEF Following
  <2>1. x \in Again /\ Rank[s[k]] < Rank[x]
    BY <1>1, <1>3
  <2>2. PICK l \in 1..7 : s[l] = x
    BY <1>1, <2>1
  <2>3. ~(l <= k)
    <3>1. Rank[s[k]] \in Nat /\ Rank[s[l]] \in Nat
      BY <1>1, <1>2, <1>4
    <3> QED
      BY <1>1, <2>1, <2>2, <3>1
  <2> QED
    BY <2>2, <2>3
<1>7. InOrder(s)
  <2> SUFFICES ASSUME NEW k \in 1..7, NEW l \in 1..7, k <= l, s[l] \in Uses[s[k]] PROVE FALSE
    BY <1>1 DEF InOrder
  <2>1. Rank[s[l]] < Rank[s[k]] /\ Rank[s[k]] <= Rank[s[l]]
    BY <1>1, <1>2, <1>3
  <2>2. Rank[s[k]] \in Nat /\ Rank[s[l]] \in Nat
    BY <1>1, <1>2, <1>4
  <2> QED
    BY <2>1, <2>2
<1>8. Supplied(s, m, {})
  <2> SUFFICES ASSUME NEW k \in 1..7, NEW u \in Uses[s[k]] PROVE u \in m
    BY <1>1 DEF Supplied
  <2> QED
    BY <1>1, <1>2, <1>3
<1> QED
  BY <1>5, <1>6, <1>7, <1>8 DEF Plan, s

(* A plan that has been worked off has made everything, and left nothing stale. *)
AllThere(m, st) == st = {} /\ PartName \ {"callback"} \subseteq m

LEMMA PlanDone == ASSUME NEW m, NEW st, Plan(<< >>, m, st) PROVE AllThere(m, st)
<1>1. DOMAIN << >> = {}
  BY EmptySeq
<1> QED
  BY <1>1 DEF Plan, Lacking, Renewing, AllThere

-----------------------------------------------------------------------------
(* While objects are made there is a plan for the rest; otherwise, until the objects are      *)
(* destroyed, all are there and current; while they are destroyed nothing is drawn.           *)
Working == {"recreate", "test", "poll", "wait", "update", "acquire", "fence", "submit", "present",
            "final"}

Objects ==
    /\ made \subseteq PartName /\ stale \subseteq made
    /\ debug \/ "callback" \notin made
    /\ pc = "create" => steps \in Seq(PartName) /\ Plan(steps, made, stale)
    /\ pc \in Working => AllThere(made, stale)
    /\ gfx # << >> => AllThere(made, stale)
    /\ pc = "terminate" => AllThere(made, stale)
    /\ pc \in {"terminate", "destroy"} => gfx = << >> /\ stale = {}

LEMMA ObjectsInit == ASSUME Init PROVE Objects
<1>1. /\ made = {} /\ stale = {} /\ pc = "create" /\ steps = InitializeSteps /\ gfx = << >>
  BY DEF Init
<1> QED
  BY <1>1, StepLists, PlanInitialize DEF Objects, Working

LEMMA ObjectsStep == ASSUME FrameInv, Objects, [Next]_vars PROVE Objects'
<1> USE DEF Objects
<1>0. /\ pc = "create" => gfx = << >> /\ steps \in Seq(PartName)
      /\ back \in {"test", "poll", "wait"}
      /\ gfx \in Seq(Operation)
  BY DEF FrameInv, Queueing, Holding, Quiet, Choosing
<1>1. CASE /\ UNCHANGED <<made, stale, debug>>
           /\ gfx' = gfx \/ gfx # << >> \/ pc \in Working
           /\ \/ pc' = pc /\ steps' = steps
              \/ pc \in Working /\ pc' \in Working
              \/ pc' \in {"over", "dead"}
  BY <1>0, <1>1 DEF Working
<1>2. ASSUME NEW o \in PartName, At(o), Created(o), UNCHANGED <<pc, debug, gfx>>,
             debug \/ o # "callback"
      PROVE  Objects'
  <2>1. /\ pc = "create" /\ steps # << >> /\ Head(steps) = o /\ made' = made \union {o}
        /\ stale' = (stale \ {o}) \union {x \in made : o \in Uses[x]} /\ steps' = Tail(steps)
    BY <1>2 DEF At, Created
  <2>2. Plan(steps', made', stale')
    BY <1>0, <2>1, PlanCreated
  <2>3. steps' \in Seq(PartName)
    BY <1>0, <2>1, TailOfPlan
  <2> QED
    BY <1>0, <1>2, <2>1, <2>2, <2>3 DEF Working
<1>3. ASSUME NEW o \in Part, Create(o) PROVE Objects'
  <2>1. o \in PartName /\ At(o) /\ UNCHANGED <<pc, debug, gfx>>
    BY <1>3, UsesRanked DEF Create
  <2>2. CASE debug \/ o # "callback"
    <3>1. Created(o)
      BY <1>3, <2>2 DEF Create
    <3> QED
      BY <1>2, <2>1, <2>2, <3>1
  <2>3. CASE ~(debug \/ o # "callback")
    <3>1. /\ pc = "create" /\ steps # << >> /\ Head(steps) = "callback" /\ steps' = Tail(steps)
          /\ UNCHANGED <<made, stale>> /\ "callback" \notin stale
      BY <1>3, <2>3 DEF Create, At
    <3>2. Plan(steps', made', stale') /\ steps' \in Seq(PartName)
      BY <1>0, <3>1, PlanPassed, TailOfPlan
    <3> QED
      BY <1>0, <2>1, <3>1, <3>2 DEF Working
  <2> QED
    BY <2>2, <2>3
<1>4. CASE GetPhysDevice \/ CreateSwapChain
  <2>1. "physDevice" \in PartName /\ "swapchain" \in PartName
    BY DEF PartName
  <2> QED
    BY <1>2, <1>4, <2>1 DEF GetPhysDevice, CreateSwapChain
<1>5. CASE AllCreated
  <2>1. pc = "create" /\ steps = << >> /\ pc' = back /\ UNCHANGED <<made, stale, debug, gfx>>
    BY <1>5 DEF AllCreated
  <2>2. AllThere(made, stale)
    BY <2>1, PlanDone
  <2> QED
    BY <1>0, <2>1, <2>2 DEF Working
<1>6. CASE WaitIdle
  <2>1. /\ pc = "recreate" /\ pc' = "create" /\ steps' = RecreateSteps
        /\ UNCHANGED <<made, stale, debug, gfx>>
    BY <1>6 DEF WaitIdle
  <2>2. Plan(RecreateSteps, made, stale) /\ AllThere(made, stale)
    BY <2>1, PlanRecreate DEF AllThere, Working
  <2> QED
    BY <2>1, <2>2, StepLists DEF Working
<1>7. CASE Failures \/ Looping
  BY <1>1, <1>7 DEF Failures, CreateFails, CallFails, Looping, LoopTest, PollReturns, UpdateUniformBuffer,
                    Working
<1>8. CASE DrawFrame
  BY <1>0, <1>1, <1>8 DEF DrawFrame, Acquire, AcquireOutOfDate, GoRecreate, WaitForFence, Submit,
                          PresentFits, PresentMisfit, Presented, Working
<1>9. CASE Leaving
  <2>1. CASE LeaveLoop \/ GlfwTerminate
    BY <2>1 DEF LeaveLoop, GlfwTerminate, Quiet, AllThere, Working
  <2>2. CASE DestroyMember \/ LeaveMember
    BY <2>2 DEF DestroyMember, LeaveMember, Working
  <2>3. CASE Destroyed
    BY <1>1, <2>3 DEF Destroyed
  <2> QED
    BY <1>9, <2>1, <2>2, <2>3 DEF Leaving
<1>10. CASE Processor \/ Engine \/ Rest \/ UNCHANGED vars
  BY <1>1, <1>10 DEF Processor, Engine, Rest, FinishDraw, ExecutePresent, Outside, Show, StopReading,
                     SignalFence, vars
<1>11. CASE User
  BY <1>1, <1>11 DEF User, FocusLost, FocusGained, Minimised, Refresh, CloseAsked, EnterPressed, Resize,
                     Dispatching, Elsewhere, Stays, GoRecreate, Working
<1> QED
  BY <1>3, <1>4, <1>5, <1>6, <1>7, <1>8, <1>9, <1>10, <1>11 DEF Next, Program, Creating

LEMMA ObjectsInvariant == Spec => []Objects
BY ObjectsInit, ObjectsStep, FrameInvariant, PTL DEF Spec

LEMMA ObjectsBuilt == ASSUME Objects PROVE BuiltFromCurrent
<1> SUFFICES ASSUME pc = "create", steps # << >>, NEW u \in Uses[Head(steps)]
             PROVE  u \in made \ stale
  BY DEF BuiltFromCurrent
<1>1. steps \in Seq(PartName) /\ Supplied(steps, made, stale)
  BY DEF Objects, Plan
<1>2. Head(steps) = steps[1] /\ 1 \in DOMAIN steps /\ \A l \in DOMAIN steps : ~(l < 1)
  <2>1. Head(steps) = steps[1] /\ 1 \in DOMAIN steps /\ DOMAIN steps \subseteq Nat \ {0}
    BY <1>1, TailOfPlan
  <2> QED
    BY <2>1
<1> QED
  BY <1>1, <1>2 DEF Supplied

(* At the start, and each time the swap chain is made again, whatever it was made again for,  *)
(* a create function finds what it reads made, and nothing of it left from before.            *)
THEOREM FrameBuiltFromCurrent == Spec => []BuiltFromCurrent
BY ObjectsBuilt, ObjectsInvariant, PTL

(* No draw is queued or running while an object it uses is missing or outdated: neither a     *)
(* refresh in the middle of polling, nor a surface out of date, nor the end of the program    *)
(* takes them away.                                                                           *)
THEOREM FrameDrawsUseCurrent == Spec => []DrawsUseCurrent
<1>1. Objects => DrawsUseCurrent
  <2> SUFFICES ASSUME Objects, NEW k \in DOMAIN gfx PROVE AllThere(made, stale)
    BY UsesRanked DEF DrawsUseCurrent, AllThere
  <2>1. gfx # << >>
    BY EmptySeq
  <2> QED
    BY <2>1 DEF Objects
<1> QED
  BY <1>1, ObjectsInvariant, PTL

-----------------------------------------------------------------------------
(* One queue holds draws and presents in turn. The semaphore is signalled exactly when the    *)
(* next to be done is a present, be it queued or about to be called.                          *)
InTurn(q)     == \A k, l \in DOMAIN q : l = k + 1 => q[k].kind # q[l].kind
Due(q, s)     == q # << >> => (q[1].kind = "present" <=> s = TRUE)
Ending(q, p)  == q # << >> => (q[Len(q)].kind = "draw" <=> p = "present")
Emptied(q, s, p) == q = << >> => (s = TRUE <=> p = "present")

Turns ==
    Shared => /\ InTurn(gfx) /\ Due(gfx, semaphore)
              /\ ~Ended => Ending(gfx, pc) /\ Emptied(gfx, semaphore, pc)

Chosen == "physDevice" \in made => adapter = FirstSuitable(list)

LEMMA TurnAppended ==
    ASSUME NEW q \in Seq(Operation), NEW op \in Operation, NEW s, NEW p, NEW pn,
           InTurn(q), Due(q, s), Ending(q, p), Emptied(q, s, p),
           op.kind = "present" <=> p = "present",
           op.kind = "draw" <=> pn = "present"
    PROVE  LET r == Append(q, op)
           IN  InTurn(r) /\ Due(r, s) /\ Ending(r, pn) /\ Emptied(r, s, pn)
<1> DEFINE r == Append(q, op)
<1>1. /\ Len(q) \in Nat /\ DOMAIN q = 1..Len(q) /\ DOMAIN r = 1..(Len(q) + 1) /\ Len(r) = Len(q) + 1
      /\ (\A k \in 1..Len(q) : r[k] = q[k]) /\ r[Len(q) + 1] = op
  BY Appended
<1>2. op.kind \in {"draw", "present"} /\ \A k \in 1..Len(q) : q[k].kind \in {"draw", "present"}
  <2>1. \A k \in 1..Len(q) : q[k] \in Operation
    BY <1>1, ElementOfSeq
  <2> QED
    BY <2>1 DEF Operation
<1>3. q = << >> <=> Len(q) = 0
  BY EmptySeq
<1>4. r # << >>
  BY <1>1, EmptySeq
<1> HIDE DEF r
<1>5. InTurn(r)
  <2> SUFFICES ASSUME NEW k \in DOMAIN r, NEW l \in DOMAIN r, l = k + 1 PROVE r[k].kind # r[l].kind
    BY DEF InTurn
  <2>1. CASE l \in 1..Len(q)
    <3>1. k \in 1..Len(q) /\ r[k] = q[k] /\ r[l] = q[l]
      BY <1>1, <2>1
    <3> QED
      BY <1>1, <2>1, <3>1 DEF InTurn
  <2>2. CASE l = Len(q) + 1
    <3>1. k = Len(q) /\ Len(q) # 0 /\ r[k] = q[Len(q)] /\ r[l] = op
      BY <1>1, <2>2
    <3>2. q[Len(q)].kind = "draw" <=> p = "present"
      BY <1>3, <3>1 DEF Ending
    <3> QED
      BY <1>2, <3>1, <3>2
  <2> QED
    BY <1>1, <2>1, <2>2
<1>6. Due(r, s)
  <2>1. CASE Len(q) = 0
    BY <1>1, <1>3, <2>1 DEF Due, Emptied
  <2>2. CASE Len(q) # 0
    BY <1>1, <1>3, <2>2 DEF Due
  <2> QED
    BY <2>1, <2>2
<1>7. Ending(r, pn) /\ Emptied(r, s, pn)
  BY <1>1, <1>4 DEF Ending, Emptied
<1> QED
  BY <1>5, <1>6, <1>7 DEF r

LEMMA TurnTaken ==
    ASSUME NEW q \in Seq(Operation), q # << >>, NEW s, NEW sn, NEW p,
           InTurn(q), Ending(q, p),
           sn = TRUE <=> q[1].kind = "draw"
    PROVE  InTurn(Tail(q)) /\ Due(Tail(q), sn) /\ Ending(Tail(q), p) /\ Emptied(Tail(q), sn, p)
<1> DEFINE r == Tail(q)
<1>1. /\ Len(q) \in Nat \ {0} /\ DOMAIN q = 1..Len(q) /\ DOMAIN r = 1..(Len(q) - 1)
      /\ Len(r) = Len(q) - 1 /\ \A k \in 1..(Len(q) - 1) : r[k] = q[k + 1]
  BY Dropped
<1>2. \A k \in 1..Len(q) : q[k].kind \in {"draw", "present"}
  <2>1. \A k \in 1..Len(q) : q[k] \in Operation
    BY <1>1, ElementOfSeq
  <2> QED
    BY <2>1 DEF Operation
<1>3. r = << >> <=> Len(q) = 1
  <2>1. r \in Seq(Operation)
    BY Dropped
  <2> HIDE DEF r
  <2>2. r = << >> <=> Len(r) = 0
    BY <2>1, EmptySeq
  <2> QED
    BY <1>1, <2>2
<1>4. q[Len(q)].kind = "draw" <=> p = "present"
  BY DEF Ending
<1> HIDE DEF r
<1>5. InTurn(r)
  <2> SUFFICES ASSUME NEW k \in DOMAIN r, NEW l \in DOMAIN r, l = k + 1 PROVE r[k].kind # r[l].kind
    BY DEF InTurn
  <2>1. /\ k + 1 \in DOMAIN q /\ l + 1 \in DOMAIN q /\ l + 1 = (k + 1) + 1
        /\ r[k] = q[k + 1] /\ r[l] = q[l + 1]
    BY <1>1
  <2> QED
    BY <2>1 DEF InTurn
<1>6. Due(r, sn)
  <2>1. ASSUME r # << >> PROVE r[1].kind = "present" <=> sn = TRUE
    <3>1. Len(q) # 1
      BY <1>3, <2>1
    <3>2. 1 \in DOMAIN q /\ 2 \in DOMAIN q /\ r[1] = q[2]
      BY <1>1, <3>1
    <3>3. q[1].kind # q[2].kind
      <4>1. 2 = 1 + 1
        OBVIOUS
      <4>2. \A k, l \in DOMAIN q : l = k + 1 => q[k].kind # q[l].kind
        BY DEF InTurn
      <4> QED
        BY ONLY <3>2, <4>1, <4>2
    <3>4. q[1].kind \in {"draw", "present"} /\ q[2].kind \in {"draw", "present"}
      BY <1>1, <1>2, <3>2
    <3> QED
      BY <3>2, <3>3, <3>4
  <2> QED
    BY <2>1 DEF Due
<1>7. Ending(r, p)
  <2>1. ASSUME r # << >> PROVE r[Len(r)] = q[Len(q)]
    <3>1. Len(q) # 1
      BY <1>3, <2>1
    <3> QED
      BY <1>1, <3>1
  <2> QED
    BY <1>4, <2>1 DEF Ending
<1>8. Emptied(r, sn, p)
  BY <1>3, <1>4 DEF Emptied
<1> QED
  BY <1>5, <1>6, <1>7, <1>8 DEF r

LEMMA TurnsStep == ASSUME FrameInv, Turns, [Next]_vars PROVE Turns'
<1> USE DEF Turns
<1>0. /\ gfx \in Seq(Operation)
      /\ pc = "create" => gfx = << >>
      /\ back \in {"test", "poll", "wait"}
      /\ pc \in {"fence", "submit", "present"} => held \in Image
  BY DEF FrameInv, Queueing, Holding, Quiet
<1>1. CASE /\ UNCHANGED <<gfx, semaphore, adapter, list>>
           /\ \/ pc' = pc \/ pc' \in {"over", "dead"}
              \/ pc \notin {"present", "over", "dead"} /\ pc' \notin {"present", "over", "dead"}
  <2>1. Shared' = Shared
    BY <1>1, SharedKept
  <2> QED
    BY <1>1, <2>1 DEF Ended, Ending, Emptied
<1>2. CASE GetPhysDevice
  <2>1. /\ UNCHANGED <<pc, gfx, semaphore>> /\ pc = "create" /\ steps # << >>
        /\ Head(steps) = "physDevice"
    BY <1>2 DEF GetPhysDevice, At
  <2>2. semaphore = FALSE
    <3>1. steps \in Seq(PartName) /\ ((\E k \in DOMAIN steps : steps[k] = "physDevice") => ~semaphore)
      BY <2>1 DEF FrameInv, Choosing
    <3>2. 1 \in DOMAIN steps /\ steps[1] = "physDevice"
      BY <2>1, <3>1, TailOfPlan
    <3> QED
      BY <3>1, <3>2
  <2>3. gfx = << >> /\ DOMAIN << >> = {}
    BY <1>0, <2>1, EmptySeq
  <2> QED
    BY <2>1, <2>2, <2>3 DEF InTurn, Due, Ending, Emptied
<1>3. CASE Creating \/ WaitIdle \/ Looping \/ AcquireOutOfDate \/ WaitForFence
  <2>1. ASSUME NEW o \in Part, Create(o) PROVE Turns'
    BY <1>1, <2>1 DEF Create, At
  <2>2. CASE CreateSwapChain \/ AllCreated \/ WaitIdle \/ Looping
    BY <1>0, <1>1, <2>2 DEF CreateSwapChain, AllCreated, At, WaitIdle, Looping, LoopTest, PollReturns,
                            UpdateUniformBuffer
  <2>3. CASE AcquireOutOfDate \/ WaitForFence
    BY <1>1, <2>3 DEF AcquireOutOfDate, GoRecreate, WaitForFence
  <2> QED
    BY <1>2, <1>3, <2>1, <2>2, <2>3 DEF Creating
<1>4. CASE Failures \/ Leaving \/ \E i \in Image : Acquire(i)
  BY <1>1, <1>4 DEF Failures, CreateFails, CallFails, Leaving, LeaveLoop, GlfwTerminate, DestroyMember,
                    LeaveMember, Destroyed, Acquire
<1>5. CASE Submit
  <2>1. /\ pc = "submit" /\ pc' = "present" /\ gfx' = Append(gfx, DrawOf(held))
        /\ UNCHANGED <<semaphore, adapter, list>>
    BY <1>5 DEF Submit
  <2>2. Shared' = Shared /\ ~Ended
    BY <2>1, SharedKept DEF Ended
  <2>3. DrawOf(held) \in Operation /\ DrawOf(held).kind = "draw"
    BY <1>0, <2>1 DEF DrawOf, Operation
  <2>4. CASE Shared
    <3>1. InTurn(gfx) /\ Due(gfx, semaphore) /\ Ending(gfx, pc) /\ Emptied(gfx, semaphore, pc)
      BY <2>2, <2>4
    <3> QED
      BY <1>0, <2>1, <2>3, <3>1, TurnAppended
  <2> QED
    BY <2>2, <2>4
<1>6. CASE PresentFits \/ PresentMisfit
  <2>1. PICK ok \in BOOLEAN : pc = "present" /\ pc' \in {"test", "recreate"} /\ Presented(ok)
    BY <1>6 DEF PresentFits, PresentMisfit, GoRecreate
  <2>2. /\ UNCHANGED <<semaphore, adapter, list>>
        /\ Shared => gfx' = Append(gfx, PresentOf(held, ok))
    BY <2>1 DEF Presented
  <2>3. Shared' = Shared /\ ~Ended
    BY <2>1, <2>2, SharedKept DEF Ended
  <2>4. PresentOf(held, ok) \in Operation /\ PresentOf(held, ok).kind = "present"
    BY <1>0, <2>1 DEF PresentOf, Operation
  <2>5. CASE Shared
    <3>1. InTurn(gfx) /\ Due(gfx, semaphore) /\ Ending(gfx, pc) /\ Emptied(gfx, semaphore, pc)
      BY <2>3, <2>5
    <3> QED
      BY <1>0, <2>1, <2>2, <2>4, <2>5, <3>1, TurnAppended
  <2> QED
    BY <2>3, <2>5
<1>7. CASE FinishDraw
  <2>1. /\ ~Ended /\ gfx # << >> /\ Head(gfx).kind = "draw" /\ gfx' = Tail(gfx) /\ semaphore' = TRUE
        /\ UNCHANGED <<pc, adapter, list>>
    BY <1>7 DEF FinishDraw, Outside
  <2>2. Shared' = Shared /\ Head(gfx) = gfx[1]
    BY <1>0, <2>1, SharedKept, Dropped
  <2>3. CASE Shared
    <3>1. InTurn(gfx) /\ Ending(gfx, pc) /\ (semaphore' = TRUE <=> gfx[1].kind = "draw")
      BY <2>1, <2>2, <2>3
    <3>2. /\ InTurn(Tail(gfx)) /\ Due(Tail(gfx), semaphore') /\ Ending(Tail(gfx), pc)
          /\ Emptied(Tail(gfx), semaphore', pc)
      BY <1>0, <2>1, <3>1, TurnTaken
    <3> QED
      BY <2>1, <3>2
  <2> QED
    BY <2>2, <2>3
<1>8. CASE ExecutePresent
  <2>1. /\ ~Ended /\ semaphore' = FALSE /\ UNCHANGED <<pc, adapter, list>>
        /\ Shared => gfx # << >> /\ Head(gfx).kind = "present" /\ gfx' = Tail(gfx)
    BY <1>8 DEF ExecutePresent, Outside
  <2>2. Shared' = Shared
    BY <2>1, SharedKept
  <2>3. CASE Shared
    <3>1. InTurn(gfx) /\ Ending(gfx, pc) /\ (semaphore' = TRUE <=> gfx[1].kind = "draw")
      BY <1>0, <2>1, <2>3, Dropped
    <3>2. /\ InTurn(Tail(gfx)) /\ Due(Tail(gfx), semaphore') /\ Ending(Tail(gfx), pc)
          /\ Emptied(Tail(gfx), semaphore', pc)
      BY <1>0, <2>1, <2>3, <3>1, TurnTaken
    <3> QED
      BY <2>1, <2>3, <3>2
  <2> QED
    BY <2>2, <2>3
<1>9. CASE Engine \/ Rest \/ User \/ UNCHANGED vars
  BY <1>1, <1>9
     DEF Engine, Show, StopReading, SignalFence, Rest, Outside, vars,
         User, FocusLost, FocusGained, Minimised, Refresh, CloseAsked, EnterPressed, Resize, Dispatching,
         Elsewhere, Stays, GoRecreate
<1> QED
  BY <1>3, <1>4, <1>5, <1>6, <1>7, <1>8, <1>9 DEF Next, Program, Processor, DrawFrame

LEMMA ChosenStep == ASSUME Chosen, [Next]_vars PROVE Chosen'
<1> USE DEF Chosen
<1>1. CASE UNCHANGED <<adapter, list>> /\ ("physDevice" \in made' => "physDevice" \in made)
  BY <1>1
<1>2. CASE Creating
  <2>1. ASSUME NEW o \in Part, Create(o) PROVE Chosen'
    BY <1>1, <2>1 DEF Create, Created
  <2>2. CASE GetPhysDevice
    BY <2>2 DEF GetPhysDevice
  <2>3. CASE CreateSwapChain \/ AllCreated
    BY <1>1, <2>3 DEF CreateSwapChain, Created, AllCreated
  <2> QED
    BY <1>2, <2>1, <2>2, <2>3 DEF Creating
<1>3. CASE WaitIdle \/ Looping \/ Failures \/ Leaving
  BY <1>1, <1>3 DEF WaitIdle, Looping, LoopTest, PollReturns, UpdateUniformBuffer, Failures, CreateFails,
                    CallFails, Leaving, LeaveLoop, GlfwTerminate, DestroyMember,
                    LeaveMember, Destroyed
<1>4. CASE DrawFrame
  BY <1>1, <1>4 DEF DrawFrame, Acquire, AcquireOutOfDate, GoRecreate, WaitForFence, Submit,
                    PresentFits, PresentMisfit, Presented
<1>5. CASE Processor \/ Engine \/ Rest \/ UNCHANGED vars
  BY <1>1, <1>5 DEF Processor, Engine, Rest, FinishDraw, ExecutePresent, Outside, Show, StopReading,
                    SignalFence, vars
<1>6. CASE User
  BY <1>1, <1>6 DEF User, FocusLost, FocusGained, Minimised, Refresh, CloseAsked, EnterPressed, Resize,
                    Dispatching, Elsewhere, Stays, GoRecreate
<1> QED
  BY <1>2, <1>3, <1>4, <1>5, <1>6 DEF Next, Program

(* Whatever frames were cut short by a surface out of date: the fence is idle when it is      *)
(* handed to the next acquisition, and with one queue the one semaphore is enough, since no   *)
(* draw signals it before the present of the frame before has waited for it.                  *)
THEOREM FrameSignalsFit == Spec => []SignalsFit
<1>1. Init => Turns /\ Chosen
  <2>1. Init => gfx = << >> /\ semaphore = FALSE /\ pc = "create" /\ made = {}
    BY DEF Init
  <2>2. DOMAIN << >> = {}
    BY EmptySeq
  <2> QED
    BY <2>1, <2>2 DEF Turns, Chosen, InTurn, Due, Ending, Emptied
<1>2. FrameInv /\ Objects /\ Turns /\ Chosen => SignalsFit
  <2> SUFFICES ASSUME FrameInv, Objects, Turns, Chosen PROVE SignalsFit
    OBVIOUS
  <2>1. pc \in {"acquire", "recreate"} => fence = "idle"
    BY DEF FrameInv, Holding
  <2>2. ASSUME FirstSuitable(list) > 0, OneFamily(list[FirstSuitable(list)]), semaphore,
               gfx # << >>, Head(gfx).kind = "draw"
        PROVE  FALSE
    <3>1. "physDevice" \in made
      BY <2>2 DEF Objects, AllThere, PartName
    <3>2. Shared
      BY <2>2, <3>1 DEF Chosen, Shared
    <3>3. gfx[1].kind = "draw"
      BY <2>2, Dropped DEF FrameInv, Queueing
    <3> QED
      BY <2>2, <3>2, <3>3 DEF Turns, Due
  <2> QED
    BY <2>1, <2>2 DEF SignalsFit
<1>3. FrameInv /\ Turns /\ Chosen /\ [Next]_vars => Turns' /\ Chosen'
  BY TurnsStep, ChosenStep
<1> QED
  BY <1>1, <1>2, <1>3, FrameInvariant, ObjectsInvariant, PTL DEF Spec
-----------------------------------------------------------------------------
(* Which member an object goes with: its place among the data members. *)
MemberOf ==
    [instance |-> 1, physDevice |-> 1, callback |-> 2, surface |-> 3, device |-> 4,
     swapchain |-> 5, imageViews |-> 6, framebuffers |-> 7, renderPass |-> 8, setLayout |-> 9,
     pipeline |-> 10, commandPool |-> 11, depth |-> 12, texture |-> 13, textureView |-> 14,
     sampler |-> 15, vertexBuffer |-> 16, indexBuffer |-> 17, uniformBuffer |-> 18,
     descriptorPool |-> 19, descriptorSet |-> 19, commandBuffers |-> 20, sync |-> 21, model |-> 22]

LEMMA MembersGo ==
    /\ Members \in Seq(PartName) /\ Len(Members) = 22
    /\ \A o \in PartName : MemberOf[o] \in 1..22
    /\ \A o \in PartName, k \in 1..22 : o \in GoesWith(Members[k]) <=> MemberOf[o] = k
<1>1. Members \in Seq(PartName) /\ Len(Members) = 22
  BY DEF Members, PartName
<1>2. \A o \in PartName : MemberOf[o] \in 1..22
  BY DEF MemberOf, PartName
<1>3. ASSUME NEW o \in PartName, NEW k \in 1..22
      PROVE  o \in GoesWith(Members[k]) <=> MemberOf[o] = k
  <2>1. CASE k = 1
    BY <2>1 DEF GoesWith, Members, MemberOf, PartName
  <2>2. CASE k = 19
    BY <2>2 DEF GoesWith, Members, MemberOf, PartName
  <2>3. CASE k \in 2..18
    <3>1. GoesWith(Members[k]) = {Members[k]}
      BY <2>3 DEF GoesWith, Members
    <3> QED
      BY <2>3, <3>1 DEF Members, MemberOf, PartName
  <2>4. CASE k \in 20..22
    <3>1. GoesWith(Members[k]) = {Members[k]}
      BY <2>4 DEF GoesWith, Members
    <3> QED
      BY <2>4, <3>1 DEF Members, MemberOf, PartName
  <2> QED
    BY <2>1, <2>2, <2>3, <2>4
<1> QED
  BY <1>1, <1>2, <1>3

(* The parent of an object is declared before it. *)
LEMMA ParentsFirst ==
    \A o \in PartName : \A p \in Parent(o) :
        p \in PartName \ Outliving /\ MemberOf[p] <= MemberOf[o]
BY DEF Parent, MemberOf, PartName, Outliving

(* A table in which an object is made from its parent, or from what has the same parent (the  *)
(* device is made from the adapter and the surface, all three go with the instance).          *)
Parented(f) ==
    \A x \in DOMAIN f : \A p \in Parent(x) : p \in f[x] \/ \E u \in f[x] : p \in Parent(u)

LEMMA ParentedUnion ==
    ASSUME NEW f, NEW g, Parented(f), Parented(g) PROVE Parented(With(f, g))
BY DEF Parented, With

LEMMA ParentsUsed == Parented(Uses)
<1>1. Parented(PlatformUses)
  BY DEF Parented, PlatformUses, Parent
<1>2. Parented(ChainUses)
  BY DEF Parented, ChainUses, Helper, Parent
<1>3. Parented(PipelineUses)
  BY DEF Parented, PipelineUses, Helper, Parent
<1>4. Parented(TextureUses)
  BY DEF Parented, TextureUses, Helper, Parent
<1>5. Parented(ModelUses)
  BY DEF Parented, ModelUses, Helper, Parent
<1>6. Parented(FrameUses)
  BY DEF Parented, FrameUses, Parent
<1>7. Parented(With(TextureUses, With(ModelUses, FrameUses)))
  BY <1>4, <1>5, <1>6, ParentedUnion
<1>8. Parented(With(ChainUses, With(PipelineUses, With(TextureUses, With(ModelUses, FrameUses)))))
  BY <1>2, <1>3, <1>7, ParentedUnion
<1> QED
  BY <1>1, <1>8, ParentedUnion DEF Uses

(* With the validation layers the debug callback is made, and stays. *)
Reporting ==
    debug => \/ "callback" \in made \/ pc = "dead"
             \/ pc = "create" /\ \E k \in DOMAIN steps : steps[k] = "callback"

LEMMA ReportingStep == ASSUME Objects, Reporting, [Next]_vars PROVE Reporting'
<1> USE DEF Reporting
<1>1. CASE UNCHANGED <<made, debug>> /\ (pc' = "dead" \/ pc \notin {"create", "dead"})
  BY <1>1
<1>2. CASE UNCHANGED <<pc, steps, made, debug>>
  BY <1>2
<1>3. CASE pc = "create" /\ steps = << >> /\ UNCHANGED <<made, debug>>
  BY <1>3, EmptySeq
<1>4. ASSUME NEW o, At(o), UNCHANGED <<pc, debug>>, Created(o) \/ (~debug /\ o = "callback")
      PROVE  Reporting'
  <2>1. CASE ~debug
    BY <1>4, <2>1
  <2>2. CASE debug
    <3>1. /\ pc = "create" /\ steps # << >> /\ steps \in Seq(PartName) /\ Head(steps) = o
          /\ made' = made \union {o} /\ steps' = Tail(steps)
      BY <1>4, <2>2 DEF At, Created, Objects
    <3>2. CASE "callback" \in made
      BY <3>1, <3>2
    <3>3. CASE "callback" \notin made
      <4>1. PICK k \in DOMAIN steps : steps[k] = "callback"
        BY <2>2, <3>1, <3>3
      <4>2. /\ Head(steps) = steps[1]
            /\ k = 1 \/ (k - 1 \in DOMAIN Tail(steps) /\ Tail(steps)[k - 1] = steps[k])
        BY <3>1, TailOfPlan
      <4>3. CASE k = 1
        BY <3>1, <4>1, <4>2, <4>3
      <4>4. CASE k - 1 \in DOMAIN Tail(steps) /\ Tail(steps)[k - 1] = steps[k]
        BY <1>4, <3>1, <4>1, <4>4
      <4> QED
        BY <4>2, <4>3, <4>4
    <3> QED
      BY <3>2, <3>3
  <2> QED
    BY <2>1, <2>2
<1>5. CASE Creating
  <2>1. ASSUME NEW o \in Part, Create(o) PROVE Reporting'
    BY <1>4, <2>1 DEF Create
  <2>2. CASE GetPhysDevice \/ CreateSwapChain
    BY <1>4, <2>2 DEF GetPhysDevice, CreateSwapChain
  <2>3. CASE AllCreated
    BY <1>3, <2>3 DEF AllCreated
  <2> QED
    BY <1>5, <2>1, <2>2, <2>3 DEF Creating
<1>6. CASE WaitIdle
  BY <1>6 DEF WaitIdle, Objects, Working, AllThere
<1>7. CASE Failures \/ Looping
  BY <1>1, <1>7 DEF Failures, CreateFails, CallFails, Looping, LoopTest, PollReturns, UpdateUniformBuffer
<1>8. CASE DrawFrame
  BY <1>1, <1>8 DEF DrawFrame, Acquire, AcquireOutOfDate, GoRecreate, WaitForFence, Submit,
                    PresentFits, PresentMisfit, Presented
<1>9. CASE Leaving
  <2>1. CASE LeaveLoop \/ GlfwTerminate \/ LeaveMember \/ Destroyed
    BY <1>1, <2>1 DEF LeaveLoop, GlfwTerminate, LeaveMember, Destroyed
  <2>2. CASE DestroyMember
    <3>1. "callback" \notin GoesWith(Last(steps))
      BY <2>2 DEF DestroyMember, GoesWith, Outliving
    <3> QED
      BY <2>2, <3>1 DEF DestroyMember
  <2> QED
    BY <1>9, <2>1, <2>2 DEF Leaving
<1>10. CASE Processor \/ Engine \/ Rest \/ UNCHANGED vars
  BY <1>2, <1>10 DEF Processor, Engine, Rest, FinishDraw, ExecutePresent, Outside, Show, StopReading,
                     SignalFence, vars
<1>11. CASE User
  BY <1>1, <1>2, <1>11 DEF User, FocusLost, FocusGained, Minimised, Refresh, CloseAsked, EnterPressed, Resize,
                     Dispatching, Elsewhere, Stays, GoRecreate
<1> QED
  BY <1>5, <1>6, <1>7, <1>8, <1>9, <1>10, <1>11 DEF Next, Program

(* Whatever is there and does not outlive the renderer has its parent; and while the members  *)
(* are destroyed, those still to come are the first so many, and hold all that must go.       *)
Left ==
    /\ TakenApart
    /\ pc = "destroy" => /\ steps \in Seq(PartName) /\ Len(steps) <= 22
                         /\ \A k \in 1..Len(steps) : steps[k] = Members[k]
                         /\ \A o \in made \ Outliving : MemberOf[o] <= Len(steps)
                         /\ "surface" \in made

LEMMA FrontOfMembers ==
    ASSUME NEW s \in Seq(PartName), s # << >>
    PROVE  /\ Len(s) \in Nat \ {0} /\ Last(s) = s[Len(s)]
           /\ Front(s) \in Seq(PartName) /\ Len(Front(s)) = Len(s) - 1
           /\ \A k \in 1..(Len(s) - 1) : Front(s)[k] = s[k]
<1>1. Len(s) \in Nat /\ Len(s) # 0
  BY EmptySeq, LenProperties
<1>2. Front(s) = SubSeq(s, 1, Len(s) - 1) /\ Last(s) = s[Len(s)]
  BY DEF Front, Last
<1> DEFINE n == Len(s) - 1
<1>3. n \in Nat /\ 1 \in Int /\ n \in Int /\ \A k \in 1..n : s[k] \in PartName
  BY <1>1, ElementOfSeq
<1> HIDE DEF n
<1>4. /\ SubSeq(s, 1, n) \in Seq(PartName) /\ Len(SubSeq(s, 1, n)) = IF 1 <= n THEN n - 1 + 1 ELSE 0
      /\ \A k \in 1..(n - 1 + 1) : SubSeq(s, 1, n)[k] = s[1 + k - 1]
  BY <1>3, SubSeqProperties
<1>5. Len(SubSeq(s, 1, n)) = n /\ \A k \in 1..n : SubSeq(s, 1, n)[k] = s[k]
  BY <1>3, <1>4
<1> QED
  BY <1>1, <1>2, <1>4, <1>5 DEF n

(* Destroying the last of the first n members leaves the first n - 1, and what they hold. *)
LEMMA MemberTaken ==
    ASSUME NEW s \in Seq(PartName), s # << >>, Len(s) <= 22,
           \A k \in 1..Len(s) : s[k] = Members[k],
           NEW m \in SUBSET PartName, \A o \in m \ Outliving : MemberOf[o] <= Len(s),
           \A o \in m \ Outliving : Parent(o) \subseteq m
    PROVE  /\ Front(s) \in Seq(PartName) /\ Len(Front(s)) <= 22
           /\ \A k \in 1..Len(Front(s)) : Front(s)[k] = Members[k]
           /\ \A o \in (m \ GoesWith(Last(s))) \ Outliving : MemberOf[o] <= Len(Front(s))
           /\ \A o \in (m \ GoesWith(Last(s))) \ Outliving : Parent(o) \subseteq m \ GoesWith(Last(s))
<1>1. PICK n \in Nat \ {0} : n = Len(s)
  BY FrontOfMembers
<1>2. /\ Last(s) = s[n] /\ Front(s) \in Seq(PartName) /\ Len(Front(s)) = n - 1
      /\ \A k \in 1..(n - 1) : Front(s)[k] = s[k]
  BY <1>1, FrontOfMembers
<1>3. /\ n \in Nat /\ n \in 1..22 /\ 1..n = 1..Len(s)
      /\ \A k \in 1..n : s[k] = Members[k]
  <2>1. n <= 22
    BY <1>1
  <2>2. n \in Nat /\ 1 <= n
    OBVIOUS
  <2>3. 1..n = 1..Len(s)
    BY <1>1
  <2> QED
    BY <2>1, <2>2, <2>3
<1>4. Last(s) = Members[n] /\ \A k \in 1..(n - 1) : Front(s)[k] = Members[k]
  BY <1>2, <1>3
<1>5. \A o \in m \ Outliving : MemberOf[o] \in 1..n /\ (o \in GoesWith(Last(s)) <=> MemberOf[o] = n)
  <2> SUFFICES ASSUME NEW o \in m \ Outliving
               PROVE  MemberOf[o] \in 1..n /\ (o \in GoesWith(Last(s)) <=> MemberOf[o] = n)
    OBVIOUS
  <2>1. MemberOf[o] \in 1..22 /\ MemberOf[o] <= n
    BY <1>1, MembersGo
  <2>2. o \in GoesWith(Last(s)) <=> MemberOf[o] = n
    BY ZenonT(30), <1>3, <1>4, MembersGo
  <2> QED
    BY SMTT(30), <1>3, <2>1, <2>2
<1>6. ASSUME NEW o \in (m \ GoesWith(Last(s))) \ Outliving PROVE MemberOf[o] <= n - 1
  BY <1>5
<1>7. ASSUME NEW o \in (m \ GoesWith(Last(s))) \ Outliving, NEW p \in Parent(o)
      PROVE  p \in m \ GoesWith(Last(s))
  <2>1. p \in m \ Outliving /\ MemberOf[p] <= MemberOf[o]
    BY ParentsFirst
  <2>2. MemberOf[p] \in 1..n /\ MemberOf[o] \in 1..n /\ MemberOf[o] <= n - 1
    BY <1>5, <1>6, <2>1
  <2>3. MemberOf[p] # n
    BY <2>1, <2>2
  <2> QED
    BY <1>5, <2>1, <2>3
<1> QED
  BY <1>2, <1>3, <1>4, <1>6, <1>7

LEMMA LeftStep == ASSUME FrameInv, Objects, Reporting, Left, [Next]_vars PROVE Left'
<1> USE DEF Left, TakenApart
<1>0. back \in {"test", "poll", "wait"} /\ made \subseteq PartName
  BY DEF FrameInv, Holding, Objects
<1>1. CASE /\ UNCHANGED <<made, debug>>
           /\ pc' \notin {"destroy", "over"} \/ (pc' = pc /\ steps' = steps)
  BY <1>1
<1>2. ASSUME NEW o \in PartName, At(o), Created(o), UNCHANGED pc PROVE Left'
  <2>1. /\ pc = "create" /\ steps # << >> /\ Head(steps) = o /\ made' = made \union {o}
    BY <1>2 DEF At, Created
  <2>2. Uses[o] \subseteq made
    BY <2>1, ObjectsBuilt DEF BuiltFromCurrent
  <2>3. Parent(o) \subseteq made
    <3>1. ASSUME NEW p \in Parent(o) PROVE p \in made
      <4>1. p \in Uses[o] \/ \E u \in Uses[o] : p \in Parent(u)
        BY ParentsUsed, UsesRanked DEF Parented, Part
      <4>2. ASSUME NEW u \in Uses[o], p \in Parent(u) PROVE p \in made
        <5>1. u \in made /\ u \notin Outliving
          BY <2>2, <4>2, UsesRanked DEF Parent, Outliving, Ranked, Part
        <5> QED
          BY <4>2, <5>1
      <4> QED
        BY <2>2, <4>1, <4>2
    <3> QED
      BY <3>1
  <2> QED
    BY <1>2, <2>1, <2>3
<1>3. ASSUME NEW o \in Part, Create(o) PROVE Left'
  <2>1. /\ o \in PartName /\ pc = "create" /\ UNCHANGED <<pc, debug>> /\ At(o)
        /\ Created(o) \/ UNCHANGED made
    BY <1>3, UsesRanked DEF Create, At
  <2> QED
    BY <1>1, <1>2, <2>1
<1>4. CASE Creating
  <2>1. CASE GetPhysDevice \/ CreateSwapChain
    <3>1. "physDevice" \in PartName /\ "swapchain" \in PartName
      BY DEF PartName
    <3> QED
      BY <1>2, <2>1, <3>1 DEF GetPhysDevice, CreateSwapChain
  <2>2. CASE AllCreated
    BY <1>0, <1>1, <2>2 DEF AllCreated
  <2> QED
    BY <1>3, <1>4, <2>1, <2>2 DEF Creating
<1>5. CASE GlfwTerminate
  <2>1. pc = "terminate" /\ pc' = "destroy" /\ steps' = Members /\ UNCHANGED made
    BY <1>5 DEF GlfwTerminate
  <2>2. \A o \in made : MemberOf[o] <= 22
    BY SMTT(30), <1>0, MembersGo
  <2>3. "surface" \in made
    BY <2>1 DEF Objects, AllThere, PartName
  <2> QED
    BY <2>1, <2>2, <2>3, MembersGo
<1>6. CASE DestroyMember
  <2>1. /\ pc = "destroy" /\ pc' = pc /\ steps # << >> /\ Last(steps) \notin Outliving
        /\ made' = made \ GoesWith(Last(steps)) /\ steps' = Front(steps)
    BY <1>6 DEF DestroyMember
  <2>2. "surface" \notin GoesWith(Last(steps))
    BY <2>1 DEF GoesWith, Outliving
  <2> QED
    BY <1>0, <2>1, <2>2, MemberTaken
<1>7. CASE LeaveMember
  <2>1. CASE pc' = "dead"
    BY <1>1, <1>7, <2>1 DEF LeaveMember
  <2>2. CASE pc' = pc
    <3>1. /\ pc = "destroy" /\ pc' = pc /\ steps # << >> /\ Last(steps) \in Outliving
          /\ UNCHANGED made /\ steps' = Front(steps)
      BY <1>7, <2>2 DEF LeaveMember
    <3>2. GoesWith(Last(steps)) \subseteq Outliving
      BY <3>1 DEF GoesWith, Outliving
    <3>3. /\ Front(steps) \in Seq(PartName) /\ Len(Front(steps)) <= 22
          /\ \A k \in 1..Len(Front(steps)) : Front(steps)[k] = Members[k]
          /\ \A o \in (made \ GoesWith(Last(steps))) \ Outliving : MemberOf[o] <= Len(Front(steps))
      BY <1>0, <3>1, MemberTaken
    <3> QED
      BY <3>1, <3>2, <3>3
  <2> QED
    BY <1>7, <2>1, <2>2 DEF LeaveMember
<1>8. CASE Destroyed
  <2>1. pc = "destroy" /\ pc' = "over" /\ steps = << >> /\ UNCHANGED <<made, debug>>
    BY <1>8 DEF Destroyed
  <2>2. made \subseteq Outliving
    <3> SUFFICES ASSUME NEW o \in made \ Outliving PROVE FALSE
      OBVIOUS
    <3>1. MemberOf[o] <= 0 /\ MemberOf[o] \in 1..22
      BY <1>0, <2>1, MembersGo, EmptySeq
    <3> QED
      BY <3>1
  <2>3. "callback" \in made <=> debug
    BY <2>1 DEF Objects, Reporting
  <2> QED
    BY <2>1, <2>2, <2>3 DEF Outliving
<1>9. CASE LeaveLoop \/ Failures \/ Looping \/ WaitIdle
  BY <1>1, <1>9 DEF LeaveLoop, Failures, CreateFails, CallFails, Looping, LoopTest, PollReturns,
                    UpdateUniformBuffer, WaitIdle
<1>10. CASE DrawFrame
  BY <1>1, <1>10 DEF DrawFrame, Acquire, AcquireOutOfDate, GoRecreate, WaitForFence, Submit,
                     PresentFits, PresentMisfit, Presented
<1>11. CASE Processor \/ Engine \/ Rest \/ UNCHANGED vars
  BY <1>1, <1>11 DEF Processor, Engine, Rest, FinishDraw, ExecutePresent, Outside, Show, StopReading,
                     SignalFence, vars
<1>12. CASE User
  BY <1>1, <1>12 DEF User, FocusLost, FocusGained, Minimised, Refresh, CloseAsked, EnterPressed, Resize,
                     Dispatching, Elsewhere, Stays, GoRecreate
<1> QED
  BY <1>4, <1>5, <1>6, <1>7, <1>8, <1>9, <1>10, <1>11, <1>12 DEF Next, Program, Leaving

(* While the objects are made, and while the static renderer is taken apart in the reverse    *)
(* order of its members, whatever must go can still be destroyed through its parent; in the   *)
(* end exactly the surface and the debug callback are left.                                   *)
THEOREM FrameTakenApart == Spec => []TakenApart
<1>1. Init => Left /\ Reporting
  <2> SUFFICES ASSUME Init PROVE Left /\ Reporting
    OBVIOUS
  <2>1. made = {} /\ pc = "create" /\ steps = InitializeSteps
    BY DEF Init
  <2>2. 2 \in DOMAIN InitializeSteps /\ InitializeSteps[2] = "callback"
    BY DEF InitializeSteps
  <2> QED
    BY <2>1, <2>2 DEF Left, TakenApart, Reporting
<1>2. Left => TakenApart
  BY DEF Left
<1> QED
  BY <1>1, <1>2, LeftStep, ReportingStep, FrameInvariant, ObjectsInvariant, PTL DEF Spec
-----------------------------------------------------------------------------
(* Of a set of places that is not empty one comes first. *)
LEMMA FirstPlace ==
    ASSUME NEW S, S \subseteq Nat, S # {}
    PROVE  \E m \in S : \A l \in S : m <= l
<1> DEFINE R == OpToRel(<, Nat)
<1>1. IsWellFoundedOn(R, Nat)
  BY NatLessThanWellFounded
<1>2. \A x, y \in Nat : x < y => <<x, y>> \in R
  BY DEF OpToRel
<1> HIDE DEF R
<1>3. \E m \in S : \A l \in S : ~ (<<l, m>> \in R)
  BY <1>1, WFMin, Zenon
<1>4. PICK m \in S : \A l \in S : ~ (<<l, m>> \in R)
  BY <1>3
<1>5. ASSUME NEW l \in S PROVE m <= l
  <2>1. m \in Nat /\ l \in Nat
    OBVIOUS
  <2>2. ~ (l < m)
    BY <1>2, <1>4, <2>1
  <2> QED
    BY <2>1, <2>2
<1> QED
  BY <1>5

(* GetPhysDevice chooses one of the machine's adapters, if any. *)
LEMMA FirstSuitableIs ==
    ASSUME NEW l \in Adapters PROVE FirstSuitable(l) \in {0} \union DOMAIN l
<1> DEFINE S == {k \in 1..Len(l) : Suitable(l[k])}
<1>1. DOMAIN l = 1..Len(l) /\ S \subseteq 1..Len(l) /\ S \subseteq Nat
  BY FrameLoopAssumption
<1>2. FirstSuitable(l) = IF S # {} THEN Min(S) ELSE 0
  BY DEF FirstSuitable, SelectInSeq
<1> HIDE DEF S
<1>3. S # {} => Min(S) \in S
  BY <1>1, FirstPlace DEF Min
<1> QED
  BY <1>1, <1>2, <1>3

(* The swap chain is made from the adapter that was chosen. *)
LEMMA ChainFromAdapter == "physDevice" \in Uses["swapchain"]
<1> DEFINE f4 == With(PipelineUses, With(TextureUses, With(ModelUses, FrameUses)))
<1>1. Uses = With(PlatformUses, With(ChainUses, f4))
  BY DEF Uses
<1> HIDE DEF f4
<1>2. "swapchain" \notin DOMAIN PlatformUses /\ "swapchain" \in DOMAIN ChainUses
  BY DEF PlatformUses, ChainUses
<1>3. Uses["swapchain"] = ChainUses["swapchain"]
  BY <1>1, <1>2 DEF With
<1> QED
  BY <1>3 DEF ChainUses
-----------------------------------------------------------------------------
(* The types, by the groups of variables. *)
PlaceTyped == pc \in Place /\ steps \in Seq(PartName)

ChoiceTyped ==
    /\ list \in Adapters /\ adapter \in {0} \union DOMAIN list /\ debug \in BOOLEAN
    /\ "physDevice" \in made => adapter # 0
    /\ images \in {0} \union Image

WindowTyped ==
    /\ extent \in Extent /\ aspect \in Extent /\ surface \in Extent
    /\ shouldClose \in BOOLEAN /\ paused \in BOOLEAN /\ fullscreen \in BOOLEAN /\ focused \in BOOLEAN
    /\ events \in 0..MaxEvents
    /\ fence \in {"idle", "pending", "signaled"} /\ semaphore \in BOOLEAN

ScreenTyped == queued \in Seq(Image) /\ reading \subseteq Image /\ shown \in {0} \union Image

Typed == PlaceTyped /\ ChoiceTyped /\ WindowTyped /\ ScreenTyped

LEMMA TypedInit == ASSUME Init PROVE Typed
<1>1. PlaceTyped
  BY StepLists DEF Init, PlaceTyped, Place
<1>2. ChoiceTyped
  BY DEF Init, ChoiceTyped
<1>3. WindowTyped
  <2>1. events = 0 /\ 0 \in 0..MaxEvents
    BY FrameLoopAssumption DEF Init
  <2>2. /\ extent \in Extent /\ aspect \in Extent /\ surface \in Extent
        /\ shouldClose = FALSE /\ paused = FALSE /\ fullscreen = FALSE /\ focused = TRUE
        /\ fence = "idle" /\ semaphore = FALSE
    BY DEF Init, Extent
  <2> QED
    BY <2>1, <2>2 DEF WindowTyped
<1>4. ScreenTyped
  <2>1. queued = << >> /\ reading = {} /\ shown = 0
    BY DEF Init
  <2>2. << >> \in Seq(Image)
    BY EmptySeq
  <2> QED
    BY <2>1, <2>2 DEF ScreenTyped
<1> QED
  BY <1>1, <1>2, <1>3, <1>4 DEF Typed

LEMMA PlaceTypedStep == ASSUME FrameInv, PlaceTyped, [Next]_vars PROVE PlaceTyped'
<1> USE DEF PlaceTyped
<1>0. back \in Place
  BY DEF FrameInv, Holding, Place
<1>1. CASE UNCHANGED steps /\ (pc' = pc \/ pc' \in Place)
  BY <1>1
<1>2. CASE steps # << >> /\ steps' = Tail(steps) /\ pc' = pc
  BY <1>2, TailOfPlan
<1>3. CASE Creating
  <2>1. ASSUME NEW o \in Part, Create(o) PROVE PlaceTyped'
    BY <1>2, <2>1 DEF Create, At, Created
  <2>2. CASE GetPhysDevice \/ CreateSwapChain
    BY <1>2, <2>2 DEF GetPhysDevice, CreateSwapChain, At, Created
  <2>3. CASE AllCreated
    BY <1>0, <1>1, <2>3 DEF AllCreated
  <2> QED
    BY <1>3, <2>1, <2>2, <2>3 DEF Creating
<1>4. CASE WaitIdle
  BY <1>4, StepLists DEF WaitIdle, Place
<1>5. CASE Looping \/ Failures
  BY <1>1, <1>5 DEF Looping, LoopTest, PollReturns, UpdateUniformBuffer, Failures, CreateFails, CallFails,
                    Place
<1>6. CASE DrawFrame
  BY <1>1, <1>6 DEF DrawFrame, Acquire, AcquireOutOfDate, GoRecreate, WaitForFence, Submit,
                    PresentFits, PresentMisfit, Presented, Place
<1>7. CASE Leaving
  <2>1. CASE LeaveLoop \/ GlfwTerminate
    BY <2>1, MembersGo DEF LeaveLoop, GlfwTerminate, Place
  <2>2. CASE DestroyMember \/ LeaveMember
    BY <1>1, <2>2, FrontOfMembers DEF DestroyMember, LeaveMember, Place
  <2>3. CASE Destroyed
    BY <1>1, <2>3 DEF Destroyed, Place
  <2> QED
    BY <1>7, <2>1, <2>2, <2>3 DEF Leaving
<1>8. CASE Processor \/ Engine \/ Rest \/ UNCHANGED vars
  BY <1>1, <1>8 DEF Processor, Engine, Rest, FinishDraw, ExecutePresent, Outside, Show, StopReading,
                    SignalFence, vars
<1>9. CASE User
  BY <1>1, <1>9 DEF User, FocusLost, FocusGained, Minimised, Refresh, CloseAsked, EnterPressed, Resize,
                    Dispatching, Elsewhere, Stays, GoRecreate, Place
<1> QED
  BY <1>3, <1>4, <1>5, <1>6, <1>7, <1>8, <1>9 DEF Next, Program

LEMMA ChoiceTypedStep == ASSUME Objects, ChoiceTyped, [Next]_vars PROVE ChoiceTyped'
<1> USE DEF ChoiceTyped
<1>1. CASE UNCHANGED <<list, adapter, debug, images>> /\ ("physDevice" \in made' => "physDevice" \in made)
  BY <1>1
<1>2. CASE Creating
  <2>1. ASSUME NEW o \in Part, Create(o) PROVE ChoiceTyped'
    BY <1>1, <2>1 DEF Create, Created
  <2>2. CASE GetPhysDevice
    BY <2>2, FirstSuitableIs DEF GetPhysDevice
  <2>3. CASE CreateSwapChain
    <3>1. /\ UNCHANGED <<list, adapter, debug>> /\ images' = ImageCount(list[adapter])
          /\ pc = "create" /\ steps # << >> /\ Head(steps) = "swapchain"
          /\ made' = made \union {"swapchain"}
      BY <2>3 DEF CreateSwapChain, At, Created
    <3>2. "physDevice" \in made
      BY <3>1, ObjectsBuilt, ChainFromAdapter DEF BuiltFromCurrent
    <3>3. ImageCount(list[adapter]) \in Image
      BY <3>2, FrameLoopAssumption DEF Image
    <3> QED
      BY <3>1, <3>2, <3>3
  <2>4. CASE AllCreated
    BY <1>1, <2>4 DEF AllCreated
  <2> QED
    BY <1>2, <2>1, <2>2, <2>3, <2>4 DEF Creating
<1>3. CASE WaitIdle \/ Looping \/ Failures \/ Leaving
  BY <1>1, <1>3 DEF WaitIdle, Looping, LoopTest, PollReturns, UpdateUniformBuffer, Failures, CreateFails,
                    CallFails, Leaving, LeaveLoop, GlfwTerminate, DestroyMember,
                    LeaveMember, Destroyed
<1>4. CASE DrawFrame
  BY <1>1, <1>4 DEF DrawFrame, Acquire, AcquireOutOfDate, GoRecreate, WaitForFence, Submit,
                    PresentFits, PresentMisfit, Presented
<1>5. CASE Processor \/ Engine \/ Rest \/ UNCHANGED vars
  BY <1>1, <1>5 DEF Processor, Engine, Rest, FinishDraw, ExecutePresent, Outside, Show, StopReading,
                    SignalFence, vars
<1>6. CASE User
  BY <1>1, <1>6 DEF User, FocusLost, FocusGained, Minimised, Refresh, CloseAsked, EnterPressed, Resize,
                    Dispatching, Elsewhere, Stays, GoRecreate
<1> QED
  BY <1>2, <1>3, <1>4, <1>5, <1>6 DEF Next, Program

LEMMA WindowTypedStep == ASSUME WindowTyped, [Next]_vars PROVE WindowTyped'
<1> USE DEF WindowTyped
<1>1. CASE /\ UNCHANGED <<extent, window, semaphore>> /\ aspect' \in {aspect, extent}
           /\ fence' \in {fence, "idle", "pending", "signaled"}
  BY <1>1
<1>2. CASE Creating
  <2>1. ASSUME NEW o \in Part, Create(o) PROVE WindowTyped'
    BY <1>1, <2>1 DEF Create
  <2>2. CASE CreateSwapChain
    BY <2>2 DEF CreateSwapChain
  <2>3. CASE GetPhysDevice \/ AllCreated
    BY <1>1, <2>3 DEF GetPhysDevice, AllCreated
  <2> QED
    BY <1>2, <2>1, <2>2, <2>3 DEF Creating
<1>3. CASE WaitIdle \/ Looping \/ Failures \/ Leaving
  BY <1>1, <1>3 DEF WaitIdle, Looping, LoopTest, PollReturns, UpdateUniformBuffer, Failures, CreateFails,
                    CallFails, Leaving, LeaveLoop, GlfwTerminate, DestroyMember,
                    LeaveMember, Destroyed
<1>4. CASE DrawFrame
  BY <1>1, <1>4 DEF DrawFrame, Acquire, AcquireOutOfDate, GoRecreate, WaitForFence, Submit,
                    PresentFits, PresentMisfit, Presented
<1>5. CASE Processor
  BY <1>5 DEF Processor, FinishDraw, ExecutePresent, Outside
<1>6. CASE Engine \/ Rest \/ UNCHANGED vars
  BY <1>1, <1>6 DEF Engine, Rest, Outside, Show, StopReading, SignalFence, vars
<1>7. CASE User
  <2>1. events' \in 0..MaxEvents
    BY <1>7, FrameLoopAssumption DEF User, FocusLost, FocusGained, Minimised, Refresh, CloseAsked,
                                     EnterPressed, Resize, Event
  <2>2. /\ UNCHANGED <<extent, aspect, signals>> /\ surface' \in Extent
        /\ shouldClose' \in BOOLEAN /\ paused' \in BOOLEAN /\ fullscreen' \in BOOLEAN
        /\ focused' \in BOOLEAN
    BY <1>7 DEF User, FocusLost, FocusGained, Minimised, Refresh, CloseAsked, EnterPressed, Resize,
                Elsewhere, Stays, FullOrWindow, Extent
  <2> QED
    BY <2>1, <2>2
<1> QED
  BY <1>2, <1>3, <1>4, <1>5, <1>6, <1>7 DEF Next, Program

LEMMA ScreenTypedStep == ASSUME FrameInv, ScreenTyped, [Next]_vars PROVE ScreenTyped'
<1> USE DEF ScreenTyped
<1>1. CASE UNCHANGED screen
  BY <1>1
<1>2. CASE Creating
  <2>1. ASSUME NEW o \in Part, Create(o) PROVE ScreenTyped'
    BY <1>1, <2>1 DEF Create
  <2>2. CASE CreateSwapChain
    <3>1. queued' = << >> /\ reading' = {} /\ shown' = 0
      BY <2>2 DEF CreateSwapChain
    <3>2. << >> \in Seq(Image)
      BY EmptySeq
    <3> QED
      BY <3>1, <3>2
  <2>3. CASE GetPhysDevice \/ AllCreated
    BY <1>1, <2>3 DEF GetPhysDevice, AllCreated
  <2> QED
    BY <1>2, <2>1, <2>2, <2>3 DEF Creating
<1>3. CASE WaitIdle \/ Looping \/ Failures \/ Leaving \/ DrawFrame
  BY <1>1, <1>3 DEF WaitIdle, Looping, LoopTest, PollReturns, UpdateUniformBuffer, Failures, CreateFails,
                    CallFails, Leaving, LeaveLoop, GlfwTerminate, DestroyMember,
                    LeaveMember, Destroyed,
                    DrawFrame, Acquire, AcquireOutOfDate, WaitForFence, Submit,
                    PresentFits, PresentMisfit, Presented
<1>4. CASE FinishDraw \/ SignalFence \/ Rest \/ UNCHANGED vars
  BY <1>1, <1>4 DEF FinishDraw, SignalFence, Rest, vars
<1>5. CASE ExecutePresent
  <2>1. PICK q \in {gfx, prs} :
            /\ q # << >>
            /\ queued' \in {queued, <<Head(q).image>>, Append(queued, Head(q).image)}
            /\ reading' \in {reading, reading \union {Head(q).image}}
            /\ shown' = shown
    BY <1>5 DEF ExecutePresent
  <2>2. Head(q).image \in Image
    <3>1. Head(q) \in Operation
      BY <2>1, Dropped DEF FrameInv, Queueing
    <3> QED
      BY <3>1 DEF Operation
  <2>3. <<Head(q).image>> \in Seq(Image) /\ Append(queued, Head(q).image) \in Seq(Image)
    BY <2>2, AppendProperties
  <2> QED
    BY <2>1, <2>2, <2>3
<1>6. CASE Show
  BY <1>6, HeadTailProperties DEF Show
<1>7. ASSUME NEW i \in Image, StopReading(i) PROVE ScreenTyped'
  BY <1>7 DEF StopReading
<1>8. CASE User
  BY <1>1, <1>8 DEF User, FocusLost, FocusGained, Minimised, Refresh, CloseAsked, EnterPressed, Resize,
                    Elsewhere, Stays
<1> QED
  BY <1>2, <1>3, <1>4, <1>5, <1>6, <1>7, <1>8 DEF Next, Program, Processor, Engine

(* Every variable keeps its type, the chosen adapter is one of the machine's, and whatever is *)
(* acquired, queued or shown is an image.                                                     *)
THEOREM FrameTypes == Spec => []FrameTypeOK
<1>1. FrameInv /\ Objects /\ Typed /\ [Next]_vars => Typed'
  BY PlaceTypedStep, ChoiceTypedStep, WindowTypedStep, ScreenTypedStep DEF Typed
<1>2. FrameInv /\ Objects /\ Typed => FrameTypeOK
  <2> SUFFICES ASSUME FrameInv, Objects, Typed PROVE FrameTypeOK
    OBVIOUS
  <2>1. pc \in Place /\ back \in Place /\ steps \in Seq(Part) /\ made \subseteq Part /\ stale \subseteq made
    BY UsesRanked DEF Typed, PlaceTyped, Objects, FrameInv, Holding, Place
  <2>2. /\ list \in Adapters /\ adapter \in {0} \union DOMAIN list /\ debug \in BOOLEAN
        /\ {extent, aspect, surface} \subseteq Extent
        /\ fence \in {"idle", "pending", "signaled"} /\ semaphore \in BOOLEAN
        /\ {shouldClose, paused, fullscreen, focused} \subseteq BOOLEAN /\ events \in 0..MaxEvents
        /\ queued \in Seq(Image) /\ reading \subseteq Image
    BY DEF Typed, ChoiceTyped, WindowTyped, ScreenTyped
  <2>3. /\ {images, held, shown} \subseteq {0} \union Image
        /\ held # 0 => pc \in {"fence", "submit", "present", "dead"}
        /\ gfx \in Seq(Operation) /\ prs \in Seq(Operation)
    BY DEF Typed, ChoiceTyped, ScreenTyped, FrameInv, Holding, Queueing
  <2> QED
    BY <2>1, <2>2, <2>3 DEF FrameTypeOK
<1> QED
  BY <1>1, <1>2, TypedInit, FrameInvariant, ObjectsInvariant, PTL DEF Spec
=============================================================================
