---------------------------- MODULE ResourceProofs ----------------------------
(***************************************************************************)
(* Proofs about what the engine makes and has to give back: the objects of *)
(* GpuObjects.tla, for every number of images in the swap chain, and the   *)
(* memory of Heap.tla on top of Tlsf.tla, for every size, alignment and    *)
(* arena, and every number of threads.                                     *)
(***************************************************************************)
EXTENDS GpuObjects, Heap, SequenceTheorems, FiniteSetTheorems, FunctionTheorems,
        WellFoundedInduction, TLAPS

(* What each thing is made of, of which there is one or one per image; the *)
(* names of the parts of different things are different.                   *)
GpuParts == {"gpu", "instance", "device", "surface", "swap_chain", "frames", "depth_image",
             "depth_memory", "depth_view", "render_pass", "present_sema", "render_sema",
             "descriptor_pool", "cmd_pool", "binding_p", "attributes_p", "binding_pc",
             "attributes_pc"}
ImageParts == {"view", "frame_buffer", "cmd_buffer", "cmds", "fence"}
MeshParts == {"mesh", "vertex_buffer", "vertex_memory", "index_buffer", "index_memory"}
ShaderParts == {"shader", "vertex_module", "fragment_module", "set_layout"}
PipelineParts == {"pipeline", "pipeline_layout", "pipe"}
UniformParts == {"uniform", "buffer", "memory"}
DescriptorParts == {"descriptor", "set"}

Name == GpuParts \cup ImageParts \cup MeshParts \cup ShaderParts \cup PipelineParts
          \cup UniformParts \cup DescriptorParts \cup {"query"}
Obj == Name \X Nat

LEMMA OneIs ==
  ASSUME NEW names \in Seq(Name)
  PROVE  /\ One(names) \in Seq(Obj)
         /\ Len(One(names)) = Len(names)
         /\ \A i \in 1 .. Len(names) : One(names)[i] = <<names[i], 0>>
  BY DEF One, Obj

(* The k-th of the objects there are of each image is the one of that name *)
(* of that image.                                                          *)
LEMMA EachIs ==
  ASSUME NEW names \in Seq(Name), Len(names) \in {1, 3, 5}
  PROVE  /\ Each(names) \in Seq(Obj)
         /\ Len(Each(names)) = FrameCount * Len(names)
         /\ \A k \in 1 .. FrameCount * Len(names) :
              Each(names)[k] = <<names[((k - 1) % Len(names)) + 1], ((k - 1) \div Len(names)) + 1>>
<1> DEFINE n == Len(names)
           Place(k) == ((k - 1) % n) + 1
           Image(k) == ((k - 1) \div n) + 1
<1>1. FrameCount * n \in Nat
  BY FrameCountAssumption
<1>2. ASSUME NEW k \in 1 .. FrameCount * n
      PROVE  Place(k) \in 1 .. n /\ Image(k) \in Nat
  <2>1. CASE n = 1
    BY <1>1, <1>2, <2>1
  <2>2. CASE n = 3
    BY <1>1, <1>2, <2>2
  <2>3. CASE n = 5
    BY <1>1, <1>2, <2>3
  <2>4. QED
    BY <2>1, <2>2, <2>3
<1>3. \A k \in 1 .. FrameCount * n : <<names[Place(k)], Image(k)>> \in Obj
  BY <1>2 DEF Obj
<1> HIDE DEF Place, Image
<1>4. [k \in 1 .. FrameCount * n |-> <<names[Place(k)], Image(k)>>] \in Seq(Obj)
  BY <1>1, <1>3
<1>5. Each(names) = [k \in 1 .. FrameCount * n |-> <<names[Place(k)], Image(k)>>]
  BY DEF Each, Place, Image
<1>6. QED
  BY <1>1, <1>4, <1>5 DEF Place, Image
Members(s) == {s[i] : i \in 1 .. Len(s)}

LEMMA OneMembers ==
  ASSUME NEW names \in Seq(Name)
  PROVE  Members(One(names)) = {<<names[i], 0>> : i \in 1 .. Len(names)}
  BY OneIs DEF Members

LEMMA EachMembers ==
  ASSUME NEW names \in Seq(Name), Len(names) \in {1, 3, 5}
  PROVE  Members(Each(names)) = {<<names[i], f>> : i \in 1 .. Len(names), f \in 1 .. FrameCount}
<1> DEFINE n == Len(names)
           all == {<<names[i], f>> : i \in 1 .. n, f \in 1 .. FrameCount}
<1>1. FrameCount \in Nat \ {0} /\ FrameCount * n \in Nat
  BY FrameCountAssumption
<1>2. ASSUME NEW k \in 1 .. FrameCount * n PROVE Each(names)[k] \in all
  <2>1. ((k - 1) % n) + 1 \in 1 .. n /\ ((k - 1) \div n) + 1 \in 1 .. FrameCount
    <3>1. CASE n = 1
      BY <1>1, <1>2, <3>1
    <3>2. CASE n = 3
      BY <1>1, <1>2, <3>2
    <3>3. CASE n = 5
      BY <1>1, <1>2, <3>3
    <3>4. QED
      BY <3>1, <3>2, <3>3
  <2> DEFINE i == ((k - 1) % n) + 1
             f == ((k - 1) \div n) + 1
  <2>2. Each(names)[k] = <<names[i], f>>
    BY <1>2, EachIs
  <2> HIDE DEF i, f
  <2>3. \E j \in 1 .. n, g \in 1 .. FrameCount : Each(names)[k] = <<names[j], g>>
    BY <2>1, <2>2 DEF i, f
  <2>4. QED
    BY <2>3
<1>3. ASSUME NEW i \in 1 .. n, NEW f \in 1 .. FrameCount
      PROVE  \E k \in 1 .. FrameCount * n : Each(names)[k] = <<names[i], f>>
  <2> DEFINE k == (f - 1) * n + i
  <2>1. k \in 1 .. FrameCount * n /\ ((k - 1) % n) + 1 = i /\ ((k - 1) \div n) + 1 = f
    <3>1. CASE n = 1
      BY <1>1, <1>3, <3>1
    <3>2. CASE n = 3
      BY <1>1, <1>3, <3>2
    <3>3. CASE n = 5
      BY <1>1, <1>3, <3>3
    <3>4. QED
      BY <3>1, <3>2, <3>3
  <2> HIDE DEF k
  <2>2. Each(names)[k] = <<names[i], f>>
    BY <2>1, EachIs
  <2>3. QED
    BY <2>1, <2>2
<1>4. Len(Each(names)) = FrameCount * n
  BY EachIs
<1>5. Members(Each(names)) \subseteq all
  BY <1>2, <1>4 DEF Members
<1>6. \A i \in 1 .. n, f \in 1 .. FrameCount : <<names[i], f>> \in Members(Each(names))
  BY <1>3, <1>4, Zenon DEF Members
<1>7. all \subseteq Members(Each(names))
  BY <1>6
<1>8. QED
  BY <1>5, <1>7

LEMMA ConcatMembers ==
  ASSUME NEW s \in Seq(Obj), NEW t \in Seq(Obj)
  PROVE  s \o t \in Seq(Obj) /\ Members(s \o t) = Members(s) \cup Members(t)
<1>1. s \o t \in Seq(Obj) /\ Len(s \o t) = Len(s) + Len(t)
  OBVIOUS
<1>2. ASSUME NEW i \in 1 .. Len(s) + Len(t)
      PROVE  (s \o t)[i] \in Members(s) \cup Members(t)
  <2>1. (s \o t)[i] = IF i <= Len(s) THEN s[i] ELSE t[i - Len(s)]
    OBVIOUS
  <2>2. QED
    BY <2>1 DEF Members
<1>3. ASSUME NEW i \in 1 .. Len(s) PROVE s[i] \in Members(s \o t)
  <2>1. i \in 1 .. Len(s \o t) /\ (s \o t)[i] = s[i]
    OBVIOUS
  <2>2. QED
    BY <2>1 DEF Members
<1>4. ASSUME NEW i \in 1 .. Len(t) PROVE t[i] \in Members(s \o t)
  <2>1. i + Len(s) \in 1 .. Len(s \o t) /\ (s \o t)[i + Len(s)] = t[i]
    OBVIOUS
  <2>2. QED
    BY <2>1 DEF Members
<1>5. QED
  BY <1>1, <1>2, <1>3, <1>4 DEF Members

-----------------------------------------------------------------------------
(* Created in the order of s, each object finds what it is made from among *)
(* those before it and what was there before.                              *)
Grounded(s, base) ==
  \A j \in 1 .. Len(s) : MadeFrom(s[j]) \subseteq base \cup {s[i] : i \in 1 .. j - 1}

(* Destroyed in the order of s, none is a parent of what comes after it or *)
(* of what will be left.                                                   *)
Released(s, rest) ==
  \A j \in 1 .. Len(s) :
    /\ \A i \in j + 1 .. Len(s) : s[j] \notin Parents(s[i])
    /\ \A o \in rest : s[j] \notin Parents(o)

LEMMA GroundedConcat ==
  ASSUME NEW s \in Seq(Obj), NEW t \in Seq(Obj), NEW base,
         Grounded(s, base), Grounded(t, base \cup Members(s))
  PROVE  Grounded(s \o t, base)
<1> SUFFICES ASSUME NEW j \in 1 .. Len(s) + Len(t), NEW p \in MadeFrom((s \o t)[j])
             PROVE  p \in base \/ \E i \in 1 .. j - 1 : (s \o t)[i] = p
  BY DEF Grounded
<1>1. \A i \in 1 .. Len(s) : (s \o t)[i] = s[i]
  OBVIOUS
<1>2. \A i \in 1 .. Len(t) : (s \o t)[i + Len(s)] = t[i]
  OBVIOUS
<1>3. CASE j <= Len(s)
  BY <1>1, <1>3 DEF Grounded
<1>4. CASE j > Len(s)
  <2> DEFINE k == j - Len(s)
  <2>1. k \in 1 .. Len(t) /\ (s \o t)[j] = t[k]
    BY <1>2, <1>4
  <2>2. p \in base \cup Members(s) \cup {t[i] : i \in 1 .. k - 1}
    BY <2>1 DEF Grounded
  <2>3. CASE p \in Members(s)
    BY <1>1, <1>4, <2>3 DEF Members
  <2>4. ASSUME NEW i \in 1 .. k - 1, p = t[i]
        PROVE  \E h \in 1 .. j - 1 : (s \o t)[h] = p
    <3>1. i \in 1 .. Len(t) /\ i + Len(s) \in 1 .. j - 1
      BY <2>1
    <3>2. QED
      BY <1>2, <2>4, <3>1
  <2>5. QED
    BY <2>2, <2>3, <2>4
<1>5. QED
  BY <1>3, <1>4

LEMMA ReleasedConcat ==
  ASSUME NEW s \in Seq(Obj), NEW t \in Seq(Obj), NEW rest,
         Released(s, rest \cup Members(t)), Released(t, rest)
  PROVE  Released(s \o t, rest)
<1>1. \A i \in 1 .. Len(s) : (s \o t)[i] = s[i]
  OBVIOUS
<1>2. \A i \in 1 .. Len(s) + Len(t) : i > Len(s) =>
        /\ i - Len(s) \in 1 .. Len(t) /\ (s \o t)[i] = t[i - Len(s)]
        /\ (s \o t)[i] \in Members(t)
  BY DEF Members
<1>3. ASSUME NEW j \in 1 .. Len(s) + Len(t), NEW o \in rest PROVE (s \o t)[j] \notin Parents(o)
  BY <1>1, <1>2, <1>3 DEF Released
<1>4. ASSUME NEW j \in 1 .. Len(s) + Len(t), NEW i \in j + 1 .. Len(s) + Len(t)
      PROVE  (s \o t)[j] \notin Parents((s \o t)[i])
  <2>1. CASE i <= Len(s)
    BY <1>1, <1>4, <2>1 DEF Released
  <2>2. CASE j <= Len(s) /\ i > Len(s)
    BY <1>1, <1>2, <1>4, <2>2 DEF Released
  <2>3. CASE j > Len(s)
    <3>1. /\ j - Len(s) \in 1 .. Len(t) /\ i - Len(s) \in 1 .. Len(t)
          /\ i - Len(s) \in (j - Len(s)) + 1 .. Len(t)
          /\ (s \o t)[j] = t[j - Len(s)] /\ (s \o t)[i] = t[i - Len(s)]
      BY <1>2, <1>4, <2>3
    <3>2. QED
      BY <3>1 DEF Released
  <2>4. QED
    BY <1>4, <2>1, <2>2, <2>3
<1>5. Len(s \o t) = Len(s) + Len(t)
  OBVIOUS
<1>6. QED
  BY <1>3, <1>4, <1>5 DEF Released

(* What is grounded in less is grounded in more. *)
LEMMA GroundedInMore ==
  ASSUME NEW s, NEW base, NEW more, Grounded(s, base), base \subseteq more
  PROVE  Grounded(s, more)
  BY DEF Grounded

LEMMA ParentsAre ==
  ASSUME NEW o \in Obj, NEW p
  PROVE  p \in Parents(o) <=>
           \/ /\ o[1] \in {"instance", "frames", "binding_p", "attributes_p", "binding_pc",
                           "attributes_pc"}
              /\ p = <<"gpu", 0>>
           \/ o[1] \in {"view", "frame_buffer", "fence", "cmd_buffer"} /\ p = <<"frames", 0>>
           \/ /\ o[1] \in {"vertex_buffer", "vertex_memory", "index_buffer", "index_memory"}
              /\ p = <<"mesh", 0>>
           \/ o[1] \in {"vertex_module", "fragment_module", "set_layout"} /\ p = <<"shader", 0>>
           \/ o[1] \in {"pipeline_layout", "pipe"} /\ p = <<"pipeline", 0>>
           \/ o[1] \in {"buffer", "memory"} /\ p = <<"uniform", 0>>
           \/ o[1] = "set" /\ p \in {<<"descriptor", 0>>, <<"descriptor_pool", 0>>}
           \/ o[1] = "cmds" /\ p \in {<<"cmd_pool", 0>>, <<"cmd_buffer", o[2]>>}
           \/ o[1] = "view" /\ p = <<"swap_chain", 0>>
           \/ o[1] \in OfDevice /\ p = <<"device", 0>>
           \/ o[1] \in {"device", "surface"} /\ p = <<"instance", 0>>
           \/ o[1] = "swap_chain" /\ p = <<"surface", 0>>
<1>1. DOMAIN Children = {"gpu", "frames", "mesh", "shader", "pipeline", "uniform", "descriptor",
                         "instance", "surface", "device", "swap_chain", "cmd_pool",
                         "descriptor_pool"}
  BY DEF Children
<1>2. /\ Children["gpu"] = {"instance", "frames", "binding_p", "attributes_p", "binding_pc",
                            "attributes_pc"}
      /\ Children["frames"] = {"view", "frame_buffer", "fence", "cmd_buffer"}
      /\ Children["mesh"] = {"vertex_buffer", "vertex_memory", "index_buffer", "index_memory"}
      /\ Children["shader"] = {"vertex_module", "fragment_module", "set_layout"}
      /\ Children["pipeline"] = {"pipeline_layout", "pipe"}
      /\ Children["uniform"] = {"buffer", "memory"}
      /\ Children["descriptor"] = {"set"}
      /\ Children["instance"] = {"device", "surface"}
      /\ Children["surface"] = {"swap_chain"}
      /\ Children["device"] = OfDevice
      /\ Children["swap_chain"] = {"view"}
      /\ Children["cmd_pool"] = {"cmds"}
      /\ Children["descriptor_pool"] = {"set"}
  BY DEF Children
<1> HIDE DEF OfDevice, Children
<1>3. p \in Parents(o) <=>
        \/ \E m \in DOMAIN Children : o[1] \in Children[m] /\ p = <<m, 0>>
        \/ o[1] = "cmds" /\ p = <<"cmd_buffer", o[2]>>
  BY DEF Parents, To
<1>4. QED
  BY <1>1, <1>2, <1>3

(* What else an object is made from. *)
Inputs(name, p) ==
  \/ name \in {"depth_memory", "depth_view"} /\ p = <<"depth_image", 0>>
  \/ name = "depth_view" /\ p = <<"depth_memory", 0>>
  \/ name = "frame_buffer" /\ p = <<"depth_view", 0>>
  \/ name \in {"frame_buffer", "pipe"} /\ p = <<"render_pass", 0>>
  \/ /\ name = "pipe"
     /\ p \in {<<"binding_p", 0>>, <<"attributes_p", 0>>, <<"binding_pc", 0>>,
               <<"attributes_pc", 0>>, <<"vertex_module", 0>>, <<"fragment_module", 0>>,
               <<"pipeline_layout", 0>>}
  \/ name = "vertex_memory" /\ p = <<"vertex_buffer", 0>>
  \/ name = "index_memory" /\ p = <<"index_buffer", 0>>
  \/ name \in {"memory", "set"} /\ p = <<"buffer", 0>>
  \/ name \in {"pipeline_layout", "set"} /\ p = <<"set_layout", 0>>

LEMMA MadeFromAre ==
  ASSUME NEW o, NEW p
  PROVE  p \in MadeFrom(o) <=> \/ p \in Parents(o) \/ Inputs(o[1], p)
                               \/ o[1] = "frame_buffer" /\ p = <<"view", o[2]>>
<1>1. DOMAIN Feeds = {"depth_image", "depth_memory", "depth_view", "render_pass", "binding_p",
                      "attributes_p", "binding_pc", "attributes_pc", "vertex_buffer",
                      "index_buffer", "buffer", "vertex_module", "fragment_module",
                      "set_layout", "pipeline_layout"}
  BY DEF Feeds
<1>2. /\ Feeds["depth_image"] = {"depth_memory", "depth_view"}
      /\ Feeds["depth_memory"] = {"depth_view"}
      /\ Feeds["depth_view"] = {"frame_buffer"}
      /\ Feeds["render_pass"] = {"frame_buffer", "pipe"}
      /\ Feeds["binding_p"] = {"pipe"} /\ Feeds["attributes_p"] = {"pipe"}
      /\ Feeds["binding_pc"] = {"pipe"} /\ Feeds["attributes_pc"] = {"pipe"}
      /\ Feeds["vertex_buffer"] = {"vertex_memory"}
      /\ Feeds["index_buffer"] = {"index_memory"}
      /\ Feeds["buffer"] = {"memory", "set"}
      /\ Feeds["vertex_module"] = {"pipe"} /\ Feeds["fragment_module"] = {"pipe"}
      /\ Feeds["set_layout"] = {"pipeline_layout", "set"}
      /\ Feeds["pipeline_layout"] = {"pipe"}
  BY DEF Feeds
<1> HIDE DEF Feeds
<1>3. p \in MadeFrom(o) <=>
        \/ p \in Parents(o)
        \/ \E m \in DOMAIN Feeds : o[1] \in Feeds[m] /\ p = <<m, 0>>
        \/ o[1] = "frame_buffer" /\ p = <<"view", o[2]>>
  BY DEF MadeFrom, To
<1>4. (\E m \in DOMAIN Feeds : o[1] \in Feeds[m] /\ p = <<m, 0>>) <=> Inputs(o[1], p)
  BY <1>1, <1>2 DEF Inputs
<1>5. QED
  BY <1>3, <1>4

-----------------------------------------------------------------------------
(* What the parts of the orders list. *)

Surface == One(<<"surface", "query", "swap_chain", "query", "frames", "query">>)
Roots == One(<<"frames", "descriptor_pool", "cmd_pool", "render_pass", "swap_chain",
              "surface", "device", "instance", "gpu">>)
Pools == One(<<"present_sema", "render_sema", "descriptor_pool", "cmd_pool">>)
Fields == One(<<"render_sema", "present_sema", "depth_view", "depth_image", "depth_memory">>)
PerImage == Each(<<"fence", "cmds", "cmd_buffer", "frame_buffer", "view">>)

LEMMA Listed ==
  ASSUME NEW names \in Seq(Name), NEW S,
         \A n : n \in S <=> \E i \in 1 .. Len(names) : names[i] = n
  PROVE  One(names) \in Seq(Obj) /\ Members(One(names)) = S \X {0}
  BY OneIs, OneMembers

LEMMA ListedEach ==
  ASSUME NEW names \in Seq(Name), Len(names) \in {1, 3, 5}, NEW S,
         \A n : n \in S <=> \E i \in 1 .. Len(names) : names[i] = n
  PROVE  Each(names) \in Seq(Obj) /\ Members(Each(names)) = S \X (1 .. FrameCount)
<1>1. Each(names) \in Seq(Obj)
  BY EachIs
<1>2. Members(Each(names)) = {<<names[i], f>> : i \in 1 .. Len(names), f \in 1 .. FrameCount}
  BY EachMembers
<1>3. QED
  BY <1>1, <1>2

LEMMA InstanceIs ==
  /\ InstanceAndDevice \in Seq(Obj)
  /\ Members(InstanceAndDevice) =
       {"gpu", "instance", "query", "device"} \X {0}
<1> DEFINE names == <<"gpu", "instance", "query", "device">>
           S == {"gpu", "instance", "query", "device"}
<1>1. names \in Seq(Name) /\ Len(names) = 4
  BY DEF Name, GpuParts
<1>2. InstanceAndDevice = One(names)
  BY DEF InstanceAndDevice
<1>3. \A n : n \in S <=> \E i \in 1 .. Len(names) : names[i] = n
  OBVIOUS
<1>4. QED
  BY <1>1, <1>2, <1>3, Listed

LEMMA SurfaceIs ==
  /\ Surface \in Seq(Obj)
  /\ Members(Surface) =
       {"surface", "query", "swap_chain", "frames"} \X {0}
<1> DEFINE names == <<"surface", "query", "swap_chain", "query", "frames", "query">>
           S == {"surface", "query", "swap_chain", "frames"}
<1>1. names \in Seq(Name) /\ Len(names) = 6
  BY DEF Name, GpuParts
<1>2. Surface = One(names)
  BY DEF Surface
<1>3. \A n : n \in S <=> \E i \in 1 .. Len(names) : names[i] = n
  OBVIOUS
<1>4. QED
  BY <1>1, <1>2, <1>3, Listed

LEMMA ViewsIs ==
  /\ Each(<<"view">>) \in Seq(Obj)
  /\ Members(Each(<<"view">>)) =
       {"view"} \X (1 .. FrameCount)
<1> DEFINE names == <<"view">>
           S == {"view"}
<1>1. names \in Seq(Name) /\ Len(names) = 1
  BY DEF Name, ImageParts
<1>2. Each(<<"view">>) = Each(names)
  OBVIOUS
<1>3. \A n : n \in S <=> \E i \in 1 .. Len(names) : names[i] = n
  OBVIOUS
<1>4. QED
  BY <1>1, <1>2, <1>3, ListedEach

LEMMA DepthIs ==
  /\ DepthAndPass \in Seq(Obj)
  /\ Members(DepthAndPass) =
       {"depth_image", "depth_memory", "query", "depth_view", "render_pass"} \X {0}
<1> DEFINE names == <<"depth_image", "depth_memory", "query", "depth_view", "render_pass">>
           S == {"depth_image", "depth_memory", "query", "depth_view", "render_pass"}
<1>1. names \in Seq(Name) /\ Len(names) = 5
  BY DEF Name, GpuParts
<1>2. DepthAndPass = One(names)
  BY DEF DepthAndPass
<1>3. \A n : n \in S <=> \E i \in 1 .. Len(names) : names[i] = n
  OBVIOUS
<1>4. QED
  BY <1>1, <1>2, <1>3, Listed

LEMMA FrameBuffersIs ==
  /\ Each(<<"frame_buffer">>) \in Seq(Obj)
  /\ Members(Each(<<"frame_buffer">>)) =
       {"frame_buffer"} \X (1 .. FrameCount)
<1> DEFINE names == <<"frame_buffer">>
           S == {"frame_buffer"}
<1>1. names \in Seq(Name) /\ Len(names) = 1
  BY DEF Name, ImageParts
<1>2. Each(<<"frame_buffer">>) = Each(names)
  OBVIOUS
<1>3. \A n : n \in S <=> \E i \in 1 .. Len(names) : names[i] = n
  OBVIOUS
<1>4. QED
  BY <1>1, <1>2, <1>3, ListedEach

LEMMA PoolsAre ==
  /\ Pools \in Seq(Obj)
  /\ Members(Pools) =
       {"present_sema", "render_sema", "descriptor_pool", "cmd_pool"} \X {0}
<1> DEFINE names == <<"present_sema", "render_sema", "descriptor_pool", "cmd_pool">>
           S == {"present_sema", "render_sema", "descriptor_pool", "cmd_pool"}
<1>1. names \in Seq(Name) /\ Len(names) = 4
  BY DEF Name, GpuParts
<1>2. Pools = One(names)
  BY DEF Pools
<1>3. \A n : n \in S <=> \E i \in 1 .. Len(names) : names[i] = n
  OBVIOUS
<1>4. QED
  BY <1>1, <1>2, <1>3, Listed

LEMMA CmdsAre ==
  /\ CmdBuffers \in Seq(Obj)
  /\ Members(CmdBuffers) =
       {"cmd_buffer", "cmds", "fence"} \X (1 .. FrameCount)
<1> DEFINE names == <<"cmd_buffer", "cmds", "fence">>
           S == {"cmd_buffer", "cmds", "fence"}
<1>1. names \in Seq(Name) /\ Len(names) = 3
  BY DEF Name, ImageParts
<1>2. CmdBuffers = Each(names)
  BY DEF CmdBuffers
<1>3. \A n : n \in S <=> \E i \in 1 .. Len(names) : names[i] = n
  OBVIOUS
<1>4. QED
  BY <1>1, <1>2, <1>3, ListedEach

LEMMA LayoutsAre ==
  /\ MeshLayouts \in Seq(Obj)
  /\ Members(MeshLayouts) =
       {"binding_p", "attributes_p", "binding_pc", "attributes_pc"} \X {0}
<1> DEFINE names == <<"binding_p", "attributes_p", "binding_pc", "attributes_pc">>
           S == {"binding_p", "attributes_p", "binding_pc", "attributes_pc"}
<1>1. names \in Seq(Name) /\ Len(names) = 4
  BY DEF Name, GpuParts
<1>2. MeshLayouts = One(names)
  BY DEF MeshLayouts
<1>3. \A n : n \in S <=> \E i \in 1 .. Len(names) : names[i] = n
  OBVIOUS
<1>4. QED
  BY <1>1, <1>2, <1>3, Listed

LEMMA FieldsAre ==
  /\ Fields \in Seq(Obj)
  /\ Members(Fields) =
       {"render_sema", "present_sema", "depth_view", "depth_image", "depth_memory"} \X {0}
<1> DEFINE names == <<"render_sema", "present_sema", "depth_view", "depth_image",
                   "depth_memory">>
           S == {"render_sema", "present_sema", "depth_view", "depth_image", "depth_memory"}
<1>1. names \in Seq(Name) /\ Len(names) = 5
  BY DEF Name, GpuParts
<1>2. Fields = One(names)
  BY DEF Fields
<1>3. \A n : n \in S <=> \E i \in 1 .. Len(names) : names[i] = n
  OBVIOUS
<1>4. QED
  BY <1>1, <1>2, <1>3, Listed

LEMMA PerImageIs ==
  /\ PerImage \in Seq(Obj)
  /\ Members(PerImage) =
       {"fence", "cmds", "cmd_buffer", "frame_buffer", "view"} \X (1 .. FrameCount)
<1> DEFINE names == <<"fence", "cmds", "cmd_buffer", "frame_buffer", "view">>
           S == {"fence", "cmds", "cmd_buffer", "frame_buffer", "view"}
<1>1. names \in Seq(Name) /\ Len(names) = 5
  BY DEF Name, ImageParts
<1>2. PerImage = Each(names)
  BY DEF PerImage
<1>3. \A n : n \in S <=> \E i \in 1 .. Len(names) : names[i] = n
  OBVIOUS
<1>4. QED
  BY <1>1, <1>2, <1>3, ListedEach

LEMMA RootsAre ==
  /\ Roots \in Seq(Obj)
  /\ Members(Roots) =
       {"frames", "descriptor_pool", "cmd_pool", "render_pass", "swap_chain", "surface",
        "device", "instance", "gpu"} \X {0}
<1> DEFINE names == <<"frames", "descriptor_pool", "cmd_pool", "render_pass", "swap_chain",
                   "surface", "device", "instance", "gpu">>
           S == {"frames", "descriptor_pool", "cmd_pool", "render_pass", "swap_chain",
                 "surface", "device", "instance", "gpu"}
<1>1. names \in Seq(Name) /\ Len(names) = 9
  BY DEF Name, GpuParts
<1>2. Roots = One(names)
  BY DEF Roots
<1>3. \A n : n \in S <=> \E i \in 1 .. Len(names) : names[i] = n
  OBVIOUS
<1>4. QED
  BY <1>1, <1>2, <1>3, Listed

LEMMA CreateMeshIs ==
  /\ CreateMesh \in Seq(Obj)
  /\ Members(CreateMesh) =
       {"mesh", "vertex_buffer", "vertex_memory", "query", "index_buffer", "index_memory"} \X {0}
<1> DEFINE names == <<"mesh", "vertex_buffer", "vertex_memory", "query", "index_buffer",
                   "index_memory", "query">>
           S == {"mesh", "vertex_buffer", "vertex_memory", "query", "index_buffer",
                 "index_memory"}
<1>1. names \in Seq(Name) /\ Len(names) = 7
  BY DEF Name, MeshParts
<1>2. CreateMesh = One(names)
  BY DEF CreateMesh
<1>3. \A n : n \in S <=> \E i \in 1 .. Len(names) : names[i] = n
  OBVIOUS
<1>4. QED
  BY <1>1, <1>2, <1>3, Listed

LEMMA DestroyMeshIs ==
  /\ DestroyMesh \in Seq(Obj)
  /\ Members(DestroyMesh) =
       {"index_buffer", "index_memory", "vertex_buffer", "vertex_memory", "mesh"} \X {0}
<1> DEFINE names == <<"index_buffer", "index_memory", "vertex_buffer", "vertex_memory", "mesh">>
           S == {"index_buffer", "index_memory", "vertex_buffer", "vertex_memory", "mesh"}
<1>1. names \in Seq(Name) /\ Len(names) = 5
  BY DEF Name, MeshParts
<1>2. DestroyMesh = One(names)
  BY DEF DestroyMesh
<1>3. \A n : n \in S <=> \E i \in 1 .. Len(names) : names[i] = n
  OBVIOUS
<1>4. QED
  BY <1>1, <1>2, <1>3, Listed

LEMMA CreateShaderIs ==
  /\ CreateShader \in Seq(Obj)
  /\ Members(CreateShader) =
       {"shader", "vertex_module", "fragment_module", "set_layout"} \X {0}
<1> DEFINE names == <<"shader", "vertex_module", "fragment_module", "set_layout">>
           S == {"shader", "vertex_module", "fragment_module", "set_layout"}
<1>1. names \in Seq(Name) /\ Len(names) = 4
  BY DEF Name, ShaderParts
<1>2. CreateShader = One(names)
  BY DEF CreateShader
<1>3. \A n : n \in S <=> \E i \in 1 .. Len(names) : names[i] = n
  OBVIOUS
<1>4. QED
  BY <1>1, <1>2, <1>3, Listed

LEMMA DestroyShaderIs ==
  /\ DestroyShader \in Seq(Obj)
  /\ Members(DestroyShader) =
       {"vertex_module", "fragment_module", "set_layout", "shader"} \X {0}
<1> DEFINE names == <<"vertex_module", "fragment_module", "set_layout", "shader">>
           S == {"vertex_module", "fragment_module", "set_layout", "shader"}
<1>1. names \in Seq(Name) /\ Len(names) = 4
  BY DEF Name, ShaderParts
<1>2. DestroyShader = One(names)
  BY DEF DestroyShader
<1>3. \A n : n \in S <=> \E i \in 1 .. Len(names) : names[i] = n
  OBVIOUS
<1>4. QED
  BY <1>1, <1>2, <1>3, Listed

LEMMA CreatePipelineIs ==
  /\ CreatePipeline \in Seq(Obj)
  /\ Members(CreatePipeline) =
       {"pipeline", "pipeline_layout", "pipe"} \X {0}
<1> DEFINE names == <<"pipeline", "pipeline_layout", "pipe">>
           S == {"pipeline", "pipeline_layout", "pipe"}
<1>1. names \in Seq(Name) /\ Len(names) = 3
  BY DEF Name, PipelineParts
<1>2. CreatePipeline = One(names)
  BY DEF CreatePipeline
<1>3. \A n : n \in S <=> \E i \in 1 .. Len(names) : names[i] = n
  OBVIOUS
<1>4. QED
  BY <1>1, <1>2, <1>3, Listed

LEMMA DestroyPipelineIs ==
  /\ DestroyPipeline \in Seq(Obj)
  /\ Members(DestroyPipeline) =
       {"pipeline_layout", "pipe", "pipeline"} \X {0}
<1> DEFINE names == <<"pipeline_layout", "pipe", "pipeline">>
           S == {"pipeline_layout", "pipe", "pipeline"}
<1>1. names \in Seq(Name) /\ Len(names) = 3
  BY DEF Name, PipelineParts
<1>2. DestroyPipeline = One(names)
  BY DEF DestroyPipeline
<1>3. \A n : n \in S <=> \E i \in 1 .. Len(names) : names[i] = n
  OBVIOUS
<1>4. QED
  BY <1>1, <1>2, <1>3, Listed

LEMMA CreateUniformIs ==
  /\ CreateUniform \in Seq(Obj)
  /\ Members(CreateUniform) =
       {"uniform", "buffer", "memory", "query"} \X {0}
<1> DEFINE names == <<"uniform", "buffer", "memory", "query">>
           S == {"uniform", "buffer", "memory", "query"}
<1>1. names \in Seq(Name) /\ Len(names) = 4
  BY DEF Name, UniformParts
<1>2. CreateUniform = One(names)
  BY DEF CreateUniform
<1>3. \A n : n \in S <=> \E i \in 1 .. Len(names) : names[i] = n
  OBVIOUS
<1>4. QED
  BY <1>1, <1>2, <1>3, Listed

LEMMA DestroyUniformIs ==
  /\ DestroyUniform \in Seq(Obj)
  /\ Members(DestroyUniform) =
       {"buffer", "memory", "uniform"} \X {0}
<1> DEFINE names == <<"buffer", "memory", "uniform">>
           S == {"buffer", "memory", "uniform"}
<1>1. names \in Seq(Name) /\ Len(names) = 3
  BY DEF Name, UniformParts
<1>2. DestroyUniform = One(names)
  BY DEF DestroyUniform
<1>3. \A n : n \in S <=> \E i \in 1 .. Len(names) : names[i] = n
  OBVIOUS
<1>4. QED
  BY <1>1, <1>2, <1>3, Listed

LEMMA CreateDescriptorIs ==
  /\ CreateDescriptor \in Seq(Obj)
  /\ Members(CreateDescriptor) =
       {"descriptor", "set"} \X {0}
<1> DEFINE names == <<"descriptor", "set">>
           S == {"descriptor", "set"}
<1>1. names \in Seq(Name) /\ Len(names) = 2
  BY DEF Name, DescriptorParts
<1>2. CreateDescriptor = One(names)
  BY DEF CreateDescriptor
<1>3. \A n : n \in S <=> \E i \in 1 .. Len(names) : names[i] = n
  OBVIOUS
<1>4. QED
  BY <1>1, <1>2, <1>3, Listed

LEMMA DestroyDescriptorIs ==
  /\ DestroyDescriptor \in Seq(Obj)
  /\ Members(DestroyDescriptor) =
       {"set", "descriptor"} \X {0}
<1> DEFINE names == <<"set", "descriptor">>
           S == {"set", "descriptor"}
<1>1. names \in Seq(Name) /\ Len(names) = 2
  BY DEF Name, DescriptorParts
<1>2. DestroyDescriptor = One(names)
  BY DEF DestroyDescriptor
<1>3. \A n : n \in S <=> \E i \in 1 .. Len(names) : names[i] = n
  OBVIOUS
<1>4. QED
  BY <1>1, <1>2, <1>3, Listed

-----------------------------------------------------------------------------
(* The parts of each thing: what its create function lists, apart from the *)
(* calls that make nothing, and what its destroy function lists.           *)
PartsOf(thing) ==
  CASE thing = "gpu" -> (GpuParts \X {0}) \cup (ImageParts \X (1 .. FrameCount))
    [] thing = "mesh" -> MeshParts \X {0}
    [] thing = "shader" -> ShaderParts \X {0}
    [] thing = "pipeline" -> PipelineParts \X {0}
    [] thing = "uniform" -> UniformParts \X {0}
    [] thing = "descriptor" -> DescriptorParts \X {0}

Query == <<"query", 0>>

LEMMA Things == Thing = {"gpu", "mesh", "shader", "pipeline", "uniform", "descriptor"}
  BY DEF Thing, CreateOrder

LEMMA CreateGpuIs ==
  /\ CreateGpu \in Seq(Obj)
  /\ Members(CreateGpu) = PartsOf("gpu") \cup {Query}
<1> DEFINE A == InstanceAndDevice
           B == A \o (Surface \o Each(<<"view">>))
           C == B \o DepthAndPass
           D == C \o (Each(<<"frame_buffer">>) \o Pools)
           E == D \o CmdBuffers
           F == E \o MeshLayouts
<1>1. CreateGpu = F
  BY DEF CreateGpu, SurfaceAndFrames, FramesAndPools, Surface, Pools
<1>2. /\ Surface \o Each(<<"view">>) \in Seq(Obj)
      /\ Members(Surface \o Each(<<"view">>)) = Members(Surface) \cup Members(Each(<<"view">>))
  BY SurfaceIs, ViewsIs, ConcatMembers
<1>3. /\ Each(<<"frame_buffer">>) \o Pools \in Seq(Obj)
      /\ Members(Each(<<"frame_buffer">>) \o Pools)
           = Members(Each(<<"frame_buffer">>)) \cup Members(Pools)
  BY FrameBuffersIs, PoolsAre, ConcatMembers
<1>4. A \in Seq(Obj)
  BY InstanceIs
<1>5. /\ B \in Seq(Obj)
      /\ Members(B) = Members(A) \cup Members(Surface) \cup Members(Each(<<"view">>))
  <2> DEFINE t == Surface \o Each(<<"view">>)
  <2>1. t \in Seq(Obj) /\ Members(t) = Members(Surface) \cup Members(Each(<<"view">>))
    BY <1>2
  <2> HIDE DEF t, A
  <2>2. A \o t \in Seq(Obj) /\ Members(A \o t) = Members(A) \cup Members(t)
    BY <1>4, <2>1, ConcatMembers
  <2>3. B = A \o t
    BY DEF t
  <2>4. QED
    BY <2>1, <2>2, <2>3
<1>6. C \in Seq(Obj) /\ Members(C) = Members(B) \cup Members(DepthAndPass)
  BY <1>5, DepthIs, ConcatMembers
<1>7. /\ D \in Seq(Obj)
      /\ Members(D) = Members(C) \cup Members(Each(<<"frame_buffer">>)) \cup Members(Pools)
  <2> DEFINE t == Each(<<"frame_buffer">>) \o Pools
  <2>1. t \in Seq(Obj) /\ Members(t) = Members(Each(<<"frame_buffer">>)) \cup Members(Pools)
    BY <1>3
  <2> HIDE DEF t, C
  <2>2. C \o t \in Seq(Obj) /\ Members(C \o t) = Members(C) \cup Members(t)
    BY <1>6, <2>1, ConcatMembers
  <2>3. D = C \o t
    BY DEF t
  <2>4. QED
    BY <2>1, <2>2, <2>3
<1>8. E \in Seq(Obj) /\ Members(E) = Members(D) \cup Members(CmdBuffers)
  BY <1>7, CmdsAre, ConcatMembers
<1>9. F \in Seq(Obj) /\ Members(F) = Members(E) \cup Members(MeshLayouts)
  BY <1>8, LayoutsAre, ConcatMembers
<1> HIDE DEF A, B, C, D, E, F
<1>10. PartsOf("gpu") = (GpuParts \X {0}) \cup (ImageParts \X (1 .. FrameCount))
  BY DEF PartsOf
<1>11. A = InstanceAndDevice
  BY DEF A
<1>12. Members(F) = Members(InstanceAndDevice) \cup Members(Surface) \cup Members(DepthAndPass)
                      \cup Members(Pools) \cup Members(MeshLayouts)
                      \cup Members(Each(<<"view">>)) \cup Members(Each(<<"frame_buffer">>))
                      \cup Members(CmdBuffers)
  BY <1>5, <1>6, <1>7, <1>8, <1>9, <1>11
<1>13. Members(InstanceAndDevice) \cup Members(Surface) \cup Members(DepthAndPass)
         \cup Members(Pools) \cup Members(MeshLayouts) = (GpuParts \cup {"query"}) \X {0}
  BY InstanceIs, SurfaceIs, DepthIs, PoolsAre, LayoutsAre DEF GpuParts
<1>14. Members(Each(<<"view">>)) \cup Members(Each(<<"frame_buffer">>)) \cup Members(CmdBuffers)
         = ImageParts \X (1 .. FrameCount)
  BY ViewsIs, FrameBuffersIs, CmdsAre DEF ImageParts
<1>15. Members(F) = ((GpuParts \cup {"query"}) \X {0}) \cup (ImageParts \X (1 .. FrameCount))
  BY <1>12, <1>13, <1>14
<1>16. QED
  BY <1>1, <1>9, <1>10, <1>15 DEF Query

LEMMA DestroyGpuIs ==
  DestroyGpu \in Seq(Obj) /\ Members(DestroyGpu) = PartsOf("gpu")
<1> DEFINE A == MeshLayouts \o Fields
           B == A \o PerImage
           C == B \o Roots
<1>1. DestroyGpu = C
  BY DEF DestroyGpu, Fields, PerImage, Roots
<1>2. A \in Seq(Obj) /\ Members(A) = Members(MeshLayouts) \cup Members(Fields)
  BY LayoutsAre, FieldsAre, ConcatMembers
<1>3. B \in Seq(Obj) /\ Members(B) = Members(A) \cup Members(PerImage)
  BY <1>2, PerImageIs, ConcatMembers
<1>4. C \in Seq(Obj) /\ Members(C) = Members(B) \cup Members(Roots)
  BY <1>3, RootsAre, ConcatMembers
<1> HIDE DEF A, B, C
<1>5. Members(MeshLayouts) \cup Members(Fields) \cup Members(Roots) = GpuParts \X {0}
  BY LayoutsAre, FieldsAre, RootsAre DEF GpuParts
<1>6. Members(PerImage) = ImageParts \X (1 .. FrameCount)
  BY PerImageIs DEF ImageParts
<1>7. Members(C) = (GpuParts \X {0}) \cup (ImageParts \X (1 .. FrameCount))
  BY <1>2, <1>3, <1>4, <1>5, <1>6
<1>8. QED
  BY <1>1, <1>4, <1>7 DEF PartsOf

LEMMA Orders ==
  ASSUME NEW thing \in Thing
  PROVE  /\ CreateOrder[thing] \in Seq(Obj) /\ DestroyOrder[thing] \in Seq(Obj)
         /\ Members(CreateOrder[thing]) \ {Query} = PartsOf(thing)
         /\ Members(DestroyOrder[thing]) = PartsOf(thing)
         /\ PartsOf(thing) # {}
<1>1. CASE thing = "gpu"
  <2>1. Query \notin PartsOf("gpu") /\ <<"gpu", 0>> \in PartsOf("gpu")
    BY DEF Query, PartsOf, GpuParts, ImageParts
  <2>2. QED
    BY <1>1, <2>1, CreateGpuIs, DestroyGpuIs DEF CreateOrder, DestroyOrder
<1>2. CASE thing = "mesh"
  <2>1. PartsOf(thing) = MeshParts \X {0}
    BY <1>2 DEF PartsOf
  <2>2. CreateOrder[thing] = CreateMesh /\ DestroyOrder[thing] = DestroyMesh
    BY <1>2 DEF CreateOrder, DestroyOrder
  <2>3. <<"mesh", 0>> \in MeshParts \X {0}
    BY DEF MeshParts
  <2>4. Members(CreateMesh) \ {Query} = MeshParts \X {0} /\ Members(DestroyMesh) = MeshParts \X {0}
    BY CreateMeshIs, DestroyMeshIs DEF Query, MeshParts
  <2>5. QED
    BY <2>1, <2>2, <2>3, <2>4, CreateMeshIs, DestroyMeshIs
<1>3. CASE thing = "shader"
  <2>1. PartsOf(thing) = ShaderParts \X {0}
    BY <1>3 DEF PartsOf
  <2>2. CreateOrder[thing] = CreateShader /\ DestroyOrder[thing] = DestroyShader
    BY <1>3 DEF CreateOrder, DestroyOrder
  <2>3. <<"shader", 0>> \in ShaderParts \X {0}
    BY DEF ShaderParts
  <2>4. Members(CreateShader) \ {Query} = ShaderParts \X {0} /\ Members(DestroyShader) = ShaderParts \X {0}
    BY CreateShaderIs, DestroyShaderIs DEF Query, ShaderParts
  <2>5. QED
    BY <2>1, <2>2, <2>3, <2>4, CreateShaderIs, DestroyShaderIs
<1>4. CASE thing = "pipeline"
  <2>1. PartsOf(thing) = PipelineParts \X {0}
    BY <1>4 DEF PartsOf
  <2>2. CreateOrder[thing] = CreatePipeline /\ DestroyOrder[thing] = DestroyPipeline
    BY <1>4 DEF CreateOrder, DestroyOrder
  <2>3. <<"pipeline", 0>> \in PipelineParts \X {0}
    BY DEF PipelineParts
  <2>4. Members(CreatePipeline) \ {Query} = PipelineParts \X {0} /\ Members(DestroyPipeline) = PipelineParts \X {0}
    BY CreatePipelineIs, DestroyPipelineIs DEF Query, PipelineParts
  <2>5. QED
    BY <2>1, <2>2, <2>3, <2>4, CreatePipelineIs, DestroyPipelineIs
<1>5. CASE thing = "uniform"
  <2>1. PartsOf(thing) = UniformParts \X {0}
    BY <1>5 DEF PartsOf
  <2>2. CreateOrder[thing] = CreateUniform /\ DestroyOrder[thing] = DestroyUniform
    BY <1>5 DEF CreateOrder, DestroyOrder
  <2>3. <<"uniform", 0>> \in UniformParts \X {0}
    BY DEF UniformParts
  <2>4. Members(CreateUniform) \ {Query} = UniformParts \X {0} /\ Members(DestroyUniform) = UniformParts \X {0}
    BY CreateUniformIs, DestroyUniformIs DEF Query, UniformParts
  <2>5. QED
    BY <2>1, <2>2, <2>3, <2>4, CreateUniformIs, DestroyUniformIs
<1>6. CASE thing = "descriptor"
  <2>1. PartsOf(thing) = DescriptorParts \X {0}
    BY <1>6 DEF PartsOf
  <2>2. CreateOrder[thing] = CreateDescriptor /\ DestroyOrder[thing] = DestroyDescriptor
    BY <1>6 DEF CreateOrder, DestroyOrder
  <2>3. <<"descriptor", 0>> \in DescriptorParts \X {0}
    BY DEF DescriptorParts
  <2>4. Members(CreateDescriptor) \ {Query} = DescriptorParts \X {0} /\ Members(DestroyDescriptor) = DescriptorParts \X {0}
    BY CreateDescriptorIs, DestroyDescriptorIs DEF Query, DescriptorParts
  <2>5. QED
    BY <2>1, <2>2, <2>3, <2>4, CreateDescriptorIs, DestroyDescriptorIs
<1>7. QED
  BY <1>1, <1>2, <1>3, <1>4, <1>5, <1>6, Things

-----------------------------------------------------------------------------
(* What each order does about parents. *)

LEMMA PartsAreObjects ==
  ASSUME NEW thing \in Thing PROVE PartsOf(thing) \subseteq Obj
<1>1. 0 \in Nat /\ 1 .. FrameCount \subseteq Nat
  BY FrameCountAssumption
<1>2. QED
  BY <1>1, Things DEF PartsOf, Obj, Name

(* No part belongs to two things. *)
LEMMA Apart ==
  ASSUME NEW t \in Thing, NEW u \in Thing, t # u
  PROVE  PartsOf(t) \cap PartsOf(u) = {}
<1> SUFFICES ASSUME NEW o \in PartsOf(t), o \in PartsOf(u) PROVE FALSE
  OBVIOUS
<1>1. \A v \in Thing : o \in PartsOf(v) =>
        o[1] \in CASE v = "gpu" -> GpuParts \cup ImageParts
                   [] v = "mesh" -> MeshParts
                   [] v = "shader" -> ShaderParts
                   [] v = "pipeline" -> PipelineParts
                   [] v = "uniform" -> UniformParts
                   [] v = "descriptor" -> DescriptorParts
  BY Things DEF PartsOf
<1>2. QED
  BY <1>1, Things
  DEF GpuParts, ImageParts, MeshParts, ShaderParts, PipelineParts, UniformParts, DescriptorParts

Parts(things) == UNION {PartsOf(thing) : thing \in things}

LEMMA NeedsAre ==
  /\ Needs["gpu"] = {} /\ Needs["mesh"] = {"gpu"} /\ Needs["shader"] = {"gpu"}
  /\ Needs["pipeline"] = {"gpu", "shader"} /\ Needs["uniform"] = {"gpu"}
  /\ Needs["descriptor"] = {"gpu", "shader", "uniform"}
  BY DEF Needs

LEMMA GroundedOutside ==
  ASSUME NEW s \in Seq(Obj), NEW base, \A m \in Members(s) : MadeFrom(m) \subseteq base
  PROVE  Grounded(s, base)
  BY DEF Grounded, Members

LEMMA ReleasedOutside ==
  ASSUME NEW s \in Seq(Obj), NEW rest,
         \A m \in Members(s) : \A o \in rest \cup Members(s) : m \notin Parents(o)
  PROVE  Released(s, rest)
  BY DEF Released, Members

The(n) == <<n, 0>>

LEMMA GroundedOne ==
  ASSUME NEW names \in Seq(Name), NEW base,
         \A j \in 1 .. Len(names) : \A p \in MadeFrom(The(names[j])) :
           p \in base \/ \E i \in 1 .. j - 1 : p = The(names[i])
  PROVE  Grounded(One(names), base)
<1>1. Len(One(names)) = Len(names) /\ \A i \in 1 .. Len(names) : One(names)[i] = The(names[i])
  BY OneIs DEF The
<1>2. SUFFICES ASSUME NEW j \in 1 .. Len(names), NEW p \in MadeFrom(One(names)[j])
               PROVE  p \in base \/ \E i \in 1 .. j - 1 : p = One(names)[i]
  BY <1>1 DEF Grounded
<1>3. p \in base \/ \E i \in 1 .. j - 1 : p = The(names[i])
  BY <1>1
<1>4. QED
  BY <1>1, <1>3

LEMMA InstanceGrounded == Grounded(InstanceAndDevice, {})
<1> DEFINE names == <<"gpu", "instance", "query", "device">>
<1>1. /\ names \in Seq(Name) /\ Len(names) = 4
      /\ names[1] = "gpu" /\ names[2] = "instance" /\ names[3] = "query" /\ names[4] = "device"
  BY DEF Name, GpuParts
<1>2. InstanceAndDevice = One(names)
  BY DEF InstanceAndDevice
<1> HIDE DEF names
<1>3. ASSUME NEW j \in 1 .. 4, NEW p \in MadeFrom(One(names)[j])
      PROVE  \E i \in 1 .. j - 1 : One(names)[i] = p
  <2>1. One(names)[j] = <<names[j], 0>> /\ <<names[j], 0>> \in Obj
    BY <1>1, <1>3, OneIs DEF Obj
  <2>2. \E i \in 1 .. j - 1 : p = <<names[i], 0>>
    BY <1>1, <1>3, <2>1, ParentsAre, MadeFromAre DEF Inputs, OfDevice
  <2>3. \A i \in 1 .. j - 1 : One(names)[i] = <<names[i], 0>>
    BY <1>1, <1>3, OneIs
  <2>4. QED
    BY <2>2, <2>3
<1>4. Len(InstanceAndDevice) = 4
  BY <1>1, <1>2, OneIs
<1>5. QED
  BY <1>2, <1>3, <1>4 DEF Grounded

LEMMA SurfaceGrounded == Grounded(Surface, {The("gpu"), The("instance"), The("device")})
<1> DEFINE names == <<"surface", "query", "swap_chain", "query", "frames", "query">>
           base == {The("gpu"), The("instance"), The("device")}
<1>1. /\ names \in Seq(Name) /\ Len(names) = 6
      /\ names[1] = "surface" /\ names[2] = "query" /\ names[3] = "swap_chain"
      /\ names[4] = "query" /\ names[5] = "frames" /\ names[6] = "query"
  BY DEF Name, GpuParts
<1>2. Surface = One(names)
  BY DEF Surface
<1> HIDE DEF names
<1>3. ASSUME NEW j \in 1 .. 6, NEW p \in MadeFrom(One(names)[j])
      PROVE  p \in base \/ \E i \in 1 .. j - 1 : One(names)[i] = p
  <2>1. One(names)[j] = <<names[j], 0>> /\ <<names[j], 0>> \in Obj
    BY <1>1, <1>3, OneIs DEF Obj
  <2>2. p \in base \/ \E i \in 1 .. j - 1 : p = <<names[i], 0>>
    BY <1>1, <1>3, <2>1, ParentsAre, MadeFromAre DEF Inputs, OfDevice, The
  <2>3. \A i \in 1 .. j - 1 : One(names)[i] = <<names[i], 0>>
    BY <1>1, <1>3, OneIs
  <2>4. QED
    BY <2>2, <2>3
<1>4. Len(Surface) = 6
  BY <1>1, <1>2, OneIs
<1>5. QED
  BY <1>2, <1>3, <1>4 DEF Grounded

(* The image's command buffer comes right before the one that Vulkan       *)
(* allocates for it.                                                       *)
LEMMA CmdsGrounded ==
  Grounded(CmdBuffers, {The("frames"), The("device"), The("cmd_pool")})
<1> DEFINE names == <<"cmd_buffer", "cmds", "fence">>
           base == {The("frames"), The("device"), The("cmd_pool")}
<1>1. /\ names \in Seq(Name) /\ Len(names) = 3
      /\ names[1] = "cmd_buffer" /\ names[2] = "cmds" /\ names[3] = "fence"
  BY DEF Name, ImageParts
<1>2. CmdBuffers = Each(names)
  BY DEF CmdBuffers
<1> HIDE DEF names
<1>3. ASSUME NEW j \in 1 .. FrameCount * 3, NEW p \in MadeFrom(Each(names)[j])
      PROVE  p \in base \/ \E i \in 1 .. j - 1 : Each(names)[i] = p
  <2> DEFINE n == ((j - 1) % 3) + 1
             f == ((j - 1) \div 3) + 1
  <2>1. FrameCount \in Nat /\ n \in 1 .. 3 /\ f \in Nat
    BY <1>3, FrameCountAssumption
  <2>2. Each(names)[j] = <<names[n], f>>
    BY <1>1, <1>3, EachIs
  <2>3. n = 2 => /\ j - 1 \in 1 .. FrameCount * 3
                 /\ ((j - 1 - 1) % 3) + 1 = 1 /\ ((j - 1 - 1) \div 3) + 1 = f
    BY <1>3, FrameCountAssumption
  <2>4. n = 2 => Each(names)[j - 1] = <<names[1], f>>
    <3>1. \A k \in 1 .. FrameCount * 3 :
             Each(names)[k] = <<names[((k - 1) % 3) + 1], ((k - 1) \div 3) + 1>>
      BY <1>1, EachIs
    <3> HIDE DEF n, f
    <3>2. QED
      BY <2>3, <3>1
  <2> HIDE DEF n, f
  <2>5. Each(names)[j] \in Obj
    <3>1. names[n] \in Name
      <4>1. n = 1 \/ n = 2 \/ n = 3
        BY <2>1
      <4>2. QED
        BY <1>1, <4>1 DEF Name, ImageParts
    <3>2. QED
      BY <2>1, <2>2, <3>1 DEF Obj
  <2>6. p \in base \/ (n = 2 /\ p = <<names[1], f>>)
    BY <1>1, <1>3, <2>1, <2>2, <2>5, ParentsAre, MadeFromAre DEF Inputs, OfDevice, The
  <2>7. QED
    BY <1>3, <2>3, <2>4, <2>6
<1>4. Len(CmdBuffers) = FrameCount * 3
  BY <1>1, <1>2, EachIs
<1>5. QED
  BY <1>2, <1>3, <1>4 DEF Grounded

LEMMA DepthAndPassGrounded == Grounded(DepthAndPass, {The("device")})
<1> DEFINE names == <<"depth_image", "depth_memory", "query", "depth_view", "render_pass">>
           base == {The("device")}
<1>1. /\ names \in Seq(Name) /\ Len(names) = 5
      /\ names[1] = "depth_image" /\ names[2] = "depth_memory"
      /\ names[3] = "query" /\ names[4] = "depth_view" /\ names[5] = "render_pass"
  BY DEF Name, GpuParts, MeshParts, ShaderParts, PipelineParts, UniformParts, DescriptorParts
<1>2. DepthAndPass = One(names)
  BY DEF DepthAndPass
<1> HIDE DEF names
<1>3. ASSUME NEW j \in 1 .. 5, NEW p \in MadeFrom(The(names[j]))
      PROVE  p \in base \/ \E i \in 1 .. j - 1 : p = The(names[i])
  <2>1. The(names[j]) \in Obj /\ The(names[j])[1] = names[j]
    <3>1. names[j] \in Name
      BY <1>1, <1>3, ElementOfSeq
    <3>2. QED
      BY <3>1 DEF The, Obj
  <2>2. p \in Parents(The(names[j])) \/ Inputs(names[j], p)
    <3>1. names[j] # "frame_buffer"
      BY <1>1, <1>3
    <3>2. QED
      BY <1>3, <2>1, <3>1, MadeFromAre
  <2>3. QED
    BY <1>1, <1>3, <2>1, <2>2, ParentsAre DEF Inputs, OfDevice, The
<1>4. QED
  BY <1>1, <1>2, <1>3, GroundedOne

LEMMA GpuGrounded == Grounded(CreateGpu, {})
<1> DEFINE A == InstanceAndDevice
           B == Surface \o Each(<<"view">>)
           D == Each(<<"frame_buffer">>) \o Pools
           b == {The("gpu"), The("instance"), The("device")}
           c == {The("gpu"), The("frames"), The("device")}
           d == c \cup {The("depth_view"), The("render_pass")} \cup Members(Each(<<"view">>))
<1>1. CreateGpu = ((((A \o B) \o DepthAndPass) \o D) \o CmdBuffers) \o MeshLayouts
  BY DEF CreateGpu, SurfaceAndFrames, FramesAndPools, Surface, Pools
<1>2. Grounded(B, b)
  <2>1. \A m \in Members(Each(<<"view">>)) : MadeFrom(m) \subseteq b \cup Members(Surface)
    BY SurfaceIs, ViewsIs, ParentsAre, MadeFromAre DEF Inputs, The, OfDevice, Members
  <2>2. Grounded(Each(<<"view">>), b \cup Members(Surface))
    BY <2>1, ViewsIs, GroundedOutside
  <2>3. QED
    BY <2>2, SurfaceGrounded, SurfaceIs, ViewsIs, GroundedConcat
<1>3. Grounded(DepthAndPass, c)
  BY DepthAndPassGrounded, GroundedInMore
<1>4. D \in Seq(Obj) /\ Grounded(D, d)
  <2>1. /\ D \in Seq(Obj)
        /\ Members(D) = Members(Each(<<"frame_buffer">>)) \cup Members(Pools)
    BY FrameBuffersIs, PoolsAre, ConcatMembers
  <2>2. ASSUME NEW m \in Members(Each(<<"frame_buffer">>)), NEW p \in MadeFrom(m) PROVE p \in d
    <3>1. /\ m[1] = "frame_buffer" /\ m[2] \in 1 .. FrameCount /\ m \in Obj
          /\ <<"view", m[2]>> \in Members(Each(<<"view">>))
      <4>1. m \in {"frame_buffer"} \X (1 .. FrameCount)
        BY <2>2, FrameBuffersIs
      <4>2. m[1] = "frame_buffer" /\ m[2] \in 1 .. FrameCount /\ m = <<m[1], m[2]>>
        BY <4>1
      <4>3. <<"view", m[2]>> \in {"view"} \X (1 .. FrameCount)
        BY <4>2
      <4>4. m[1] \in Name /\ m[2] \in Nat
        BY <4>2 DEF Name, ImageParts
      <4>5. m \in Obj
        BY <4>2, <4>4 DEF Obj
      <4>6. QED
        BY <4>2, <4>3, <4>5, ViewsIs
    <3>2. p \in {The("frames"), The("device"), The("depth_view"), The("render_pass"),
                 <<"view", m[2]>>}
      BY <2>2, <3>1, ParentsAre, MadeFromAre DEF Inputs, OfDevice, The
    <3>3. QED
      BY <3>1, <3>2
  <2>3. \A m \in Members(Pools) : MadeFrom(m) \subseteq d
    <3>1. \A m \in Members(Pools) : MadeFrom(m) \subseteq {The("device")}
      BY PoolsAre, ParentsAre, MadeFromAre DEF Inputs, The, OfDevice, Members
    <3>2. QED
      BY <3>1
  <2> HIDE DEF D, d
  <2>4. \A m \in Members(D) : MadeFrom(m) \subseteq d
    BY <2>1, <2>2, <2>3
  <2>5. QED
    BY <2>1, <2>4, GroundedOutside
<1>5. Grounded(CmdBuffers, c \cup {The("cmd_pool")})
  BY CmdsGrounded, GroundedInMore
<1>6. Grounded(MeshLayouts, c)
  <2>1. \A m \in Members(MeshLayouts) : MadeFrom(m) \subseteq c
    BY LayoutsAre, ParentsAre, MadeFromAre DEF Inputs, The, OfDevice, Members
  <2>2. QED
    BY <2>1, LayoutsAre, GroundedOutside
<1>7. A \in Seq(Obj) /\ b \subseteq Members(A)
  BY InstanceIs DEF The
<1>17. Members(Each(<<"view">>)) \subseteq Members(B)
  BY SurfaceIs, ViewsIs, ConcatMembers
<1>18. {The("depth_view"), The("render_pass")} \subseteq Members(DepthAndPass)
  BY DepthIs DEF The
<1>8. B \in Seq(Obj) /\ The("frames") \in Members(B)
  BY SurfaceIs, ViewsIs, ConcatMembers DEF The
<1> DEFINE views == Members(Each(<<"view">>))
<1>9. The("cmd_pool") \in Members(D)
  BY FrameBuffersIs, PoolsAre, ConcatMembers DEF The
<1> DEFINE P == A \o B
           Q == P \o DepthAndPass
           R == Q \o D
           S == R \o CmdBuffers
<1>10. Grounded(A, {})
  BY InstanceGrounded
<1>19. c \subseteq b \cup {The("frames")} /\ d = c \cup {The("depth_view"), The("render_pass")} \cup views
  OBVIOUS
<1> HIDE DEF A, B, D, b, c, d, views
<1>11. P \in Seq(Obj) /\ Grounded(P, {}) /\ c \cup views \subseteq Members(P)
  <2>1. Grounded(B, {} \cup Members(A))
    BY <1>2, <1>7, GroundedInMore
  <2>2. P \in Seq(Obj) /\ Members(P) = Members(A) \cup Members(B)
    BY <1>7, <1>8, ConcatMembers
  <2>3. Grounded(P, {})
    BY <1>7, <1>8, <1>10, <2>1, GroundedConcat
  <2>4. QED
    BY <1>7, <1>8, <1>17, <1>19, <2>2, <2>3 DEF views
<1> HIDE DEF P
<1>12. Q \in Seq(Obj) /\ Grounded(Q, {}) /\ c \cup d \subseteq Members(Q)
  <2>1. Grounded(DepthAndPass, {} \cup Members(P))
    BY <1>3, <1>11, GroundedInMore
  <2>2. Q \in Seq(Obj) /\ Members(Q) = Members(P) \cup Members(DepthAndPass)
    BY <1>11, DepthIs, ConcatMembers
  <2>3. Grounded(Q, {})
    BY <1>11, DepthIs, <2>1, GroundedConcat
  <2>4. QED
    BY <1>11, <1>18, <1>19, <2>2, <2>3
<1> HIDE DEF Q
<1>13. R \in Seq(Obj) /\ Grounded(R, {}) /\ c \cup {The("cmd_pool")} \subseteq Members(R)
  <2>1. Grounded(D, {} \cup Members(Q))
    BY <1>4, <1>12, GroundedInMore
  <2>2. R \in Seq(Obj) /\ Members(R) = Members(Q) \cup Members(D)
    BY <1>4, <1>12, ConcatMembers
  <2>3. Grounded(R, {})
    BY <1>4, <1>12, <2>1, GroundedConcat
  <2>4. QED
    BY <1>9, <1>12, <2>2, <2>3
<1> HIDE DEF R
<1>14. S \in Seq(Obj) /\ Grounded(S, {}) /\ c \subseteq Members(S)
  <2>1. Grounded(CmdBuffers, {} \cup Members(R))
    BY <1>5, <1>13, GroundedInMore
  <2>2. S \in Seq(Obj) /\ Members(S) = Members(R) \cup Members(CmdBuffers)
    BY <1>13, CmdsAre, ConcatMembers
  <2>3. Grounded(S, {})
    BY <1>13, CmdsAre, <2>1, GroundedConcat
  <2>4. QED
    BY <1>13, <2>2, <2>3
<1> HIDE DEF S
<1>15. Grounded(S \o MeshLayouts, {})
  <2>1. Grounded(MeshLayouts, {} \cup Members(S))
    BY <1>6, <1>14, GroundedInMore
  <2>2. QED
    BY <1>14, LayoutsAre, <2>1, GroundedConcat
<1>16. QED
  BY <1>1, <1>15 DEF P, Q, R, S

LEMMA RootsReleased == Released(Roots, {})
<1> DEFINE names == <<"frames", "descriptor_pool", "cmd_pool", "render_pass", "swap_chain",
                      "surface", "device", "instance", "gpu">>
<1>1. /\ names \in Seq(Name) /\ Len(names) = 9
      /\ names[1] = "frames" /\ names[2] = "descriptor_pool" /\ names[3] = "cmd_pool"
      /\ names[4] = "render_pass" /\ names[5] = "swap_chain" /\ names[6] = "surface"
      /\ names[7] = "device" /\ names[8] = "instance" /\ names[9] = "gpu"
  BY DEF Name, GpuParts
<1>2. Roots = One(names)
  BY DEF Roots
<1> HIDE DEF names
<1>3. ASSUME NEW j \in 1 .. 9
      PROVE  Roots[j] = <<names[j], 0>> /\ Roots[j] \in Obj /\ Len(Roots) = 9
  <2>1. names[j] \in Name
    <3>1. j \in 1 .. Len(names)
      BY <1>1
    <3>2. QED
      BY <1>1, <3>1, ElementOfSeq
  <2>2. Roots[j] = <<names[j], 0>> /\ Len(Roots) = 9
    BY <1>1, <1>2, OneIs
  <2>3. QED
    BY <2>1, <2>2 DEF Obj
<1>4. ASSUME NEW j \in 1 .. 9, NEW i \in j + 1 .. 9 PROVE Roots[j] \notin Parents(Roots[i])
  <2>1. i \in 1 .. 9
    BY <1>4
  <2>2. Roots[i] = <<names[i], 0>> /\ Roots[i] \in Obj /\ Roots[j] = <<names[j], 0>>
    BY <1>3, <2>1
  <2>3. SUFFICES ASSUME Roots[j] \in Parents(Roots[i]) PROVE FALSE
    OBVIOUS
  <2>4. CASE i \in {2, 3, 4}
    <3>1. Roots[i][1] \in {"descriptor_pool", "cmd_pool", "render_pass"}
      BY <1>1, <2>2, <2>4
    <3>2. Roots[j] = <<"device", 0>>
      BY <2>2, <2>3, <3>1, ParentsAre
    <3>3. QED
      BY <1>1, <1>4, <2>2, <2>4, <3>2
  <2>5. CASE i = 5
    <3>1. Roots[j] = <<"device", 0>> \/ Roots[j] = <<"surface", 0>>
      BY <1>1, <2>2, <2>3, <2>5, ParentsAre
    <3>2. QED
      BY <1>1, <1>4, <2>2, <2>5, <3>1
  <2>6. CASE i \in {6, 7}
    <3>1. Roots[i][1] \in {"surface", "device"} /\ {"surface", "device"} \cap OfDevice = {}
      BY <1>1, <2>2, <2>6 DEF OfDevice
    <3>2. Roots[j] = <<"instance", 0>>
      BY <2>2, <2>3, <3>1, ParentsAre
    <3>3. QED
      BY <1>1, <1>4, <2>2, <2>6, <3>2
  <2>7. CASE i \in {8, 9}
    <3>1. Roots[i][1] \in {"instance", "gpu"} /\ {"instance", "gpu"} \cap OfDevice = {}
      BY <1>1, <2>2, <2>7 DEF OfDevice
    <3>2. Roots[j] = <<"gpu", 0>>
      BY <2>2, <2>3, <3>1, ParentsAre
    <3>3. QED
      BY <1>1, <1>4, <2>2, <2>7, <3>2
  <2>8. i \in 2 .. 9
    BY <1>4
  <2>9. QED
    BY <2>4, <2>5, <2>6, <2>7, <2>8
<1>5. Len(Roots) = 9
  BY <1>3
<1>6. QED
  BY <1>4, <1>5 DEF Released

(* An image's command buffer goes right after the one that Vulkan          *)
(* allocated for it.                                                       *)
LEMMA PerImageReleased == Released(PerImage, {o \in Obj : o[1] # "cmds"})
<1> DEFINE names == <<"fence", "cmds", "cmd_buffer", "frame_buffer", "view">>
           N(k) == ((k - 1) % 5) + 1
           F(k) == ((k - 1) \div 5) + 1
<1>1. /\ names \in Seq(Name) /\ Len(names) = 5
      /\ names[1] = "fence" /\ names[2] = "cmds" /\ names[3] = "cmd_buffer"
      /\ names[4] = "frame_buffer" /\ names[5] = "view"
  BY DEF Name, ImageParts
<1>2. PerImage = Each(names)
  BY DEF PerImage
<1> HIDE DEF names
<1>3. ASSUME NEW k \in 1 .. FrameCount * 5
      PROVE  /\ N(k) \in 1 .. 5 /\ F(k) \in Nat
             /\ PerImage[k] = <<names[N(k)], F(k)>>
  <2>1. N(k) \in 1 .. 5 /\ F(k) \in Nat
    BY <1>3, FrameCountAssumption
  <2>2. PerImage[k] = <<names[N(k)], F(k)>>
    BY <1>1, <1>2, <1>3, EachIs
  <2>3. QED
    BY <2>1, <2>2
<1>4. ASSUME NEW j \in 1 .. FrameCount * 5, NEW i \in j + 1 .. FrameCount * 5
      PROVE  ~(N(j) = 3 /\ N(i) = 2 /\ F(j) = F(i)) /\ i \in 1 .. FrameCount * 5
  BY <1>4, FrameCountAssumption
<1> HIDE DEF N, F
<1>5. ASSUME NEW k \in 1 .. FrameCount * 5 PROVE PerImage[k] \in Obj
  <2>1. names[N(k)] \in Name
    <3>1. N(k) \in 1 .. 5
      BY <1>3
    <3>2. N(k) \in 1 .. Len(names)
      BY <1>1, <3>1
    <3>3. QED
      BY <1>1, <3>2, ElementOfSeq
  <2>2. QED
    BY <1>3, <2>1 DEF Obj
<1>6. ASSUME NEW j \in 1 .. FrameCount * 5, NEW o \in Obj, PerImage[j] \in Parents(o)
      PROVE  o[1] = "cmds" /\ N(j) = 3 /\ o[2] = F(j)
  BY <1>1, <1>3, <1>6, ParentsAre
<1>7. ASSUME NEW j \in 1 .. FrameCount * 5, NEW i \in j + 1 .. FrameCount * 5
      PROVE  PerImage[j] \notin Parents(PerImage[i])
  <2>1. SUFFICES ASSUME PerImage[j] \in Parents(PerImage[i]) PROVE FALSE
    OBVIOUS
  <2>2. i \in 1 .. FrameCount * 5 /\ PerImage[i] \in Obj
    BY <1>4, <1>5
  <2>3. PerImage[i] = <<names[N(i)], F(i)>> /\ N(i) \in 1 .. 5
    BY <1>3, <2>2
  <2>4. PerImage[i][1] = "cmds" /\ N(j) = 3 /\ PerImage[i][2] = F(j)
    BY <1>6, <2>1, <2>2
  <2>5. N(i) = 2 /\ F(i) = F(j)
    BY <1>1, <2>3, <2>4
  <2>6. QED
    BY <1>4, <2>4, <2>5
<1>8. Len(PerImage) = FrameCount * 5
  BY <1>1, <1>2, EachIs
<1>9. QED
  BY <1>6, <1>7, <1>8 DEF Released

LEMMA ReleasedInLess ==
  ASSUME NEW s, NEW rest, NEW less, Released(s, rest), less \subseteq rest
  PROVE  Released(s, less)
  BY DEF Released

LEMMA GpuReleased == Released(DestroyGpu, {})
<1> DEFINE P == MeshLayouts \o Fields
           Q == P \o PerImage
<1>1. DestroyGpu = Q \o Roots
  BY DEF DestroyGpu, Fields, PerImage, Roots
<1>2. P \in Seq(Obj) /\ Members(P) = Members(MeshLayouts) \cup Members(Fields)
  BY LayoutsAre, FieldsAre, ConcatMembers
<1>3. \A m \in Members(MeshLayouts) \cup Members(Fields) : \A o \in Obj : m \notin Parents(o)
  BY LayoutsAre, FieldsAre, ParentsAre
<1> HIDE DEF P
<1>4. Members(P) \subseteq Obj
  BY <1>2 DEF Members
<1>5. Released(P, Obj)
  BY <1>2, <1>3, <1>4, ReleasedOutside
<1>6. \A o \in Members(Roots) : o \in Obj /\ o[1] # "cmds"
  BY RootsAre DEF Members
<1>7. Released(PerImage, {} \cup Members(Roots))
  BY <1>6, PerImageReleased, ReleasedInLess
<1>8. Members(PerImage) \cup Members(Roots) \subseteq Obj
  BY PerImageIs, RootsAre DEF Members
<1>9. Released(P, ({} \cup Members(Roots)) \cup Members(PerImage))
  BY <1>5, <1>8, ReleasedInLess
<1>10. Q \in Seq(Obj) /\ Released(Q, {} \cup Members(Roots))
  BY <1>2, <1>7, <1>9, PerImageIs, ConcatMembers, ReleasedConcat
<1> HIDE DEF Q
<1>11. QED
  BY <1>1, <1>10, RootsReleased, RootsAre, ReleasedConcat

(* The other create functions. *)
LEMMA CreateMeshGrounded == Grounded(CreateMesh, {The("device")})
<1> DEFINE names == <<"mesh", "vertex_buffer", "vertex_memory", "query", "index_buffer", "index_memory", "query">>
           base == {The("device")}
<1>1. /\ names \in Seq(Name) /\ Len(names) = 7
      /\ names[1] = "mesh" /\ names[2] = "vertex_buffer"
      /\ names[3] = "vertex_memory" /\ names[4] = "query"
      /\ names[5] = "index_buffer" /\ names[6] = "index_memory"
      /\ names[7] = "query"
  BY DEF Name, GpuParts, MeshParts, ShaderParts, PipelineParts, UniformParts, DescriptorParts
<1>2. CreateMesh = One(names)
  BY DEF CreateMesh
<1> HIDE DEF names
<1>3. ASSUME NEW j \in 1 .. 7, NEW p \in MadeFrom(The(names[j]))
      PROVE  p \in base \/ \E i \in 1 .. j - 1 : p = The(names[i])
  <2>1. The(names[j]) \in Obj /\ The(names[j])[1] = names[j]
    <3>1. names[j] \in Name
      BY <1>1, <1>3, ElementOfSeq
    <3>2. QED
      BY <3>1 DEF The, Obj
  <2>2. p \in Parents(The(names[j])) \/ Inputs(names[j], p)
    <3>1. names[j] # "frame_buffer"
      BY <1>1, <1>3
    <3>2. QED
      BY <1>3, <2>1, <3>1, MadeFromAre
  <2>3. QED
    BY <1>1, <1>3, <2>1, <2>2, ParentsAre DEF Inputs, OfDevice, The
<1>4. QED
  BY <1>1, <1>2, <1>3, GroundedOne

LEMMA CreateShaderGrounded == Grounded(CreateShader, {The("device")})
<1> DEFINE names == <<"shader", "vertex_module", "fragment_module", "set_layout">>
           base == {The("device")}
<1>1. /\ names \in Seq(Name) /\ Len(names) = 4
      /\ names[1] = "shader" /\ names[2] = "vertex_module"
      /\ names[3] = "fragment_module" /\ names[4] = "set_layout"
  BY DEF Name, GpuParts, MeshParts, ShaderParts, PipelineParts, UniformParts, DescriptorParts
<1>2. CreateShader = One(names)
  BY DEF CreateShader
<1> HIDE DEF names
<1>3. ASSUME NEW j \in 1 .. 4, NEW p \in MadeFrom(The(names[j]))
      PROVE  p \in base \/ \E i \in 1 .. j - 1 : p = The(names[i])
  <2>1. The(names[j]) \in Obj /\ The(names[j])[1] = names[j]
    <3>1. names[j] \in Name
      BY <1>1, <1>3, ElementOfSeq
    <3>2. QED
      BY <3>1 DEF The, Obj
  <2>2. p \in Parents(The(names[j])) \/ Inputs(names[j], p)
    <3>1. names[j] # "frame_buffer"
      BY <1>1, <1>3
    <3>2. QED
      BY <1>3, <2>1, <3>1, MadeFromAre
  <2>3. QED
    BY <1>1, <1>3, <2>1, <2>2, ParentsAre DEF Inputs, OfDevice, The
<1>4. QED
  BY <1>1, <1>2, <1>3, GroundedOne

PipelineInputs == {The(n) : n \in {"device", "render_pass", "binding_p", "attributes_p", "binding_pc",
                                  "attributes_pc", "vertex_module", "fragment_module", "set_layout"}}

LEMMA CreatePipelineGrounded == Grounded(CreatePipeline, PipelineInputs)
<1> DEFINE names == <<"pipeline", "pipeline_layout", "pipe">>
           base == PipelineInputs
<1>1. /\ names \in Seq(Name) /\ Len(names) = 3
      /\ names[1] = "pipeline" /\ names[2] = "pipeline_layout"
      /\ names[3] = "pipe"
  BY DEF Name, GpuParts, MeshParts, ShaderParts, PipelineParts, UniformParts, DescriptorParts
<1>2. CreatePipeline = One(names)
  BY DEF CreatePipeline
<1> HIDE DEF names
<1>3. ASSUME NEW j \in 1 .. 3, NEW p \in MadeFrom(The(names[j]))
      PROVE  p \in base \/ \E i \in 1 .. j - 1 : p = The(names[i])
  <2>1. The(names[j]) \in Obj /\ The(names[j])[1] = names[j]
    <3>1. names[j] \in Name
      BY <1>1, <1>3, ElementOfSeq
    <3>2. QED
      BY <3>1 DEF The, Obj
  <2>2. p \in Parents(The(names[j])) \/ Inputs(names[j], p)
    <3>1. names[j] # "frame_buffer"
      BY <1>1, <1>3
    <3>2. QED
      BY <1>3, <2>1, <3>1, MadeFromAre
  <2>3. QED
    BY <1>1, <1>3, <2>1, <2>2, ParentsAre DEF Inputs, OfDevice, The, PipelineInputs
<1>4. QED
  BY <1>1, <1>2, <1>3, GroundedOne

LEMMA CreateUniformGrounded == Grounded(CreateUniform, {The("device")})
<1> DEFINE names == <<"uniform", "buffer", "memory", "query">>
           base == {The("device")}
<1>1. /\ names \in Seq(Name) /\ Len(names) = 4
      /\ names[1] = "uniform" /\ names[2] = "buffer" /\ names[3] = "memory"
      /\ names[4] = "query"
  BY DEF Name, GpuParts, MeshParts, ShaderParts, PipelineParts, UniformParts, DescriptorParts
<1>2. CreateUniform = One(names)
  BY DEF CreateUniform
<1> HIDE DEF names
<1>3. ASSUME NEW j \in 1 .. 4, NEW p \in MadeFrom(The(names[j]))
      PROVE  p \in base \/ \E i \in 1 .. j - 1 : p = The(names[i])
  <2>1. The(names[j]) \in Obj /\ The(names[j])[1] = names[j]
    <3>1. names[j] \in Name
      BY <1>1, <1>3, ElementOfSeq
    <3>2. QED
      BY <3>1 DEF The, Obj
  <2>2. p \in Parents(The(names[j])) \/ Inputs(names[j], p)
    <3>1. names[j] # "frame_buffer"
      BY <1>1, <1>3
    <3>2. QED
      BY <1>3, <2>1, <3>1, MadeFromAre
  <2>3. QED
    BY <1>1, <1>3, <2>1, <2>2, ParentsAre DEF Inputs, OfDevice, The
<1>4. QED
  BY <1>1, <1>2, <1>3, GroundedOne

LEMMA CreateDescriptorGrounded == Grounded(CreateDescriptor, {The("descriptor_pool"), The("set_layout"), The("buffer")})
<1> DEFINE names == <<"descriptor", "set">>
           base == {The("descriptor_pool"), The("set_layout"), The("buffer")}
<1>1. /\ names \in Seq(Name) /\ Len(names) = 2
      /\ names[1] = "descriptor" /\ names[2] = "set"
  BY DEF Name, GpuParts, MeshParts, ShaderParts, PipelineParts, UniformParts, DescriptorParts
<1>2. CreateDescriptor = One(names)
  BY DEF CreateDescriptor
<1> HIDE DEF names
<1>3. ASSUME NEW j \in 1 .. 2, NEW p \in MadeFrom(The(names[j]))
      PROVE  p \in base \/ \E i \in 1 .. j - 1 : p = The(names[i])
  <2>1. The(names[j]) \in Obj /\ The(names[j])[1] = names[j]
    <3>1. names[j] \in Name
      BY <1>1, <1>3, ElementOfSeq
    <3>2. QED
      BY <3>1 DEF The, Obj
  <2>2. p \in Parents(The(names[j])) \/ Inputs(names[j], p)
    <3>1. names[j] # "frame_buffer"
      BY <1>1, <1>3
    <3>2. QED
      BY <1>3, <2>1, <3>1, MadeFromAre
  <2>3. QED
    BY <1>1, <1>3, <2>1, <2>2, ParentsAre DEF Inputs, OfDevice, The
<1>4. QED
  BY <1>1, <1>2, <1>3, GroundedOne

(* A create function finds what each object it makes is made from.         *)
LEMMA CreateGrounded ==
  ASSUME NEW thing \in Thing
  PROVE  Grounded(CreateOrder[thing], Parts(Needs[thing]))
<1>1. /\ PartsOf("gpu") = (GpuParts \X {0}) \cup (ImageParts \X (1 .. FrameCount))
      /\ PartsOf("shader") = ShaderParts \X {0} /\ PartsOf("uniform") = UniformParts \X {0}
  BY DEF PartsOf
<1>2. {The("device"), The("descriptor_pool"), The("render_pass"), The("binding_p"),
       The("attributes_p"), The("binding_pc"), The("attributes_pc")} \subseteq PartsOf("gpu")
  BY <1>1 DEF GpuParts, The
<1>3. {The("vertex_module"), The("fragment_module"), The("set_layout")} \subseteq PartsOf("shader")
  BY <1>1 DEF ShaderParts, The
<1>4. The("buffer") \in PartsOf("uniform")
  BY <1>1 DEF UniformParts, The
<1>5. CASE thing = "gpu"
  <2>1. {} \subseteq Parts(Needs[thing])
    OBVIOUS
  <2>2. QED
    BY <1>5, <2>1, GpuGrounded, GroundedInMore DEF CreateOrder
<1>6. CASE thing \in {"mesh", "shader", "uniform"}
  <2>1. {The("device")} \subseteq Parts(Needs[thing])
    BY <1>2, <1>6, NeedsAre DEF Parts
  <2>2. Grounded(CreateOrder[thing], {The("device")})
    BY <1>6, CreateMeshGrounded, CreateShaderGrounded, CreateUniformGrounded DEF CreateOrder
  <2>3. QED
    BY <2>1, <2>2, GroundedInMore
<1>7. CASE thing = "pipeline"
  <2>1. Parts(Needs[thing]) = PartsOf("gpu") \cup PartsOf("shader")
    BY <1>7, NeedsAre DEF Parts
  <2>2. PipelineInputs \subseteq Parts(Needs[thing])
    BY <1>2, <1>3, <2>1 DEF PipelineInputs
  <2>3. QED
    BY <1>7, <2>2, CreatePipelineGrounded, GroundedInMore DEF CreateOrder
<1>8. CASE thing = "descriptor"
  <2>1. Parts(Needs[thing]) = PartsOf("gpu") \cup PartsOf("shader") \cup PartsOf("uniform")
    BY <1>8, NeedsAre DEF Parts
  <2>2. {The("descriptor_pool"), The("set_layout"), The("buffer")} \subseteq Parts(Needs[thing])
    BY <1>2, <1>3, <1>4, <2>1
  <2>3. QED
    BY <1>8, <2>2, CreateDescriptorGrounded, GroundedInMore DEF CreateOrder
<1>9. QED
  BY <1>5, <1>6, <1>7, <1>8, Things

(* So all an object is made from is there as long as the things are that   *)
(* its own thing needs.                                                    *)
LEMMA NoQuery == ASSUME NEW o \in Obj PROVE Query \notin MadeFrom(o)
  BY ParentsAre, MadeFromAre DEF Inputs, Query

LEMMA MadeFromWithin ==
  ASSUME NEW thing \in Thing, NEW o \in PartsOf(thing)
  PROVE  MadeFrom(o) \subseteq PartsOf(thing) \cup Parts(Needs[thing])
<1> DEFINE s == CreateOrder[thing]
<1>1. /\ s \in Seq(Obj) /\ Members(s) \ {Query} = PartsOf(thing)
      /\ Grounded(s, Parts(Needs[thing]))
  BY Orders, CreateGrounded
<1> HIDE DEF s
<1>2. PICK j \in 1 .. Len(s) : o = s[j]
  BY <1>1 DEF Members
<1>3. ASSUME NEW p \in MadeFrom(o) PROVE p \in PartsOf(thing) \cup Parts(Needs[thing])
  <2>1. p # Query
    BY <1>3, NoQuery, PartsAreObjects
  <2>2. p \in Parts(Needs[thing]) \/ \E i \in 1 .. j - 1 : p = s[i]
    BY <1>1, <1>2, <1>3 DEF Grounded
  <2>3. ASSUME NEW i \in 1 .. j - 1, p = s[i] PROVE p \in PartsOf(thing)
    BY <1>1, <1>2, <2>1, <2>3 DEF Members
  <2>4. QED
    BY <2>2, <2>3
<1>4. QED
  BY <1>3

(* In the other destroy functions the struct is freed last. *)
LEMMA DestroyMeshLast ==
  \A j \in 1 .. Len(DestroyMesh) : DestroyMesh[j] = The("mesh") => j = Len(DestroyMesh)
<1> DEFINE names == <<"index_buffer", "index_memory", "vertex_buffer", "vertex_memory", "mesh">>
<1>1. names \in Seq(Name) /\ Len(names) = 5 /\ \A j \in 1 .. 5 : names[j] = "mesh" => j = 5
  BY DEF Name, MeshParts, ShaderParts, PipelineParts, UniformParts, DescriptorParts
<1>2. DestroyMesh = One(names)
  BY DEF DestroyMesh
<1> HIDE DEF names
<1>3. QED
  BY <1>1, <1>2, OneIs DEF The

LEMMA DestroyShaderLast ==
  \A j \in 1 .. Len(DestroyShader) : DestroyShader[j] = The("shader") => j = Len(DestroyShader)
<1> DEFINE names == <<"vertex_module", "fragment_module", "set_layout", "shader">>
<1>1. names \in Seq(Name) /\ Len(names) = 4 /\ \A j \in 1 .. 4 : names[j] = "shader" => j = 4
  BY DEF Name, MeshParts, ShaderParts, PipelineParts, UniformParts, DescriptorParts
<1>2. DestroyShader = One(names)
  BY DEF DestroyShader
<1> HIDE DEF names
<1>3. QED
  BY <1>1, <1>2, OneIs DEF The

LEMMA DestroyPipelineLast ==
  \A j \in 1 .. Len(DestroyPipeline) : DestroyPipeline[j] = The("pipeline") => j = Len(DestroyPipeline)
<1> DEFINE names == <<"pipeline_layout", "pipe", "pipeline">>
<1>1. names \in Seq(Name) /\ Len(names) = 3 /\ \A j \in 1 .. 3 : names[j] = "pipeline" => j = 3
  BY DEF Name, MeshParts, ShaderParts, PipelineParts, UniformParts, DescriptorParts
<1>2. DestroyPipeline = One(names)
  BY DEF DestroyPipeline
<1> HIDE DEF names
<1>3. QED
  BY <1>1, <1>2, OneIs DEF The

LEMMA DestroyUniformLast ==
  \A j \in 1 .. Len(DestroyUniform) : DestroyUniform[j] = The("uniform") => j = Len(DestroyUniform)
<1> DEFINE names == <<"buffer", "memory", "uniform">>
<1>1. names \in Seq(Name) /\ Len(names) = 3 /\ \A j \in 1 .. 3 : names[j] = "uniform" => j = 3
  BY DEF Name, MeshParts, ShaderParts, PipelineParts, UniformParts, DescriptorParts
<1>2. DestroyUniform = One(names)
  BY DEF DestroyUniform
<1> HIDE DEF names
<1>3. QED
  BY <1>1, <1>2, OneIs DEF The

LEMMA DestroyDescriptorLast ==
  \A j \in 1 .. Len(DestroyDescriptor) : DestroyDescriptor[j] = The("descriptor") => j = Len(DestroyDescriptor)
<1> DEFINE names == <<"set", "descriptor">>
<1>1. names \in Seq(Name) /\ Len(names) = 2 /\ \A j \in 1 .. 2 : names[j] = "descriptor" => j = 2
  BY DEF Name, MeshParts, ShaderParts, PipelineParts, UniformParts, DescriptorParts
<1>2. DestroyDescriptor = One(names)
  BY DEF DestroyDescriptor
<1> HIDE DEF names
<1>3. QED
  BY <1>1, <1>2, OneIs DEF The

(* A destroy function destroys no object before one it is the parent of.   *)
LEMMA DestroyReleased ==
  ASSUME NEW thing \in Thing PROVE Released(DestroyOrder[thing], {})
<1>1. CASE thing = "gpu"
  BY <1>1, GpuReleased DEF DestroyOrder
<1>2. CASE thing # "gpu"
  <2> DEFINE s == DestroyOrder[thing]
  <2>1. s \in Seq(Obj) /\ Members(s) = PartsOf(thing)
    BY Orders
  <2>2. \A j \in 1 .. Len(s) : s[j] = The(thing) => j = Len(s)
    BY <1>2, Things, DestroyMeshLast, DestroyShaderLast, DestroyPipelineLast, DestroyUniformLast,
       DestroyDescriptorLast DEF DestroyOrder
  <2> HIDE DEF s
  <2>3. ASSUME NEW m \in PartsOf(thing), NEW o \in PartsOf(thing), m \in Parents(o)
        PROVE  m = The(thing)
    <3>1. /\ o \in Obj /\ o[2] = 0 /\ m[2] = 0
          /\ o[1] \in MeshParts \cup ShaderParts \cup PipelineParts \cup UniformParts \cup DescriptorParts
          /\ m[1] \in CASE thing = "mesh" -> MeshParts
                         [] thing = "shader" -> ShaderParts
                         [] thing = "pipeline" -> PipelineParts
                         [] thing = "uniform" -> UniformParts
                         [] thing = "descriptor" -> DescriptorParts
          /\ m = <<m[1], 0>>
      BY <1>2, <2>3, Things, PartsAreObjects DEF PartsOf
    <3>2. m \in {The("mesh"), The("shader"), The("pipeline"), The("uniform"), The("descriptor"),
                 The("descriptor_pool"), The("device")}
      BY <2>3, <3>1, ParentsAre
      DEF The, MeshParts, ShaderParts, PipelineParts, UniformParts, DescriptorParts
    <3>3. QED
      BY <1>2, <3>1, <3>2, Things
      DEF The, MeshParts, ShaderParts, PipelineParts, UniformParts, DescriptorParts
  <2>4. ASSUME NEW j \in 1 .. Len(s), NEW i \in j + 1 .. Len(s) PROVE s[j] \notin Parents(s[i])
    <3>1. s[j] \in PartsOf(thing) /\ s[i] \in PartsOf(thing) /\ j # Len(s)
      BY <2>1, <2>4 DEF Members
    <3>2. QED
      BY <2>2, <2>3, <3>1
  <2>5. QED
    BY <2>4 DEF Released, s
<1>3. QED
  BY <1>1, <1>2

-----------------------------------------------------------------------------
(***************************************************************************)
(* The inductive invariant.  While a create function runs, what there is   *)
(* of its thing is what it has listed so far; while a destroy function     *)
(* runs, also as the tail of a create function that failed, it is part of  *)
(* what is still ahead.  Nothing else changes, and a thing that is needed  *)
(* stays.                                                                  *)
(***************************************************************************)
TypeInv ==
  /\ up \subseteq Thing
  /\ call.does \in {"none", "create", "destroy"} /\ call.thing \in Thing /\ call.step \in Nat
  /\ call = [does |-> call.does, thing |-> call.thing, step |-> call.step]
  /\ call.does = "none" => call = NoCall

NeedsInv ==
  /\ \A thing \in up : Needs[thing] \subseteq up
  /\ call.does # "none" => Needs[call.thing] \subseteq up
  /\ call.does = "create" => call.thing \notin up
  /\ call.does # "none" => \A thing \in up : call.thing \notin Needs[thing]

Others == Parts(up \ {call.thing})
MadeSoFar == {CreateOrder[call.thing][i] : i \in 1 .. call.step - 1} \ {Query}
Ahead == {DestroyOrder[call.thing][i] : i \in call.step .. Len(DestroyOrder[call.thing])}

ExistsInv ==
  /\ call.does = "none" => alive = Parts(up)
  /\ call.does = "create" =>
       /\ call.step \in 1 .. Len(CreateOrder[call.thing])
       /\ alive = Others \cup MadeSoFar
  /\ call.does = "destroy" =>
       /\ call.step \in 1 .. Len(DestroyOrder[call.thing])
       /\ Others \subseteq alive
       /\ alive \subseteq Others \cup (Ahead \cap PartsOf(call.thing))

IInv == TypeInv /\ NeedsInv /\ ExistsInv /\ ParentsOutliveChildren

LEMMA PartsAreObjectsOf == ASSUME NEW thing \in Thing PROVE ObjectsOf(thing) = PartsOf(thing)
<1>1. Members(CreateOrder[thing]) = ToSet(CreateOrder[thing]) 
  BY Orders DEF Members, ToSet
<1>2. \A o \in PartsOf(thing) : o[1] # "query"
  BY Things DEF PartsOf, GpuParts, ImageParts, MeshParts, ShaderParts, PipelineParts,
                UniformParts, DescriptorParts
<1>3. QED
  BY <1>1, <1>2, Orders DEF ObjectsOf, Query

LEMMA InitInv == Init => IInv
  BY Things DEF Init, IInv, TypeInv, NeedsInv, ExistsInv, ParentsOutliveChildren, NoCall, Parts

-----------------------------------------------------------------------------
(* One lemma per action. *)

LEMMA CreateKeeps ==
  ASSUME IInv, NEW thing \in Thing, Create(thing)
  PROVE  IInv'
<1>1. /\ call' = [does |-> "create", thing |-> thing, step |-> 1]
      /\ alive' = alive /\ up' = up /\ thing \notin up /\ Needs[thing] \subseteq up
      /\ call = NoCall /\ alive = Parts(up)
  BY DEF Create, Calls, IInv, TypeInv, ExistsInv, NoCall
<1>2. \A t \in up : thing \notin Needs[t]
  BY <1>1 DEF IInv, NeedsInv
<1>3. Len(CreateOrder[thing]) \in Nat \ {0}
  <2>1. CreateOrder[thing] \in Seq(Obj) /\ Members(CreateOrder[thing]) # {}
    BY Orders
  <2>2. QED
    BY <2>1 DEF Members
<1>4. TypeInv'
  BY <1>1 DEF IInv, TypeInv
<1>5. NeedsInv'
  BY <1>1, <1>2 DEF IInv, NeedsInv
<1>6. ExistsInv'
  <2>1. MadeSoFar' = {} /\ Others' = Parts(up)
    BY <1>1 DEF MadeSoFar, Others, Parts
  <2>2. QED
    BY <1>1, <1>3, <2>1 DEF ExistsInv
<1>7. QED
  BY <1>1, <1>4, <1>5, <1>6 DEF IInv, ParentsOutliveChildren

LEMMA StartsDestroying ==
  ASSUME NEW thing \in Thing,
         alive \subseteq Parts(up \ {thing}) \cup PartsOf(thing),
         Parts(up \ {thing}) \subseteq alive,
         up' = up, alive' = alive,
         call' = [does |-> "destroy", thing |-> thing, step |-> 1]
  PROVE  ExistsInv'
<1> DEFINE s == DestroyOrder[thing]
<1>1. s \in Seq(Obj) /\ Members(s) = PartsOf(thing) /\ PartsOf(thing) # {}
  BY Orders
<1> HIDE DEF s
<1>2. Len(s) \in Nat \ {0}
  BY <1>1 DEF Members
<1>3. Ahead' = Members(s)
  BY DEF Ahead, Members, s
<1>4. Others' = Parts(up \ {thing})
  BY DEF Others, Parts
<1>5. (call.does)' = "destroy" /\ (call.step)' = 1 /\ (call.thing)' = thing
  OBVIOUS
<1>6. 1 \in 1 .. Len(s) /\ s = DestroyOrder[thing]
  BY <1>2 DEF s
<1>7. /\ Others' \subseteq alive'
      /\ alive' \subseteq Others' \cup (Ahead' \cap PartsOf(thing))
  BY <1>1, <1>3, <1>4
<1>8. QED
  BY <1>5, <1>6, <1>7 DEF ExistsInv

LEMMA DestroyKeeps ==
  ASSUME IInv, NEW thing \in Thing, Destroy(thing)
  PROVE  IInv'
<1>1. /\ call' = [does |-> "destroy", thing |-> thing, step |-> 1]
      /\ alive' = alive /\ up' = up /\ thing \in up /\ \A t \in up : thing \notin Needs[t]
      /\ call = NoCall /\ alive = Parts(up)
  BY DEF Destroy, Calls, IInv, TypeInv, ExistsInv, NoCall
<1>2. TypeInv'
  BY <1>1 DEF IInv, TypeInv
<1>3. NeedsInv'
  BY <1>1 DEF IInv, NeedsInv
<1>4. ExistsInv'
  BY <1>1, StartsDestroying DEF Parts
<1>5. QED
  BY <1>1, <1>2, <1>3, <1>4 DEF IInv, ParentsOutliveChildren

LEMMA FailsKeeps ==
  ASSUME IInv, Fails
  PROVE  IInv'
<1> DEFINE thing == call.thing
<1>1. /\ call.does = "create" /\ thing \in Thing /\ alive' = alive /\ up' = up
      /\ call' = [does |-> "destroy", thing |-> thing, step |-> 1]
  BY DEF Fails, Calls, IInv, TypeInv
<1>2. TypeInv'
  BY <1>1 DEF IInv, TypeInv
<1>3. NeedsInv'
  BY <1>1 DEF IInv, NeedsInv
<1>4. ExistsInv'
  <2>1. MadeSoFar \subseteq PartsOf(thing)
    <3>1. /\ Members(CreateOrder[thing]) \ {Query} = PartsOf(thing)
          /\ call.step \in 1 .. Len(CreateOrder[thing])
      BY <1>1, Orders DEF IInv, ExistsInv
    <3>2. QED
      BY <3>1 DEF MadeSoFar, Members
  <2>2. alive = Parts(up \ {thing}) \cup MadeSoFar
    BY <1>1 DEF IInv, ExistsInv, Others
  <2>3. QED
    BY <1>1, <2>1, <2>2, StartsDestroying
<1>5. QED
  BY <1>1, <1>2, <1>3, <1>4 DEF IInv, ParentsOutliveChildren

LEMMA MakesKeeps ==
  ASSUME IInv, Makes
  PROVE  IInv'
<1> DEFINE thing == call.thing
           s == CreateOrder[thing]
           k == call.step
           base == Parts(Needs[thing])
<1>1. /\ call.does = "create" /\ thing \in Thing /\ k \in 1 .. Len(s)
      /\ alive = Others \cup MadeSoFar /\ thing \notin up
      /\ up \subseteq Thing /\ Needs[thing] \subseteq up
  BY DEF Makes, IInv, TypeInv, ExistsInv, NeedsInv
<1>2. s \in Seq(Obj) /\ Members(s) \ {Query} = PartsOf(thing) /\ Grounded(s, base)
  BY <1>1, Orders, CreateGrounded
<1>3. s[k] \in Members(s) /\ s[k] \in Obj
  BY <1>1, <1>2 DEF Members
<1>4. s[k][1] = "query" <=> s[k] = Query
  <2>1. s[k] # Query => s[k] \in ObjectsOf(thing)
    BY <1>1, <1>2, <1>3, PartsAreObjectsOf
  <2>2. QED
    BY <2>1 DEF ObjectsOf, Query
<1>5. alive' = alive \cup ({s[k]} \ {Query})
  BY <1>4 DEF Makes, Object
<1>6. alive' = Others \cup ({s[i] : i \in 1 .. k} \ {Query})
  <2>1. {s[i] : i \in 1 .. k} = {s[i] : i \in 1 .. k - 1} \cup {s[k]}
    BY <1>1
  <2>2. QED
    BY <1>1, <1>5, <2>1 DEF MadeSoFar
<1>7. base \subseteq alive
  BY <1>1 DEF Others, Parts
<1>8. Parents(s[k]) \subseteq alive
  <2>1. Query \notin MadeFrom(s[k]) /\ Parents(s[k]) \subseteq MadeFrom(s[k])
    BY <1>3, NoQuery DEF MadeFrom
  <2>2. MadeFrom(s[k]) \subseteq base \cup {s[i] : i \in 1 .. k - 1}
    BY <1>1, <1>2 DEF Grounded
  <2>3. {s[i] : i \in 1 .. k - 1} \ {Query} \subseteq alive
    BY <1>1 DEF MadeSoFar
  <2>4. QED
    BY <1>7, <2>1, <2>2, <2>3
<1>9. ParentsOutliveChildren'
  BY <1>5, <1>8 DEF IInv, ParentsOutliveChildren
<1>10. CASE k = Len(s)
  <2>1. up' = up \cup {thing} /\ call' = NoCall
    BY <1>10 DEF Makes
  <2>2. {s[i] : i \in 1 .. k} \ {Query} = PartsOf(thing)
    BY <1>2, <1>10 DEF Members
  <2>3. alive' = Parts(up')
    BY <1>1, <1>6, <2>1, <2>2 DEF Others, Parts
  <2>4. TypeInv'
    BY <1>1, <2>1, Things DEF TypeInv, NoCall
  <2>5. NeedsInv'
    BY <1>1, <2>1 DEF IInv, NeedsInv, NoCall
  <2>6. QED
    BY <1>9, <2>1, <2>3, <2>4, <2>5 DEF IInv, ExistsInv, NoCall
<1>11. CASE k # Len(s)
  <2>1. up' = up /\ call' = [does |-> "create", thing |-> thing, step |-> k + 1]
    BY <1>1, <1>11 DEF Makes, IInv, TypeInv
  <2>2. Others' = Others /\ MadeSoFar' = {s[i] : i \in 1 .. k} \ {Query}
    BY <1>1, <2>1 DEF Others, MadeSoFar
  <2>3. TypeInv'
    BY <1>1, <2>1 DEF IInv, TypeInv
  <2>4. NeedsInv'
    BY <1>1, <2>1 DEF IInv, NeedsInv
  <2>5. ExistsInv'
    BY <1>1, <1>6, <1>11, <2>1, <2>2 DEF ExistsInv
  <2>6. QED
    BY <1>9, <2>3, <2>4, <2>5 DEF IInv
<1>12. QED
  BY <1>10, <1>11

LEMMA DestroysKeeps ==
  ASSUME IInv, Destroys
  PROVE  IInv'
<1> DEFINE thing == call.thing
           s == DestroyOrder[thing]
           k == call.step
           Left(n) == {s[i] : i \in n .. Len(s)}
<1>1. /\ call.does = "destroy" /\ thing \in Thing /\ k \in 1 .. Len(s)
      /\ Others \subseteq alive /\ alive \subseteq Others \cup (Left(k) \cap PartsOf(thing))
      /\ up \subseteq Thing /\ \A t \in up : thing \notin Needs[t] /\ Needs[t] \subseteq up
  BY DEF Destroys, IInv, TypeInv, ExistsInv, NeedsInv, Ahead
<1>2. s \in Seq(Obj) /\ Members(s) = PartsOf(thing) /\ Released(s, {})
  BY <1>1, Orders, DestroyReleased
<1>3. s[k] \in PartsOf(thing) /\ alive' = alive \ {s[k]}
  BY <1>1, <1>2 DEF Members, Destroys
<1>4. s[k] \notin Others
  BY <1>1, <1>3, Apart DEF Others, Parts
<1>5. Others \subseteq alive' /\ alive' \subseteq Others \cup (Left(k + 1) \cap PartsOf(thing))
  <2>1. Left(k) = Left(k + 1) \cup {s[k]}
    BY <1>1
  <2>2. QED
    BY <1>1, <1>3, <1>4, <2>1
<1>6. ASSUME NEW o \in alive' PROVE s[k] \notin Parents(o)
  <2>1. CASE o \in Others
    <3>1. PICK t \in up \ {thing} : o \in PartsOf(t)
      BY <2>1 DEF Others, Parts
    <3>2. /\ t \in Thing /\ t # thing /\ thing \notin Needs[t] /\ Needs[t] \subseteq Thing
      BY <1>1, <3>1
    <3>3. Parents(o) \subseteq PartsOf(t) \cup Parts(Needs[t])
      BY <3>1, <3>2, MadeFromWithin DEF MadeFrom
    <3>4. QED
      BY <1>1, <1>3, <3>2, <3>3, Apart DEF Parts
  <2>2. CASE o \in Left(k + 1)
    BY <1>1, <1>2, <2>2 DEF Released
  <2>3. QED
    BY <1>5, <2>1, <2>2
<1>7. ParentsOutliveChildren'
  BY <1>3, <1>6 DEF IInv, ParentsOutliveChildren
<1>8. CASE k = Len(s)
  <2>1. up' = up \ {thing} /\ call' = NoCall
    BY <1>8 DEF Destroys
  <2>2. Left(k + 1) = {}
    BY <1>1, <1>8
  <2>3. alive' = Parts(up')
    BY <1>5, <2>1, <2>2 DEF Others
  <2>4. TypeInv'
    BY <1>1, <2>1, Things DEF TypeInv, NoCall
  <2>5. NeedsInv'
    BY <1>1, <2>1 DEF NeedsInv, NoCall
  <2>6. QED
    BY <1>7, <2>1, <2>3, <2>4, <2>5 DEF IInv, ExistsInv, NoCall
<1>9. CASE k # Len(s)
  <2>1. up' = up /\ call' = [does |-> "destroy", thing |-> thing, step |-> k + 1]
    BY <1>1, <1>9 DEF Destroys, IInv, TypeInv
  <2>2. Others' = Others /\ Ahead' = Left(k + 1)
    BY <2>1 DEF Others, Ahead
  <2>3. TypeInv'
    BY <1>1, <2>1 DEF IInv, TypeInv
  <2>4. NeedsInv'
    BY <1>1, <2>1 DEF IInv, NeedsInv
  <2>5. ExistsInv'
    BY <1>1, <1>5, <1>9, <2>1, <2>2 DEF ExistsInv
  <2>6. QED
    BY <1>7, <2>3, <2>4, <2>5 DEF IInv
<1>10. QED
  BY <1>8, <1>9

LEMMA InvStep == IInv /\ [Next]_vars => IInv'
<1> SUFFICES ASSUME IInv, [Next]_vars PROVE IInv'
  OBVIOUS
<1>1. CASE UNCHANGED vars
  <2>1. alive' = alive /\ up' = up /\ call' = call
    BY <1>1 DEF vars
  <2>2. Others' = Others /\ MadeSoFar' = MadeSoFar /\ Ahead' = Ahead
    BY <2>1 DEF Others, MadeSoFar, Ahead
  <2>3. ExistsInv'
    BY <2>1, <2>2 DEF IInv, ExistsInv
  <2>4. TypeInv' /\ NeedsInv' /\ ParentsOutliveChildren'
    BY <2>1 DEF IInv, TypeInv, NeedsInv, ParentsOutliveChildren
  <2>5. QED
    BY <2>3, <2>4 DEF IInv
<1>2. QED
  BY <1>1, CreateKeeps, DestroyKeeps, MakesKeeps, FailsKeeps, DestroysKeeps DEF Next

-----------------------------------------------------------------------------
(* Between calls exactly the objects of the things in hand exist, whatever *)
(* Vulkan refused before: the paths of gpu_create and its kin that fail    *)
(* call a destroy function that goes over every field they may have set.   *)
THEOREM NothingEverLeaks == Spec => []NothingLeaks
<1>1. IInv => NothingLeaks
  <2> SUFFICES ASSUME IInv, call = NoCall
               PROVE  alive = UNION {ObjectsOf(thing) : thing \in up}
    BY DEF NothingLeaks
  <2>1. alive = Parts(up) /\ up \subseteq Thing
    BY DEF IInv, TypeInv, ExistsInv, NoCall
  <2>2. \A thing \in up : ObjectsOf(thing) = PartsOf(thing)
    BY <2>1, PartsAreObjectsOf
  <2>3. QED
    BY <2>1, <2>2 DEF Parts
<1>2. QED
  BY <1>1, InitInv, InvStep, PTL DEF Spec

(* What a create function is about to make finds all it is made from: it   *)
(* is of the things at hand, or made before by the same function.          *)
LEMMA AllInPlace == IInv => InputsInPlace
<1> SUFFICES ASSUME IInv, call.does # "destroy", NEW o \in alive, NEW p \in MadeFrom(o)
             PROVE  p \in alive
  BY DEF InputsInPlace
<1>1. /\ up \subseteq Thing /\ call.thing \in Thing
      /\ \A t \in up : Needs[t] \subseteq up
  BY DEF IInv, TypeInv, NeedsInv
<1>2. ASSUME NEW t \in up, o \in PartsOf(t), Parts(up) \subseteq alive PROVE p \in alive
  <2>1. p \in PartsOf(t) \cup Parts(Needs[t])
    BY <1>1, <1>2, MadeFromWithin
  <2>2. QED
    BY <1>1, <1>2, <2>1 DEF Parts
<1>3. CASE call.does = "none"
  <2>1. alive = Parts(up)
    BY <1>3 DEF IInv, ExistsInv
  <2>2. PICK t \in up : o \in PartsOf(t)
    BY <2>1 DEF Parts
  <2>3. QED
    BY <1>2, <2>1, <2>2
<1>4. CASE call.does = "create"
  <2> DEFINE s == CreateOrder[call.thing]
  <2>1. /\ call.thing \notin up /\ Needs[call.thing] \subseteq up
        /\ call.step \in 1 .. Len(s) /\ alive = Others \cup MadeSoFar /\ Others = Parts(up)
    BY <1>4 DEF IInv, ExistsInv, NeedsInv, Others
  <2>2. CASE o \in Others
    <3>1. PICK t \in up : o \in PartsOf(t)
      BY <2>1, <2>2 DEF Parts
    <3>2. QED
      BY <1>2, <2>1, <3>1
  <2>3. CASE o \in MadeSoFar
    <3>1. PICK j \in 1 .. call.step - 1 : o = s[j]
      BY <2>3 DEF MadeSoFar
    <3>2. s \in Seq(Obj) /\ j \in 1 .. Len(s) /\ s[j] \in Obj /\ Grounded(s, Parts(Needs[call.thing]))
      BY <1>1, <2>1, <3>1, Orders, CreateGrounded, ElementOfSeq
    <3>3. p # Query
      BY <3>1, <3>2, NoQuery
    <3>4. p \in Parts(Needs[call.thing]) \/ \E i \in 1 .. j - 1 : p = s[i]
      BY <3>1, <3>2 DEF Grounded
    <3>5. CASE p \in Parts(Needs[call.thing])
      BY <2>1, <3>5 DEF Parts
    <3>6. ASSUME NEW i \in 1 .. j - 1, p = s[i] PROVE p \in MadeSoFar
      BY <2>1, <3>1, <3>3, <3>6 DEF MadeSoFar
    <3>7. QED
      BY <2>1, <3>4, <3>5, <3>6
  <2>4. QED
    BY <2>1, <2>2, <2>3
<1>5. QED
  BY <1>3, <1>4 DEF IInv, TypeInv

(* By the orders in which the create and the destroy functions of gpu.c go *)
(* over their fields, at whichever step a create function fails, nothing   *)
(* is destroyed before what it is the parent of, nothing is made before    *)
(* all it is made from, and what is left when a destroy function returns   *)
(* was made from nothing it has destroyed.                                 *)
THEOREM NothingEverDangles == Spec => []NothingDangles
<1>1. IInv => NothingDangles
  BY AllInPlace DEF IInv, NothingDangles
<1>2. QED
  BY <1>1, InitInv, InvStep, PTL DEF Spec

-----------------------------------------------------------------------------
(***************************************************************************)
(* TLSF, in numbers.                                                       *)
(***************************************************************************)

(* Induction over numbers, as an operator that takes no operator. *)
LEMMA Least ==
  ASSUME NEW T, T \subseteq Nat, T # {}
  PROVE  \E x \in T : \A y \in T : x <= y
<1> DEFINE R == OpToRel(<, Nat)
<1>1. IsWellFoundedOn(R, Nat)
  BY NatLessThanWellFounded
<1> HIDE DEF R
<1>2. \E x \in T : \A y \in T : ~(<<y, x>> \in R)
  BY <1>1, WFMin
<1>3. \A x, y \in Nat : y < x => <<y, x>> \in R
  BY DEF R, OpToRel
<1>4. PICK x \in T : \A y \in T : ~(<<y, x>> \in R)
  BY <1>2
<1>5. ASSUME NEW y \in T PROVE x <= y
  <2>1. x \in Nat /\ y \in Nat /\ ~(<<y, x>> \in R)
    BY <1>4
  <2>2. ~(y < x)
    BY <2>1, <1>3
  <2>3. QED
    BY <2>1, <2>2
<1>6. QED
  BY <1>4, <1>5

(* What holds at 0 and of a number if of the one before holds throughout. *)
LEMMA UpFromZero ==
  ASSUME NEW N \in Nat, NEW A, 0 \in A, \A k \in 1 .. N : k - 1 \in A => k \in A
  PROVE  0 .. N \subseteq A
<1> DEFINE T == (0 .. N) \ A
<1>1. ASSUME T # {} PROVE FALSE
  <2>1. T \subseteq Nat
    OBVIOUS
  <2> HIDE DEF T
  <2>2. PICK k \in T : \A m \in T : k <= m
    BY <1>1, <2>1, Least, Zenon
  <2>3. k \in 0 .. N /\ k \notin A
    BY DEF T
  <2>4. k \in 1 .. N /\ k - 1 \in 0 .. N /\ ~(k <= k - 1)
    BY <2>3
  <2>5. k - 1 \notin T
    BY <2>2, <2>4
  <2>6. k - 1 \in A
    BY <2>4, <2>5 DEF T
  <2>7. QED
    BY <2>3, <2>4, <2>6
<1>2. QED
  BY <1>1

-----------------------------------------------------------------------------
(* Powers of two. *)

(* A set with one element more has twice as many subsets. *)
LEMMA PowerDoubles ==
  ASSUME NEW k \in Nat
  PROVE  2 ^ k \in Nat /\ 2 ^ (k + 1) = 2 * 2 ^ k
<1> DEFINE S == 1 .. k
           A == SUBSET S
           B == {T \cup {k + 1} : T \in A}
           f == [T \in A |-> T \cup {k + 1}]
<1>1. /\ IsFiniteSet(S) /\ Cardinality(S) = k
      /\ IsFiniteSet(1 .. k + 1) /\ Cardinality(1 .. k + 1) = k + 1
  BY FS_Interval
<1>2. IsFiniteSet(A) /\ Cardinality(A) = 2 ^ k /\ Cardinality(A) \in Nat
  BY <1>1, FS_SUBSET, FS_CardinalityType
<1>3. Cardinality(SUBSET (1 .. k + 1)) = 2 ^ (k + 1)
  BY <1>1, FS_SUBSET
<1>4. SUBSET (1 .. k + 1) = A \cup B
  <2>1. ASSUME NEW T \in SUBSET (1 .. k + 1), k + 1 \in T PROVE T \in B
    <3>1. T \ {k + 1} \in A /\ T = (T \ {k + 1}) \cup {k + 1}
      BY <2>1
    <3>2. QED
      BY <3>1
  <2>2. ASSUME NEW T \in SUBSET (1 .. k + 1), k + 1 \notin T PROVE T \in A
    BY <2>2
  <2>3. A \subseteq SUBSET (1 .. k + 1) /\ B \subseteq SUBSET (1 .. k + 1)
    <3>1. 1 .. k \subseteq 1 .. k + 1 /\ k + 1 \in 1 .. k + 1
      OBVIOUS
    <3>2. QED
      BY <3>1, Zenon
  <2>4. QED
    BY <2>1, <2>2, <2>3
<1>5. \A T \in A : k + 1 \notin T
  OBVIOUS
<1>6. f \in Bijection(A, B)
  <2>1. \A T, U \in A : T \cup {k + 1} = U \cup {k + 1} => T = U
    <3> HIDE DEF A, S
    <3>1. ASSUME NEW T \in A, NEW U \in A, T \cup {k + 1} = U \cup {k + 1} PROVE T = U
      <4>1. k + 1 \notin T /\ k + 1 \notin U
        BY <1>5
      <4>2. T = (T \cup {k + 1}) \ {k + 1} /\ U = (U \cup {k + 1}) \ {k + 1}
        BY <4>1, Zenon
      <4>3. QED
        BY <4>2, <3>1
    <3>2. QED
      BY <3>1
  <2>2. f \in Injection(A, B)
    <3> HIDE DEF A
    <3>1. QED
      BY <2>1 DEF Injection, IsInjective
  <2>3. f \in Surjection(A, B)
    <3> HIDE DEF A
    <3>1. f \in [A -> B]
      OBVIOUS
    <3>2. ASSUME NEW U \in B PROVE \E T \in A : f[T] = U
      <4>1. PICK T \in A : U = T \cup {k + 1}
        OBVIOUS
      <4>2. f[T] = T \cup {k + 1}
        OBVIOUS
      <4>3. QED
        BY <4>1, <4>2
    <3> HIDE DEF B, f
    <3>3. QED
      BY <3>1, <3>2 DEF Surjection
  <2>4. QED
    BY <2>2, <2>3 DEF Bijection
<1>7. IsFiniteSet(B) /\ Cardinality(B) = Cardinality(A)
  BY <1>2, <1>6, FS_Bijection DEF ExistsBijection
<1>8. A \cap B = {}
  <2> HIDE DEF A
  <2>1. QED
    BY <1>5
<1> HIDE DEF A, B, S
<1>9. Cardinality(A \cup B) = Cardinality(A) + Cardinality(B) - Cardinality(A \cap B)
  BY <1>2, <1>7, FS_Union
<1>10. Cardinality(A \cap B) = 0
  BY <1>8, FS_EmptySet
<1>11. 2 ^ (k + 1) = 2 ^ k + 2 ^ k - 0
  BY <1>2, <1>3, <1>4, <1>7, <1>9, <1>10
<1>12. 2 ^ k \in Nat
  BY <1>2
<1>13. \A p \in Nat : p + p - 0 = 2 * p
  OBVIOUS
<1>14. QED
  BY <1>11, <1>12, <1>13

LEMMA PowersGrow ==
  ASSUME NEW j \in Nat, NEW n \in Nat
  PROVE  2 ^ j \in Nat /\ 2 ^ j > 0 /\ 2 ^ (j + n) = 2 ^ j * 2 ^ n /\ 2 ^ n > n
<1> DEFINE A == {i \in Nat : 2 ^ (j + i) = 2 ^ j * 2 ^ i /\ 2 ^ i > i}
<1>1. \A i \in Nat : 2 ^ i \in Nat
  BY PowerDoubles
<1>2. 0 \in A
  <2>1. 2 ^ 0 = 1 /\ j + 0 = j
    OBVIOUS
  <2>2. 2 ^ (j + 0) = 2 ^ j * 1
    BY <1>1, <2>1
  <2>3. QED
    BY <2>1, <2>2
<1>3. ASSUME NEW i \in 1 .. n, i - 1 \in A PROVE i \in A
  <2> DEFINE p == 2 ^ (i - 1)
             q == 2 ^ j
  <2>1. i - 1 \in Nat /\ j + (i - 1) \in Nat /\ i - 1 + 1 = i /\ j + (i - 1) + 1 = j + i /\ i \in Nat
    OBVIOUS
  <2>2. p \in Nat /\ q \in Nat
    BY <1>1, <2>1
  <2>3. 2 ^ i = 2 * p
    BY <2>1, PowerDoubles
  <2>4. 2 ^ (j + i) = 2 * 2 ^ (j + (i - 1))
    BY <2>1, PowerDoubles
  <2>5. 2 ^ (j + (i - 1)) = q * p /\ p > i - 1
    BY <1>3
  <2> HIDE DEF p, q
  <2>6. 2 * (q * p) = q * (2 * p) /\ 2 * p > i
    BY <2>1, <2>2, <2>5
  <2>7. 2 ^ (j + i) = q * 2 ^ i
    BY <2>3, <2>4, <2>5, <2>6
  <2>8. 2 ^ i > i
    BY <2>3, <2>6
  <2>9. QED
    BY <2>1, <2>7, <2>8 DEF q
<1> HIDE DEF A
<1>4. n \in A
  BY <1>2, <1>3, UpFromZero
<1>5. 2 ^ j > 0
  <2> DEFINE C == {i \in Nat : 2 ^ i > 0}
  <2>1. 0 \in C
    <3>1. 2 ^ 0 = 1
      OBVIOUS
    <3>2. QED
      BY <3>1
  <2>2. ASSUME NEW i \in 1 .. j, i - 1 \in C PROVE i \in C
    <3>1. i - 1 \in Nat /\ i - 1 + 1 = i
      OBVIOUS
    <3>2. 2 ^ i = 2 * 2 ^ (i - 1) /\ 2 ^ (i - 1) \in Nat
      BY <3>1, PowerDoubles
    <3>3. QED
      BY <2>2, <3>1, <3>2
  <2> HIDE DEF C
  <2>3. j \in C
    BY <2>1, <2>2, UpFromZero
  <2>4. QED
    BY <2>3 DEF C
<1>6. QED
  BY <1>1, <1>4, <1>5 DEF A

LEMMA PowersOrdered ==
  ASSUME NEW j \in Nat, NEW k \in Nat, j <= k
  PROVE  2 ^ j <= 2 ^ k
<1>1. k - j \in Nat /\ j + (k - j) = k
  OBVIOUS
<1>2. 2 ^ k = 2 ^ j * 2 ^ (k - j) /\ 2 ^ (k - j) >= 1 /\ 2 ^ j \in Nat /\ 2 ^ (k - j) \in Nat
  BY <1>1, PowersGrow
<1> DEFINE p == 2 ^ j
           q == 2 ^ (k - j)
<1>3. p \in Nat /\ q \in Nat /\ q >= 1 => p <= p * q
  <2> HIDE DEF p, q
  <2>1. QED
    OBVIOUS
<1>4. QED
  BY <1>2, <1>3

-----------------------------------------------------------------------------
(* Quotients, largest and smallest members. *)

LEMMA Quotient ==
  ASSUME NEW x \in Nat, NEW a \in Nat, a > 0
  PROVE  /\ x \div a \in Nat
         /\ a * (x \div a) <= x
         /\ x < a * (x \div a) + a
OBVIOUS

LEMMA QuotientOfProduct ==
  ASSUME NEW a \in Nat, a > 0, NEW q \in Nat
  PROVE  (a * q) \div a = q
<1> DEFINE d == (a * q) \div a
<1>1. a * q \in Nat
  OBVIOUS
<1>2. d \in Nat /\ a * d <= a * q /\ a * q < a * d + a
  BY <1>1, Quotient
<1> HIDE DEF d
<1>3. ~(d >= q + 1) /\ ~(q >= d + 1)
  BY <1>2
<1>4. QED
  BY <1>2, <1>3 DEF d

LEMMA MaxOfTwo ==
  ASSUME NEW a \in Nat, NEW b \in Nat
  PROVE  Max({a, b}) \in {a, b} /\ Max({a, b}) >= a /\ Max({a, b}) >= b
BY DEF Max

LEMMA MinOfSome ==
  ASSUME NEW S, S \subseteq Nat, S # {}
  PROVE  Min(S) \in S /\ \A x \in S : Min(S) <= x
<1>1. \E x \in S : \A y \in S : x <= y
  BY Least
<1>2. QED
  BY <1>1 DEF Min

-----------------------------------------------------------------------------
(* The position of the highest bit. *)

LEMMA FlsExists ==
  ASSUME NEW n \in Nat, n > 0
  PROVE  fls(n) \in Nat /\ 2 ^ fls(n) <= n /\ n < 2 ^ (fls(n) + 1)
<1> DEFINE T == {i \in Nat : n < 2 ^ (i + 1)}
<1>1. n \in T
  <2>1. 2 ^ n > n /\ 2 ^ n \in Nat /\ 2 ^ (n + 1) = 2 * 2 ^ n
    BY PowersGrow, PowerDoubles
  <2>2. QED
    BY <2>1
<1>2. PICK k \in T : \A i \in T : k <= i
  <2>1. T \subseteq Nat /\ T # {}
    BY <1>1
  <2> HIDE DEF T
  <2>2. QED
    BY <2>1, Least, Zenon
<1>3. k \in 0 .. n /\ n < 2 ^ (k + 1)
  BY <1>1, <1>2
<1>4. 2 ^ k <= n
  <2>1. CASE k = 0
    <3>1. 2 ^ 0 = 1
      OBVIOUS
    <3>2. QED
      BY <2>1, <3>1
  <2>2. CASE k # 0
    <3>1. k - 1 \in Nat /\ k - 1 + 1 = k
      BY <1>3, <2>2
    <3>2. k - 1 \notin T
      BY <1>2, <1>3, <3>1
    <3>3. 2 ^ k \in Nat
      BY <1>3, PowersGrow
    <3>4. QED
      BY <3>1, <3>2, <3>3
  <2>3. QED
    BY <2>1, <2>2
<1>5. \E i \in 0 .. n : 2 ^ i <= n /\ n < 2 ^ (i + 1)
  BY <1>3, <1>4
<1>6. fls(n) \in 0 .. n /\ 2 ^ fls(n) <= n /\ n < 2 ^ (fls(n) + 1)
  BY <1>5 DEF fls
<1>7. QED
  BY <1>6

LEMMA FlsAtLeast ==
  ASSUME NEW n \in Nat, NEW j \in Nat, n >= 2 ^ j
  PROVE  n > 0 /\ fls(n) >= j
<1>1. n > 0
  BY PowersGrow
<1>2. fls(n) \in Nat /\ n < 2 ^ (fls(n) + 1)
  BY <1>1, FlsExists
<1>3. ASSUME fls(n) + 1 <= j PROVE FALSE
  <2>1. 2 ^ (fls(n) + 1) <= 2 ^ j /\ 2 ^ j \in Nat /\ 2 ^ (fls(n) + 1) \in Nat
    BY <1>2, <1>3, PowersOrdered, PowersGrow
  <2>2. QED
    BY <1>2, <2>1
<1>4. QED
  BY <1>1, <1>2, <1>3

LEMMA FlsOrdered ==
  ASSUME NEW n \in Nat, n > 0, NEW m \in Nat, n <= m
  PROVE  fls(n) <= fls(m)
<1>1. fls(n) \in Nat /\ 2 ^ fls(n) <= n /\ 2 ^ fls(n) \in Nat
  BY FlsExists, PowersGrow
<1>2. m >= 2 ^ fls(n)
  BY <1>1
<1>3. QED
  BY <1>1, <1>2, FlsAtLeast

-----------------------------------------------------------------------------
(* The two mappings. *)

LEMMA Constants ==
  /\ ALIGN_SIZE_LOG2 \in Nat /\ SL_INDEX_COUNT_LOG2 \in Nat
  /\ FL_INDEX_SHIFT \in Nat /\ FL_INDEX_SHIFT > 0 /\ FL_INDEX_SHIFT >= SL_INDEX_COUNT_LOG2
  /\ Word \in Nat /\ Word >= 2
  /\ SL_INDEX_COUNT \in Nat /\ SL_INDEX_COUNT > 0
  /\ SMALL_BLOCK_SIZE \in Nat /\ SMALL_BLOCK_SIZE > 0
  /\ SMALL_BLOCK_SIZE \div SL_INDEX_COUNT = Word
<1>1. /\ ALIGN_SIZE_LOG2 \in Nat /\ ALIGN_SIZE_LOG2 >= 1 /\ SL_INDEX_COUNT_LOG2 \in Nat
      /\ FL_INDEX_SHIFT = SL_INDEX_COUNT_LOG2 + ALIGN_SIZE_LOG2
  BY TlsfAssumption DEF FL_INDEX_SHIFT
<1>2. FL_INDEX_SHIFT \in Nat /\ FL_INDEX_SHIFT > 0 /\ FL_INDEX_SHIFT >= SL_INDEX_COUNT_LOG2
  BY <1>1
<1>3. /\ Word \in Nat /\ Word > ALIGN_SIZE_LOG2
      /\ SL_INDEX_COUNT \in Nat /\ SL_INDEX_COUNT > 0
      /\ SMALL_BLOCK_SIZE \in Nat /\ SMALL_BLOCK_SIZE > 0
  BY <1>1, <1>2, PowersGrow DEF Word, SL_INDEX_COUNT, SMALL_BLOCK_SIZE
<1>4. SMALL_BLOCK_SIZE = SL_INDEX_COUNT * Word
  BY <1>1, PowersGrow DEF Word, SL_INDEX_COUNT, SMALL_BLOCK_SIZE
<1>5. SMALL_BLOCK_SIZE \div SL_INDEX_COUNT = Word
  BY <1>3, <1>4, QuotientOfProduct
<1>6. QED
  BY <1>1, <1>2, <1>3, <1>5

(* One list is the other, or lies behind it. *)
AtOrAfter(found, at) == found.fl > at.fl \/ (found.fl = at.fl /\ found.sl >= at.sl)

(* Where mapping_search rounds up: it starts from the next list if the     *)
(* size is not the first of its list's.                                    *)
LEMMA LargeSizes ==
  ASSUME NEW size \in Nat, NEW bs \in Nat, SMALL_BLOCK_SIZE <= bs, bs < size
  PROVE  ~AtOrAfter(mapping_insert(bs), mapping_search(size))
<1> DEFINE k == fls(size)
           r == 2 ^ (k - SL_INDEX_COUNT_LOG2)
           rounded == size + r - 1
           j == fls(bs)
           kk == fls(rounded)
<1>1. bs > 0 /\ size > 0 /\ SMALL_BLOCK_SIZE <= size
  BY Constants
<1>2. j \in Nat /\ k \in Nat /\ j <= k /\ j >= FL_INDEX_SHIFT
  BY <1>1, FlsExists, FlsOrdered, FlsAtLeast, Constants DEF SMALL_BLOCK_SIZE
<1>3. k - SL_INDEX_COUNT_LOG2 \in Nat
  BY <1>2, Constants
<1>4. r \in Nat /\ r > 0
  BY <1>3, PowersGrow
<1>5. rounded \in Nat /\ rounded >= size
  BY <1>4
<1>6. kk \in Nat /\ k <= kk
  BY <1>1, <1>5, FlsExists, FlsOrdered
<1>7. mapping_search(size) = mapping_insert(rounded)
  BY <1>1 DEF mapping_search
<1>8. mapping_insert(rounded) = [fl |-> kk - (FL_INDEX_SHIFT - 1),
                                 sl |-> rounded \div 2 ^ (kk - SL_INDEX_COUNT_LOG2) - SL_INDEX_COUNT]
  BY <1>1, <1>5, Constants DEF mapping_insert
<1>9. mapping_insert(bs) = [fl |-> j - (FL_INDEX_SHIFT - 1),
                            sl |-> bs \div 2 ^ (j - SL_INDEX_COUNT_LOG2) - SL_INDEX_COUNT]
  BY Constants DEF mapping_insert
<1>10. CASE j # kk
  <2>1. mapping_insert(bs).fl = j - (FL_INDEX_SHIFT - 1)
    BY <1>9
  <2>2. mapping_search(size).fl = kk - (FL_INDEX_SHIFT - 1)
    BY <1>7, <1>8
  <2> HIDE DEF j, k, kk
  <2>3. QED
    BY <1>2, <1>6, <1>10, <2>1, <2>2, Constants DEF AtOrAfter
<1>11. CASE j = kk
  <2>1. k = kk /\ k = j
    BY <1>2, <1>6, <1>11
  <2> DEFINE q == bs \div r
             p == rounded \div r
  <2>2. /\ q \in Nat /\ r * q <= bs
        /\ p \in Nat /\ rounded < r * p + r
    BY <1>4, <1>5, Quotient
  <2>3. mapping_insert(bs).sl = q - SL_INDEX_COUNT /\ mapping_search(size).sl = p - SL_INDEX_COUNT
    BY <2>1, <1>7, <1>8, <1>9
  <2>4. mapping_insert(bs).fl = mapping_search(size).fl
    BY <1>11, <1>7, <1>8, <1>9
  <2>5. rounded \in Nat /\ rounded >= bs + r
    BY <1>4
  <2> HIDE DEF q, p, r, rounded
  <2>6. q < p
    BY <1>4, <2>2, <2>5
  <2> HIDE DEF k, j, kk
  <2>7. mapping_insert(bs).fl \in Int
    BY <1>2, <1>9, Constants
  <2>8. QED
    BY <2>2, <2>3, <2>4, <2>6, <2>7, Constants DEF AtOrAfter
<1>12. QED
  BY <1>10, <1>11

(* The good fit: every block in the list where mapping_search makes the    *)
(* search begin, and in every list behind it, is large enough, so that     *)
(* block_locate_free takes the first and never looks at its size           *)
(* (block_size(block) >= size, tlsf.c:776).  Sizes are multiples of the    *)
(* word, as adjust_request_size makes them.                                *)
THEOREM GoodFit ==
  ASSUME NEW size \in Nat, size % Word = 0,
         NEW bs \in Nat, AtOrAfter(mapping_insert(bs), mapping_search(size))
  PROVE  bs >= size
<1> SUFFICES ASSUME bs < size PROVE FALSE
  OBVIOUS
<1>1. CASE size < SMALL_BLOCK_SIZE
  <2>1. /\ mapping_search(size) = [fl |-> 0, sl |-> size \div Word]
        /\ mapping_insert(bs) = [fl |-> 0, sl |-> bs \div Word]
    BY <1>1, Constants DEF mapping_search, mapping_insert
  <2>2. bs \div Word >= size \div Word
    BY <2>1 DEF AtOrAfter
  <2>3. /\ bs \div Word \in Nat /\ Word * (bs \div Word) <= bs
        /\ size \div Word \in Nat /\ size = Word * (size \div Word)
    BY Constants, Quotient
  <2>4. \A d, e \in Nat : d >= e => Word * d >= Word * e
    BY Constants
  <2>5. Word * (bs \div Word) >= Word * (size \div Word)
    BY <2>2, <2>3, <2>4
  <2>6. Word * (bs \div Word) \in Nat
    BY <2>3, Constants
  <2>7. QED
    BY <2>3, <2>5, <2>6
<1>2. CASE size >= SMALL_BLOCK_SIZE /\ bs < SMALL_BLOCK_SIZE
  <2> DEFINE r == 2 ^ (fls(size) - SL_INDEX_COUNT_LOG2)
             rounded == size + r - 1
  <2>1. fls(size) \in Nat /\ fls(size) - SL_INDEX_COUNT_LOG2 \in Nat
    BY <1>2, Constants, FlsExists, FlsAtLeast DEF SMALL_BLOCK_SIZE
  <2>2. r \in Nat /\ r > 0
    BY <2>1, PowersGrow
  <2>3. rounded \in Nat /\ rounded >= SMALL_BLOCK_SIZE
    BY <1>2, <2>2, Constants
  <2>4. mapping_search(size) = mapping_insert(rounded)
    BY <1>2 DEF mapping_search
  <2> HIDE DEF rounded
  <2>5. fls(rounded) >= FL_INDEX_SHIFT /\ fls(rounded) \in Nat
    BY <2>3, Constants, FlsAtLeast, FlsExists DEF SMALL_BLOCK_SIZE
  <2>6. mapping_insert(rounded).fl = fls(rounded) - (FL_INDEX_SHIFT - 1)
    BY <2>3, Constants DEF mapping_insert
  <2>7. mapping_insert(bs).fl = 0
    BY <1>2 DEF mapping_insert
  <2>8. QED
    BY <2>4, <2>5, <2>6, <2>7, Constants DEF AtOrAfter
<1>3. CASE bs >= SMALL_BLOCK_SIZE
  BY <1>3, LargeSizes
<1>4. QED
  BY <1>1, <1>2, <1>3, Constants

-----------------------------------------------------------------------------
(* Alignment. *)

Multiple(x, a) == \E q \in Nat : x = a * q

LEMMA MultipleIsEnough ==
  ASSUME NEW a \in Nat, a > 0, NEW x, Multiple(x, a)
  PROVE  x \in Nat /\ x % a = 0 /\ AlignUp(x, a) = x
<1>1. PICK q \in Nat : x = a * q
  BY DEF Multiple
<1>2. x \in Nat /\ x \div a = q
  BY <1>1, QuotientOfProduct
<1>3. x % a = 0
  BY <1>1, <1>2
<1>4. (x + a - 1) \div a = q
  <2> DEFINE d == (x + a - 1) \div a
  <2>1. d \in Nat /\ a * d <= x + a - 1 /\ x + a - 1 < a * d + a
    BY <1>2, Quotient
  <2> HIDE DEF d
  <2>2. ~(d >= q + 1) /\ ~(q >= d + 1)
    BY <1>1, <2>1
  <2>3. d = q
    BY <2>1, <2>2
  <2>4. QED
    BY <2>3 DEF d
<1>5. AlignUp(x, a) = q * a
  BY <1>4 DEF AlignUp
<1>6. QED
  BY <1>1, <1>2, <1>3, <1>5

LEMMA AlignsUp ==
  ASSUME NEW a \in Nat, a > 0, NEW x \in Nat
  PROVE  /\ AlignUp(x, a) \in Nat
         /\ x <= AlignUp(x, a) /\ AlignUp(x, a) < x + a
         /\ Multiple(AlignUp(x, a), a)
<1> DEFINE d == (x + a - 1) \div a
<1>1. d \in Nat /\ a * d <= x + a - 1 /\ x + a - 1 < a * d + a
  BY Quotient
<1>2. AlignUp(x, a) = d * a
  BY DEF AlignUp
<1> HIDE DEF d
<1>3. d * a = a * d /\ a * d \in Nat
  BY <1>1
<1>4. Multiple(AlignUp(x, a), a)
  BY <1>1, <1>2, <1>3 DEF Multiple
<1>5. QED
  BY <1>1, <1>2, <1>3, <1>4

LEMMA MultipleOfMultiple ==
  ASSUME NEW a \in Nat, NEW b, NEW x, Multiple(b, a), Multiple(x, b)
  PROVE  Multiple(x, a)
<1>1. PICK q \in Nat : b = a * q
  BY DEF Multiple
<1>2. PICK p \in Nat : x = b * p
  BY DEF Multiple
<1>3. x = a * (q * p) /\ q * p \in Nat
  BY <1>1, <1>2
<1>4. QED
  BY <1>3 DEF Multiple

LEMMA MultiplesSum ==
  ASSUME NEW a \in Nat, NEW x, NEW y, Multiple(x, a), Multiple(y, a)
  PROVE  /\ Multiple(x + y, a)
         /\ x >= y => Multiple(x - y, a)
<1>1. PICK q \in Nat : x = a * q
  BY DEF Multiple
<1>2. PICK p \in Nat : y = a * p
  BY DEF Multiple
<1>3. x + y = a * (q + p) /\ q + p \in Nat
  BY <1>1, <1>2
<1>4. ASSUME x >= y PROVE Multiple(x - y, a)
  <2>1. CASE q >= p
    <3>1. x - y = a * (q - p) /\ q - p \in Nat
      BY <1>1, <1>2, <2>1
    <3>2. QED
      BY <3>1 DEF Multiple
  <2>2. CASE q < p
    <3>1. a * q <= a * p
      BY <2>2
    <3>2. x - y = a * 0
      BY <1>1, <1>2, <1>4, <3>1
    <3>3. QED
      BY <3>2 DEF Multiple
  <2>3. QED
    BY <2>1, <2>2
<1>5. QED
  BY <1>3, <1>4 DEF Multiple

(* Of two multiples of a the larger is larger by a at least. *)
LEMMA MultiplesApart ==
  ASSUME NEW a \in Nat, NEW x, NEW y, Multiple(x, a), Multiple(y, a), x < y
  PROVE  x + a <= y
<1>1. PICK q \in Nat : x = a * q
  BY DEF Multiple
<1>2. PICK p \in Nat : y = a * p
  BY DEF Multiple
<1>3. q < p
  BY <1>1, <1>2
<1>4. a * (q + 1) <= a * p /\ a * (q + 1) = a * q + a
  BY <1>3
<1>5. QED
  BY <1>1, <1>2, <1>4

(* A power of two is a multiple of every smaller one. *)
LEMMA PowerIsMultiple ==
  ASSUME NEW j \in Nat, NEW k \in Nat, j <= k
  PROVE  Multiple(2 ^ k, 2 ^ j)
<1>1. k - j \in Nat /\ j + (k - j) = k
  OBVIOUS
<1>2. 2 ^ k = 2 ^ j * 2 ^ (k - j) /\ 2 ^ (k - j) \in Nat
  BY <1>1, PowersGrow
<1>3. QED
  BY <1>2 DEF Multiple

-----------------------------------------------------------------------------
(* The request. *)

LEMMA Sizes ==
  /\ header_size = 4 * Word /\ header_size \in Nat
  /\ block_size_min = 3 * Word /\ block_size_min \in Nat
  /\ overhead = Word
  /\ Multiple(header_size, Word) /\ Multiple(block_size_min, Word) /\ Multiple(Word, Word)
<1>1. header_size = Word * 4 /\ block_size_min = Word * 3 /\ Word = Word * 1
  BY Constants DEF header_size, block_size_min
<1>2. QED
  BY <1>1, Constants DEF Multiple, header_size, block_size_min, overhead

LEMMA RequestIsRounded ==
  ASSUME NEW size \in Nat, NEW a \in Nat, a > 0, Multiple(a, Word),
         adjust_request_size(size, a) # 0
  PROVE  LET adjust == adjust_request_size(size, a)
         IN  adjust \in Nat /\ adjust >= size /\ adjust >= block_size_min /\ Multiple(adjust, Word)
<1> DEFINE upper == AlignUp(size, a)
           adjust == adjust_request_size(size, a)
<1>1. upper \in Nat /\ size <= upper /\ Multiple(upper, Word)
  BY AlignsUp, MultipleOfMultiple, Constants
<1>2. adjust = Max({upper, block_size_min})
  BY DEF adjust_request_size
<1> HIDE DEF upper, adjust
<1>3. adjust \in {upper, block_size_min} /\ adjust >= upper /\ adjust >= block_size_min
  BY <1>1, <1>2, MaxOfTwo, Sizes
<1>4. adjust \in Nat /\ adjust >= size /\ adjust >= block_size_min /\ Multiple(adjust, Word)
  BY <1>1, <1>3, Sizes
<1>5. QED
  BY <1>4 DEF adjust

LEMMA NothingFromNothing == \A a : adjust_request_size(0, a) = 0
BY DEF adjust_request_size

(* The gap in front of the caller's bytes is nothing, or a whole block,    *)
(* and in either case no more than what tlsf_memalign has asked for beyond *)
(* the request (gap >= gap_minimum, tlsf.c:1172).                          *)
LEMMA GapIsABlock ==
  ASSUME NEW b \in Nat, Multiple(Ptr(b), Word), NEW align \in Nat, align > 0, Multiple(align, Word)
  PROVE  /\ Gap(b, align) \in Nat
         /\ Gap(b, align) = 0 \/ Gap(b, align) >= header_size
         /\ Gap(b, align) < align + header_size
         /\ Multiple(Ptr(b) + Gap(b, align), align)
         /\ Multiple(Gap(b, align), Word)
<1> DEFINE p == Ptr(b)
           upper == AlignUp(p, align)
           first == upper - p
           more == Max({header_size - first, align})
           second == AlignUp(p + first + more, align)
<1>1. p \in Nat
  BY Constants DEF Ptr
<1>2. upper \in Nat /\ p <= upper /\ upper < p + align /\ Multiple(upper, align)
  BY <1>1, AlignsUp
<1>3. Multiple(upper, Word) /\ Multiple(first, Word)
  <2>1. Multiple(upper, Word)
    BY <1>2, MultipleOfMultiple, Constants
  <2>2. QED
    BY <1>1, <1>2, <2>1, MultiplesSum, Constants
<1>4. first \in Nat /\ first < align
  BY <1>1, <1>2
<1>5. CASE first = 0 \/ first >= header_size
  <2>1. Gap(b, align) = first
    BY <1>5 DEF Gap
  <2>2. p + first = upper
    BY <1>1, <1>2
  <2> HIDE DEF first, upper
  <2>3. QED
    BY <1>2, <1>3, <1>4, <1>5, <2>1, <2>2, Sizes
<1>6. CASE ~(first = 0 \/ first >= header_size)
  <2>1. header_size - first \in Nat /\ header_size - first > 0
    BY <1>4, <1>6, Sizes
  <2>2. more \in {header_size - first, align} /\ more >= header_size - first /\ more >= align
    BY <2>1, MaxOfTwo
  <2>3. Gap(b, align) = second - p
    BY <1>6 DEF Gap
  <2>4. p + first = upper
    BY <1>1, <1>2
  <2>5. upper + more \in Nat /\ second = AlignUp(upper + more, align)
    BY <1>2, <2>1, <2>2, <2>4
  <2>6. /\ second \in Nat /\ upper + more <= second /\ second < upper + more + align
        /\ Multiple(second, align)
    BY <2>5, AlignsUp
  <2>7. second - p >= header_size
    <3> HIDE DEF second, more, upper
    <3>1. QED
      BY <1>1, <1>2, <1>4, <2>1, <2>2, <2>6, Sizes
  <2>8. second - p < align + header_size
    <3>1. CASE more = align
      <4>1. Multiple(align, align)
        <5>1. align = align * 1
          OBVIOUS
        <5>2. QED
          BY <5>1 DEF Multiple
      <4>2. Multiple(upper + align, align)
        BY <1>2, <4>1, MultiplesSum
      <4>3. second = upper + align
        BY <2>5, <3>1, <4>2, MultipleIsEnough
      <4> HIDE DEF second, more, upper
      <4>4. QED
        BY <1>1, <1>2, <1>6, <4>3, Sizes
    <3>2. CASE more = header_size - first
      <4> HIDE DEF second, more, upper
      <4>1. QED
        BY <1>1, <1>2, <2>6, <3>2, Sizes
    <3>3. QED
      BY <2>2, <3>1, <3>2
  <2>9. Multiple(second, Word) /\ second >= p
    <3>1. Multiple(second, Word)
      BY <2>6, MultipleOfMultiple, Constants
    <3> HIDE DEF second, more, upper
    <3>2. QED
      BY <1>1, <2>6, <2>7, <3>1, Sizes
  <2>10. Multiple(second - p, Word) /\ second - p \in Nat
    BY <1>1, <2>6, <2>9, MultiplesSum, Constants
  <2>11. p + (second - p) = second
    BY <1>1, <2>6
  <2> HIDE DEF second
  <2>12. QED
    BY <2>3, <2>6, <2>7, <2>8, <2>10, <2>11
<1>7. QED
  BY <1>5, <1>6

-----------------------------------------------------------------------------
(* tlsf_memalign. *)

Header == [size : Nat, free : Int, prev_free : Int, prev_phys : Int, next : Int, prev : Int]

Control(D) == [fl : SUBSET FL, sl : [FL -> SUBSET SL], blocks : [FL -> [SL -> Int]],
               hdr : [D -> Header]]

(* No list is behind a bit that is not there, and the first block of every *)
(* list that the bitmaps name is one of that list's sizes.                 *)
HeadsFit(h) ==
  /\ \A i \in h.fl : h.sl[i] # {}
  /\ \A i \in FL : \A j \in h.sl[i] :
       LET b == h.blocks[i][j]
       IN  /\ b \in DOMAIN h.hdr /\ Ptr(b) % Word = 0
           /\ mapping_insert(h.hdr[b].size) = [fl |-> i, sl |-> j]

(* A write to any other field of a header leaves all sizes as they are. *)
SetFree(h, b, v) == [h EXCEPT !.hdr[b].free = v]
SetPrevFree(h, b, v) == [h EXCEPT !.hdr[b].prev_free = v]
SetPrevPhys(h, b, v) == [h EXCEPT !.hdr[b].prev_phys = v]
SetNext(h, b, v) == [h EXCEPT !.hdr[b].next = v]
SetPrev(h, b, v) == [h EXCEPT !.hdr[b].prev = v]

(* Nothing becomes larger or smaller. *)
SameSizes(D, h, g) == g \in Control(D) /\ \A c \in D : g.hdr[c].size = h.hdr[c].size

LEMMA HeadersReplaced ==
  ASSUME NEW D, NEW h \in Control(D), NEW hdr \in [D -> Header],
         \A c \in D : hdr[c].size = h.hdr[c].size
  PROVE  SameSizes(D, h, [h EXCEPT !.hdr = hdr])
BY DEF Control, SameSizes

LEMMA WritesKeepSizes ==
  ASSUME NEW D \in SUBSET Nat, NEW h \in Control(D), NEW b, NEW v \in Int
  PROVE  /\ SameSizes(D, h, SetFree(h, b, v))
         /\ SameSizes(D, h, SetPrevFree(h, b, v))
         /\ SameSizes(D, h, SetPrevPhys(h, b, v))
         /\ SameSizes(D, h, SetNext(h, b, v))
         /\ SameSizes(D, h, SetPrev(h, b, v))
<1>1. PICK hdr \in [D -> Header] : hdr = h.hdr
  BY DEF Control
<1>2. SameSizes(D, h, SetFree(h, b, v))
  <2>1. PICK new : new = [hdr EXCEPT ![b].free = v]
    OBVIOUS
  <2>2. new \in [D -> Header]
    <3>1. ASSUME NEW c \in D PROVE [hdr[c] EXCEPT !.free = v] \in Header
      BY DEF Header
    <3>2. QED
      BY <2>1, <3>1
  <2>3. \A c \in D : new[c].size = hdr[c].size
    BY <1>1, <2>1 DEF Header
  <2>4. SetFree(h, b, v) = [h EXCEPT !.hdr = new]
    BY <1>1, <2>1 DEF SetFree
  <2>5. QED
    BY <1>1, <2>2, <2>3, <2>4, HeadersReplaced
<1>3. SameSizes(D, h, SetPrevFree(h, b, v))
  <2>1. PICK new : new = [hdr EXCEPT ![b].prev_free = v]
    OBVIOUS
  <2>2. new \in [D -> Header]
    <3>1. ASSUME NEW c \in D PROVE [hdr[c] EXCEPT !.prev_free = v] \in Header
      BY DEF Header
    <3>2. QED
      BY <2>1, <3>1
  <2>3. \A c \in D : new[c].size = hdr[c].size
    BY <1>1, <2>1 DEF Header
  <2>4. SetPrevFree(h, b, v) = [h EXCEPT !.hdr = new]
    BY <1>1, <2>1 DEF SetPrevFree
  <2>5. QED
    BY <1>1, <2>2, <2>3, <2>4, HeadersReplaced
<1>4. SameSizes(D, h, SetPrevPhys(h, b, v))
  <2>1. PICK new : new = [hdr EXCEPT ![b].prev_phys = v]
    OBVIOUS
  <2>2. new \in [D -> Header]
    <3>1. ASSUME NEW c \in D PROVE [hdr[c] EXCEPT !.prev_phys = v] \in Header
      BY DEF Header
    <3>2. QED
      BY <2>1, <3>1
  <2>3. \A c \in D : new[c].size = hdr[c].size
    BY <1>1, <2>1 DEF Header
  <2>4. SetPrevPhys(h, b, v) = [h EXCEPT !.hdr = new]
    BY <1>1, <2>1 DEF SetPrevPhys
  <2>5. QED
    BY <1>1, <2>2, <2>3, <2>4, HeadersReplaced
<1>5. SameSizes(D, h, SetNext(h, b, v))
  <2>1. PICK new : new = [hdr EXCEPT ![b].next = v]
    OBVIOUS
  <2>2. new \in [D -> Header]
    <3>1. ASSUME NEW c \in D PROVE [hdr[c] EXCEPT !.next = v] \in Header
      BY DEF Header
    <3>2. QED
      BY <2>1, <3>1
  <2>3. \A c \in D : new[c].size = hdr[c].size
    BY <1>1, <2>1 DEF Header
  <2>4. SetNext(h, b, v) = [h EXCEPT !.hdr = new]
    BY <1>1, <2>1 DEF SetNext
  <2>5. QED
    BY <1>1, <2>2, <2>3, <2>4, HeadersReplaced
<1>6. SameSizes(D, h, SetPrev(h, b, v))
  <2>1. PICK new : new = [hdr EXCEPT ![b].prev = v]
    OBVIOUS
  <2>2. new \in [D -> Header]
    <3>1. ASSUME NEW c \in D PROVE [hdr[c] EXCEPT !.prev = v] \in Header
      BY DEF Header
    <3>2. QED
      BY <2>1, <3>1
  <2>3. \A c \in D : new[c].size = hdr[c].size
    BY <1>1, <2>1 DEF Header
  <2>4. SetPrev(h, b, v) = [h EXCEPT !.hdr = new]
    BY <1>1, <2>1 DEF SetPrev
  <2>5. QED
    BY <1>1, <2>2, <2>3, <2>4, HeadersReplaced
<1>7. QED
  BY <1>2, <1>3, <1>4, <1>5, <1>6

LEMMA SizesStaySame ==
  ASSUME NEW D, NEW h, NEW g, NEW f, SameSizes(D, h, g), SameSizes(D, g, f)
  PROVE  SameSizes(D, h, f)
BY DEF SameSizes

LEMMA SearchFinds ==
  ASSUME NEW D \in SUBSET Nat, NEW h \in Control(D), HeadsFit(h),
         NEW at, at.fl \in FL, NEW list \in search_suitable_block(h, at)
  PROVE  list.fl \in FL /\ list.sl \in h.sl[list.fl] /\ AtOrAfter(list, at)
<1> DEFINE here == {j \in h.sl[at.fl] : j >= at.sl}
           larger == {i \in h.fl : i > at.fl}
<1>1. h.fl \subseteq FL /\ h.sl \in [FL -> SUBSET SL] /\ FL \subseteq Nat /\ SL \subseteq Nat
  BY DEF Control, FL, SL
<1>2. here \subseteq Nat /\ larger \subseteq Nat
  BY <1>1
<1>3. CASE here # {}
  <2>1. Min(here) \in here
    BY <1>2, <1>3, MinOfSome
  <2>2. list = [fl |-> at.fl, sl |-> Min(here)]
    BY <1>3 DEF search_suitable_block
  <2>3. list.fl = at.fl /\ list.sl = Min(here)
    BY <2>2
  <2> HIDE <2>2
  <2>4. QED
    BY <2>1, <2>3 DEF AtOrAfter
<1>4. CASE here = {}
  <2>1. larger # {} /\ list = [fl |-> Min(larger), sl |-> Min(h.sl[Min(larger)])]
    BY <1>4 DEF search_suitable_block
  <2>2. list.fl = Min(larger) /\ list.sl = Min(h.sl[Min(larger)])
    BY <2>1
  <2>3. Min(larger) \in larger
    BY <1>2, <2>1, MinOfSome
  <2>4. /\ list.fl \in h.fl /\ list.fl > at.fl
        /\ h.sl[list.fl] # {} /\ h.sl[list.fl] \subseteq Nat
    BY <1>1, <2>2, <2>3 DEF HeadsFit
  <2>5. list.sl \in h.sl[list.fl]
    BY <2>2, <2>4, MinOfSome
  <2>6. QED
    BY <1>1, <2>4, <2>5 DEF AtOrAfter
<1>5. QED
  BY <1>3, <1>4

LEMMA MarksKeepSizes ==
  ASSUME NEW D \in SUBSET Nat, NEW h \in Control(D), NEW b \in Nat
  PROVE  /\ SameSizes(D, h, LinkNext(h, b))
         /\ SameSizes(D, h, PrevFree(h, b))
         /\ SameSizes(D, h, MarkAsFree(h, b))
         /\ SameSizes(D, h, MarkAsUsed(h, b))
         /\ SameSizes(D, h, HandOver(h, b))
<1>1. \A g \in Control(D), c \in Nat :
        SameSizes(D, g, LinkNext(g, c)) /\ SameSizes(D, g, PrevFree(g, c))
  <2>1. SUFFICES ASSUME NEW g \in Control(D), NEW c \in Nat
                 PROVE  SameSizes(D, g, LinkNext(g, c)) /\ SameSizes(D, g, PrevFree(g, c))
    OBVIOUS
  <2>2. LinkNext(g, c) = SetPrevPhys(g, block_next(g, c), c) /\ PrevFree(g, c) = SetPrevFree(g, c, 1)
    BY DEF LinkNext, PrevFree, SetPrevPhys, SetPrevFree
  <2>3. QED
    BY <2>2, WritesKeepSizes
<1>2. SameSizes(D, h, MarkAsFree(h, b))
  <2> DEFINE n == block_next(h, b)
  <2>1. PICK h1 : h1 = LinkNext(h, b)
    OBVIOUS
  <2>2. SameSizes(D, h, h1) /\ h1 \in Control(D)
    BY <1>1, <2>1 DEF SameSizes
  <2>3. PICK h2 : h2 = SetPrevFree(h1, n, 1)
    OBVIOUS
  <2>4. SameSizes(D, h1, h2) /\ h2 \in Control(D)
    BY <2>2, <2>3, WritesKeepSizes DEF SameSizes
  <2>5. PICK h3 : h3 = SetFree(h2, b, 1)
    OBVIOUS
  <2>6. SameSizes(D, h2, h3)
    BY <2>4, <2>5, WritesKeepSizes
  <2>7. MarkAsFree(h, b) = h3
    BY <2>1, <2>3, <2>5 DEF MarkAsFree, PrevFree, SetPrevFree, SetFree
  <2>8. SameSizes(D, h, h2)
    BY <2>2, <2>4, SizesStaySame
  <2>9. QED
    BY <2>6, <2>7, <2>8, SizesStaySame
<1>3. SameSizes(D, h, MarkAsUsed(h, b))
  <2> DEFINE n == block_next(h, b)
  <2>1. PICK h1 : h1 = SetPrevFree(h, n, 0)
    OBVIOUS
  <2>2. SameSizes(D, h, h1) /\ h1 \in Control(D)
    BY <2>1, WritesKeepSizes DEF SameSizes
  <2>3. PICK h2 : h2 = SetFree(h1, b, 0)
    OBVIOUS
  <2>4. SameSizes(D, h1, h2)
    BY <2>2, <2>3, WritesKeepSizes
  <2>5. MarkAsUsed(h, b) = h2
    BY <2>1, <2>3 DEF MarkAsUsed, SetPrevFree, SetFree
  <2>6. QED
    BY <2>2, <2>4, <2>5, SizesStaySame
<1>4. SameSizes(D, h, HandOver(h, b))
  <2> DEFINE n == block_next(h, b)
  <2>1. PICK h1 : h1 = SetNext(h, b, Junk)
    OBVIOUS
  <2>2. Junk \in Int
    BY DEF Junk
  <2>3. SameSizes(D, h, h1) /\ h1 \in Control(D)
    BY <2>1, <2>2, WritesKeepSizes DEF SameSizes
  <2>4. PICK h2 : h2 = SetPrev(h1, b, Junk)
    OBVIOUS
  <2>5. SameSizes(D, h1, h2) /\ h2 \in Control(D)
    BY <2>2, <2>3, <2>4, WritesKeepSizes DEF SameSizes
  <2>6. PICK h3 : h3 = SetPrevPhys(h2, n, Junk)
    OBVIOUS
  <2>7. SameSizes(D, h2, h3)
    BY <2>2, <2>5, <2>6, WritesKeepSizes
  <2>8. HandOver(h, b) = h3
    BY <2>1, <2>4, <2>6 DEF HandOver, SetNext, SetPrev, SetPrevPhys
  <2>9. SameSizes(D, h, h2)
    BY <2>3, <2>5, SizesStaySame
  <2>10. QED
    BY <2>7, <2>8, <2>9, SizesStaySame
<1>5. QED
  BY <1>1, <1>2, <1>3, <1>4

LEMMA RemovalKeepsSizes ==
  ASSUME NEW D \in SUBSET Nat, NEW h \in Control(D), NEW b \in D,
         NEW at, at.fl \in FL, at.sl \in SL
  PROVE  SameSizes(D, h, remove_free_block(h, b, at))
<1> DEFINE prev == h.hdr[b].prev
           next == h.hdr[b].next
           unlinked == [h EXCEPT !.hdr[next].prev = prev, !.hdr[prev].next = next]
           emptied == [unlinked EXCEPT !.sl[at.fl] = @ \ {at.sl},
                                       !.fl = IF h.sl[at.fl] \subseteq {at.sl}
                                                THEN @ \ {at.fl} ELSE @]
           g == IF next = block_null THEN emptied ELSE unlinked
           f == [g EXCEPT !.blocks[at.fl][at.sl] = next]
<1>1. prev \in Int /\ next \in Int
  BY DEF Control, Header
<1>2. unlinked = SetNext(SetPrev(h, next, prev), prev, next)
  BY DEF SetNext, SetPrev
<1>3. SameSizes(D, h, unlinked)
  <2> HIDE DEF prev, next, unlinked
  <2>1. SameSizes(D, h, SetPrev(h, next, prev))
    BY <1>1, WritesKeepSizes
  <2>2. PICK h1 : h1 = SetPrev(h, next, prev)
    OBVIOUS
  <2>3. h1 \in Control(D)
    BY <2>1, <2>2 DEF SameSizes
  <2>4. SameSizes(D, h1, SetNext(h1, prev, next))
    BY <1>1, <2>3, WritesKeepSizes
  <2>5. QED
    BY <1>2, <2>1, <2>2, <2>4, SizesStaySame
<1>4. emptied \in Control(D) /\ emptied.hdr = unlinked.hdr
  <2> HIDE DEF unlinked
  <2>1. QED
    BY <1>3 DEF Control, SameSizes
<1>5. g \in Control(D) /\ g.hdr = unlinked.hdr
  <2> HIDE DEF emptied, unlinked
  <2>1. QED
    BY <1>3, <1>4 DEF SameSizes
<1>6. f \in Control(D) /\ f.hdr = g.hdr
  <2> HIDE DEF g, prev, next
  <2>1. QED
    BY <1>1, <1>5 DEF Control
<1>7. remove_free_block(h, b, at) = IF h.blocks[at.fl][at.sl] # b THEN unlinked ELSE f
  BY Zenon DEF remove_free_block
<1>8. remove_free_block(h, b, at) = unlinked \/ remove_free_block(h, b, at) = f
  <2> HIDE DEF f, unlinked
  <2>1. QED
    BY <1>7
<1> HIDE DEF f, g, unlinked, emptied
<1>9. QED
  BY <1>3, <1>5, <1>6, <1>8 DEF SameSizes

(* What tlsf_memalign looks for, and what it makes of the list it finds. *)
aligned_size(align, size) ==
  LET adjust == adjust_request_size(size, Word)
      with_gap == adjust_request_size(adjust + align + header_size, align)
  IN  IF adjust > 0 /\ align > Word THEN with_gap ELSE adjust

From(h, list, align, adjust) ==
  LET b == h.blocks[list.fl][list.sl]
      taken == remove_free_block(h, b, list)
      placed == IF Gap(b, align) > 0
                  THEN block_trim_free_leading(taken, b, Gap(b, align))
                  ELSE [block |-> b, h |-> taken]
      used == MarkAsUsed(block_trim_free(placed.h, placed.block, adjust), placed.block)
  IN  [h |-> HandOver(used, placed.block), ptr |-> Ptr(placed.block)]

LEMMA MemalignFinds ==
  ASSUME NEW h, NEW align, NEW size
  PROVE  \/ tlsf_memalign(h, align, size) = [h |-> h, ptr |-> NULL]
         \/ /\ aligned_size(align, size) # 0
            /\ mapping_search(aligned_size(align, size)).fl \in FL
            /\ \E list \in search_suitable_block(h, mapping_search(aligned_size(align, size))) :
                 tlsf_memalign(h, align, size) = From(h, list, align, adjust_request_size(size, Word))
<1> DEFINE wanted == aligned_size(align, size)
           at == mapping_search(wanted)
           lists == IF wanted = 0 \/ at.fl \notin FL THEN {} ELSE search_suitable_block(h, at)
           Got(list) == From(h, list, align, adjust_request_size(size, Word))
<1>1. tlsf_memalign(h, align, size) =
        IF lists = {} THEN [h |-> h, ptr |-> NULL] ELSE Got(CHOOSE list \in lists : TRUE)
  BY Zenon DEF tlsf_memalign, aligned_size, From
<1> HIDE DEF Got
<1>2. CASE lists = {}
  <2> HIDE DEF lists
  <2>1. QED
    BY <1>1, <1>2
<1>3. CASE lists # {}
  <2>1. PICK list \in lists : tlsf_memalign(h, align, size) = Got(list)
    <3> HIDE DEF lists
    <3>1. (CHOOSE list \in lists : TRUE) \in lists
      BY <1>3
    <3>2. tlsf_memalign(h, align, size) = Got(CHOOSE list \in lists : TRUE)
      BY <1>1, <1>3
    <3>3. QED
      BY <3>1, <3>2
  <2>2. wanted # 0 /\ at.fl \in FL /\ list \in search_suitable_block(h, at)
    <3> HIDE DEF wanted, at
    <3>1. QED
      BY <2>1
  <2>3. QED
    BY <2>1, <2>2 DEF Got
<1>4. QED
  BY <1>2, <1>3

-----------------------------------------------------------------------------
(* The parts a block is cut into. *)

LEMMA SmallerIsInRange ==
  ASSUME NEW s \in Nat, NEW bs \in Nat, s <= bs, mapping_insert(bs).fl \in FL
  PROVE  mapping_insert(s).fl \in FL /\ mapping_insert(s).sl \in SL
<1>1. CASE s < SMALL_BLOCK_SIZE
  <2>1. mapping_insert(s) = [fl |-> 0, sl |-> s \div Word]
    BY <1>1, Constants DEF mapping_insert
  <2>2. 0 \in FL
    BY TlsfAssumption, Constants DEF FL, FL_INDEX_COUNT
  <2>3. SMALL_BLOCK_SIZE = Word * SL_INDEX_COUNT
    BY Constants, PowersGrow DEF SMALL_BLOCK_SIZE, Word, SL_INDEX_COUNT, FL_INDEX_SHIFT
  <2>4. s \div Word \in Nat /\ Word * (s \div Word) <= s
    BY Constants, Quotient
  <2>5. \A d \in Nat : Word * d < Word * SL_INDEX_COUNT => d < SL_INDEX_COUNT
    BY Constants
  <2>6. Word * (s \div Word) \in Nat
    BY <2>4, Constants
  <2>7. s \div Word < SL_INDEX_COUNT
    BY <1>1, <2>3, <2>4, <2>5, <2>6, Constants
  <2>8. QED
    BY <2>1, <2>2, <2>4, <2>7, Constants DEF SL
<1>2. CASE s >= SMALL_BLOCK_SIZE
  <2> DEFINE k == fls(s)
             j == fls(bs)
             r == 2 ^ (k - SL_INDEX_COUNT_LOG2)
             q == s \div r
  <2>1. s > 0 /\ bs > 0 /\ bs >= SMALL_BLOCK_SIZE
    BY <1>2, Constants
  <2>2. /\ k \in Nat /\ j \in Nat /\ k <= j /\ k >= FL_INDEX_SHIFT
        /\ 2 ^ k <= s /\ s < 2 ^ (k + 1)
    BY <1>2, <2>1, Constants, FlsExists, FlsOrdered, FlsAtLeast DEF SMALL_BLOCK_SIZE
  <2>3. /\ mapping_insert(s) = [fl |-> k - (FL_INDEX_SHIFT - 1), sl |-> q - SL_INDEX_COUNT]
        /\ mapping_insert(bs).fl = j - (FL_INDEX_SHIFT - 1)
    <3>1. mapping_insert(s) = [fl |-> k - (FL_INDEX_SHIFT - 1), sl |-> q - SL_INDEX_COUNT]
      BY <1>2, Constants DEF mapping_insert
    <3>2. mapping_insert(bs) = [fl |-> j - (FL_INDEX_SHIFT - 1),
                                sl |-> bs \div 2 ^ (j - SL_INDEX_COUNT_LOG2) - SL_INDEX_COUNT]
      BY <2>1, Constants DEF mapping_insert
    <3>3. QED
      BY <3>1, <3>2
  <2>4. k - (FL_INDEX_SHIFT - 1) \in FL
    <3>1. j - (FL_INDEX_SHIFT - 1) \in 0 .. FL_INDEX_COUNT - 1
      BY <2>3 DEF FL
    <3>2. FL_INDEX_COUNT \in Int
      BY TlsfAssumption, Constants DEF FL_INDEX_COUNT
    <3> HIDE DEF j, k
    <3>3. QED
      BY <2>2, <3>1, <3>2, Constants DEF FL
  <2>5. k - SL_INDEX_COUNT_LOG2 \in Nat /\ (k - SL_INDEX_COUNT_LOG2) + SL_INDEX_COUNT_LOG2 = k
    BY <2>2, Constants
  <2>6. r \in Nat /\ r > 0
    BY <2>5, PowersGrow
  <2>7. 2 ^ k = r * SL_INDEX_COUNT /\ 2 ^ (k + 1) = 2 * 2 ^ k
    <3>1. 2 ^ k = r * SL_INDEX_COUNT
      BY <2>5, PowersGrow, Constants DEF SL_INDEX_COUNT
    <3>2. QED
      BY <2>2, <3>1, PowerDoubles
  <2>8. q \in Nat /\ r * q <= s /\ s < r * q + r
    BY <2>6, Quotient
  <2>9. q \in SL_INDEX_COUNT .. 2 * SL_INDEX_COUNT - 1
    <3>1. PICK p : p = 2 ^ k
      OBVIOUS
    <3>2. p = r * SL_INDEX_COUNT /\ p <= s /\ s < 2 * p
      BY <2>2, <2>7, <3>1
    <3> HIDE DEF q, r
    <3>3. ~(q + 1 <= SL_INDEX_COUNT)
      <4>1. q + 1 <= SL_INDEX_COUNT => r * (q + 1) <= r * SL_INDEX_COUNT
        BY <2>6, <2>8, Constants
      <4>2. r * (q + 1) = r * q + r
        BY <2>6, <2>8
      <4>3. r * q \in Nat /\ r * SL_INDEX_COUNT \in Nat
        BY <2>6, <2>8, Constants
      <4>4. QED
        BY <2>6, <2>8, <3>2, <4>1, <4>2, <4>3
    <3>4. ~(q >= 2 * SL_INDEX_COUNT)
      <4>1. q >= 2 * SL_INDEX_COUNT => r * q >= r * (2 * SL_INDEX_COUNT)
        BY <2>6, <2>8, Constants
      <4>2. r * (2 * SL_INDEX_COUNT) = 2 * (r * SL_INDEX_COUNT)
        BY <2>6, Constants
      <4>3. r * q \in Nat /\ r * SL_INDEX_COUNT \in Nat
        BY <2>6, <2>8, Constants
      <4>4. QED
        BY <2>6, <2>8, <3>2, <4>1, <4>2, <4>3
    <3>5. QED
      BY <2>8, <3>3, <3>4, Constants
  <2>10. q - SL_INDEX_COUNT \in SL
    <3> HIDE DEF q
    <3>1. QED
      BY <2>9, Constants DEF SL
  <2>11. QED
    BY <2>3, <2>4, <2>10
<1>3. QED
  BY <1>1, <1>2, Constants

LEMMA InsertionKeepsSizes ==
  ASSUME NEW D \in SUBSET Nat, NEW h \in Control(D), NEW b \in D,
         mapping_insert(h.hdr[b].size).fl \in FL, mapping_insert(h.hdr[b].size).sl \in SL
  PROVE  SameSizes(D, h, block_insert(h, b))
<1> DEFINE at == mapping_insert(h.hdr[b].size)
           current == h.blocks[at.fl][at.sl]
<1>1. current \in Int /\ block_null \in Int /\ b \in Int
  BY DEF Control, block_null
<1>2. PICK h1 : h1 = SetNext(h, b, current)
  OBVIOUS
<1>3. SameSizes(D, h, h1) /\ h1 \in Control(D)
  <2> HIDE DEF current
  <2>1. QED
    BY <1>1, <1>2, WritesKeepSizes DEF SameSizes
<1>4. PICK h2 : h2 = SetPrev(h1, b, block_null)
  OBVIOUS
<1>5. SameSizes(D, h1, h2) /\ h2 \in Control(D)
  BY <1>1, <1>3, <1>4, WritesKeepSizes DEF SameSizes
<1>6. PICK h3 : h3 = SetPrev(h2, current, b)
  OBVIOUS
<1>7. SameSizes(D, h2, h3) /\ h3 \in Control(D)
  <2> HIDE DEF current
  <2>1. QED
    BY <1>1, <1>5, <1>6, WritesKeepSizes DEF SameSizes
<1>8. PICK f : f = [[[h3 EXCEPT !.blocks[at.fl][at.sl] = b]
                       EXCEPT !.fl = @ \cup {at.fl}]
                      EXCEPT !.sl[at.fl] = @ \cup {at.sl}]
  OBVIOUS
<1>9. SameSizes(D, h3, f)
  <2> HIDE DEF at
  <2>1. at.fl \in FL /\ at.sl \in SL
    BY DEF at
  <2>2. PICK f1 : f1 = [h3 EXCEPT !.blocks[at.fl][at.sl] = b]
    OBVIOUS
  <2>3. f1 \in Control(D) /\ f1.hdr = h3.hdr
    BY <1>1, <1>7, <2>1, <2>2 DEF Control
  <2>4. PICK f2 : f2 = [f1 EXCEPT !.fl = @ \cup {at.fl}]
    OBVIOUS
  <2>5. f2 \in Control(D) /\ f2.hdr = h3.hdr
    BY <2>1, <2>3, <2>4 DEF Control
  <2>6. f = [f2 EXCEPT !.sl[at.fl] = @ \cup {at.sl}]
    BY <1>8, <2>2, <2>4
  <2>7. f2.sl[at.fl] \cup {at.sl} \in SUBSET SL
    BY <2>1, <2>5 DEF Control
  <2>8. f \in Control(D) /\ f.hdr = h3.hdr
    BY <2>1, <2>5, <2>6, <2>7 DEF Control
  <2>9. QED
    BY <2>8 DEF SameSizes
<1>10. block_insert(h, b) = f
  <2>1. block_insert(h, b) =
          [h EXCEPT !.hdr[b].next = current, !.hdr[b].prev = block_null,
                    !.hdr[current].prev = b, !.blocks[at.fl][at.sl] = b,
                    !.fl = @ \cup {at.fl}, !.sl[at.fl] = @ \cup {at.sl}]
    BY Zenon DEF block_insert
  <2> HIDE DEF at, current
  <2>2. h3 = [h EXCEPT !.hdr[b].next = current, !.hdr[b].prev = block_null,
                       !.hdr[current].prev = b]
    BY <1>2, <1>4, <1>6 DEF SetNext, SetPrev
  <2>3. QED
    BY <1>8, <2>1, <2>2
<1>11. SameSizes(D, h, h2) /\ SameSizes(D, h3, f)
  BY <1>3, <1>5, <1>9, SizesStaySame
<1>12. SameSizes(D, h, h3)
  BY <1>7, <1>11, SizesStaySame
<1>13. QED
  BY <1>10, <1>11, <1>12, SizesStaySame

(* A block is cut in two: what is left of it, and the rest. *)
Cut(D, h, g, b, size, r) ==
  /\ r \in Nat /\ r # b
  /\ g \in Control(D \cup {r})
  /\ g.hdr[b].size = size
  /\ g.hdr[r].size = h.hdr[b].size - (size + overhead)
  /\ \A c \in D \ {b, r} : g.hdr[c].size = h.hdr[c].size

LEMMA CutStaysCut ==
  ASSUME NEW D, NEW h, NEW g, NEW f, NEW b \in D, NEW size, NEW r,
         Cut(D, h, g, b, size, r), SameSizes(D \cup {r}, g, f)
  PROVE  Cut(D, h, f, b, size, r)
BY DEF Cut, SameSizes

LEMMA SplitCuts ==
  ASSUME NEW D \in SUBSET Nat, NEW h \in Control(D), NEW b \in D, NEW size \in Nat,
         size >= Word, h.hdr[b].size - (size + overhead) \in Nat
  PROVE  Cut(D, h, block_split(h, b, size), b, size, Remaining(b, size))
<1> DEFINE r == Remaining(b, size)
           header == [size |-> h.hdr[b].size - (size + overhead), free |-> Junk,
                      prev_free |-> Junk, prev_phys |-> Junk, next |-> Junk, prev |-> Junk]
           hdr == [c \in D \cup {r} |-> IF c = r THEN header ELSE h.hdr[c]]
           added == [h EXCEPT !.hdr = hdr]
           cut == [added EXCEPT !.hdr[b].size = size]
<1>1. r = b + Word + size /\ r \in Nat /\ r # b
  <2>1. PICK w \in Nat : w = Word /\ w > 0
    BY Constants
  <2>2. r = b + 2 * w + size - w
    BY <2>1 DEF Remaining, Ptr, overhead
  <2> HIDE DEF r
  <2>3. QED
    BY <2>1, <2>2
<1>2. D = DOMAIN h.hdr /\ h.hdr \in [D -> Header]
  BY DEF Control
<1>3. header \in Header
  BY DEF Header, Junk
<1>4. hdr \in [D \cup {r} -> Header]
  <2> HIDE DEF header, r
  <2>1. QED
    BY <1>2, <1>3
<1>5. added \in Control(D \cup {r}) /\ added.hdr = hdr
  <2> HIDE DEF hdr, r
  <2>1. QED
    BY <1>4 DEF Control
<1>6. PICK g : g = cut
  OBVIOUS
<1>7. /\ g \in Control(D \cup {r})
      /\ g.hdr[b].size = size
      /\ \A c \in (D \cup {r}) \ {b} : g.hdr[c].size = hdr[c].size
  <2> HIDE DEF hdr, r, added
  <2>1. g.hdr = [hdr EXCEPT ![b].size = size] /\ g \in Control(D \cup {r})
    <3>1. added.hdr[b] \in Header /\ [added.hdr[b] EXCEPT !.size = size] \in Header
      BY <1>4, <1>5 DEF Header
    <3>2. [hdr EXCEPT ![b].size = size] \in [D \cup {r} -> Header]
      BY <1>4, <1>5, <3>1
    <3>3. PICK k : k = [hdr EXCEPT ![b].size = size]
      OBVIOUS
    <3>4. g = [added EXCEPT !.hdr = k]
      BY <1>5, <1>6, <3>3
    <3>5. QED
      BY <1>5, <3>2, <3>3, <3>4 DEF Control
  <2>2. QED
    BY <1>4, <2>1 DEF Header
<1>8. Cut(D, h, g, b, size, r)
  <2>1. hdr[r].size = h.hdr[b].size - (size + overhead)
    OBVIOUS
  <2>2. \A c \in D \ {b, r} : hdr[c].size = h.hdr[c].size
    OBVIOUS
  <2> HIDE DEF hdr, r
  <2>3. QED
    BY <1>1, <1>7, <2>1, <2>2 DEF Cut
<1>9. block_split(h, b, size) = MarkAsFree(g, r)
  BY <1>2, <1>6 DEF block_split
<1> HIDE DEF r
<1>10. SameSizes(D \cup {r}, g, MarkAsFree(g, r))
  BY <1>1, <1>7, MarksKeepSizes
<1>11. QED
  BY <1>8, <1>9, <1>10, CutStaysCut DEF r

LEMMA LeadingCuts ==
  ASSUME NEW D \in SUBSET Nat, NEW h \in Control(D), NEW b \in D, NEW gap \in Nat,
         gap >= header_size, block_can_split(h, b, gap), mapping_insert(h.hdr[b].size).fl \in FL
  PROVE  LET lead == block_trim_free_leading(h, b, gap)
         IN  lead.block = b + gap /\ Cut(D, h, lead.h, b, gap - overhead, b + gap)
<1> DEFINE r == Remaining(b, gap - overhead)
           size == gap - overhead
<1>1. h.hdr[b].size \in Nat
  BY DEF Control, Header
<1>2. r = b + gap /\ r \in Nat /\ size \in Nat /\ size >= Word
  <2>1. PICK w \in Nat : w = Word /\ w > 0
    BY Constants
  <2>2. r = b + 2 * w + (gap - w) - w /\ gap >= 4 * w /\ size = gap - w
    BY <2>1, Sizes DEF Remaining, Ptr, overhead
  <2>3. b \in Nat
    OBVIOUS
  <2> HIDE DEF r, size
  <2>4. QED
    BY <2>1, <2>2, <2>3
<1>3. /\ h.hdr[b].size - (size + overhead) \in Nat
      /\ size <= h.hdr[b].size
  <2>1. h.hdr[b].size >= header_size + gap
    BY DEF block_can_split
  <2>2. size + overhead = gap
    BY Constants, Sizes
  <2>3. header_size \in Nat /\ overhead \in Nat
    BY Constants, Sizes
  <2>4. QED
    BY <1>1, <1>2, <2>1, <2>2, <2>3
<1>4. mapping_insert(size).fl \in FL /\ mapping_insert(size).sl \in SL
  <2> HIDE DEF size
  <2>1. QED
    BY <1>1, <1>2, <1>3, SmallerIsInRange
<1>5. PICK h1 : h1 = block_split(h, b, size)
  OBVIOUS
<1>6. Cut(D, h, h1, b, size, r)
  <2>1. r = Remaining(b, size)
    OBVIOUS
  <2> HIDE DEF size, r
  <2>2. QED
    BY <1>2, <1>3, <1>5, <2>1, SplitCuts
<1> HIDE DEF size
<1>7. PICK h2 : h2 = PrevFree(h1, r)
  OBVIOUS
<1>8. D \cup {r} \in SUBSET Nat /\ b \in D \cup {r} /\ b \in Nat
  BY <1>2
<1> HIDE DEF r
<1>9. SameSizes(D \cup {r}, h1, h2)
  BY <1>2, <1>6, <1>7, <1>8, MarksKeepSizes DEF Cut
<1>10. Cut(D, h, h2, b, size, r)
  BY <1>6, <1>9, CutStaysCut
<1>11. PICK h3 : h3 = LinkNext(h2, b)
  OBVIOUS
<1>12. SameSizes(D \cup {r}, h2, h3)
  BY <1>8, <1>10, <1>11, MarksKeepSizes DEF Cut
<1>13. Cut(D, h, h3, b, size, r)
  BY <1>10, <1>12, CutStaysCut
<1>14. PICK h4 : h4 = block_insert(h3, b)
  OBVIOUS
<1>15. h3 \in Control(D \cup {r}) /\ h3.hdr[b].size = size
  BY <1>13 DEF Cut
<1>16. SameSizes(D \cup {r}, h3, h4)
  BY <1>4, <1>8, <1>14, <1>15, InsertionKeepsSizes
<1>17. Cut(D, h, h4, b, size, r)
  BY <1>13, <1>16, CutStaysCut
<1>18. block_trim_free_leading(h, b, gap) = [block |-> r, h |-> h4]
  BY <1>5, <1>7, <1>11, <1>14 DEF block_trim_free_leading, r, size
<1>19. /\ block_trim_free_leading(h, b, gap).block = r
       /\ block_trim_free_leading(h, b, gap).h = h4
  BY <1>18
<1>20. QED
  BY <1>2, <1>17, <1>19 DEF size

(* Whatever is cut off behind it, the block keeps what it is to hold. *)
LEMMA TrimLeavesEnough ==
  ASSUME NEW D \in SUBSET Nat, NEW h \in Control(D), NEW b \in D, NEW size \in Nat,
         size >= block_size_min, h.hdr[b].size >= size, mapping_insert(h.hdr[b].size).fl \in FL
  PROVE  \E E \in SUBSET Nat :
           /\ b \in E
           /\ block_trim_free(h, b, size) \in Control(E)
           /\ block_trim_free(h, b, size).hdr[b].size >= size
           /\ block_trim_free(h, b, size).hdr[b].size <= h.hdr[b].size
<1> DEFINE r == Remaining(b, size)
<1>1. h.hdr[b].size \in Nat
  BY DEF Control, Header
<1>2. CASE ~block_can_split(h, b, size)
  <2>1. block_trim_free(h, b, size) = h
    BY <1>2 DEF block_trim_free
  <2>2. QED
    BY <1>1, <2>1
<1>3. CASE block_can_split(h, b, size)
  <2>1. h.hdr[b].size - (size + overhead) \in Nat /\ size >= Word
    <3>1. h.hdr[b].size >= header_size + size
      BY <1>3 DEF block_can_split
    <3>2. PICK w \in Nat : w = Word /\ w > 0
      BY Constants
    <3>3. header_size = 4 * w /\ overhead = w /\ block_size_min = 3 * w
      BY <3>2, Sizes
    <3>4. QED
      BY <1>1, <3>1, <3>2, <3>3
  <2>2. PICK h1 : h1 = block_split(h, b, size)
    OBVIOUS
  <2>3. Cut(D, h, h1, b, size, r)
    BY <2>1, <2>2, SplitCuts
  <2>4. r \in Nat /\ D \cup {r} \in SUBSET Nat /\ b \in D \cup {r} /\ r \in D \cup {r} /\ b \in Nat
    BY <2>3 DEF Cut
  <2> HIDE DEF r
  <2>5. PICK h2 : h2 = LinkNext(h1, b)
    OBVIOUS
  <2>6. SameSizes(D \cup {r}, h1, h2)
    BY <2>3, <2>4, <2>5, MarksKeepSizes DEF Cut
  <2>7. Cut(D, h, h2, b, size, r)
    BY <2>3, <2>6, CutStaysCut
  <2>8. PICK h3 : h3 = PrevFree(h2, r)
    OBVIOUS
  <2>9. SameSizes(D \cup {r}, h2, h3)
    BY <2>4, <2>7, <2>8, MarksKeepSizes DEF Cut
  <2>10. Cut(D, h, h3, b, size, r)
    BY <2>7, <2>9, CutStaysCut
  <2>11. h3 \in Control(D \cup {r}) /\ h3.hdr[r].size = h.hdr[b].size - (size + overhead)
    BY <2>10 DEF Cut
  <2>12. h.hdr[b].size - (size + overhead) <= h.hdr[b].size
    BY <1>1, Sizes, Constants
  <2>13. mapping_insert(h3.hdr[r].size).fl \in FL /\ mapping_insert(h3.hdr[r].size).sl \in SL
    BY <1>1, <2>1, <2>11, <2>12, SmallerIsInRange
  <2>14. PICK h4 : h4 = block_insert(h3, r)
    OBVIOUS
  <2>15. SameSizes(D \cup {r}, h3, h4)
    BY <2>4, <2>11, <2>13, <2>14, InsertionKeepsSizes
  <2>16. Cut(D, h, h4, b, size, r)
    BY <2>10, <2>15, CutStaysCut
  <2>17. block_trim_free(h, b, size) = h4
    BY <1>3, <2>2, <2>5, <2>8, <2>14 DEF block_trim_free, r
  <2>18. h4 \in Control(D \cup {r}) /\ h4.hdr[b].size = size
    BY <2>16 DEF Cut
  <2>19. QED
    BY <1>1, <2>4, <2>17, <2>18
<1>4. QED
  BY <1>2, <1>3

(* An aligned block out of an aligned block. *)
LEMMA AlignedInside ==
  ASSUME NEW align \in Nat, align > 0, NEW b \in Nat, Multiple(Ptr(b), Word),
         Multiple(align, Word) \/ (Multiple(Word, align) /\ align <= Word),
         NEW adjust \in Nat, adjust >= block_size_min, NEW bs \in Nat,
         IF align > Word THEN bs >= adjust + align + header_size ELSE bs >= adjust
  PROVE  /\ Gap(b, align) \in Nat
         /\ (Ptr(b) + Gap(b, align)) % align = 0
         /\ Gap(b, align) > 0 =>
              /\ Gap(b, align) >= header_size
              /\ bs >= header_size + Gap(b, align)
         /\ bs - Gap(b, align) >= adjust
         /\ Multiple(Gap(b, align), Word)
<1> DEFINE gap == Gap(b, align)
<1>1. PICK w \in Nat : w = Word /\ w > 0 /\ header_size = 4 * w /\ block_size_min = 3 * w
  BY Constants, Sizes
<1>2. CASE align > Word
  <2>1. Multiple(align, Word)
    BY <1>2, Constants
  <2>2. /\ gap \in Nat /\ (gap = 0 \/ gap >= header_size) /\ gap < align + header_size
        /\ Multiple(Ptr(b) + gap, align) /\ Multiple(gap, Word)
    BY <2>1, GapIsABlock
  <2>3. gap + Word <= align + header_size
    <3>1. Multiple(align + header_size, Word)
      BY <2>1, MultiplesSum, Sizes, Constants
    <3> HIDE DEF gap
    <3>2. QED
      BY <2>2, <3>1, MultiplesApart, Constants
  <2>4. (Ptr(b) + gap) % align = 0
    BY <2>2, MultipleIsEnough
  <2> HIDE DEF gap
  <2>5. bs >= header_size + gap /\ bs - gap >= adjust
    BY <1>1, <1>2, <2>2, <2>3
  <2>6. QED
    BY <2>2, <2>4, <2>5 DEF gap
<1>3. CASE ~(align > Word)
  <2>1. Multiple(Ptr(b), align)
    <3>1. CASE Multiple(Word, align)
      BY <3>1, MultipleOfMultiple
    <3>2. CASE Multiple(align, Word)
      <4>1. PICK q \in Nat : align = Word * q
        BY <3>2 DEF Multiple
      <4>2. q >= 1 
        BY <4>1, Constants
      <4>3. q >= 2 => Word * q >= Word * 2
        BY <4>1, Constants
      <4>4. ~(q >= 2)
        BY <1>1, <1>3, <4>1, <4>3
      <4>5. q = 1 /\ align = Word
        BY <1>1, <4>1, <4>2, <4>4
      <4>6. QED
        BY <4>5
    <3>3. QED
      BY <3>1, <3>2
  <2>2. Ptr(b) \in Nat /\ Ptr(b) % align = 0 /\ AlignUp(Ptr(b), align) = Ptr(b)
    BY <2>1, MultipleIsEnough
  <2>3. gap = 0
    BY <2>2 DEF Gap
  <2>4. Multiple(0, Word)
    <3>1. 0 = Word * 0
      BY Constants
    <3>2. QED
      BY <3>1 DEF Multiple
  <2>5. QED
    BY <1>3, <2>2, <2>3, <2>4, Constants
<1>4. QED
  BY <1>2, <1>3

(* The block that is found holds the request, with the gap before it and a *)
(* whole block in the gap.                                                 *)
Found(D, h, list, align, size) ==
  LET adjust == adjust_request_size(size, Word)
      b == h.blocks[list.fl][list.sl]
      bs == h.hdr[b].size
      gap == Gap(b, align)
  IN  /\ adjust \in Nat /\ adjust >= size /\ adjust >= block_size_min
      /\ Multiple(adjust, Word)
      /\ list.fl \in FL /\ list.sl \in h.sl[list.fl] /\ list.sl \in SL
      /\ b \in D /\ b \in Nat /\ bs \in Nat
      /\ mapping_insert(bs) = [fl |-> list.fl, sl |-> list.sl]
      /\ gap \in Nat /\ Multiple(gap, Word) /\ (Ptr(b) + gap) % align = 0
      /\ gap > 0 => gap >= header_size /\ bs >= header_size + gap
      /\ bs - gap >= adjust

LEMMA FoundFits ==
  ASSUME NEW D \in SUBSET Nat, NEW h \in Control(D), HeadsFit(h),
         NEW n \in Nat, NEW align, align = 2 ^ n, NEW size \in Nat,
         aligned_size(align, size) # 0,
         mapping_search(aligned_size(align, size)).fl \in FL,
         NEW list \in search_suitable_block(h, mapping_search(aligned_size(align, size)))
  PROVE  Found(D, h, list, align, size)
<1> DEFINE adjust == adjust_request_size(size, Word)
           with_gap == adjust_request_size(adjust + align + header_size, align)
           wanted == aligned_size(align, size)
           at == mapping_search(wanted)
<1>1. wanted # 0 /\ at.fl \in FL
  OBVIOUS
<1>2. wanted = IF adjust > 0 /\ align > Word THEN with_gap ELSE adjust
  BY DEF aligned_size
<1>3. /\ align \in Nat /\ align > 0
      /\ Multiple(align, Word) \/ (Multiple(Word, align) /\ align <= Word)
  <2>1. CASE n <= ALIGN_SIZE_LOG2
    BY <2>1, Constants, PowersGrow, PowersOrdered, PowerIsMultiple DEF Word
  <2>2. CASE ALIGN_SIZE_LOG2 <= n
    BY <2>2, Constants, PowersGrow, PowerIsMultiple DEF Word
  <2>3. QED
    BY <2>1, <2>2, Constants
<1>4. adjust # 0
  <2>1. CASE adjust = 0
    BY <1>1, <1>2, <2>1
  <2>2. QED
    BY <2>1
<1>5. adjust \in Nat /\ adjust >= size /\ adjust >= block_size_min /\ Multiple(adjust, Word)
  BY <1>4, RequestIsRounded, Constants, Sizes
<1>6. /\ wanted \in Nat /\ Multiple(wanted, Word)
      /\ IF align > Word THEN wanted >= adjust + align + header_size
         ELSE wanted >= adjust
  <2> HIDE DEF adjust
  <2>1. CASE align > Word
    <3>1. wanted = with_gap
      BY <1>2, <1>4, <1>5, <2>1
    <3>2. adjust + align + header_size \in Nat /\ Multiple(align, Word)
      BY <1>3, <1>5, <2>1, Sizes, Constants
    <3>3. with_gap # 0
      BY <1>1, <3>1
    <3>4. /\ with_gap \in Nat /\ with_gap >= adjust + align + header_size
          /\ Multiple(with_gap, Word)
      BY <1>3, <3>2, <3>3, RequestIsRounded
    <3>5. QED
      BY <2>1, <3>1, <3>4
  <2>2. CASE ~(align > Word)
    BY <1>2, <1>5, <2>2
  <2>3. QED
    BY <2>1, <2>2
<1> HIDE DEF adjust, wanted, at
<1> DEFINE i == list.fl
           j == list.sl
           b == h.blocks[i][j]
           bs == h.hdr[b].size
           gap == Gap(b, align)
<1>7. i \in FL /\ j \in h.sl[i] /\ j \in SL /\ AtOrAfter(list, at)
  <2>1. i \in FL /\ j \in h.sl[i] /\ AtOrAfter(list, at)
    BY <1>1, SearchFinds DEF at, wanted
  <2>2. QED
    BY <2>1 DEF Control
<1>8. b \in D /\ Ptr(b) % Word = 0 /\ mapping_insert(bs) = [fl |-> i, sl |-> j]
  <2>1. DOMAIN h.hdr = D
    BY DEF Control
  <2>2. QED
    BY <1>7, <2>1 DEF HeadsFit
<1>9. bs \in Nat /\ b \in Nat /\ Multiple(Ptr(b), Word)
  <2>1. bs \in Nat /\ b \in Nat
    BY <1>8 DEF Control, Header
  <2>2. Ptr(b) \in Nat
    BY <2>1, Constants DEF Ptr
  <2>3. Ptr(b) = Word * (Ptr(b) \div Word) /\ Ptr(b) \div Word \in Nat
    BY <1>8, <2>2, Constants, Quotient
  <2>4. QED
    BY <2>1, <2>3 DEF Multiple
<1>10. mapping_insert(bs).fl = i /\ mapping_insert(bs).sl = j
  BY <1>8
<1> HIDE DEF b, bs, i, j
<1>11. bs >= wanted
  <2>1. AtOrAfter(mapping_insert(bs), mapping_search(wanted))
    BY <1>7, <1>10 DEF AtOrAfter, at, i, j
  <2>2. wanted % Word = 0
    BY <1>6, MultipleIsEnough, Constants
  <2>3. QED
    BY <1>6, <1>9, <2>1, <2>2, GoodFit
<1>12. IF align > Word THEN bs >= adjust + align + header_size ELSE bs >= adjust
  BY <1>3, <1>5, <1>6, <1>9, <1>11, Sizes
<1>13. /\ gap \in Nat /\ (Ptr(b) + gap) % align = 0
       /\ gap > 0 => gap >= header_size /\ bs >= header_size + gap
       /\ bs - gap >= adjust
       /\ Multiple(gap, Word)
  BY <1>3, <1>5, <1>9, <1>12, AlignedInside
<1>14. QED
  BY <1>3, <1>5, <1>7, <1>8, <1>9, <1>13 DEF b, bs, i, j, adjust, Found

(* What tlsf_memalign returns is aligned, and is a block that holds the    *)
(* request and lies inside the free block it was taken from, whatever the  *)
(* list, the gap and what is cut off in front and behind.                  *)
THEOREM RequestFits ==
  ASSUME NEW D \in SUBSET Nat, NEW h \in Control(D), HeadsFit(h),
         NEW n \in Nat, NEW align, align = 2 ^ n, NEW size \in Nat,
         tlsf_memalign(h, align, size).ptr # NULL
  PROVE  LET got == tlsf_memalign(h, align, size)
             room == got.h.hdr[Block(got.ptr)].size
         IN  /\ got.ptr % align = 0
             /\ room >= size
             /\ \E i \in FL : \E j \in h.sl[i] :
                  LET b == h.blocks[i][j]
                  IN  Ptr(b) <= got.ptr /\ got.ptr + room <= Ptr(b) + h.hdr[b].size
<1> DEFINE adjust == adjust_request_size(size, Word)
           wanted == aligned_size(align, size)
           at == mapping_search(wanted)
<1>1. wanted # 0 /\ at.fl \in FL
  BY MemalignFinds
<1>2. PICK list \in search_suitable_block(h, at) :
        tlsf_memalign(h, align, size) = From(h, list, align, adjust)
  BY MemalignFinds
<1> DEFINE i == list.fl
           j == list.sl
           b == h.blocks[i][j]
           bs == h.hdr[b].size
           gap == Gap(b, align)
           taken == remove_free_block(h, b, list)
           placed == IF gap > 0 THEN block_trim_free_leading(taken, b, gap)
                     ELSE [block |-> b, h |-> taken]
           trimmed == block_trim_free(placed.h, placed.block, adjust)
           used == MarkAsUsed(trimmed, placed.block)
<1>3. /\ adjust \in Nat /\ adjust >= size /\ adjust >= block_size_min
      /\ i \in FL /\ j \in h.sl[i] /\ j \in SL
      /\ b \in D /\ b \in Nat /\ bs \in Nat
      /\ mapping_insert(bs) = [fl |-> i, sl |-> j]
      /\ gap \in Nat /\ (Ptr(b) + gap) % align = 0
      /\ gap > 0 => gap >= header_size /\ bs >= header_size + gap
      /\ bs - gap >= adjust
  <2>1. Found(D, h, list, align, size)
    BY <1>1, FoundFits
  <2>2. QED
    BY <2>1 DEF Found
<1> HIDE DEF adjust, wanted, at
<1>4. adjust \in Nat /\ adjust >= size /\ adjust >= block_size_min
  BY <1>3
<1>5. i \in FL /\ j \in h.sl[i] /\ j \in SL
  BY <1>3
<1>6. b \in D
  BY <1>3
<1>7. bs \in Nat /\ b \in Nat
  BY <1>3
<1>8. mapping_insert(bs).fl = i /\ mapping_insert(bs).sl = j
  BY <1>3
<1>9. /\ gap \in Nat /\ (Ptr(b) + gap) % align = 0
      /\ gap > 0 => gap >= header_size /\ bs >= header_size + gap
      /\ bs - gap >= adjust
  BY <1>3
<1> HIDE DEF b, bs, i, j
<1>10. SameSizes(D, h, taken)
  BY <1>5, <1>6, RemovalKeepsSizes DEF i, j
<1>11. taken \in Control(D) /\ taken.hdr[b].size = bs
  BY <1>6, <1>10 DEF SameSizes, bs
<1> HIDE DEF gap, taken
<1>12. PICK at2, k : at2 = b + gap /\ k = placed.h
  OBVIOUS
<1>13. PICK E \in SUBSET Nat :
         /\ at2 = placed.block
         /\ at2 \in E /\ k \in Control(E) /\ k.hdr[at2].size = bs - gap
  <2>1. CASE gap > 0
    <3>1. block_can_split(taken, b, gap)
      BY <1>9, <1>11, <2>1 DEF block_can_split
    <3>2. mapping_insert(taken.hdr[b].size).fl \in FL
      BY <1>5, <1>8, <1>11
    <3>3. placed.block = b + gap /\ Cut(D, taken, k, b, gap - overhead, b + gap)
      BY <1>6, <1>9, <1>11, <1>12, <2>1, <3>1, <3>2, LeadingCuts
    <3>4. bs - (gap - overhead + overhead) = bs - gap
      BY <1>7, <1>9, Sizes, Constants
    <3>5. at2 \in Nat /\ D \cup {at2} \in SUBSET Nat
      BY <1>7, <1>9, <1>12
    <3> HIDE DEF placed
    <3>6. k \in Control(D \cup {at2}) /\ k.hdr[at2].size = bs - gap
      BY <1>11, <1>12, <3>3, <3>4 DEF Cut
    <3>7. QED
      BY <1>12, <3>3, <3>5, <3>6
  <2>2. CASE ~(gap > 0)
    <3>1. gap = 0 /\ at2 = b /\ bs - gap = bs
      BY <1>7, <1>9, <1>12, <2>2
    <3>2. placed.block = b /\ k = taken
      BY <1>12, <2>2
    <3> HIDE DEF placed
    <3>3. QED
      BY <1>6, <1>11, <3>1, <3>2
  <2>3. QED
    BY <2>1, <2>2
<1>14. tlsf_memalign(h, align, size) = [h |-> HandOver(used, placed.block), ptr |-> Ptr(placed.block)]
  BY <1>2 DEF From, b, i, j, gap, taken
<1> DEFINE room == trimmed.hdr[at2].size
<1>15. PICK F \in SUBSET Nat :
         /\ at2 \in F /\ trimmed \in Control(F) /\ room >= adjust /\ room <= bs - gap
  <2>1. bs - gap \in Nat /\ bs - gap <= bs
    BY <1>4, <1>7, <1>9
  <2>2. mapping_insert(bs - gap).fl \in FL
    BY <1>5, <1>7, <1>8, <2>1, SmallerIsInRange
  <2>3. trimmed = block_trim_free(k, at2, adjust)
    BY <1>12, <1>13
  <2> HIDE DEF placed, trimmed
  <2>4. \E F \in SUBSET Nat :
           /\ at2 \in F
           /\ block_trim_free(k, at2, adjust) \in Control(F)
           /\ block_trim_free(k, at2, adjust).hdr[at2].size >= adjust
           /\ block_trim_free(k, at2, adjust).hdr[at2].size <= k.hdr[at2].size
    BY <1>4, <1>9, <1>13, <2>2, TrimLeavesEnough
  <2>5. QED
    BY <1>13, <2>3, <2>4
<1>16. room \in Nat /\ at2 \in Nat
  BY <1>15 DEF Control, Header
<1> HIDE DEF trimmed, placed, room
<1>17. PICK u : u = MarkAsUsed(trimmed, at2)
  OBVIOUS
<1>18. SameSizes(F, trimmed, u) /\ u \in Control(F)
  <2>1. SameSizes(F, trimmed, u)
    BY <1>15, <1>16, <1>17, MarksKeepSizes
  <2>2. QED
    BY <2>1 DEF SameSizes
<1>19. PICK g : g = HandOver(u, at2)
  OBVIOUS
<1>20. SameSizes(F, u, g)
  BY <1>16, <1>18, <1>19, MarksKeepSizes
<1>21. g.hdr[at2].size = room
  BY <1>15, <1>18, <1>20 DEF SameSizes, room
<1>22. /\ tlsf_memalign(h, align, size).h = g
       /\ tlsf_memalign(h, align, size).ptr = Ptr(at2)
  BY <1>13, <1>14, <1>17, <1>19
<1>23. Block(Ptr(at2)) = at2 /\ Ptr(at2) = Ptr(b) + gap /\ Ptr(b) \in Nat
  BY <1>7, <1>9, <1>12, <1>16, Constants DEF Block, Ptr
<1>24. /\ Ptr(at2) % align = 0
       /\ room >= size
       /\ Ptr(b) <= Ptr(at2) /\ Ptr(at2) + room <= Ptr(b) + bs
  BY <1>4, <1>7, <1>9, <1>15, <1>16, <1>23
<1>25. QED
  BY <1>5, <1>21, <1>22, <1>23, <1>24 DEF b, bs

-----------------------------------------------------------------------------
(***************************************************************************)
(* TLSF, in blocks: what a control structure looks like between two        *)
(* operations, and in the middle of one, when the blocks in U are in no    *)
(* list although they are free.                                            *)
(***************************************************************************)
Sz(h, b) == h.hdr[b].size
Fr(h, b) == h.hdr[b].free
Pf(h, b) == h.hdr[b].prev_free
Pp(h, b) == h.hdr[b].prev_phys
Nx(h, b) == h.hdr[b].next
Pv(h, b) == h.hdr[b].prev
At(h, b) == mapping_insert(Sz(h, b))
HeadOf(h, at) == h.blocks[at.fl][at.sl]

(* The blocks lie behind one another, from the first of a pool to its last, *)
(* with nothing between them.                                              *)
Tiles(D, h, Starts, Ends) ==
  /\ Starts \subseteq D /\ Ends \subseteq D
  /\ \A b \in D : /\ Multiple(b, Word) /\ Multiple(Sz(h, b), Word)
                  /\ b \in Ends => Sz(h, b) = 0
                  /\ b \notin Ends => Sz(h, b) >= block_size_min
  /\ \A b \in D \ Ends : /\ block_next(h, b) \in D \ Starts
                         /\ \A c \in D : c <= b \/ block_next(h, b) <= c
  /\ \A b \in D \ Starts : \E p \in D \ Ends : block_next(h, p) = b

Flags(D, h, Starts, Ends) ==
  /\ \A b \in D : Fr(h, b) \in {0, 1}
  /\ \A b \in Ends : Fr(h, b) = 0
  /\ \A b \in Starts : Pf(h, b) = 0
  /\ \A b \in D \ Ends : /\ Pf(h, block_next(h, b)) = Fr(h, b)
                         /\ Fr(h, b) = 1 => Pp(h, block_next(h, b)) = b

(* Of two free neighbours, one is in U. *)
FreeApart(D, h, Ends, U) ==
  \A b \in D \ Ends :
    Fr(h, b) = 1 /\ Fr(h, block_next(h, b)) = 1 => b \in U \/ block_next(h, b) \in U

(* F are the blocks of the lists. *)
Lists(F, h) ==
  /\ \A b \in F : /\ At(h, b).fl \in FL /\ At(h, b).sl \in SL
                  /\ Nx(h, b) \in F \cup {0} /\ Pv(h, b) \in F \cup {0}
                  /\ Nx(h, b) # 0 => Pv(h, Nx(h, b)) = b /\ At(h, Nx(h, b)) = At(h, b)
                  /\ Pv(h, b) # 0 => Nx(h, Pv(h, b)) = b
                  /\ Pv(h, b) = 0 => HeadOf(h, At(h, b)) = b
  /\ \A i \in FL, j \in SL :
       LET c == h.blocks[i][j]
       IN  /\ c # 0 => c \in F /\ At(h, c) = [fl |-> i, sl |-> j] /\ Pv(h, c) = 0
           /\ j \in h.sl[i] <=> c # 0
  /\ \A i \in FL : i \in h.fl <=> h.sl[i] # {}
  /\ \A S \in SUBSET F : S # {} => \E b \in S : Pv(h, b) \notin S

(* Every block lies in a pool, between its first and its last block.       *)
FirstIn(Pool) == {p[1] : p \in Pool}
LastIn(Pool) == {p[2] : p \in Pool}
Within(D, Pool) ==
  \A b \in D : \E p \in Pool : p[1] <= b /\ b <= p[2] /\ p[2] < p[1] + Word + block_size_max

FreeIn(D, h) == {b \in D : Fr(h, b) = 1}
UsedIn(D, h, Ends) == {b \in D \ Ends : Fr(h, b) = 0}

(* D are the blocks, of which the free ones are in a list, except those in *)
(* U, and those in V are used.                                             *)
Shape(D, h, Pool, U, V) ==
  /\ D \subseteq Nat \ {0} /\ h \in Control(D \cup {0}) /\ Pool \subseteq Nat \X Nat
  /\ Tiles(D, h, FirstIn(Pool), LastIn(Pool))
  /\ Flags(D, h, FirstIn(Pool), LastIn(Pool))
  /\ FreeApart(D, h, LastIn(Pool), U)
  /\ Within(D, Pool)
  /\ Lists(FreeIn(D, h) \ U, h)
  /\ V = UsedIn(D, h, LastIn(Pool))

-----------------------------------------------------------------------------
(* What the operations do, field by field. *)

BitsSame(h, g) == g.blocks = h.blocks /\ g.fl = h.fl /\ g.sl = h.sl
SzSame(E, h, g) == \A c \in E : Sz(g, c) = Sz(h, c)
FrSame(E, h, g) == \A c \in E : Fr(g, c) = Fr(h, c)
PfSame(E, h, g) == \A c \in E : Pf(g, c) = Pf(h, c)
PpSame(E, h, g) == \A c \in E : Pp(g, c) = Pp(h, c)
LinksSame(E, h, g) == \A c \in E : Nx(g, c) = Nx(h, c) /\ Pv(g, c) = Pv(h, c)
PhysSame(E, h, g) == SzSame(E, h, g) /\ FrSame(E, h, g) /\ PfSame(E, h, g) /\ PpSame(E, h, g)

LEMMA HeadersWritten ==
  ASSUME NEW E, NEW h \in Control(E), NEW hdr \in [E -> Header]
  PROVE  /\ [h EXCEPT !.hdr = hdr] \in Control(E)
         /\ [h EXCEPT !.hdr = hdr].hdr = hdr
         /\ BitsSame(h, [h EXCEPT !.hdr = hdr])
BY DEF Control, BitsSame

LEMMA WroteFr ==
  ASSUME NEW E, NEW h \in Control(E), NEW b, NEW v \in Int, NEW g, g = SetFree(h, b, v)
  PROVE  /\ g \in Control(E) /\ BitsSame(h, g)
         /\ SzSame(E, h, g) /\ PfSame(E, h, g) /\ PpSame(E, h, g) /\ LinksSame(E, h, g)
         /\ \A c \in E : Fr(g, c) = IF c = b THEN v ELSE Fr(h, c)
<1>1. PICK hdr \in [E -> Header] : hdr = h.hdr
  BY DEF Control
<1>2. PICK new : new = [hdr EXCEPT ![b].free = v]
  OBVIOUS
<1>3. new \in [E -> Header]
  <2>1. ASSUME NEW c \in E PROVE [hdr[c] EXCEPT !.free = v] \in Header
    BY DEF Header
  <2>2. QED
    BY <1>2, <2>1
<1>4. g = [h EXCEPT !.hdr = new]
  BY <1>1, <1>2 DEF SetFree
<1>5. g \in Control(E) /\ g.hdr = new /\ BitsSame(h, g)
  BY <1>3, <1>4, HeadersWritten
<1>6. ASSUME NEW c \in E
      PROVE  new[c] = IF c = b THEN [hdr[c] EXCEPT !.free = v] ELSE hdr[c]
  BY <1>2
<1>7. ASSUME NEW c \in E
      PROVE  /\ new[c].size = hdr[c].size
             /\ new[c].prev_free = hdr[c].prev_free
             /\ new[c].prev_phys = hdr[c].prev_phys
             /\ new[c].next = hdr[c].next
             /\ new[c].prev = hdr[c].prev
             /\ new[c].free = IF c = b THEN v ELSE hdr[c].free
  BY <1>1, <1>6 DEF Header
<1>8. QED
  BY <1>1, <1>5, <1>7 DEF PhysSame, SzSame, FrSame, PfSame, PpSame, LinksSame, Sz, Fr, Pf, Pp, Nx, Pv

LEMMA WrotePf ==
  ASSUME NEW E, NEW h \in Control(E), NEW b, NEW v \in Int, NEW g, g = SetPrevFree(h, b, v)
  PROVE  /\ g \in Control(E) /\ BitsSame(h, g)
         /\ SzSame(E, h, g) /\ FrSame(E, h, g) /\ PpSame(E, h, g) /\ LinksSame(E, h, g)
         /\ \A c \in E : Pf(g, c) = IF c = b THEN v ELSE Pf(h, c)
<1>1. PICK hdr \in [E -> Header] : hdr = h.hdr
  BY DEF Control
<1>2. PICK new : new = [hdr EXCEPT ![b].prev_free = v]
  OBVIOUS
<1>3. new \in [E -> Header]
  <2>1. ASSUME NEW c \in E PROVE [hdr[c] EXCEPT !.prev_free = v] \in Header
    BY DEF Header
  <2>2. QED
    BY <1>2, <2>1
<1>4. g = [h EXCEPT !.hdr = new]
  BY <1>1, <1>2 DEF SetPrevFree
<1>5. g \in Control(E) /\ g.hdr = new /\ BitsSame(h, g)
  BY <1>3, <1>4, HeadersWritten
<1>6. ASSUME NEW c \in E
      PROVE  new[c] = IF c = b THEN [hdr[c] EXCEPT !.prev_free = v] ELSE hdr[c]
  BY <1>2
<1>7. ASSUME NEW c \in E
      PROVE  /\ new[c].size = hdr[c].size
             /\ new[c].free = hdr[c].free
             /\ new[c].prev_phys = hdr[c].prev_phys
             /\ new[c].next = hdr[c].next
             /\ new[c].prev = hdr[c].prev
             /\ new[c].prev_free = IF c = b THEN v ELSE hdr[c].prev_free
  BY <1>1, <1>6 DEF Header
<1>8. QED
  BY <1>1, <1>5, <1>7 DEF PhysSame, SzSame, FrSame, PfSame, PpSame, LinksSame, Sz, Fr, Pf, Pp, Nx, Pv

LEMMA WrotePp ==
  ASSUME NEW E, NEW h \in Control(E), NEW b, NEW v \in Int, NEW g, g = SetPrevPhys(h, b, v)
  PROVE  /\ g \in Control(E) /\ BitsSame(h, g)
         /\ SzSame(E, h, g) /\ FrSame(E, h, g) /\ PfSame(E, h, g) /\ LinksSame(E, h, g)
         /\ \A c \in E : Pp(g, c) = IF c = b THEN v ELSE Pp(h, c)
<1>1. PICK hdr \in [E -> Header] : hdr = h.hdr
  BY DEF Control
<1>2. PICK new : new = [hdr EXCEPT ![b].prev_phys = v]
  OBVIOUS
<1>3. new \in [E -> Header]
  <2>1. ASSUME NEW c \in E PROVE [hdr[c] EXCEPT !.prev_phys = v] \in Header
    BY DEF Header
  <2>2. QED
    BY <1>2, <2>1
<1>4. g = [h EXCEPT !.hdr = new]
  BY <1>1, <1>2 DEF SetPrevPhys
<1>5. g \in Control(E) /\ g.hdr = new /\ BitsSame(h, g)
  BY <1>3, <1>4, HeadersWritten
<1>6. ASSUME NEW c \in E
      PROVE  new[c] = IF c = b THEN [hdr[c] EXCEPT !.prev_phys = v] ELSE hdr[c]
  BY <1>2
<1>7. ASSUME NEW c \in E
      PROVE  /\ new[c].size = hdr[c].size
             /\ new[c].free = hdr[c].free
             /\ new[c].prev_free = hdr[c].prev_free
             /\ new[c].next = hdr[c].next
             /\ new[c].prev = hdr[c].prev
             /\ new[c].prev_phys = IF c = b THEN v ELSE hdr[c].prev_phys
  BY <1>1, <1>6 DEF Header
<1>8. QED
  BY <1>1, <1>5, <1>7 DEF PhysSame, SzSame, FrSame, PfSame, PpSame, LinksSame, Sz, Fr, Pf, Pp, Nx, Pv

LEMMA WroteNx ==
  ASSUME NEW E, NEW h \in Control(E), NEW b, NEW v \in Int, NEW g, g = SetNext(h, b, v)
  PROVE  /\ g \in Control(E) /\ BitsSame(h, g)
         /\ PhysSame(E, h, g) /\ \A c \in E : Pv(g, c) = Pv(h, c)
         /\ \A c \in E : Nx(g, c) = IF c = b THEN v ELSE Nx(h, c)
<1>1. PICK hdr \in [E -> Header] : hdr = h.hdr
  BY DEF Control
<1>2. PICK new : new = [hdr EXCEPT ![b].next = v]
  OBVIOUS
<1>3. new \in [E -> Header]
  <2>1. ASSUME NEW c \in E PROVE [hdr[c] EXCEPT !.next = v] \in Header
    BY DEF Header
  <2>2. QED
    BY <1>2, <2>1
<1>4. g = [h EXCEPT !.hdr = new]
  BY <1>1, <1>2 DEF SetNext
<1>5. g \in Control(E) /\ g.hdr = new /\ BitsSame(h, g)
  BY <1>3, <1>4, HeadersWritten
<1>6. ASSUME NEW c \in E
      PROVE  new[c] = IF c = b THEN [hdr[c] EXCEPT !.next = v] ELSE hdr[c]
  BY <1>2
<1>7. ASSUME NEW c \in E
      PROVE  /\ new[c].size = hdr[c].size
             /\ new[c].free = hdr[c].free
             /\ new[c].prev_free = hdr[c].prev_free
             /\ new[c].prev_phys = hdr[c].prev_phys
             /\ new[c].prev = hdr[c].prev
             /\ new[c].next = IF c = b THEN v ELSE hdr[c].next
  BY <1>1, <1>6 DEF Header
<1>8. QED
  BY <1>1, <1>5, <1>7 DEF PhysSame, SzSame, FrSame, PfSame, PpSame, LinksSame, Sz, Fr, Pf, Pp, Nx, Pv

LEMMA WrotePv ==
  ASSUME NEW E, NEW h \in Control(E), NEW b, NEW v \in Int, NEW g, g = SetPrev(h, b, v)
  PROVE  /\ g \in Control(E) /\ BitsSame(h, g)
         /\ PhysSame(E, h, g) /\ \A c \in E : Nx(g, c) = Nx(h, c)
         /\ \A c \in E : Pv(g, c) = IF c = b THEN v ELSE Pv(h, c)
<1>1. PICK hdr \in [E -> Header] : hdr = h.hdr
  BY DEF Control
<1>2. PICK new : new = [hdr EXCEPT ![b].prev = v]
  OBVIOUS
<1>3. new \in [E -> Header]
  <2>1. ASSUME NEW c \in E PROVE [hdr[c] EXCEPT !.prev = v] \in Header
    BY DEF Header
  <2>2. QED
    BY <1>2, <2>1
<1>4. g = [h EXCEPT !.hdr = new]
  BY <1>1, <1>2 DEF SetPrev
<1>5. g \in Control(E) /\ g.hdr = new /\ BitsSame(h, g)
  BY <1>3, <1>4, HeadersWritten
<1>6. ASSUME NEW c \in E
      PROVE  new[c] = IF c = b THEN [hdr[c] EXCEPT !.prev = v] ELSE hdr[c]
  BY <1>2
<1>7. ASSUME NEW c \in E
      PROVE  /\ new[c].size = hdr[c].size
             /\ new[c].free = hdr[c].free
             /\ new[c].prev_free = hdr[c].prev_free
             /\ new[c].prev_phys = hdr[c].prev_phys
             /\ new[c].next = hdr[c].next
             /\ new[c].prev = IF c = b THEN v ELSE hdr[c].prev
  BY <1>1, <1>6 DEF Header
<1>8. QED
  BY <1>1, <1>5, <1>7 DEF PhysSame, SzSame, FrSame, PfSame, PpSame, LinksSame, Sz, Fr, Pf, Pp, Nx, Pv

LEMMA NextIs ==
  ASSUME NEW h, NEW b \in Nat, Sz(h, b) \in Nat
  PROVE  block_next(h, b) = b + Sz(h, b) + Word /\ block_next(h, b) \in Nat
<1>1. PICK w \in Nat : w = Word
  BY Constants
<1>2. block_next(h, b) = b + 2 * w + Sz(h, b) - w
  BY <1>1 DEF block_next, Ptr, overhead, Sz
<1>3. QED
  BY <1>1, <1>2

LEMMA Typed ==
  ASSUME NEW E, NEW h \in Control(E), NEW b \in E
  PROVE  /\ Sz(h, b) \in Nat /\ Fr(h, b) \in Int /\ Pf(h, b) \in Int
         /\ Pp(h, b) \in Int /\ Nx(h, b) \in Int /\ Pv(h, b) \in Int
BY DEF Control, Header, Sz, Fr, Pf, Pp, Nx, Pv

LEMMA NextSame ==
  ASSUME NEW E, NEW h, NEW g, NEW b \in E, SzSame(E, h, g)
  PROVE  block_next(g, b) = block_next(h, b)
BY DEF SzSame, Sz, block_next

LinkedNext(E, h, g, b) ==
  /\ g \in Control(E) /\ BitsSame(h, g) /\ LinksSame(E, h, g)
  /\ SzSame(E, h, g) /\ FrSame(E, h, g) /\ PfSame(E, h, g)
  /\ \A c \in E : Pp(g, c) = IF c = block_next(h, b) THEN b ELSE Pp(h, c)

LEMMA LinkNextDoes ==
  ASSUME NEW E, NEW h \in Control(E), NEW b \in Nat, NEW g, g = LinkNext(h, b)
  PROVE  LinkedNext(E, h, g, b)
<1>1. g = SetPrevPhys(h, block_next(h, b), b)
  BY DEF LinkNext, SetPrevPhys
<1>2. QED
  BY <1>1, WrotePp DEF LinkedNext

SetsPrevFree(E, h, g, b) ==
  /\ g \in Control(E) /\ BitsSame(h, g) /\ LinksSame(E, h, g)
  /\ SzSame(E, h, g) /\ FrSame(E, h, g) /\ PpSame(E, h, g)
  /\ \A c \in E : Pf(g, c) = IF c = b THEN 1 ELSE Pf(h, c)

LEMMA PrevFreeDoes ==
  ASSUME NEW E, NEW h \in Control(E), NEW b, NEW g, g = PrevFree(h, b)
  PROVE  SetsPrevFree(E, h, g, b)
<1>1. g = SetPrevFree(h, b, 1)
  BY DEF PrevFree, SetPrevFree
<1>2. QED
  BY <1>1, WrotePf DEF SetsPrevFree

MarkedFree(E, h, g, b) ==
  /\ g \in Control(E) /\ BitsSame(h, g) /\ LinksSame(E, h, g) /\ SzSame(E, h, g)
  /\ \A c \in E : /\ Fr(g, c) = IF c = b THEN 1 ELSE Fr(h, c)
                  /\ Pf(g, c) = IF c = block_next(h, b) THEN 1 ELSE Pf(h, c)
                  /\ Pp(g, c) = IF c = block_next(h, b) THEN b ELSE Pp(h, c)

LEMMA MarkAsFreeDoes ==
  ASSUME NEW E, NEW h \in Control(E), NEW b \in E, b \in Nat, NEW g, g = MarkAsFree(h, b)
  PROVE  MarkedFree(E, h, g, b)
<1> DEFINE n == block_next(h, b)
<1>1. PICK h1 : h1 = LinkNext(h, b)
  OBVIOUS
<1>2. LinkedNext(E, h, h1, b)
  BY <1>1, LinkNextDoes
<1>3. PICK h2 : h2 = PrevFree(h1, n)
  OBVIOUS
<1>4. SetsPrevFree(E, h1, h2, n)
  BY <1>2, <1>3, PrevFreeDoes DEF LinkedNext
<1>5. g = SetFree(h2, b, 1)
  BY <1>1, <1>3 DEF MarkAsFree, SetFree
<1>6. /\ g \in Control(E) /\ BitsSame(h2, g)
      /\ SzSame(E, h2, g) /\ PfSame(E, h2, g) /\ PpSame(E, h2, g) /\ LinksSame(E, h2, g)
      /\ \A c \in E : Fr(g, c) = IF c = b THEN 1 ELSE Fr(h2, c)
  BY <1>4, <1>5, WroteFr DEF SetsPrevFree
<1> HIDE DEF n
<1>7. QED
  BY <1>2, <1>4, <1>6 DEF MarkedFree, LinkedNext, SetsPrevFree, BitsSame, LinksSame, SzSame,
                          FrSame, PfSame, PpSame, n

MarkedUsed(E, h, g, b) ==
  /\ g \in Control(E) /\ BitsSame(h, g) /\ LinksSame(E, h, g)
  /\ SzSame(E, h, g) /\ PpSame(E, h, g)
  /\ \A c \in E : /\ Fr(g, c) = IF c = b THEN 0 ELSE Fr(h, c)
                  /\ Pf(g, c) = IF c = block_next(h, b) THEN 0 ELSE Pf(h, c)

LEMMA MarkAsUsedDoes ==
  ASSUME NEW E, NEW h \in Control(E), NEW b \in E, NEW g, g = MarkAsUsed(h, b)
  PROVE  MarkedUsed(E, h, g, b)
<1> DEFINE n == block_next(h, b)
<1>1. PICK h1 : h1 = SetPrevFree(h, n, 0)
  OBVIOUS
<1>2. /\ h1 \in Control(E) /\ BitsSame(h, h1)
      /\ SzSame(E, h, h1) /\ FrSame(E, h, h1) /\ PpSame(E, h, h1) /\ LinksSame(E, h, h1)
      /\ \A c \in E : Pf(h1, c) = IF c = n THEN 0 ELSE Pf(h, c)
  BY <1>1, WrotePf
<1>3. g = SetFree(h1, b, 0)
  BY <1>1 DEF MarkAsUsed, SetFree, SetPrevFree
<1>4. /\ g \in Control(E) /\ BitsSame(h1, g)
      /\ SzSame(E, h1, g) /\ PfSame(E, h1, g) /\ PpSame(E, h1, g) /\ LinksSame(E, h1, g)
      /\ \A c \in E : Fr(g, c) = IF c = b THEN 0 ELSE Fr(h1, c)
  BY <1>2, <1>3, WroteFr
<1> HIDE DEF n
<1>5. QED
  BY <1>2, <1>4 DEF MarkedUsed, BitsSame, LinksSame, SzSame, FrSame, PfSame, PpSame, n

HandedOver(E, h, g, b) ==
  /\ g \in Control(E) /\ BitsSame(h, g)
  /\ SzSame(E, h, g) /\ FrSame(E, h, g) /\ PfSame(E, h, g)
  /\ \A c \in E : /\ c # b => Nx(g, c) = Nx(h, c) /\ Pv(g, c) = Pv(h, c)
                  /\ c # block_next(h, b) => Pp(g, c) = Pp(h, c)

LEMMA HandOverDoes ==
  ASSUME NEW E, NEW h \in Control(E), NEW b \in E, NEW g, g = HandOver(h, b)
  PROVE  HandedOver(E, h, g, b)
<1> DEFINE n == block_next(h, b)
<1>1. Junk \in Int
  BY DEF Junk
<1>2. PICK h1 : h1 = SetNext(h, b, Junk)
  OBVIOUS
<1>3. /\ h1 \in Control(E) /\ BitsSame(h, h1) /\ PhysSame(E, h, h1)
      /\ \A c \in E : Pv(h1, c) = Pv(h, c)
      /\ \A c \in E : Nx(h1, c) = IF c = b THEN Junk ELSE Nx(h, c)
  BY <1>1, <1>2, WroteNx
<1>4. PICK h2 : h2 = SetPrev(h1, b, Junk)
  OBVIOUS
<1>5. /\ h2 \in Control(E) /\ BitsSame(h1, h2) /\ PhysSame(E, h1, h2)
      /\ \A c \in E : Nx(h2, c) = Nx(h1, c)
      /\ \A c \in E : Pv(h2, c) = IF c = b THEN Junk ELSE Pv(h1, c)
  BY <1>1, <1>3, <1>4, WrotePv
<1>6. g = SetPrevPhys(h2, n, Junk)
  BY <1>2, <1>4 DEF HandOver, SetNext, SetPrev, SetPrevPhys
<1>7. /\ g \in Control(E) /\ BitsSame(h2, g)
      /\ SzSame(E, h2, g) /\ FrSame(E, h2, g) /\ PfSame(E, h2, g) /\ LinksSame(E, h2, g)
      /\ \A c \in E : Pp(g, c) = IF c = n THEN Junk ELSE Pp(h2, c)
  BY <1>1, <1>5, <1>6, WrotePp
<1> HIDE DEF n
<1>8. QED
  BY <1>3, <1>5, <1>7 DEF HandedOver, BitsSame, LinksSame, PhysSame, SzSame, FrSame, PfSame,
                          PpSame, n

(* A block is split; the rest knows the block, and the block after the     *)
(* rest knows the rest.                                                    *)
SplitOff(E, h, g, b, size, r) ==
  LET n == block_next(h, b) IN
  /\ g \in Control(E \cup {r}) /\ BitsSame(h, g)
  /\ \A c \in E \ {r} : Nx(g, c) = Nx(h, c) /\ Pv(g, c) = Pv(h, c)
  /\ Sz(g, b) = size /\ Sz(g, r) = Sz(h, b) - (size + Word)
  /\ Fr(g, r) = 1 /\ Pf(g, r) = 1 /\ Pp(g, r) = b
  /\ n \in E => Pf(g, n) = 1 /\ Pp(g, n) = r
  /\ \A c \in E \ {r} : /\ c # b => Sz(g, c) = Sz(h, c)
                        /\ Fr(g, c) = Fr(h, c)
                        /\ c # n => Pf(g, c) = Pf(h, c) /\ Pp(g, c) = Pp(h, c)

LEMMA SplitDoes ==
  ASSUME NEW E \in SUBSET Nat, NEW h \in Control(E), NEW b \in E, NEW size \in Nat, size >= Word,
         size + Word <= Sz(h, b), NEW r, r = Remaining(b, size), r \notin E,
         NEW s, s = block_split(h, b, size),
         NEW g, g = PrevFree(LinkNext(s, b), r) \/ g = LinkNext(PrevFree(s, r), b)
  PROVE  SplitOff(E, h, g, b, size, r)
<1> DEFINE n == block_next(h, b)
           header == [size |-> h.hdr[b].size - (size + overhead), free |-> Junk,
                      prev_free |-> Junk, prev_phys |-> Junk, next |-> Junk, prev |-> Junk]
           R == E \cup {r}
<1>1. PICK w \in Nat : w = Word /\ w > 0 /\ w = overhead
  BY Constants, Sizes
<1>2. Sz(h, b) \in Nat /\ b \in Nat
  BY Typed
<1>3. r = b + size + w /\ r \in Nat /\ r # b
  <2>1. r = b + 2 * w + size - w
    BY <1>1 DEF Remaining, Ptr
  <2>2. QED
    BY <1>1, <1>2, <2>1
<1>4. n = b + Sz(h, b) + w
  BY <1>1, <1>2, NextIs
<1>5. PICK hdr \in [E -> Header] : hdr = h.hdr
  BY DEF Control
<1>6. header \in Header /\ header.size = Sz(h, b) - (size + w)
  BY <1>1, <1>2 DEF Header, Junk, Sz
<1>7. PICK wide : wide = [c \in E \cup {r} |-> IF c = r THEN header ELSE hdr[c]]
  OBVIOUS
<1> HIDE DEF header
<1>8. wide \in [R -> Header] /\ wide[r] = header /\ \A c \in E : wide[c] = hdr[c]
  BY <1>5, <1>6, <1>7
<1>9. PICK new : new = [wide EXCEPT ![b].size = size]
  OBVIOUS
<1>10. new \in [R -> Header]
  <2>1. ASSUME NEW c \in R PROVE [wide[c] EXCEPT !.size = size] \in Header
    BY <1>8 DEF Header
  <2>2. QED
    BY <1>8, <1>9, <2>1
<1>11. /\ new[b].size = size /\ new[r] = header
       /\ \A c \in E \ {b} : new[c] = hdr[c]
       /\ new[b] = [hdr[b] EXCEPT !.size = size]
  BY <1>3, <1>5, <1>8, <1>9 DEF Header
<1>12. PICK cut : cut = [h EXCEPT !.hdr = new]
  OBVIOUS
<1>13. cut \in Control(R) /\ cut.hdr = new /\ BitsSame(h, cut)
  <2>1. DOMAIN h.hdr = E
    BY DEF Control
  <2>2. QED
    BY <1>10, <1>12 DEF Control, BitsSame
<1>14. /\ Sz(cut, b) = size /\ Sz(cut, r) = Sz(h, b) - (size + w)
       /\ \A c \in E : /\ c # b => Sz(cut, c) = Sz(h, c)
                       /\ Fr(cut, c) = Fr(h, c) /\ Pf(cut, c) = Pf(h, c)
                       /\ Pp(cut, c) = Pp(h, c) /\ Nx(cut, c) = Nx(h, c) /\ Pv(cut, c) = Pv(h, c)
  BY <1>5, <1>6, <1>11, <1>13 DEF Header, Sz, Fr, Pf, Pp, Nx, Pv
<1>15. s = MarkAsFree(cut, r)
  <2>1. DOMAIN h.hdr = E
    BY DEF Control
  <2>2. cut = [h EXCEPT !.hdr = [c \in DOMAIN h.hdr \cup {r} |-> IF c = r THEN header ELSE h.hdr[c]],
                        !.hdr[b].size = size]
    BY <1>5, <1>7, <1>9, <1>12, <2>1
  <2>3. QED
    BY <2>2 DEF block_split, header
<1>16. MarkedFree(R, cut, s, r)
  BY <1>3, <1>13, <1>15, MarkAsFreeDoes
<1>17. block_next(cut, r) = n
  BY <1>1, <1>2, <1>3, <1>4, <1>6, <1>14, NextIs
<1>18. block_next(s, b) = r
  <2>1. Sz(s, b) = size
    BY <1>14, <1>16 DEF MarkedFree, SzSame
  <2>2. QED
    BY <1>1, <1>2, <1>3, <2>1, NextIs
<1> HIDE DEF n, R
<1>19. /\ g \in Control(R) /\ BitsSame(s, g) /\ LinksSame(R, s, g)
       /\ SzSame(R, s, g) /\ FrSame(R, s, g)
       /\ \A c \in R : /\ Pf(g, c) = IF c = r THEN 1 ELSE Pf(s, c)
                       /\ Pp(g, c) = IF c = r THEN b ELSE Pp(s, c)
  <2>1. s \in Control(R) /\ b \in R
    BY <1>16 DEF MarkedFree, R
  <2>2. CASE g = PrevFree(LinkNext(s, b), r)
    <3>1. PICK k : k = LinkNext(s, b)
      OBVIOUS
    <3>2. LinkedNext(R, s, k, b)
      BY <1>2, <2>1, <3>1, LinkNextDoes
    <3>3. SetsPrevFree(R, k, g, r)
      BY <2>2, <3>1, <3>2, PrevFreeDoes DEF LinkedNext
    <3>4. QED
      BY <1>18, <3>2, <3>3 DEF LinkedNext, SetsPrevFree, BitsSame, LinksSame, SzSame, FrSame,
                               PfSame, PpSame
  <2>3. CASE g = LinkNext(PrevFree(s, r), b)
    <3>1. PICK k : k = PrevFree(s, r)
      OBVIOUS
    <3>2. SetsPrevFree(R, s, k, r)
      BY <2>1, <3>1, PrevFreeDoes
    <3>3. LinkedNext(R, k, g, b)
      BY <1>2, <2>3, <3>1, <3>2, LinkNextDoes DEF SetsPrevFree
    <3>4. block_next(k, b) = r
      BY <1>18, <2>1, <3>2, NextSame DEF SetsPrevFree
    <3>5. QED
      BY <3>2, <3>3, <3>4 DEF LinkedNext, SetsPrevFree, BitsSame, LinksSame, SzSame, FrSame,
                              PfSame, PpSame
  <2>4. QED
    BY <2>2, <2>3
<1>20. n # r /\ n # b
  BY <1>1, <1>2, <1>3, <1>4
<1>21. QED
  BY <1>3, <1>13, <1>14, <1>16, <1>17, <1>19, <1>20, <1>1
     DEF SplitOff, MarkedFree, BitsSame, LinksSame, SzSame, FrSame, PfSame, PpSame, R, n

Absorbed(E, h, g, p, b) ==
  /\ g \in Control(E \ {b}) /\ BitsSame(h, g)
  /\ Sz(g, p) = Sz(h, p) + Sz(h, b) + Word
  /\ \A c \in E \ {b} :
       /\ c # p => Sz(g, c) = Sz(h, c)
       /\ Fr(g, c) = Fr(h, c) /\ Pf(g, c) = Pf(h, c)
       /\ Pp(g, c) = IF c = block_next(h, b) THEN p ELSE Pp(h, c)
       /\ Nx(g, c) = Nx(h, c) /\ Pv(g, c) = Pv(h, c)

LEMMA AbsorbDoes ==
  ASSUME NEW E \in SUBSET Nat, NEW h \in Control(E), NEW p \in E, NEW b \in E, b # p,
         b = block_next(h, p), NEW g, g = block_absorb(h, p, b)
  PROVE  Absorbed(E, h, g, p, b)
<1> DEFINE size == Sz(h, p) + Sz(h, b) + Word
           R == E \ {b}
<1>1. PICK w \in Nat : w = Word /\ w > 0 /\ w = overhead
  BY Constants, Sizes
<1>2. Sz(h, b) \in Nat /\ b \in Nat /\ Sz(h, p) \in Nat /\ p \in Nat /\ size \in Nat
  BY <1>1, Typed
<1>3. PICK hdr \in [E -> Header] : hdr = h.hdr
  BY DEF Control
<1>4. PICK new : new = [hdr EXCEPT ![p].size = size]
  OBVIOUS
<1>5. new \in [E -> Header]
  <2>1. ASSUME NEW c \in E PROVE [hdr[c] EXCEPT !.size = size] \in Header
    BY <1>2 DEF Header
  <2>2. QED
    BY <1>4, <2>1
<1>6. /\ new[p].size = size
      /\ \A c \in E \ {p} : new[c] = hdr[c]
      /\ new[p] = [hdr[p] EXCEPT !.size = size]
  BY <1>4 DEF Header
<1>7. PICK less : less = [c \in R |-> new[c]]
  OBVIOUS
<1>8. less \in [R -> Header] /\ \A c \in R : less[c] = new[c]
  BY <1>5, <1>7
<1>9. PICK cut : cut = [h EXCEPT !.hdr = less]
  OBVIOUS
<1>10. cut \in Control(R) /\ cut.hdr = less /\ BitsSame(h, cut)
  BY <1>8, <1>9 DEF Control, BitsSame
<1> HIDE DEF size
<1>11. /\ Sz(cut, p) = size
       /\ \A c \in R : /\ c # p => Sz(cut, c) = Sz(h, c)
                       /\ Fr(cut, c) = Fr(h, c) /\ Pf(cut, c) = Pf(h, c)
                       /\ Pp(cut, c) = Pp(h, c) /\ Nx(cut, c) = Nx(h, c) /\ Pv(cut, c) = Pv(h, c)
  BY <1>3, <1>6, <1>8, <1>10 DEF Header, Sz, Fr, Pf, Pp, Nx, Pv
<1>12. g = LinkNext(cut, p)
  <2>1. DOMAIN new = E
    BY <1>5
  <2>2. [h EXCEPT !.hdr[p].size = @ + h.hdr[b].size + overhead] = [h EXCEPT !.hdr = new]
    BY <1>1, <1>3, <1>4 DEF size, Sz
  <2>3. PICK joined : joined = [h EXCEPT !.hdr[p].size = @ + h.hdr[b].size + overhead]
    OBVIOUS
  <2>4. joined.hdr = new
    BY <2>2, <2>3 DEF Control
  <2>5. cut = [joined EXCEPT !.hdr = [c \in DOMAIN joined.hdr \ {b} |-> joined.hdr[c]]]
    <3>1. joined = [h EXCEPT !.hdr = new]
      BY <2>2, <2>3
    <3>2. [joined EXCEPT !.hdr = less] = [h EXCEPT !.hdr = less]
      BY <3>1
    <3>3. less = [c \in DOMAIN joined.hdr \ {b} |-> joined.hdr[c]]
      BY <1>7, <2>1, <2>4
    <3>4. QED
      BY <1>9, <3>2, <3>3
  <2>6. QED
    BY <2>3, <2>5 DEF block_absorb
<1>13. LinkedNext(R, cut, g, p)
  BY <1>2, <1>10, <1>12, LinkNextDoes
<1>14. block_next(cut, p) = block_next(h, b)
  <2>1. b = p + Sz(h, p) + w
    BY <1>1, <1>2, NextIs
  <2>2. block_next(h, b) = b + Sz(h, b) + w /\ block_next(cut, p) = p + size + w
    BY <1>1, <1>2, <1>11, NextIs
  <2>3. size = Sz(h, p) + Sz(h, b) + w
    BY <1>1 DEF size
  <2>4. QED
    BY <1>1, <1>2, <2>1, <2>2, <2>3
<1>15. QED
  BY <1>10, <1>11, <1>13, <1>14
     DEF Absorbed, LinkedNext, BitsSame, LinksSame, SzSame, FrSame, PfSame, size

-----------------------------------------------------------------------------
(* The lists. *)

RemovedFrom(E, h, g, b, at) ==
  LET first == h.blocks[at.fl][at.sl] = b
      only == first /\ Nx(h, b) = 0
  IN  /\ g \in Control(E) /\ PhysSame(E, h, g)
      /\ \A c \in E : /\ Nx(g, c) = IF c = Pv(h, b) THEN Nx(h, b) ELSE Nx(h, c)
                      /\ Pv(g, c) = IF c = Nx(h, b) THEN Pv(h, b) ELSE Pv(h, c)
      /\ \A i \in FL, j \in SL :
           /\ g.blocks[i][j] = IF first /\ i = at.fl /\ j = at.sl THEN Nx(h, b) ELSE h.blocks[i][j]
           /\ j \in g.sl[i] <=> j \in h.sl[i] /\ ~(only /\ i = at.fl /\ j = at.sl)
      /\ \A i \in FL : i \in g.fl <=> i \in h.fl /\ ~(only /\ i = at.fl /\ h.sl[i] \subseteq {at.sl})

LEMMA RemoveDoes ==
  ASSUME NEW E, NEW h \in Control(E), NEW b \in E, NEW at, at.fl \in FL, at.sl \in SL,
         NEW g, g = remove_free_block(h, b, at)
  PROVE  RemovedFrom(E, h, g, b, at)
<1>1. PICK prev, next : prev = Pv(h, b) /\ next = Nx(h, b) /\ prev \in Int /\ next \in Int
  BY Typed
<1>2. PICK h1 : h1 = SetPrev(h, next, prev)
  OBVIOUS
<1>3. /\ h1 \in Control(E) /\ BitsSame(h, h1) /\ PhysSame(E, h, h1)
      /\ \A c \in E : Nx(h1, c) = Nx(h, c)
      /\ \A c \in E : Pv(h1, c) = IF c = next THEN prev ELSE Pv(h, c)
  BY <1>1, <1>2, WrotePv
<1>4. PICK unlinked : unlinked = SetNext(h1, prev, next)
  OBVIOUS
<1>5. /\ unlinked \in Control(E) /\ BitsSame(h1, unlinked) /\ PhysSame(E, h1, unlinked)
      /\ \A c \in E : Pv(unlinked, c) = Pv(h1, c)
      /\ \A c \in E : Nx(unlinked, c) = IF c = prev THEN next ELSE Nx(h1, c)
  BY <1>1, <1>3, <1>4, WroteNx
<1>6. /\ PhysSame(E, h, unlinked) /\ BitsSame(h, unlinked)
      /\ \A c \in E : /\ Nx(unlinked, c) = IF c = prev THEN next ELSE Nx(h, c)
                      /\ Pv(unlinked, c) = IF c = next THEN prev ELSE Pv(h, c)
  BY <1>3, <1>5 DEF PhysSame, SzSame, FrSame, PfSame, PpSame, BitsSame
<1>7. PICK fl : fl = IF h.sl[at.fl] \subseteq {at.sl} THEN h.fl \ {at.fl} ELSE h.fl
  OBVIOUS
<1>8. PICK sl : sl = [h.sl EXCEPT ![at.fl] = @ \ {at.sl}]
  OBVIOUS
<1>9. PICK blocks : blocks = [h.blocks EXCEPT ![at.fl][at.sl] = next]
  OBVIOUS
<1>10. /\ fl \in SUBSET FL /\ sl \in [FL -> SUBSET SL] /\ blocks \in [FL -> [SL -> Int]]
       /\ h.blocks \in [FL -> [SL -> Int]] /\ h.sl \in [FL -> SUBSET SL]
  BY <1>1, <1>7, <1>8, <1>9 DEF Control
<1>11. /\ \A i \in FL, j \in SL : blocks[i][j] = IF i = at.fl /\ j = at.sl THEN next ELSE h.blocks[i][j]
       /\ \A i \in FL, j \in SL : j \in sl[i] <=> j \in h.sl[i] /\ ~(i = at.fl /\ j = at.sl)
       /\ \A i \in FL : i \in fl <=> i \in h.fl /\ ~(i = at.fl /\ h.sl[i] \subseteq {at.sl})
  BY <1>7, <1>8, <1>9, <1>10
<1>12. PICK emptied : emptied = [unlinked EXCEPT !.sl = sl, !.fl = fl]
  OBVIOUS
<1>13. PICK e1 : e1 = [emptied EXCEPT !.blocks = blocks]
  OBVIOUS
<1>14. PICK e2 : e2 = [unlinked EXCEPT !.blocks = blocks]
  OBVIOUS
<1>15. /\ e1 \in Control(E) /\ e1.hdr = unlinked.hdr
       /\ e1.blocks = blocks /\ e1.sl = sl /\ e1.fl = fl
  BY <1>5, <1>10, <1>12, <1>13 DEF Control
<1>16. /\ e2 \in Control(E) /\ e2.hdr = unlinked.hdr
       /\ e2.blocks = blocks /\ e2.sl = h.sl /\ e2.fl = h.fl
  BY <1>5, <1>6, <1>10, <1>14 DEF Control, BitsSame
<1>17. g = IF h.blocks[at.fl][at.sl] # b THEN unlinked
           ELSE IF next = 0 THEN e1 ELSE e2
  <2>1. unlinked = [h EXCEPT !.hdr[next].prev = prev, !.hdr[prev].next = next]
    BY <1>2, <1>4 DEF SetNext, SetPrev
  <2>2. emptied = [unlinked EXCEPT !.sl[at.fl] = @ \ {at.sl},
                     !.fl = IF h.sl[at.fl] \subseteq {at.sl} THEN @ \ {at.fl} ELSE @]
    <3>1. unlinked.fl = h.fl /\ unlinked.sl = h.sl
      BY <1>6 DEF BitsSame
    <3>2. QED
      BY <1>5, <1>7, <1>8, <1>10, <1>12, <3>1 DEF Control
  <2>3. /\ e1 = [emptied EXCEPT !.blocks[at.fl][at.sl] = next]
        /\ e2 = [unlinked EXCEPT !.blocks[at.fl][at.sl] = next]
    <3>1. unlinked.blocks = h.blocks /\ emptied.blocks = h.blocks
      BY <1>5, <1>6, <1>12 DEF BitsSame, Control
    <3>2. QED
      BY <1>9, <1>13, <1>14, <3>1
  <2>4. remove_free_block(h, b, at) =
          IF h.blocks[at.fl][at.sl] # b THEN unlinked
          ELSE [IF next = block_null THEN emptied ELSE unlinked
                  EXCEPT !.blocks[at.fl][at.sl] = next]
    <3> DEFINE p == h.hdr[b].prev
               n == h.hdr[b].next
               un == [h EXCEPT !.hdr[n].prev = p, !.hdr[p].next = n]
               em == [un EXCEPT !.sl[at.fl] = @ \ {at.sl},
                        !.fl = IF h.sl[at.fl] \subseteq {at.sl} THEN @ \ {at.fl} ELSE @]
    <3>1. remove_free_block(h, b, at) =
            IF h.blocks[at.fl][at.sl] # b THEN un
            ELSE [IF n = block_null THEN em ELSE un EXCEPT !.blocks[at.fl][at.sl] = n]
      BY Zenon DEF remove_free_block
    <3>2. p = prev /\ n = next
      BY <1>1 DEF Pv, Nx
    <3>3. un = unlinked
      BY <2>1, <3>2
    <3> HIDE DEF p, n
    <3>4. em = emptied
      <4> HIDE DEF un
      <4>1. QED
        BY <2>2, <3>3
    <3> HIDE DEF un, em
    <3>5. QED
      BY <3>1, <3>2, <3>3, <3>4
  <2>5. QED
    BY <2>3, <2>4 DEF block_null
<1>18. ASSUME NEW k, k.hdr = unlinked.hdr
       PROVE  /\ PhysSame(E, h, k)
              /\ \A c \in E : /\ Nx(k, c) = IF c = prev THEN next ELSE Nx(h, c)
                              /\ Pv(k, c) = IF c = next THEN prev ELSE Pv(h, c)
  BY <1>6, <1>18 DEF PhysSame, SzSame, FrSame, PfSame, PpSame, Sz, Fr, Pf, Pp, Nx, Pv
<1>19. CASE h.blocks[at.fl][at.sl] # b
  BY <1>1, <1>5, <1>6, <1>17, <1>19 DEF RemovedFrom, BitsSame
<1>20. CASE h.blocks[at.fl][at.sl] = b /\ next = 0
  BY <1>1, <1>11, <1>15, <1>17, <1>18, <1>20 DEF RemovedFrom
<1>21. CASE h.blocks[at.fl][at.sl] = b /\ next # 0
  BY <1>1, <1>11, <1>16, <1>17, <1>18, <1>21 DEF RemovedFrom
<1>22. QED
  BY <1>19, <1>20, <1>21

(* Taking a block out leaves lists of the others. *)
LEMMA RemoveKeepsLists ==
  ASSUME NEW E, NEW h \in Control(E), NEW F, F \subseteq E, 0 \in E, 0 \notin F, Lists(F, h),
         NEW b \in F, NEW g, RemovedFrom(E, h, g, b, At(h, b))
  PROVE  Lists(F \ {b}, g)
<1> DEFINE G == F \ {b}
           at == At(h, b)
           prev == Pv(h, b)
           next == Nx(h, b)
           first == h.blocks[at.fl][at.sl] = b
           only == first /\ next = 0
<1>1. /\ at.fl \in FL /\ at.sl \in SL /\ next \in F \cup {0} /\ prev \in F \cup {0}
      /\ next # 0 => Pv(h, next) = b /\ At(h, next) = at
      /\ prev # 0 => Nx(h, prev) = b
      /\ prev = 0 => h.blocks[at.fl][at.sl] = b
  BY DEF Lists, HeadOf
<1>2. \A c \in F : At(g, c) = At(h, c)
  BY DEF RemovedFrom, PhysSame, SzSame, At
<1>3. \A c \in F : /\ Nx(g, c) = IF c = prev THEN next ELSE Nx(h, c)
                   /\ Pv(g, c) = IF c = next THEN prev ELSE Pv(h, c)
  BY DEF RemovedFrom
<1>4. /\ \A i \in FL, j \in SL :
           /\ g.blocks[i][j] = IF first /\ i = at.fl /\ j = at.sl THEN next ELSE h.blocks[i][j]
           /\ j \in g.sl[i] <=> j \in h.sl[i] /\ ~(only /\ i = at.fl /\ j = at.sl)
      /\ \A i \in FL : i \in g.fl <=> i \in h.fl /\ ~(only /\ i = at.fl /\ h.sl[i] \subseteq {at.sl})
  BY DEF RemovedFrom
<1>5. first => prev = 0
  <2>1. h.blocks[at.fl][at.sl] # 0 => Pv(h, h.blocks[at.fl][at.sl]) = 0
    BY <1>1 DEF Lists
  <2>2. QED
    BY <2>1
<1>6. next # b /\ prev # b
  <2>1. PICK c \in {b} : Pv(h, c) \notin {b}
    <3>1. {b} \in SUBSET F /\ {b} # {}
      OBVIOUS
    <3>2. QED
      BY <3>1 DEF Lists
  <2>2. prev # b
    BY <2>1
  <2>3. QED
    BY <1>1, <2>2
<1> HIDE DEF at, prev, next, first, only
<1>7. ASSUME NEW c \in G
      PROVE  /\ At(g, c).fl \in FL /\ At(g, c).sl \in SL
             /\ Nx(g, c) \in G \cup {0} /\ Pv(g, c) \in G \cup {0}
             /\ Nx(g, c) # 0 => Pv(g, Nx(g, c)) = c /\ At(g, Nx(g, c)) = At(g, c)
             /\ Pv(g, c) # 0 => Nx(g, Pv(g, c)) = c
             /\ Pv(g, c) = 0 => HeadOf(g, At(g, c)) = c
  <2>1. /\ At(h, c).fl \in FL /\ At(h, c).sl \in SL
        /\ Nx(h, c) \in F \cup {0} /\ Pv(h, c) \in F \cup {0}
        /\ Nx(h, c) # 0 => Pv(h, Nx(h, c)) = c /\ At(h, Nx(h, c)) = At(h, c)
        /\ Pv(h, c) # 0 => Nx(h, Pv(h, c)) = c
        /\ Pv(h, c) = 0 => HeadOf(h, At(h, c)) = c
    BY DEF Lists
  <2>2. /\ Nx(h, c) = b <=> c = prev
        /\ Pv(h, c) = b <=> c = next
    BY <1>1, <2>1 DEF prev, next
  <2>3. Nx(g, c) \in G \cup {0} /\ Pv(g, c) \in G \cup {0}
    BY <1>1, <1>3, <1>6, <2>1, <2>2
  <2>4. Nx(g, c) # 0 => Pv(g, Nx(g, c)) = c /\ At(g, Nx(g, c)) = At(g, c)
    <3>1. CASE c = prev
      <4>1. Nx(g, c) = next /\ (next # 0 => next \in F /\ Pv(g, next) = prev)
        BY <1>1, <1>3, <3>1
      <4>2. At(h, c) = at
        BY <2>1, <2>2, <3>1 DEF at
      <4>3. QED
        BY <1>1, <1>2, <3>1, <4>1, <4>2
    <3>2. CASE c # prev
      <4>1. Nx(g, c) = Nx(h, c)
        BY <1>3, <3>2
      <4>2. Nx(h, c) # 0 => Nx(h, c) \in F /\ Nx(h, c) # next
        BY <1>1, <2>1
      <4>3. QED
        BY <1>2, <1>3, <2>1, <4>1, <4>2
    <3>3. QED
      BY <3>1, <3>2
  <2>5. Pv(g, c) # 0 => Nx(g, Pv(g, c)) = c
    <3>1. CASE c = next
      BY <1>1, <1>3, <3>1, <2>2
    <3>2. CASE c # next
      <4>1. Pv(g, c) = Pv(h, c)
        BY <1>3, <3>2
      <4>2. Pv(h, c) # 0 => Pv(h, c) \in F /\ Pv(h, c) # prev
        BY <1>1, <2>1, <2>2, <3>2
      <4>3. QED
        BY <1>3, <2>1, <4>1, <4>2
    <3>3. QED
      BY <3>1, <3>2
  <2>6. Pv(g, c) = 0 => HeadOf(g, At(g, c)) = c
    <3>1. HeadOf(g, At(g, c)) = IF first /\ At(h, c).fl = at.fl /\ At(h, c).sl = at.sl THEN next
                                ELSE HeadOf(h, At(h, c))
      BY <1>2, <1>4, <2>1 DEF HeadOf
    <3>2. CASE c = next
      <4>1. Pv(g, c) = prev /\ At(h, c) = at
        BY <1>1, <1>3, <3>2
      <4>2. prev = 0 => first
        BY <1>1 DEF first
      <4>3. QED
        BY <3>1, <3>2, <4>1, <4>2
    <3>3. CASE c # next
      <4>1. Pv(g, c) = Pv(h, c)
        BY <1>3, <3>3
      <4>2. Pv(h, c) = 0 /\ first => ~(At(h, c).fl = at.fl /\ At(h, c).sl = at.sl)
        BY <2>1 DEF first, HeadOf
      <4>3. QED
        BY <2>1, <3>1, <4>1, <4>2
    <3>4. QED
      BY <3>2, <3>3
  <2>7. QED
    BY <1>2, <2>1, <2>3, <2>4, <2>5, <2>6
<1>8. ASSUME NEW i \in FL, NEW j \in SL
      PROVE  LET c == g.blocks[i][j]
             IN  /\ c # 0 => c \in G /\ At(g, c) = [fl |-> i, sl |-> j] /\ Pv(g, c) = 0
                 /\ j \in g.sl[i] <=> c # 0
  <2> DEFINE c == h.blocks[i][j]
  <2>1. /\ c # 0 => c \in F /\ At(h, c) = [fl |-> i, sl |-> j] /\ Pv(h, c) = 0
        /\ j \in h.sl[i] <=> c # 0
    BY DEF Lists
  <2>2. CASE first /\ i = at.fl /\ j = at.sl
    <3>1. g.blocks[i][j] = next /\ (j \in g.sl[i] <=> next # 0)
      BY <1>1, <1>4, <2>1, <2>2 DEF first, only
    <3>2. at = [fl |-> i, sl |-> j]
      BY <2>1, <2>2, <1>1 DEF first, at
    <3>3. next # 0 => next \in G /\ At(g, next) = at /\ Pv(g, next) = 0
      BY <1>1, <1>2, <1>3, <1>5, <1>6, <2>2
    <3>4. QED
      BY <3>1, <3>2, <3>3
  <2>3. CASE ~(first /\ i = at.fl /\ j = at.sl)
    <3>1. g.blocks[i][j] = c /\ (j \in g.sl[i] <=> c # 0)
      BY <1>4, <2>1, <2>3 DEF only
    <3>2. c # b
      <4>1. SUFFICES ASSUME c = b PROVE FALSE
        OBVIOUS
      <4>2. at = [fl |-> i, sl |-> j]
        BY <2>1, <4>1 DEF at
      <4>3. at.fl = i /\ at.sl = j
        BY <4>2
      <4>4. QED
        BY <2>3, <4>1, <4>3 DEF first
    <3>3. c # 0 => c # next
      BY <1>1, <2>1
    <3>4. QED
      BY <1>2, <1>3, <2>1, <3>1, <3>2, <3>3
  <2>4. QED
    BY <2>2, <2>3
<1>9. ASSUME NEW i \in FL PROVE i \in g.fl <=> g.sl[i] # {}
  <2>1. i \in h.fl <=> h.sl[i] # {}
    BY DEF Lists
  <2>2. g.sl[i] \subseteq SL /\ h.sl[i] \subseteq SL
    BY DEF RemovedFrom, Control
  <2>3. \A j \in SL : j \in g.sl[i] <=> j \in h.sl[i] /\ ~(only /\ i = at.fl /\ j = at.sl)
    BY <1>4
  <2>4. i \in g.fl <=> i \in h.fl /\ ~(only /\ i = at.fl /\ h.sl[i] \subseteq {at.sl})
    BY <1>4
  <2>5. CASE only /\ i = at.fl
    <3>1. g.sl[i] # {} <=> ~(h.sl[i] \subseteq {at.sl})
      BY <2>2, <2>3, <2>5
    <3>2. QED
      BY <2>1, <2>4, <2>5, <3>1
  <2>6. CASE ~(only /\ i = at.fl)
    <3>1. g.sl[i] = h.sl[i]
      BY <2>2, <2>3, <2>6
    <3>2. QED
      BY <2>1, <2>4, <2>6, <3>1
  <2>7. QED
    BY <2>5, <2>6
<1>10. ASSUME NEW S \in SUBSET G, S # {} PROVE \E c \in S : Pv(g, c) \notin S
  <2>1. CASE next \in S /\ prev \in S
    <3>1. S \cup {b} \in SUBSET F /\ S \cup {b} # {}
      OBVIOUS
    <3>2. PICK c \in S \cup {b} : Pv(h, c) \notin S \cup {b}
      BY <3>1 DEF Lists
    <3>3. c # b
      BY <2>1, <3>2 DEF prev
    <3>4. c # next
      BY <1>1, <2>1, <3>2
    <3>5. QED
      BY <1>3, <3>2, <3>3, <3>4
  <2>2. CASE ~(next \in S /\ prev \in S)
    <3>1. PICK c \in S : Pv(h, c) \notin S
      BY <1>10 DEF Lists
    <3>2. QED
      BY <1>3, <2>2, <3>1
  <2>3. QED
    BY <2>1, <2>2
<1>11. QED
  BY <1>7, <1>8, <1>9, <1>10 DEF Lists

InsertedIn(E, h, g, b, at) ==
  LET current == h.blocks[at.fl][at.sl]
  IN  /\ g \in Control(E) /\ PhysSame(E, h, g)
      /\ \A c \in E : /\ Nx(g, c) = IF c = b THEN current ELSE Nx(h, c)
                      /\ Pv(g, c) = IF c = current THEN b ELSE IF c = b THEN 0 ELSE Pv(h, c)
      /\ \A i \in FL, j \in SL :
           /\ g.blocks[i][j] = IF i = at.fl /\ j = at.sl THEN b ELSE h.blocks[i][j]
           /\ j \in g.sl[i] <=> j \in h.sl[i] \/ (i = at.fl /\ j = at.sl)
      /\ \A i \in FL : i \in g.fl <=> i \in h.fl \/ i = at.fl

LEMMA InsertDoes ==
  ASSUME NEW E, NEW h \in Control(E), NEW b \in E, b \in Nat,
         At(h, b).fl \in FL, At(h, b).sl \in SL,
         NEW g, g = block_insert(h, b)
  PROVE  InsertedIn(E, h, g, b, At(h, b))
<1>1. PICK at : at = mapping_insert(h.hdr[b].size) /\ at = At(h, b) /\ at.fl \in FL /\ at.sl \in SL
  BY DEF At, Sz
<1>2. PICK current : current = h.blocks[at.fl][at.sl] /\ current \in Int
  BY <1>1 DEF Control
<1>3. PICK h1 : h1 = SetNext(h, b, current)
  OBVIOUS
<1>4. /\ h1 \in Control(E) /\ BitsSame(h, h1) /\ PhysSame(E, h, h1)
      /\ \A c \in E : Pv(h1, c) = Pv(h, c)
      /\ \A c \in E : Nx(h1, c) = IF c = b THEN current ELSE Nx(h, c)
  BY <1>2, <1>3, WroteNx
<1>5. PICK h2 : h2 = SetPrev(h1, b, 0)
  OBVIOUS
<1>6. /\ h2 \in Control(E) /\ BitsSame(h1, h2) /\ PhysSame(E, h1, h2)
      /\ \A c \in E : Nx(h2, c) = Nx(h1, c)
      /\ \A c \in E : Pv(h2, c) = IF c = b THEN 0 ELSE Pv(h1, c)
  BY <1>4, <1>5, WrotePv
<1>7. PICK h3 : h3 = SetPrev(h2, current, b)
  OBVIOUS
<1>8. /\ h3 \in Control(E) /\ BitsSame(h2, h3) /\ PhysSame(E, h2, h3)
      /\ \A c \in E : Nx(h3, c) = Nx(h2, c)
      /\ \A c \in E : Pv(h3, c) = IF c = current THEN b ELSE Pv(h2, c)
  BY <1>6, <1>7, WrotePv
<1>9. /\ PhysSame(E, h, h3) /\ BitsSame(h, h3)
      /\ \A c \in E : /\ Nx(h3, c) = IF c = b THEN current ELSE Nx(h, c)
                      /\ Pv(h3, c) = IF c = current THEN b ELSE IF c = b THEN 0 ELSE Pv(h, c)
  BY <1>4, <1>6, <1>8 DEF PhysSame, SzSame, FrSame, PfSame, PpSame, BitsSame
<1>10. PICK fl : fl = h.fl \cup {at.fl}
  OBVIOUS
<1>11. PICK sl : sl = [h.sl EXCEPT ![at.fl] = @ \cup {at.sl}]
  OBVIOUS
<1>12. PICK blocks : blocks = [h.blocks EXCEPT ![at.fl][at.sl] = b]
  OBVIOUS
<1>13. h.blocks \in [FL -> [SL -> Int]] /\ h.sl \in [FL -> SUBSET SL] /\ h.fl \in SUBSET FL
  BY DEF Control
<1>14. fl \in SUBSET FL /\ sl \in [FL -> SUBSET SL] /\ blocks \in [FL -> [SL -> Int]]
  <2>1. sl \in [FL -> SUBSET SL]
    <3>1. h.sl[at.fl] \cup {at.sl} \in SUBSET SL
      BY <1>1, <1>13
    <3>2. QED
      BY <1>11, <1>13, <3>1
  <2>2. QED
    BY <1>1, <1>10, <1>12, <1>13, <2>1
<1>15. /\ \A i \in FL, j \in SL : blocks[i][j] = IF i = at.fl /\ j = at.sl THEN b ELSE h.blocks[i][j]
       /\ \A i \in FL, j \in SL : j \in sl[i] <=> j \in h.sl[i] \/ (i = at.fl /\ j = at.sl)
       /\ \A i \in FL : i \in fl <=> i \in h.fl \/ i = at.fl
  BY <1>10, <1>11, <1>12, <1>13
<1>16. PICK e : e = [[[h3 EXCEPT !.blocks = blocks] EXCEPT !.fl = fl] EXCEPT !.sl = sl]
  OBVIOUS
<1>17. /\ e \in Control(E) /\ e.hdr = h3.hdr
       /\ e.blocks = blocks /\ e.sl = sl /\ e.fl = fl
  BY <1>8, <1>14, <1>16 DEF Control
<1>18. g = e
  <2>1. block_insert(h, b) =
          [h EXCEPT !.hdr[b].next = current, !.hdr[b].prev = 0,
                    !.hdr[current].prev = b, !.blocks[at.fl][at.sl] = b,
                    !.fl = @ \cup {at.fl}, !.sl[at.fl] = @ \cup {at.sl}]
    <3> DEFINE a == mapping_insert(h.hdr[b].size)
               c == h.blocks[a.fl][a.sl]
    <3>1. block_insert(h, b) =
            [h EXCEPT !.hdr[b].next = c, !.hdr[b].prev = block_null,
                      !.hdr[c].prev = b, !.blocks[a.fl][a.sl] = b,
                      !.fl = @ \cup {a.fl}, !.sl[a.fl] = @ \cup {a.sl}]
      BY Zenon DEF block_insert
    <3>2. a = at /\ c = current /\ block_null = 0
      BY <1>1, <1>2 DEF block_null
    <3> HIDE DEF a, c
    <3>3. QED
      BY <3>1, <3>2
  <2>2. h3 = [h EXCEPT !.hdr[b].next = current, !.hdr[b].prev = 0, !.hdr[current].prev = b]
    BY <1>3, <1>5, <1>7 DEF SetNext, SetPrev
  <2>3. h3.blocks = h.blocks /\ h3.fl = h.fl /\ h3.sl = h.sl
    BY <1>9 DEF BitsSame
  <2>4. block_insert(h, b) =
          [h3 EXCEPT !.blocks[at.fl][at.sl] = b,
                     !.fl = @ \cup {at.fl}, !.sl[at.fl] = @ \cup {at.sl}]
    BY <2>1, <2>2
  <2>5. e = [h3 EXCEPT !.blocks[at.fl][at.sl] = b,
                       !.fl = @ \cup {at.fl}, !.sl[at.fl] = @ \cup {at.sl}]
    BY <1>8, <1>10, <1>11, <1>12, <1>16, <2>3 DEF Control
  <2>6. QED
    BY <2>4, <2>5
<1>19. /\ PhysSame(E, h, g)
       /\ \A c \in E : /\ Nx(g, c) = IF c = b THEN current ELSE Nx(h, c)
                       /\ Pv(g, c) = IF c = current THEN b ELSE IF c = b THEN 0 ELSE Pv(h, c)
  BY <1>9, <1>17, <1>18 DEF PhysSame, SzSame, FrSame, PfSame, PpSame, Sz, Fr, Pf, Pp, Nx, Pv
<1>20. QED
  BY <1>1, <1>2, <1>15, <1>17, <1>18, <1>19 DEF InsertedIn

(* Putting a block in front of its list makes lists of one block more. *)
LEMMA InsertKeepsLists ==
  ASSUME NEW E, NEW h \in Control(E), NEW F, F \subseteq E, 0 \in E, 0 \notin F, Lists(F, h),
         NEW b \in E \ F, b # 0, At(h, b).fl \in FL, At(h, b).sl \in SL,
         NEW g, InsertedIn(E, h, g, b, At(h, b))
  PROVE  Lists(F \cup {b}, g)
<1> DEFINE G == F \cup {b}
           at == At(h, b)
           current == h.blocks[at.fl][at.sl]
<1>1. at.fl \in FL /\ at.sl \in SL
  OBVIOUS
<1>2. \A c \in E : At(g, c) = At(h, c)
  BY DEF InsertedIn, PhysSame, SzSame, At
<1>3. \A c \in E : /\ Nx(g, c) = IF c = b THEN current ELSE Nx(h, c)
                   /\ Pv(g, c) = IF c = current THEN b ELSE IF c = b THEN 0 ELSE Pv(h, c)
  BY DEF InsertedIn
<1>4. /\ \A i \in FL, j \in SL :
           /\ g.blocks[i][j] = IF i = at.fl /\ j = at.sl THEN b ELSE h.blocks[i][j]
           /\ j \in g.sl[i] <=> j \in h.sl[i] \/ (i = at.fl /\ j = at.sl)
      /\ \A i \in FL : i \in g.fl <=> i \in h.fl \/ i = at.fl
  BY DEF InsertedIn
<1>5. at = [fl |-> at.fl, sl |-> at.sl]
  BY DEF At, mapping_insert
<1>6. current # 0 => current \in F /\ At(h, current) = at /\ Pv(h, current) = 0
  BY <1>1, <1>5 DEF Lists
<1>7. current # b
  BY <1>6
<1> HIDE DEF at, current
<1>8. ASSUME NEW c \in G
      PROVE  /\ At(g, c).fl \in FL /\ At(g, c).sl \in SL
             /\ Nx(g, c) \in G \cup {0} /\ Pv(g, c) \in G \cup {0}
             /\ Nx(g, c) # 0 => Pv(g, Nx(g, c)) = c /\ At(g, Nx(g, c)) = At(g, c)
             /\ Pv(g, c) # 0 => Nx(g, Pv(g, c)) = c
             /\ Pv(g, c) = 0 => HeadOf(g, At(g, c)) = c
  <2>1. CASE c = b
    <3>1. Nx(g, c) = current /\ Pv(g, c) = 0 /\ At(g, c) = at
      BY <1>2, <1>3, <1>7, <2>1 DEF at
    <3>2. current # 0 => Pv(g, current) = b /\ At(g, current) = at
      BY <1>2, <1>3, <1>6
    <3>3. HeadOf(g, at) = b
      BY <1>1, <1>4 DEF HeadOf
    <3>4. QED
      BY <1>1, <1>6, <2>1, <3>1, <3>2, <3>3
  <2>2. CASE c # b
    <3>1. /\ c \in F /\ At(h, c).fl \in FL /\ At(h, c).sl \in SL
          /\ Nx(h, c) \in F \cup {0} /\ Pv(h, c) \in F \cup {0}
          /\ Nx(h, c) # 0 => Pv(h, Nx(h, c)) = c /\ At(h, Nx(h, c)) = At(h, c)
          /\ Pv(h, c) # 0 => Nx(h, Pv(h, c)) = c
          /\ Pv(h, c) = 0 => HeadOf(h, At(h, c)) = c
      BY <2>2 DEF Lists
    <3>2. Nx(g, c) = Nx(h, c) /\ At(g, c) = At(h, c)
      BY <1>2, <1>3, <2>2
    <3>3. Pv(g, c) = IF c = current THEN b ELSE Pv(h, c)
      BY <1>3, <2>2
    <3>4. Nx(g, c) # 0 => Pv(g, Nx(g, c)) = c /\ At(g, Nx(g, c)) = At(g, c)
      <4>1. SUFFICES ASSUME Nx(h, c) # 0
                     PROVE  Pv(g, Nx(h, c)) = c /\ At(g, Nx(h, c)) = At(h, c)
        BY <3>2
      <4>2. Nx(h, c) \in F /\ Nx(h, c) # current /\ Nx(h, c) # b
        BY <1>6, <3>1, <4>1
      <4>3. QED
        BY <1>2, <1>3, <3>1, <4>1, <4>2
    <3>5. Pv(g, c) # 0 => Nx(g, Pv(g, c)) = c
      <4>1. CASE c = current
        BY <1>3, <3>3, <4>1
      <4>2. CASE c # current
        <5>1. Pv(h, c) # 0 => Pv(h, c) \in F /\ Pv(h, c) # b
          BY <3>1
        <5>2. QED
          BY <1>3, <3>1, <3>3, <4>2, <5>1
      <4>3. QED
        BY <4>1, <4>2
    <3>6. Pv(g, c) = 0 => HeadOf(g, At(g, c)) = c
      <4>1. CASE c = current
        BY <3>3, <4>1
      <4>2. CASE c # current
        <5>1. SUFFICES ASSUME Pv(h, c) = 0 PROVE HeadOf(g, At(h, c)) = c
          BY <3>2, <3>3, <4>2
        <5>2. HeadOf(h, At(h, c)) = c
          BY <3>1, <5>1
        <5>3. ~(At(h, c).fl = at.fl /\ At(h, c).sl = at.sl)
          BY <4>2, <5>2 DEF HeadOf, current
        <5>4. QED
          BY <1>4, <3>1, <5>2, <5>3 DEF HeadOf
      <4>3. QED
        BY <4>1, <4>2
    <3>7. QED
      BY <3>1, <3>2, <3>3, <3>4, <3>5, <3>6
  <2>3. QED
    BY <2>1, <2>2
<1>9. ASSUME NEW i \in FL, NEW j \in SL
      PROVE  LET c == g.blocks[i][j]
             IN  /\ c # 0 => c \in G /\ At(g, c) = [fl |-> i, sl |-> j] /\ Pv(g, c) = 0
                 /\ j \in g.sl[i] <=> c # 0
  <2>1. CASE i = at.fl /\ j = at.sl
    <3>1. g.blocks[i][j] = b /\ j \in g.sl[i]
      BY <1>4, <2>1
    <3>2. At(g, b) = at /\ Pv(g, b) = 0
      BY <1>2, <1>3, <1>7 DEF at
    <3>3. at = [fl |-> i, sl |-> j]
      BY <1>5, <2>1
    <3>4. QED
      BY <3>1, <3>2, <3>3
  <2>2. CASE ~(i = at.fl /\ j = at.sl)
    <3> DEFINE c == h.blocks[i][j]
    <3>1. /\ c # 0 => c \in F /\ At(h, c) = [fl |-> i, sl |-> j] /\ Pv(h, c) = 0
          /\ j \in h.sl[i] <=> c # 0
      BY DEF Lists
    <3>2. g.blocks[i][j] = c /\ (j \in g.sl[i] <=> c # 0)
      BY <1>4, <2>2, <3>1
    <3>3. c # 0 => c # current
      <4>1. SUFFICES ASSUME c # 0, c = current PROVE FALSE
        OBVIOUS
      <4>2. [fl |-> i, sl |-> j] = at
        BY <1>6, <3>1, <4>1
      <4>3. i = at.fl /\ j = at.sl
        BY <4>2
      <4>4. QED
        BY <2>2, <4>3
    <3> HIDE DEF c
    <3>4. QED
      BY <1>2, <1>3, <3>1, <3>2, <3>3
  <2>3. QED
    BY <2>1, <2>2
<1>10. ASSUME NEW i \in FL PROVE i \in g.fl <=> g.sl[i] # {}
  <2>1. i \in h.fl <=> h.sl[i] # {}
    BY DEF Lists
  <2>2. g.sl[i] \subseteq SL /\ h.sl[i] \subseteq SL
    BY DEF InsertedIn, Control
  <2>3. \A j \in SL : j \in g.sl[i] <=> j \in h.sl[i] \/ (i = at.fl /\ j = at.sl)
    BY <1>4
  <2>4. i \in g.fl <=> i \in h.fl \/ i = at.fl
    BY <1>4
  <2>5. QED
    BY <1>1, <2>1, <2>2, <2>3, <2>4
<1>11. ASSUME NEW S \in SUBSET G, S # {} PROVE \E c \in S : Pv(g, c) \notin S
  <2>1. CASE b \in S
    <3>1. Pv(g, b) = 0 /\ 0 \notin S
      BY <1>3, <1>7
    <3>2. QED
      BY <2>1, <3>1
  <2>2. CASE b \notin S
    <3>1. S \in SUBSET F
      BY <2>2
    <3>2. PICK c \in S : Pv(h, c) \notin S
      BY <1>11, <3>1 DEF Lists
    <3>3. QED
      BY <1>3, <2>2, <3>2
  <2>3. QED
    BY <2>1, <2>2
<1>12. QED
  BY <1>8, <1>9, <1>10, <1>11 DEF Lists

LEMMA ListsUntouched ==
  ASSUME NEW F, NEW h, NEW g, Lists(F, h), BitsSame(h, g),
         \A c \in F : Sz(g, c) = Sz(h, c) /\ Nx(g, c) = Nx(h, c) /\ Pv(g, c) = Pv(h, c)
  PROVE  Lists(F, g)
<1>1. \A c \in F : At(g, c) = At(h, c)
  BY DEF At
<1>2. \A at : HeadOf(g, at) = HeadOf(h, at)
  BY DEF HeadOf, BitsSame
<1>3. ASSUME NEW c \in F
      PROVE  /\ At(g, c).fl \in FL /\ At(g, c).sl \in SL
             /\ Nx(g, c) \in F \cup {0} /\ Pv(g, c) \in F \cup {0}
             /\ Nx(g, c) # 0 => Pv(g, Nx(g, c)) = c /\ At(g, Nx(g, c)) = At(g, c)
             /\ Pv(g, c) # 0 => Nx(g, Pv(g, c)) = c
             /\ Pv(g, c) = 0 => HeadOf(g, At(g, c)) = c
  BY <1>1, <1>2 DEF Lists
<1>4. ASSUME NEW i \in FL, NEW j \in SL
      PROVE  LET c == g.blocks[i][j]
             IN  /\ c # 0 => c \in F /\ At(g, c) = [fl |-> i, sl |-> j] /\ Pv(g, c) = 0
                 /\ j \in g.sl[i] <=> c # 0
  BY <1>1 DEF Lists, BitsSame
<1>5. \A i \in FL : i \in g.fl <=> g.sl[i] # {}
  BY DEF Lists, BitsSame
<1>6. \A S \in SUBSET F : S # {} => \E c \in S : Pv(g, c) \notin S
  BY DEF Lists
<1>7. QED
  BY <1>3, <1>4, <1>5, <1>6 DEF Lists

-----------------------------------------------------------------------------
(***************************************************************************)
(* What the operations do to the shape.                                    *)
(***************************************************************************)

(* The geometry, in numbers. *)
LEMMA NextAbove ==
  ASSUME NEW D, D \subseteq Nat \ {0}, NEW h \in Control(D \cup {0}), NEW Starts, NEW Ends,
         Tiles(D, h, Starts, Ends)
  PROVE  \A b \in D \ Ends : b < block_next(h, b)
<1>1. PICK w \in Nat : w = Word /\ w > 0
  BY Constants
<1>2. \A b \in D : b \in Nat /\ Sz(h, b) \in Nat
  BY Typed
<1>3. \A b \in D : block_next(h, b) = b + Sz(h, b) + w
  BY <1>1, <1>2, NextIs
<1>4. QED
  BY <1>1, <1>2, <1>3

LEMMA Geometry ==
  ASSUME NEW D, D \subseteq Nat \ {0}, NEW h \in Control(D \cup {0}), NEW Starts, NEW Ends,
         Tiles(D, h, Starts, Ends)
  PROVE  /\ Starts \subseteq D /\ Ends \subseteq D
         /\ \A b \in D : /\ b \in Nat /\ b # 0 /\ Sz(h, b) \in Nat
                         /\ Multiple(b, Word) /\ Multiple(Sz(h, b), Word)
         /\ \A b \in D \ Ends : /\ Sz(h, b) >= block_size_min
                                /\ block_next(h, b) \in D \ Starts
                                /\ b < block_next(h, b)
                                /\ \A c \in D : c <= b \/ block_next(h, b) <= c
         /\ \A b \in D \ Starts : \E p \in D \ Ends : block_next(h, p) = b
<1>1. PICK w \in Nat : w = Word /\ w > 0
  BY Constants
<1>2. \A b \in D : b \in Nat /\ b # 0 /\ Sz(h, b) \in Nat
  BY Typed
<1>3. \A b \in D : block_next(h, b) = b + Sz(h, b) + w
  BY <1>1, <1>2, NextIs
<1>4. \A b \in D \ Ends : Sz(h, b) >= block_size_min
  BY <1>1, Sizes DEF Tiles
<1>5. \A b \in D \ Ends : b < block_next(h, b)
  BY NextAbove
<1>6. QED
  BY <1>1, <1>2, <1>3, <1>4, <1>5 DEF Tiles

LEMMA NextApart ==
  ASSUME NEW D, D \subseteq Nat \ {0}, NEW h \in Control(D \cup {0}), NEW Starts, NEW Ends,
         Tiles(D, h, Starts, Ends),
         NEW b \in D \ Ends, NEW c \in D \ Ends, block_next(h, b) = block_next(h, c)
  PROVE  b = c
<1>1. b \in Nat /\ c \in Nat /\ block_next(h, b) \in Nat
  BY Geometry
<1>2. b < block_next(h, b) /\ c < block_next(h, c)
  BY NextAbove
<1>3. (c <= b \/ block_next(h, b) <= c) /\ (b <= c \/ block_next(h, c) <= b)
  BY Geometry
<1>4. QED
  BY <1>1, <1>2, <1>3

(* A write to the links changes nothing else. *)
LEMMA SamePhysics ==
  ASSUME NEW D, NEW h, NEW g, PhysSame(D \cup {0}, h, g),
         NEW Starts, NEW Ends, Tiles(D, h, Starts, Ends), NEW U
  PROVE  /\ \A b \in D : block_next(g, b) = block_next(h, b)
         /\ Tiles(D, g, Starts, Ends)
         /\ Flags(D, h, Starts, Ends) => Flags(D, g, Starts, Ends)
         /\ FreeApart(D, h, Ends, U) => FreeApart(D, g, Ends, U)
         /\ FreeIn(D, g) = FreeIn(D, h) /\ UsedIn(D, g, Ends) = UsedIn(D, h, Ends)
<1>1. \A b \in D : block_next(g, b) = block_next(h, b)
  BY NextSame DEF PhysSame
<1>2. \A b \in D : /\ Sz(g, b) = Sz(h, b) /\ Fr(g, b) = Fr(h, b)
                   /\ Pf(g, b) = Pf(h, b) /\ Pp(g, b) = Pp(h, b)
  BY DEF PhysSame, SzSame, FrSame, PfSame, PpSame
<1>3. Tiles(D, g, Starts, Ends)
  BY <1>1, <1>2 DEF Tiles
<1>4. \A b \in D \ Ends : block_next(h, b) \in D
  BY DEF Tiles
<1>5. Flags(D, h, Starts, Ends) => Flags(D, g, Starts, Ends)
  <2>1. Starts \subseteq D /\ Ends \subseteq D
    BY DEF Tiles
  <2>2. QED
    BY <1>1, <1>2, <1>4, <2>1 DEF Flags
<1>6. FreeApart(D, h, Ends, U) => FreeApart(D, g, Ends, U)
  BY <1>1, <1>2, <1>4 DEF FreeApart
<1>7. FreeIn(D, g) = FreeIn(D, h) /\ UsedIn(D, g, Ends) = UsedIn(D, h, Ends)
  BY <1>2 DEF FreeIn, UsedIn
<1>8. QED
  BY <1>1, <1>3, <1>5, <1>6, <1>7

(* A block's size is that of a list. *)
LEMMA SizesInRange ==
  ASSUME NEW s \in Nat, s < block_size_max
  PROVE  mapping_insert(s).fl \in FL /\ mapping_insert(s).sl \in SL
<1>1. CASE s < SMALL_BLOCK_SIZE
  <2>1. mapping_insert(s).fl = 0
    BY <1>1 DEF mapping_insert
  <2>2. 0 \in FL
    BY TlsfAssumption, Constants DEF FL, FL_INDEX_COUNT
  <2>3. QED
    BY <2>1, <2>2, SmallerIsInRange
<1>2. CASE s >= SMALL_BLOCK_SIZE
  <2>1. fls(s) \in Nat /\ fls(s) >= FL_INDEX_SHIFT /\ 2 ^ fls(s) <= s
    BY <1>2, Constants, FlsAtLeast, FlsExists DEF SMALL_BLOCK_SIZE
  <2>2. fls(s) < FL_INDEX_MAX
    <3>1. SUFFICES ASSUME FL_INDEX_MAX <= fls(s) PROVE FALSE
      BY <2>1, TlsfAssumption
    <3>2. 2 ^ FL_INDEX_MAX <= 2 ^ fls(s) /\ 2 ^ FL_INDEX_MAX \in Nat /\ 2 ^ fls(s) \in Nat
      BY <2>1, <3>1, TlsfAssumption, PowersOrdered, PowersGrow
    <3>3. QED
      BY <2>1, <3>2 DEF block_size_max
  <2>3. mapping_insert(s).fl = fls(s) - (FL_INDEX_SHIFT - 1)
    BY <1>2, Constants DEF mapping_insert
  <2>4. mapping_insert(s).fl \in FL
    BY <2>1, <2>2, <2>3, TlsfAssumption, Constants DEF FL, FL_INDEX_COUNT
  <2>5. QED
    BY <2>4, SmallerIsInRange
<1>3. QED
  BY <1>1, <1>2, Constants

LEMMA InRange ==
  ASSUME NEW D, NEW h, NEW Pool, NEW U, NEW V, Shape(D, h, Pool, U, V),
         NEW b \in D \ LastIn(Pool)
  PROVE  /\ Sz(h, b) < block_size_max
         /\ At(h, b).fl \in FL /\ At(h, b).sl \in SL
<1> DEFINE Ends == LastIn(Pool)
<1>1. PICK w \in Nat : w = Word /\ w > 0
  BY Constants
<1>2. /\ b \in Nat /\ Sz(h, b) \in Nat /\ block_next(h, b) = b + Sz(h, b) + w
      /\ \A c \in D : c <= b \/ block_next(h, b) <= c
      /\ Ends \subseteq D /\ D \subseteq Nat
  <2>1. PICK Starts, Final : Starts = FirstIn(Pool) /\ Final = LastIn(Pool)
    OBVIOUS
  <2>2. /\ D \subseteq Nat \ {0} /\ h \in Control(D \cup {0})
        /\ Tiles(D, h, Starts, Final) /\ b \in D \ Final /\ Ends = Final
    BY <2>1 DEF Shape
  <2> HIDE DEF Ends
  <2>3. /\ b \in Nat /\ Sz(h, b) \in Nat /\ Ends \subseteq D
        /\ \A c \in D : c <= b \/ block_next(h, b) <= c
    BY <2>2, Geometry
  <2>4. block_next(h, b) = b + Sz(h, b) + w
    BY <1>1, <2>3, NextIs
  <2>5. QED
    BY <2>2, <2>3, <2>4
<1>3. block_size_max \in Nat
  BY TlsfAssumption, PowersGrow DEF block_size_max
<1>4. PICK p \in Pool : p[1] <= b /\ b <= p[2] /\ p[2] < p[1] + w + block_size_max
  BY <1>1 DEF Shape, Within
<1>5. p[1] \in Nat /\ p[2] \in Nat /\ p[2] \in Ends
  BY DEF Shape, LastIn
<1>6. p[2] # b /\ p[2] \in D
  BY <1>2, <1>5
<1>7. block_next(h, b) <= p[2]
  BY <1>2, <1>4, <1>5, <1>6
<1>8. Sz(h, b) < block_size_max
  BY <1>1, <1>2, <1>3, <1>4, <1>5, <1>7
<1>9. At(h, b).fl \in FL /\ At(h, b).sl \in SL
  BY <1>2, <1>8, SizesInRange DEF At
<1>10. QED
  BY <1>8, <1>9

(* A free block takes in the free block behind it. *)
LEMMA AbsorbShapes ==
  ASSUME NEW D, NEW h, NEW Pool, NEW U, NEW V, Shape(D, h, Pool, U, V),
         NEW q \in D \ LastIn(Pool), q \in U, Fr(h, q) = 1,
         NEW c \in U, c = block_next(h, q), Fr(h, c) = 1,
         NEW g, g = block_absorb(h, q, c)
  PROVE  /\ Shape(D \ {c}, g, Pool, U \ {c}, V)
         /\ c \in D \ LastIn(Pool) /\ q \in D \ {c}
         /\ \A x \in D \ {c} : /\ Fr(g, x) = Fr(h, x) /\ Pf(g, x) = Pf(h, x)
                               /\ x # q => Sz(g, x) = Sz(h, x)
         /\ block_next(g, q) = block_next(h, c)
<1> DEFINE R == D \ {c}
           n == block_next(h, c)
<1>1. PICK Starts, Ends : Starts = FirstIn(Pool) /\ Ends = LastIn(Pool)
  OBVIOUS
<1>2. /\ D \subseteq Nat \ {0} /\ h \in Control(D \cup {0}) /\ Pool \subseteq Nat \X Nat
      /\ Tiles(D, h, Starts, Ends) /\ Flags(D, h, Starts, Ends) /\ FreeApart(D, h, Ends, U)
      /\ Within(D, Pool) /\ Lists(FreeIn(D, h) \ U, h) /\ V = UsedIn(D, h, Ends)
      /\ q \in D \ Ends
  BY <1>1 DEF Shape
<1>3. PICK w \in Nat : w = Word /\ w > 0
  BY Constants
<1>4. c \in D \ Starts /\ q \in Nat /\ q < c
  <2>1. c \in D \ Starts
    BY <1>2 DEF Tiles
  <2>2. q < block_next(h, q)
    BY <1>2, NextAbove
  <2>3. QED
    BY <1>2, <2>1, <2>2
<1>5. c \in D \ Ends /\ c \in Nat /\ c # q /\ c # 0
  <2>1. c \notin Ends
    BY <1>2 DEF Flags
  <2>2. QED
    BY <1>2, <1>4, <2>1
<1>6. n \in D \ Starts /\ c < n /\ n \in Nat
  <2>1. n \in D \ Starts
    BY <1>2, <1>5 DEF Tiles
  <2>2. \A x \in D \ Ends : x < block_next(h, x)
    BY <1>2, NextAbove
  <2>3. c < block_next(h, c)
    BY <1>5, <2>2
  <2>4. QED
    BY <1>2, <2>1, <2>3
<1>7. Absorbed(D \cup {0}, h, g, q, c)
  <2>1. D \cup {0} \in SUBSET Nat
    BY <1>2
  <2>2. QED
    BY <1>2, <1>5, <2>1, AbsorbDoes
<1>8. g \in Control(R \cup {0}) /\ BitsSame(h, g)
  <2>1. (D \cup {0}) \ {c} = R \cup {0}
    BY <1>5
  <2>2. QED
    BY <1>7, <2>1 DEF Absorbed
<1>9. /\ Sz(g, q) = Sz(h, q) + Sz(h, c) + w
      /\ \A x \in R : /\ x # q => Sz(g, x) = Sz(h, x)
                      /\ Fr(g, x) = Fr(h, x) /\ Pf(g, x) = Pf(h, x)
                      /\ Pp(g, x) = IF x = n THEN q ELSE Pp(h, x)
                      /\ Nx(g, x) = Nx(h, x) /\ Pv(g, x) = Pv(h, x)
  BY <1>3, <1>7 DEF Absorbed
<1>10. Sz(h, q) \in Nat /\ Sz(h, c) \in Nat
  BY <1>2, <1>5, Typed
<1>11. block_next(g, q) = n
  <2>1. block_next(g, q) = q + (Sz(h, q) + Sz(h, c) + w) + w
    BY <1>3, <1>4, <1>9, <1>10, NextIs
  <2>2. c = q + Sz(h, q) + w /\ n = c + Sz(h, c) + w
    BY <1>2, <1>3, <1>4, <1>5, <1>10, NextIs
  <2>3. QED
    BY <1>3, <1>4, <1>5, <1>6, <1>10, <2>1, <2>2
<1>12. \A x \in R \ {q} : block_next(g, x) = block_next(h, x)
  BY <1>9 DEF block_next, Sz
<1>13. \A x \in R \ Ends : x # q => block_next(h, x) # c /\ block_next(h, x) # n
  <2>1. \A x, y \in D \ Ends : block_next(h, x) = block_next(h, y) => x = y
    BY <1>2, NextApart
  <2>2. QED
    BY <1>2, <1>5, <2>1
<1> HIDE DEF n, R
<1>14. Tiles(R, g, Starts, Ends)
  <2>1. Starts \subseteq R /\ Ends \subseteq R
    BY <1>2, <1>4, <1>5 DEF Tiles, R
  <2>2. ASSUME NEW x \in R
        PROVE  /\ Multiple(x, Word) /\ Multiple(Sz(g, x), Word)
               /\ x \in Ends => Sz(g, x) = 0
               /\ x \notin Ends => Sz(g, x) >= block_size_min
    <3>1. x \in D
      BY DEF R
    <3>2. CASE x = q
      <4>1. Multiple(Sz(h, q), Word) /\ Multiple(Sz(h, c), Word) /\ Multiple(Word, Word)
        BY <1>2, <1>5, Sizes DEF Tiles
      <4>2. Word \in Nat
        BY Constants
      <4>3. Multiple(Sz(h, q) + Sz(h, c) + w, Word)
        BY <1>3, <4>1, <4>2, MultiplesSum
      <4>4. Sz(h, q) >= block_size_min /\ block_size_min \in Nat
        BY <1>2, Sizes DEF Tiles
      <4>5. Multiple(q, Word)
        BY <1>2 DEF Tiles
      <4>6. Sz(g, q) >= block_size_min
        BY <1>3, <1>9, <1>10, <4>4
      <4>7. QED
        BY <1>2, <1>9, <3>2, <4>3, <4>5, <4>6
    <3>3. CASE x # q
      BY <1>2, <1>9, <3>1, <3>3 DEF Tiles
    <3>4. QED
      BY <3>2, <3>3
  <2>3. ASSUME NEW x \in R \ Ends
        PROVE  block_next(g, x) \in R \ Starts /\ \A y \in R : y <= x \/ block_next(g, x) <= y
    <3>1. x \in D \ Ends
      BY DEF R
    <3>2. CASE x = q
      <4>1. n \in R \ Starts
        BY <1>4, <1>5, <1>6 DEF R
      <4>2. ASSUME NEW y \in R PROVE y <= q \/ n <= y
        <5>1. y \in Nat /\ y # c /\ (y <= q \/ c <= y) /\ (y <= c \/ n <= y)
          BY <1>2, <1>5 DEF R, Tiles, n
        <5>2. QED
          BY <1>4, <1>5, <1>6, <5>1
      <4>3. QED
        BY <1>11, <3>2, <4>1, <4>2
    <3>3. CASE x # q
      <4>1. /\ block_next(h, x) \in D \ Starts
            /\ \A y \in D : y <= x \/ block_next(h, x) <= y
        BY <1>2, <3>1 DEF Tiles
      <4>2. block_next(g, x) = block_next(h, x) /\ block_next(h, x) # c
        BY <1>12, <1>13, <3>3
      <4>3. QED
        BY <4>1, <4>2 DEF R
    <3>4. QED
      BY <3>2, <3>3
  <2>4. ASSUME NEW x \in R \ Starts PROVE \E p \in R \ Ends : block_next(g, p) = x
    <3>1. x \in D \ Starts /\ x # c
      BY DEF R
    <3>2. PICK p \in D \ Ends : block_next(h, p) = x
      BY <1>2, <3>1 DEF Tiles
    <3>3. CASE p = c
      <4>1. q \in R \ Ends /\ block_next(g, q) = x
        BY <1>2, <1>5, <1>11, <3>2, <3>3 DEF R, n
      <4>2. QED
        BY <4>1
    <3>4. CASE p # c
      <4>1. p # q
        BY <3>1, <3>2
      <4>2. p \in R \ Ends /\ block_next(g, p) = x
        BY <1>12, <3>2, <3>4, <4>1 DEF R
      <4>3. QED
        BY <4>2
    <3>5. QED
      BY <3>3, <3>4
  <2>5. QED
    BY <2>1, <2>2, <2>3, <2>4 DEF Tiles
<1>15. Flags(R, g, Starts, Ends)
  <2>1. /\ \A x \in R : Fr(g, x) \in {0, 1}
        /\ \A x \in Ends : Fr(g, x) = 0
        /\ \A x \in Starts : Pf(g, x) = 0
    <3>1. Starts \subseteq R /\ Ends \subseteq R
      BY <1>14 DEF Tiles
    <3>2. QED
      BY <1>2, <1>9, <3>1 DEF Flags, R
  <2>2. ASSUME NEW x \in R \ Ends
        PROVE  /\ Pf(g, block_next(g, x)) = Fr(g, x)
               /\ Fr(g, x) = 1 => Pp(g, block_next(g, x)) = x
    <3>1. x \in D \ Ends /\ block_next(g, x) \in R
      BY <1>14 DEF R, Tiles
    <3>2. CASE x = q
      <4>1. Pf(h, n) = 1
        BY <1>2, <1>5 DEF Flags, n
      <4>2. QED
        BY <1>9, <1>11, <3>1, <3>2, <4>1
    <3>3. CASE x # q
      <4>1. block_next(g, x) = block_next(h, x) /\ block_next(h, x) # n
        BY <1>12, <1>13, <3>3
      <4>2. /\ Pf(h, block_next(h, x)) = Fr(h, x)
            /\ Fr(h, x) = 1 => Pp(h, block_next(h, x)) = x
        BY <1>2, <3>1 DEF Flags
      <4>3. QED
        BY <1>9, <3>1, <4>1, <4>2
    <3>4. QED
      BY <3>2, <3>3
  <2>3. QED
    BY <2>1, <2>2 DEF Flags
<1>16. FreeApart(R, g, Ends, U \ {c})
  <2>1. SUFFICES ASSUME NEW x \in R \ Ends, Fr(g, x) = 1, Fr(g, block_next(g, x)) = 1
                 PROVE  x \in U \ {c} \/ block_next(g, x) \in U \ {c}
    BY DEF FreeApart
  <2>2. CASE x = q
    BY <1>5, <2>2
  <2>3. CASE x # q
    <3>1. x \in D \ Ends /\ x # c /\ block_next(g, x) \in R
      BY <1>14 DEF R, Tiles
    <3>2. block_next(g, x) = block_next(h, x) /\ block_next(h, x) # c
      BY <1>12, <1>13, <2>3
    <3>3. Fr(h, x) = 1 /\ Fr(h, block_next(h, x)) = 1
      BY <1>9, <2>1, <3>1, <3>2
    <3>4. x \in U \/ block_next(h, x) \in U
      BY <1>2, <3>1, <3>3 DEF FreeApart
    <3>5. QED
      BY <3>1, <3>2, <3>4
  <2>4. QED
    BY <2>2, <2>3
<1>17. Within(R, Pool)
  BY <1>2 DEF Within, R
<1>18. Lists(FreeIn(R, g) \ (U \ {c}), g)
  <2>1. FreeIn(R, g) \ (U \ {c}) = FreeIn(D, h) \ U
    BY <1>9, <1>5 DEF FreeIn, R
  <2>2. \A x \in FreeIn(D, h) \ U : Sz(g, x) = Sz(h, x) /\ Nx(g, x) = Nx(h, x) /\ Pv(g, x) = Pv(h, x)
    BY <1>9 DEF FreeIn, R
  <2>3. QED
    BY <1>2, <1>8, <2>1, <2>2, ListsUntouched
<1>19. V = UsedIn(R, g, Ends)
  <2>1. \A x : x \in UsedIn(D, h, Ends) <=> x \in UsedIn(R, g, Ends)
    <3>1. Fr(h, c) # 0
      OBVIOUS
    <3>2. QED
      BY <1>9, <3>1 DEF UsedIn, R
  <2>2. QED
    BY <1>2, <2>1
<1>20. R \subseteq Nat \ {0}
  BY <1>2 DEF R
<1>21. Shape(R, g, Pool, U \ {c}, V)
  BY <1>1, <1>2, <1>8, <1>14, <1>15, <1>16, <1>17, <1>18, <1>19, <1>20 DEF Shape
<1>22. QED
  BY <1>1, <1>2, <1>5, <1>9, <1>11, <1>21 DEF R, n

(* A block leaves its list. *)
LEMMA RemoveShapes ==
  ASSUME NEW D, NEW h, NEW Pool, NEW U, NEW V, Shape(D, h, Pool, U, V),
         NEW b \in D, Fr(h, b) = 1, b \notin U,
         NEW g, g = remove_free_block(h, b, At(h, b))
  PROVE  Shape(D, g, Pool, U \cup {b}, V) /\ PhysSame(D \cup {0}, h, g)
<1> DEFINE F == FreeIn(D, h) \ U
<1>1. PICK Starts, Ends : Starts = FirstIn(Pool) /\ Ends = LastIn(Pool)
  OBVIOUS
<1>2. /\ D \subseteq Nat \ {0} /\ h \in Control(D \cup {0}) /\ Pool \subseteq Nat \X Nat
      /\ Tiles(D, h, Starts, Ends) /\ Flags(D, h, Starts, Ends) /\ FreeApart(D, h, Ends, U)
      /\ Within(D, Pool) /\ Lists(F, h) /\ V = UsedIn(D, h, Ends)
  BY <1>1 DEF Shape
<1>3. b \in F /\ F \subseteq D \cup {0} /\ 0 \notin F
  BY <1>2 DEF FreeIn
<1> HIDE DEF F
<1>4. At(h, b).fl \in FL /\ At(h, b).sl \in SL
  BY <1>2, <1>3 DEF Lists
<1>5. RemovedFrom(D \cup {0}, h, g, b, At(h, b))
  BY <1>2, <1>4, RemoveDoes
<1>6. Lists(F \ {b}, g)
  BY <1>2, <1>3, <1>5, RemoveKeepsLists
<1>7. PhysSame(D \cup {0}, h, g) /\ g \in Control(D \cup {0})
  BY <1>5 DEF RemovedFrom
<1>8. FreeApart(D, h, Ends, U \cup {b})
  BY <1>2 DEF FreeApart
<1>9. /\ Tiles(D, g, Starts, Ends) /\ Flags(D, g, Starts, Ends) /\ FreeApart(D, g, Ends, U \cup {b})
      /\ FreeIn(D, g) = FreeIn(D, h) /\ UsedIn(D, g, Ends) = UsedIn(D, h, Ends)
  <2>1. PICK W : W = U \cup {b}
    OBVIOUS
  <2>2. FreeApart(D, h, Ends, W)
    BY <1>8, <2>1
  <2>3. FreeApart(D, g, Ends, W) /\ Tiles(D, g, Starts, Ends) /\ Flags(D, g, Starts, Ends)
    BY <1>2, <1>7, <2>2, SamePhysics
  <2>4. FreeIn(D, g) = FreeIn(D, h) /\ UsedIn(D, g, Ends) = UsedIn(D, h, Ends)
    BY <1>2, <1>7, SamePhysics
  <2>5. QED
    BY <2>1, <2>3, <2>4
<1>10. FreeIn(D, g) \ (U \cup {b}) = F \ {b}
  BY <1>9 DEF F
<1>11. QED
  BY <1>1, <1>2, <1>6, <1>7, <1>9, <1>10 DEF Shape

(* A block enters a list, when no free neighbour is left outside the lists. *)
LEMMA InsertShapes ==
  ASSUME NEW D, NEW h, NEW Pool, NEW U, NEW V, Shape(D, h, Pool, U, V),
         NEW b \in D, Fr(h, b) = 1, b \in U, FreeApart(D, h, LastIn(Pool), U \ {b}),
         NEW g, g = block_insert(h, b)
  PROVE  Shape(D, g, Pool, U \ {b}, V) /\ PhysSame(D \cup {0}, h, g)
<1> DEFINE F == FreeIn(D, h) \ U
<1>1. PICK Starts, Ends : Starts = FirstIn(Pool) /\ Ends = LastIn(Pool)
  OBVIOUS
<1>2. /\ D \subseteq Nat \ {0} /\ h \in Control(D \cup {0}) /\ Pool \subseteq Nat \X Nat
      /\ Tiles(D, h, Starts, Ends) /\ Flags(D, h, Starts, Ends) /\ FreeApart(D, h, Ends, U \ {b})
      /\ Within(D, Pool) /\ Lists(F, h) /\ V = UsedIn(D, h, Ends)
  BY <1>1 DEF Shape
<1>3. b \notin F /\ F \subseteq D \cup {0} /\ 0 \notin F /\ F \cup {b} = FreeIn(D, h) \ (U \ {b})
  BY <1>2 DEF FreeIn
<1> HIDE DEF F
<1>4. b \notin Ends
  BY <1>2 DEF Flags
<1>5. At(h, b).fl \in FL /\ At(h, b).sl \in SL
  BY <1>1, <1>4, InRange
<1>6. InsertedIn(D \cup {0}, h, g, b, At(h, b))
  <2>1. b \in D \cup {0} /\ b \in Nat
    BY <1>2
  <2>2. QED
    BY <1>2, <1>5, <2>1, InsertDoes
<1>7. Lists(F \cup {b}, g)
  <2>1. b \in (D \cup {0}) \ F /\ b # 0
    BY <1>2, <1>3
  <2>2. QED
    BY <1>2, <1>3, <1>5, <1>6, <2>1, InsertKeepsLists
<1>8. PhysSame(D \cup {0}, h, g) /\ g \in Control(D \cup {0})
  BY <1>6 DEF InsertedIn
<1>9. /\ Tiles(D, g, Starts, Ends) /\ Flags(D, g, Starts, Ends) /\ FreeApart(D, g, Ends, U \ {b})
      /\ FreeIn(D, g) = FreeIn(D, h) /\ UsedIn(D, g, Ends) = UsedIn(D, h, Ends)
  BY <1>2, <1>8, SamePhysics
<1>10. FreeIn(D, g) \ (U \ {b}) = F \cup {b}
  BY <1>3, <1>9
<1>11. QED
  BY <1>1, <1>2, <1>7, <1>8, <1>9, <1>10 DEF Shape

(* A block that was used is free, and in no list yet. *)
LEMMA FreeShapes ==
  ASSUME NEW D, NEW h, NEW Pool, NEW U, NEW V, Shape(D, h, Pool, U, V),
         NEW b \in V, b \notin U, NEW g, g = MarkAsFree(h, b)
  PROVE  Shape(D, g, Pool, U \cup {b}, V \ {b}) /\ MarkedFree(D \cup {0}, h, g, b)
<1>1. PICK Starts, Ends : Starts = FirstIn(Pool) /\ Ends = LastIn(Pool)
  OBVIOUS
<1>2. /\ D \subseteq Nat \ {0} /\ h \in Control(D \cup {0}) /\ Pool \subseteq Nat \X Nat
      /\ Tiles(D, h, Starts, Ends) /\ Flags(D, h, Starts, Ends) /\ FreeApart(D, h, Ends, U)
      /\ Within(D, Pool) /\ Lists(FreeIn(D, h) \ U, h) /\ V = UsedIn(D, h, Ends)
  BY <1>1 DEF Shape
<1>3. b \in D \ Ends /\ Fr(h, b) = 0 /\ b \in Nat
  BY <1>2 DEF UsedIn
<1>4. MarkedFree(D \cup {0}, h, g, b)
  <2>1. b \in D \cup {0} /\ b \in Nat
    BY <1>3
  <2>2. QED
    BY <1>2, <2>1, MarkAsFreeDoes
<1>5. PICK n : n = block_next(h, b)
  OBVIOUS
<1>6. /\ g \in Control(D \cup {0}) /\ BitsSame(h, g)
      /\ \A c \in D : /\ Sz(g, c) = Sz(h, c) /\ Nx(g, c) = Nx(h, c) /\ Pv(g, c) = Pv(h, c)
                      /\ Fr(g, c) = IF c = b THEN 1 ELSE Fr(h, c)
                      /\ Pf(g, c) = IF c = n THEN 1 ELSE Pf(h, c)
                      /\ Pp(g, c) = IF c = n THEN b ELSE Pp(h, c)
  BY <1>4, <1>5 DEF MarkedFree, SzSame, LinksSame
<1>7. \A c \in D : block_next(g, c) = block_next(h, c)
  BY <1>6 DEF block_next, Sz
<1>8. n \in D \ Starts
  BY <1>2, <1>3, <1>5 DEF Tiles
<1>9. \A c \in D \ Ends : block_next(h, c) = n => c = b
  BY <1>2, <1>3, <1>5, NextApart
<1>10. Tiles(D, g, Starts, Ends)
  BY <1>2, <1>6, <1>7 DEF Tiles
<1>11. Flags(D, g, Starts, Ends)
  <2>1. Starts \subseteq D /\ Ends \subseteq D
    BY <1>2 DEF Tiles
  <2>2. \A c \in D : Fr(g, c) \in {0, 1}
    BY <1>2, <1>6 DEF Flags
  <2>3. \A c \in Ends : Fr(g, c) = 0
    BY <1>2, <1>3, <1>6, <2>1 DEF Flags
  <2>4. \A c \in Starts : Pf(g, c) = 0
    BY <1>2, <1>6, <1>8, <2>1 DEF Flags
  <2>5. ASSUME NEW c \in D \ Ends
        PROVE  /\ Pf(g, block_next(g, c)) = Fr(g, c)
               /\ Fr(g, c) = 1 => Pp(g, block_next(g, c)) = c
    <3>1. block_next(g, c) = block_next(h, c) /\ block_next(h, c) \in D
      BY <1>2, <1>7 DEF Tiles
    <3>2. /\ Pf(h, block_next(h, c)) = Fr(h, c)
          /\ Fr(h, c) = 1 => Pp(h, block_next(h, c)) = c
      BY <1>2 DEF Flags
    <3>3. CASE c = b
      BY <1>5, <1>6, <3>1, <3>3
    <3>4. CASE c # b
      <4>1. block_next(h, c) # n
        BY <1>9, <3>4
      <4>2. QED
        BY <1>6, <3>1, <3>2, <3>4, <4>1
    <3>5. QED
      BY <3>3, <3>4
  <2>6. QED
    BY <2>2, <2>3, <2>4, <2>5 DEF Flags
<1>12. FreeApart(D, g, Ends, U \cup {b})
  <2>1. SUFFICES ASSUME NEW c \in D \ Ends, Fr(g, c) = 1, Fr(g, block_next(g, c)) = 1
                 PROVE  c \in U \cup {b} \/ block_next(g, c) \in U \cup {b}
    BY DEF FreeApart
  <2>2. block_next(g, c) = block_next(h, c) /\ block_next(h, c) \in D
    BY <1>2, <1>7 DEF Tiles
  <2>3. CASE c # b /\ block_next(h, c) # b
    <3>1. Fr(h, c) = 1 /\ Fr(h, block_next(h, c)) = 1
      BY <1>6, <2>1, <2>2, <2>3
    <3>2. QED
      BY <1>2, <2>2, <3>1 DEF FreeApart
  <2>4. QED
    BY <2>2, <2>3
<1>13. Lists(FreeIn(D, g) \ (U \cup {b}), g)
  <2>1. FreeIn(D, g) \ (U \cup {b}) = FreeIn(D, h) \ U
    <3>1. Fr(h, b) # 1
      BY <1>3
    <3>2. \A c \in D : c # b => (Fr(g, c) = 1 <=> Fr(h, c) = 1)
      BY <1>6
    <3>3. \A c : c \in FreeIn(D, g) \ (U \cup {b}) <=> c \in FreeIn(D, h) \ U
      BY <3>1, <3>2 DEF FreeIn
    <3>4. QED
      BY <3>3
  <2>2. \A c \in FreeIn(D, h) \ U : Sz(g, c) = Sz(h, c) /\ Nx(g, c) = Nx(h, c) /\ Pv(g, c) = Pv(h, c)
    BY <1>6 DEF FreeIn
  <2>3. QED
    BY <1>2, <1>6, <2>1, <2>2, ListsUntouched
<1>14. V \ {b} = UsedIn(D, g, Ends)
  <2>1. \A c : c \in V \ {b} <=> c \in UsedIn(D, g, Ends)
    <3>1. Fr(g, b) # 0
      BY <1>3, <1>6
    <3>2. \A c \in D : c # b => Fr(g, c) = Fr(h, c)
      BY <1>6
    <3>3. QED
      BY <1>2, <3>1, <3>2 DEF UsedIn
  <2>2. QED
    BY <2>1
<1>15. QED
  BY <1>1, <1>2, <1>4, <1>6, <1>10, <1>11, <1>12, <1>13, <1>14 DEF Shape

(* A free block of no list is used. *)
LEMMA UseShapes ==
  ASSUME NEW D, NEW h, NEW Pool, NEW U, NEW V, Shape(D, h, Pool, U, V),
         NEW b \in D, Fr(h, b) = 1, b \in U, NEW g, g = MarkAsUsed(h, b)
  PROVE  Shape(D, g, Pool, U \ {b}, V \cup {b}) /\ SzSame(D \cup {0}, h, g)
<1>1. PICK Starts, Ends : Starts = FirstIn(Pool) /\ Ends = LastIn(Pool)
  OBVIOUS
<1>2. /\ D \subseteq Nat \ {0} /\ h \in Control(D \cup {0}) /\ Pool \subseteq Nat \X Nat
      /\ Tiles(D, h, Starts, Ends) /\ Flags(D, h, Starts, Ends) /\ FreeApart(D, h, Ends, U)
      /\ Within(D, Pool) /\ Lists(FreeIn(D, h) \ U, h) /\ V = UsedIn(D, h, Ends)
  BY <1>1 DEF Shape
<1>3. b \in D \ Ends /\ b \in Nat
  BY <1>2 DEF Flags
<1>4. MarkedUsed(D \cup {0}, h, g, b)
  <2>1. b \in D \cup {0}
    BY <1>3
  <2>2. QED
    BY <1>2, <2>1, MarkAsUsedDoes
<1>5. PICK n : n = block_next(h, b)
  OBVIOUS
<1>6. /\ g \in Control(D \cup {0}) /\ BitsSame(h, g)
      /\ \A c \in D : /\ Sz(g, c) = Sz(h, c) /\ Nx(g, c) = Nx(h, c) /\ Pv(g, c) = Pv(h, c)
                      /\ Fr(g, c) = IF c = b THEN 0 ELSE Fr(h, c)
                      /\ Pf(g, c) = IF c = n THEN 0 ELSE Pf(h, c)
                      /\ Pp(g, c) = Pp(h, c)
  BY <1>4, <1>5 DEF MarkedUsed, SzSame, LinksSame, PpSame
<1>7. \A c \in D : block_next(g, c) = block_next(h, c)
  BY <1>6 DEF block_next, Sz
<1>8. n \in D \ Starts
  BY <1>2, <1>3, <1>5 DEF Tiles
<1>9. \A c \in D \ Ends : block_next(h, c) = n => c = b
  BY <1>2, <1>3, <1>5, NextApart
<1>10. Tiles(D, g, Starts, Ends)
  BY <1>2, <1>6, <1>7 DEF Tiles
<1>11. Flags(D, g, Starts, Ends)
  <2>1. Starts \subseteq D /\ Ends \subseteq D
    BY <1>2 DEF Tiles
  <2>2. \A c \in D : Fr(g, c) \in {0, 1}
    BY <1>2, <1>6 DEF Flags
  <2>3. \A c \in Ends : Fr(g, c) = 0
    BY <1>2, <1>6, <2>1 DEF Flags
  <2>4. \A c \in Starts : Pf(g, c) = 0
    BY <1>2, <1>6, <2>1 DEF Flags
  <2>5. ASSUME NEW c \in D \ Ends
        PROVE  /\ Pf(g, block_next(g, c)) = Fr(g, c)
               /\ Fr(g, c) = 1 => Pp(g, block_next(g, c)) = c
    <3>1. block_next(g, c) = block_next(h, c) /\ block_next(h, c) \in D
      BY <1>2, <1>7 DEF Tiles
    <3>2. /\ Pf(h, block_next(h, c)) = Fr(h, c)
          /\ Fr(h, c) = 1 => Pp(h, block_next(h, c)) = c
      BY <1>2 DEF Flags
    <3>3. CASE c = b
      BY <1>5, <1>6, <3>1, <3>3
    <3>4. CASE c # b
      <4>1. block_next(h, c) # n
        BY <1>9, <3>4
      <4>2. QED
        BY <1>6, <3>1, <3>2, <3>4, <4>1
    <3>5. QED
      BY <3>3, <3>4
  <2>6. QED
    BY <2>2, <2>3, <2>4, <2>5 DEF Flags
<1>12. FreeApart(D, g, Ends, U \ {b})
  <2>1. SUFFICES ASSUME NEW c \in D \ Ends, Fr(g, c) = 1, Fr(g, block_next(g, c)) = 1
                 PROVE  c \in U \ {b} \/ block_next(g, c) \in U \ {b}
    BY DEF FreeApart
  <2>2. block_next(g, c) = block_next(h, c) /\ block_next(h, c) \in D
    BY <1>2, <1>7 DEF Tiles
  <2>3. c # b /\ block_next(h, c) # b
    BY <1>6, <2>1, <2>2
  <2>4. Fr(h, c) = 1 /\ Fr(h, block_next(h, c)) = 1
    BY <1>6, <2>1, <2>2, <2>3
  <2>5. QED
    BY <1>2, <2>2, <2>3, <2>4 DEF FreeApart
<1>13. Lists(FreeIn(D, g) \ (U \ {b}), g)
  <2>1. FreeIn(D, g) \ (U \ {b}) = FreeIn(D, h) \ U
    <3>1. Fr(g, b) # 1
      BY <1>3, <1>6
    <3>2. \A c \in D : c # b => (Fr(g, c) = 1 <=> Fr(h, c) = 1)
      BY <1>6
    <3>3. \A c : c \in FreeIn(D, g) \ (U \ {b}) <=> c \in FreeIn(D, h) \ U
      BY <3>1, <3>2 DEF FreeIn
    <3>4. QED
      BY <3>3
  <2>2. \A c \in FreeIn(D, h) \ U : Sz(g, c) = Sz(h, c) /\ Nx(g, c) = Nx(h, c) /\ Pv(g, c) = Pv(h, c)
    BY <1>6 DEF FreeIn
  <2>3. QED
    BY <1>2, <1>6, <2>1, <2>2, ListsUntouched
<1>14. V \cup {b} = UsedIn(D, g, Ends)
  <2>1. \A c : c \in V \cup {b} <=> c \in UsedIn(D, g, Ends)
    BY <1>2, <1>3, <1>6 DEF UsedIn
  <2>2. QED
    BY <2>1
<1>15. QED
  BY <1>1, <1>2, <1>4, <1>6, <1>10, <1>11, <1>12, <1>13, <1>14 DEF Shape, MarkedUsed

(* What the caller writes over matters to no one. *)
LEMMA HandOverShapes ==
  ASSUME NEW D, NEW h, NEW Pool, NEW U, NEW V, Shape(D, h, Pool, U, V),
         NEW b \in V, NEW g, g = HandOver(h, b)
  PROVE  Shape(D, g, Pool, U, V) /\ SzSame(D \cup {0}, h, g)
<1>1. PICK Starts, Ends : Starts = FirstIn(Pool) /\ Ends = LastIn(Pool)
  OBVIOUS
<1>2. /\ D \subseteq Nat \ {0} /\ h \in Control(D \cup {0}) /\ Pool \subseteq Nat \X Nat
      /\ Tiles(D, h, Starts, Ends) /\ Flags(D, h, Starts, Ends) /\ FreeApart(D, h, Ends, U)
      /\ Within(D, Pool) /\ Lists(FreeIn(D, h) \ U, h) /\ V = UsedIn(D, h, Ends)
  BY <1>1 DEF Shape
<1>3. b \in D \ Ends /\ Fr(h, b) = 0
  BY <1>2 DEF UsedIn
<1>4. HandedOver(D \cup {0}, h, g, b)
  <2>1. b \in D \cup {0}
    BY <1>3
  <2>2. QED
    BY <1>2, <2>1, HandOverDoes
<1>5. PICK n : n = block_next(h, b)
  OBVIOUS
<1>6. /\ g \in Control(D \cup {0}) /\ BitsSame(h, g)
      /\ \A c \in D : /\ Sz(g, c) = Sz(h, c) /\ Fr(g, c) = Fr(h, c) /\ Pf(g, c) = Pf(h, c)
                      /\ c # b => Nx(g, c) = Nx(h, c) /\ Pv(g, c) = Pv(h, c)
                      /\ c # n => Pp(g, c) = Pp(h, c)
  BY <1>4, <1>5 DEF HandedOver, SzSame, FrSame, PfSame
<1>7. \A c \in D : block_next(g, c) = block_next(h, c)
  BY <1>6 DEF block_next, Sz
<1>8. \A c \in D \ Ends : block_next(h, c) \in D /\ (block_next(h, c) = n => c = b)
  <2>1. \A c \in D \ Ends : block_next(h, c) = n => c = b
    BY <1>2, <1>3, <1>5, NextApart
  <2>2. \A c \in D \ Ends : block_next(h, c) \in D
    BY <1>2 DEF Tiles
  <2>3. QED
    BY <2>1, <2>2
<1>9. Tiles(D, g, Starts, Ends)
  BY <1>2, <1>6, <1>7 DEF Tiles
<1>10. Flags(D, g, Starts, Ends)
  <2>1. Starts \subseteq D /\ Ends \subseteq D
    BY <1>2 DEF Tiles
  <2>2. /\ \A c \in D : Fr(g, c) \in {0, 1}
        /\ \A c \in Ends : Fr(g, c) = 0
        /\ \A c \in Starts : Pf(g, c) = 0
    BY <1>2, <1>6, <2>1 DEF Flags
  <2>3. ASSUME NEW c \in D \ Ends
        PROVE  /\ Pf(g, block_next(g, c)) = Fr(g, c)
               /\ Fr(g, c) = 1 => Pp(g, block_next(g, c)) = c
    <3>1. /\ Pf(h, block_next(h, c)) = Fr(h, c)
          /\ Fr(h, c) = 1 => Pp(h, block_next(h, c)) = c
      BY <1>2 DEF Flags
    <3>2. QED
      BY <1>3, <1>6, <1>7, <1>8, <3>1
  <2>4. QED
    BY <2>2, <2>3 DEF Flags
<1>11. FreeApart(D, g, Ends, U)
  BY <1>2, <1>6, <1>7, <1>8 DEF FreeApart
<1>12. Lists(FreeIn(D, g) \ U, g)
  <2>1. FreeIn(D, g) \ U = FreeIn(D, h) \ U
    BY <1>6 DEF FreeIn
  <2>2. \A c \in FreeIn(D, h) \ U : Sz(g, c) = Sz(h, c) /\ Nx(g, c) = Nx(h, c) /\ Pv(g, c) = Pv(h, c)
    BY <1>3, <1>6 DEF FreeIn
  <2>3. QED
    BY <1>2, <1>6, <2>1, <2>2, ListsUntouched
<1>13. V = UsedIn(D, g, Ends)
  BY <1>2, <1>6 DEF UsedIn
<1>14. QED
  BY <1>1, <1>2, <1>4, <1>6, <1>9, <1>10, <1>11, <1>12, <1>13 DEF Shape, HandedOver

(* The blocks in use stay as large as they are when one is split. *)
LEMMA SplitKeepsUsed ==
  ASSUME NEW D, NEW h, NEW Pool, NEW U, NEW V, Shape(D, h, Pool, U, V),
         NEW b \in D, Fr(h, b) = 1, b \in U,
         NEW size \in Nat, Multiple(size, Word), size >= block_size_min,
         NEW room \in Nat, room = Sz(h, b), room >= size + Word + block_size_min,
         NEW r, r = Remaining(b, size), NEW s, s = block_split(h, b, size),
         NEW g, g = PrevFree(LinkNext(s, b), r) \/ g = LinkNext(PrevFree(s, r), b)
  PROVE  SzSame(V, h, g)
<1>1. PICK Starts, Ends : Starts = FirstIn(Pool) /\ Ends = LastIn(Pool)
  OBVIOUS
<1>2. /\ D \subseteq Nat \ {0} /\ h \in Control(D \cup {0}) /\ Pool \subseteq Nat \X Nat
      /\ Tiles(D, h, Starts, Ends) /\ Flags(D, h, Starts, Ends) /\ FreeApart(D, h, Ends, U)
      /\ Within(D, Pool) /\ Lists(FreeIn(D, h) \ U, h) /\ V = UsedIn(D, h, Ends)
  BY <1>1 DEF Shape
<1>3. PICK w \in Nat : w = Word /\ w > 0 /\ block_size_min = 3 * w
  BY Constants, Sizes
<1>4. b \in D \ Ends /\ b \in Nat
  BY <1>2 DEF Flags
<1>5. PICK n : n = block_next(h, b)
  OBVIOUS
<1>6. n = b + room + w /\ n \in Nat
  BY <1>3, <1>4, <1>5, NextIs
<1>7. r = b + size + w /\ r \in Nat /\ b < r /\ r < n
  <2>1. r = b + 2 * w + size - w
    BY <1>3, Sizes DEF Remaining, Ptr
  <2>2. QED
    BY <1>3, <1>4, <1>6, <2>1
<1>8. /\ n \in D \ Starts
      /\ \A c \in D : c \in Nat /\ (c <= b \/ n <= c)
  BY <1>2, <1>4, <1>5 DEF Tiles
<1>9. r \notin D \cup {0}
  <2>1. r \notin D
    BY <1>4, <1>6, <1>7, <1>8
  <2>2. QED
    BY <1>4, <1>7, <2>1
<1>10. SplitOff(D \cup {0}, h, g, b, size, r)
  <2>1. D \cup {0} \in SUBSET Nat /\ b \in D \cup {0}
    BY <1>2
  <2>2. size >= Word /\ size + Word <= Sz(h, b)
    BY <1>3
  <2>3. QED
    BY <1>2, <1>9, <2>1, <2>2, SplitDoes
<1>11. V \subseteq D \ {b}
  BY <1>2 DEF UsedIn
<1>12. QED
  BY <1>9, <1>10, <1>11 DEF SplitOff, SzSame

(* A free block becomes two. *)
LEMMA SplitShapes ==
  ASSUME NEW D, NEW h, NEW Pool, NEW U, NEW V, Shape(D, h, Pool, U, V),
         NEW b \in D, Fr(h, b) = 1, b \in U,
         NEW size \in Nat, Multiple(size, Word), size >= block_size_min,
         NEW room \in Nat, room = Sz(h, b), room >= size + Word + block_size_min,
         NEW r, r = Remaining(b, size), NEW s, s = block_split(h, b, size),
         NEW g, g = PrevFree(LinkNext(s, b), r) \/ g = LinkNext(PrevFree(s, r), b)
  PROVE  /\ Shape(D \cup {r}, g, Pool, U \cup {r}, V)
         /\ b \in Nat /\ r \in Nat /\ r \notin D \cup {0} /\ r = b + size + Word
         /\ Sz(g, b) = size /\ Sz(g, r) = room - (size + Word)
         /\ block_next(g, b) = r /\ block_next(g, r) = block_next(h, b)
         /\ Fr(g, r) = 1 /\ Pf(g, r) = 1 /\ Pf(g, b) = Pf(h, b)
         /\ \A c \in D : Fr(g, c) = Fr(h, c)
<1> DEFINE R == D \cup {r}
<1>1. PICK Starts, Ends : Starts = FirstIn(Pool) /\ Ends = LastIn(Pool)
  OBVIOUS
<1>2. /\ D \subseteq Nat \ {0} /\ h \in Control(D \cup {0}) /\ Pool \subseteq Nat \X Nat
      /\ Tiles(D, h, Starts, Ends) /\ Flags(D, h, Starts, Ends) /\ FreeApart(D, h, Ends, U)
      /\ Within(D, Pool) /\ Lists(FreeIn(D, h) \ U, h) /\ V = UsedIn(D, h, Ends)
  BY <1>1 DEF Shape
<1>3. PICK w \in Nat : w = Word /\ w > 0 /\ block_size_min = 3 * w
  BY Constants, Sizes
<1>4. b \in D \ Ends /\ b \in Nat
  BY <1>2 DEF Flags
<1>5. PICK n : n = block_next(h, b)
  OBVIOUS
<1>6. n = b + room + w /\ n \in Nat
  BY <1>3, <1>4, <1>5, NextIs
<1>7. r = b + size + w /\ r \in Nat /\ b < r /\ r < n
  <2>1. r = b + 2 * w + size - w
    BY <1>3, Sizes DEF Remaining, Ptr
  <2>2. QED
    BY <1>3, <1>4, <1>6, <2>1
<1>8. /\ n \in D \ Starts
      /\ \A c \in D : c \in Nat /\ (c <= b \/ n <= c)
  BY <1>2, <1>4, <1>5 DEF Tiles
<1>9. r \notin D \cup {0}
  <2>1. r \notin D
    BY <1>4, <1>6, <1>7, <1>8
  <2>2. QED
    BY <1>4, <1>7, <2>1
<1>10. SplitOff(D \cup {0}, h, g, b, size, r)
  <2>1. D \cup {0} \in SUBSET Nat /\ b \in D \cup {0}
    BY <1>2
  <2>2. size >= Word /\ size + Word <= Sz(h, b)
    BY <1>3
  <2>3. QED
    BY <1>2, <1>9, <2>1, <2>2, SplitDoes
<1>11. g \in Control(R \cup {0}) /\ BitsSame(h, g)
  <2>1. (D \cup {0}) \cup {r} = R \cup {0}
    OBVIOUS
  <2>2. QED
    BY <1>10, <2>1 DEF SplitOff
<1>12. /\ Sz(g, b) = size /\ Sz(g, r) = room - (size + w)
       /\ Fr(g, r) = 1 /\ Pf(g, r) = 1 /\ Pp(g, r) = b
       /\ Pf(g, n) = 1 /\ Pp(g, n) = r
       /\ \A c \in D : /\ c # b => Sz(g, c) = Sz(h, c)
                       /\ Nx(g, c) = Nx(h, c) /\ Pv(g, c) = Pv(h, c)
                       /\ Fr(g, c) = Fr(h, c)
                       /\ c # n => Pf(g, c) = Pf(h, c) /\ Pp(g, c) = Pp(h, c)
  BY <1>3, <1>5, <1>8, <1>9, <1>10 DEF SplitOff
<1>13. block_next(g, b) = r /\ block_next(g, r) = n
  <2>1. block_next(g, b) = b + size + w
    BY <1>3, <1>4, <1>12, NextIs
  <2>2. room - (size + w) \in Nat
    BY <1>3
  <2>3. block_next(g, r) = r + (room - (size + w)) + w
    BY <1>3, <1>7, <1>12, <2>2, NextIs
  <2>4. QED
    BY <1>3, <1>4, <1>6, <1>7, <2>1, <2>3
<1>14. \A c \in D \ {b} : block_next(g, c) = block_next(h, c)
  BY <1>12 DEF block_next, Sz
<1>15. \A c \in D \ Ends : block_next(h, c) = n => c = b
  BY <1>2, <1>4, <1>5, NextApart
<1>16. Starts \subseteq D /\ Ends \subseteq D
  BY <1>2 DEF Tiles
<1> HIDE DEF R
<1>17. Tiles(R, g, Starts, Ends)
  <2>1. Starts \subseteq R /\ Ends \subseteq R
    BY <1>16 DEF R
  <2>2. ASSUME NEW x \in R
        PROVE  /\ Multiple(x, Word) /\ Multiple(Sz(g, x), Word)
               /\ x \in Ends => Sz(g, x) = 0
               /\ x \notin Ends => Sz(g, x) >= block_size_min
    <3>1. Word \in Nat /\ Multiple(Word, Word) /\ Multiple(b, Word) /\ Multiple(room, Word)
      BY <1>2, Constants, Sizes DEF Tiles
    <3>2. Multiple(b + size, Word) /\ Multiple(size + w, Word)
      BY <1>3, <3>1, MultiplesSum
    <3>3. CASE x = r
      <4>1. Multiple(b + size + w, Word)
        BY <1>3, <3>1, <3>2, MultiplesSum
      <4>2. Multiple(room - (size + w), Word)
        <5>1. room >= size + w
          BY <1>3
        <5>2. QED
          BY <3>1, <3>2, <5>1, MultiplesSum
      <4>3. room - (size + w) >= block_size_min
        BY <1>3
      <4>4. r \notin Ends
        BY <1>9, <1>16
      <4>5. QED
        BY <1>7, <1>12, <3>3, <4>1, <4>2, <4>3, <4>4
    <3>4. CASE x = b
      BY <1>4, <1>12, <3>1, <3>4
    <3>5. CASE x # r /\ x # b
      <4>1. x \in D
        BY <3>5 DEF R
      <4>2. QED
        BY <1>2, <1>12, <3>5, <4>1 DEF Tiles
    <3>6. QED
      BY <3>3, <3>4, <3>5
  <2>3. ASSUME NEW x \in R \ Ends
        PROVE  block_next(g, x) \in R \ Starts /\ \A y \in R : y <= x \/ block_next(g, x) <= y
    <3>1. CASE x = b
      <4>1. r \in R \ Starts
        BY <1>9, <1>16 DEF R
      <4>2. ASSUME NEW y \in R PROVE y <= b \/ r <= y
        BY <1>4, <1>6, <1>7, <1>8 DEF R
      <4>3. QED
        BY <1>13, <3>1, <4>1, <4>2
    <3>2. CASE x = r
      <4>1. n \in R \ Starts
        BY <1>8 DEF R
      <4>2. ASSUME NEW y \in R PROVE y <= r \/ n <= y
        BY <1>4, <1>6, <1>7, <1>8 DEF R
      <4>3. QED
        BY <1>13, <3>2, <4>1, <4>2
    <3>3. CASE x # b /\ x # r
      <4>1. x \in D \ Ends /\ x \in Nat
        BY <1>8, <3>3 DEF R
      <4>2. PICK nx : nx = block_next(h, x)
        OBVIOUS
      <4>3. block_next(g, x) = nx /\ nx \in D \ Starts /\ \A y \in D : y <= x \/ nx <= y
        BY <1>2, <1>14, <3>3, <4>1, <4>2 DEF Tiles
      <4>4. r <= x \/ nx <= r
        <5>1. (b <= x \/ nx <= b) /\ (x <= b \/ n <= x) /\ nx \in Nat
          BY <1>4, <1>8, <4>1, <4>3
        <5>2. QED
          BY <1>4, <1>6, <1>7, <3>3, <4>1, <5>1
      <4>5. QED
        BY <4>3, <4>4 DEF R
    <3>4. QED
      BY <3>1, <3>2, <3>3
  <2>4. ASSUME NEW x \in R \ Starts PROVE \E p \in R \ Ends : block_next(g, p) = x
    <3>1. CASE x = r
      <4>1. b \in R \ Ends
        BY <1>4 DEF R
      <4>2. QED
        BY <1>13, <3>1, <4>1
    <3>2. CASE x # r
      <4>1. PICK p \in D \ Ends : block_next(h, p) = x
        BY <1>2, <3>2 DEF Tiles, R
      <4>2. CASE p = b
        <5>1. r \in R \ Ends /\ x = n
          BY <1>5, <1>9, <1>16, <4>1, <4>2 DEF R
        <5>2. QED
          BY <1>13, <5>1
      <4>3. CASE p # b
        BY <1>14, <4>1, <4>3 DEF R
      <4>4. QED
        BY <4>2, <4>3
    <3>3. QED
      BY <3>1, <3>2
  <2>5. QED
    BY <2>1, <2>2, <2>3, <2>4 DEF Tiles
<1>18. Flags(R, g, Starts, Ends)
  <2>1. \A c \in R : Fr(g, c) \in {0, 1}
    BY <1>2, <1>12 DEF Flags, R
  <2>2. \A c \in Ends : Fr(g, c) = 0
    BY <1>2, <1>12, <1>16 DEF Flags
  <2>3. \A c \in Starts : Pf(g, c) = 0
    BY <1>2, <1>8, <1>12, <1>16 DEF Flags
  <2>4. ASSUME NEW x \in R \ Ends
        PROVE  /\ Pf(g, block_next(g, x)) = Fr(g, x)
               /\ Fr(g, x) = 1 => Pp(g, block_next(g, x)) = x
    <3>1. CASE x = b
      BY <1>4, <1>12, <1>13, <3>1
    <3>2. CASE x = r
      BY <1>12, <1>13, <3>2
    <3>3. CASE x # b /\ x # r
      <4>1. x \in D \ Ends
        BY <3>3 DEF R
      <4>2. block_next(g, x) = block_next(h, x) /\ block_next(h, x) # n /\ block_next(h, x) \in D
        BY <1>2, <1>14, <1>15, <3>3, <4>1 DEF Tiles
      <4>3. /\ Pf(h, block_next(h, x)) = Fr(h, x)
            /\ Fr(h, x) = 1 => Pp(h, block_next(h, x)) = x
        BY <1>2, <4>1 DEF Flags
      <4>4. QED
        BY <1>12, <4>1, <4>2, <4>3
    <3>4. QED
      BY <3>1, <3>2, <3>3
  <2>5. QED
    BY <2>1, <2>2, <2>3, <2>4 DEF Flags
<1>19. FreeApart(R, g, Ends, U \cup {r})
  <2>1. SUFFICES ASSUME NEW x \in R \ Ends, Fr(g, x) = 1, Fr(g, block_next(g, x)) = 1
                 PROVE  x \in U \cup {r} \/ block_next(g, x) \in U \cup {r}
    BY DEF FreeApart
  <2>2. CASE x # b /\ x # r
    <3>1. x \in D \ Ends
      BY <2>2 DEF R
    <3>2. block_next(g, x) = block_next(h, x) /\ block_next(h, x) \in D
      BY <1>2, <1>14, <2>2, <3>1 DEF Tiles
    <3>3. Fr(h, x) = 1 /\ Fr(h, block_next(h, x)) = 1
      BY <1>12, <2>1, <3>1, <3>2
    <3>4. QED
      BY <1>2, <3>1, <3>2, <3>3 DEF FreeApart
  <2>3. QED
    BY <2>2
<1>20. Within(R, Pool)
  <2>1. PICK p \in Pool : p[1] <= b /\ b <= p[2] /\ p[2] < p[1] + Word + block_size_max
    BY <1>2 DEF Within
  <2>2. p[1] \in Nat /\ p[2] \in Nat /\ p[2] \in Ends
    BY <1>1, <1>2 DEF LastIn
  <2>3. p[2] # b /\ n <= p[2]
    BY <1>4, <1>8, <1>16, <2>1, <2>2
  <2>4. p[1] <= r /\ r <= p[2]
    BY <1>4, <1>6, <1>7, <2>1, <2>2, <2>3
  <2>5. QED
    BY <1>2, <2>1, <2>4 DEF Within, R
<1>21. Lists(FreeIn(R, g) \ (U \cup {r}), g)
  <2>1. FreeIn(R, g) \ (U \cup {r}) = FreeIn(D, h) \ U
    BY <1>9, <1>12 DEF FreeIn, R
  <2>2. \A c \in FreeIn(D, h) \ U : Sz(g, c) = Sz(h, c) /\ Nx(g, c) = Nx(h, c) /\ Pv(g, c) = Pv(h, c)
    BY <1>12 DEF FreeIn
  <2>3. QED
    BY <1>2, <1>11, <2>1, <2>2, ListsUntouched
<1>22. V = UsedIn(R, g, Ends)
  <2>1. Fr(g, r) # 0 /\ r \notin Ends
    BY <1>9, <1>12, <1>16
  <2>2. \A c : c \in UsedIn(D, h, Ends) <=> c \in UsedIn(R, g, Ends)
    BY <1>12, <2>1 DEF UsedIn, R
  <2>3. QED
    BY <1>2, <2>2
<1>23. R \subseteq Nat \ {0}
  BY <1>2, <1>7, <1>9 DEF R
<1>24. Shape(R, g, Pool, U \cup {r}, V)
  BY <1>1, <1>2, <1>11, <1>17, <1>18, <1>19, <1>20, <1>21, <1>22, <1>23 DEF Shape
<1>25. b # n
  BY <1>4, <1>6, <1>7
<1>26. QED
  BY <1>3, <1>4, <1>5, <1>7, <1>9, <1>12, <1>13, <1>24, <1>25 DEF R

(* What a block knows of its neighbours is true. *)
LEMMA NextOfFree ==
  ASSUME NEW D, NEW h, NEW Pool, NEW U, NEW V, Shape(D, h, Pool, U, V),
         NEW b \in D, Fr(h, b) = 1
  PROVE  /\ b \in D \ LastIn(Pool) /\ block_next(h, b) \in D \ FirstIn(Pool)
         /\ b \in Nat /\ block_next(h, b) \in Nat /\ b < block_next(h, b)
         /\ Fr(h, block_next(h, b)) \in {0, 1}
<1>1. PICK Starts, Ends : Starts = FirstIn(Pool) /\ Ends = LastIn(Pool)
  OBVIOUS
<1>2. /\ D \subseteq Nat \ {0} /\ h \in Control(D \cup {0})
      /\ Tiles(D, h, Starts, Ends) /\ Flags(D, h, Starts, Ends)
  BY <1>1 DEF Shape
<1>3. b \in D \ Ends
  BY <1>2 DEF Flags
<1>4. block_next(h, b) \in D \ Starts
  BY <1>2, <1>3 DEF Tiles
<1>5. \A x \in D \ Ends : x < block_next(h, x)
  BY <1>2, NextAbove
<1>6. Fr(h, block_next(h, b)) \in {0, 1}
  BY <1>2, <1>4 DEF Flags
<1>7. QED
  BY <1>1, <1>2, <1>3, <1>4, <1>5, <1>6

LEMMA PrevOfBlock ==
  ASSUME NEW D, NEW h, NEW Pool, NEW U, NEW V, Shape(D, h, Pool, U, V), NEW b \in D
  PROVE  \/ Pf(h, b) = 0
         \/ /\ Pf(h, b) = 1
            /\ \E q \in D \ LastIn(Pool) :
                 /\ block_next(h, q) = b /\ Fr(h, q) = 1 /\ Pp(h, b) = q
                 /\ q \in Nat /\ b \in Nat /\ q < b
<1>1. PICK Starts, Ends : Starts = FirstIn(Pool) /\ Ends = LastIn(Pool)
  OBVIOUS
<1>2. /\ D \subseteq Nat \ {0} /\ h \in Control(D \cup {0})
      /\ Tiles(D, h, Starts, Ends) /\ Flags(D, h, Starts, Ends)
  BY <1>1 DEF Shape
<1>3. \A x \in D \ Ends : x < block_next(h, x)
  BY <1>2, NextAbove
<1>4. CASE b \in Starts
  BY <1>2, <1>4 DEF Flags
<1>5. CASE b \notin Starts
  <2>1. PICK q \in D \ Ends : block_next(h, q) = b
    BY <1>2, <1>5 DEF Tiles
  <2>2. /\ Pf(h, b) = Fr(h, q) /\ (Fr(h, q) = 1 => Pp(h, b) = q)
        /\ Fr(h, q) \in {0, 1}
    BY <1>2, <2>1 DEF Flags
  <2>3. q \in Nat /\ b \in Nat /\ q < b
    BY <1>2, <1>3, <2>1
  <2>4. QED
    BY <1>1, <2>1, <2>2, <2>3
<1>6. QED
  BY <1>4, <1>5

(* A free block between used ones may enter a list. *)
LEMMA AloneIsApart ==
  ASSUME NEW D, NEW h, NEW Pool, NEW U, NEW V, Shape(D, h, Pool, U, V),
         NEW b \in D, Pf(h, b) = 0, Fr(h, block_next(h, b)) = 0
  PROVE  FreeApart(D, h, LastIn(Pool), U \ {b})
<1>1. PICK Starts, Ends : Starts = FirstIn(Pool) /\ Ends = LastIn(Pool)
  OBVIOUS
<1>2. Flags(D, h, Starts, Ends) /\ FreeApart(D, h, Ends, U)
  BY <1>1 DEF Shape
<1>3. SUFFICES ASSUME NEW c \in D \ Ends, Fr(h, c) = 1, Fr(h, block_next(h, c)) = 1
               PROVE  c \in U \ {b} \/ block_next(h, c) \in U \ {b}
  BY <1>1 DEF FreeApart
<1>4. c # b
  BY <1>3
<1>5. block_next(h, c) # b
  BY <1>2, <1>3 DEF Flags
<1>6. QED
  BY <1>2, <1>3, <1>4, <1>5 DEF FreeApart

(* A block in use is a block, and not a free one. *)
LEMMA UsedOnes ==
  ASSUME NEW D, NEW h, NEW Pool, NEW U, NEW V, Shape(D, h, Pool, U, V)
  PROVE  V \subseteq D /\ \A c \in V : Fr(h, c) # 1 /\ c # 0
<1>1. V \subseteq D /\ \A c \in V : Fr(h, c) = 0
  BY DEF Shape, UsedIn
<1>2. D \subseteq Nat \ {0}
  BY DEF Shape
<1>3. QED
  BY <1>1, <1>2

LEMMA MergePrevShapes ==
  ASSUME NEW D, NEW h, NEW Pool, NEW V, NEW b \in D, Shape(D, h, Pool, {b}, V), Fr(h, b) = 1,
         NEW p, p = PrevOrSelf(h, b), NEW g, g = block_merge_prev(h, b)
  PROVE  /\ \E E : Shape(E, g, Pool, {p}, V) /\ p \in E /\ Fr(g, p) = 1 /\ Pf(g, p) = 0
         /\ SzSame(V, h, g)
<1>1. CASE Pf(h, b) = 0
  <2>1. p = b /\ g = h
    BY <1>1 DEF PrevOrSelf, block_merge_prev, Pf
  <2>2. QED
    BY <1>1, <2>1 DEF SzSame
<1>2. CASE Pf(h, b) = 1
  <2>1. PICK q \in D \ LastIn(Pool) :
               /\ block_next(h, q) = b /\ Fr(h, q) = 1 /\ Pp(h, b) = q
               /\ q \in Nat /\ b \in Nat /\ q < b
    BY <1>2, PrevOfBlock
  <2>2. p = q
    BY <1>2, <2>1 DEF PrevOrSelf, Pf, Pp
  <2>3. PICK f : f = remove_free_block(h, q, At(h, q))
    OBVIOUS
  <2>4. g = block_absorb(f, q, b)
    BY <1>2, <2>1, <2>3 DEF block_merge_prev, block_remove, Pf, Pp, At, Sz
  <2>5. Shape(D, f, Pool, {b} \cup {q}, V) /\ PhysSame(D \cup {0}, h, f)
    <3>1. PICK S : S = {b}
      OBVIOUS
    <3>2. Shape(D, h, Pool, S, V) /\ q \in D /\ Fr(h, q) = 1 /\ q \notin S
      BY <2>1, <3>1
    <3>3. Shape(D, f, Pool, S \cup {q}, V) /\ PhysSame(D \cup {0}, h, f)
      BY <2>3, <3>2, RemoveShapes
    <3>4. QED
      BY <3>1, <3>3
  <2>6. PICK U : U = {b} \cup {q}
    OBVIOUS
  <2>7. /\ Fr(f, q) = 1 /\ Fr(f, b) = 1 /\ Pf(f, q) = Pf(h, q)
        /\ b = block_next(f, q)
    BY <2>1, <2>5, NextSame DEF PhysSame, FrSame, PfSame
  <2>8. /\ Shape(D \ {b}, g, Pool, U \ {b}, V) /\ q \in D \ {b}
        /\ Fr(g, q) = 1 /\ Pf(g, q) = Pf(h, q)
        /\ SzSame(D \ {b, q}, f, g)
    <3>1. Shape(D, f, Pool, U, V) /\ q \in U /\ b \in U
      BY <2>5, <2>6
    <3>2. /\ Shape(D \ {b}, g, Pool, U \ {b}, V) /\ q \in D \ {b}
          /\ \A x \in D \ {b} : /\ Fr(g, x) = Fr(f, x) /\ Pf(g, x) = Pf(f, x)
                                /\ x # q => Sz(g, x) = Sz(f, x)
      BY <2>1, <2>4, <2>7, <3>1, AbsorbShapes
    <3>3. \A x \in D \ {b, q} : Sz(g, x) = Sz(f, x)
      BY <3>2
    <3>4. Fr(g, q) = 1 /\ Pf(g, q) = Pf(h, q)
      BY <2>7, <3>2
    <3>5. QED
      BY <3>2, <3>3, <3>4 DEF SzSame
  <2>9. U \ {b} = {q}
    BY <2>1, <2>6
  <2>10. Pf(h, q) = 0
    <3>1. SUFFICES ASSUME Pf(h, q) # 0 PROVE FALSE
      OBVIOUS
    <3>2. PICK o \in D \ LastIn(Pool) :
                 block_next(h, o) = q /\ Fr(h, o) = 1 /\ o \in Nat /\ o < q
      BY <2>1, <3>1, PrevOfBlock
    <3>3. o \in {b} \/ q \in {b}
      BY <2>1, <3>2 DEF Shape, FreeApart
    <3>4. QED
      BY <2>1, <3>2, <3>3
  <2>11. SzSame(V, h, g)
    <3>1. V \subseteq D /\ b \notin V /\ q \notin V
      BY <2>1, UsedOnes
    <3>2. QED
      BY <2>5, <2>8, <3>1 DEF PhysSame, SzSame
  <2>12. QED
    BY <2>2, <2>8, <2>9, <2>10, <2>11
<1>3. QED
  BY <1>1, <1>2, PrevOfBlock

(* The blocks are in shape, and b is free between used ones. *)
FreeAlone(E, g, Pool, b, V) ==
  /\ Shape(E, g, Pool, {b}, V) /\ b \in E /\ Fr(g, b) = 1 /\ Pf(g, b) = 0
  /\ Fr(g, block_next(g, b)) = 0

LEMMA MergeNextShapes ==
  ASSUME NEW D, NEW h, NEW Pool, NEW V, NEW b \in D, Shape(D, h, Pool, {b}, V), Fr(h, b) = 1,
         Pf(h, b) = 0, NEW g, g = block_merge_next(h, b)
  PROVE  SzSame(V, h, g) /\ \E E : FreeAlone(E, g, Pool, b, V)
<1>1. PICK n : n = block_next(h, b)
  OBVIOUS
<1>2. /\ b \in D \ LastIn(Pool) /\ n \in D \ FirstIn(Pool)
      /\ b \in Nat /\ n \in Nat /\ b < n /\ Fr(h, n) \in {0, 1}
  BY <1>1, NextOfFree
<1>3. CASE Fr(h, n) = 0
  <2>1. g = h
    BY <1>1, <1>3 DEF block_merge_next, Fr
  <2>2. QED
    BY <1>1, <1>3, <2>1 DEF FreeAlone, SzSame
<1>4. CASE Fr(h, n) = 1
  <2>1. PICK f : f = remove_free_block(h, n, At(h, n))
    OBVIOUS
  <2>2. g = block_absorb(f, b, n)
    BY <1>1, <1>4, <2>1 DEF block_merge_next, block_remove, Fr, At, Sz
  <2>3. PICK U : U = {b} \cup {n}
    OBVIOUS
  <2>4. Shape(D, f, Pool, U, V) /\ PhysSame(D \cup {0}, h, f)
    <3>1. n \notin {b}
      BY <1>2
    <3>2. Shape(D, f, Pool, {b} \cup {n}, V) /\ PhysSame(D \cup {0}, h, f)
      BY <1>2, <1>4, <2>1, <3>1, RemoveShapes
    <3>3. QED
      BY <2>3, <3>2
  <2>5. PICK m : m = block_next(h, n)
    OBVIOUS
  <2>6. m \in D \ FirstIn(Pool) /\ m \in Nat /\ n < m /\ Fr(h, m) \in {0, 1} /\ n \in D \ LastIn(Pool)
    BY <1>2, <1>4, <2>5, NextOfFree
  <2>7. /\ Fr(f, b) = 1 /\ Fr(f, n) = 1 /\ Pf(f, b) = 0 /\ Fr(f, m) = Fr(h, m)
        /\ block_next(f, b) = n /\ block_next(f, n) = m
    BY <1>1, <1>2, <1>4, <2>4, <2>5, <2>6, NextSame DEF PhysSame, FrSame, PfSame
  <2>8. /\ Shape(D \ {n}, g, Pool, U \ {n}, V) /\ b \in D \ {n}
        /\ \A x \in D \ {n} : /\ Fr(g, x) = Fr(f, x) /\ Pf(g, x) = Pf(f, x)
                              /\ x # b => Sz(g, x) = Sz(f, x)
        /\ block_next(g, b) = block_next(f, n)
    <3>1. b \in U /\ n \in U
      BY <2>3
    <3>2. QED
      BY <1>2, <2>2, <2>4, <2>7, <3>1, AbsorbShapes
  <2>9. U \ {n} = {b}
    BY <1>2, <2>3
  <2>10. Fr(h, m) = 0
    <3>1. SUFFICES ASSUME Fr(h, m) = 1 PROVE FALSE
      BY <2>6
    <3>2. n \in {b} \/ m \in {b}
      BY <1>4, <2>5, <2>6, <3>1 DEF Shape, FreeApart
    <3>3. QED
      BY <1>2, <2>6, <3>2
  <2>11. m \in D \ {n}
    BY <1>2, <2>6
  <2>12. SzSame(V, h, g)
    <3>1. V \subseteq D /\ b \notin V /\ n \notin V
      BY <1>2, <1>4, UsedOnes
    <3>2. \A x \in D : Sz(f, x) = Sz(h, x)
      BY <2>4 DEF PhysSame, SzSame
    <3>3. \A x \in D \ {n} : x # b => Sz(g, x) = Sz(f, x)
      BY <2>8
    <3>4. QED
      BY <3>1, <3>2, <3>3 DEF SzSame
  <2>13. FreeAlone(D \ {n}, g, Pool, b, V)
    <3>1. Fr(g, b) = 1 /\ Pf(g, b) = 0 /\ Fr(g, m) = 0 /\ block_next(g, b) = m
      BY <2>7, <2>8, <2>10, <2>11
    <3>2. Shape(D \ {n}, g, Pool, {b}, V) /\ b \in D \ {n}
      BY <2>8, <2>9
    <3>3. QED
      BY <3>1, <3>2 DEF FreeAlone
  <2>14. QED
    BY <2>12, <2>13
<1>5. QED
  BY <1>2, <1>3, <1>4

LEMMA FreeKeepsShape ==
  ASSUME NEW D, NEW h, NEW Pool, NEW V, Shape(D, h, Pool, {}, V),
         NEW b \in V, NEW g, g = tlsf_free(h, Ptr(b))
  PROVE  SzSame(V \ {b}, h, g) /\ \E E : Shape(E, g, Pool, {}, V \ {b})
<1>1. b \in D /\ b \in Nat
  BY DEF Shape, UsedIn
<1>2. Block(Ptr(b)) = b
  <2>1. PICK w \in Nat : w = Word
    BY Constants
  <2>2. Block(Ptr(b)) = (b + 2 * w) - 2 * w
    BY <1>1, <2>1 DEF Block, Ptr
  <2>3. QED
    BY <1>1, <2>1, <2>2
<1>3. PICK f : f = MarkAsFree(h, b)
  OBVIOUS
<1>4. PICK p : p = PrevOrSelf(f, b)
  OBVIOUS
<1>5. PICK k : k = block_merge_prev(f, b)
  OBVIOUS
<1>6. PICK l : l = block_merge_next(k, p)
  OBVIOUS
<1>7. g = block_insert(l, p)
  BY <1>2, <1>3, <1>4, <1>5, <1>6 DEF tlsf_free
<1>8. PICK W : W = V \ {b}
  OBVIOUS
<1>9. Shape(D, f, Pool, {b}, W) /\ Fr(f, b) = 1 /\ SzSame(D, h, f)
  <2>1. Shape(D, f, Pool, {} \cup {b}, V \ {b}) /\ MarkedFree(D \cup {0}, h, f, b)
    BY <1>3, FreeShapes
  <2>2. {} \cup {b} = {b}
    OBVIOUS
  <2>3. QED
    BY <1>1, <1>8, <2>1, <2>2 DEF MarkedFree, SzSame
<1>10. SzSame(W, f, k) /\ SzSame(W, k, l)
  <2>1. SzSame(W, f, k) /\ \E A : Shape(A, k, Pool, {p}, W) /\ p \in A /\ Fr(k, p) = 1 /\ Pf(k, p) = 0
    BY <1>1, <1>4, <1>5, <1>9, MergePrevShapes
  <2>2. QED
    BY <1>6, <2>1, MergeNextShapes
<1>11. PICK A : Shape(A, k, Pool, {p}, W) /\ p \in A /\ Fr(k, p) = 1 /\ Pf(k, p) = 0
  BY <1>1, <1>4, <1>5, <1>9, MergePrevShapes
<1>12. PICK B : FreeAlone(B, l, Pool, p, W)
  BY <1>6, <1>11, MergeNextShapes
<1>13. FreeApart(B, l, LastIn(Pool), {p} \ {p})
  BY <1>12, AloneIsApart DEF FreeAlone
<1>14. Shape(B, g, Pool, {p} \ {p}, W) /\ PhysSame(B \cup {0}, l, g)
  BY <1>7, <1>12, <1>13, InsertShapes DEF FreeAlone
<1>15. {p} \ {p} = {}
  OBVIOUS
<1>16. SzSame(W, h, g)
  <2>1. W \subseteq D /\ W \subseteq B
    BY <1>9, <1>14, UsedOnes
  <2>2. QED
    BY <1>9, <1>14, <1>10, <2>1 DEF PhysSame, SzSame
<1>17. QED
  BY <1>8, <1>14, <1>15, <1>16

(* The blocks are in shape, and b is free, in no list, before a used one. *)
Taken(D, h, Pool, b, V) ==
  /\ Shape(D, h, Pool, {b}, V) /\ b \in D /\ Fr(h, b) = 1 /\ Fr(h, block_next(h, b)) = 0

LEMMA LeadShapes ==
  ASSUME NEW D, NEW h, NEW Pool, NEW V, NEW b, FreeAlone(D, h, Pool, b, V),
         NEW gap \in Nat, Multiple(gap, Word), gap >= header_size,
         NEW room \in Nat, room = Sz(h, b), room >= header_size + gap,
         NEW lead, lead = block_trim_free_leading(h, b, gap)
  PROVE  \E E : Taken(E, lead.h, Pool, lead.block, V) /\ Sz(lead.h, lead.block) = room - gap
                /\ lead.block = b + gap /\ lead.block \in Nat /\ SzSame(V, h, lead.h)
<1>1. PICK w \in Nat : w = Word /\ w > 0 /\ block_size_min = 3 * w /\ header_size = 4 * w
                       /\ overhead = w
  BY Constants, Sizes
<1>2. /\ Shape(D, h, Pool, {b}, V) /\ b \in D /\ Fr(h, b) = 1 /\ Pf(h, b) = 0
      /\ Fr(h, block_next(h, b)) = 0
  BY DEF FreeAlone
<1>3. PICK size \in Nat : size = gap - w
  BY <1>1
<1>4. size \in Nat /\ Multiple(size, Word) /\ size >= block_size_min
      /\ room >= size + Word + block_size_min
  <2>1. gap >= w /\ Multiple(Word, Word) /\ Word \in Nat
    BY <1>1, Sizes
  <2>2. Multiple(gap - w, Word)
    BY <1>1, <2>1, MultiplesSum
  <2>3. QED
    BY <1>1, <1>3, <2>2
<1>5. PICK r, s : r = Remaining(b, size) /\ s = block_split(h, b, size)
  OBVIOUS
<1>6. PICK k : k = LinkNext(PrevFree(s, r), b)
  OBVIOUS
<1>7. PICK g : g = block_insert(k, b)
  OBVIOUS
<1>8. lead = [block |-> r, h |-> g]
  <2>1. block_can_split(h, b, gap)
    BY DEF block_can_split, Sz
  <2>2. gap - overhead = size
    BY <1>1, <1>3
  <2>3. QED
    BY <1>5, <1>6, <1>7, <2>1, <2>2 DEF block_trim_free_leading
<1>9. PICK n : n = block_next(h, b)
  OBVIOUS
<1>10. PICK U : U = {b} \cup {r}
  OBVIOUS
<1>11. PICK E : E = D \cup {r}
  OBVIOUS
<1>12. /\ Shape(E, k, Pool, U, V)
       /\ b \in Nat /\ r \in Nat /\ r \notin D \cup {0} /\ r = b + size + Word
       /\ Sz(k, r) = room - (size + Word)
       /\ block_next(k, b) = r /\ block_next(k, r) = n
       /\ Fr(k, r) = 1 /\ Pf(k, b) = 0
       /\ SzSame(V, h, k) /\ \A c \in D : Fr(k, c) = Fr(h, c)
  <2>1. b \in {b}
    OBVIOUS
  <2>2. /\ Shape(D \cup {r}, k, Pool, {b} \cup {r}, V)
        /\ b \in Nat /\ r \in Nat /\ r \notin D \cup {0} /\ r = b + size + Word
        /\ Sz(k, b) = size /\ Sz(k, r) = room - (size + Word)
        /\ block_next(k, b) = r /\ block_next(k, r) = block_next(h, b)
        /\ Fr(k, r) = 1 /\ Pf(k, r) = 1 /\ Pf(k, b) = Pf(h, b)
        /\ \A c \in D : Fr(k, c) = Fr(h, c)
    <3>1. k = PrevFree(LinkNext(s, b), r) \/ k = LinkNext(PrevFree(s, r), b)
      BY <1>6
    <3>2. QED
      BY <1>2, <1>4, <1>5, <2>1, <3>1, SplitShapes
  <2>3. SzSame(V, h, k)
    <3>1. k = PrevFree(LinkNext(s, b), r) \/ k = LinkNext(PrevFree(s, r), b)
      BY <1>6
    <3>2. QED
      BY <1>2, <1>4, <1>5, <2>1, <3>1, SplitKeepsUsed
  <2>4. QED
    BY <1>2, <1>9, <1>10, <1>11, <2>2, <2>3
<1>13. n \in D /\ Fr(k, n) = 0
  <2>1. n \in D
    BY <1>2, <1>9, NextOfFree
  <2>2. QED
    BY <1>2, <1>9, <1>12, <2>1
<1>14. b # r /\ b \in E /\ r \in E /\ b \in U /\ Fr(k, b) = 1
  BY <1>2, <1>10, <1>11, <1>12
<1>15. U \ {b} = {r}
  BY <1>10, <1>14
<1>16. FreeApart(E, k, LastIn(Pool), U \ {b})
  <2>1. PICK Starts, Ends : Starts = FirstIn(Pool) /\ Ends = LastIn(Pool)
    OBVIOUS
  <2>2. Flags(E, k, Starts, Ends) /\ FreeApart(E, k, Ends, U)
    BY <1>12, <2>1 DEF Shape
  <2>3. SUFFICES ASSUME NEW c \in E \ Ends, Fr(k, c) = 1, Fr(k, block_next(k, c)) = 1
                 PROVE  c \in {r} \/ block_next(k, c) \in {r}
    BY <1>15, <2>1 DEF FreeApart
  <2>4. c \in U \/ block_next(k, c) \in U
    BY <2>2, <2>3 DEF FreeApart
  <2>5. block_next(k, c) # b
    BY <1>12, <2>2, <2>3 DEF Flags
  <2>6. QED
    BY <1>10, <1>12, <2>4, <2>5
<1>17. Shape(E, g, Pool, {r}, V) /\ PhysSame(E \cup {0}, k, g)
  <2>1. Shape(E, g, Pool, U \ {b}, V) /\ PhysSame(E \cup {0}, k, g)
    BY <1>7, <1>12, <1>14, <1>16, InsertShapes
  <2>2. QED
    BY <1>15, <2>1
<1>18. /\ block_next(g, r) = n /\ n \in E /\ Fr(g, n) = 0 /\ Fr(g, r) = 1 /\ Sz(g, r) = Sz(k, r)
  BY <1>11, <1>12, <1>13, <1>14, <1>17, NextSame DEF PhysSame, FrSame, SzSame
<1>19. Taken(E, g, Pool, r, V)
  BY <1>14, <1>17, <1>18 DEF Taken
<1>20. room - (size + Word) = room - gap /\ r = b + gap
  BY <1>1, <1>3, <1>12
<1>21. lead.h = g /\ lead.block = r
  BY <1>8
<1>22. SzSame(V, h, g)
  <2>1. V \subseteq D
    BY <1>2, UsedOnes
  <2>2. \A c \in D : Sz(g, c) = Sz(k, c)
    BY <1>11, <1>17 DEF PhysSame, SzSame
  <2>3. \A c \in V : Sz(k, c) = Sz(h, c)
    BY <1>12 DEF SzSame
  <2>4. QED
    BY <2>1, <2>2, <2>3 DEF SzSame
<1>23. QED
  BY <1>12, <1>18, <1>19, <1>20, <1>21, <1>22

LEMMA TrimShapes ==
  ASSUME NEW D, NEW h, NEW Pool, NEW V, NEW b, Taken(D, h, Pool, b, V),
         NEW size \in Nat, Multiple(size, Word), size >= block_size_min,
         NEW g, g = block_trim_free(h, b, size)
  PROVE  /\ \E E : Shape(E, g, Pool, {b}, V) /\ b \in E /\ Fr(g, b) = 1
         /\ SzSame(V, h, g)
<1>1. PICK w \in Nat : w = Word /\ w > 0 /\ block_size_min = 3 * w /\ header_size = 4 * w
                       /\ overhead = w
  BY Constants, Sizes
<1>2. Shape(D, h, Pool, {b}, V) /\ b \in D /\ Fr(h, b) = 1 /\ Fr(h, block_next(h, b)) = 0
  BY DEF Taken
<1>3. CASE ~block_can_split(h, b, size)
  <2>1. g = h
    BY <1>3 DEF block_trim_free
  <2>2. QED
    BY <1>2, <2>1 DEF SzSame
<1>4. CASE block_can_split(h, b, size)
  <2>1. PICK room \in Nat : room = Sz(h, b)
    <3>1. h \in Control(D \cup {0}) /\ b \in D \cup {0}
      BY <1>2 DEF Shape
    <3>2. QED
      BY <3>1, Typed
  <2>2. room >= size + Word + block_size_min
    BY <1>1, <1>4, <2>1 DEF block_can_split, Sz
  <2>3. PICK r, s : r = Remaining(b, size) /\ s = block_split(h, b, size)
    OBVIOUS
  <2>4. PICK k : k = PrevFree(LinkNext(s, b), r)
    OBVIOUS
  <2>5. g = block_insert(k, r)
    BY <1>4, <2>3, <2>4 DEF block_trim_free
  <2>6. PICK n : n = block_next(h, b)
    OBVIOUS
  <2>7. PICK U : U = {b} \cup {r}
    OBVIOUS
  <2>8. PICK E : E = D \cup {r}
    OBVIOUS
  <2>9. /\ Shape(E, k, Pool, U, V)
        /\ b \in Nat /\ r \in Nat /\ r \notin D \cup {0}
        /\ block_next(k, b) = r /\ block_next(k, r) = n
        /\ Fr(k, r) = 1
        /\ SzSame(V, h, k) /\ \A c \in D : Fr(k, c) = Fr(h, c)
    <3>1. b \in {b}
      OBVIOUS
    <3>2. /\ Shape(D \cup {r}, k, Pool, {b} \cup {r}, V)
          /\ b \in Nat /\ r \in Nat /\ r \notin D \cup {0} /\ r = b + size + Word
          /\ Sz(k, b) = size /\ Sz(k, r) = room - (size + Word)
          /\ block_next(k, b) = r /\ block_next(k, r) = block_next(h, b)
          /\ Fr(k, r) = 1 /\ Pf(k, r) = 1 /\ Pf(k, b) = Pf(h, b)
          /\ \A c \in D : Fr(k, c) = Fr(h, c)
      BY <1>2, <2>1, <2>2, <2>3, <2>4, <3>1, SplitShapes
    <3>3. SzSame(V, h, k)
      BY <1>2, <2>1, <2>2, <2>3, <2>4, <3>1, SplitKeepsUsed
    <3>4. QED
      BY <2>6, <2>7, <2>8, <3>2, <3>3
  <2>10. n \in D /\ Fr(k, n) = 0
    <3>1. n \in D
      BY <1>2, <2>6, NextOfFree
    <3>2. QED
      BY <1>2, <2>6, <2>9, <3>1
  <2>11. b # r /\ b \in E /\ r \in E /\ r \in U /\ Fr(k, b) = 1
    BY <1>2, <2>7, <2>8, <2>9
  <2>12. U \ {r} = {b}
    BY <2>7, <2>11
  <2>13. FreeApart(E, k, LastIn(Pool), U \ {r})
    <3>1. PICK Starts, Ends : Starts = FirstIn(Pool) /\ Ends = LastIn(Pool)
      OBVIOUS
    <3>2. /\ E \subseteq Nat \ {0} /\ k \in Control(E \cup {0})
          /\ Tiles(E, k, Starts, Ends) /\ Flags(E, k, Starts, Ends) /\ FreeApart(E, k, Ends, U)
      BY <2>9, <3>1 DEF Shape
    <3>3. SUFFICES ASSUME NEW c \in E \ Ends, Fr(k, c) = 1, Fr(k, block_next(k, c)) = 1
                   PROVE  c \in {b} \/ block_next(k, c) \in {b}
      BY <2>12, <3>1 DEF FreeApart
    <3>4. c \in U \/ block_next(k, c) \in U
      BY <3>2, <3>3 DEF FreeApart
    <3>5. c # r
      BY <2>9, <2>10, <3>3
    <3>6. b \in E \ Ends
      BY <2>11, <3>2 DEF Flags
    <3>7. block_next(k, c) = r => c = b
      BY <2>9, <3>2, <3>3, <3>6, NextApart
    <3>8. QED
      BY <2>7, <3>4, <3>5, <3>7
  <2>14. Shape(E, g, Pool, {b}, V) /\ PhysSame(E \cup {0}, k, g)
    <3>1. Shape(E, g, Pool, U \ {r}, V) /\ PhysSame(E \cup {0}, k, g)
      BY <2>5, <2>9, <2>11, <2>13, InsertShapes
    <3>2. QED
      BY <2>12, <3>1
  <2>15. Fr(g, b) = 1
    BY <2>11, <2>14 DEF PhysSame, FrSame
  <2>16. SzSame(V, h, g)
    <3>1. V \subseteq D /\ b \notin V
      BY <1>2, UsedOnes
    <3>2. \A c \in D : Sz(g, c) = Sz(k, c)
      BY <2>8, <2>14 DEF PhysSame, SzSame
    <3>3. \A c \in V : Sz(k, c) = Sz(h, c)
      BY <2>9 DEF SzSame
    <3>4. QED
      BY <3>1, <3>2, <3>3 DEF SzSame
  <2>17. QED
    BY <2>11, <2>14, <2>15, <2>16
<1>5. QED
  BY <1>3, <1>4

(* The lists name blocks that fit. *)
LEMMA ShapeHeads ==
  ASSUME NEW D, NEW h, NEW Pool, NEW U, NEW V, Shape(D, h, Pool, U, V)
  PROVE  HeadsFit(h)
<1> DEFINE F == FreeIn(D, h) \ U
<1>1. /\ D \subseteq Nat \ {0} /\ h \in Control(D \cup {0}) /\ Lists(F, h)
      /\ \A b \in D : Multiple(b, Word)
  BY DEF Shape, Tiles
<1>2. DOMAIN h.hdr = D \cup {0} /\ h.fl \subseteq FL /\ \A i \in FL : h.sl[i] \subseteq SL
  BY <1>1 DEF Control
<1>3. \A i \in h.fl : h.sl[i] # {}
  BY <1>1, <1>2 DEF Lists
<1>4. ASSUME NEW i \in FL, NEW j \in h.sl[i]
      PROVE  LET b == h.blocks[i][j]
             IN  /\ b \in DOMAIN h.hdr /\ Ptr(b) % Word = 0
                 /\ mapping_insert(h.hdr[b].size) = [fl |-> i, sl |-> j]
  <2>1. PICK b : b = h.blocks[i][j]
    OBVIOUS
  <2>2. b \in F /\ At(h, b) = [fl |-> i, sl |-> j]
    BY <1>1, <1>2, <2>1 DEF Lists
  <2>3. b \in D
    BY <2>2 DEF FreeIn
  <2>4. Ptr(b) % Word = 0
    <3>1. Word \in Nat /\ Word > 0 /\ Multiple(b, Word) /\ Multiple(Word, Word)
      BY <1>1, <2>3, Constants, Sizes
    <3>2. Multiple(Word + Word, Word)
      BY <3>1, MultiplesSum
    <3>3. Multiple(b + (Word + Word), Word)
      BY <3>1, <3>2, MultiplesSum
    <3>4. b + (Word + Word) = Ptr(b)
      BY <1>1, <2>3, <3>1 DEF Ptr
    <3>5. QED
      BY <3>1, <3>3, <3>4, MultipleIsEnough
  <2>5. QED
    BY <1>2, <2>1, <2>2, <2>3, <2>4 DEF At, Sz
<1>5. QED
  BY <1>3, <1>4 DEF HeadsFit

LEMMA BlockOfPtr ==
  ASSUME NEW b \in Nat
  PROVE  Ptr(b) # NULL /\ Block(Ptr(b)) = b
<1>1. PICK w \in Nat : w = Word /\ w > 0
  BY Constants
<1>2. Ptr(b) = b + 2 * w /\ Block(Ptr(b)) = Ptr(b) - 2 * w
  BY <1>1 DEF Ptr, Block
<1>3. QED
  BY <1>1, <1>2 DEF NULL

(* RequestFits, of blocks in shape. *)
LEMMA MemalignGives ==
  ASSUME NEW D, NEW h, NEW Pool, NEW V, Shape(D, h, Pool, {}, V),
         NEW n \in Nat, NEW align, align = 2 ^ n, NEW size \in Nat,
         NEW got, got = tlsf_memalign(h, align, size), NEW b \in Nat, got.ptr = Ptr(b)
  PROVE  got.ptr % align = 0 /\ Sz(got.h, b) >= size
<1>1. PICK C \in SUBSET Nat : C = D \cup {0}
  BY DEF Shape
<1>2. h \in Control(C) /\ HeadsFit(h)
  BY <1>1, ShapeHeads DEF Shape
<1>3. got.ptr # NULL /\ Block(got.ptr) = b
  BY BlockOfPtr
<1>4. got.ptr % align = 0 /\ got.h.hdr[Block(got.ptr)].size >= size
  BY <1>2, <1>3, RequestFits
<1>5. QED
  BY <1>3, <1>4 DEF Sz

(* b was free, and is now in use and what the caller got. *)
Placed(E, h, got, Pool, b, V) ==
  /\ got.ptr = Ptr(b) /\ Shape(E, got.h, Pool, {}, V \cup {b})
  /\ b \notin V /\ SzSame(V, h, got.h)

LEMMA MemalignKeepsShape ==
  ASSUME NEW D, NEW h, NEW Pool, NEW V, Shape(D, h, Pool, {}, V),
         NEW n \in Nat, NEW align, align = 2 ^ n, NEW size \in Nat,
         NEW got, got = tlsf_memalign(h, align, size)
  PROVE  \/ got.ptr = NULL /\ got.h = h
         \/ \E E : \E b \in Nat : Placed(E, h, got, Pool, b, V)
<1>1. CASE got = [h |-> h, ptr |-> NULL]
  BY <1>1
<1>2. CASE got # [h |-> h, ptr |-> NULL]
  <2>1. /\ aligned_size(align, size) # 0
        /\ mapping_search(aligned_size(align, size)).fl \in FL
    BY <1>2, MemalignFinds
  <2>2. PICK adjust : adjust = adjust_request_size(size, Word)
    OBVIOUS
  <2>3. PICK list \in search_suitable_block(h, mapping_search(aligned_size(align, size))) :
               got = From(h, list, align, adjust)
    BY <1>2, <2>2, MemalignFinds
  <2>4. PICK b : b = h.blocks[list.fl][list.sl]
    OBVIOUS
  <2>5. PICK gap : gap = Gap(b, align)
    OBVIOUS
  <2>6. PICK C : C = D \cup {0}
    OBVIOUS
  <2>7. C \in SUBSET Nat /\ h \in Control(C) /\ HeadsFit(h)
    <3>1. D \subseteq Nat \ {0} /\ h \in Control(D \cup {0})
      BY DEF Shape
    <3>2. QED
      BY <2>6, <3>1, ShapeHeads
  <2>8. Found(C, h, list, align, size)
    BY <2>1, <2>7, FoundFits
  <2>9. PICK room \in Nat : room = Sz(h, b)
    BY <2>4, <2>8 DEF Found, Sz
  <2>10. /\ adjust \in Nat /\ adjust >= block_size_min /\ Multiple(adjust, Word)
         /\ gap \in Nat /\ Multiple(gap, Word)
         /\ gap > 0 => gap >= header_size /\ room >= header_size + gap
    BY <2>2, <2>4, <2>5, <2>8, <2>9 DEF Found, Sz
  <2>11. /\ list.fl \in FL /\ list.sl \in h.sl[list.fl] /\ list.sl \in SL
         /\ At(h, b) = [fl |-> list.fl, sl |-> list.sl]
    BY <2>4, <2>8 DEF Found, At, Sz
  <2>12. list = At(h, b)
    <3>1. list = [fl |-> list.fl, sl |-> list.sl]
      BY DEF search_suitable_block
    <3>2. QED
      BY <2>11, <3>1
  <2>13. b \in D /\ Fr(h, b) = 1
    <3>1. Lists(FreeIn(D, h) \ {}, h) /\ 0 \notin D
      BY DEF Shape
    <3>2. b # 0 /\ b \in FreeIn(D, h) \ {}
      BY <2>4, <2>11, <3>1 DEF Lists
    <3>3. QED
      BY <3>2 DEF FreeIn
  <2>14. PICK taken : taken = remove_free_block(h, b, list)
    OBVIOUS
  <2>15. PICK placed : placed = IF gap > 0 THEN block_trim_free_leading(taken, b, gap)
                                ELSE [block |-> b, h |-> taken]
    OBVIOUS
  <2>16. PICK t, k : t = placed.block /\ k = placed.h
    OBVIOUS
  <2>17. PICK trimmed : trimmed = block_trim_free(k, t, adjust)
    OBVIOUS
  <2>18. PICK used : used = MarkAsUsed(trimmed, t)
    OBVIOUS
  <2>19. got = [h |-> HandOver(used, t), ptr |-> Ptr(t)]
    <3> DEFINE b0 == h.blocks[list.fl][list.sl]
               taken0 == remove_free_block(h, b0, list)
               placed0 == IF Gap(b0, align) > 0
                            THEN block_trim_free_leading(taken0, b0, Gap(b0, align))
                            ELSE [block |-> b0, h |-> taken0]
               used0 == MarkAsUsed(block_trim_free(placed0.h, placed0.block, adjust), placed0.block)
    <3>1. From(h, list, align, adjust) = [h |-> HandOver(used0, placed0.block), ptr |-> Ptr(placed0.block)]
      BY Zenon DEF From
    <3>2. b0 = b /\ taken0 = taken
      BY <2>4, <2>14
    <3> HIDE DEF b0, taken0
    <3>3. placed0 = placed
      BY <2>5, <2>15, <3>2
    <3> HIDE DEF placed0
    <3>4. used0 = used
      BY <2>16, <2>17, <2>18, <3>3
    <3>5. QED
      BY <2>3, <2>16, <3>1, <3>3, <3>4
  <2>20. FreeAlone(D, taken, Pool, b, V) /\ Sz(taken, b) = room
    <3>1. Shape(D, taken, Pool, {} \cup {b}, V) /\ PhysSame(D \cup {0}, h, taken)
      BY <2>12, <2>13, <2>14, RemoveShapes
    <3>2. {} \cup {b} = {b}
      OBVIOUS
    <3>3. PICK m : m = block_next(h, b)
      OBVIOUS
    <3>4. m \in D /\ Fr(h, m) \in {0, 1} /\ b \in D \ LastIn(Pool)
      BY <2>13, <3>3, NextOfFree
    <3>5. Fr(h, m) = 0
      BY <2>13, <3>3, <3>4 DEF Shape, FreeApart
    <3>6. Pf(h, b) = 0
      <4>1. SUFFICES ASSUME Pf(h, b) # 0 PROVE FALSE
        OBVIOUS
      <4>2. PICK q \in D \ LastIn(Pool) : block_next(h, q) = b /\ Fr(h, q) = 1
        BY <2>13, <4>1, PrevOfBlock
      <4>3. QED
        BY <2>13, <4>2 DEF Shape, FreeApart
    <3>7. /\ Sz(taken, b) = Sz(h, b) /\ Fr(taken, b) = 1 /\ Pf(taken, b) = 0
          /\ block_next(taken, b) = m /\ Fr(taken, m) = 0
      BY <2>13, <3>1, <3>3, <3>4, <3>5, <3>6, NextSame DEF PhysSame, SzSame, FrSame, PfSame
    <3>8. QED
      BY <2>9, <2>13, <3>1, <3>2, <3>7 DEF FreeAlone
  <2>21. SzSame(V, h, taken) /\ b \notin V /\ V \subseteq D
    <3>1. Shape(D, taken, Pool, {} \cup {b}, V) /\ PhysSame(D \cup {0}, h, taken)
      BY <2>12, <2>13, <2>14, RemoveShapes
    <3>2. V \subseteq D /\ b \notin V
      BY <2>13, UsedOnes
    <3>3. QED
      BY <3>1, <3>2 DEF PhysSame, SzSame
  <2>22. (\E E : Taken(E, k, Pool, t, V)) /\ SzSame(V, taken, k)
    <3>1. CASE gap > 0
      BY <2>9, <2>10, <2>15, <2>16, <2>20, <3>1, LeadShapes
    <3>2. CASE ~(gap > 0)
      <4>1. t = b /\ k = taken
        BY <2>15, <2>16, <3>2
      <4>2. QED
        BY <2>20, <4>1 DEF FreeAlone, Taken, SzSame
    <3>3. QED
      BY <3>1, <3>2
  <2>23. PICK A : Taken(A, k, Pool, t, V)
    BY <2>22
  <2>24. SzSame(V, k, trimmed)
    BY <2>10, <2>17, <2>23, TrimShapes
  <2>25. PICK E : Shape(E, trimmed, Pool, {t}, V) /\ t \in E /\ Fr(trimmed, t) = 1
    BY <2>10, <2>17, <2>23, TrimShapes
  <2>26. /\ Shape(E, used, Pool, {t} \ {t}, V \cup {t}) /\ {t} \ {t} = {}
         /\ SzSame(E \cup {0}, trimmed, used)
    BY <2>18, <2>25, UseShapes
  <2>27. /\ Shape(E, HandOver(used, t), Pool, {}, V \cup {t})
         /\ SzSame(E \cup {0}, used, HandOver(used, t))
    <3>1. PICK N, W : N = {} /\ W = V \cup {t}
      OBVIOUS
    <3>2. Shape(E, used, Pool, N, W) /\ t \in W
      BY <2>26, <3>1
    <3>3. /\ Shape(E, HandOver(used, t), Pool, N, W)
          /\ SzSame(E \cup {0}, used, HandOver(used, t))
      BY <3>2, HandOverShapes
    <3>4. QED
      BY <3>1, <3>3
  <2>28. t \notin V /\ SzSame(V, h, HandOver(used, t))
    <3>1. V \subseteq E /\ t \notin V
      BY <2>25, UsedOnes
    <3>2. QED
      BY <2>22, <2>26, <2>27, <2>21, <2>24, <3>1 DEF SzSame
  <2>29. t \in Nat
    BY <2>25 DEF Shape
  <2>30. got.h = HandOver(used, t) /\ got.ptr = Ptr(t)
    BY <2>19
  <2>31. QED
    BY <2>27, <2>29, <2>30, <2>28 DEF Placed
<1>3. QED
  BY <1>1, <1>2

LEMMA AlignsDown ==
  ASSUME NEW x \in Nat
  PROVE  AlignDown(x, Word) \in Nat /\ Multiple(AlignDown(x, Word), Word)
         /\ AlignDown(x, Word) <= x /\ x < AlignDown(x, Word) + Word
<1>1. PICK w \in Nat : w = Word /\ w > 0
  BY Constants
<1>2. x \div w \in Nat /\ w * (x \div w) <= x /\ x < w * (x \div w) + w
  BY <1>1, Quotient
<1>3. AlignDown(x, Word) = w * (x \div w)
  BY <1>1, <1>2 DEF AlignDown
<1>4. Multiple(w * (x \div w), w) /\ w * (x \div w) \in Nat
  BY <1>1, <1>2 DEF Multiple
<1>5. QED
  BY <1>1, <1>2, <1>3, <1>4

(* A pool begins as one free block, in no list yet, and its last block.    *)
PoolBegun(E, h, g, b, end, size) ==
  /\ g \in Control(E \cup {b, end}) /\ BitsSame(h, g)
  /\ Sz(g, b) = size /\ Sz(g, end) = 0
  /\ Fr(g, b) = 1 /\ Fr(g, end) = 0 /\ Pf(g, b) = 0 /\ Pf(g, end) = 1 /\ Pp(g, end) = b
  /\ \A c \in E : /\ Sz(g, c) = Sz(h, c) /\ Fr(g, c) = Fr(h, c) /\ Pf(g, c) = Pf(h, c)
                  /\ Pp(g, c) = Pp(h, c) /\ Nx(g, c) = Nx(h, c) /\ Pv(g, c) = Pv(h, c)

LEMMA AddPoolDoes ==
  ASSUME NEW E, NEW h \in Control(E), NEW mem \in Nat, mem >= Word, NEW bytes,
         NEW size \in Nat, size = PoolSize(bytes),
         NEW b \in Nat, b + Word = mem, NEW end \in Nat, end = mem + size,
         b \notin E, end \notin E, b # end,
         NEW g, g = tlsf_add_pool(h, mem, bytes)
  PROVE  \E k : PoolBegun(E, h, k, b, end, size) /\ g = block_insert(k, b)
<1> DEFINE header == [size |-> size, free |-> 1, prev_free |-> 0, prev_phys |-> Junk,
                      next |-> Junk, prev |-> Junk]
           sentinel == [header EXCEPT !.size = 0, !.free = 0, !.prev_free = 1, !.prev_phys = b]
           R == E \cup {b, end}
<1>1. PICK w \in Nat : w = Word /\ w > 0 /\ overhead = w
  BY Constants, Sizes
<1>2. PICK hdr \in [E -> Header] : hdr = h.hdr
  BY DEF Control
<1>3. /\ header \in Header /\ header.size = size /\ header.free = 1 /\ header.prev_free = 0
  BY DEF Header, Junk
<1> HIDE DEF header
<1>4. /\ sentinel \in Header /\ sentinel.size = 0 /\ sentinel.free = 0
      /\ sentinel.prev_free = 1 /\ sentinel.prev_phys = b
  <2>1. PICK s1 : s1 = [header EXCEPT !.size = 0]
    OBVIOUS
  <2>2. s1 \in Header /\ s1.size = 0
    BY <1>3, <2>1 DEF Header
  <2>3. PICK s2 : s2 = [s1 EXCEPT !.free = 0]
    OBVIOUS
  <2>4. s2 \in Header /\ s2.size = 0 /\ s2.free = 0
    BY <2>2, <2>3 DEF Header
  <2>5. PICK s3 : s3 = [s2 EXCEPT !.prev_free = 1]
    OBVIOUS
  <2>6. s3 \in Header /\ s3.size = 0 /\ s3.free = 0 /\ s3.prev_free = 1
    BY <2>4, <2>5 DEF Header
  <2>7. PICK s4 : s4 = [s3 EXCEPT !.prev_phys = b]
    OBVIOUS
  <2>8. /\ s4 \in Header /\ s4.size = 0 /\ s4.free = 0 /\ s4.prev_free = 1 /\ s4.prev_phys = b
    BY <2>6, <2>7 DEF Header
  <2>9. sentinel = s4
    BY <2>1, <2>3, <2>5, <2>7
  <2>10. QED
    BY <2>8, <2>9
<1> HIDE DEF sentinel
<1>5. PICK new : new = [c \in R |-> IF c = b THEN header ELSE IF c = end THEN sentinel ELSE hdr[c]]
  OBVIOUS
<1>6. /\ new \in [R -> Header] /\ new[b] = header /\ new[end] = sentinel
      /\ \A c \in E : new[c] = hdr[c]
  <2>1. ASSUME NEW c \in R
        PROVE  (IF c = b THEN header ELSE IF c = end THEN sentinel ELSE hdr[c]) \in Header
    BY <1>2, <1>3, <1>4
  <2>2. QED
    BY <1>5, <2>1
<1>7. PICK k : k = [h EXCEPT !.hdr = new]
  OBVIOUS
<1>8. k \in Control(R) /\ k.hdr = new /\ BitsSame(h, k)
  BY <1>6, <1>7 DEF Control, BitsSame
<1>9. PoolBegun(E, h, k, b, end, size)
  BY <1>2, <1>3, <1>6, <1>8, <1>4 DEF PoolBegun, Sz, Fr, Pf, Pp, Nx, Pv
<1>10. tlsf_add_pool(h, mem, bytes) = block_insert(k, b)
  <2> DEFINE b1 == mem - overhead
             size1 == PoolSize(bytes)
             end1 == Ptr(b1) + size1 - overhead
             header1 == [size |-> size1, free |-> 1, prev_free |-> 0, prev_phys |-> Junk,
                         next |-> Junk, prev |-> Junk]
             sentinel1 == [header1 EXCEPT !.size = 0, !.free = 0, !.prev_free = 1, !.prev_phys = b1]
             with1 == [h EXCEPT !.hdr = [c \in DOMAIN @ \cup {b1, end1} |->
                         IF c = b1 THEN header1 ELSE IF c = end1 THEN sentinel1 ELSE @[c]]]
  <2>1. tlsf_add_pool(h, mem, bytes) = block_insert(with1, b1)
    BY Zenon DEF tlsf_add_pool
  <2>2. b1 = b /\ size1 = size
    BY <1>1
  <2>3. end1 = end
    <3>1. end1 = b + 2 * w + size - w
      BY <1>1, <2>2 DEF Ptr
    <3>2. QED
      BY <1>1, <3>1
  <2> HIDE DEF b1, size1, end1
  <2>4. header1 = header
    BY <2>2 DEF header
  <2>5. sentinel1 = sentinel
    <3> HIDE DEF header1
    <3>1. QED
      BY <2>2, <2>4 DEF sentinel
  <2> HIDE DEF header1, sentinel1
  <2>6. with1 = k
    <3>1. DOMAIN h.hdr = E
      BY DEF Control
    <3>2. QED
      BY <1>2, <1>5, <1>7, <2>2, <2>3, <2>4, <2>5, <3>1
  <2>7. QED
    BY <2>1, <2>2, <2>6
<1>11. QED
  BY <1>9, <1>10

LEMMA AddPoolShapes ==
  ASSUME NEW D, NEW h, NEW Pool, NEW V, Shape(D, h, Pool, {}, V),
         NEW mem \in Nat, Multiple(mem, Word), NEW bytes,
         NEW size \in Nat, size = PoolSize(bytes),
         Multiple(size, Word), size >= block_size_min, size < block_size_max,
         NEW b \in Nat, b + Word = mem, b > 0, \A c \in D : c < b,
         NEW end \in Nat, end = mem + size,
         NEW g, g = tlsf_add_pool(h, mem, bytes)
  PROVE  Shape(D \cup {b, end}, g, Pool \cup {<<b, end>>}, {}, V) /\ SzSame(V, h, g)
<1> DEFINE R == D \cup {b, end}
           Wide == Pool \cup {<<b, end>>}
<1>1. PICK w \in Nat : w = Word /\ w > 0 /\ block_size_min = 3 * w
  BY Constants, Sizes
<1>2. PICK Starts, Ends : Starts = FirstIn(Pool) /\ Ends = LastIn(Pool)
  OBVIOUS
<1>3. /\ D \subseteq Nat \ {0} /\ h \in Control(D \cup {0}) /\ Pool \subseteq Nat \X Nat
      /\ Tiles(D, h, Starts, Ends) /\ Flags(D, h, Starts, Ends) /\ FreeApart(D, h, Ends, {})
      /\ Within(D, Pool) /\ Lists(FreeIn(D, h) \ {}, h) /\ V = UsedIn(D, h, Ends)
  BY <1>2 DEF Shape
<1>4. b < end /\ b \notin D /\ end \notin D /\ b \notin D \cup {0} /\ end \notin D \cup {0} /\ b # end
  BY <1>1, <1>3
<1>5. PICK k : PoolBegun(D \cup {0}, h, k, b, end, size) /\ g = block_insert(k, b)
  <2>1. mem >= Word
    BY <1>1
  <2>2. QED
    BY <1>3, <1>4, <2>1, AddPoolDoes
<1>6. k \in Control(R \cup {0}) /\ BitsSame(h, k)
  <2>1. (D \cup {0}) \cup {b, end} = R \cup {0}
    OBVIOUS
  <2>2. QED
    BY <1>5, <2>1 DEF PoolBegun
<1>7. /\ Sz(k, b) = size /\ Sz(k, end) = 0
      /\ Fr(k, b) = 1 /\ Fr(k, end) = 0 /\ Pf(k, b) = 0 /\ Pf(k, end) = 1 /\ Pp(k, end) = b
      /\ \A c \in D : /\ Sz(k, c) = Sz(h, c) /\ Fr(k, c) = Fr(h, c) /\ Pf(k, c) = Pf(h, c)
                      /\ Pp(k, c) = Pp(h, c) /\ Nx(k, c) = Nx(h, c) /\ Pv(k, c) = Pv(h, c)
  BY <1>5 DEF PoolBegun
<1>8. block_next(k, b) = end
  <2>1. block_next(k, b) = b + size + w
    BY <1>1, <1>7, NextIs
  <2>2. QED
    BY <1>1, <2>1
<1>9. \A c \in D : block_next(k, c) = block_next(h, c)
  BY <1>7 DEF block_next, Sz
<1>10. PICK Starts2, Ends2 : Starts2 = Starts \cup {b} /\ Ends2 = Ends \cup {end}
  OBVIOUS
<1>11. Starts2 = FirstIn(Wide) /\ Ends2 = LastIn(Wide)
  <2> PICK p : p = <<b, end>>
    OBVIOUS
  <2>1. p[1] = b /\ p[2] = end
    OBVIOUS
  <2>2. Wide = Pool \cup {p}
    OBVIOUS
  <2>3. \A x : x \in FirstIn(Wide) <=> x \in Starts \/ x = b
    BY <1>2, <2>1, <2>2 DEF FirstIn
  <2>4. \A x : x \in LastIn(Wide) <=> x \in Ends \/ x = end
    BY <1>2, <2>1, <2>2 DEF LastIn
  <2>5. QED
    BY <1>10, <2>3, <2>4
<1>12. Starts \subseteq D /\ Ends \subseteq D
  BY <1>3 DEF Tiles
<1> HIDE DEF R, Wide
<1>13. Tiles(R, k, Starts2, Ends2)
  <2>1. Starts2 \subseteq R /\ Ends2 \subseteq R
    BY <1>10, <1>12 DEF R
  <2>2. ASSUME NEW x \in R
        PROVE  /\ Multiple(x, Word) /\ Multiple(Sz(k, x), Word)
               /\ x \in Ends2 => Sz(k, x) = 0
               /\ x \notin Ends2 => Sz(k, x) >= block_size_min
    <3>1. Word \in Nat /\ Multiple(Word, Word)
      BY Constants, Sizes
    <3>2. CASE x = b
      <4>1. Multiple(mem - w, Word)
        <5>1. mem >= w
          BY <1>1
        <5>2. QED
          BY <1>1, <3>1, <5>1, MultiplesSum
      <4>2. mem - w = b
        BY <1>1
      <4>3. b \notin Ends2
        BY <1>4, <1>10, <1>12
      <4>4. QED
        BY <1>7, <3>2, <4>1, <4>2, <4>3
    <3>3. CASE x = end
      <4>1. Multiple(mem + size, Word)
        BY <3>1, MultiplesSum
      <4>2. Multiple(0, Word)
        <5>1. 0 = Word * 0
          BY <3>1
        <5>2. QED
          BY <5>1 DEF Multiple
      <4>3. QED
        BY <1>7, <1>10, <3>3, <4>1, <4>2
    <3>4. CASE x # b /\ x # end
      <4>1. x \in D /\ (x \in Ends2 <=> x \in Ends)
        BY <1>10, <3>4 DEF R
      <4>2. QED
        BY <1>3, <1>7, <4>1 DEF Tiles
    <3>5. QED
      BY <3>2, <3>3, <3>4
  <2>3. ASSUME NEW x \in R \ Ends2
        PROVE  block_next(k, x) \in R \ Starts2 /\ \A y \in R : y <= x \/ block_next(k, x) <= y
    <3>1. CASE x = b
      <4>1. end \in R \ Starts2
        BY <1>4, <1>10, <1>12 DEF R
      <4>2. ASSUME NEW y \in R PROVE y <= b \/ end <= y
        BY <1>3, <1>4 DEF R
      <4>3. QED
        BY <1>8, <3>1, <4>1, <4>2
    <3>2. CASE x # b
      <4>1. x \in D \ Ends
        BY <1>10, <3>2 DEF R
      <4>2. PICK nx : nx = block_next(h, x)
        OBVIOUS
      <4>3. block_next(k, x) = nx /\ nx \in D \ Starts /\ \A y \in D : y <= x \/ nx <= y
        BY <1>3, <1>9, <4>1, <4>2 DEF Tiles
      <4>4. nx <= b /\ nx <= end
        BY <1>3, <1>4, <4>3
      <4>5. nx \in R \ Starts2
        BY <1>4, <1>10, <4>3 DEF R
      <4>6. QED
        BY <4>3, <4>4, <4>5 DEF R
    <3>3. QED
      BY <3>1, <3>2
  <2>4. ASSUME NEW x \in R \ Starts2 PROVE \E p \in R \ Ends2 : block_next(k, p) = x
    <3>1. CASE x = end
      <4>1. b \in R \ Ends2
        BY <1>4, <1>10, <1>12 DEF R
      <4>2. QED
        BY <1>8, <3>1, <4>1
    <3>2. CASE x # end
      <4>1. x \in D \ Starts
        BY <1>10, <3>2 DEF R
      <4>2. PICK p \in D \ Ends : block_next(h, p) = x
        BY <1>3, <4>1 DEF Tiles
      <4>3. p \in R \ Ends2
        BY <1>4, <1>10, <4>2 DEF R
      <4>4. QED
        BY <1>9, <4>2, <4>3
    <3>3. QED
      BY <3>1, <3>2
  <2>5. QED
    BY <2>1, <2>2, <2>3, <2>4 DEF Tiles
<1>14. Flags(R, k, Starts2, Ends2)
  <2>1. \A x \in R : Fr(k, x) \in {0, 1}
    BY <1>3, <1>7 DEF Flags, R
  <2>2. \A x \in Ends2 : Fr(k, x) = 0
    BY <1>3, <1>7, <1>10, <1>12 DEF Flags
  <2>3. \A x \in Starts2 : Pf(k, x) = 0
    BY <1>3, <1>7, <1>10, <1>12 DEF Flags
  <2>4. ASSUME NEW x \in R \ Ends2
        PROVE  /\ Pf(k, block_next(k, x)) = Fr(k, x)
               /\ Fr(k, x) = 1 => Pp(k, block_next(k, x)) = x
    <3>1. CASE x = b
      BY <1>7, <1>8, <3>1
    <3>2. CASE x # b
      <4>1. x \in D \ Ends
        BY <1>10, <3>2 DEF R
      <4>2. block_next(k, x) = block_next(h, x) /\ block_next(h, x) \in D
        BY <1>3, <1>9, <4>1 DEF Tiles
      <4>3. /\ Pf(h, block_next(h, x)) = Fr(h, x)
            /\ Fr(h, x) = 1 => Pp(h, block_next(h, x)) = x
        BY <1>3, <4>1 DEF Flags
      <4>4. QED
        BY <1>7, <4>1, <4>2, <4>3
    <3>3. QED
      BY <3>1, <3>2
  <2>5. QED
    BY <2>1, <2>2, <2>3, <2>4 DEF Flags
<1>15. FreeApart(R, k, Ends2, {b})
  <2>1. SUFFICES ASSUME NEW x \in R \ Ends2, Fr(k, x) = 1, Fr(k, block_next(k, x)) = 1
                 PROVE  x \in {b} \/ block_next(k, x) \in {b}
    BY DEF FreeApart
  <2>2. CASE x # b
    <3>1. x \in D \ Ends
      BY <1>10, <2>2 DEF R
    <3>2. block_next(k, x) = block_next(h, x) /\ block_next(h, x) \in D
      BY <1>3, <1>9, <3>1 DEF Tiles
    <3>3. Fr(h, x) = 1 /\ Fr(h, block_next(h, x)) = 1
      BY <1>7, <2>1, <3>1, <3>2
    <3>4. QED
      BY <1>3, <3>1, <3>3 DEF FreeApart
  <2>3. QED
    BY <2>2
<1>16. Within(R, Wide)
  <2>1. SUFFICES ASSUME NEW x \in R
                 PROVE  \E p \in Wide : p[1] <= x /\ x <= p[2] /\ p[2] < p[1] + Word + block_size_max
    BY DEF Within
  <2>2. CASE x \in D
    BY <1>3, <2>2 DEF Within, Wide
  <2>3. CASE x \in {b, end}
    <3>1. PICK p : p = <<b, end>>
      OBVIOUS
    <3>2. p \in Wide /\ p[1] = b /\ p[2] = end
      BY <3>1 DEF Wide
    <3>3. block_size_max \in Nat
      BY TlsfAssumption, PowersGrow DEF block_size_max
    <3>4. b <= x /\ x <= end /\ end < b + Word + block_size_max
      BY <1>1, <1>4, <2>3, <3>3
    <3>5. QED
      BY <3>2, <3>4
  <2>4. QED
    BY <2>2, <2>3 DEF R
<1>17. Lists(FreeIn(R, k) \ {b}, k)
  <2>1. FreeIn(R, k) \ {b} = FreeIn(D, h) \ {}
    <3>1. \A c : c \in FreeIn(R, k) \ {b} <=> c \in FreeIn(D, h) \ {}
      <4>1. Fr(k, end) # 1
        BY <1>7
      <4>2. \A c \in D : Fr(k, c) = Fr(h, c)
        BY <1>7
      <4>3. QED
        BY <1>4, <4>1, <4>2 DEF FreeIn, R
    <3>2. QED
      BY <3>1
  <2>2. \A c \in FreeIn(D, h) \ {} : Sz(k, c) = Sz(h, c) /\ Nx(k, c) = Nx(h, c) /\ Pv(k, c) = Pv(h, c)
    BY <1>7 DEF FreeIn
  <2>3. QED
    BY <1>3, <1>6, <2>1, <2>2, ListsUntouched
<1>18. V = UsedIn(R, k, Ends2)
  <2>1. \A c : c \in UsedIn(D, h, Ends) <=> c \in UsedIn(R, k, Ends2)
    <3>1. Fr(k, b) # 0
      BY <1>7
    <3>2. \A c \in D : Fr(k, c) = Fr(h, c)
      BY <1>7
    <3>3. QED
      BY <1>4, <1>10, <3>1, <3>2 DEF UsedIn, R
  <2>2. QED
    BY <1>3, <2>1
<1>19. R \subseteq Nat \ {0} /\ Wide \subseteq Nat \X Nat
  <2>1. b # 0 /\ end # 0
    BY <1>4
  <2>2. <<b, end>> \in Nat \X Nat
    OBVIOUS
  <2>3. QED
    BY <1>3, <2>1, <2>2 DEF R, Wide
<1>20. Shape(R, k, Wide, {b}, V)
  BY <1>6, <1>11, <1>13, <1>14, <1>15, <1>16, <1>17, <1>18, <1>19 DEF Shape
<1>21. b \in R /\ b \in {b} /\ Fr(k, block_next(k, b)) = 0
  BY <1>7, <1>8 DEF R
<1>22. FreeApart(R, k, LastIn(Wide), {b} \ {b})
  BY <1>7, <1>20, <1>21, AloneIsApart
<1>23. Shape(R, g, Wide, {b} \ {b}, V) /\ PhysSame(R \cup {0}, k, g)
  BY <1>5, <1>7, <1>20, <1>21, <1>22, InsertShapes
<1>24. {b} \ {b} = {}
  OBVIOUS
<1>25. SzSame(V, h, g)
  <2>1. V \subseteq D /\ D \subseteq R
    BY UsedOnes DEF R
  <2>2. \A c \in D : Sz(g, c) = Sz(k, c)
    BY <1>23, <2>1 DEF PhysSame, SzSame
  <2>3. \A c \in D : Sz(k, c) = Sz(h, c)
    BY <1>7
  <2>4. QED
    BY <2>1, <2>2, <2>3 DEF SzSame
<1>26. QED
  BY <1>23, <1>24, <1>25 DEF R, Wide

-----------------------------------------------------------------------------
(***************************************************************************)
(* What the walks and the checks of tlsf.c find in a structure of that     *)
(* shape.                                                                  *)
(***************************************************************************)

(* The values of a recursion from x0 on, as far as to k. *)
Runs(f, x0, step, k) == f[0] = x0 /\ \A i \in 1 .. k : f[i] = step[<<i, f[i - 1]>>]

LEMMA RecursionExists ==
  ASSUME NEW S, NEW x0 \in S, NEW N \in Nat, NEW step \in [(1 .. N) \X S -> S]
  PROVE  \E f \in [0 .. N -> S] : Runs(f, x0, step, N)
<1> DEFINE A == {k \in 0 .. N : \E f \in [0 .. N -> S] : Runs(f, x0, step, k)}
<1>1. 0 \in A
  <2>1. Runs([i \in 0 .. N |-> x0], x0, step, 0)
    BY DEF Runs
  <2>2. [i \in 0 .. N |-> x0] \in [0 .. N -> S]
    OBVIOUS
  <2>3. QED
    BY <2>1, <2>2
<1>2. ASSUME NEW k \in 1 .. N, k - 1 \in A PROVE k \in A
  <2>1. PICK f \in [0 .. N -> S] : Runs(f, x0, step, k - 1)
    BY <1>2
  <2> DEFINE g == [i \in 0 .. N |-> IF i = k THEN step[<<k, f[k - 1]>>] ELSE f[i]]
  <2>2. f[k - 1] \in S /\ step[<<k, f[k - 1]>>] \in S
    BY <1>2
  <2>3. g \in [0 .. N -> S]
    BY <2>2
  <2>4. /\ g[k] = step[<<k, f[k - 1]>>]
        /\ \A i \in 0 .. N : i # k => g[i] = f[i]
    OBVIOUS
  <2> HIDE DEF g
  <2>5. ASSUME NEW i \in 1 .. k PROVE g[i] = step[<<i, g[i - 1]>>]
    <3>1. i - 1 \in 0 .. N /\ i - 1 # k /\ g[i - 1] = f[i - 1]
      BY <2>4
    <3>2. CASE i = k
      BY <2>4, <3>1, <3>2
    <3>3. CASE i # k
      <4>1. i \in 1 .. k - 1 /\ i \in 0 .. N /\ g[i] = f[i]
        BY <2>4, <3>3
      <4>2. QED
        BY <2>1, <3>1, <4>1 DEF Runs
    <3>4. QED
      BY <3>2, <3>3
  <2>6. g[0] = x0
    BY <2>1, <2>4 DEF Runs
  <2>7. Runs(g, x0, step, k)
    BY <2>5, <2>6 DEF Runs
  <2>8. QED
    BY <2>3, <2>7
<1> HIDE DEF A
<1>3. 0 .. N \subseteq A
  BY <1>1, <1>2, UpFromZero
<1>4. N \in A
  BY <1>3
<1>5. QED
  BY <1>4 DEF A

(* A set that grows as long as it is not closed is closed in the end.      *)
LEMMA GrowsToTheEnd ==
  ASSUME NEW E, IsFiniteSet(E), NEW N \in Nat, N = Cardinality(E), NEW c, NEW h, NEW r,
         r[0] = {c},
         \A k \in 1 .. N : r[k] = r[k - 1] \cup {h.hdr[b].next : b \in r[k - 1] \ {0}},
         \A k \in 0 .. N : r[k] \subseteq E
  PROVE  \A b \in r[N] \ {0} : h.hdr[b].next \in r[N]
<1> DEFINE Closed(R) == \A b \in R \ {0} : h.hdr[b].next \in R
           A == {k \in 0 .. N : Closed(r[k]) \/ Cardinality(r[k]) >= k + 1}
<1>1. \A k \in 0 .. N : IsFiniteSet(r[k]) /\ Cardinality(r[k]) \in Nat /\ Cardinality(r[k]) <= N
  BY FS_Subset, FS_CardinalityType
<1>2. 0 \in A
  <2>1. Cardinality({c}) = 1
    BY FS_Singleton
  <2>2. QED
    BY <2>1
<1>3. ASSUME NEW k \in 1 .. N, k - 1 \in A PROVE k \in A
  <2> DEFINE R == r[k - 1]
  <2>1. r[k] = R \cup {h.hdr[b].next : b \in R \ {0}} /\ k - 1 \in 0 .. N /\ k \in 0 .. N
    OBVIOUS
  <2>2. CASE Closed(R)
    <3>1. r[k] = R
      BY <2>1, <2>2
    <3>2. QED
      BY <2>1, <2>2, <3>1
  <2>3. CASE ~Closed(R)
    <3>1. Cardinality(R) >= k
      BY <1>3, <2>3
    <3>2. PICK b \in R \ {0} : h.hdr[b].next \notin R
      BY <2>3
    <3>3. R \subseteq r[k] /\ r[k] # R
      BY <2>1, <3>2
    <3> HIDE DEF R
    <3>4. Cardinality(R) <= Cardinality(r[k]) /\ Cardinality(r[k]) # Cardinality(R)
      BY <1>1, <2>1, <3>3, FS_Subset
    <3>5. Cardinality(R) \in Nat /\ Cardinality(r[k]) \in Nat
      BY <1>1, <2>1 DEF R
    <3>6. Cardinality(r[k]) >= k + 1
      BY <3>1, <3>4, <3>5
    <3>7. QED
      BY <2>1, <3>6
  <2>4. QED
    BY <2>2, <2>3
<1> HIDE DEF A
<1>4. 0 .. N \subseteq A
  BY <1>2, <1>3, UpFromZero
<1>5. N \in 0 .. N /\ N \in A
  BY <1>4
<1>6. ~(Cardinality(r[N]) >= N + 1)
  BY <1>1, <1>5
<1>7. QED
  BY <1>5, <1>6 DEF A

(* The list of a kind of block has all of them, and nothing else.          *)
LEMMA FreeListIs ==
  ASSUME NEW E, IsFiniteSet(E), NEW h \in Control(E), NEW F, Lists(F, h),
         F \cup {0} \subseteq E, 0 \notin F, NEW i \in FL, NEW j \in SL,
         NEW at, at = [fl |-> i, sl |-> j], NEW list, list = FreeList(h, at)
  PROVE  \A b : b \in list <=> b \in F /\ At(h, b) = at
<1>1. PICK N : N = Cardinality(DOMAIN h.hdr)
  OBVIOUS
<1>2. DOMAIN h.hdr = E /\ N \in Nat /\ N = Cardinality(E)
  BY <1>1, FS_CardinalityType DEF Control
<1> DEFINE G == {b \in F : At(h, b) = at}
           S == SUBSET (G \cup {0})
           head == h.blocks[at.fl][at.sl]
           Then(R) == R \cup {h.hdr[b].next : b \in R \ {block_null}}
           reach[n \in 0 .. N] ==
             IF n = 0 THEN {h.blocks[at.fl][at.sl]}
             ELSE LET found == reach[n - 1]
                  IN  found \cup {h.hdr[b].next : b \in found \ {block_null}}
<1>3. FreeList(h, at) = reach[N] \ {block_null}
  BY <1>1, Zenon DEF FreeList
<1>4. head = h.blocks[i][j] /\ head \in G \cup {0}
  BY DEF Lists
<1>5. ASSUME NEW b \in G PROVE h.hdr[b].next \in G \cup {0}
  BY DEF Lists, Nx
<1>6. {head} \in S /\ \A R \in S : Then(R) \in S
  BY <1>4, <1>5 DEF block_null
<1>7. PICK r \in [0 .. N -> S] : Runs(r, {head}, [x \in (1 .. N) \X S |-> Then(x[2])], N)
  <2> DEFINE step == [x \in (1 .. N) \X S |-> Then(x[2])]
  <2>1. step \in [(1 .. N) \X S -> S]
    BY <1>6
  <2> HIDE DEF step, S, head
  <2>2. \E r \in [0 .. N -> S] : Runs(r, {head}, step, N)
    BY <1>2, <1>6, <2>1, RecursionExists
  <2>3. QED
    BY <2>2 DEF step
<1>8. r[0] = {head} /\ \A k \in 1 .. N : r[k] = Then(r[k - 1])
  <2> HIDE DEF S, head, Then
  <2>1. ASSUME NEW k \in 1 .. N PROVE r[k - 1] \in S
    BY <1>2
  <2>2. ASSUME NEW k \in 1 .. N
        PROVE  [x \in (1 .. N) \X S |-> Then(x[2])][<<k, r[k - 1]>>] = Then(r[k - 1])
    BY <2>1
  <2>3. QED
    BY <1>7, <2>2 DEF Runs
<1>9. r = [n \in 0 .. N |-> IF n = 0 THEN {h.blocks[at.fl][at.sl]}
                            ELSE LET found == r[n - 1]
                                 IN  found \cup {h.hdr[b].next : b \in found \ {block_null}}]
  <2>1. \A n \in 0 .. N : n # 0 => n \in 1 .. N
    BY <1>2
  <2>2. \A n \in 0 .. N : r[n] = IF n = 0 THEN {head} ELSE Then(r[n - 1])
    BY <1>8, <2>1
  <2>3. r = [n \in 0 .. N |-> IF n = 0 THEN {head} ELSE Then(r[n - 1])]
    <3> HIDE DEF S, head, Then
    <3>1. QED
      BY <1>7, <2>2
  <2>4. QED
    BY <2>3
<1>10. reach = [n \in 0 .. N |-> IF n = 0 THEN {h.blocks[at.fl][at.sl]}
                            ELSE LET found == reach[n - 1]
                                 IN  found \cup {h.hdr[b].next : b \in found \ {block_null}}]
  BY <1>9, Zenon
<1> HIDE DEF reach
<1>11. N \in Nat
  BY <1>2
<1>12. reach[0] = {head} /\ \A k \in 1 .. N : reach[k] = Then(reach[k - 1])
  <2>1. 0 \in 0 .. N /\ \A k \in 1 .. N : k \in 0 .. N /\ k # 0
    BY <1>11
  <2>2. QED
    BY <1>10, <2>1
<1>13. \A k \in 0 .. N : reach[k] \in S
  <2> DEFINE A == {k \in 0 .. N : reach[k] \in S}
  <2> HIDE DEF S, head, Then
  <2>1. 0 \in A
    <3>1. reach[0] \in S
      BY <1>6, <1>12, Zenon
    <3>2. 0 \in 0 .. N
      BY <1>11
    <3>3. QED
      BY <3>1, <3>2
  <2>2. ASSUME NEW k \in 1 .. N, k - 1 \in A PROVE k \in A
    BY <1>6, <1>12, <2>2
  <2> HIDE DEF A
  <2>3. 0 .. N \subseteq A
    BY <1>11, <2>1, <2>2, UpFromZero
  <2>4. QED
    BY <2>3 DEF A
<1>14. \A b \in reach[N] \ {0} : h.hdr[b].next \in reach[N]
  <2>1. \A k \in 0 .. N : reach[k] \subseteq E
    BY <1>13
  <2>2. \A k \in 1 .. N : reach[k] = reach[k - 1] \cup {h.hdr[b].next : b \in reach[k - 1] \ {0}}
    BY <1>12 DEF block_null
  <2> HIDE DEF Then, S, G
  <2>3. QED
    BY <1>2, <1>12, <2>1, <2>2, GrowsToTheEnd
<1>15. PICK R : R = reach[N]
  OBVIOUS
<1>16. head \in R
  <2> DEFINE A == {k \in 0 .. N : head \in reach[k]}
  <2> HIDE DEF S, head
  <2>1. 0 \in A
    BY <1>11, <1>12
  <2>2. ASSUME NEW k \in 1 .. N, k - 1 \in A PROVE k \in A
    BY <1>12, <2>2
  <2> HIDE DEF A
  <2>3. 0 .. N \subseteq A
    BY <1>11, <2>1, <2>2, UpFromZero
  <2>4. N \in A
    BY <1>11, <2>3
  <2>5. QED
    BY <1>15, <2>4 DEF A
<1>17. R \subseteq G \cup {0}
  BY <1>11, <1>13, <1>15
<1>18. \A b \in R \ {0} : Nx(h, b) \in R
  BY <1>14, <1>15 DEF Nx
<1>19. G \subseteq R
  <2> DEFINE T == G \ R
  <2>1. SUFFICES ASSUME T # {} PROVE FALSE
    OBVIOUS
  <2>2. PICK b \in T : Pv(h, b) \notin T
    <3>1. T \in SUBSET F
      OBVIOUS
    <3> HIDE DEF T
    <3>2. QED
      BY <2>1, <3>1 DEF Lists
  <2>3. b \in F /\ At(h, b) = at /\ b \notin R /\ b # 0
    BY <2>2
  <2>4. CASE Pv(h, b) = 0
    <3>1. HeadOf(h, at) = b
      BY <2>3, <2>4 DEF Lists
    <3>2. HeadOf(h, at) = head
      BY DEF HeadOf
    <3>3. QED
      BY <1>16, <2>3, <3>1, <3>2
  <2>5. CASE Pv(h, b) # 0
    <3>1. PICK p : p = Pv(h, b)
      OBVIOUS
    <3>2. p \in F /\ p # 0 /\ Nx(h, p) = b
      BY <2>3, <2>5, <3>1 DEF Lists
    <3>3. At(h, b) = At(h, p)
      BY <2>3, <3>2 DEF Lists
    <3>4. p \in R
      BY <2>2, <2>3, <3>1, <3>2, <3>3
    <3>5. QED
      BY <1>18, <2>3, <3>2, <3>4
  <2>6. QED
    BY <2>4, <2>5
<1>20. \A b : b \in FreeList(h, at) <=> b \in G
  <2>1. FreeList(h, at) = R \ {0}
    BY <1>3, <1>15 DEF block_null
  <2>2. 0 \notin G
    OBVIOUS
  <2> HIDE DEF G
  <2>3. QED
    BY <1>17, <1>19, <2>1, <2>2
<1>21. QED
  BY <1>20

(* What tlsf_check looks at is so in every structure that is whole.        *)
LEMMA ShapePassesCheck ==
  ASSUME NEW D, IsFiniteSet(D), NEW h, NEW Pool, NEW V, Shape(D, h, Pool, {}, V)
  PROVE  tlsf_check(h)
<1>1. PICK Starts, Ends : Starts = FirstIn(Pool) /\ Ends = LastIn(Pool)
  OBVIOUS
<1>2. /\ D \subseteq Nat \ {0} /\ h \in Control(D \cup {0})
      /\ Tiles(D, h, Starts, Ends) /\ Flags(D, h, Starts, Ends) /\ FreeApart(D, h, Ends, {})
      /\ Lists(FreeIn(D, h) \ {}, h)
  BY <1>1 DEF Shape
<1>3. PICK F : F = FreeIn(D, h) \ {}
  OBVIOUS
<1>4. Lists(F, h) /\ F \subseteq D /\ 0 \notin F /\ F \cup {0} \subseteq D \cup {0}
  BY <1>2, <1>3 DEF FreeIn
<1>5. IsFiniteSet(D \cup {0})
  BY FS_AddElement
<1> SUFFICES ASSUME NEW i \in FL, NEW j \in SL, NEW list, list = FreeList(h, [fl |-> i, sl |-> j])
             PROVE  /\ j \in h.sl[i] => i \in h.fl
                    /\ j \in h.sl[i] <=> list # {}
                    /\ \A b \in list :
                         /\ h.hdr[b].free = 1 /\ h.hdr[b].prev_free = 0
                         /\ h.hdr[block_next(h, b)].free = 0 /\ h.hdr[block_next(h, b)].prev_free = 1
                         /\ h.hdr[b].size >= block_size_min
                         /\ mapping_insert(h.hdr[b].size) = [fl |-> i, sl |-> j]
  BY Zenon DEF tlsf_check
<1> PICK at : at = [fl |-> i, sl |-> j]
  OBVIOUS
<1>6. at.fl = i /\ at.sl = j
  OBVIOUS
<1>7. \A b : b \in list <=> b \in F /\ At(h, b) = at
  <2>1. list = FreeList(h, at)
    OBVIOUS
  <2>2. PICK E : E = D \cup {0}
    OBVIOUS
  <2>3. IsFiniteSet(E) /\ h \in Control(E) /\ F \cup {0} \subseteq E
    BY <1>2, <1>4, <1>5, <2>2
  <2>4. at = [fl |-> i, sl |-> j]
    OBVIOUS
  <2> HIDE DEF At
  <2>5. QED
    BY <1>4, <2>1, <2>3, <2>4, FreeListIs
<1>8. j \in h.sl[i] => i \in h.fl
  BY <1>4 DEF Lists
<1>9. ASSUME j \in h.sl[i] PROVE list # {}
  <2>1. PICK c : c = h.blocks[i][j] /\ c # 0
    BY <1>4, <1>9 DEF Lists
  <2>2. c \in F /\ At(h, c) = at
    BY <1>4, <2>1 DEF Lists
  <2>3. QED
    BY <1>7, <2>2
<1>10. ASSUME list # {} PROVE j \in h.sl[i]
  <2>1. list \in SUBSET F
    BY <1>7
  <2>2. PICK b \in list : Pv(h, b) \notin list
    BY <1>4, <1>10, <2>1 DEF Lists
  <2>3. b \in F /\ At(h, b) = at /\ b # 0
    BY <1>4, <1>7, <2>2
  <2>4. CASE Pv(h, b) = 0
    <3>1. HeadOf(h, At(h, b)) = b
      BY <1>4, <2>3, <2>4 DEF Lists
    <3>2. h.blocks[i][j] = b
      BY <1>6, <2>3, <3>1 DEF HeadOf
    <3>3. QED
      BY <1>4, <2>3, <3>2 DEF Lists
  <2>5. CASE Pv(h, b) # 0
    <3>1. PICK p : p = Pv(h, b)
      OBVIOUS
    <3>2. p \in F /\ p # 0 /\ Nx(h, p) = b
      BY <1>4, <2>3, <2>5, <3>1 DEF Lists
    <3>3. At(h, b) = At(h, p)
      BY <1>4, <2>3, <3>2 DEF Lists
    <3>4. QED
      BY <1>7, <2>2, <2>3, <3>1, <3>2, <3>3
  <2>6. QED
    BY <2>4, <2>5
<1>11. ASSUME NEW b \in list
       PROVE  /\ h.hdr[b].free = 1 /\ h.hdr[b].prev_free = 0
              /\ h.hdr[block_next(h, b)].free = 0 /\ h.hdr[block_next(h, b)].prev_free = 1
              /\ h.hdr[b].size >= block_size_min
              /\ mapping_insert(h.hdr[b].size) = [fl |-> i, sl |-> j]
  <2>1. b \in D /\ Fr(h, b) = 1 /\ At(h, b) = at
    BY <1>3, <1>7 DEF FreeIn
  <2>2. b \notin Ends
    BY <1>2, <2>1 DEF Flags
  <2>3. PICK n : n = block_next(h, b)
    OBVIOUS
  <2>4. n \in D /\ Pf(h, n) = 1 /\ Fr(h, n) \in {0, 1}
    BY <1>2, <2>1, <2>2, <2>3 DEF Tiles, Flags
  <2>5. Fr(h, n) # 1
    BY <1>2, <2>1, <2>2, <2>3 DEF FreeApart
  <2>6. Pf(h, b) = 0
    <3>1. ASSUME Pf(h, b) # 0 PROVE FALSE
      <4>1. PICK q \in D \ Ends : block_next(h, q) = b /\ Fr(h, q) = 1
        BY <1>1, <2>1, <3>1, PrevOfBlock
      <4>2. QED
        BY <1>2, <2>1, <4>1 DEF FreeApart
    <3>2. QED
      BY <3>1
  <2>7. Sz(h, b) >= block_size_min
    BY <1>2, <2>1, <2>2 DEF Tiles
  <2>8. QED
    BY <2>1, <2>3, <2>4, <2>5, <2>6, <2>7 DEF Fr, Pf, Sz, At
<1>12. QED
  BY <1>8, <1>9, <1>10, <1>11

(* No two pools have a byte in common.                                     *)
Separate(Pool) ==
  \A p, q \in Pool : p[1] < p[2] /\ (p = q \/ p[2] < q[1] \/ q[2] < p[1])

(* w are the blocks from f to the last one, l, in their order.             *)
WalksPool(D, h, f, l, w) ==
  \E n \in Nat \ {0} :
    /\ w \in [1 .. n -> D]
    /\ w[1] = f /\ block_next(h, w[n]) = l
    /\ \A k \in 2 .. n : w[k] = block_next(h, w[k - 1])
    /\ \A k \in 1 .. n : f <= w[k] /\ w[k] < l
    /\ \A b \in D : f <= b /\ b < l => \E k \in 1 .. n : w[k] = b

(* Between the ends of a pool no other pool ends.                          *)
LEMMA InsidePool ==
  ASSUME NEW D, NEW h, NEW Pool, NEW U, NEW V, Shape(D, h, Pool, U, V), Separate(Pool),
         NEW p \in Pool, NEW b \in D, p[1] <= b, b < p[2]
  PROVE  /\ b \in D \ LastIn(Pool) /\ Sz(h, b) # 0 /\ b \in Nat
         /\ block_next(h, b) \in D /\ b < block_next(h, b) /\ block_next(h, b) <= p[2]
         /\ \A c \in D : c <= b \/ block_next(h, b) <= c
<1> PICK f, l : f = p[1] /\ l = p[2]
  OBVIOUS
<1>1. PICK Starts, Ends : Starts = FirstIn(Pool) /\ Ends = LastIn(Pool)
  OBVIOUS
<1>2. /\ D \subseteq Nat \ {0} /\ h \in Control(D \cup {0}) /\ Tiles(D, h, Starts, Ends)
      /\ Pool \subseteq Nat \X Nat
  BY <1>1 DEF Shape
<1>3. b \notin Ends
  <2>1. ASSUME NEW q \in Pool, b = q[2] PROVE FALSE
    <3>1. q[1] < q[2] /\ (p = q \/ p[2] < q[1] \/ q[2] < p[1])
      BY DEF Separate
    <3>2. p[1] \in Nat /\ p[2] \in Nat /\ q[1] \in Nat /\ q[2] \in Nat
      BY <1>2
    <3>3. QED
      BY <2>1, <3>1, <3>2
  <2>2. QED
    BY <1>1, <2>1 DEF LastIn
<1>4. \A x \in D \ Ends : x < block_next(h, x)
  BY <1>2, NextAbove
<1>5. block_next(h, b) \in D /\ \A c \in D : c <= b \/ block_next(h, b) <= c
  BY <1>2, <1>3 DEF Tiles
<1>6. Sz(h, b) # 0
  <2>1. Sz(h, b) >= block_size_min
    BY <1>2, <1>3 DEF Tiles
  <2>2. PICK w \in Nat : w = Word /\ w > 0 /\ block_size_min = 3 * w
    BY Constants, Sizes
  <2>3. QED
    BY <2>1, <2>2
<1>7. l \in D /\ l \in Nat /\ b \in Nat
  BY <1>1, <1>2 DEF Tiles, LastIn
<1>8. block_next(h, b) <= l
  <2>1. ~(l <= b)
    BY <1>7
  <2>2. QED
    BY <1>5, <1>7, <2>1
<1>9. QED
  BY <1>1, <1>3, <1>4, <1>5, <1>6, <1>7, <1>8

LEMMA WalkIs ==
  ASSUME NEW D, IsFiniteSet(D), NEW h, NEW Pool, NEW U, NEW V, Shape(D, h, Pool, U, V),
         Separate(Pool), NEW p \in Pool, NEW f, f = p[1], NEW l, l = p[2],
         NEW pool, f = pool - overhead, NEW w, w = tlsf_walk_pool(h, pool)
  PROVE  WalksPool(D, h, f, l, w)
<1>1. PICK Starts, Ends : Starts = FirstIn(Pool) /\ Ends = LastIn(Pool)
  OBVIOUS
<1>2. /\ D \subseteq Nat \ {0} /\ h \in Control(D \cup {0}) /\ Tiles(D, h, Starts, Ends)
      /\ Pool \subseteq Nat \X Nat
  BY <1>1 DEF Shape
<1>3. f \in D /\ l \in D /\ l \in Ends /\ f \in Nat /\ l \in Nat /\ f < l
  <2>1. f \in D /\ l \in D /\ l \in Ends
    BY <1>1, <1>2 DEF Tiles, FirstIn, LastIn
  <2>2. p[1] < p[2]
    BY DEF Separate
  <2>3. QED
    BY <1>2, <2>1, <2>2
<1>4. PICK E : E = D \cup {0}
  OBVIOUS
<1>5. PICK N : N = Cardinality(DOMAIN h.hdr)
  OBVIOUS
<1>6. DOMAIN h.hdr = E /\ IsFiniteSet(E) /\ N \in Nat /\ N = Cardinality(E)
  <2>1. DOMAIN h.hdr = E
    BY <1>2, <1>4 DEF Control
  <2>2. IsFiniteSet(E)
    BY <1>4, FS_AddElement
  <2>3. QED
    BY <1>5, <2>1, <2>2, FS_CardinalityType
<1> DEFINE at[n \in 0 .. N] ==
             IF n = 0 THEN pool - overhead
             ELSE LET b == at[n - 1] IN IF IsBlock(h, b) THEN block_next(h, b) ELSE b
           T == {n \in 0 .. N : ~IsBlock(h, at[n]) \/ IsLast(h, at[n])}
           end == Min(T)
           Then(b) == IF IsBlock(h, b) THEN block_next(h, b) ELSE b
<1>7. w = [n \in 1 .. IF IsLast(h, at[end]) THEN end ELSE end + 1 |-> at[n - 1]]
  <2> DEFINE N1 == Cardinality(DOMAIN h.hdr)
             at1[n \in 0 .. N1] ==
               IF n = 0 THEN pool - overhead
               ELSE LET b == at1[n - 1] IN IF IsBlock(h, b) THEN block_next(h, b) ELSE b
             end1 == Min({n \in 0 .. N1 : ~IsBlock(h, at1[n]) \/ IsLast(h, at1[n])})
  <2>1. w = [n \in 1 .. IF IsLast(h, at1[end1]) THEN end1 ELSE end1 + 1 |-> at1[n - 1]]
    BY Zenon DEF tlsf_walk_pool
  <2>2. N1 = N
    BY <1>5
  <2> HIDE DEF N1
  <2>3. at1 = at
    BY <2>2
  <2> HIDE DEF at1, at
  <2>4. end1 = end
    BY <2>2, <2>3
  <2> HIDE DEF end1, end
  <2>5. QED
    BY <2>1, <2>3, <2>4
<1>8. \A b \in Nat : Then(b) \in Nat
  <2>1. SUFFICES ASSUME NEW b \in Nat, IsBlock(h, b) PROVE block_next(h, b) \in Nat
    OBVIOUS
  <2>2. b \in E /\ h \in Control(E)
    BY <1>2, <1>4, <1>6, <2>1 DEF IsBlock
  <2>3. Sz(h, b) \in Nat
    BY <2>2, Typed
  <2>4. QED
    BY <2>3, NextIs
<1>9. PICK r \in [0 .. N -> Nat] : Runs(r, f, [x \in (1 .. N) \X Nat |-> Then(x[2])], N)
  <2> DEFINE step == [x \in (1 .. N) \X Nat |-> Then(x[2])]
  <2> HIDE DEF Then
  <2>1. step \in [(1 .. N) \X Nat -> Nat]
    BY <1>8
  <2> HIDE DEF step
  <2>2. \E r \in [0 .. N -> Nat] : Runs(r, f, step, N)
    BY <1>3, <1>6, <2>1, RecursionExists
  <2>3. QED
    BY <2>2 DEF step
<1>10. r[0] = f /\ \A k \in 1 .. N : r[k] = Then(r[k - 1])
  <2> HIDE DEF Then
  <2>1. ASSUME NEW k \in 1 .. N PROVE r[k - 1] \in Nat
    BY <1>6
  <2>2. ASSUME NEW k \in 1 .. N
        PROVE  [x \in (1 .. N) \X Nat |-> Then(x[2])][<<k, r[k - 1]>>] = Then(r[k - 1])
    BY <2>1
  <2>3. QED
    BY <1>9, <2>2 DEF Runs
<1>11. r = [n \in 0 .. N |-> IF n = 0 THEN pool - overhead
                             ELSE LET b == r[n - 1] IN IF IsBlock(h, b) THEN block_next(h, b) ELSE b]
  <2>1. \A n \in 0 .. N : n # 0 => n \in 1 .. N
    BY <1>6
  <2>2. \A n \in 0 .. N : r[n] = IF n = 0 THEN pool - overhead ELSE Then(r[n - 1])
    <3> HIDE DEF Then
    <3>1. QED
      BY <1>10, <2>1
  <2>3. r = [n \in 0 .. N |-> IF n = 0 THEN pool - overhead ELSE Then(r[n - 1])]
    <3> HIDE DEF Then
    <3>1. QED
      BY <1>9, <2>2
  <2>4. QED
    BY <2>3
<1>12. at = [n \in 0 .. N |-> IF n = 0 THEN pool - overhead
                             ELSE LET b == at[n - 1] IN IF IsBlock(h, b) THEN block_next(h, b) ELSE b]
  BY <1>11, Zenon
<1> HIDE DEF at
<1>13. at[0] = f /\ \A k \in 1 .. N : at[k] = Then(at[k - 1])
  <2>1. 0 \in 0 .. N /\ \A k \in 1 .. N : k \in 0 .. N /\ k # 0
    BY <1>6
  <2> HIDE DEF Then
  <2>2. at = [n \in 0 .. N |-> IF n = 0 THEN pool - overhead ELSE Then(at[n - 1])]
    BY <1>12 DEF Then
  <2>3. QED
    BY <2>1, <2>2
<1> HIDE DEF Then
<1>14. ASSUME NEW b \in D, f <= b, b < l
       PROVE  /\ ~IsLast(h, b) /\ IsBlock(h, b) /\ Then(b) = block_next(h, b) /\ b \in Nat
              /\ Then(b) \in D /\ b < Then(b) /\ Then(b) <= l
              /\ \A c \in D : c <= b \/ Then(b) <= c
  <2>1. /\ Sz(h, b) # 0 /\ block_next(h, b) \in D /\ b < block_next(h, b) /\ block_next(h, b) <= l
        /\ b \in Nat /\ \A c \in D : c <= b \/ block_next(h, b) <= c
    <3>1. p[1] <= b /\ b < p[2]
      BY <1>14
    <3>2. QED
      BY <3>1, InsidePool
  <2>2. IsBlock(h, b)
    BY <1>4, <1>6 DEF IsBlock
  <2>3. ~IsLast(h, b)
    BY <2>1 DEF IsLast, Sz
  <2>4. Then(b) = block_next(h, b)
    BY <2>2 DEF Then
  <2>5. QED
    BY <2>1, <2>2, <2>3, <2>4
<1>15. IsLast(h, l)
  <2>1. Sz(h, l) = 0
    BY <1>2, <1>3 DEF Tiles
  <2>2. QED
    BY <1>3, <1>4, <1>6, <2>1 DEF IsLast, IsBlock, Sz
<1> DEFINE Behind(k) == {c \in D : c <= at[k]}
           Going(k) == at[k] \in D /\ f <= at[k] /\ at[k] < l /\ Cardinality(Behind(k)) >= k + 1
           A == {k \in 0 .. N : Going(k) \/ \E m \in 0 .. k : at[m] = l}
<1>16. \A k \in 0 .. N : IsFiniteSet(Behind(k)) /\ Cardinality(Behind(k)) \in Nat
  BY FS_Subset, FS_CardinalityType
<1>17. 0 \in A
  <2>1. f \in Behind(0)
    BY <1>3, <1>13
  <2> HIDE DEF Behind
  <2>2. 0 \in 0 .. N
    BY <1>6
  <2>3. Cardinality(Behind(0)) # 0
    BY <1>16, <2>1, <2>2, FS_EmptySet
  <2>4. Cardinality(Behind(0)) >= 0 + 1
    BY <1>16, <2>3, <2>2
  <2>5. QED
    BY <1>3, <1>13, <2>2, <2>4
<1>18. ASSUME NEW k \in 1 .. N, k - 1 \in A PROVE k \in A
  <2>1. CASE \E m \in 0 .. k - 1 : at[m] = l
    BY <2>1
  <2>2. CASE Going(k - 1)
    <3> HIDE DEF Behind
    <3>1. PICK b : b = at[k - 1]
      OBVIOUS
    <3>2. b = at[k - 1] /\ b \in D /\ f <= b /\ b < l /\ Cardinality(Behind(k - 1)) >= k
      <4>1. (k - 1) + 1 = k
        OBVIOUS
      <4>2. QED
        BY <2>2, <3>1, <4>1
    <3> USE DEF Behind
    <3>3. PICK c : c = Then(b)
      OBVIOUS
    <3>4. at[k] = c
      BY <1>13, <3>2, <3>3
    <3>5. b \in Nat /\ c \in D /\ b < c /\ c <= l /\ c \in Nat
      BY <1>2, <1>14, <3>2, <3>3
    <3>6. CASE c = l
      BY <3>4, <3>6
    <3>7. CASE c # l
      <4>1. c < l /\ f <= c
        BY <1>3, <3>2, <3>5, <3>7
      <4>2. Behind(k - 1) \in SUBSET Behind(k) /\ c \in Behind(k) /\ c \notin Behind(k - 1)
        <5>1. ASSUME NEW x \in D, x <= b PROVE x <= c
          BY <1>2, <3>5, <5>1
        <5>2. ~(c <= b) /\ c <= c
          BY <3>5
        <5>3. QED
          BY <3>2, <3>4, <3>5, <5>1, <5>2
      <4>3. k - 1 \in 0 .. N /\ k \in 0 .. N
        BY <1>6
      <4> HIDE DEF Behind
      <4>4. /\ Cardinality(Behind(k - 1)) <= Cardinality(Behind(k))
            /\ Cardinality(Behind(k)) # Cardinality(Behind(k - 1))
        BY <1>16, <4>2, <4>3, FS_Subset
      <4>5. Cardinality(Behind(k)) >= k + 1
        <5>1. Cardinality(Behind(k - 1)) \in Nat /\ Cardinality(Behind(k)) \in Nat
          BY <1>16, <4>3
        <5>2. QED
          BY <3>2, <4>4, <5>1
      <4>6. QED
        BY <3>4, <3>5, <4>1, <4>3, <4>5
    <3>8. QED
      BY <3>6, <3>7
  <2> HIDE DEF Going
  <2>3. QED
    BY <1>18, <2>1, <2>2
<1> HIDE DEF A
<1>19. 0 .. N \subseteq A
  BY <1>6, <1>17, <1>18, UpFromZero
<1>20. T # {}
  <2>1. N \in 0 .. N /\ N \in A
    BY <1>6, <1>19
  <2>2. ~(Cardinality(Behind(N)) >= N + 1)
    <3>1. Behind(N) \in SUBSET E
      BY <1>4
    <3>2. Cardinality(Behind(N)) <= N
      BY <1>6, <3>1, FS_Subset
    <3> HIDE DEF Behind
    <3>3. QED
      BY <1>6, <1>16, <2>1, <3>2
  <2>3. PICK m \in 0 .. N : at[m] = l
    BY <2>1, <2>2 DEF A
  <2>4. m \in T
    BY <1>15, <2>3
  <2>5. QED
    BY <2>4
<1>21. end \in T /\ \A n \in T : end <= n
  <2>1. T \subseteq Nat
    BY <1>6
  <2> HIDE DEF T
  <2>2. QED
    BY <1>20, <2>1, MinOfSome
<1> HIDE DEF end
<1>22. end \in 0 .. N
  BY <1>21
<1>23. \A m \in 0 .. N : at[m] = l => end <= m
  BY <1>15, <1>21
<1>24. at[end] = l
  <2>1. end \in A
    BY <1>19, <1>22
  <2>2. ~Going(end)
    BY <1>14, <1>21
  <2> HIDE DEF Going
  <2>3. PICK m \in 0 .. end : at[m] = l
    BY <2>1, <2>2 DEF A
  <2>4. m \in 0 .. N /\ end <= m
    BY <1>6, <1>22, <1>23, <2>3
  <2>5. m = end
    BY <1>6, <1>22, <2>4
  <2>6. QED
    BY <2>3, <2>5
<1>25. ASSUME NEW k \in 0 .. N, k < end PROVE at[k] \in D /\ f <= at[k] /\ at[k] < l
  <2>1. k \in A
    BY <1>19
  <2>2. ~ \E m \in 0 .. k : at[m] = l
    <3>1. ASSUME NEW m \in 0 .. k, at[m] = l PROVE FALSE
      <4>1. m \in 0 .. N
        BY <1>6
      <4>2. end <= m
        BY <1>23, <3>1, <4>1
      <4>3. QED
        BY <1>6, <1>22, <1>25, <4>2
    <3>2. QED
      BY <3>1
  <2>3. Going(k)
    BY <2>1, <2>2 DEF A
  <2>4. QED
    BY <2>3
<1>26. end \in Nat \ {0}
  BY <1>3, <1>13, <1>22, <1>24, <1>6
<1>27. w = [n \in 1 .. end |-> at[n - 1]]
  BY <1>7, <1>15, <1>24
<1>28. ASSUME NEW k \in 1 .. end
       PROVE  w[k] = at[k - 1] /\ w[k] \in D /\ f <= w[k] /\ w[k] < l
  <2>1. k - 1 \in 0 .. N /\ k - 1 < end
    BY <1>6, <1>22
  <2>2. w[k] = at[k - 1]
    BY <1>27
  <2>3. QED
    BY <1>25, <2>1, <2>2
<1>29. ASSUME NEW k \in 1 .. end PROVE at[k] = block_next(h, w[k])
  <2>1. k \in 1 .. N
    BY <1>6, <1>22
  <2>2. at[k] = Then(at[k - 1])
    BY <1>13, <2>1
  <2>3. QED
    BY <1>14, <1>28, <2>2
<1>30. w[1] = f /\ block_next(h, w[end]) = l
  <2>1. 1 \in 1 .. end /\ end \in 1 .. end
    BY <1>26
  <2>2. w[1] = at[1 - 1] /\ at[end] = block_next(h, w[end])
    BY <1>28, <1>29, <2>1
  <2>3. QED
    BY <1>13, <1>24, <2>2
<1>31. ASSUME NEW k \in 2 .. end PROVE w[k] = block_next(h, w[k - 1])
  <2>1. k \in 1 .. end /\ k - 1 \in 1 .. end
    BY <1>26
  <2>2. QED
    BY <1>28, <1>29, <2>1
<1>32. ASSUME NEW b \in D, f <= b, b < l PROVE \E k \in 1 .. end : w[k] = b
  <2> DEFINE M == {n \in 0 .. end : b < at[n]}
  <2>1. M \subseteq Nat /\ M # {}
    <3>1. end \in M
      BY <1>24, <1>26, <1>32
    <3>2. QED
      BY <1>26, <3>1
  <2> HIDE DEF M
  <2>2. PICK m \in M : \A n \in M : m <= n
    BY <2>1, Least
  <2>3. m \in 0 .. end /\ b < at[m]
    BY <2>2 DEF M
  <2>4. m # 0
    BY <1>2, <1>3, <1>13, <1>32, <2>3
  <2>5. m \in 1 .. end /\ m - 1 \in 0 .. end /\ ~(m <= m - 1)
    BY <1>26, <2>3, <2>4
  <2>6. ~(b < at[m - 1])
    BY <2>2, <2>5 DEF M
  <2>7. PICK c \in D : c = w[m] /\ c = at[m - 1] /\ f <= c /\ c < l
    BY <1>28, <2>5
  <2>8. at[m] = block_next(h, c) /\ Then(c) = block_next(h, c)
    BY <1>14, <1>29, <2>5, <2>7
  <2>9. b <= c \/ at[m] <= b
    BY <1>14, <2>7, <2>8
  <2>10. at[m] \in Nat
    BY <1>2, <1>14, <2>7, <2>8
  <2>11. b = c
    BY <1>2, <2>3, <2>6, <2>7, <2>9, <2>10
  <2>12. QED
    BY <2>5, <2>7, <2>11
<1>33. w \in [1 .. end -> D]
  <2>1. \A k \in 1 .. end : at[k - 1] \in D
    BY <1>28
  <2>2. QED
    BY <1>27, <2>1
<1>34. QED
  BY <1>26, <1>28, <1>30, <1>31, <1>32, <1>33 DEF WalksPool

(* What the walk over a pool shows.                                        *)
LEMMA WalkShows ==
  ASSUME NEW D, IsFiniteSet(D), NEW h, NEW Pool, NEW V, Shape(D, h, Pool, {}, V),
         Separate(Pool), NEW p \in Pool, NEW pool, p[1] = pool - overhead,
         NEW w, w = tlsf_walk_pool(h, pool)
  PROVE  /\ tlsf_check_pool(h, pool)
         /\ block_next(h, w[Len(w)]) = p[2]
         /\ \A n \in DOMAIN w : w[n] \in D \ LastIn(Pool) /\ p[1] <= w[n] /\ w[n] < p[2]
         /\ \A b \in D : p[1] <= b /\ b < p[2] => \E n \in DOMAIN w : w[n] = b
         /\ \A n \in DOMAIN w : h.hdr[w[n]].free = 1 =>
              w[n] \in FreeList(h, mapping_insert(h.hdr[w[n]].size))
<1> PICK f, l : f = p[1] /\ l = p[2]
  OBVIOUS
<1>1. PICK Starts, Ends : Starts = FirstIn(Pool) /\ Ends = LastIn(Pool)
  OBVIOUS
<1>2. /\ D \subseteq Nat \ {0} /\ h \in Control(D \cup {0}) /\ Tiles(D, h, Starts, Ends)
      /\ Flags(D, h, Starts, Ends) /\ Pool \subseteq Nat \X Nat /\ Lists(FreeIn(D, h) \ {}, h)
  BY <1>1 DEF Shape
<1>3. WalksPool(D, h, f, l, w)
  <2>1. f = pool - overhead
    OBVIOUS
  <2>2. QED
    BY <2>1, WalkIs
<1>4. PICK n \in Nat \ {0} :
        /\ w \in [1 .. n -> D]
        /\ w[1] = f /\ block_next(h, w[n]) = l
        /\ \A k \in 2 .. n : w[k] = block_next(h, w[k - 1])
        /\ \A k \in 1 .. n : f <= w[k] /\ w[k] < l
        /\ \A b \in D : f <= b /\ b < l => \E k \in 1 .. n : w[k] = b
  BY <1>3 DEF WalksPool
<1>5. DOMAIN w = 1 .. n /\ Len(w) = n
  <2>1. w \in Seq(D) /\ DOMAIN w = 1 .. n
    BY <1>4
  <2>2. QED
    BY <1>4, <2>1
<1>6. \A k \in 1 .. n : w[k] \in D \ Ends
  <2>1. SUFFICES ASSUME NEW k \in 1 .. n PROVE w[k] \in D \ Ends
    OBVIOUS
  <2>2. PICK b \in D : b = w[k] /\ p[1] <= b /\ b < p[2]
    BY <1>4
  <2>3. QED
    BY <1>1, <2>2, InsidePool
<1>7. DOMAIN h.hdr = D \cup {0}
  BY <1>2 DEF Control
<1>8. tlsf_check_pool(h, pool)
  <2>1. ASSUME NEW k \in 1 .. n
        PROVE  /\ w[k] \in DOMAIN h.hdr
               /\ h.hdr[w[k]].prev_free = IF k = 1 THEN 0 ELSE h.hdr[w[k - 1]].free
    <3>1. w[k] \in D
      BY <1>6
    <3>2. CASE k = 1
      <4>1. f \in Starts
        BY <1>1 DEF FirstIn
      <4>2. Pf(h, f) = 0
        BY <1>2, <4>1 DEF Flags
      <4>3. QED
        BY <1>4, <1>7, <3>1, <3>2, <4>2 DEF Pf
    <3>3. CASE k # 1
      <4>1. k \in 2 .. n /\ k - 1 \in 1 .. n
        BY <3>3
      <4>2. PICK b : b = w[k - 1] /\ b \in D \ Ends
        BY <1>6, <4>1
      <4>3. w[k] = block_next(h, b)
        BY <1>4, <4>1, <4>2
      <4>4. Pf(h, block_next(h, b)) = Fr(h, b)
        BY <1>2, <4>2 DEF Flags
      <4>5. h.hdr[w[k]].prev_free = h.hdr[w[k - 1]].free
        BY <4>2, <4>3, <4>4 DEF Pf, Fr
      <4>6. QED
        BY <1>7, <3>1, <3>3, <4>5
    <3>4. QED
      BY <3>2, <3>3
  <2>2. tlsf_check_pool(h, pool) =
          \A k \in DOMAIN w : /\ w[k] \in DOMAIN h.hdr
                              /\ h.hdr[w[k]].prev_free = IF k = 1 THEN 0 ELSE h.hdr[w[k - 1]].free
    BY Zenon DEF tlsf_check_pool
  <2>3. QED
    BY <1>5, <2>1, <2>2
<1>9. block_next(h, w[Len(w)]) = p[2]
  BY <1>4, <1>5
<1>10. \A k \in DOMAIN w : w[k] \in D \ LastIn(Pool) /\ p[1] <= w[k] /\ w[k] < p[2]
  BY <1>1, <1>4, <1>5, <1>6
<1>11. \A b \in D : p[1] <= b /\ b < p[2] => \E k \in DOMAIN w : w[k] = b
  BY <1>4, <1>5
<1>12. ASSUME NEW k \in DOMAIN w, h.hdr[w[k]].free = 1
       PROVE  w[k] \in FreeList(h, mapping_insert(h.hdr[w[k]].size))
  <2>1. PICK F : F = FreeIn(D, h) \ {}
    OBVIOUS
  <2>2. Lists(F, h) /\ F \subseteq D /\ 0 \notin F
    BY <1>2, <2>1 DEF FreeIn
  <2>3. PICK E : E = D \cup {0}
    OBVIOUS
  <2>4. IsFiniteSet(E) /\ h \in Control(E) /\ F \cup {0} \subseteq E
    BY <1>2, <2>2, <2>3, FS_AddElement
  <2>5. PICK b : b = w[k]
    OBVIOUS
  <2>6. b \in D /\ b \in F
    BY <1>5, <1>6, <1>12, <2>1, <2>5 DEF FreeIn, Fr
  <2>7. PICK at : at = At(h, b)
    OBVIOUS
  <2>8. PICK i, j : i = at.fl /\ j = at.sl
    OBVIOUS
  <2>9. i \in FL /\ j \in SL
    BY <2>2, <2>6, <2>7, <2>8 DEF Lists
  <2>10. at = [fl |-> i, sl |-> j]
    BY <2>7, <2>8 DEF At, mapping_insert
  <2>11. PICK list : list = FreeList(h, at)
    OBVIOUS
  <2>12. b \in list
    <3>1. \A x : x \in list <=> x \in F /\ At(h, x) = at
      BY <2>2, <2>4, <2>9, <2>10, <2>11, FreeListIs
    <3>2. QED
      BY <2>6, <2>7, <3>1
  <2>13. QED
    BY <2>5, <2>7, <2>11, <2>12 DEF At, Sz
<1>13. QED
  BY <1>8, <1>9, <1>10, <1>11, <1>12

-----------------------------------------------------------------------------
(***************************************************************************)
(* The heap: every arena is a pool.                                        *)
(***************************************************************************)

(* The first block of an arena and the last one.                           *)
PoolOf(r) == <<r.pool - overhead, r.pool + AlignDown(r.bytes - 2 * pool_overhead, Word)>>
ArenaPools == {PoolOf(arena[a]) : a \in DOMAIN arena}

(* The k-th arena that the system has given. *)
IsArena(r, k) ==
  \E size \in Size : r = [base |-> ArenaSpan * k, pool |-> ArenaSpan * k + arena_header,
                          bytes |-> SystemSize(size)]

Arenas == /\ arena \in Seq([base : Nat, pool : Nat, bytes : Nat])
          /\ \A a \in DOMAIN arena : IsArena(arena[a], Len(arena) + 1 - a)

Blocks == DOMAIN tlsf.hdr \ {0}
Used == UsedIn(Blocks, tlsf, LastIn(ArenaPools))

(* What callers hold, l, are the blocks of V, with room for the callstack. *)
Holding(l, h, V) ==
  /\ DOMAIN l = {Ptr(b) : b \in V}
  /\ \A b \in V : l[Ptr(b)].size \in Nat /\ l[Ptr(b)].size + callstack_size <= Sz(h, b)

(* Between any two calls: the arenas are where the system has put them,    *)
(* their blocks tile them, every free block is in the list of its size,    *)
(* no two free blocks are neighbours, and the blocks that are in no list   *)
(* are the ones callers hold.  Each call needs all of it: what             *)
(* block_merge_prev and remove_free_block read of the neighbours and of    *)
(* the list is right only if every header in every arena is.               *)
HeapInv ==
  /\ Arenas
  /\ Shape(Blocks, tlsf, ArenaPools, {}, Used)
  /\ created => Holding(live, tlsf, Used)

LEMMA HeapSizes ==
  /\ arena_header = 2 * Word /\ pool_overhead = 2 * Word /\ callstack_size = 2 * Word
BY Sizes DEF arena_header, pool_overhead, callstack_size

(* Where an arena and its pool lie. *)
LEMMA ArenaLies ==
  ASSUME NEW k \in Nat, NEW r, IsArena(r, k), NEW p, p = PoolOf(r),
         NEW w \in Nat, w = Word
  PROVE  /\ r.base = ArenaSpan * k /\ r.base \in Nat /\ r.bytes \in Nat /\ r.pool = r.base + 2 * w
         /\ r.base + r.bytes <= r.base + ArenaSpan
         /\ p[1] \in Nat /\ p[2] \in Nat /\ p[1] = r.base + w /\ p[1] < p[2]
         /\ p[2] + 2 * w <= r.base + r.bytes /\ r.base + r.bytes < p[2] + 3 * w
         /\ Multiple(r.pool, Word)
<1>1. PICK size \in Size : r = [base |-> ArenaSpan * k, pool |-> ArenaSpan * k + arena_header,
                                bytes |-> SystemSize(size)]
  BY DEF IsArena
<1>2. w > 0 /\ arena_header = 2 * w /\ pool_overhead = 2 * w /\ overhead = w /\ block_size_min = 3 * w
  BY Constants, HeapSizes, Sizes
<1>3. /\ size \in Nat /\ grow_increment \in Nat /\ ArenaSpan \in Nat /\ ArenaSpan % w = 0
      /\ SystemSize(size) <= ArenaSpan /\ AcceptsPool(ArenaSize(size))
  BY HeapAssumption
<1>4. PICK m \in Nat : m = Max({grow_increment, size * 2})
  BY <1>3, MaxOfTwo
<1>5. PICK base \in Nat : base = ArenaSpan * k
  BY <1>3
<1>6. ArenaSize(size) = m + 2 * w /\ SystemSize(size) = m + 4 * w
  BY <1>2, <1>4 DEF ArenaSize, SystemSize
<1>7. r.base = base /\ r.pool = base + 2 * w /\ r.bytes = m + 4 * w
  BY <1>1, <1>2, <1>5, <1>6
<1>8. PICK d \in Nat : d = AlignDown(m, Word) /\ d <= m /\ m < d + w
  BY <1>4, AlignsDown
<1>9. p[1] = base + w /\ p[2] = base + 2 * w + d
  <2>1. r.bytes - 2 * pool_overhead = m
    BY <1>2, <1>7
  <2>2. p[1] = r.pool - overhead /\ p[2] = r.pool + d
    BY <1>8, <2>1 DEF PoolOf
  <2>3. QED
    BY <1>2, <1>7, <2>2
<1>10. d >= 3 * w
  <2>1. ArenaSize(size) - pool_overhead = m
    BY <1>2, <1>6
  <2>2. PoolSize(ArenaSize(size)) = d
    BY <1>8, <2>1 DEF PoolSize
  <2>3. d \in block_size_min .. block_size_max
    BY <1>3, <2>2 DEF AcceptsPool
  <2>4. QED
    BY <1>2, <2>3
<1>11. Multiple(r.pool, Word)
  <2>1. Multiple(ArenaSpan, Word)
    <3>1. PICK q : q = ArenaSpan \div w
      OBVIOUS
    <3>2. q \in Nat /\ ArenaSpan = w * q
      BY <1>2, <1>3, <3>1
    <3>3. QED
      BY <3>2 DEF Multiple
  <2>2. Multiple(base, Word)
    <3>1. Multiple(base, ArenaSpan)
      BY <1>5 DEF Multiple
    <3>2. QED
      BY <2>1, <3>1, MultipleOfMultiple
  <2>3. Multiple(2 * w, Word)
    <3>1. 2 * w = w * 2
      OBVIOUS
    <3>2. QED
      BY <3>1 DEF Multiple
  <2>4. PICK x \in Nat : x = 2 * w
    OBVIOUS
  <2>5. Multiple(base + x, Word)
    BY <2>2, <2>3, <2>4, MultiplesSum
  <2>6. QED
    BY <1>7, <2>4, <2>5
<1>12. r.base + r.bytes <= r.base + ArenaSpan
  BY <1>3, <1>6, <1>7
<1>13. QED
  BY <1>2, <1>5, <1>7, <1>8, <1>9, <1>10, <1>11, <1>12

(* Different arenas are apart. *)
LEMMA SpansApart ==
  ASSUME NEW j \in Nat, NEW k \in Nat, j < k
  PROVE  ArenaSpan * j + ArenaSpan <= ArenaSpan * k
<1>1. PICK s \in Nat : s = ArenaSpan
  BY HeapAssumption
<1>2. \A d, e \in Nat : d >= e => s * d >= s * e
  OBVIOUS
<1>3. s * (j + 1) = s * j + s
  OBVIOUS
<1>4. s * k >= s * (j + 1)
  BY <1>2
<1>5. s * j \in Nat /\ s * k \in Nat
  OBVIOUS
<1>6. QED
  BY <1>1, <1>3, <1>4, <1>5

LEMMA PoolsSeparate ==
  ASSUME Arenas
  PROVE  /\ ArenaPools \subseteq Nat \X Nat /\ Separate(ArenaPools)
         /\ \A p \in ArenaPools : p[1] < p[2] /\ p[2] < ArenaSpan * (Len(arena) + 1)
<1>1. PICK w \in Nat : w = Word /\ w > 0
  BY Constants
<1>2. PICK n \in Nat : n = Len(arena)
  BY DEF Arenas
<1>3. \A a \in DOMAIN arena : IsArena(arena[a], n + 1 - a) /\ n + 1 - a \in Nat /\ n + 1 - a < n + 1
  BY <1>2 DEF Arenas
<1>4. PICK s \in Nat : s = ArenaSpan
  BY HeapAssumption
<1>5. ASSUME NEW a \in DOMAIN arena, NEW p, p = PoolOf(arena[a])
      PROVE  /\ p[1] \in Nat /\ p[2] \in Nat /\ p[1] < p[2]
             /\ s * (n + 1 - a) \in Nat /\ s * (n + 1 - a) < p[1] /\ p[2] < s * (n + 1 - a) + s
  <2>1. PICK k \in Nat : k = n + 1 - a
    BY <1>3
  <2>2. PICK r : r = arena[a] /\ IsArena(r, k)
    BY <1>3, <2>1
  <2>3. PICK m : m = s * k
    OBVIOUS
  <2>4. PICK e \in Nat : e = r.bytes
    BY <1>1, <1>5, <2>2, ArenaLies
  <2>5. r.base = ArenaSpan * k /\ r.base \in Nat /\ r.base + r.bytes <= r.base + ArenaSpan
        /\ p[1] \in Nat /\ p[2] \in Nat /\ p[1] = r.base + w /\ p[1] < p[2]
        /\ p[2] + 2 * w <= r.base + r.bytes
    BY <1>1, <1>5, <2>2, ArenaLies
  <2>6. r.base = m
    BY <1>4, <2>3, <2>5
  <2>7. m \in Nat /\ m < p[1] /\ p[2] < m + s
    BY <1>1, <1>4, <2>4, <2>5, <2>6
  <2>8. QED
    BY <2>1, <2>3, <2>5, <2>7
<1>6. ArenaPools \subseteq Nat \X Nat
  <2>1. ASSUME NEW a \in DOMAIN arena PROVE PoolOf(arena[a]) \in Nat \X Nat
    <3>1. PICK p : p = PoolOf(arena[a])
      OBVIOUS
    <3>2. p[1] \in Nat /\ p[2] \in Nat
      BY <1>5, <3>1
    <3>3. QED
      BY <3>1, <3>2 DEF PoolOf
  <2>2. QED
    BY <2>1 DEF ArenaPools
<1>7. ASSUME NEW a \in DOMAIN arena, NEW p, p = PoolOf(arena[a]),
             NEW c \in DOMAIN arena, NEW q, q = PoolOf(arena[c]), a < c
      PROVE  q[2] < p[1]
  <2>1. PICK j, k : j = n + 1 - c /\ k = n + 1 - a
    OBVIOUS
  <2>2. j \in Nat /\ k \in Nat /\ j < k
    BY <1>2, <1>3, <1>7, <2>1 DEF Arenas
  <2>3. s * j + s <= s * k
    BY <1>4, <2>2, SpansApart
  <2>4. PICK x, y : x = s * j /\ y = s * k
    OBVIOUS
  <2>5. x \in Nat /\ y \in Nat /\ q[2] \in Nat /\ p[1] \in Nat /\ y < p[1] /\ q[2] < x + s
    BY <1>5, <1>7, <2>1, <2>4
  <2>6. QED
    BY <1>4, <2>3, <2>4, <2>5
<1>8. Separate(ArenaPools)
  <2>1. SUFFICES ASSUME NEW p \in ArenaPools, NEW q \in ArenaPools
                 PROVE  p[1] < p[2] /\ (p = q \/ p[2] < q[1] \/ q[2] < p[1])
    BY DEF Separate
  <2>2. PICK a \in DOMAIN arena : p = PoolOf(arena[a])
    BY DEF ArenaPools
  <2>3. PICK c \in DOMAIN arena : q = PoolOf(arena[c])
    BY DEF ArenaPools
  <2>4. a \in Int /\ c \in Int
    <3>1. PICK R : R = [base : Nat, pool : Nat, bytes : Nat]
      OBVIOUS
    <3>2. arena \in Seq(R)
      BY <3>1 DEF Arenas
    <3>3. DOMAIN arena = 1 .. Len(arena)
      BY <3>2
    <3>4. QED
      BY <3>3
  <2>5. CASE a = c
    BY <1>5, <2>2, <2>3, <2>5
  <2>6. CASE a # c
    BY <1>5, <1>7, <2>2, <2>3, <2>4, <2>6
  <2>7. QED
    BY <2>5, <2>6
<1>9. ASSUME NEW p \in ArenaPools PROVE p[1] < p[2] /\ p[2] < ArenaSpan * (Len(arena) + 1)
  <2>1. PICK a \in DOMAIN arena : p = PoolOf(arena[a])
    BY DEF ArenaPools
  <2>2. PICK j \in Nat : j = n + 1 - a /\ j < n + 1
    BY <1>3
  <2>3. s * j + s <= s * (n + 1)
    BY <1>4, <2>2, SpansApart
  <2>4. PICK x \in Nat : x = s * j
    BY <1>5, <2>1, <2>2
  <2>5. PICK y \in Nat : y = s * (n + 1)
    OBVIOUS
  <2>6. p[2] \in Nat /\ p[2] < x + s /\ p[1] < p[2]
    BY <1>5, <2>1, <2>2, <2>4
  <2>7. QED
    BY <1>2, <1>4, <2>3, <2>4, <2>5, <2>6
<1>10. QED
  BY <1>6, <1>8, <1>9

LEMMA NothingShapes == Shape({}, control_construct, {}, {}, {})
<1> PICK h : h = control_construct
  OBVIOUS
<1>1. /\ h.fl = {} /\ h.sl = [i \in FL |-> {}] /\ h.blocks = [i \in FL |-> [j \in SL |-> 0]]
      /\ DOMAIN h.hdr = {0} /\ h \in Control({} \cup {0})
  <2>1. [size |-> 0, free |-> 0, prev_free |-> 0, prev_phys |-> NULL,
         next |-> block_null, prev |-> block_null] \in Header
    BY DEF Header, NULL, block_null
  <2>2. h = [fl |-> {}, sl |-> [i \in FL |-> {}], blocks |-> [i \in FL |-> [j \in SL |-> 0]],
             hdr |-> [b \in {0} |-> [size |-> 0, free |-> 0, prev_free |-> 0, prev_phys |-> NULL,
                                     next |-> block_null, prev |-> block_null]]]
    BY DEF control_construct, block_null
  <2>3. /\ h.fl = {} /\ h.sl = [i \in FL |-> {}] /\ h.blocks = [i \in FL |-> [j \in SL |-> 0]]
        /\ h.hdr = [b \in {0} |-> [size |-> 0, free |-> 0, prev_free |-> 0, prev_phys |-> NULL,
                                   next |-> block_null, prev |-> block_null]]
    BY <2>2
  <2>4. h.hdr \in [{0} -> Header] /\ h.sl \in [FL -> SUBSET SL] /\ h.blocks \in [FL -> [SL -> Int]]
        /\ h.fl \in SUBSET FL
    BY <2>1, <2>3
  <2>5. h = [fl |-> h.fl, sl |-> h.sl, blocks |-> h.blocks, hdr |-> h.hdr]
    BY <2>2, <2>3, Zenon
  <2>6. h \in Control({0})
    BY <2>4, <2>5 DEF Control
  <2>7. QED
    BY <2>3, <2>6
<1>2. Lists({}, h)
  BY <1>1 DEF Lists
<1>3. FreeIn({}, h) \ {} = {} /\ UsedIn({}, h, LastIn({})) = {} /\ FirstIn({}) = {} /\ LastIn({}) = {}
  BY DEF FreeIn, UsedIn, FirstIn, LastIn
<1>4. Tiles({}, h, {}, {}) /\ Flags({}, h, {}, {}) /\ FreeApart({}, h, {}, {}) /\ Within({}, {})
  BY DEF Tiles, Flags, FreeApart, Within
<1>5. QED
  BY <1>1, <1>2, <1>3, <1>4 DEF Shape

LEMMA ShapesBlocks ==
  ASSUME NEW D, NEW h, NEW Pool, NEW U, NEW V, Shape(D, h, Pool, U, V)
  PROVE  DOMAIN h.hdr \ {0} = D /\ UsedIn(D, h, LastIn(Pool)) = V
<1>1. D \subseteq Nat \ {0} /\ h \in Control(D \cup {0}) /\ UsedIn(D, h, LastIn(Pool)) = V
  BY DEF Shape
<1>2. DOMAIN h.hdr = D \cup {0}
  BY <1>1 DEF Control
<1>3. QED
  BY <1>1, <1>2

(* The blocks lie in the arenas. *)
LEMMA BlocksBounded ==
  ASSUME Arenas, NEW D, NEW h, NEW U, NEW V, Shape(D, h, ArenaPools, U, V)
  PROVE  IsFiniteSet(D) /\ \A c \in D : c < ArenaSpan * (Len(arena) + 1)
<1>1. PICK s \in Nat : s = ArenaSpan * (Len(arena) + 1)
  BY HeapAssumption DEF Arenas
<1>2. D \subseteq Nat \ {0} /\ Within(D, ArenaPools) /\ ArenaPools \subseteq Nat \X Nat
  BY DEF Shape
<1>3. \A c \in D : c < s
  <2>1. ASSUME NEW c \in D PROVE c < s
    <3>1. PICK p \in ArenaPools : c <= p[2]
      BY <1>2 DEF Within
    <3>2. p[2] < s /\ p[2] \in Nat /\ c \in Nat
      BY <1>1, <1>2, PoolsSeparate
    <3>3. QED
      BY <3>1, <3>2
  <2>2. QED
    BY <2>1
<1>4. \A c \in D : c <= s
  BY <1>2, <1>3
<1>5. IsFiniteSet(D)
  BY <1>2, <1>4, FS_BoundedSetOfNaturals
<1>6. QED
  BY <1>1, <1>3, <1>5

LEMMA HeapInvHolds ==
  ASSUME Arenas, NEW D, NEW V, Shape(D, tlsf, ArenaPools, {}, V),
         created => Holding(live, tlsf, V)
  PROVE  HeapInv
<1>1. Blocks = D /\ Used = V
  BY ShapesBlocks DEF Blocks, Used
<1>2. QED
  BY <1>1 DEF HeapInv

LEMMA PtrApart ==
  ASSUME NEW b \in Nat, NEW c \in Nat, Ptr(b) = Ptr(c)
  PROVE  b = c
<1>1. PICK w \in Nat : w = Word
  BY Constants
<1>2. b + 2 * w = c + 2 * w
  BY <1>1 DEF Ptr
<1>3. QED
  BY <1>2

LEMMA PtrIsNotNull ==
  ASSUME NEW b \in Nat
  PROVE  Ptr(b) # NULL
<1>1. PICK w \in Nat : w = Word /\ w > 0
  BY Constants
<1>2. QED
  BY <1>1 DEF Ptr, NULL

LEMMA StartsWhole ==
  ASSUME HeapInit
  PROVE  HeapInv
<1>1. arena = <<>> /\ tlsf = control_construct /\ live = <<>>
  BY DEF HeapInit
<1>2. Arenas
  BY <1>1 DEF Arenas
<1>3. ArenaPools = {}
  BY <1>1 DEF ArenaPools
<1>4. Shape({}, tlsf, ArenaPools, {}, {})
  BY <1>1, <1>3, NothingShapes
<1>5. Holding(live, tlsf, {})
  BY <1>1 DEF Holding
<1>6. QED
  BY <1>2, <1>4, <1>5, HeapInvHolds

(* The same arenas, and blocks that fit them. *)
LEMMA SameArenas ==
  ASSUME HeapInv, UNCHANGED arena, NEW E, NEW V, Shape(E, tlsf', ArenaPools, {}, V),
         created' => Holding(live', tlsf', V)
  PROVE  HeapInv'
<1>1. Arenas'
  BY DEF HeapInv, Arenas, IsArena
<1>2. ArenaPools' = ArenaPools
  BY DEF ArenaPools
<1>3. Shape(E, tlsf', ArenaPools', {}, V)
  BY <1>2
<1>4. Blocks' = E /\ Used' = V
  <2>1. PICK P : P = ArenaPools'
    OBVIOUS
  <2>2. Shape(E, tlsf', P, {}, V)
    BY <1>3, <2>1
  <2>3. DOMAIN tlsf'.hdr \ {0} = E /\ UsedIn(E, tlsf', LastIn(P)) = V
    BY <2>2, ShapesBlocks
  <2>4. QED
    BY <2>1, <2>3 DEF Blocks, Used
<1>5. QED
  BY <1>1, <1>3, <1>4 DEF HeapInv

(* A request as tlsf gets it. *)
LEMMA Requests ==
  ASSUME NEW size \in Size, NEW align \in Align
  PROVE  size + callstack_size \in Nat /\ \E n \in Nat : align = 2 ^ n
<1>1. callstack_size \in Nat
  BY HeapSizes, Constants
<1>2. size \in Nat /\ \E n \in 0 .. align : align = 2 ^ n
  BY HeapAssumption
<1>3. QED
  BY <1>1, <1>2

LEMMA HeldStill ==
  ASSUME NEW l, NEW h, NEW V, Holding(l, h, V), NEW g, SzSame(V, h, g)
  PROVE  Holding(l, g, V)
BY DEF Holding, SzSame

LEMMA HeldMore ==
  ASSUME NEW h, NEW V, V \subseteq Nat, Holding(live, h, V), NEW g, SzSame(V, h, g),
         NEW b \in Nat, b \notin V, NEW size \in Nat, size + callstack_size <= Sz(g, b),
         Give(Ptr(b), size)
  PROVE  Holding(live', g, V \cup {b}) /\ Ptr(b) \notin DOMAIN live
<1>1. PICK p : p = Ptr(b)
  OBVIOUS
<1>2. \A c \in V : Ptr(c) # p
  BY <1>1, PtrApart
<1>3. p \notin DOMAIN live
  BY <1>2 DEF Holding
<1>4. live' = [q \in DOMAIN live \cup {p} |->
                IF q = p THEN [size |-> size, callstack |-> p + size] ELSE live[q]]
  BY <1>1 DEF Give
<1>5. DOMAIN live' = {Ptr(c) : c \in V \cup {b}}
  BY <1>1, <1>4 DEF Holding
<1>6. ASSUME NEW c \in V \cup {b}
      PROVE  live'[Ptr(c)].size \in Nat /\ live'[Ptr(c)].size + callstack_size <= Sz(g, c)
  <2>1. CASE c = b
    BY <1>1, <1>4, <2>1
  <2>2. CASE c # b
    <3>1. c \in V /\ Ptr(c) \in DOMAIN live /\ Ptr(c) # p
      BY <1>2, <2>2 DEF Holding
    <3>2. live'[Ptr(c)] = live[Ptr(c)]
      BY <1>4, <3>1
    <3>3. QED
      BY <3>1, <3>2 DEF Holding, SzSame
  <2>3. QED
    BY <2>1, <2>2
<1>7. QED
  BY <1>1, <1>3, <1>5, <1>6 DEF Holding

LEMMA HeldLess ==
  ASSUME NEW h, NEW V, V \subseteq Nat, Holding(live, h, V), NEW b \in V,
         NEW g, SzSame(V \ {b}, h, g), live' = [q \in DOMAIN live \ {Ptr(b)} |-> live[q]]
  PROVE  Holding(live', g, V \ {b})
<1>1. \A c \in V : Ptr(c) = Ptr(b) => c = b
  BY PtrApart
<1>2. DOMAIN live' = {Ptr(c) : c \in V \ {b}}
  BY <1>1 DEF Holding
<1>3. ASSUME NEW c \in V \ {b}
      PROVE  live'[Ptr(c)].size \in Nat /\ live'[Ptr(c)].size + callstack_size <= Sz(g, c)
  <2>1. Ptr(c) \in DOMAIN live \ {Ptr(b)}
    BY <1>1 DEF Holding
  <2>2. live'[Ptr(c)] = live[Ptr(c)]
    BY <2>1
  <2>3. QED
    BY <2>2 DEF Holding, SzSame
<1>4. QED
  BY <1>2, <1>3 DEF Holding

(* The address that is given out is the caller's alone, and aligned. *)
Given(p, size, align) == Give(p, size) /\ p \notin DOMAIN live /\ p % align = 0

LEMMA AllocKeeps ==
  ASSUME HeapInv, NEW t \in Thread, NEW size \in Size, NEW align \in Align,
         heap_alloc(t, size, align)
  PROVE  HeapInv' /\ \E p : Given(p, size, align)
<1>1. PICK got : got = FromTlsf(tlsf, size, align)
  OBVIOUS
<1>2. /\ created /\ got.ptr # NULL /\ tlsf' = got.h /\ Give(got.ptr, size)
      /\ UNCHANGED <<arena, mutex, fate>>
  BY <1>1 DEF heap_alloc
<1>3. PICK request \in Nat : request = size + callstack_size
  BY Requests
<1>4. PICK n \in Nat : align = 2 ^ n
  BY Requests
<1>5. got = tlsf_memalign(tlsf, align, request)
  BY <1>1, <1>3 DEF FromTlsf
<1>6. Shape(Blocks, tlsf, ArenaPools, {}, Used) /\ Holding(live, tlsf, Used)
  BY <1>2 DEF HeapInv
<1>7. PICK P, V : P = ArenaPools /\ V = Used
  OBVIOUS
<1>8. \E E : \E b \in Nat : Placed(E, tlsf, got, P, b, V)
  BY <1>2, <1>4, <1>5, <1>6, <1>7, MemalignKeepsShape
<1>9. PICK E : \E b \in Nat : Placed(E, tlsf, got, P, b, V)
  BY <1>8
<1>10. PICK b \in Nat : /\ got.ptr = Ptr(b) /\ Shape(E, got.h, P, {}, V \cup {b})
                        /\ b \notin V /\ SzSame(V, tlsf, got.h)
  BY <1>9 DEF Placed
<1>11. PICK W : W = V \cup {b}
  OBVIOUS
<1>12. Holding(live', tlsf', W) /\ Given(got.ptr, size, align)
  <2>1. got.ptr % align = 0 /\ Sz(got.h, b) >= request
    BY <1>4, <1>5, <1>6, <1>10, MemalignGives
  <2>2. V \subseteq Nat /\ size \in Nat /\ size + callstack_size <= Sz(got.h, b)
    <3>1. V \subseteq Nat
      BY <1>6, <1>7 DEF Shape, UsedIn
    <3>2. size \in Nat
      BY HeapAssumption
    <3>3. Sz(got.h, b) \in Nat
      <4>1. got.h \in Control(E \cup {0}) /\ b \in E \cup {0}
        BY <1>10 DEF Shape, UsedIn
      <4>2. QED
        BY <4>1, Typed
    <3>4. QED
      BY <1>3, <2>1, <3>1, <3>2, <3>3
  <2>3. Holding(live', tlsf', W) /\ Ptr(b) \notin DOMAIN live
    BY <1>2, <1>6, <1>7, <1>10, <1>11, <2>2, HeldMore
  <2>4. QED
    BY <1>2, <1>10, <2>1, <2>3 DEF Given
<1>13. Shape(E, tlsf', ArenaPools, {}, W) /\ UNCHANGED arena
  BY <1>2, <1>7, <1>10, <1>11
<1>14. QED
  BY <1>12, <1>13, SameArenas

LEMMA FreeKeeps ==
  ASSUME HeapInv, NEW t \in Thread, NEW p \in DOMAIN live, heap_free(t, p)
  PROVE  HeapInv'
<1>1. /\ created /\ tlsf' = tlsf_free(tlsf, p)
      /\ live' = [q \in DOMAIN live \ {p} |-> live[q]]
      /\ UNCHANGED <<arena, mutex, fate, allocs>>
  BY DEF heap_free
<1>2. PICK P, V : P = ArenaPools /\ V = Used
  OBVIOUS
<1>3. Shape(Blocks, tlsf, P, {}, V) /\ Holding(live, tlsf, V)
  BY <1>1, <1>2 DEF HeapInv
<1>4. PICK b \in V : p = Ptr(b)
  BY <1>3 DEF Holding
<1>5. PICK g : g = tlsf_free(tlsf, Ptr(b))
  OBVIOUS
<1>6. SzSame(V \ {b}, tlsf, g) /\ \E E : Shape(E, g, P, {}, V \ {b})
  BY <1>3, <1>5, FreeKeepsShape
<1>7. PICK E : Shape(E, g, P, {}, V \ {b})
  BY <1>6
<1>8. PICK W : W = V \ {b}
  OBVIOUS
<1>9. Holding(live', tlsf', W)
  <2>1. V \subseteq Nat
    BY <1>3 DEF Shape, UsedIn
  <2>2. QED
    BY <1>1, <1>3, <1>4, <1>5, <1>8, <1>6, <2>1, HeldLess
<1>10. Shape(E, tlsf', ArenaPools, {}, W) /\ UNCHANGED arena
  BY <1>1, <1>2, <1>4, <1>5, <1>7, <1>8
<1>11. QED
  BY <1>9, <1>10, SameArenas

LEMMA DestroyKeepsHeap ==
  ASSUME HeapInv, heap_destroy
  PROVE  HeapInv'
<1>1. arena' = <<>> /\ tlsf' = control_construct /\ ~created'
  BY DEF heap_destroy
<1>2. Arenas'
  BY <1>1 DEF Arenas
<1>3. ArenaPools' = {}
  BY <1>1 DEF ArenaPools
<1>4. Shape({}, tlsf', ArenaPools', {}, {})
  BY <1>1, <1>3, NothingShapes
<1>5. Blocks' = {} /\ Used' = {}
  <2>1. PICK P : P = ArenaPools'
    OBVIOUS
  <2>2. Shape({}, tlsf', P, {}, {})
    BY <1>4, <2>1
  <2>3. DOMAIN tlsf'.hdr \ {0} = {} /\ UsedIn({}, tlsf', LastIn(P)) = {}
    BY <2>2, ShapesBlocks
  <2>4. QED
    BY <2>1, <2>3 DEF Blocks, Used
<1>6. QED
  BY <1>1, <1>2, <1>4, <1>5 DEF HeapInv

LEMMA GrowKeeps ==
  ASSUME HeapInv, NEW t \in Thread, NEW size \in Size, NEW align \in Align,
         heap_alloc_grows(t, size, align)
  PROVE  HeapInv' /\ (UNCHANGED live \/ \E p : Given(p, size, align))
<1>1. PICK w \in Nat : w = Word /\ w > 0 /\ pool_overhead = 2 * w /\ arena_header = 2 * w
                     /\ block_size_min = 3 * w /\ overhead = w
  BY Constants, HeapSizes, Sizes
<1>2. PICK n \in Nat : n = Len(arena) + 1
  BY DEF HeapInv, Arenas
<1>3. PICK base : base = ArenaSpan * n
  OBVIOUS
<1>4. PICK r : r = [base |-> base, pool |-> base + arena_header, bytes |-> SystemSize(size)]
  OBVIOUS
<1>5. PICK grown : grown = tlsf_add_pool(tlsf, base + arena_header, ArenaSize(size))
  OBVIOUS
<1>6. PICK got : got = FromTlsf(grown, size, align)
  OBVIOUS
<1>7. /\ created /\ arena' = <<r>> \o arena /\ tlsf' = got.h
      /\ IF got.ptr # NULL THEN Give(got.ptr, size) ELSE UNCHANGED live
  BY <1>2, <1>3, <1>4, <1>5, <1>6 DEF heap_alloc_grows
<1>8. IsArena(r, n)
  BY <1>3, <1>4 DEF IsArena
<1>9. PICK p : p = PoolOf(r)
  OBVIOUS
<1>10. PICK bytes \in Nat : bytes = r.bytes
  BY <1>1, <1>8, <1>9, ArenaLies
<1>11. /\ r.base = base /\ base \in Nat /\ r.pool = base + 2 * w
       /\ p[1] \in Nat /\ p[2] \in Nat /\ p[1] = base + w /\ p[1] < p[2]
       /\ Multiple(r.pool, Word)
  BY <1>1, <1>3, <1>4, <1>8, <1>9, ArenaLies
<1>12. Arenas /\ Shape(Blocks, tlsf, ArenaPools, {}, Used) /\ Holding(live, tlsf, Used)
  BY <1>7 DEF HeapInv
<1>13. Arenas'
  <2>1. r \in [base : Nat, pool : Nat, bytes : Nat]
    <3>1. r.pool \in Nat
      BY <1>11
    <3>2. QED
      BY <1>4, <1>10, <1>11, <3>1
  <2>2. arena \in Seq([base : Nat, pool : Nat, bytes : Nat])
    BY <1>12 DEF Arenas
  <2>3. /\ arena' \in Seq([base : Nat, pool : Nat, bytes : Nat])
        /\ Len(arena') = n /\ Len(arena) = n - 1 /\ arena'[1] = r
        /\ DOMAIN arena' = 1 .. n /\ DOMAIN arena = 1 .. n - 1
        /\ \A a \in 2 .. n : arena'[a] = arena[a - 1]
    BY <1>2, <1>7, <2>1, <2>2
  <2>4. ASSUME NEW a \in DOMAIN arena' PROVE IsArena(arena'[a], n + 1 - a)
    <3>1. CASE a = 1
      <4>1. n + 1 - a = n
        BY <3>1
      <4>2. QED
        BY <1>8, <2>3, <3>1, <4>1
    <3>2. CASE a # 1
      <4>1. a \in 2 .. n /\ a - 1 \in DOMAIN arena /\ n + 1 - a = Len(arena) + 1 - (a - 1)
        <5>1. PICK m : m = Len(arena) /\ m = n - 1
          BY <2>3
        <5>2. a \in 1 .. n
          BY <2>3
        <5>3. a \in 2 .. n /\ a - 1 \in 1 .. n - 1 /\ n + 1 - a = m + 1 - (a - 1)
          BY <3>2, <5>1, <5>2
        <5>4. QED
          BY <2>3, <5>1, <5>3
      <4>2. IsArena(arena[a - 1], Len(arena) + 1 - (a - 1))
        BY <1>12, <4>1 DEF Arenas
      <4>3. QED
        BY <2>3, <4>1, <4>2
    <3>3. QED
      BY <3>1, <3>2
  <2>5. \A a \in DOMAIN arena' : IsArena(arena'[a], Len(arena') + 1 - a)
    BY <2>3, <2>4
  <2>6. QED
    BY <2>3, <2>5 DEF Arenas, IsArena
<1>14. ArenaPools' = ArenaPools \cup {p}
  <2>1. arena \in Seq([base : Nat, pool : Nat, bytes : Nat])
    BY <1>12 DEF Arenas
  <2>2. /\ DOMAIN arena' = 1 .. n /\ DOMAIN arena = 1 .. n - 1 /\ arena'[1] = r
        /\ \A a \in 2 .. n : arena'[a] = arena[a - 1]
    BY <1>2, <1>7, <2>1
  <2>3. ASSUME NEW q PROVE (\E a \in DOMAIN arena' : q = PoolOf(arena'[a]))
                             <=> q = p \/ \E a \in DOMAIN arena : q = PoolOf(arena[a])
    <3>1. ASSUME NEW a \in DOMAIN arena', q = PoolOf(arena'[a])
          PROVE  q = p \/ \E c \in DOMAIN arena : q = PoolOf(arena[c])
      <4>1. CASE a = 1
        BY <1>9, <2>2, <3>1, <4>1
      <4>2. CASE a # 1
        <5>1. a \in 2 .. n /\ a - 1 \in DOMAIN arena
          BY <2>2, <4>2
        <5>2. QED
          BY <2>2, <3>1, <5>1
      <4>3. QED
        BY <4>1, <4>2
    <3>2. ASSUME NEW c \in DOMAIN arena, q = PoolOf(arena[c])
          PROVE  \E a \in DOMAIN arena' : q = PoolOf(arena'[a])
      <4>1. c + 1 \in DOMAIN arena' /\ c + 1 \in 2 .. n /\ (c + 1) - 1 = c
        BY <2>2
      <4>2. arena'[c + 1] = arena[c]
        BY <2>2, <4>1
      <4>3. QED
        BY <3>2, <4>1, <4>2
    <3>3. ASSUME q = p PROVE \E a \in DOMAIN arena' : q = PoolOf(arena'[a])
      <4>1. 1 \in DOMAIN arena'
        <5>1. n = Len(arena) + 1 /\ Len(arena) \in Nat
          BY <1>2, <2>1
        <5>2. QED
          BY <2>2, <5>1
      <4>2. QED
        BY <1>9, <2>2, <3>3, <4>1
    <3>4. QED
      BY <3>1, <3>2, <3>3
  <2>4. QED
    BY <2>3 DEF ArenaPools, PoolOf
<1>15. PICK P, V : P = ArenaPools /\ V = Used
  OBVIOUS
<1>16. PICK f, l : f = p[1] /\ l = p[2]
  OBVIOUS
<1>17. (\E E : Shape(E, grown, P \cup {<<f, l>>}, {}, V)) /\ SzSame(V, tlsf, grown)
  <2>1. PICK mem \in Nat : mem = base + 2 * w
    BY <1>11
  <2>2. PICK d : d = PoolSize(ArenaSize(size))
    OBVIOUS
  <2>3. /\ d \in Nat /\ Multiple(d, Word) /\ d >= block_size_min /\ d < block_size_max
        /\ l = mem + d
    <3>1. size \in Nat /\ grow_increment \in Nat /\ AcceptsPool(ArenaSize(size))
          /\ PoolSize(ArenaSize(size)) < block_size_max
      BY HeapAssumption
    <3>2. PICK m \in Nat : m = Max({grow_increment, size * 2})
      BY <3>1, MaxOfTwo
    <3>3. ArenaSize(size) - pool_overhead = m /\ SystemSize(size) - 2 * pool_overhead = m
      BY <1>1, <3>2 DEF ArenaSize, SystemSize
    <3>4. d = AlignDown(m, Word)
      BY <2>2, <3>3 DEF PoolSize
    <3>5. d \in Nat /\ Multiple(d, Word)
      BY <3>2, <3>4, AlignsDown
    <3>6. l = r.pool + AlignDown(r.bytes - 2 * pool_overhead, Word)
      BY <1>9, <1>16 DEF PoolOf
    <3>7. r.bytes = SystemSize(size)
      BY <1>4
    <3>8. l = mem + d
      BY <1>11, <2>1, <3>3, <3>4, <3>6, <3>7
    <3>9. d >= block_size_min
      <4>1. d \in block_size_min .. block_size_max
        BY <2>2, <3>1 DEF AcceptsPool
      <4>2. QED
        BY <1>1, <3>5, <4>1
    <3>10. QED
      BY <2>2, <3>1, <3>5, <3>8, <3>9
  <2>4. /\ f \in Nat /\ f + Word = mem /\ f > 0 /\ l \in Nat /\ Multiple(mem, Word)
    BY <1>1, <1>11, <1>16, <2>1
  <2>5. PICK D : D = Blocks
    OBVIOUS
  <2>6. Shape(D, tlsf, P, {}, V)
    BY <1>12, <1>15, <2>5
  <2>7. \A c \in D : c < f
    <3>1. \A c \in D : c < ArenaSpan * (Len(arena) + 1)
      BY <1>12, <1>15, <2>6, BlocksBounded
    <3>2. \A c \in D : c < base /\ c \in Nat
      BY <1>2, <1>3, <2>6, <3>1 DEF Shape
    <3>3. QED
      BY <1>1, <1>11, <1>16, <3>2
  <2>8. grown = tlsf_add_pool(tlsf, mem, ArenaSize(size))
    BY <1>1, <1>5, <2>1
  <2>9. Shape(D \cup {f, l}, grown, P \cup {<<f, l>>}, {}, V) /\ SzSame(V, tlsf, grown)
    BY <2>2, <2>3, <2>4, <2>6, <2>7, <2>8, AddPoolShapes
  <2>10. QED
    BY <2>9
<1>18. PICK Q : Q = ArenaPools'
  OBVIOUS
<1>19. PICK D : Shape(D, grown, Q, {}, V)
  <2>1. p = <<f, l>>
    BY <1>9, <1>16 DEF PoolOf
  <2>2. Q = P \cup {<<f, l>>}
    BY <1>14, <1>15, <1>18, <2>1
  <2>3. QED
    BY <1>17, <2>2
<1>20. \/ got.ptr = NULL /\ got.h = grown
       \/ \E E : \E b \in Nat : /\ Placed(E, grown, got, Q, b, V)
                                /\ size + callstack_size <= Sz(got.h, b)
                                /\ got.ptr % align = 0
  <2>1. PICK request \in Nat : request = size + callstack_size
    BY Requests
  <2>2. PICK k \in Nat : align = 2 ^ k
    BY Requests
  <2>3. got = tlsf_memalign(grown, align, request)
    BY <1>6, <2>1 DEF FromTlsf
  <2>4. \/ got.ptr = NULL /\ got.h = grown
        \/ \E E : \E b \in Nat : Placed(E, grown, got, Q, b, V)
    BY <1>19, <2>2, <2>3, MemalignKeepsShape
  <2>5. ASSUME NEW E, NEW b \in Nat, got.ptr = Ptr(b), Shape(E, got.h, Q, {}, V \cup {b})
        PROVE  size + callstack_size <= Sz(got.h, b) /\ got.ptr % align = 0
    <3>1. Sz(got.h, b) >= request /\ got.ptr % align = 0
      BY <1>19, <2>2, <2>3, <2>5, MemalignGives
    <3>2. Sz(got.h, b) \in Nat
      <4>1. got.h \in Control(E \cup {0}) /\ b \in E \cup {0}
        BY <2>5 DEF Shape, UsedIn
      <4>2. QED
        BY <4>1, Typed
    <3>3. QED
      BY <2>1, <3>1, <3>2
  <2>6. QED
    BY <2>4, <2>5 DEF Placed
<1>21. /\ \E E, W : Shape(E, tlsf', Q, {}, W) /\ Holding(live', tlsf', W)
       /\ UNCHANGED live \/ \E q : Given(q, size, align)
  <2>1. CASE got.ptr = NULL /\ got.h = grown
    <3>1. Holding(live', tlsf', V)
      BY <1>7, <1>12, <1>15, <1>17, <2>1, HeldStill
    <3>2. UNCHANGED live
      BY <1>7, <2>1
    <3>3. QED
      BY <1>7, <1>19, <2>1, <3>1, <3>2
  <2>2. ASSUME NEW E, NEW b \in Nat, got.ptr = Ptr(b), Shape(E, got.h, Q, {}, V \cup {b}),
               b \notin V, SzSame(V, grown, got.h), size + callstack_size <= Sz(got.h, b),
               got.ptr % align = 0
        PROVE  /\ \E F, W : Shape(F, tlsf', Q, {}, W) /\ Holding(live', tlsf', W)
               /\ \E q : Given(q, size, align)
    <3>1. PICK W : W = V \cup {b}
      OBVIOUS
    <3>2. got.ptr # NULL
      BY <2>2, PtrIsNotNull
    <3>3. V \subseteq Nat /\ size \in Nat
      BY <1>12, <1>15, HeapAssumption DEF Shape, UsedIn
    <3>4. Holding(live', tlsf', W) /\ Given(Ptr(b), size, align)
      <4>1. Holding(live, grown, V)
        BY <1>12, <1>15, <1>17, HeldStill
      <4>2. Give(Ptr(b), size) /\ tlsf' = got.h
        BY <1>7, <2>2, <3>2
      <4>3. Holding(live', tlsf', W) /\ Ptr(b) \notin DOMAIN live
        BY <2>2, <3>1, <3>3, <4>1, <4>2, HeldMore
      <4>4. QED
        BY <2>2, <4>2, <4>3 DEF Given
    <3>5. Shape(E, tlsf', Q, {}, W)
      BY <1>7, <2>2, <3>1
    <3>6. QED
      BY <3>4, <3>5
  <2>3. QED
    BY <1>20, <2>1, <2>2 DEF Placed
<1>22. PICK E, W : Shape(E, tlsf', Q, {}, W) /\ Holding(live', tlsf', W)
  BY <1>21
<1>23. DOMAIN tlsf'.hdr \ {0} = E /\ UsedIn(E, tlsf', LastIn(Q)) = W
  BY <1>22, ShapesBlocks
<1>24. Blocks' = E /\ Used' = W
  BY <1>18, <1>23 DEF Blocks, Used
<1>25. Shape(E, tlsf', ArenaPools', {}, W)
  BY <1>18, <1>22
<1>26. QED
  BY <1>13, <1>21, <1>22, <1>24, <1>25 DEF HeapInv

(* The structure of tlsf.c is whole between any two calls of heap.c,       *)
(* whatever is allocated, refused, freed and grown before, for every       *)
(* geometry of the lists and every number of arenas: the blocks of each    *)
(* arena tile it, the bitmaps and the lists agree with them, and those in  *)
(* use are the ones callers hold, with room for the callstack.             *)
THEOREM HeapIsWhole == HeapSpec => []HeapInv
<1>1. HeapInit => HeapInv
  BY StartsWhole
<1>2. HeapInv /\ [HeapNext]_heapvars => HeapInv'
  <2> SUFFICES ASSUME HeapInv, [HeapNext]_heapvars PROVE HeapInv'
    OBVIOUS
  <2>1. ASSUME UNCHANGED <<tlsf, arena, live, created>> PROVE HeapInv'
    BY <2>1 DEF HeapInv, Arenas, IsArena, ArenaPools, PoolOf, Blocks, Used
  <2>2. ASSUME NEW t \in Thread, NEW size \in Size, NEW align \in Align,
               heap_alloc(t, size, align)
        PROVE  HeapInv'
    BY <2>2, AllocKeeps
  <2>3. ASSUME NEW t \in Thread, NEW size \in Size, NEW align \in Align,
               heap_alloc_grows(t, size, align)
        PROVE  HeapInv'
    BY <2>3, GrowKeeps
  <2>4. ASSUME NEW t \in Thread, NEW size \in Size, NEW align \in Align,
               heap_alloc_fails(t, size, align)
        PROVE  HeapInv'
    BY <2>1, <2>4 DEF heap_alloc_fails, fate
  <2>5. ASSUME NEW t \in Thread, NEW p \in DOMAIN live, heap_free(t, p)
        PROVE  HeapInv'
    BY <2>5, FreeKeeps
  <2>6. CASE heap_destroy
    BY <2>6, DestroyKeepsHeap
  <2>7. CASE Over
    BY <2>1, <2>7 DEF Over, heapvars, fate
  <2>8. CASE UNCHANGED heapvars
    BY <2>1, <2>8 DEF heapvars, fate
  <2>9. QED
    BY <2>2, <2>3, <2>4, <2>5, <2>6, <2>7, <2>8 DEF HeapNext
<1>3. QED
  BY <1>1, <1>2, PTL DEF HeapSpec

(* What the walk over an arena shows. *)
LEMMA ArenaWalk ==
  ASSUME HeapInv, NEW a \in DOMAIN arena, NEW p, p = PoolOf(arena[a]),
         NEW walk, walk = tlsf_walk_pool(tlsf, arena[a].pool)
  PROVE  /\ p \in ArenaPools /\ tlsf_check(tlsf) /\ tlsf_check_pool(tlsf, arena[a].pool)
         /\ block_next(tlsf, walk[Len(walk)]) = p[2]
         /\ \A n \in DOMAIN walk : walk[n] \in Blocks \ LastIn(ArenaPools) /\ p[1] <= walk[n] /\ walk[n] < p[2]
         /\ \A b \in Blocks : p[1] <= b /\ b < p[2] => \E n \in DOMAIN walk : walk[n] = b
         /\ \A n \in DOMAIN walk : tlsf.hdr[walk[n]].free = 1 =>
              walk[n] \in FreeList(tlsf, mapping_insert(tlsf.hdr[walk[n]].size))
<1>1. Arenas /\ Shape(Blocks, tlsf, ArenaPools, {}, Used)
  BY DEF HeapInv
<1>2. Separate(ArenaPools) /\ IsFiniteSet(Blocks)
  BY <1>1, PoolsSeparate, BlocksBounded
<1>3. p \in ArenaPools
  BY DEF ArenaPools
<1>4. PICK pool : pool = arena[a].pool
  OBVIOUS
<1>5. p[1] = pool - overhead
  BY <1>4 DEF PoolOf
<1>6. PICK D, P, V : D = Blocks /\ P = ArenaPools /\ V = Used
  OBVIOUS
<1>7. IsFiniteSet(D) /\ Shape(D, tlsf, P, {}, V) /\ Separate(P) /\ p \in P
  BY <1>1, <1>2, <1>3, <1>6
<1>8. walk = tlsf_walk_pool(tlsf, pool)
  BY <1>4
<1>9. tlsf_check(tlsf)
  BY <1>7, ShapePassesCheck
<1>10. /\ tlsf_check_pool(tlsf, pool)
       /\ block_next(tlsf, walk[Len(walk)]) = p[2]
       /\ \A n \in DOMAIN walk : walk[n] \in D \ LastIn(P) /\ p[1] <= walk[n] /\ walk[n] < p[2]
       /\ \A b \in D : p[1] <= b /\ b < p[2] => \E n \in DOMAIN walk : walk[n] = b
       /\ \A n \in DOMAIN walk : tlsf.hdr[walk[n]].free = 1 =>
              walk[n] \in FreeList(tlsf, mapping_insert(tlsf.hdr[walk[n]].size))
  BY <1>5, <1>7, <1>8, WalkShows
<1>11. QED
  BY <1>3, <1>4, <1>6, <1>9, <1>10

(* The blocks in use are those that the walks over the arenas find.        *)
LEMMA UsedAreFound ==
  ASSUME HeapInv
  PROVE  UNION {UsedBlocks(a) : a \in DOMAIN arena} = Used
<1>1. Shape(Blocks, tlsf, ArenaPools, {}, Used)
  BY DEF HeapInv
<1>2. ASSUME NEW a \in DOMAIN arena, NEW b
      PROVE  b \in UsedBlocks(a) <=>
               /\ b \in Used
               /\ PoolOf(arena[a])[1] <= b /\ b < PoolOf(arena[a])[2]
  <2>1. PICK walk : walk = tlsf_walk_pool(tlsf, arena[a].pool)
    OBVIOUS
  <2>2. PICK p : p = PoolOf(arena[a])
    OBVIOUS
  <2>3. /\ \A n \in DOMAIN walk : walk[n] \in Blocks \ LastIn(ArenaPools) /\ p[1] <= walk[n] /\ walk[n] < p[2]
        /\ \A c \in Blocks : p[1] <= c /\ c < p[2] => \E n \in DOMAIN walk : walk[n] = c
    <3>1. \A n \in DOMAIN walk : walk[n] \in Blocks \ LastIn(ArenaPools) /\ p[1] <= walk[n] /\ walk[n] < p[2]
      BY <2>1, <2>2, ArenaWalk
    <3>2. \A c \in Blocks : p[1] <= c /\ c < p[2] => \E n \in DOMAIN walk : walk[n] = c
      BY <2>1, <2>2, ArenaWalk
    <3>3. QED
      BY <3>1, <3>2
  <2>4. b \in UsedBlocks(a) <=> \E n \in DOMAIN walk : tlsf.hdr[walk[n]].free = 0 /\ b = walk[n]
    BY <2>1, Zenon DEF UsedBlocks
  <2>5. b \in Used <=> b \in Blocks \ LastIn(ArenaPools) /\ tlsf.hdr[b].free = 0
    BY DEF Used, UsedIn, Fr
  <2>6. ASSUME b \in UsedBlocks(a) PROVE b \in Used /\ p[1] <= b /\ b < p[2]
    BY <2>3, <2>4, <2>5, <2>6
  <2>7. ASSUME b \in Used, p[1] <= b, b < p[2] PROVE b \in UsedBlocks(a)
    <3>1. PICK n \in DOMAIN walk : walk[n] = b
      BY <2>3, <2>5, <2>7
    <3>2. QED
      BY <2>4, <2>5, <2>7, <3>1
  <2>8. QED
    BY <2>2, <2>6, <2>7
<1>3. ASSUME NEW b \in Used PROVE \E a \in DOMAIN arena : b \in UsedBlocks(a)
  <2>1. b \in Blocks \ LastIn(ArenaPools)
    BY DEF Used, UsedIn
  <2>2. Within(Blocks, ArenaPools) /\ ArenaPools \subseteq Nat \X Nat /\ Blocks \subseteq Nat \ {0}
    BY <1>1 DEF Shape
  <2>3. PICK p \in ArenaPools : p[1] <= b /\ b <= p[2]
    BY <2>1, <2>2 DEF Within
  <2>4. b # p[2]
    BY <2>1 DEF LastIn
  <2>5. p[1] \in Nat /\ p[2] \in Nat /\ b \in Nat
    BY <2>1, <2>2
  <2>6. b < p[2]
    BY <2>3, <2>4, <2>5
  <2>7. PICK a \in DOMAIN arena : p = PoolOf(arena[a])
    BY DEF ArenaPools
  <2>8. QED
    BY <1>2, <2>3, <2>6, <2>7
<1>4. QED
  BY <1>2, <1>3

LEMMA WholePassesChecks ==
  ASSUME HeapInv
  PROVE  TlsfChecks
<1>1. \A a \in DOMAIN arena : tlsf_check_pool(tlsf, arena[a].pool)
  <2>1. SUFFICES ASSUME NEW a \in DOMAIN arena PROVE tlsf_check_pool(tlsf, arena[a].pool)
    OBVIOUS
  <2>2. PICK p, walk : p = PoolOf(arena[a]) /\ walk = tlsf_walk_pool(tlsf, arena[a].pool)
    OBVIOUS
  <2>3. QED
    BY <2>2, ArenaWalk
<1>2. tlsf_check(tlsf)
  <2>1. Arenas /\ Shape(Blocks, tlsf, ArenaPools, {}, Used)
    BY DEF HeapInv
  <2>2. IsFiniteSet(Blocks)
    BY <2>1, BlocksBounded
  <2>3. QED
    BY <2>1, <2>2, ShapePassesCheck
<1>3. QED
  BY <1>1, <1>2 DEF TlsfChecks

LEMMA WholeLosesNothing ==
  ASSUME HeapInv
  PROVE  NoMemoryLost
<1>1. ASSUME created
      PROVE  {Ptr(b) : b \in UNION {UsedBlocks(a) : a \in DOMAIN arena}} = DOMAIN live
  <2>1. PICK V : V = Used /\ V = UNION {UsedBlocks(a) : a \in DOMAIN arena}
    BY UsedAreFound
  <2>2. DOMAIN live = {Ptr(b) : b \in V}
    BY <1>1, <2>1 DEF HeapInv, Holding
  <2>3. QED
    BY <2>1, <2>2
<1>2. ASSUME NEW a \in DOMAIN arena, NEW walk, walk = tlsf_walk_pool(tlsf, arena[a].pool)
      PROVE  /\ arena[a].base + arena[a].bytes - Ptr(block_next(tlsf, walk[Len(walk)])) \in 0 .. Word - 1
             /\ \A n \in DOMAIN walk : tlsf.hdr[walk[n]].free = 1 =>
                  walk[n] \in FreeList(tlsf, mapping_insert(tlsf.hdr[walk[n]].size))
  <2>1. PICK p, r : p = PoolOf(r) /\ r = arena[a]
    OBVIOUS
  <2>2. /\ block_next(tlsf, walk[Len(walk)]) = p[2]
        /\ \A n \in DOMAIN walk : tlsf.hdr[walk[n]].free = 1 =>
                  walk[n] \in FreeList(tlsf, mapping_insert(tlsf.hdr[walk[n]].size))
    BY <1>2, <2>1, ArenaWalk
  <2>3. PICK w \in Nat : w = Word
    BY Constants
  <2>4. arena \in Seq([base : Nat, pool : Nat, bytes : Nat]) /\ IsArena(arena[a], Len(arena) + 1 - a)
    BY DEF HeapInv, Arenas
  <2>5. PICK k \in Nat : IsArena(r, k)
    <3>1. Len(arena) + 1 - a \in Nat
      BY <2>4
    <3>2. QED
      BY <2>1, <2>4, <3>1
  <2>6. PICK l, base, bytes : l = p[2] /\ base = r.base /\ bytes = r.bytes
    OBVIOUS
  <2>7. /\ l \in Nat /\ base \in Nat /\ bytes \in Nat
        /\ l + 2 * w <= base + bytes /\ base + bytes < l + 3 * w
    BY <2>1, <2>3, <2>5, <2>6, ArenaLies
  <2>8. base + bytes - (l + 2 * w) \in 0 .. w - 1
    BY <2>7
  <2>9. QED
    BY <2>1, <2>2, <2>3, <2>6, <2>8 DEF Ptr
<1>3. QED
  BY <1>1, <1>2, Zenon DEF NoMemoryLost

(* tlsf_check and tlsf_check_pool, the checks tlsf.c brings along and the  *)
(* engine never calls, would pass after every call of heap.c.              *)
THEOREM ChecksPass == HeapSpec => []TlsfChecks
BY HeapIsWhole, WholePassesChecks, PTL

(* Splitting and merging lose no memory: walked from its first block as    *)
(* heap_destroy walks it, an arena has every one of its bytes in a block,  *)
(* and a block is held by a caller or found in the list of its size.       *)
THEOREM NothingLost == HeapSpec => []NoMemoryLost
BY HeapIsWhole, WholeLosesNothing, PTL

-----------------------------------------------------------------------------
(***************************************************************************)
(* The heap keeps the promise that Allocator.tla states.                   *)
(***************************************************************************)

(* Blocks in use have their bytes to themselves. *)
LEMMA UsedApart ==
  ASSUME NEW D, NEW h, NEW Pool, NEW U, NEW V, Shape(D, h, Pool, U, V),
         NEW b \in V, NEW c \in V, b # c
  PROVE  Ptr(b) + Sz(h, b) <= Ptr(c) \/ Ptr(c) + Sz(h, c) <= Ptr(b)
<1>1. PICK w \in Nat : w = Word /\ w > 0
  BY Constants
<1>2. PICK Ends : Ends = LastIn(Pool)
  OBVIOUS
<1>3. /\ h \in Control(D \cup {0}) /\ b \in D \ Ends /\ c \in D \ Ends /\ b \in Nat /\ c \in Nat
      /\ \A x \in D \ Ends : \A y \in D : y <= x \/ block_next(h, x) <= y
  BY <1>2 DEF Shape, Tiles, UsedIn
<1>4. PICK s, t \in Nat : s = Sz(h, b) /\ t = Sz(h, c)
  BY <1>3, Typed
<1>5. block_next(h, b) = b + s + w /\ block_next(h, c) = c + t + w
  BY <1>1, <1>3, <1>4, NextIs
<1>6. Ptr(b) = b + 2 * w /\ Ptr(c) = c + 2 * w
  BY <1>1 DEF Ptr
<1>7. (c <= b \/ b + s + w <= c) /\ (b <= c \/ c + t + w <= b)
  BY <1>3, <1>5
<1>8. QED
  BY <1>1, <1>3, <1>4, <1>6, <1>7

(* A block in use lies in an arena. *)
LEMMA UsedInside ==
  ASSUME HeapInv, NEW b \in Used
  PROVE  \E a \in DOMAIN arena : /\ arena[a].base \in Nat /\ arena[a].bytes \in Nat
                                 /\ arena[a].base <= Ptr(b)
                                 /\ Ptr(b) + Sz(tlsf, b) <= arena[a].base + arena[a].bytes
<1>1. PICK w \in Nat : w = Word /\ w > 0
  BY Constants
<1>2. PICK D, P, V : D = Blocks /\ P = ArenaPools /\ V = Used
  OBVIOUS
<1>3. PICK Ends : Ends = LastIn(P)
  OBVIOUS
<1>4. Shape(D, tlsf, P, {}, V) /\ Arenas
  BY <1>2 DEF HeapInv
<1>5. /\ tlsf \in Control(D \cup {0}) /\ b \in D \ Ends /\ b \in Nat /\ Ends \subseteq D
      /\ P \subseteq Nat \X Nat
      /\ \A y \in D : y <= b \/ block_next(tlsf, b) <= y
  BY <1>2, <1>3, <1>4 DEF Shape, Tiles, UsedIn
<1>6. PICK p \in P : p[1] <= b /\ b <= p[2]
  BY <1>4, <1>5 DEF Shape, Within
<1>7. PICK a \in DOMAIN arena : p = PoolOf(arena[a])
  BY <1>2 DEF ArenaPools
<1>8. PICK k \in Nat : k = Len(arena) + 1 - a
  BY <1>4 DEF Arenas
<1>9. PICK r : r = arena[a] /\ IsArena(r, k)
  BY <1>4, <1>8 DEF Arenas
<1>10. PICK e \in Nat : e = r.bytes
  BY <1>1, <1>7, <1>9, ArenaLies
<1>11. /\ r.base \in Nat /\ p[1] \in Nat /\ p[2] \in Nat /\ p[1] = r.base + w
       /\ p[2] + 2 * w <= r.base + r.bytes
  BY <1>1, <1>7, <1>9, ArenaLies
<1>12. p[2] \in Ends
  BY <1>3 DEF LastIn
<1>13. block_next(tlsf, b) <= p[2]
  BY <1>5, <1>6, <1>11, <1>12
<1>14. PICK s \in Nat : s = Sz(tlsf, b)
  BY <1>5, Typed
<1>15. block_next(tlsf, b) = b + s + w
  BY <1>1, <1>5, <1>14, NextIs
<1>16. Ptr(b) = b + 2 * w
  BY <1>1 DEF Ptr
<1>17. r.base <= Ptr(b) /\ Ptr(b) + s <= r.base + r.bytes
  BY <1>1, <1>5, <1>6, <1>10, <1>11, <1>13, <1>15, <1>16
<1>18. QED
  BY <1>9, <1>10, <1>11, <1>14, <1>17

(* What the promise calls space is the arenas. *)
Space == UNION {Bytes(a) : a \in DOMAIN arena}

LEMMA SpaceIsNat ==
  HeapInv => Space \subseteq Nat
<1> SUFFICES ASSUME HeapInv PROVE Space \subseteq Nat
  OBVIOUS
<1>1. ASSUME NEW a \in DOMAIN arena PROVE Bytes(a) \subseteq Nat
  <2>1. arena[a] \in [base : Nat, pool : Nat, bytes : Nat]
    <3>1. PICK R : R = [base : Nat, pool : Nat, bytes : Nat]
      OBVIOUS
    <3>2. arena \in Seq(R)
      BY <3>1 DEF HeapInv, Arenas
    <3>3. arena[a] \in R
      BY <3>2
    <3>4. QED
      BY <3>1, <3>3
  <2>2. QED
    BY <2>1 DEF Bytes
<1>2. QED
  BY <1>1 DEF Space

LEMMA WholeIsExclusive ==
  HeapInv => Promise!Exclusive
<1> SUFFICES ASSUME HeapInv PROVE Promise!Exclusive
  OBVIOUS
<1> DEFINE held == IF created THEN [p \in DOMAIN live |-> live[p].size + callstack_size] ELSE <<>>
<1>1. Promise!Exclusive <=>
        \A p \in DOMAIN held :
          /\ p .. p + held[p] - 1 \subseteq Space
          /\ \A q \in DOMAIN held \ {p} :
               (p .. p + held[p] - 1) \cap (q .. q + held[q] - 1) = {}
  BY DEF Promise!Exclusive, Promise!Region, Space
<1>2. CASE ~created
  <2>1. held = <<>>
    BY <1>2
  <2>2. DOMAIN held = {}
    BY <2>1
  <2>3. QED
    BY <1>1, <2>2
<1>3. CASE created
  <2>1. held = [p \in DOMAIN live |-> live[p].size + callstack_size]
    BY <1>3
  <2>2. /\ Shape(Blocks, tlsf, ArenaPools, {}, Used) /\ DOMAIN live = {Ptr(b) : b \in Used}
        /\ \A b \in Used : live[Ptr(b)].size \in Nat
                           /\ live[Ptr(b)].size + callstack_size <= Sz(tlsf, b)
    BY <1>3 DEF HeapInv, Holding
  <2>3. callstack_size \in Nat /\ Used \subseteq Nat
    <3>1. callstack_size \in Nat
      BY HeapSizes, Constants
    <3>2. Used \subseteq Nat
      BY <2>2 DEF Shape, UsedIn
    <3>3. QED
      BY <3>1, <3>2
  <2>4. \A b \in Used : Sz(tlsf, b) \in Nat /\ Ptr(b) \in Nat
    <3>1. \A b \in Used : tlsf \in Control(Blocks \cup {0}) /\ b \in Blocks \cup {0}
      BY <2>2 DEF Shape, UsedIn
    <3>2. QED
      BY <2>3, <3>1, Typed, Constants DEF Ptr
  <2> HIDE DEF held
  <2>5. ASSUME NEW b \in Used
        PROVE  Ptr(b) .. Ptr(b) + held[Ptr(b)] - 1 \subseteq Space
    <3>1. PICK m \in Nat : m = held[Ptr(b)] /\ m <= Sz(tlsf, b)
      BY <2>1, <2>2, <2>3
    <3>2. PICK a \in DOMAIN arena : /\ arena[a].base \in Nat /\ arena[a].bytes \in Nat
                                    /\ arena[a].base <= Ptr(b)
                                    /\ Ptr(b) + Sz(tlsf, b) <= arena[a].base + arena[a].bytes
      BY UsedInside
    <3>3. Ptr(b) .. Ptr(b) + m - 1 \subseteq Bytes(a)
      BY <2>4, <3>1, <3>2 DEF Bytes
    <3>4. QED
      BY <3>1, <3>3 DEF Space
  <2>6. ASSUME NEW b \in Used, NEW c \in Used, Ptr(b) # Ptr(c)
        PROVE  (Ptr(b) .. Ptr(b) + held[Ptr(b)] - 1) \cap (Ptr(c) .. Ptr(c) + held[Ptr(c)] - 1) = {}
    <3>1. PICK m, n \in Nat : /\ m = held[Ptr(b)] /\ m <= Sz(tlsf, b)
                              /\ n = held[Ptr(c)] /\ n <= Sz(tlsf, c)
      <4>1. \A d \in Used : held[Ptr(d)] \in Nat /\ held[Ptr(d)] <= Sz(tlsf, d)
        <5>1. SUFFICES ASSUME NEW d \in Used
                       PROVE  held[Ptr(d)] \in Nat /\ held[Ptr(d)] <= Sz(tlsf, d)
          OBVIOUS
        <5>2. held[Ptr(d)] = live[Ptr(d)].size + callstack_size
          BY <2>1, <2>2
        <5>3. QED
          BY <2>2, <2>3, <5>2
      <4>2. QED
        BY <4>1
    <3>2. Ptr(b) + Sz(tlsf, b) <= Ptr(c) \/ Ptr(c) + Sz(tlsf, c) <= Ptr(b)
      BY <2>2, <2>6, UsedApart
    <3>3. (Ptr(b) .. Ptr(b) + m - 1) \cap (Ptr(c) .. Ptr(c) + n - 1) = {}
      BY <2>4, <3>1, <3>2
    <3>4. QED
      BY <3>1, <3>3
  <2>7. DOMAIN held = {Ptr(b) : b \in Used}
    BY <2>1, <2>2
  <2>8. QED
    BY <1>1, <2>5, <2>6, <2>7
<1>4. QED
  BY <1>2, <1>3

(* What an allocation promises can be read off the heap it leaves.         *)
LEMMA AllocImplements ==
  ASSUME HeapInv, HeapInv', created, UNCHANGED fate, NEW size \in Size, NEW align \in Align,
         NEW p, Given(p, size, align), Space \subseteq Space'
  PROVE  Promise!Next
<1> DEFINE held == IF created THEN [q \in DOMAIN live |-> live[q].size + callstack_size] ELSE <<>>
<1>1. PICK request : request = size + callstack_size
  OBVIOUS
<1>2. p \notin DOMAIN live /\ p % align = 0
  BY DEF Given
<1>3. created' /\ UNCHANGED leaks
  BY DEF fate
<1>4. PICK g : g = [q \in DOMAIN live |-> live[q].size + callstack_size] /\ g = held
  OBVIOUS
<1>5. DOMAIN live' = DOMAIN live \cup {p} /\ live'[p].size = size
      /\ \A q \in DOMAIN live : live'[q] = live[q]
  BY DEF Given, Give
<1>6. PICK f : f = [q \in DOMAIN live' |-> live'[q].size + callstack_size] /\ f = held'
  BY <1>3
<1>7. DOMAIN f = DOMAIN live \cup {p} /\ DOMAIN g = DOMAIN live
  BY <1>4, <1>5, <1>6
<1>8. f = [q \in DOMAIN g \cup {p} |-> IF q = p THEN request ELSE g[q]]
  <2>1. \A q \in DOMAIN live : f[q] = g[q]
    BY <1>4, <1>5, <1>6
  <2>2. f[p] = request
    BY <1>1, <1>5, <1>6
  <2>3. QED
    BY <1>6, <1>7, <2>1, <2>2
<1>9. Space' \subseteq Nat
  <2>1. (Space \subseteq Nat)'
    BY SpaceIsNat, PTL
  <2>2. QED
    BY <2>1
<1>10. Promise!Exclusive'
  BY WholeIsExclusive, PTL
<1>11. \A a \in DOMAIN f :
          /\ Promise!Region(a, f[a]) \subseteq Space'
          /\ \A b \in DOMAIN f \ {a} : Promise!Region(a, f[a]) \cap Promise!Region(b, f[b]) = {}
  BY <1>6, <1>10 DEF Promise!Exclusive, Space, held
<1>12. PICK S, T : S = Space /\ T = Space'
  OBVIOUS
<1> HIDE DEF held
<1>13. /\ p \in DOMAIN f \ DOMAIN g /\ f[p] = request
       /\ Promise!Region(p, request) \subseteq T
       /\ \A b \in DOMAIN g : Promise!Region(p, request) \cap Promise!Region(b, g[b]) = {}
  <2>1. p \in DOMAIN f /\ p \notin DOMAIN g /\ f[p] = request
    BY <1>7, <1>8, <1>2
  <2>2. \A b \in DOMAIN g : b \in DOMAIN f \ {p} /\ f[b] = g[b]
    BY <1>7, <1>8, <1>2
  <2>3. QED
    BY <1>11, <1>12, <2>1, <2>2
<1>14. Promise!Alloc(request, align)
  <2>1. \E a \in DOMAIN f \ DOMAIN g :
          /\ a % align = 0
          /\ Promise!Region(a, request) \subseteq T
          /\ \A b \in DOMAIN g : Promise!Region(a, request) \cap Promise!Region(b, g[b]) = {}
          /\ f = [b \in DOMAIN g \cup {a} |-> IF b = a THEN request ELSE g[b]]
    BY <1>8, <1>13, <1>2
  <2>2. S \subseteq T /\ T \subseteq Nat
    BY <1>9, <1>12
  <2>3. UNCHANGED Promise!fate
    BY <1>3 DEF Promise!fate
  <2>4. /\ created
        /\ Space \subseteq Space' /\ Space' \subseteq Nat
        /\ \E a \in DOMAIN held' \ DOMAIN held :
              /\ a % align = 0
              /\ Promise!Region(a, request) \subseteq Space'
              /\ \A b \in DOMAIN held : Promise!Region(a, request) \cap Promise!Region(b, held[b]) = {}
              /\ held' = [b \in DOMAIN held \cup {a} |-> IF b = a THEN request ELSE held[b]]
    BY <1>4, <1>6, <1>12, <2>1, <2>2
  <2>5. QED
    BY <2>3, <2>4, Zenon DEF Promise!Alloc, Space, held
<1>15. QED
  <2>1. PICK r : r = <<request, align>>
    OBVIOUS
  <2>2. r \in {<<size_1 + callstack_size, align_1>> : size_1 \in Size, align_1 \in Align}
        /\ r[1] = request /\ r[2] = align
    BY <1>1, <2>1
  <2>3. QED
    BY <1>14, <2>2 DEF Promise!Next

(* The arenas there were are still there. *)
LEMMA SpaceGrows ==
  ASSUME HeapInv, NEW t \in Thread, NEW size \in Size, NEW align \in Align,
         heap_alloc_grows(t, size, align)
  PROVE  Space \subseteq Space'
<1>1. PICK R : R = [base : Nat, pool : Nat, bytes : Nat]
  OBVIOUS
<1>2. arena \in Seq(R)
  BY <1>1 DEF HeapInv, Arenas
<1>3. PICK r : arena' = <<r>> \o arena
  BY DEF heap_alloc_grows
<1>4. ASSUME NEW a \in DOMAIN arena
      PROVE  a + 1 \in DOMAIN arena' /\ arena'[a + 1] = arena[a]
  BY <1>2, <1>3
<1>5. ASSUME NEW x \in Space PROVE x \in Space'
  <2>1. PICK a \in DOMAIN arena : x \in Bytes(a)
    BY DEF Space
  <2>2. x \in arena'[a + 1].base .. arena'[a + 1].base + arena'[a + 1].bytes - 1
    BY <1>4, <2>1 DEF Bytes
  <2>3. QED
    BY <1>4, <2>2 DEF Space, Bytes
<1>6. QED
  BY <1>5

(* An allocation that fails leaves callers what they have. *)
LEMMA RefuseImplements ==
  ASSUME HeapInv', created, UNCHANGED <<live, fate>>, Space \subseteq Space'
  PROVE  Promise!Next
<1>1. created' /\ UNCHANGED leaks /\ UNCHANGED Promise!fate
  BY DEF fate, Promise!fate
<1>2. Space' \subseteq Nat
  <2>1. (Space \subseteq Nat)'
    BY SpaceIsNat, PTL
  <2>2. QED
    BY <2>1
<1>3. Promise!Refuse
  BY <1>1, <1>2 DEF Promise!Refuse, Space
<1>4. QED
  BY <1>3 DEF Promise!Next

LEMMA FreeImplements ==
  ASSUME NEW t \in Thread, NEW p \in DOMAIN live, heap_free(t, p)
  PROVE  Promise!Next
<1> DEFINE held == IF created THEN [q \in DOMAIN live |-> live[q].size + callstack_size] ELSE <<>>
<1>1. /\ created /\ live' = [q \in DOMAIN live \ {p} |-> live[q]]
      /\ UNCHANGED <<arena, fate>>
  BY DEF heap_free
<1>2. created' /\ UNCHANGED <<Space, Promise!fate>>
  BY <1>1 DEF fate, Promise!fate, Space, Bytes
<1>3. held = [q \in DOMAIN live |-> live[q].size + callstack_size]
  BY <1>1
<1>4. held' = [q \in DOMAIN live' |-> live'[q].size + callstack_size]
  BY <1>2
<1>5. p \in DOMAIN held
  BY <1>3
<1>6. held' = [q \in DOMAIN held \ {p} |-> held[q]]
  <2>1. DOMAIN live' = DOMAIN live \ {p} /\ \A q \in DOMAIN live \ {p} : live'[q] = live[q]
    BY <1>1
  <2>2. QED
    BY <1>3, <1>4, <2>1
<1> HIDE DEF held
<1>7. Promise!Free(p)
  <2>1. created /\ UNCHANGED Space
    BY <1>1, <1>2
  <2>2. QED
    BY <1>2, <1>6, <2>1 DEF Promise!Free, Space, held
<1>8. QED
  BY <1>5, <1>7 DEF Promise!Next, held

(* The report names what callers still hold.                               *)
LEMMA DestroyImplements ==
  ASSUME HeapInv, heap_destroy
  PROVE  Promise!Next
<1> DEFINE held == IF created THEN [q \in DOMAIN live |-> live[q].size + callstack_size] ELSE <<>>
           report == {leak.ptr : leak \in leaks}
<1>1. /\ created /\ ~created' /\ arena' = <<>>
      /\ leaks' = UNION {{check_pool(b) : b \in UsedBlocks(a)} : a \in DOMAIN arena}
  BY DEF heap_destroy
<1>2. PICK V : V = Used /\ V = UNION {UsedBlocks(a) : a \in DOMAIN arena}
  BY UsedAreFound
<1>3. DOMAIN live = {Ptr(b) : b \in V}
  BY <1>1, <1>2 DEF HeapInv, Holding
<1>4. DOMAIN held = DOMAIN live
  BY <1>1
<1>5. report' = {Ptr(b) : b \in V}
  <2>1. \A b : check_pool(b).ptr = Ptr(b)
    BY DEF check_pool
  <2>2. PICK L : L = leaks'
    OBVIOUS
  <2>3. report' = {leak.ptr : leak \in L}
    BY <2>2
  <2>4. \A x : x \in L <=> \E b \in V : x = check_pool(b)
    BY <1>1, <1>2, <2>2
  <2>5. QED
    BY <2>1, <2>3, <2>4
<1>6. held' = <<>> /\ Space' = {}
  <2>1. DOMAIN arena' = {}
    BY <1>1
  <2>2. QED
    BY <1>1, <2>1 DEF Space
<1> HIDE DEF held, report
<1>7. Promise!Destroy
  <2>1. created /\ ~created' /\ report' = DOMAIN held /\ held' = <<>> /\ Space' = {}
    BY <1>1, <1>3, <1>4, <1>5, <1>6
  <2>2. QED
    BY <2>1 DEF Promise!Destroy, Space, held, report
<1>8. QED
  BY <1>7 DEF Promise!Next

LEMMA InitImplements ==
  ASSUME HeapInit
  PROVE  Promise!Init
<1>1. live = <<>> /\ arena = <<>> /\ created /\ leaks = {}
  BY DEF HeapInit
<1>2. [p \in DOMAIN live |-> live[p].size + callstack_size] = <<>>
  BY <1>1
<1>3. Space = {}
  BY <1>1 DEF Space
<1>4. {leak.ptr : leak \in leaks} = {}
  BY <1>1
<1>5. QED
  BY <1>1, <1>2, <1>3, <1>4 DEF Promise!Init, Space

LEMMA StutterImplements ==
  ASSUME UNCHANGED <<arena, live, fate>>
  PROVE  UNCHANGED Promise!vars
BY DEF fate, Promise!vars, Promise!fate, Bytes

(* heap.c on top of tlsf.c does what Allocator.tla promises: heap_alloc    *)
(* returns aligned memory of an arena that no other caller has, heap_free  *)
(* takes one block back and changes no other, and heap_destroy reports the *)
(* blocks still held, all of them and nothing else.                        *)
THEOREM KeepsItsPromise == HeapSpec => ImplementsAllocator
<1>1. HeapInit => Promise!Init
  BY InitImplements
<1>2. HeapInv /\ HeapInv' /\ [HeapNext]_heapvars => [Promise!Next]_(Promise!vars)
  <2> SUFFICES ASSUME HeapInv, HeapInv', [HeapNext]_heapvars
               PROVE  Promise!Next \/ UNCHANGED Promise!vars
    OBVIOUS
  <2>1. ASSUME NEW t \in Thread, NEW size \in Size, NEW align \in Align,
               heap_alloc(t, size, align)
        PROVE  Promise!Next
    <3>1. created /\ UNCHANGED <<arena, fate>>
      BY <2>1 DEF heap_alloc
    <3>2. Space \subseteq Space'
      BY <3>1 DEF Space, Bytes
    <3>3. PICK p : Given(p, size, align)
      BY <2>1, AllocKeeps
    <3>4. QED
      BY <3>1, <3>2, <3>3, AllocImplements
  <2>2. ASSUME NEW t \in Thread, NEW size \in Size, NEW align \in Align,
               heap_alloc_grows(t, size, align)
        PROVE  Promise!Next
    <3>1. created /\ UNCHANGED fate
      BY <2>2 DEF heap_alloc_grows
    <3>2. Space \subseteq Space'
      BY <2>2, SpaceGrows
    <3>3. CASE UNCHANGED live
      BY <3>1, <3>2, <3>3, RefuseImplements
    <3>4. CASE \E p : Given(p, size, align)
      BY <3>1, <3>2, <3>4, AllocImplements
    <3>5. QED
      BY <2>2, <3>3, <3>4, GrowKeeps
  <2>3. ASSUME NEW t \in Thread, NEW size \in Size, NEW align \in Align,
               heap_alloc_fails(t, size, align)
        PROVE  UNCHANGED Promise!vars
    BY <2>3, StutterImplements DEF heap_alloc_fails
  <2>4. ASSUME NEW t \in Thread, NEW p \in DOMAIN live, heap_free(t, p)
        PROVE  Promise!Next
    BY <2>4, FreeImplements
  <2>5. CASE heap_destroy
    BY <2>5, DestroyImplements
  <2>6. CASE Over \/ UNCHANGED heapvars
    BY <2>6, StutterImplements DEF Over, heapvars
  <2>7. QED
    BY <2>1, <2>2, <2>3, <2>4, <2>5, <2>6 DEF HeapNext
<1>3. QED
  BY <1>1, <1>2, HeapIsWhole, PTL DEF HeapSpec, ImplementsAllocator, Promise!Spec

(* No two blocks that heap_alloc has handed out have a byte in common,     *)
(* their callstacks included, and each lies in memory VirtualAlloc gave.   *)
THEOREM HeapIsExclusive == HeapSpec => []Promise!Exclusive
BY HeapIsWhole, WholeIsExclusive, PTL

-----------------------------------------------------------------------------
(***************************************************************************)
(* The memory behind the objects: gpu_create and its kin get every struct  *)
(* they fill from heap_alloc, whose promise is Allocator's.                *)
(***************************************************************************)
CONSTANT Request
VARIABLES held, space, over, report

Memory == INSTANCE Allocator

(* Whatever is asked for and freed in whatever order, by however many      *)
(* callers: what heap_alloc promises of one address is enough for all of   *)
(* them to stay apart.                                                     *)
THEOREM MemoryIsExclusive == Memory!Spec => []Memory!Exclusive
<1>1. Memory!Init => Memory!Exclusive
  BY DEF Memory!Init, Memory!Exclusive
<1>2. Memory!Exclusive /\ [Memory!Next]_(Memory!vars) => Memory!Exclusive'
  <2> SUFFICES ASSUME Memory!Exclusive, [Memory!Next]_(Memory!vars) PROVE Memory!Exclusive'
    OBVIOUS
  <2>1. ASSUME NEW r \in Request, Memory!Alloc(r[1], r[2]) PROVE Memory!Exclusive'
    <3>1. PICK a \in DOMAIN held' \ DOMAIN held :
            /\ Memory!Region(a, r[1]) \subseteq space'
            /\ \A b \in DOMAIN held : Memory!Region(a, r[1]) \cap Memory!Region(b, held[b]) = {}
            /\ held' = [b \in DOMAIN held \cup {a} |-> IF b = a THEN r[1] ELSE held[b]]
      BY <2>1 DEF Memory!Alloc
    <3>2. held'[a] = r[1] /\ \A b \in DOMAIN held : held'[b] = held[b]
      BY <3>1
    <3>3. \A b \in DOMAIN held' : Memory!Region(b, held'[b]) \subseteq space'
      BY <2>1, <3>1, <3>2 DEF Memory!Alloc, Memory!Exclusive
    <3>4. \A b, c \in DOMAIN held' : b # c =>
            Memory!Region(b, held'[b]) \cap Memory!Region(c, held'[c]) = {}
      BY <3>1, <3>2 DEF Memory!Exclusive
    <3>. QED BY <3>3, <3>4 DEF Memory!Exclusive, Memory!Region
  <2>2. CASE Memory!Refuse
    BY <2>2 DEF Memory!Refuse, Memory!Exclusive, Memory!Region
  <2>3. ASSUME NEW a \in DOMAIN held, Memory!Free(a) PROVE Memory!Exclusive'
    BY <2>3 DEF Memory!Free, Memory!Exclusive, Memory!Region
  <2>4. CASE Memory!Destroy
    BY <2>4 DEF Memory!Destroy, Memory!Exclusive
  <2>5. CASE UNCHANGED Memory!vars
    BY <2>5 DEF Memory!vars, Memory!fate, Memory!Exclusive, Memory!Region
  <2>. QED BY <2>1, <2>2, <2>3, <2>4, <2>5 DEF Memory!Next
<1>. QED BY <1>1, <1>2, PTL DEF Memory!Spec
===============================================================================
