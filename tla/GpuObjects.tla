------------------------------ MODULE GpuObjects ------------------------------
(***************************************************************************)
(* gpu.c: the objects behind a gpu_t and behind what it creates.  A create *)
(* function makes its objects one after the other, each of which Vulkan    *)
(* may refuse; it then calls the destroy function on what there is, and    *)
(* returns NULL.  A destroy function goes over the fields of the struct in *)
(* an order of its own and destroys those that are not NULL.  The model    *)
(* lists both orders; what they have to respect is in Children and Feeds.  *)
(***************************************************************************)
EXTENDS Naturals, Sequences, SequencesExt

CONSTANT FrameCount  \* images in the swap chain

ASSUME FrameCountAssumption == FrameCount \in Nat \ {0}

(* Objects there is one of, and those there are of each image: all of the  *)
(* first image's, then all of the second's.                                *)
One(names) == [i \in 1 .. Len(names) |-> <<names[i], 0>>]
Each(names) ==
  [k \in 1 .. FrameCount * Len(names) |->
     <<names[((k - 1) % Len(names)) + 1], ((k - 1) \div Len(names)) + 1>>]

(* gpu_create.  A "query" is a Vulkan call that makes nothing but can fail. *)
InstanceAndDevice == One(<<"gpu", "instance", "query", "device">>)
SurfaceAndFrames == One(<<"surface", "query", "swap_chain", "query", "frames", "query">>)
                      \o Each(<<"view">>)
DepthAndPass == One(<<"depth_image", "depth_memory", "query", "depth_view", "render_pass">>)
FramesAndPools == Each(<<"frame_buffer">>)
                    \o One(<<"present_sema", "render_sema", "descriptor_pool", "cmd_pool">>)
CmdBuffers == Each(<<"cmd_buffer", "cmds", "fence">>)
MeshLayouts == One(<<"binding_p", "attributes_p", "binding_pc", "attributes_pc">>)

CreateGpu ==
  InstanceAndDevice \o SurfaceAndFrames \o DepthAndPass \o FramesAndPools \o CmdBuffers \o MeshLayouts

(* The other create functions. *)
CreateMesh == One(<<"mesh", "vertex_buffer", "vertex_memory", "query",
                    "index_buffer", "index_memory", "query">>)
CreateShader == One(<<"shader", "vertex_module", "fragment_module", "set_layout">>)
CreatePipeline == One(<<"pipeline", "pipeline_layout", "pipe">>)
CreateUniform == One(<<"uniform", "buffer", "memory", "query">>)
CreateDescriptor == One(<<"descriptor", "set">>)

CreateOrder == [gpu |-> CreateGpu, mesh |-> CreateMesh, shader |-> CreateShader,
                pipeline |-> CreatePipeline, uniform |-> CreateUniform,
                descriptor |-> CreateDescriptor]

(* Allocated with heap_alloc: no failure is handled, or expected. *)
Struct == {"gpu", "frames", "cmd_buffer", "binding_p", "attributes_p", "binding_pc",
           "attributes_pc", "mesh", "shader", "pipeline", "uniform", "descriptor"}

(* Faulty variant: the pools go before what was allocated from them. *)
DestroyGpuPoolFirst ==
  MeshLayouts
    \o One(<<"render_sema", "present_sema", "depth_view", "depth_image", "depth_memory",
             "descriptor_pool", "cmd_pool">>)
    \o Each(<<"fence", "cmds", "cmd_buffer", "frame_buffer", "view">>)
    \o One(<<"frames", "render_pass", "swap_chain", "surface", "device", "instance", "gpu">>)

(* gpu_destroy *)
DestroyGpu ==
  MeshLayouts
    \o One(<<"render_sema", "present_sema", "depth_view", "depth_image", "depth_memory">>)
    \o Each(<<"fence", "cmds", "cmd_buffer", "frame_buffer", "view">>)
    \o One(<<"frames", "descriptor_pool", "cmd_pool", "render_pass", "swap_chain",
             "surface", "device", "instance", "gpu">>)

(* Faulty variant: the index buffer is forgotten. *)
DestroyMeshVertexOnly == One(<<"vertex_buffer", "vertex_memory", "mesh">>)

DestroyMesh == One(<<"index_buffer", "index_memory", "vertex_buffer", "vertex_memory", "mesh">>)
DestroyShader == One(<<"vertex_module", "fragment_module", "set_layout", "shader">>)
DestroyPipeline == One(<<"pipeline_layout", "pipe", "pipeline">>)
DestroyUniform == One(<<"buffer", "memory", "uniform">>)
DestroyDescriptor == One(<<"set", "descriptor">>)

DestroyOrder == [gpu |-> DestroyGpu, mesh |-> DestroyMesh, shader |-> DestroyShader,
                 pipeline |-> DestroyPipeline, uniform |-> DestroyUniform,
                 descriptor |-> DestroyDescriptor]

Thing == DOMAIN CreateOrder
ObjectsOf(thing) == {o \in ToSet(CreateOrder[thing]) : o[1] # "query"}

VARIABLES alive,  \* objects that exist
          up,     \* things whose create function has returned them
          call    \* the gpu.c function that is running, and how far it is

vars == <<alive, up, call>>

NoCall == [does |-> "none", thing |-> "gpu", step |-> 0]
Calls(does, thing) == [does |-> does, thing |-> thing, step |-> 1]

Init == alive = {} /\ up = {} /\ call = NoCall

(* What render.c has at hand when it creates a thing, and what it has      *)
(* destroyed before it destroys one.                                       *)
Needs == [gpu |-> {}, mesh |-> {"gpu"}, shader |-> {"gpu"}, pipeline |-> {"gpu", "shader"},
          uniform |-> {"gpu"}, descriptor |-> {"gpu", "shader", "uniform"}]

Create(thing) ==
  /\ call = NoCall
  /\ thing \notin up /\ Needs[thing] \subseteq up
  /\ call' = Calls("create", thing)
  /\ UNCHANGED <<alive, up>>

Destroy(thing) ==
  /\ call = NoCall
  /\ thing \in up /\ \A t \in up : thing \notin Needs[t]
  /\ call' = Calls("destroy", thing)
  /\ UNCHANGED <<alive, up>>

Object == CreateOrder[call.thing][call.step]

(* The next object of a create function is made; after the last it returns. *)
Makes ==
  /\ call.does = "create"
  /\ alive' = IF Object[1] = "query" THEN alive ELSE alive \cup {Object}
  /\ IF call.step = Len(CreateOrder[call.thing])
       THEN up' = up \cup {call.thing} /\ call' = NoCall
       ELSE up' = up /\ call' = [call EXCEPT !.step = @ + 1]

(* Vulkan refuses it: the create function destroys what there is. *)
Fails ==
  /\ call.does = "create" /\ Object[1] \notin Struct
  /\ call' = Calls("destroy", call.thing)
  /\ UNCHANGED <<alive, up>>

(* The next field of a destroy function, if it is not NULL. *)
Destroys ==
  /\ call.does = "destroy"
  /\ alive' = alive \ {DestroyOrder[call.thing][call.step]}
  /\ IF call.step = Len(DestroyOrder[call.thing])
       THEN up' = up \ {call.thing} /\ call' = NoCall
       ELSE up' = up /\ call' = [call EXCEPT !.step = @ + 1]

Next == \/ \E thing \in Thing : Create(thing) \/ Destroy(thing)
        \/ Makes \/ Fails \/ Destroys

Spec == Init /\ [][Next]_vars

-----------------------------------------------------------------------------
(* Between calls exactly the objects of the things in hand exist: a create *)
(* function that fails, at whichever step, leaves nothing behind, and a    *)
(* destroy function forgets no field its create function sets.             *)
NothingLeaks ==
  call = NoCall => alive = UNION {ObjectsOf(thing) : thing \in up}

(* What cannot go before what: a struct before what its fields name, and   *)
(* in Vulkan a pool, a swap chain, a surface, the device or the instance   *)
(* before what was made in it.  (What hangs on the device also is a field  *)
(* of gpu_t, which goes last.)                                             *)
OfDevice == {"swap_chain", "view", "depth_image", "depth_memory", "depth_view", "render_pass",
             "frame_buffer", "present_sema", "render_sema", "descriptor_pool", "cmd_pool",
             "fence", "vertex_buffer", "vertex_memory", "index_buffer", "index_memory",
             "vertex_module", "fragment_module", "set_layout", "pipeline_layout", "pipe",
             "buffer", "memory"}
Children == [
  gpu |-> {"instance", "frames", "binding_p", "attributes_p", "binding_pc", "attributes_pc"},
  frames |-> {"view", "frame_buffer", "fence", "cmd_buffer"},
  mesh |-> {"vertex_buffer", "vertex_memory", "index_buffer", "index_memory"},
  shader |-> {"vertex_module", "fragment_module", "set_layout"},
  pipeline |-> {"pipeline_layout", "pipe"},
  uniform |-> {"buffer", "memory"},
  descriptor |-> {"set"},
  instance |-> {"device", "surface"},
  surface |-> {"swap_chain"},
  device |-> OfDevice,
  swap_chain |-> {"view"},
  cmd_pool |-> {"cmds"},
  descriptor_pool |-> {"set"}]

(* What a create function is given to make another object, which Vulkan    *)
(* lets it outlive: a frame buffer outlives its depth view in gpu_destroy, *)
(* and a pipeline its layout in gpu_pipeline_destroy.                      *)
Feeds == [
  depth_image |-> {"depth_memory", "depth_view"},
  depth_memory |-> {"depth_view"},
  depth_view |-> {"frame_buffer"},
  render_pass |-> {"frame_buffer", "pipe"},
  binding_p |-> {"pipe"}, attributes_p |-> {"pipe"},
  binding_pc |-> {"pipe"}, attributes_pc |-> {"pipe"},
  vertex_buffer |-> {"vertex_memory"},
  index_buffer |-> {"index_memory"},
  buffer |-> {"memory", "set"},
  vertex_module |-> {"pipe"}, fragment_module |-> {"pipe"},
  set_layout |-> {"pipeline_layout", "set"},
  pipeline_layout |-> {"pipe"}]

To(name, relation) == {<<n, 0>> : n \in {m \in DOMAIN relation : name \in relation[m]}}

Parents(o) == To(o[1], Children) \cup {<<"cmd_buffer", o[2]>> : n \in {"cmds"} \cap {o[1]}}
MadeFrom(o) == Parents(o) \cup To(o[1], Feeds)
                 \cup {<<"view", o[2]>> : n \in {"frame_buffer"} \cap {o[1]}}

(* Nothing is destroyed before what it is the parent of, after a failure   *)
(* at any step too.                                                        *)
ParentsOutliveChildren == \A o \in alive : Parents(o) \subseteq alive

(* A create function makes nothing before all it is made from, and a       *)
(* destroy function, once it returns, has destroyed nothing that something *)
(* left was made from.                                                     *)
InputsInPlace == call.does # "destroy" => \A o \in alive : MadeFrom(o) \subseteq alive

(* The orders in which gpu.c goes over its fields, wherever a create       *)
(* function fails (gpu.c:622), and in which render.c calls it: nothing     *)
(* exists without what it lives in, nor, outside a destroy function,       *)
(* without what it was made from.                                          *)
NothingDangles == ParentsOutliveChildren /\ InputsInPlace
=============================================================================
