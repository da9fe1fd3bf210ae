-------------------------------- MODULE Render --------------------------------
(***************************************************************************)
(* render.c on the frames of gpu.c.  The main thread pushes one command    *)
(* per model and one per frame; the render thread turns them into command  *)
(* buffers; the GPU executes submitted frames in its own time.  What a     *)
(* draw needs (a mesh, a shader with its pipeline, an instance with its    *)
(* uniform buffers and descriptors) lives in three caches and is destroyed *)
(* once FrameCount frames have gone by without it.                         *)
(*                                                                         *)
(* The command queue is a bounded FIFO (BoundedFifo): one thread pushes,   *)
(* one pops.  The caches start out as NULL: render_t is allocated from     *)
(* fresh pages, before anything of its size was freed.  A GPU object is    *)
(* named by what it was made for and by the frame that made it; a shader   *)
(* and its pipeline are made and destroyed together and count as one       *)
(* object, as do the buffers of an instance.  The pipeline reads vertices  *)
(* in the layout of the mesh it was first needed for: that is kept apart.  *)
(***************************************************************************)
EXTENDS Integers, Sequences, FiniteSets

CONSTANTS Entities,       \* bound: how many different entities are drawn
          Mesh, Shader,   \* the mesh and shader infos of the game
          MeshOf, ShaderOf, \* the infos each entity is drawn with
          LayoutOf,       \* the layout of each mesh's vertices
          Resident,       \* entities that are drawn in every frame
          None,           \* NULL
          QueueCapacity,  \* of the command queue (3 in the code)
          FrameCount,     \* images in the swap chain (at least 3 in the code)
          CallsFail,      \* of vkWaitForFences and vkQueueSubmit, those that
                          \* may fail, which is printed and passed over
          MaxFrames       \* bound: frames the game pushes

Entity == 1 .. Entities

ASSUME CacheAssumption == /\ Entities \in Nat \ {0}
                          /\ MeshOf \in [Entity -> Mesh]
                          /\ ShaderOf \in [Entity -> Shader]
                          /\ DOMAIN LayoutOf = Mesh
                          /\ Resident \subseteq Entity
                          /\ None \notin Entity \cup Mesh \cup Shader
                          /\ None \notin (Entity \cup Mesh \cup Shader) \X Nat
                          /\ Entity \cap Mesh = {} /\ Entity \cap Shader = {}
                          /\ Mesh \cap Shader = {}
ASSUME FrameAssumption == /\ QueueCapacity \in Nat \ {0}
                          /\ FrameCount \in Nat \ {0}
                          /\ MaxFrames \in Nat
                          /\ CallsFail \subseteq {"vkWaitForFences", "vkQueueSubmit"}

VARIABLES main,           \* what the main thread does next
          drawn,          \* main: entities pushed in the current frame
          pushed,         \* main: frames pushed
          queue,          \* the command queue
          thread,         \* what the render thread does next
          frame_counter,  \* frames submitted
          recording,      \* cmdbuf is not NULL
          draws,          \* what the command buffer being recorded uses
          instances, meshes, shaders, \* the caches
          pipelines,      \* the layout the pipeline of each shader is for
          alive,          \* GPU objects that exist
          pending,        \* frames submitted and not completed, in order
          unsignalled     \* fences that were reset for a frame the GPU refused

game == <<main, drawn, pushed>>
caches == <<instances, meshes, shaders, pipelines>>
submitted == <<pending, unsignalled>>
vars == <<game, queue, thread, frame_counter, recording, draws, caches, alive, submitted>>

MaxDrawables == Entities  \* k_render_max_drawables; keys never repeat
Blank == [key |-> None, object |-> None, stamp |-> 0]
EmptyCache == [count |-> 0, slots |-> [i \in 1 .. MaxDrawables |-> Blank]]

(* Commands: an entity to draw, the end of the frame, NULL. *)
Done == 0
Stop == -1

Init == /\ main = "draw" /\ drawn = {} /\ pushed = 0
        /\ queue = <<>>
        /\ thread = "pop"
        /\ frame_counter = 0
        /\ recording = FALSE
        /\ draws = {}
        /\ instances = EmptyCache /\ meshes = EmptyCache /\ shaders = EmptyCache
        /\ pipelines = [s \in Shader |-> None]
        /\ alive = {}
        /\ pending = <<>> /\ unsignalled = {}

-----------------------------------------------------------------------------
(* The main thread. *)

Push(command) == /\ Len(queue) < QueueCapacity
                 /\ queue' = Append(queue, command)

renderer == <<thread, frame_counter, recording, draws, caches, alive, submitted>>

(* draw_models walks the entities in the order of their slots. *)
PushModel(e) ==
  /\ main = "draw" /\ pushed < MaxFrames
  /\ \A d \in drawn : d < e
  /\ \A r \in Resident : r < e => r \in drawn
  /\ Push(e)
  /\ drawn' = drawn \cup {e}
  /\ UNCHANGED <<main, pushed, renderer>>

PushDone ==
  /\ main = "draw" /\ pushed < MaxFrames
  /\ Resident \subseteq drawn
  /\ Push(Done)
  /\ pushed' = pushed + 1
  /\ drawn' = {}
  /\ UNCHANGED <<main, renderer>>

(* The window is closed between two frames: render_destroy begins. *)
Shutdown ==
  /\ main = "draw" /\ drawn = {}
  /\ main' = "stop"
  /\ UNCHANGED <<drawn, pushed, queue, renderer>>

PushStop ==
  /\ main = "stop"
  /\ Push(Stop)
  /\ main' = "join"
  /\ UNCHANGED <<drawn, pushed, renderer>>

(* thread_destroy returns; the queue, then the game's resources are freed. *)
Join ==
  /\ main = "join" /\ thread = "exited"
  /\ main' = "freed"
  /\ UNCHANGED <<drawn, pushed, queue, renderer>>

-----------------------------------------------------------------------------
(* The caches. *)

SlotsOf(cache, key) == {i \in 1 .. cache.count : cache.slots[i].key = key}
SlotOf(cache, key) == CHOOSE i \in SlotsOf(cache, key) : TRUE
ObjectOf(cache, key) == cache.slots[SlotOf(cache, key)].object

(* create_or_get_..._for_model_command.  A new entry takes the slot after  *)
(* the last.  An instance always gets objects of its own; a mesh or shader *)
(* only if the slot it takes holds NULL.                                   *)
PlaceOf(cache, key) ==
  IF SlotsOf(cache, key) # {} THEN SlotOf(cache, key) ELSE cache.count + 1

Touched(cache, key, always_creates) ==
  LET found == SlotsOf(cache, key) # {}
      i == PlaceOf(cache, key)
      held == cache.slots[i].object
      created == IF always_creates THEN ~found ELSE held = None
      object == IF created THEN <<key, frame_counter>> ELSE held
  IN  [count |-> IF found THEN cache.count ELSE i,
       slots |-> [cache.slots EXCEPT ![i] = [key |-> key, object |-> object,
                                             stamp |-> frame_counter]]]

(* Faulty variant: an object is destroyed one frame early. *)
IsStaleEarly(entry, now) == entry.stamp + FrameCount - 1 <= now

IsStale(entry, now) == entry.stamp + FrameCount <= now

(* Faulty variant: the last entry is dropped instead of moved. *)
SweptUnmoved(cache, now) ==
  [cache EXCEPT !.count =
     @ - Cardinality({i \in 1 .. cache.count : IsStale(cache.slots[i], now)})]

(* destroy_stale_data: from the last entry down, a stale entry is replaced *)
(* by the last one.  The slot that falls free keeps what it held.          *)
Swept(cache, now) ==
  LET sweep[i \in 1 .. MaxDrawables + 1] ==
        IF i = MaxDrawables + 1 THEN cache
        ELSE LET rest == sweep[i + 1]
             IN  IF i <= cache.count /\ IsStale(rest.slots[i], now)
                   THEN [count |-> rest.count - 1,
                         slots |-> [rest.slots EXCEPT ![i] = rest.slots[rest.count]]]
                   ELSE rest
  IN  sweep[1]

StaleObjects(cache, now) ==
  {cache.slots[i].object : i \in {j \in 1 .. cache.count : IsStale(cache.slots[j], now)}}

DestroyStale(now) ==
  /\ instances' = Swept(instances, now)
  /\ meshes' = Swept(meshes, now)
  /\ shaders' = Swept(shaders, now)
  /\ alive' = alive \ (StaleObjects(instances, now) \cup StaleObjects(meshes, now)
                         \cup StaleObjects(shaders, now))
  /\ UNCHANGED pipelines

-----------------------------------------------------------------------------
(* The render thread. *)

Pop(command) == /\ thread = "pop"
                /\ queue # <<>> /\ Head(queue) = command
                /\ queue' = Tail(queue)

Objects(draw) == {draw.instance, draw.mesh, draw.shader}

(* A pipeline made now is for the mesh at hand; afterwards it is found by  *)
(* the shader alone.                                                       *)
PipelinesFor(e) ==
  IF shaders.slots[PlaceOf(shaders, ShaderOf[e])].object = None
    THEN [pipelines EXCEPT ![ShaderOf[e]] = LayoutOf[MeshOf[e]]]
    ELSE pipelines

RenderModel(e) ==
  /\ Pop(e)
  /\ recording' = TRUE
  /\ shaders' = Touched(shaders, ShaderOf[e], FALSE)
  /\ pipelines' = PipelinesFor(e)
  /\ meshes' = Touched(meshes, MeshOf[e], FALSE)
  /\ instances' = Touched(instances, e, TRUE)
  /\ LET draw == [entity |-> e,
                  instance |-> ObjectOf(instances', e),
                  mesh |-> ObjectOf(meshes', MeshOf[e]),
                  shader |-> ObjectOf(shaders', ShaderOf[e])]
     IN  /\ draws' = draws \cup {draw}
         /\ alive' = alive \cup {o \in Objects(draw) : o[2] = frame_counter}
  /\ UNCHANGED <<game, thread, frame_counter, submitted>>

(* gpu_frame_end, up to the wait for the fence of this frame's slot. *)
RenderDone ==
  /\ Pop(Done)
  /\ recording' = TRUE
  /\ thread' = "fence"
  /\ UNCHANGED <<game, frame_counter, draws, caches, alive, submitted>>

FrameIndex == frame_counter % FrameCount

(* A fence is signalled when no submitted frame is going to signal it.  A  *)
(* wait that fails returns too.                                            *)
FenceSignalled(index) ==
  /\ \A i \in DOMAIN pending : pending[i].index # index
  /\ index \notin unsignalled

WaitReturns == FenceSignalled(FrameIndex) \/ "vkWaitForFences" \in CallsFail

(* The fence is reset; the frame will signal it, unless the GPU refuses.   *)
Accepts == IF "vkQueueSubmit" \in CallsFail THEN BOOLEAN ELSE {TRUE}

SubmitFrame ==
  \E accepted \in Accepts :
    /\ pending' = IF accepted THEN Append(pending, [index |-> FrameIndex, draws |-> draws])
                              ELSE pending
    /\ unsignalled' = IF accepted THEN unsignalled \ {FrameIndex}
                                  ELSE unsignalled \cup {FrameIndex}

(* Faulty variant: the frame is not counted. *)
SubmitUncounted ==
  /\ thread = "fence" /\ WaitReturns
  /\ SubmitFrame
  /\ recording' = FALSE /\ draws' = {}
  /\ DestroyStale(frame_counter)
  /\ thread' = "pop"
  /\ UNCHANGED <<game, queue, frame_counter>>

(* The frame is submitted, stale data destroyed, the frame counted. *)
Submit ==
  /\ thread = "fence" /\ WaitReturns
  /\ SubmitFrame
  /\ recording' = FALSE /\ draws' = {}
  /\ DestroyStale(frame_counter)
  /\ frame_counter' = frame_counter + 1
  /\ thread' = "pop"
  /\ UNCHANGED <<game, queue>>

(* Faulty variant: NULL is taken for a command. *)
RenderStopMissed ==
  /\ Pop(Stop)
  /\ UNCHANGED <<game, thread, frame_counter, recording, draws, caches, alive, submitted>>

RenderStop ==
  /\ Pop(Stop)
  /\ thread' = "drain"
  /\ UNCHANGED <<game, frame_counter, recording, draws, caches, alive, submitted>>

(* Faulty variant: the counter is not advanced beyond every entry. *)
DrainAtOnce ==
  /\ thread = "drain" /\ pending = <<>>
  /\ DestroyStale(frame_counter)
  /\ thread' = "exited"
  /\ UNCHANGED <<game, queue, frame_counter, recording, draws, submitted>>

(* gpu_wait_until_idle, then everything is made stale and destroyed. *)
Drain ==
  /\ thread = "drain" /\ pending = <<>>
  /\ frame_counter' = frame_counter + FrameCount + 1
  /\ DestroyStale(frame_counter')
  /\ thread' = "exited"
  /\ UNCHANGED <<game, queue, recording, draws, submitted>>

(* The GPU: frames complete in the order of their submission. *)
GpuCompletes ==
  /\ pending # <<>>
  /\ pending' = Tail(pending)
  /\ UNCHANGED <<game, queue, thread, frame_counter, recording, draws, caches, alive, unsignalled>>

-----------------------------------------------------------------------------
RenderStep == (\E e \in Entity : RenderModel(e)) \/ RenderDone \/ Submit \/ RenderStop \/ Drain

(* The program has gone on to destroy the rest of the engine. *)
Finished == main = "freed" /\ UNCHANGED vars

Next == \/ \E e \in Entity : PushModel(e)
        \/ PushDone \/ Shutdown \/ PushStop \/ Join
        \/ RenderStep
        \/ GpuCompletes
        \/ Finished

(* The render thread and the GPU run; the main thread finishes shutting    *)
(* down once it has begun to.                                              *)
Fairness == WF_vars(RenderStep) /\ WF_vars(GpuCompletes) /\ WF_vars(PushStop \/ Join)

Spec == Init /\ [][Next]_vars /\ Fairness

-----------------------------------------------------------------------------
Object(keys) == keys \X (0 .. MaxFrames)
Draw == [entity : Entity, instance : Object(Entity), mesh : Object(Mesh), shader : Object(Shader)]
InUse == UNION ({{Objects(d) : d \in draws}} \cup
                {{Objects(d) : d \in pending[i].draws} : i \in DOMAIN pending})

(* No GPU object is destroyed while the command buffer being recorded or a *)
(* frame the GPU has not completed uses it (destroy_stale_data, after the  *)
(* fence of the frame FrameCount frames ago).                              *)
NothingInUseDestroyed == \A o \in UNION InUse : o \in alive

(* Every draw uses objects made for what render_push_model was given       *)
(* (render.h: "Push a model onto a queue of items to be rendered"), and a  *)
(* pipeline that reads the vertices of its mesh as they are laid out.      *)
RendersWhatIsPushed ==
  \A d \in draws : /\ Objects(d) \subseteq alive
                   /\ d.instance[1] = d.entity
                   /\ d.mesh[1] = MeshOf[d.entity]
                   /\ d.shader[1] = ShaderOf[d.entity]
                   /\ pipelines[d.shader[1]] = LayoutOf[MeshOf[d.entity]]

(* When the game goes on to free what the render thread points to, the     *)
(* thread is gone, every command has been handled and no GPU object is     *)
(* left (main.c: "Shutdown render before the game").                       *)
ShutdownClean ==
  main = "freed" => thread = "exited" /\ queue = <<>> /\ alive = {} /\ pending = <<>>

(* A frame's command buffer is not recorded anew, nor the uniform buffers  *)
(* of its index written, while the GPU still executes the frame before it  *)
(* (gpu_frame_begin, gpu.h: "May wait on a prior frame to complete").      *)
RecordsIdleFrame == recording /\ thread = "pop" => FenceSignalled(FrameIndex)

(* Every frame pushed is submitted. *)
EveryFrameComesOut ==
  \A n \in 1 .. MaxFrames : (pushed >= n) ~> (frame_counter >= n)

(* render_destroy returns. *)
ShutdownReturns == (main = "stop") ~> (main = "freed")
=============================================================================
