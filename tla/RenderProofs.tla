---------------------------- MODULE RenderProofs ----------------------------
(***************************************************************************)
(* Proofs about Render.tla, for every set of entities and looks, capacity  *)
(* of the command queue, number of frames in flight and of frames pushed.  *)
(***************************************************************************)
EXTENDS Render, SequenceTheorems, FiniteSetTheorems, WellFoundedInduction, TLAPS

Keys(infoOf) == {infoOf[e] : e \in Entity}
EntityKeys == [e \in Entity |-> e]

Entry(K) == [key : K \cup {None}, object : (K \X Nat) \cup {None}, stamp : Nat]

CacheSet(K) == [count : 0 .. MaxDrawables, slots : [1 .. MaxDrawables -> Entry(K)]]

Entries(cache) == {cache.slots[i] : i \in 1 .. cache.count}
Holds(cache) == {x.object : x \in Entries(cache)}

Distinct(cache) ==
  \A i, j \in 1 .. cache.count : cache.slots[i].key = cache.slots[j].key => i = j

(* An entry in use holds an object, and is not from the future.            *)
InUseBy(x, K, now) == x.key \in K /\ x.object # None /\ x.stamp <= now

(* A cache of entries with the keys K, no two of them with the same.       *)
Shape(cache, K, now) == /\ cache \in CacheSet(K)
                        /\ \A x \in Entries(cache) : InUseBy(x, K, now)
                        /\ Distinct(cache)

TypeInv ==
  /\ main \in {"draw", "stop", "join", "freed"}
  /\ thread \in {"pop", "fence", "drain", "exited"}
  /\ queue \in Seq(Entity \cup {Done, Stop})
  /\ frame_counter \in Nat

ShapeInv == /\ Shape(instances, Keys(EntityKeys), frame_counter)
            /\ Shape(meshes, Keys(MeshOf), frame_counter)
            /\ Shape(shaders, Keys(ShaderOf), frame_counter)

AliveInv == alive \subseteq Holds(instances) \cup Holds(meshes) \cup Holds(shaders)

(* NULL is the last command, and the render thread leaves after it.        *)
StopInv ==
  /\ \A i \in DOMAIN queue : queue[i] = Stop => i = Len(queue) /\ main = "join"
  /\ thread \in {"drain", "exited"} => queue = <<>> /\ main \in {"join", "freed"}
  /\ thread = "exited" => alive = {} /\ pending = <<>>
  /\ main = "freed" => thread = "exited"

BaseInv == TypeInv /\ ShapeInv /\ AliveInv /\ StopInv

-----------------------------------------------------------------------------
(* Every mesh and every shader is that of an entity drawn in every frame.  *)
LooksResident ==
  \A e \in Entity : /\ \E r \in Resident : MeshOf[r] = MeshOf[e]
                    /\ \E r \in Resident : ShaderOf[r] = ShaderOf[e]

Processed == {d.entity : d \in draws}

(* The entity is among those pushed before the i-th command on the queue   *)
(* for the frame that command belongs to.                                  *)
InFrame(e, i) ==
  \/ \E j \in 1 .. i - 1 : queue[j] = e /\ \A k \in j .. i - 1 : queue[k] # Done
  \/ /\ thread # "fence" /\ e \in Processed
     /\ \A k \in 1 .. i - 1 : queue[k] # Done

FramesInv ==
  /\ \A i \in 1 .. Len(queue) : queue[i] = Done => \A r \in Resident : InFrame(r, i)
  /\ \A e \in Entity : e \in drawn <=> InFrame(e, Len(queue) + 1)
  /\ main # "draw" => drawn = {}
  /\ thread = "fence" => Resident \subseteq Processed

(* Objects are made for the key of their entry, and a slot that is free    *)
(* holds none: nothing leaves these caches while the thread renders.       *)
Exact(cache) == \A x \in Entries(cache) : x.object[1] = x.key
Unused(cache) == \A i \in cache.count + 1 .. MaxDrawables : cache.slots[i].object = None

(* An entry holds the object and was last used in frame n or later.        *)
Held(cache, o, n) == \E x \in Entries(cache) : x.object = o /\ x.stamp >= n

HeldDraw(d, n) ==
  /\ Held(instances, d.instance, n)
  /\ Held(meshes, d.mesh, n)
  /\ Held(shaders, d.shader, n)

Number(i) == frame_counter - Len(pending) + i - 1

DrawSet == [entity : Entity, instance : Entity \X Nat, mesh : Mesh \X Nat, shader : Shader \X Nat]

DrawsInv ==
  /\ draws \subseteq DrawSet
  /\ \A d \in draws : /\ HeldDraw(d, frame_counter)
                      /\ d.instance[1] = d.entity
                      /\ d.mesh[1] = MeshOf[d.entity]
                      /\ d.shader[1] = ShaderOf[d.entity]
  /\ thread \in {"drain", "exited"} => draws = {}

PendingInv ==
  /\ pending \in Seq([index : Nat, draws : SUBSET DrawSet])
  /\ Len(pending) <= FrameCount /\ Len(pending) <= frame_counter
  /\ \A i \in 1 .. Len(pending) : /\ pending[i].index = Number(i) % FrameCount
                                  /\ \A d \in pending[i].draws : HeldDraw(d, Number(i))

KeepInv ==
  thread # "exited" =>
    /\ Exact(instances) /\ Exact(meshes) /\ Exact(shaders)
    /\ Unused(meshes) /\ Unused(shaders)
    /\ Holds(instances) \cup Holds(meshes) \cup Holds(shaders) \subseteq alive

KeptInv == BaseInv /\ FramesInv /\ DrawsInv /\ KeepInv
StrongInv == KeptInv /\ PendingInv

(* What is drawn with one shader has vertices of one layout.               *)
OneLayout ==
  \A e, f \in Entity : ShaderOf[e] = ShaderOf[f] => LayoutOf[MeshOf[e]] = LayoutOf[MeshOf[f]]

(* The pipeline in the cache is for the layout of whatever is drawn with   *)
(* its shader.                                                             *)
RightLayout(s) == \A e \in Entity : ShaderOf[e] = s => pipelines[s] = LayoutOf[MeshOf[e]]

LayoutInv == /\ DOMAIN pipelines = Shader
             /\ \A o \in Holds(shaders) : RightLayout(o[1])
-----------------------------------------------------------------------------
(* Induction over numbers, as an operator that takes no operator. *)
LEMMA Least ==
  ASSUME NEW T, T \subseteq Nat, T # {}
  PROVE  \E x \in T : \A y \in T : x <= y
<1> DEFINE R == OpToRel(<, Nat)
<1>1. IsWellFoundedOn(R, Nat)
  BY NatLessThanWellFounded
<1> HIDE DEF R
<1>2. \E x \in T : \A y \in T : ~(<<y, x>> \in R)
  BY <1>1, WFMin
<1>3. \A x, y \in Nat : y < x => <<y, x>> \in R
  BY DEF R, OpToRel
<1>4. PICK x \in T : \A y \in T : ~(<<y, x>> \in R)
  BY <1>2
<1>5. ASSUME NEW y \in T PROVE x <= y
  <2>1. x \in Nat /\ y \in Nat /\ ~(<<y, x>> \in R)
    BY <1>4
  <2>2. ~(y < x)
    BY <2>1, <1>3
  <2>3. QED
    BY <2>1, <2>2
<1>6. QED
  BY <1>4, <1>5


(* The equation that defines the passes of Swept, from the last slot down. *)
Pass(cache, now, i, rest) ==
  IF i <= cache.count /\ IsStale(rest.slots[i], now)
    THEN [count |-> rest.count - 1,
          slots |-> [rest.slots EXCEPT ![i] = rest.slots[rest.count]]]
    ELSE rest

Sweeps(f, cache, now) ==
  f = [i \in 1 .. MaxDrawables + 1 |->
         IF i = MaxDrawables + 1 THEN cache ELSE Pass(cache, now, i, f[i + 1])]

(* The passes down to slot i. *)
SweepsDown(f, cache, now, i) ==
  /\ f[MaxDrawables + 1] = cache
  /\ \A j \in i .. MaxDrawables : f[j] = Pass(cache, now, j, f[j + 1])

LEMMA SweepsDownExists ==
  ASSUME NEW cache, NEW now
  PROVE  \E f : SweepsDown(f, cache, now, 1)
<1> DEFINE M == MaxDrawables
           T == {k \in 0 .. M : ~\E f : SweepsDown(f, cache, now, M + 1 - k)}
<1>1. M \in Nat \ {0}
  BY CacheAssumption DEF MaxDrawables
<1>2. ASSUME T # {} PROVE FALSE
  <2>1. PICK k \in T : \A m \in T : k <= m
    <3>1. T \subseteq Nat
      OBVIOUS
    <3>2. QED
      BY <1>2, <3>1, Least, Zenon
  <2>2. \E f : SweepsDown(f, cache, now, M + 1)
    <3>1. SweepsDown([i \in 1 .. M + 1 |-> cache], cache, now, M + 1)
      BY <1>1 DEF SweepsDown
    <3>2. QED
      BY <3>1
  <2>3. k # 0
    <3>1. M + 1 - 0 = M + 1
      BY <1>1
    <3>2. QED
      BY <2>1, <2>2, <3>1
  <2>4. k \in 1 .. M /\ k - 1 \in 0 .. M /\ k - 1 \notin T
    BY <1>1, <2>1, <2>3
  <2>5. PICK f : SweepsDown(f, cache, now, M + 1 - (k - 1))
    BY <2>4
  <2> DEFINE i == M + 1 - k
             g == [j \in 1 .. M + 1 |-> IF j = i THEN Pass(cache, now, i, f[i + 1]) ELSE f[j]]
  <2>6. i \in 1 .. M /\ M + 1 - (k - 1) = i + 1
    BY <1>1, <2>4
  <2>7. SweepsDown(f, cache, now, i + 1)
    BY <2>5, <2>6
  <2> HIDE DEF i
  <2>8. /\ g[M + 1] = f[M + 1] /\ g[i] = Pass(cache, now, i, f[i + 1])
        /\ \A j \in i + 1 .. M + 1 : g[j] = f[j]
    BY <1>1, <2>6
  <2> HIDE DEF g
  <2>9. ASSUME NEW j \in i .. M PROVE g[j] = Pass(cache, now, j, g[j + 1])
    <3>1. j + 1 \in i + 1 .. M + 1 /\ g[j + 1] = f[j + 1]
      BY <1>1, <2>6, <2>8
    <3>2. CASE j = i
      BY <2>8, <3>1, <3>2
    <3>3. CASE j # i
      <4>1. j \in i + 1 .. M /\ g[j] = f[j]
        BY <1>1, <2>6, <2>8, <3>3
      <4>2. QED
        BY <2>7, <3>1, <4>1 DEF SweepsDown
    <3>4. QED
      BY <3>2, <3>3
  <2>10. SweepsDown(g, cache, now, i)
    BY <2>7, <2>8, <2>9 DEF SweepsDown
  <2>11. QED
    BY <2>1, <2>10 DEF i
<1>3. \E f : SweepsDown(f, cache, now, M + 1 - M)
  <2>1. M \in 0 .. M /\ M \notin T
    BY <1>1, <1>2
  <2>2. QED
    BY <2>1
<1>4. M + 1 - M = 1
  BY <1>1
<1>5. QED
  BY <1>3, <1>4

LEMMA SweptIs ==
  ASSUME NEW cache, NEW now
  PROVE  \E f : SweepsDown(f, cache, now, 1) /\ Swept(cache, now) = f[1]
<1> DEFINE M == MaxDrawables
<1>1. M \in Nat \ {0}
  BY CacheAssumption DEF MaxDrawables
<1>2. PICK f : SweepsDown(f, cache, now, 1)
  BY SweepsDownExists
<1> DEFINE g == [i \in 1 .. M + 1 |-> f[i]]
<1>3. \A i \in 1 .. M + 1 : g[i] = IF i = M + 1 THEN cache ELSE Pass(cache, now, i, g[i + 1])
  BY <1>1, <1>2 DEF SweepsDown
<1>4. g = [i \in 1 .. M + 1 |-> g[i]]
  OBVIOUS
<1> HIDE DEF g
<1>5. Sweeps(g, cache, now)
  BY <1>3, <1>4, Zenon DEF Sweeps
<1>6. \E h : Sweeps(h, cache, now) /\ Swept(cache, now) = h[1]
  BY <1>5, Zenon DEF Sweeps, Swept, Pass
<1>7. PICK h : Sweeps(h, cache, now) /\ Swept(cache, now) = h[1]
  BY <1>6
<1>8. \A i \in 1 .. M + 1 : h[i] = IF i = M + 1 THEN cache ELSE Pass(cache, now, i, h[i + 1])
  BY <1>7, Zenon DEF Sweeps
<1>9. SweepsDown(h, cache, now, 1)
  BY <1>1, <1>8 DEF SweepsDown
<1>10. QED
  BY <1>7, <1>9

(* What the passes down to slot i leave: the slots below as they were, and *)
(* from there on the entries that are not stale.                           *)
SweptTo(rest, cache, now, K, i) ==
  /\ rest \in CacheSet(K)
  /\ rest.count <= cache.count
  /\ \A k \in 1 .. i - 1 : k <= cache.count => /\ k <= rest.count
                                               /\ rest.slots[k] = cache.slots[k]
  /\ \A k \in i .. rest.count : ~IsStale(rest.slots[k], now) /\ rest.slots[k] \in Entries(cache)
  /\ \A j \in i .. cache.count : ~IsStale(cache.slots[j], now) =>
       \E k \in i .. rest.count : rest.slots[k] = cache.slots[j]
  /\ Distinct(rest)
  /\ (\A x \in Entries(cache) : ~IsStale(x, now)) => rest = cache

LEMMA PassSweeps ==
  ASSUME NEW cache, NEW now, NEW K, NEW i \in 1 .. MaxDrawables, NEW rest,
         cache \in CacheSet(K), SweptTo(rest, cache, now, K, i + 1)
  PROVE  SweptTo(Pass(cache, now, i, rest), cache, now, K, i)
<1> DEFINE M == MaxDrawables
           n == cache.count
           c == rest.count
           s == rest.slots
           swept == Pass(cache, now, i, rest)
<1>1. /\ M \in Nat \ {0} /\ n \in 0 .. M /\ c \in 0 .. M /\ c <= n
      /\ s \in [1 .. M -> Entry(K)] /\ cache.slots \in [1 .. M -> Entry(K)]
      /\ \A k \in 1 .. i : k <= n => k <= c /\ s[k] = cache.slots[k]
      /\ \A k \in i + 1 .. c : ~IsStale(s[k], now) /\ s[k] \in Entries(cache)
      /\ \A j \in i + 1 .. n : ~IsStale(cache.slots[j], now) =>
           \E k \in i + 1 .. c : s[k] = cache.slots[j]
      /\ \A k, l \in 1 .. c : s[k].key = s[l].key => k = l
      /\ (\A x \in Entries(cache) : ~IsStale(x, now)) => rest = cache
  BY CacheAssumption DEF SweptTo, CacheSet, Distinct, MaxDrawables
<1>2. CASE i <= n /\ IsStale(s[i], now)
  <2> DEFINE new == [s EXCEPT ![i] = s[c]]
  <2>1. i <= c /\ c \in 1 .. M /\ s[i] = cache.slots[i]
    BY <1>1, <1>2
  <2>2. swept = [count |-> c - 1, slots |-> new]
    BY <1>2 DEF Pass
  <2>3. /\ new \in [1 .. M -> Entry(K)] /\ new[i] = s[c]
        /\ \A k \in 1 .. M : k # i => new[k] = s[k]
    BY <1>1, <2>1
  <2>4. swept \in CacheSet(K) /\ swept.count = c - 1 /\ swept.slots = new
    BY <1>1, <2>1, <2>2, <2>3 DEF CacheSet
  <2> HIDE DEF swept, new, c, s, n, M
  <2>5. \A k \in 1 .. i - 1 : k <= n => k <= c - 1 /\ new[k] = cache.slots[k]
    BY <1>1, <2>1, <2>3
  <2>6. \A k \in i .. c - 1 : ~IsStale(new[k], now) /\ new[k] \in Entries(cache)
    BY <1>1, <2>1, <2>3
  <2>7. ASSUME NEW j \in i .. n, ~IsStale(cache.slots[j], now)
        PROVE  \E k \in i .. c - 1 : new[k] = cache.slots[j]
    <3>1. j # i
      BY <1>2, <2>1, <2>7
    <3>2. PICK k \in i + 1 .. c : s[k] = cache.slots[j]
      BY <1>1, <2>7, <3>1
    <3>3. CASE k = c
      <4>1. new[i] = cache.slots[j] /\ i \in i .. c - 1
        BY <1>1, <2>1, <2>3, <3>2, <3>3
      <4>2. QED
        BY <4>1
    <3>4. CASE k # c
      <4>1. k \in i .. c - 1 /\ new[k] = cache.slots[j]
        BY <1>1, <2>1, <2>3, <3>2, <3>4
      <4>2. QED
        BY <4>1
    <3>5. QED
      BY <3>3, <3>4
  <2>8. ASSUME NEW k \in 1 .. c - 1, NEW l \in 1 .. c - 1, new[k].key = new[l].key
        PROVE  k = l
    <3> DEFINE from(m) == IF m = i THEN c ELSE m
    <3>1. /\ from(k) \in 1 .. c /\ from(l) \in 1 .. c
          /\ new[k] = s[from(k)] /\ new[l] = s[from(l)]
      BY <1>1, <2>1, <2>3
    <3>2. from(k) = from(l)
      BY <1>1, <2>8, <3>1
    <3>3. QED
      BY <1>1, <2>1, <3>2
  <2>9. cache.slots[i] \in Entries(cache)
    BY <1>1, <1>2 DEF Entries, n
  <2>10. ~(\A x \in Entries(cache) : ~IsStale(x, now))
    BY <1>2, <2>1, <2>9
  <2>11. swept.count <= n
    BY <1>1, <2>4
  <2>12. Distinct(swept)
    BY <2>4, <2>8 DEF Distinct
  <2>13. QED
    BY <2>4, <2>5, <2>6, <2>7, <2>10, <2>11, <2>12 DEF SweptTo, swept, n
<1>3. CASE ~(i <= n /\ IsStale(s[i], now))
  <2>1. swept = rest
    BY <1>3 DEF Pass
  <2>2. ASSUME NEW k \in i .. c PROVE ~IsStale(s[k], now) /\ s[k] \in Entries(cache)
    <3>1. CASE k = i
      <4>1. i <= n /\ s[i] = cache.slots[i]
        BY <1>1, <3>1
      <4>2. cache.slots[i] \in Entries(cache)
        BY <1>1, <4>1 DEF Entries
      <4>3. QED
        BY <1>3, <3>1, <4>1, <4>2
    <3>2. CASE k # i
      BY <1>1, <3>2
    <3>3. QED
      BY <3>1, <3>2
  <2>3. ASSUME NEW j \in i .. n, ~IsStale(cache.slots[j], now)
        PROVE  \E k \in i .. c : s[k] = cache.slots[j]
    <3>1. CASE j = i
      <4>1. i \in i .. c /\ s[i] = cache.slots[j]
        BY <1>1, <3>1
      <4>2. QED
        BY <4>1
    <3>2. CASE j # i
      <4>1. PICK k \in i + 1 .. c : s[k] = cache.slots[j]
        BY <1>1, <2>3, <3>2
      <4>2. QED
        BY <1>1, <4>1
    <3>3. QED
      BY <3>1, <3>2
  <2>4. \A k \in 1 .. i - 1 : k \in 1 .. i
    BY <1>1
  <2> HIDE DEF swept
  <2>5. QED
    BY <1>1, <2>1, <2>2, <2>3, <2>4 DEF SweptTo, swept, CacheSet, Distinct
<1>4. QED
  BY <1>2, <1>3

(* What Swept does, in any order the entries were in.                      *)
LEMMA SweptKeeps ==
  ASSUME NEW cache, NEW now, NEW K, cache \in CacheSet(K), Distinct(cache)
  PROVE  LET swept == Swept(cache, now)
         IN  /\ swept \in CacheSet(K) /\ Distinct(swept)
             /\ Entries(swept) = {x \in Entries(cache) : ~IsStale(x, now)}
             /\ (\A x \in Entries(cache) : ~IsStale(x, now)) => swept = cache
<1> DEFINE M == MaxDrawables
<1>1. M \in Nat \ {0} /\ cache.count \in 0 .. M
  BY CacheAssumption DEF MaxDrawables, CacheSet
<1>2. PICK f : SweepsDown(f, cache, now, 1) /\ Swept(cache, now) = f[1]
  BY SweptIs
<1> DEFINE T == {k \in 0 .. M : ~SweptTo(f[M + 1 - k], cache, now, K, M + 1 - k)}
<1>3. SweptTo(f[M + 1], cache, now, K, M + 1)
  <2>1. f[M + 1] = cache
    BY <1>2 DEF SweepsDown
  <2>2. SweptTo(cache, cache, now, K, M + 1)
    BY <1>1 DEF SweptTo
  <2>3. QED
    BY <2>1, <2>2
<1>4. ASSUME T # {} PROVE FALSE
  <2>1. PICK k \in T : \A m \in T : k <= m
    <3>1. T \subseteq Nat
      OBVIOUS
    <3>2. QED
      BY <1>4, <3>1, Least, Zenon
  <2>2. k # 0
    <3>1. M + 1 - 0 = M + 1
      BY <1>1
    <3>2. QED
      BY <1>3, <2>1, <3>1
  <2>3. k \in 1 .. M /\ k - 1 \in 0 .. M /\ k - 1 \notin T
    BY <1>1, <2>1, <2>2
  <2> DEFINE i == M + 1 - k
  <2>4. i \in 1 .. M /\ M + 1 - (k - 1) = i + 1
    BY <1>1, <2>3
  <2>5. SweptTo(f[i + 1], cache, now, K, i + 1)
    BY <2>3, <2>4
  <2>6. f[i] = Pass(cache, now, i, f[i + 1])
    BY <1>1, <1>2, <2>4 DEF SweepsDown
  <2>7. SweptTo(f[i], cache, now, K, i)
    BY <2>4, <2>5, <2>6, PassSweeps
  <2>8. QED
    BY <2>1, <2>7
<1>5. SweptTo(f[1], cache, now, K, 1)
  <2>1. M \in 0 .. M /\ M \notin T /\ M + 1 - M = 1
    BY <1>1, <1>4
  <2>2. QED
    BY <2>1
<1> DEFINE swept == f[1]
<1>6. swept \in CacheSet(K) /\ Distinct(swept)
      /\ ((\A x \in Entries(cache) : ~IsStale(x, now)) => swept = cache)
  BY <1>5 DEF SweptTo
<1>7. Entries(swept) \subseteq {x \in Entries(cache) : ~IsStale(x, now)}
  BY <1>5 DEF SweptTo, Entries
<1>8. ASSUME NEW x \in Entries(cache), ~IsStale(x, now) PROVE x \in Entries(swept)
  <2>1. PICK j \in 1 .. cache.count : x = cache.slots[j]
    BY DEF Entries
  <2>2. PICK k \in 1 .. swept.count : swept.slots[k] = cache.slots[j]
    BY <1>5, <1>8, <2>1 DEF SweptTo
  <2>3. QED
    BY <2>1, <2>2 DEF Entries
<1>9. QED
  BY <1>2, <1>6, <1>7, <1>8

-----------------------------------------------------------------------------
(* There is room for a key that is not in the cache.                       *)
LEMMA Room ==
  ASSUME NEW cache, NEW infoOf, NEW key \in Keys(infoOf), NEW now,
         Shape(cache, Keys(infoOf), now), SlotsOf(cache, key) = {}
  PROVE  cache.count + 1 \in 1 .. MaxDrawables
<1> DEFINE M == MaxDrawables
<1>1. M \in Nat \ {0} /\ M = Entities /\ Entity = 1 .. M
  BY CacheAssumption DEF MaxDrawables, Entity
<1>2. cache.count \in 0 .. M
  BY DEF Shape, CacheSet
<1>3. ASSUME cache.count = M PROVE FALSE
  <2> DEFINE keyAt(i) == IF i = 0 THEN key ELSE cache.slots[i].key
             f == [i \in 0 .. M |-> CHOOSE e \in Entity : infoOf[e] = keyAt(i)]
  <2>1. ASSUME NEW i \in 0 .. M PROVE keyAt(i) \in Keys(infoOf)
    <3>1. CASE i = 0
      BY <3>1
    <3>2. CASE i # 0
      <4>1. i \in 1 .. cache.count
        BY <1>1, <1>3, <3>2
      <4>2. QED
        BY <3>2, <4>1 DEF Shape, Entries, InUseBy
    <3>3. QED
      BY <3>1, <3>2
  <2>2. ASSUME NEW i \in 0 .. M PROVE f[i] \in Entity /\ infoOf[f[i]] = keyAt(i)
    <3>1. PICK e \in Entity : infoOf[e] = keyAt(i)
      BY <2>1 DEF Keys
    <3>2. f[i] = CHOOSE d \in Entity : infoOf[d] = keyAt(i)
      OBVIOUS
    <3> HIDE DEF f, keyAt
    <3>3. QED
      BY <3>1, <3>2
  <2>3. f \in [0 .. M -> Entity]
    BY <2>2
  <2> HIDE DEF f
  <2>4. /\ IsFiniteSet(0 .. M) /\ Cardinality(0 .. M) = M + 1
        /\ IsFiniteSet(Entity) /\ Cardinality(Entity) = M
    BY <1>1, FS_Interval
  <2>5. M < M + 1
    BY <1>1
  <2>6. PICK i, j \in 0 .. M : i # j /\ f[i] = f[j]
    <3>1. Cardinality(Entity) < Cardinality(0 .. M)
      BY <2>4, <2>5
    <3> DEFINE S == 0 .. M
    <3>2. f \in [S -> Entity] /\ IsFiniteSet(S) /\ Cardinality(Entity) < Cardinality(S)
      BY <2>3, <2>4, <3>1
    <3> HIDE DEF S
    <3>3. \E i, j \in S : i # j /\ f[i] = f[j]
      BY <2>4, <3>2, FS_PigeonHole
    <3>4. QED
      BY <3>3 DEF S
  <2>7. keyAt(i) = keyAt(j)
    BY <2>2, <2>6
  <2>8. \A k \in 1 .. M : cache.slots[k].key # key
    BY <1>3 DEF SlotsOf
  <2>9. \A k, l \in 1 .. M : cache.slots[k].key = cache.slots[l].key => k = l
    BY <1>3 DEF Shape, Distinct
  <2>10. QED
    BY <1>1, <2>6, <2>7, <2>8, <2>9
<1>4. QED
  BY <1>1, <1>2, <1>3

(* What Touched does: to the slot that has the key, or to the first of the *)
(* free ones.                                                              *)
TouchedAt(i, o, cache, key, always, now, touched) ==
  /\ touched.slots = [cache.slots EXCEPT ![i] = [key |-> key, object |-> o, stamp |-> now]]
  /\ \/ /\ i \in 1 .. cache.count /\ touched.count = cache.count
        /\ cache.slots[i].key = key /\ cache.slots[i].object = o
     \/ /\ i = cache.count + 1 /\ touched.count = i
        /\ SlotsOf(cache, key) = {}
        /\ \/ o = <<key, now>>
           \/ ~always /\ o = cache.slots[i].object /\ o # None

LEMMA TouchedWhere ==
  ASSUME NEW cache, NEW infoOf, NEW key \in Keys(infoOf), NEW always \in BOOLEAN,
         Shape(cache, Keys(infoOf), frame_counter)
  PROVE  LET touched == Touched(cache, key, always)
         IN  \E i \in 1 .. MaxDrawables : \E o :
               /\ TouchedAt(i, o, cache, key, always, frame_counter, touched)
               /\ touched = [count |-> touched.count, slots |-> touched.slots]
<1> DEFINE touched == Touched(cache, key, always)
<1>1. cache.count \in 0 .. MaxDrawables /\ MaxDrawables \in Nat
  BY CacheAssumption DEF Shape, CacheSet, MaxDrawables
<1>2. CASE SlotsOf(cache, key) # {}
  <2> DEFINE i == SlotOf(cache, key)
  <2>1. i \in SlotsOf(cache, key)
    BY <1>2 DEF SlotOf
  <2>2. i \in 1 .. cache.count /\ cache.slots[i].key = key
    BY <2>1 DEF SlotsOf
  <2>3. i \in 1 .. MaxDrawables /\ cache.slots[i].object # None
    BY <1>1, <2>2 DEF Shape, Entries, InUseBy
  <2> HIDE DEF i
  <2>4. touched = [count |-> cache.count,
                   slots |-> [cache.slots EXCEPT ![i] =
                       [key |-> key, object |-> cache.slots[i].object, stamp |-> frame_counter]]]
    BY <1>2, <2>3 DEF Touched, PlaceOf, i
  <2>5. TouchedAt(i, cache.slots[i].object, cache, key, always, frame_counter, touched)
    BY <2>2, <2>4 DEF TouchedAt
  <2>6. QED
    BY <2>3, <2>4, <2>5
<1>3. CASE SlotsOf(cache, key) = {}
  <2> DEFINE i == cache.count + 1
             o == IF always \/ cache.slots[i].object = None
                    THEN <<key, frame_counter>> ELSE cache.slots[i].object
  <2>1. i \in 1 .. MaxDrawables
    BY <1>3, Room
  <2>2. touched = [count |-> i,
                   slots |-> [cache.slots EXCEPT ![i] =
                       [key |-> key, object |-> o, stamp |-> frame_counter]]]
    BY <1>3 DEF Touched, PlaceOf
  <2>3. TouchedAt(i, o, cache, key, always, frame_counter, touched)
    BY <1>3, <2>2 DEF TouchedAt
  <2>4. QED
    BY <2>1, <2>2, <2>3
<1>4. QED
  BY <1>2, <1>3

Known == Entity \cup Mesh \cup Shader

LEMMA KeysKnown ==
  /\ Keys(EntityKeys) = Entity /\ Keys(MeshOf) \subseteq Mesh /\ Keys(ShaderOf) \subseteq Shader
  /\ None \notin Known /\ None \notin Known \X Nat
  BY CacheAssumption DEF Keys, EntityKeys, Known

(* What a cache has of a key it was touched for, and still has of others.  *)
Gains(cache, touched, K, key, always) ==
  LET o == ObjectOf(touched, key)
  IN  /\ Shape(touched, K, frame_counter)
      /\ Holds(cache) \subseteq Holds(touched) /\ Holds(touched) \subseteq Holds(cache) \cup {o}
      /\ o \in K \X Nat /\ o \in Holds(touched)
      /\ Held(touched, o, frame_counter)
      /\ \A p : \A n \in Int : n <= frame_counter /\ Held(cache, p, n) => Held(touched, p, n)
      /\ Exact(cache) /\ (always \/ Unused(cache)) =>
           /\ Exact(touched) /\ o[1] = key
           /\ o \in Holds(cache) \/ o = <<key, frame_counter>>
      /\ Unused(cache) => Unused(touched)

LEMMA TouchedKeeps ==
  ASSUME NEW cache, NEW infoOf, NEW key \in Keys(infoOf), NEW always \in BOOLEAN,
         Keys(infoOf) \subseteq Known, frame_counter \in Nat,
         Shape(cache, Keys(infoOf), frame_counter)
  PROVE  Gains(cache, Touched(cache, key, always), Keys(infoOf), key, always)
<1> DEFINE K == Keys(infoOf)
           M == MaxDrawables
           t == Touched(cache, key, always)
           now == frame_counter
           n == cache.count
           s == cache.slots
<1>1. PICK i \in 1 .. M : \E o : /\ TouchedAt(i, o, cache, key, always, now, t)
                                 /\ t = [count |-> t.count, slots |-> t.slots]
  BY TouchedWhere, Zenon
<1>2. PICK o : /\ TouchedAt(i, o, cache, key, always, now, t)
               /\ t = [count |-> t.count, slots |-> t.slots]
  BY <1>1
<1> DEFINE new == [key |-> key, object |-> o, stamp |-> now]
<1>3. /\ M \in Nat \ {0} /\ n \in 0 .. M /\ s \in [1 .. M -> Entry(K)]
      /\ \A j \in 1 .. n : s[j] \in Entries(cache) /\ InUseBy(s[j], K, now)
      /\ \A j, k \in 1 .. n : s[j].key = s[k].key => j = k
  BY CacheAssumption DEF Shape, CacheSet, MaxDrawables, Entries, Distinct
<1>4. /\ t.slots = [s EXCEPT ![i] = new] /\ i \in 1 .. t.count /\ t.count \in n .. M
      /\ \/ i \in 1 .. n /\ t.count = n /\ s[i].key = key /\ s[i].object = o
         \/ /\ i = n + 1 /\ t.count = n + 1 /\ \A j \in 1 .. n : s[j].key # key
            /\ \/ o = <<key, now>>
               \/ ~always /\ o = s[i].object /\ o # None
  BY <1>2, <1>3 DEF TouchedAt, SlotsOf
<1> HIDE DEF t
<1>5. o \in K \X Nat /\ o # None
  <2>1. <<key, now>> \in K \X Nat /\ <<key, now>> # None
    BY KeysKnown
  <2>2. o # None
    BY <1>3, <1>4, <2>1 DEF InUseBy
  <2>3. s[i] \in Entry(K)
    BY <1>3
  <2>4. QED
    BY <1>4, <2>1, <2>2, <2>3 DEF Entry
<1>6. new \in Entry(K) /\ new.key = key /\ new.object = o /\ new.stamp = now
  BY <1>5 DEF Entry
<1> HIDE DEF new
<1>7. /\ t.slots \in [1 .. M -> Entry(K)] /\ t.slots[i] = new
      /\ \A j \in 1 .. M : j # i => t.slots[j] = s[j]
      /\ \A j \in 1 .. t.count : j = i \/ j \in 1 .. n
  BY <1>3, <1>4, <1>6
<1>8. \A j \in 1 .. t.count : t.slots[j].key = key => j = i
  BY <1>3, <1>4, <1>7
<1>9. ObjectOf(t, key) = o
  <2>1. SlotsOf(t, key) = {i}
    BY <1>4, <1>6, <1>7, <1>8 DEF SlotsOf
  <2>2. SlotOf(t, key) = i
    BY <2>1 DEF SlotOf
  <2>3. QED
    BY <1>6, <1>7, <2>2 DEF ObjectOf
<1>10. /\ new \in Entries(t)
       /\ \A x \in Entries(t) : x = new \/ x \in Entries(cache)
       /\ \A x \in Entries(cache) : x \in Entries(t) \/ (x.object = o /\ x.stamp <= now)
  <2>1. new \in Entries(t)
    BY <1>4, <1>7 DEF Entries
  <2>2. ASSUME NEW x \in Entries(t) PROVE x = new \/ x \in Entries(cache)
    <3>1. PICK j \in 1 .. t.count : x = t.slots[j]
      BY DEF Entries
    <3>2. QED
      BY <1>3, <1>7, <3>1
  <2>3. ASSUME NEW x \in Entries(cache)
        PROVE  x \in Entries(t) \/ (x.object = o /\ x.stamp <= now)
    <3>1. PICK j \in 1 .. n : x = s[j]
      BY DEF Entries
    <3>2. CASE j = i
      <4>1. x.object = o
        BY <1>3, <1>4, <3>1, <3>2
      <4>2. QED
        BY <1>3, <3>1, <4>1 DEF InUseBy
    <3>3. CASE j # i
      <4>1. t.slots[j] = x /\ j \in 1 .. t.count
        BY <1>3, <1>4, <1>7, <3>1, <3>3
      <4>2. QED
        BY <4>1 DEF Entries
    <3>4. QED
      BY <3>2, <3>3
  <2>4. QED
    BY <2>1, <2>2, <2>3
<1>11. Shape(t, K, now)
  <2>1. t \in CacheSet(K)
    <3>1. t = [count |-> t.count, slots |-> t.slots] /\ t.count \in 0 .. M
      BY <1>2, <1>3, <1>4 DEF t
    <3>2. QED
      BY <1>7, <3>1 DEF CacheSet
  <2>2. \A x \in Entries(t) : InUseBy(x, K, now)
    BY <1>5, <1>6, <1>10 DEF InUseBy, Shape
  <2>3. Distinct(t)
    <3>1. ASSUME NEW j \in 1 .. t.count, NEW k \in 1 .. t.count, t.slots[j].key = t.slots[k].key
          PROVE  j = k
      <4>1. CASE j = i \/ k = i
        BY <1>6, <1>7, <1>8, <3>1, <4>1
      <4>2. CASE j # i /\ k # i
        <5>1. j \in 1 .. n /\ k \in 1 .. n /\ j \in 1 .. M /\ k \in 1 .. M
          BY <1>3, <1>7, <4>2
        <5>2. t.slots[j] = s[j] /\ t.slots[k] = s[k]
          BY <1>7, <4>2, <5>1
        <5>3. QED
          BY <1>3, <3>1, <5>1, <5>2
      <4>3. QED
        BY <4>1, <4>2
    <3>2. QED
      BY <3>1 DEF Distinct
  <2>4. QED
    BY <2>1, <2>2, <2>3 DEF Shape
<1>12. o \in Holds(t) /\ Held(t, o, now) /\ Holds(t) \subseteq Holds(cache) \cup {o}
  BY <1>6, <1>10 DEF Holds, Held
<1>13. Holds(cache) \subseteq Holds(t)
  BY <1>10, <1>12 DEF Holds
<1>14. ASSUME NEW p, NEW m \in Int, m <= now, Held(cache, p, m) PROVE Held(t, p, m)
  <2>1. PICK x \in Entries(cache) : x.object = p /\ x.stamp >= m
    BY <1>14 DEF Held
  <2>2. CASE x \in Entries(t)
    BY <2>1, <2>2 DEF Held
  <2>3. CASE x.object = o
    <3>1. new.object = p /\ new.stamp >= m
      BY <1>6, <1>14, <2>1, <2>3
    <3>2. QED
      BY <1>10, <3>1 DEF Held
  <2>4. QED
    BY <1>10, <2>2, <2>3
<1>15. ASSUME Exact(cache), always \/ Unused(cache)
       PROVE  Exact(t) /\ o[1] = key /\ (o \in Holds(cache) \/ o = <<key, now>>)
  <2>1. CASE i \in 1 .. n
    <3>1. s[i] \in Entries(cache) /\ s[i].object = o /\ s[i].key = key
      BY <1>3, <1>4, <2>1
    <3>2. o \in Holds(cache) /\ o[1] = key
      BY <1>15, <3>1 DEF Holds, Exact
    <3>3. QED
      BY <1>6, <1>10, <1>15, <3>2 DEF Exact
  <2>2. CASE i \notin 1 .. n
    <3>1. i = n + 1 /\ (o = <<key, now>> \/ (~always /\ o = s[i].object))
      BY <1>4, <2>2
    <3>2. ~always => s[i].object = None
      BY <1>3, <1>15, <3>1 DEF Unused
    <3>3. o = <<key, now>>
      BY <1>5, <3>1, <3>2
    <3>4. QED
      BY <1>6, <1>10, <1>15, <3>3 DEF Exact
  <2>3. QED
    BY <2>1, <2>2
<1>16. ASSUME Unused(cache) PROVE Unused(t)
  <2>1. ASSUME NEW j \in t.count + 1 .. M PROVE t.slots[j].object = None
    <3>1. j \in n + 1 .. M /\ j # i /\ j \in 1 .. M
      BY <1>3, <1>4
    <3>2. QED
      BY <1>7, <1>16, <3>1 DEF Unused
  <2>2. QED
    BY <2>1 DEF Unused
<1>17. QED
  BY <1>5, <1>9, <1>11, <1>12, <1>13, <1>14, <1>15, <1>16 DEF t, Gains

LEMMA SweptShape ==
  ASSUME NEW cache, NEW K, NEW now \in Nat, NEW then \in Nat, NEW later \in Nat, now <= later,
         Shape(cache, K, now)
  PROVE  /\ Shape(Swept(cache, then), K, later)
         /\ Entries(Swept(cache, then)) = {x \in Entries(cache) : ~IsStale(x, then)}
         /\ Entries(cache) \subseteq Entry(K)
<1>1. /\ Swept(cache, then) \in CacheSet(K) /\ Distinct(Swept(cache, then))
      /\ Entries(Swept(cache, then)) = {x \in Entries(cache) : ~IsStale(x, then)}
  BY SweptKeeps DEF Shape
<1>2. Entries(cache) \subseteq Entry(K)
  BY CacheAssumption DEF Shape, CacheSet, Entries, MaxDrawables
<1>3. ASSUME NEW x \in Entries(Swept(cache, then)) PROVE InUseBy(x, K, later)
  <2>1. InUseBy(x, K, now) /\ x.stamp \in Nat
    BY <1>1, <1>2 DEF Shape, Entry
  <2>2. QED
    BY <2>1 DEF InUseBy
<1>4. QED
  BY <1>1, <1>2, <1>3 DEF Shape

LEMMA SweptHolds ==
  ASSUME NEW cache, NEW K, NEW now \in Nat, NEW then \in Nat, Shape(cache, K, now)
  PROVE  Holds(cache) \subseteq Holds(Swept(cache, then)) \cup StaleObjects(cache, then)
<1>1. Entries(Swept(cache, then)) = {x \in Entries(cache) : ~IsStale(x, then)}
  BY SweptShape
<1>2. ASSUME NEW x \in Entries(cache)
      PROVE  x.object \in Holds(Swept(cache, then)) \cup StaleObjects(cache, then)
  <2>1. CASE IsStale(x, then)
    BY <2>1 DEF Entries, StaleObjects
  <2>2. CASE ~IsStale(x, then)
    BY <1>1, <2>2 DEF Holds
  <2>3. QED
    BY <2>1, <2>2
<1>3. QED
  BY <1>2 DEF Holds
-----------------------------------------------------------------------------
(* The head of the queue is taken, an item is added at its end.            *)
LEMMA Popped ==
  ASSUME TypeInv, NEW command, Pop(command)
  PROVE  /\ thread = "pop" /\ queue' = Tail(queue)
         /\ Len(queue) \in Nat \ {0} /\ queue[1] = command
         /\ queue' \in Seq(Entity \cup {Done, Stop})
         /\ Len(queue') = Len(queue) - 1
         /\ \A i \in 1 .. Len(queue) - 1 : queue'[i] = queue[i + 1]
<1>1. queue \in Seq(Entity \cup {Done, Stop}) /\ queue # <<>>
  BY DEF TypeInv, Pop
<1>2. QED
  BY <1>1, HeadTailProperties, EmptySeq, LenProperties DEF Pop

LEMMA Pushed ==
  ASSUME TypeInv, NEW command \in Entity \cup {Done, Stop}, Push(command)
  PROVE  /\ Len(queue) \in Nat /\ Len(queue') = Len(queue) + 1
         /\ queue' \in Seq(Entity \cup {Done, Stop})
         /\ \A i \in 1 .. Len(queue) : queue'[i] = queue[i]
         /\ queue'[Len(queue) + 1] = command
<1>1. queue \in Seq(Entity \cup {Done, Stop})
  BY DEF TypeInv
<1>2. QED
  BY <1>1, AppendProperties, LenProperties DEF Push

LEMMA Commands == Done # Stop /\ Done \notin Entity /\ Stop \notin Entity
  BY CacheAssumption DEF Done, Stop, Entity

(* The steps of the main thread.                                           *)
LEMMA MainKeepsBase ==
  ASSUME BaseInv, (\E e \in Entity : PushModel(e)) \/ PushDone \/ Shutdown \/ PushStop \/ Join
  PROVE  BaseInv'
<1>1. UNCHANGED renderer
  BY DEF PushModel, PushDone, Shutdown, PushStop, Join
<1>2. ShapeInv' /\ AliveInv'
  BY <1>1 DEF BaseInv, ShapeInv, AliveInv, renderer, caches
<1>3. ASSUME NEW command \in Entity \cup {Done, Stop}, Push(command),
             main' \in {"draw", "stop", "join"}, main \in {"draw", "stop"},
             command = Stop => main' = "join"
      PROVE  BaseInv'
  <2>1. TypeInv'
    BY <1>1, <1>3, Pushed DEF BaseInv, TypeInv, renderer
  <2>2. \A i \in 1 .. Len(queue) : queue'[i] # Stop
    BY <1>3, Pushed, LenProperties DEF BaseInv, StopInv, TypeInv
  <2>3. \A i \in DOMAIN queue' : queue'[i] = Stop => i = Len(queue') /\ main' = "join"
    <3>1. DOMAIN queue' = 1 .. Len(queue) + 1 /\ Len(queue') = Len(queue) + 1
      BY <1>3, Pushed, LenProperties DEF BaseInv
    <3>2. QED
      BY <1>3, <2>2, <3>1, Pushed DEF BaseInv
  <2>4. thread' \notin {"drain", "exited"}
    BY <1>1, <1>3 DEF BaseInv, StopInv, renderer
  <2>5. main' # "freed"
    BY <1>3
  <2>6. StopInv'
    BY <2>3, <2>4, <2>5 DEF StopInv
  <2>7. QED
    BY <1>2, <2>1, <2>6 DEF BaseInv
<1>4. ASSUME NEW e \in Entity, PushModel(e) PROVE BaseInv'
  BY <1>3, <1>4, Commands DEF PushModel
<1>5. CASE PushDone
  BY <1>3, <1>5, Commands DEF PushDone
<1>6. CASE PushStop
  BY <1>3, <1>6 DEF PushStop
<1>7. CASE Shutdown
  <2>1. TypeInv' /\ StopInv'
    BY <1>1, <1>7 DEF BaseInv, TypeInv, StopInv, Shutdown, renderer
  <2>2. QED
    BY <1>2, <2>1 DEF BaseInv
<1>8. CASE Join
  <2>1. TypeInv' /\ StopInv'
    BY <1>1, <1>8 DEF BaseInv, TypeInv, StopInv, Join, renderer, submitted
  <2>2. QED
    BY <1>2, <2>1 DEF BaseInv
<1>9. QED
  BY <1>4, <1>5, <1>6, <1>7, <1>8

(* The commands that change no cache, and the GPU.                         *)
LEMMA CommandsKeepBase ==
  ASSUME BaseInv, RenderDone \/ RenderStop \/ GpuCompletes
  PROVE  BaseInv'
<1>1. UNCHANGED <<game, frame_counter, caches, alive>>
  BY DEF RenderDone, RenderStop, GpuCompletes
<1>2. ShapeInv' /\ AliveInv'
  BY <1>1 DEF BaseInv, ShapeInv, AliveInv, caches
<1>3. CASE GpuCompletes
  <2>1. TypeInv' /\ StopInv'
    BY <1>1, <1>3 DEF BaseInv, TypeInv, StopInv, GpuCompletes, game
  <2>2. QED
    BY <1>2, <2>1 DEF BaseInv
<1>4. ASSUME NEW command, Pop(command), thread' \in {"fence", "drain"},
             thread' = "drain" => command = Stop
      PROVE  BaseInv'
  <2>1. TypeInv'
    BY <1>1, <1>4, Popped DEF BaseInv, TypeInv, game
  <2>2. \A i \in 1 .. Len(queue) - 1 : queue'[i] = queue[i + 1]
    BY <1>4, Popped DEF BaseInv
  <2>3. \A i \in DOMAIN queue' : queue'[i] = Stop => i = Len(queue') /\ main' = "join"
    <3>1. DOMAIN queue' = 1 .. Len(queue) - 1 /\ Len(queue') = Len(queue) - 1
          /\ Len(queue) \in Nat /\ DOMAIN queue = 1 .. Len(queue)
      BY <1>4, Popped, LenProperties DEF BaseInv, TypeInv
    <3>2. QED
      BY <1>1, <2>2, <3>1 DEF BaseInv, StopInv, game
  <2>4. thread' = "drain" => queue' = <<>> /\ main' = "join"
    <3> HAVE thread' = "drain"
    <3>1. 1 \in DOMAIN queue /\ queue[1] = Stop
      BY <1>4, Popped, LenProperties DEF BaseInv, TypeInv
    <3>2. Len(queue) = 1 /\ main = "join"
      BY <3>1 DEF BaseInv, StopInv
    <3>3. Len(queue') = 0
      BY <1>4, <3>2, Popped DEF BaseInv
    <3>4. QED
      BY <1>1, <1>4, <3>2, <3>3, Popped, EmptySeq DEF BaseInv, game
  <2>5. main' # "freed"
    BY <1>1, <1>4 DEF BaseInv, StopInv, Pop, game
  <2>6. StopInv'
    BY <1>4, <2>3, <2>4, <2>5 DEF StopInv
  <2>7. QED
    BY <1>2, <2>1, <2>6 DEF BaseInv
<1>5. CASE RenderDone
  BY <1>4, <1>5 DEF RenderDone
<1>6. CASE RenderStop
  BY <1>4, <1>6 DEF RenderStop
<1>7. QED
  BY <1>3, <1>5, <1>6

(* What a command to draw does to the caches.                              *)
DrawOf(e) == [entity |-> e, instance |-> ObjectOf(instances', e),
              mesh |-> ObjectOf(meshes', MeshOf[e]),
              shader |-> ObjectOf(shaders', ShaderOf[e])]

LEMMA ModelTouches ==
  ASSUME BaseInv, NEW e \in Entity, RenderModel(e)
  PROVE  /\ instances' = Touched(instances, e, TRUE) /\ e \in Keys(EntityKeys)
         /\ meshes' = Touched(meshes, MeshOf[e], FALSE) /\ MeshOf[e] \in Keys(MeshOf)
         /\ shaders' = Touched(shaders, ShaderOf[e], FALSE) /\ ShaderOf[e] \in Keys(ShaderOf)
         /\ Keys(EntityKeys) \subseteq Known /\ Keys(MeshOf) \subseteq Known
         /\ Keys(ShaderOf) \subseteq Known
         /\ Shape(instances, Keys(EntityKeys), frame_counter)
         /\ Shape(meshes, Keys(MeshOf), frame_counter)
         /\ Shape(shaders, Keys(ShaderOf), frame_counter)
         /\ frame_counter \in Nat /\ Pop(e)
         /\ UNCHANGED <<game, thread, frame_counter, pending>>
         /\ draws' = draws \cup {DrawOf(e)}
         /\ alive' = alive \cup {o \in Objects(DrawOf(e)) : o[2] = frame_counter}
<1>1. /\ e \in Keys(EntityKeys) /\ MeshOf[e] \in Keys(MeshOf) /\ ShaderOf[e] \in Keys(ShaderOf)
  BY DEF Keys, EntityKeys
<1>2. /\ Keys(EntityKeys) \subseteq Known /\ Keys(MeshOf) \subseteq Known
      /\ Keys(ShaderOf) \subseteq Known
  BY KeysKnown DEF Known
<1>3. /\ Shape(instances, Keys(EntityKeys), frame_counter)
      /\ Shape(meshes, Keys(MeshOf), frame_counter)
      /\ Shape(shaders, Keys(ShaderOf), frame_counter)
      /\ frame_counter \in Nat
  BY DEF BaseInv, TypeInv, ShapeInv
<1>4. /\ instances' = Touched(instances, e, TRUE)
      /\ meshes' = Touched(meshes, MeshOf[e], FALSE)
      /\ shaders' = Touched(shaders, ShaderOf[e], FALSE)
      /\ Pop(e)
      /\ UNCHANGED <<game, thread, frame_counter, pending>>
  BY DEF RenderModel, submitted
<1>5. /\ draws' = draws \cup {DrawOf(e)}
      /\ alive' = alive \cup {o \in Objects(DrawOf(e)) : o[2] = frame_counter}
  BY DEF RenderModel, DrawOf
<1>6. QED
  BY <1>1, <1>2, <1>3, <1>4, <1>5

LEMMA ModelGains ==
  ASSUME BaseInv, NEW e \in Entity, RenderModel(e)
  PROVE  /\ Gains(instances, instances', Keys(EntityKeys), e, TRUE)
         /\ Gains(meshes, meshes', Keys(MeshOf), MeshOf[e], FALSE)
         /\ Gains(shaders, shaders', Keys(ShaderOf), ShaderOf[e], FALSE)
<1>1. Gains(instances, Touched(instances, e, TRUE), Keys(EntityKeys), e, TRUE)
  BY ModelTouches, TouchedKeeps
<1>2. Gains(meshes, Touched(meshes, MeshOf[e], FALSE), Keys(MeshOf), MeshOf[e], FALSE)
  BY ModelTouches, TouchedKeeps
<1>3. Gains(shaders, Touched(shaders, ShaderOf[e], FALSE), Keys(ShaderOf), ShaderOf[e], FALSE)
  BY ModelTouches, TouchedKeeps
<1>4. /\ instances' = Touched(instances, e, TRUE)
      /\ meshes' = Touched(meshes, MeshOf[e], FALSE)
      /\ shaders' = Touched(shaders, ShaderOf[e], FALSE)
  BY ModelTouches
<1>5. QED
  BY <1>1, <1>2, <1>3, <1>4, Zenon

LEMMA ModelKeepsBase ==
  ASSUME BaseInv, NEW e \in Entity, RenderModel(e)
  PROVE  BaseInv'
<1>1. /\ Shape(instances', Keys(EntityKeys), frame_counter)
      /\ Holds(instances) \subseteq Holds(instances')
      /\ ObjectOf(instances', e) \in Holds(instances')
  BY ModelGains DEF Gains
<1>2. /\ Shape(meshes', Keys(MeshOf), frame_counter)
      /\ Holds(meshes) \subseteq Holds(meshes')
      /\ ObjectOf(meshes', MeshOf[e]) \in Holds(meshes')
  BY ModelGains DEF Gains
<1>3. /\ Shape(shaders', Keys(ShaderOf), frame_counter)
      /\ Holds(shaders) \subseteq Holds(shaders')
      /\ ObjectOf(shaders', ShaderOf[e]) \in Holds(shaders')
  BY ModelGains DEF Gains
<1>4. /\ Pop(e) /\ UNCHANGED <<game, thread, frame_counter, pending>>
      /\ alive' = alive \cup {o \in Objects(DrawOf(e)) : o[2] = frame_counter}
  BY ModelTouches
<1>5. ShapeInv'
  BY <1>1, <1>2, <1>3, <1>4 DEF ShapeInv
<1>6. AliveInv'
  <2>1. Objects(DrawOf(e)) \subseteq Holds(instances') \cup Holds(meshes') \cup Holds(shaders')
    BY <1>1, <1>2, <1>3 DEF Objects, DrawOf
  <2>2. alive \subseteq Holds(instances') \cup Holds(meshes') \cup Holds(shaders')
    BY <1>1, <1>2, <1>3 DEF BaseInv, AliveInv
  <2>3. QED
    BY <1>4, <2>1, <2>2 DEF AliveInv
<1>7. TypeInv'
  BY <1>4, Popped DEF BaseInv, TypeInv, game
<1>8. StopInv'
  <2>1. \A i \in DOMAIN queue' : queue'[i] = Stop => i = Len(queue') /\ main' = "join"
    <3>1. DOMAIN queue' = 1 .. Len(queue) - 1 /\ Len(queue') = Len(queue) - 1
          /\ Len(queue) \in Nat /\ DOMAIN queue = 1 .. Len(queue)
          /\ \A i \in 1 .. Len(queue) - 1 : queue'[i] = queue[i + 1]
      BY <1>4, Popped, LenProperties DEF BaseInv, TypeInv
    <3>2. QED
      BY <1>4, <3>1 DEF BaseInv, StopInv, game
  <2>2. thread' = "pop"
    BY <1>4 DEF Pop
  <2>3. main' # "freed"
    BY <1>4, <2>2 DEF BaseInv, StopInv, game
  <2>4. QED
    BY <2>1, <2>2, <2>3 DEF StopInv
<1>9. QED
  BY <1>5, <1>6, <1>7, <1>8 DEF BaseInv

(* destroy_stale_data.                                                     *)
LEMMA StaleKeepsBase ==
  ASSUME ShapeInv, AliveInv, frame_counter \in Nat, NEW then \in Nat, DestroyStale(then),
         frame_counter' \in Nat, frame_counter <= frame_counter'
  PROVE  ShapeInv' /\ AliveInv'
<1>1. /\ instances' = Swept(instances, then) /\ meshes' = Swept(meshes, then)
      /\ shaders' = Swept(shaders, then)
      /\ alive' = alive \ (StaleObjects(instances, then) \cup StaleObjects(meshes, then)
                             \cup StaleObjects(shaders, then))
  BY DEF DestroyStale
<1>2. ShapeInv'
  BY <1>1, SweptShape DEF ShapeInv
<1>3. /\ Holds(instances) \subseteq Holds(instances') \cup StaleObjects(instances, then)
      /\ Holds(meshes) \subseteq Holds(meshes') \cup StaleObjects(meshes, then)
      /\ Holds(shaders) \subseteq Holds(shaders') \cup StaleObjects(shaders, then)
  BY <1>1, SweptHolds DEF ShapeInv
<1>4. AliveInv'
  BY <1>1, <1>3 DEF AliveInv
<1>5. QED
  BY <1>2, <1>4

(* Beyond every stamp, everything is stale.                                *)
LEMMA AllStale ==
  ASSUME NEW cache, NEW K, NEW now \in Nat, Shape(cache, K, now)
  PROVE  Holds(cache) \subseteq StaleObjects(cache, now + FrameCount + 1)
<1>1. Entries(cache) \subseteq Entry(K)
  BY SweptShape
<1>2. ASSUME NEW x \in Entries(cache) PROVE IsStale(x, now + FrameCount + 1)
  <2>1. x.stamp \in Nat /\ x.stamp <= now /\ FrameCount \in Nat
    BY <1>1, FrameAssumption DEF Shape, InUseBy, Entry
  <2>2. QED
    BY <2>1 DEF IsStale
<1>3. QED
  BY <1>2 DEF Holds, Entries, StaleObjects

LEMMA SubmitKeepsBase ==
  ASSUME BaseInv, Submit
  PROVE  BaseInv'
<1>1. /\ UNCHANGED <<main, queue>> /\ thread = "fence" /\ thread' = "pop"
      /\ frame_counter' = frame_counter + 1 /\ DestroyStale(frame_counter)
      /\ frame_counter \in Nat
  BY DEF BaseInv, TypeInv, Submit, game
<1>2. ShapeInv' /\ AliveInv'
  BY <1>1, StaleKeepsBase DEF BaseInv
<1>3. TypeInv' /\ StopInv'
  BY <1>1 DEF BaseInv, TypeInv, StopInv
<1>4. QED
  BY <1>2, <1>3 DEF BaseInv

LEMMA DrainKeepsBase ==
  ASSUME BaseInv, Drain
  PROVE  BaseInv'
<1> DEFINE then == frame_counter + FrameCount + 1
<1>1. /\ UNCHANGED <<main, queue, pending>> /\ thread = "drain" /\ thread' = "exited"
      /\ pending = <<>> /\ frame_counter' = then /\ DestroyStale(then)
      /\ frame_counter \in Nat /\ FrameCount \in Nat
  BY FrameAssumption DEF BaseInv, TypeInv, Drain, game, submitted
<1>2. ShapeInv' /\ AliveInv'
  BY <1>1, StaleKeepsBase DEF BaseInv
<1>3. alive' = {}
  <2>1. /\ Holds(instances) \subseteq StaleObjects(instances, then)
        /\ Holds(meshes) \subseteq StaleObjects(meshes, then)
        /\ Holds(shaders) \subseteq StaleObjects(shaders, then)
    BY <1>1, AllStale DEF BaseInv, ShapeInv
  <2>2. alive' = alive \ (StaleObjects(instances, then) \cup StaleObjects(meshes, then)
                            \cup StaleObjects(shaders, then))
    BY <1>1 DEF DestroyStale
  <2>3. QED
    BY <2>1, <2>2 DEF BaseInv, AliveInv
<1>4. TypeInv' /\ StopInv'
  BY <1>1, <1>3 DEF BaseInv, TypeInv, StopInv
<1>5. QED
  BY <1>2, <1>4 DEF BaseInv

LEMMA BaseInit ==
  ASSUME Init
  PROVE  BaseInv
<1>1. TypeInv
  BY DEF Init, TypeInv
<1>2. Shape(EmptyCache, Keys(EntityKeys), 0) /\ Shape(EmptyCache, Keys(MeshOf), 0)
      /\ Shape(EmptyCache, Keys(ShaderOf), 0)
  <2>1. ASSUME NEW K PROVE Shape(EmptyCache, K, 0)
    <3>1. MaxDrawables \in Nat /\ Blank \in Entry(K)
      BY CacheAssumption DEF MaxDrawables, Blank, Entry
    <3> HIDE DEF Blank
    <3>2. EmptyCache \in CacheSet(K) /\ EmptyCache.count = 0
      BY <3>1 DEF EmptyCache, CacheSet
    <3>3. Entries(EmptyCache) = {}
      BY <3>2 DEF Entries
    <3>4. QED
      BY <3>2, <3>3 DEF Shape, Distinct
  <2>2. QED
    BY <2>1
<1>3. ShapeInv
  BY <1>2 DEF Init, ShapeInv
<1>4. AliveInv /\ StopInv
  BY DEF Init, AliveInv, StopInv
<1>5. QED
  BY <1>1, <1>3, <1>4 DEF BaseInv

LEMMA BaseStep ==
  ASSUME BaseInv, [Next]_vars
  PROVE  BaseInv'
<1>1. CASE UNCHANGED vars
  BY <1>1 DEF BaseInv, TypeInv, ShapeInv, AliveInv, StopInv, vars, game, caches, submitted
<1>2. CASE (\E e \in Entity : PushModel(e)) \/ PushDone \/ Shutdown \/ PushStop \/ Join
  BY <1>2, MainKeepsBase
<1>3. CASE RenderStep
  BY <1>3, ModelKeepsBase, SubmitKeepsBase, DrainKeepsBase, CommandsKeepBase DEF RenderStep
<1>4. CASE GpuCompletes
  BY <1>4, CommandsKeepBase
<1>5. QED
  BY <1>1, <1>2, <1>3, <1>4 DEF Next, Finished

(* When the game goes on to free what the render thread points to, the     *)
(* thread has handled every command and destroyed every object it made,    *)
(* and the GPU is done, whatever the game drew and wherever its caches put *)
(* what it made.                                                           *)
THEOREM ShutdownAlwaysClean == Spec => []ShutdownClean
<1>1. BaseInv => ShutdownClean
  BY DEF BaseInv, StopInv, ShutdownClean
<1>2. QED
  BY BaseInit, BaseStep, <1>1, PTL DEF Spec

-----------------------------------------------------------------------------
(***************************************************************************)
(* NothingInUseDestroyed and RendersWhatIsPushed, for a game in which the  *)
(* looks of what comes and goes are those of something that stays.         *)
(***************************************************************************)

(* Along the queue: a command added at its end, the head handled.          *)
LEMMA PushedFrames ==
  ASSUME TypeInv, NEW command \in Entity \cup {Done, Stop}, Push(command),
         UNCHANGED <<thread, draws>>, NEW n, n = Len(queue), NEW e \in Entity
  PROVE  /\ \A i \in 1 .. n + 1 : InFrame(e, i)' <=> InFrame(e, i)
         /\ InFrame(e, n + 2)' <=> command # Done /\ (InFrame(e, n + 1) \/ e = command)
<1>1. /\ n \in Nat /\ \A i \in 1 .. n : queue'[i] = queue[i]
      /\ queue'[n + 1] = command
  BY Pushed
<1>2. Processed' = Processed
  BY DEF Processed
<1>3. \A i \in 1 .. n + 1 : InFrame(e, i)' <=> InFrame(e, i)
  BY <1>1, <1>2 DEF InFrame
<1>4. ASSUME command = Done PROVE ~InFrame(e, n + 2)'
  <2>1. ASSUME NEW j \in 1 .. n + 1 PROVE \E k \in j .. n + 1 : queue'[k] = Done
    BY <1>1, <1>4
  <2>2. n + 2 - 1 = n + 1 /\ n + 1 \in 1 .. n + 1
    BY <1>1
  <2>3. QED
    BY <1>1, <1>4, <2>1, <2>2 DEF InFrame
<1>5. ASSUME command # Done PROVE InFrame(e, n + 2)' <=> InFrame(e, n + 1) \/ e = command
  <2>1. n + 2 - 1 = n + 1 /\ n + 1 - 1 = n
    BY <1>1
  <2>2. \A j \in 1 .. n + 1 : j \in 1 .. n \/ j = n + 1
    BY <1>1
  <2>3. ASSUME InFrame(e, n + 2)' PROVE InFrame(e, n + 1) \/ e = command
    <3>1. CASE \E j \in 1 .. n + 1 : queue'[j] = e /\ \A k \in j .. n + 1 : queue'[k] # Done
      BY <1>1, <2>1, <3>1 DEF InFrame
    <3>2. CASE /\ thread' # "fence" /\ e \in Processed'
               /\ \A k \in 1 .. n + 1 : queue'[k] # Done
      BY <1>1, <1>2, <2>1, <3>2 DEF InFrame
    <3>3. QED
      BY <2>1, <2>3, <3>1, <3>2 DEF InFrame
  <2>4. ASSUME e = command PROVE InFrame(e, n + 2)'
    <3>1. n + 1 \in 1 .. n + 1 /\ queue'[n + 1] = e
          /\ \A k \in n + 1 .. n + 1 : queue'[k] # Done
      BY <1>1, <1>5, <2>4
    <3>2. QED
      BY <2>1, <3>1 DEF InFrame
  <2>5. ASSUME InFrame(e, n + 1) PROVE InFrame(e, n + 2)'
    <3>1. CASE \E j \in 1 .. n : queue[j] = e /\ \A k \in j .. n : queue[k] # Done
      <4>1. PICK j \in 1 .. n : queue[j] = e /\ \A k \in j .. n : queue[k] # Done
        BY <3>1
      <4>2. j \in 1 .. n + 1 /\ queue'[j] = e /\ \A k \in j .. n + 1 : queue'[k] # Done
        BY <1>1, <1>5, <4>1
      <4>3. QED
        BY <2>1, <4>2 DEF InFrame
    <3>2. CASE /\ thread # "fence" /\ e \in Processed
               /\ \A k \in 1 .. n : queue[k] # Done
      <4>1. \A k \in 1 .. n + 1 : queue'[k] # Done
        BY <1>1, <1>5, <3>2
      <4>2. QED
        BY <1>2, <2>1, <3>2, <4>1 DEF InFrame
    <3>3. QED
      BY <2>1, <2>5, <3>1, <3>2 DEF InFrame
  <2>6. QED
    BY <2>3, <2>4, <2>5
<1>6. QED
  BY <1>3, <1>4, <1>5

LEMMA PoppedFrames ==
  ASSUME TypeInv, NEW command \in Entity \cup {Done, Stop}, Pop(command),
         NEW n, n = Len(queue), NEW e \in Entity, NEW i \in 1 .. n,
         thread' # "fence" /\ e \in Processed'
           <=> command # Done /\ (e = command \/ e \in Processed)
  PROVE  InFrame(e, i)' <=> InFrame(e, i + 1)
<1>1. /\ n \in Nat \ {0} /\ queue[1] = command /\ thread = "pop"
      /\ \A k \in 1 .. n - 1 : queue'[k] = queue[k + 1]
  BY Popped
<1>2. i + 1 - 1 = i
  BY <1>1
<1>3. ASSUME InFrame(e, i)' PROVE InFrame(e, i + 1)
  <2>1. CASE \E j \in 1 .. i - 1 : queue'[j] = e /\ \A k \in j .. i - 1 : queue'[k] # Done
    <3>1. PICK j \in 1 .. i - 1 : queue'[j] = e /\ \A k \in j .. i - 1 : queue'[k] # Done
      BY <2>1
    <3>2. j + 1 \in 1 .. i /\ queue[j + 1] = e
      BY <1>1, <3>1
    <3>3. ASSUME NEW k \in j + 1 .. i PROVE queue[k] # Done
      <4>1. k - 1 \in j .. i - 1 /\ k - 1 \in 1 .. n - 1 /\ k - 1 + 1 = k
        BY <1>1, <3>1
      <4>2. QED
        BY <1>1, <3>1, <4>1
    <3>4. QED
      BY <1>2, <3>2, <3>3 DEF InFrame
  <2>2. CASE /\ thread' # "fence" /\ e \in Processed'
             /\ \A k \in 1 .. i - 1 : queue'[k] # Done
    <3>1. ASSUME NEW k \in 1 .. i PROVE queue[k] # Done
      <4>1. CASE k = 1
        BY <1>1, <2>2, <4>1
      <4>2. CASE k # 1
        <5>1. k - 1 \in 1 .. i - 1 /\ k - 1 \in 1 .. n - 1 /\ k - 1 + 1 = k
          BY <1>1, <4>2
        <5>2. QED
          BY <1>1, <2>2, <5>1
      <4>3. QED
        BY <4>1, <4>2
    <3>2. CASE e = command
      <4>1. 1 \in 1 .. i /\ queue[1] = e /\ \A k \in 1 .. i : queue[k] # Done
        BY <1>1, <3>1, <3>2
      <4>2. QED
        BY <1>2, <4>1 DEF InFrame
    <3>3. CASE e \in Processed
      BY <1>1, <1>2, <3>1, <3>3 DEF InFrame
    <3>4. QED
      BY <2>2, <3>2, <3>3
  <2>3. QED
    BY <1>3, <2>1, <2>2 DEF InFrame
<1>4. ASSUME InFrame(e, i + 1) PROVE InFrame(e, i)'
  <2>1. CASE \E j \in 1 .. i : queue[j] = e /\ \A k \in j .. i : queue[k] # Done
    <3>1. PICK j \in 1 .. i : queue[j] = e /\ \A k \in j .. i : queue[k] # Done
      BY <2>1
    <3>2. \A k \in 1 .. i - 1 : k >= j - 1 => queue'[k] # Done
      BY <1>1, <3>1
    <3>3. CASE j = 1
      <4>1. e = command /\ command # Done
        BY <1>1, <3>1, <3>3
      <4>2. thread' # "fence" /\ e \in Processed'
        BY <4>1
      <4>3. QED
        BY <3>2, <3>3, <4>2 DEF InFrame
    <3>4. CASE j # 1
      <4>1. j - 1 \in 1 .. i - 1 /\ queue'[j - 1] = e
        BY <1>1, <3>1, <3>4
      <4>2. QED
        BY <3>2, <4>1 DEF InFrame
    <3>5. QED
      BY <3>3, <3>4
  <2>2. CASE e \in Processed /\ \A k \in 1 .. i : queue[k] # Done
    <3>1. thread' # "fence" /\ e \in Processed'
      BY <1>1, <2>2
    <3>2. \A k \in 1 .. i - 1 : queue'[k] # Done
      BY <1>1, <2>2
    <3>3. QED
      BY <3>1, <3>2 DEF InFrame
  <2>3. QED
    BY <1>2, <1>4, <2>1, <2>2 DEF InFrame
<1>5. QED
  BY <1>3, <1>4

(* Every frame the render thread finishes has drawn what is resident.      *)
LEMMA FramesKept ==
  ASSUME FramesInv, UNCHANGED <<queue, drawn>>,
         main' # "draw" => main # "draw" \/ drawn = {},
         thread' = "fence" => thread = "fence" /\ Processed' = Processed,
         \A e \in Entity : (thread' # "fence" /\ e \in Processed')
                             <=> (thread # "fence" /\ e \in Processed)
  PROVE  FramesInv'
<1>1. ASSUME NEW e \in Entity, NEW i \in Int PROVE InFrame(e, i)' <=> InFrame(e, i)
  BY DEF InFrame
<1>2. Resident \subseteq Entity /\ Len(queue') = Len(queue)
  BY CacheAssumption
<1>3. \A i \in 1 .. Len(queue') : queue'[i] = Done => \A r \in Resident : InFrame(r, i)'
  BY <1>1, <1>2 DEF FramesInv
<1>4. QED
  BY <1>1, <1>2, <1>3 DEF FramesInv

LEMMA FramesPushed ==
  ASSUME TypeInv, FramesInv, NEW command \in Entity \cup {Done, Stop}, Push(command),
         UNCHANGED <<thread, draws>>,
         \A e \in Entity : e \in drawn' <=> command # Done /\ (e \in drawn \/ e = command),
         command = Done => Resident \subseteq drawn,
         main' # "draw" => drawn' = {}
  PROVE  FramesInv'
<1>1. PICK n : n = Len(queue)
  OBVIOUS
<1>2. /\ n \in Nat /\ Len(queue') = n + 1 /\ Resident \subseteq Entity
      /\ \A i \in 1 .. n : queue'[i] = queue[i]
      /\ queue'[n + 1] = command
  BY <1>1, Pushed, CacheAssumption
<1>3. \A e \in Entity : /\ \A i \in 1 .. n + 1 : InFrame(e, i)' <=> InFrame(e, i)
                        /\ InFrame(e, n + 2)'
                             <=> command # Done /\ (InFrame(e, n + 1) \/ e = command)
  BY <1>1, PushedFrames
<1>4. ASSUME NEW i \in 1 .. n + 1, queue'[i] = Done, NEW r \in Resident PROVE InFrame(r, i)'
  <2>1. CASE i \in 1 .. n
    BY <1>1, <1>2, <1>3, <1>4, <2>1 DEF FramesInv
  <2>2. CASE i = n + 1
    <3>0. command = Done
      BY <1>2, <1>4, <2>2
    <3>1. r \in Entity /\ r \in drawn
      BY <1>2, <1>4, <3>0
    <3>2. InFrame(r, n + 1)
      BY <1>1, <3>1 DEF FramesInv
    <3>3. QED
      BY <1>2, <1>3, <2>2, <3>1, <3>2
  <2>3. QED
    BY <1>2, <2>1, <2>2
<1>5. ASSUME NEW e \in Entity PROVE e \in drawn' <=> InFrame(e, n + 2)'
  BY <1>1, <1>3 DEF FramesInv
<1>6. thread' = "fence" => Resident \subseteq Processed'
  BY DEF FramesInv, Processed
<1>7. n + 1 + 1 = n + 2
  BY <1>2
<1>8. \A e \in Entity : e \in drawn' <=> InFrame(e, Len(queue) + 1)'
  BY <1>2, <1>5, <1>7 DEF InFrame
<1>9. QED
  BY <1>2, <1>4, <1>6, <1>8 DEF FramesInv

LEMMA FramesPopped ==
  ASSUME TypeInv, FramesInv, NEW command \in Entity \cup {Done, Stop}, Pop(command),
         UNCHANGED <<drawn, main>>,
         \A e \in Entity : thread' # "fence" /\ e \in Processed'
                             <=> command # Done /\ (e = command \/ e \in Processed),
         thread' = "fence" => command = Done /\ Processed' = Processed
  PROVE  FramesInv'
<1>1. PICK n : n = Len(queue)
  OBVIOUS
<1>2. /\ n \in Nat \ {0} /\ Len(queue') = n - 1 /\ Resident \subseteq Entity
      /\ queue[1] = command
      /\ \A i \in 1 .. n - 1 : queue'[i] = queue[i + 1]
  BY <1>1, Popped, CacheAssumption
<1>3. \A e \in Entity : \A i \in 1 .. n : InFrame(e, i)' <=> InFrame(e, i + 1)
  BY <1>1, PoppedFrames
<1>4. ASSUME NEW i \in 1 .. n - 1, queue'[i] = Done, NEW r \in Resident PROVE InFrame(r, i)'
  <2>1. queue[i + 1] = Done /\ i + 1 \in 1 .. n /\ i \in 1 .. n
    BY <1>2, <1>4
  <2>2. InFrame(r, i + 1)
    BY <1>1, <2>1 DEF FramesInv
  <2>3. QED
    BY <1>2, <1>3, <2>1, <2>2
<1>5. ASSUME NEW e \in Entity PROVE e \in drawn' <=> InFrame(e, n)'
  <2>1. e \in drawn <=> InFrame(e, n + 1)
    BY <1>1 DEF FramesInv
  <2>2. n \in 1 .. n
    BY <1>2
  <2>3. QED
    BY <1>3, <2>1, <2>2
<1>6. ASSUME thread' = "fence" PROVE Resident \subseteq Processed'
  <2>1. queue[1] = Done /\ 1 \in 1 .. n /\ Processed' = Processed
    BY <1>2, <1>6
  <2>2. \A r \in Resident : InFrame(r, 1)
    BY <1>1, <2>1 DEF FramesInv
  <2>3. QED
    BY <2>1, <2>2 DEF InFrame
<1>7. n - 1 + 1 = n
  BY <1>2
<1>8. \A e \in Entity : e \in drawn' <=> InFrame(e, Len(queue) + 1)'
  BY <1>2, <1>5, <1>7 DEF InFrame
<1>9. main' # "draw" => drawn' = {}
  BY DEF FramesInv
<1>10. QED
  BY <1>2, <1>4, <1>6, <1>8, <1>9 DEF FramesInv

LEMMA FramesStep ==
  ASSUME BaseInv, FramesInv, DrawsInv, [Next]_vars
  PROVE  FramesInv'
<1>1. CASE UNCHANGED vars
  BY <1>1, FramesKept DEF vars, game, Processed, FramesInv
<1>2. ASSUME NEW e \in Entity, PushModel(e) PROVE FramesInv'
  <2>1. /\ Push(e) /\ e # Done /\ UNCHANGED <<main, thread, draws>> /\ main = "draw"
        /\ drawn' = drawn \cup {e}
    BY <1>2, Commands DEF PushModel, renderer
  <2>2. QED
    BY <2>1, FramesPushed DEF BaseInv
<1>3. CASE PushDone
  <2>1. /\ Push(Done) /\ UNCHANGED <<main, thread, draws>> /\ main = "draw"
        /\ drawn' = {} /\ Resident \subseteq drawn
    BY <1>3 DEF PushDone, renderer
  <2>2. QED
    BY <2>1, FramesPushed DEF BaseInv
<1>4. CASE PushStop
  <2>1. /\ Push(Stop) /\ UNCHANGED <<drawn, thread, draws>> /\ main = "stop"
        /\ Stop # Done /\ Stop \notin Entity
    BY <1>4, Commands DEF PushStop, renderer
  <2>2. drawn = {} /\ drawn' = {}
    BY <2>1 DEF FramesInv
  <2>3. QED
    BY <2>1, <2>2, FramesPushed DEF BaseInv
<1>5. CASE Shutdown \/ Join
  <2>1. /\ UNCHANGED <<queue, drawn, thread, draws>>
        /\ main # "draw" \/ drawn = {}
    BY <1>5 DEF Shutdown, Join, renderer
  <2>2. Processed' = Processed
    BY <2>1 DEF Processed
  <2>3. QED
    BY <2>1, <2>2, FramesKept
<1>6. ASSUME NEW e \in Entity, RenderModel(e) PROVE FramesInv'
  <2>1. /\ Pop(e) /\ e # Done /\ UNCHANGED <<main, drawn, thread>>
        /\ draws' = draws \cup {DrawOf(e)} /\ thread = "pop"
    BY <1>6, ModelTouches, Commands DEF game, Pop
  <2>2. Processed' = Processed \cup {e}
    <3>1. DrawOf(e).entity = e
      BY DEF DrawOf
    <3> HIDE DEF DrawOf
    <3>2. QED
      BY <2>1, <3>1 DEF Processed
  <2>3. QED
    BY <2>1, <2>2, FramesPopped DEF BaseInv
<1>7. CASE RenderDone
  <2>1. /\ Pop(Done) /\ UNCHANGED <<main, drawn, draws>> /\ thread' = "fence"
    BY <1>7 DEF RenderDone, game
  <2>2. Processed' = Processed
    BY <2>1 DEF Processed
  <2>3. QED
    BY <2>1, <2>2, FramesPopped DEF BaseInv
<1>8. CASE RenderStop
  <2>1. /\ Pop(Stop) /\ UNCHANGED <<main, drawn, draws>> /\ thread' = "drain"
        /\ Stop # Done /\ Stop \notin Entity
    BY <1>8, Commands DEF RenderStop, game
  <2>2. Processed' = Processed
    BY <2>1 DEF Processed
  <2>3. QED
    BY <2>1, <2>2, FramesPopped DEF BaseInv
<1>9. CASE Submit
  <2>1. /\ UNCHANGED <<main, drawn, queue>> /\ thread = "fence" /\ thread' = "pop"
        /\ draws' = {}
    BY <1>9 DEF Submit, game
  <2>2. Processed' = {}
    BY <2>1 DEF Processed
  <2>3. QED
    BY <2>1, <2>2, FramesKept DEF FramesInv
<1>10. CASE Drain \/ GpuCompletes
  <2>1. /\ UNCHANGED <<main, drawn, queue, draws>>
        /\ \/ thread = "drain" /\ thread' = "exited"
           \/ thread' = thread
    BY <1>10 DEF Drain, GpuCompletes, game
  <2>2. Processed' = Processed
    BY <2>1 DEF Processed
  <2>3. QED
    BY <2>1, <2>2, FramesKept DEF FramesInv
<1>11. QED
  BY <1>1, <1>2, <1>3, <1>4, <1>5, <1>6, <1>7, <1>8, <1>9, <1>10
  DEF Next, RenderStep, Finished

-----------------------------------------------------------------------------
(* What a draw needs goes on being held by the caches.                     *)
LEMMA ModelHolds ==
  ASSUME BaseInv, NEW e \in Entity, RenderModel(e)
  PROVE  /\ \A d : \A n \in Int : n <= frame_counter /\ HeldDraw(d, n) => HeldDraw(d, n)'
         /\ \A d : d = DrawOf(e) => HeldDraw(d, frame_counter)'
         /\ DrawOf(e) \in DrawSet /\ DrawOf(e).entity = e
<1>1. /\ \A p : \A n \in Int :
           n <= frame_counter /\ Held(instances, p, n) => Held(instances', p, n)
      /\ Held(instances', ObjectOf(instances', e), frame_counter)
      /\ ObjectOf(instances', e) \in Keys(EntityKeys) \X Nat
  BY ModelGains DEF Gains
<1>2. /\ \A p : \A n \in Int : n <= frame_counter /\ Held(meshes, p, n) => Held(meshes', p, n)
      /\ Held(meshes', ObjectOf(meshes', MeshOf[e]), frame_counter)
      /\ ObjectOf(meshes', MeshOf[e]) \in Keys(MeshOf) \X Nat
  BY ModelGains DEF Gains
<1>3. /\ \A p : \A n \in Int :
           n <= frame_counter /\ Held(shaders, p, n) => Held(shaders', p, n)
      /\ Held(shaders', ObjectOf(shaders', ShaderOf[e]), frame_counter)
      /\ ObjectOf(shaders', ShaderOf[e]) \in Keys(ShaderOf) \X Nat
  BY ModelGains DEF Gains
<1>4. frame_counter' = frame_counter
  BY ModelTouches
<1>5. /\ DrawOf(e).entity = e /\ DrawOf(e).instance = ObjectOf(instances', e)
      /\ DrawOf(e).mesh = ObjectOf(meshes', MeshOf[e])
      /\ DrawOf(e).shader = ObjectOf(shaders', ShaderOf[e])
  BY DEF DrawOf
<1>6. DrawOf(e) \in DrawSet
  BY <1>1, <1>2, <1>3, KeysKnown DEF DrawOf, DrawSet
<1>7. ASSUME NEW d, d = DrawOf(e) PROVE HeldDraw(d, frame_counter)'
  <2>1. /\ Held(instances', d.instance, frame_counter')
        /\ Held(meshes', d.mesh, frame_counter')
        /\ Held(shaders', d.shader, frame_counter')
    BY <1>1, <1>2, <1>3, <1>4, <1>5, <1>7
  <2>2. QED
    BY <2>1 DEF HeldDraw, Held, Entries
<1>8. ASSUME NEW d, NEW n \in Int, n <= frame_counter, HeldDraw(d, n) PROVE HeldDraw(d, n)'
  <2>1. /\ Held(instances, d.instance, n) /\ Held(meshes, d.mesh, n)
        /\ Held(shaders, d.shader, n)
    BY <1>8 DEF HeldDraw
  <2>2. /\ Held(instances', d.instance, n) /\ Held(meshes', d.mesh, n)
        /\ Held(shaders', d.shader, n)
    BY <1>1, <1>2, <1>3, <1>8, <2>1
  <2>3. QED
    BY <2>2 DEF HeldDraw, Held, Entries
<1>9. QED
  BY <1>5, <1>6, <1>7, <1>8

LEMMA SameDraws ==
  ASSUME DrawsInv, UNCHANGED <<draws, frame_counter, caches>>,
         thread' \in {"drain", "exited"} => thread \in {"drain", "exited"} \/ draws = {}
  PROVE  DrawsInv'
  BY DEF DrawsInv, HeldDraw, Held, caches

LEMMA ModelDraws ==
  ASSUME BaseInv, DrawsInv, KeepInv, NEW e \in Entity, RenderModel(e)
  PROVE  DrawsInv'
<1>1. /\ UNCHANGED <<thread, frame_counter>> /\ thread = "pop" /\ frame_counter \in Nat
      /\ draws' = draws \cup {DrawOf(e)}
  BY ModelTouches DEF Pop
<1>2. /\ Exact(instances) /\ Exact(meshes) /\ Exact(shaders)
      /\ Unused(meshes) /\ Unused(shaders)
  BY <1>1 DEF KeepInv
<1>3. ObjectOf(instances', e)[1] = e
  BY <1>2, ModelGains DEF Gains
<1>4. ObjectOf(meshes', MeshOf[e])[1] = MeshOf[e]
  BY <1>2, ModelGains DEF Gains
<1>5. ObjectOf(shaders', ShaderOf[e])[1] = ShaderOf[e]
  BY <1>2, ModelGains DEF Gains
<1>6. /\ DrawOf(e).instance[1] = e /\ DrawOf(e).mesh[1] = MeshOf[e]
      /\ DrawOf(e).shader[1] = ShaderOf[e] /\ DrawOf(e).entity = e
  BY <1>3, <1>4, <1>5 DEF DrawOf
<1>7. /\ \A d : d = DrawOf(e) => HeldDraw(d, frame_counter)'
      /\ DrawOf(e) \in DrawSet
      /\ \A d : HeldDraw(d, frame_counter) => HeldDraw(d, frame_counter)'
  <2>1. PICK n : n = frame_counter
    OBVIOUS
  <2>2. n \in Int /\ n <= frame_counter /\ frame_counter' = n
    BY <1>1, <2>1
  <2>3. \A d : HeldDraw(d, n) => HeldDraw(d, n)'
    BY <2>2, ModelHolds
  <2>4. QED
    BY <2>1, <2>2, <2>3, ModelHolds DEF HeldDraw
<1>8. draws' \subseteq DrawSet
  BY <1>1, <1>7 DEF DrawsInv
<1>9. ASSUME NEW d \in draws'
      PROVE  /\ HeldDraw(d, frame_counter)' /\ d.instance[1] = d.entity
             /\ d.mesh[1] = MeshOf[d.entity] /\ d.shader[1] = ShaderOf[d.entity]
  <2>1. CASE d \in draws
    BY <1>7, <2>1 DEF DrawsInv
  <2>2. CASE d = DrawOf(e)
    BY <1>6, <1>7, <2>2
  <2>3. QED
    BY <1>1, <2>1, <2>2
<1>10. QED
  BY <1>1, <1>8, <1>9 DEF DrawsInv

LEMMA DrawsStep ==
  ASSUME BaseInv, FramesInv, DrawsInv, KeepInv, [Next]_vars
  PROVE  DrawsInv'
<1>1. CASE UNCHANGED vars
  BY <1>1, SameDraws DEF vars
<1>2. CASE (\E e \in Entity : PushModel(e)) \/ PushDone \/ Shutdown \/ PushStop \/ Join
  BY <1>2, SameDraws DEF PushModel, PushDone, Shutdown, PushStop, Join, renderer
<1>3. ASSUME NEW e \in Entity, RenderModel(e) PROVE DrawsInv'
  BY <1>3, ModelDraws
<1>4. CASE RenderDone \/ GpuCompletes
  BY <1>4, SameDraws DEF RenderDone, GpuCompletes
<1>5. CASE RenderStop
  <2>1. Pop(Stop) /\ UNCHANGED <<draws, frame_counter, caches>>
    BY <1>5 DEF RenderStop
  <2>2. draws = {}
    <3>1. 1 \in DOMAIN queue /\ queue[1] = Stop /\ thread = "pop"
      BY <2>1, Popped, LenProperties DEF BaseInv, TypeInv
    <3>2. Len(queue) = 1 /\ drawn = {}
      BY <3>1 DEF BaseInv, StopInv, FramesInv
    <3>3. ASSUME NEW d \in draws PROVE FALSE
      <4>1. d.entity \in Entity /\ d.entity \in Processed
        BY DEF DrawsInv, DrawSet, Processed
      <4>2. \A k \in 1 .. 1 : queue[k] # Done
        BY <3>1, Commands
      <4>3. InFrame(d.entity, 2)
        BY <3>1, <4>1, <4>2 DEF InFrame
      <4>4. ~InFrame(d.entity, 2)
        BY <3>2, <4>1 DEF FramesInv
      <4>5. QED
        BY <4>3, <4>4
    <3>4. QED
      BY <3>3
  <2>3. QED
    BY <2>1, <2>2, SameDraws
<1>6. CASE Submit
  BY <1>6 DEF Submit, DrawsInv
<1>7. CASE Drain
  BY <1>7 DEF Drain, DrawsInv
<1>8. QED
  BY <1>1, <1>2, <1>3, <1>4, <1>5, <1>6, <1>7 DEF Next, RenderStep, Finished
-----------------------------------------------------------------------------
(* Entries with the same key are the same.                                 *)
LEMMA SameEntry ==
  ASSUME NEW cache, Distinct(cache), NEW x \in Entries(cache), NEW y \in Entries(cache),
         x.key = y.key
  PROVE  x = y
<1>1. PICK i \in 1 .. cache.count : x = cache.slots[i]
  BY DEF Entries
<1>2. PICK j \in 1 .. cache.count : y = cache.slots[j]
  BY DEF Entries
<1>3. QED
  BY <1>1, <1>2 DEF Distinct

(* At the end of a frame no mesh and no shader is stale.                   *)
LEMMA LooksFresh ==
  ASSUME LooksResident, BaseInv, FramesInv, DrawsInv, KeepInv, thread = "fence"
  PROVE  /\ \A x \in Entries(meshes) : ~IsStale(x, frame_counter)
         /\ \A x \in Entries(shaders) : ~IsStale(x, frame_counter)
<1>1. /\ frame_counter \in Nat /\ FrameCount \in Nat \ {0} /\ Resident \subseteq Processed
      /\ Resident \subseteq Entity /\ Exact(meshes) /\ Exact(shaders)
      /\ Shape(meshes, Keys(MeshOf), frame_counter)
      /\ Shape(shaders, Keys(ShaderOf), frame_counter)
  BY FrameAssumption, CacheAssumption DEF BaseInv, TypeInv, ShapeInv, FramesInv, KeepInv
<1>2. Entries(meshes) \subseteq Entry(Keys(MeshOf)) /\ Entries(shaders) \subseteq Entry(Keys(ShaderOf))
  BY <1>1, SweptShape
<1>3. ASSUME NEW r \in Resident
      PROVE  \E d \in draws : d.entity = r /\ HeldDraw(d, frame_counter)
                              /\ d.mesh[1] = MeshOf[r] /\ d.shader[1] = ShaderOf[r]
  <2>1. PICK d \in draws : d.entity = r
    BY <1>1 DEF Processed
  <2>2. QED
    BY <2>1 DEF DrawsInv
<1>4. ASSUME NEW x \in Entries(meshes) PROVE ~IsStale(x, frame_counter)
  <2>1. x.key \in Keys(MeshOf) /\ x.stamp \in Nat
    BY <1>1, <1>2 DEF Shape, InUseBy, Entry
  <2>2. PICK e \in Entity : x.key = MeshOf[e]
    BY <2>1 DEF Keys
  <2>3. PICK r \in Resident : MeshOf[r] = MeshOf[e]
    BY DEF LooksResident
  <2>4. PICK d \in draws : HeldDraw(d, frame_counter) /\ d.mesh[1] = MeshOf[r]
    BY <1>3
  <2>5. PICK y \in Entries(meshes) : y.object = d.mesh /\ y.stamp >= frame_counter
    BY <2>4 DEF HeldDraw, Held
  <2>6. y.key = x.key
    BY <1>1, <2>2, <2>3, <2>4, <2>5 DEF Exact
  <2>7. x = y
    BY <1>1, <2>6, SameEntry DEF Shape
  <2>8. QED
    BY <1>1, <2>1, <2>5, <2>7 DEF IsStale
<1>5. ASSUME NEW x \in Entries(shaders) PROVE ~IsStale(x, frame_counter)
  <2>1. x.key \in Keys(ShaderOf) /\ x.stamp \in Nat
    BY <1>1, <1>2 DEF Shape, InUseBy, Entry
  <2>2. PICK e \in Entity : x.key = ShaderOf[e]
    BY <2>1 DEF Keys
  <2>3. PICK r \in Resident : ShaderOf[r] = ShaderOf[e]
    BY DEF LooksResident
  <2>4. PICK d \in draws : HeldDraw(d, frame_counter) /\ d.shader[1] = ShaderOf[r]
    BY <1>3
  <2>5. PICK y \in Entries(shaders) : y.object = d.shader /\ y.stamp >= frame_counter
    BY <2>4 DEF HeldDraw, Held
  <2>6. y.key = x.key
    BY <1>1, <2>2, <2>3, <2>4, <2>5 DEF Exact
  <2>7. x = y
    BY <1>1, <2>6, SameEntry DEF Shape
  <2>8. QED
    BY <1>1, <2>1, <2>5, <2>7 DEF IsStale
<1>6. QED
  BY <1>4, <1>5

-----------------------------------------------------------------------------
(* A frame has the fence of the one FrameCount frames ago.                 *)
LEMMA SameFence ==
  ASSUME NEW a \in Nat, NEW c \in Nat \ {0}, c <= a
  PROVE  (a - c) % c = a % c
<1>1. /\ a = c * (a \div c) + (a % c)
      /\ a \div c \in Int /\ a % c \in 0 .. c - 1
  OBVIOUS
<1>2. a - c \in Nat
  OBVIOUS
<1>3. /\ a - c = c * ((a - c) \div c) + ((a - c) % c)
      /\ (a - c) \div c \in Int /\ (a - c) % c \in 0 .. c - 1
  BY <1>2
<1> DEFINE q == a \div c
           r == (a - c) \div c
           k == q - 1 - r
<1>4. k \in Int /\ c * k = ((a - c) % c) - (a % c)
  BY <1>1, <1>3
<1>5. c * k < c /\ c * k > -c
  BY <1>1, <1>3, <1>4
<1> HIDE DEF k
<1>6. ASSUME k >= 1 PROVE FALSE
  BY <1>4, <1>5, <1>6
<1>7. ASSUME k <= -1 PROVE FALSE
  BY <1>4, <1>5, <1>7
<1>8. k = 0
  BY <1>4, <1>6, <1>7
<1>9. QED
  BY <1>1, <1>3, <1>4, <1>8

LEMMA PendingParts ==
  ASSUME PendingInv
  PROVE  /\ pending \in Seq([index : Nat, draws : SUBSET DrawSet]) /\ Len(pending) \in Nat
         /\ Len(pending) <= FrameCount /\ Len(pending) <= frame_counter
         /\ FrameCount \in Nat \ {0}
         /\ \A i \in 1 .. Len(pending) :
              /\ pending[i].index = (frame_counter - Len(pending) + i - 1) % FrameCount
              /\ \A d \in pending[i].draws :
                   HeldDraw(d, frame_counter - Len(pending) + i - 1)
<1>1. Len(pending) \in Nat
  BY LenProperties DEF PendingInv
<1>2. QED
  BY <1>1, FrameAssumption DEF PendingInv, Number

LEMMA SamePending ==
  ASSUME PendingInv, UNCHANGED <<pending, frame_counter, caches>>
  PROVE  PendingInv'
  BY DEF PendingInv, Number, HeldDraw, Held, caches

LEMMA ModelPending ==
  ASSUME BaseInv, PendingInv, NEW e \in Entity, RenderModel(e)
  PROVE  PendingInv'
<1>1. UNCHANGED <<pending, frame_counter>> /\ frame_counter \in Nat
  BY ModelTouches
<1>2. ASSUME NEW i \in 1 .. Len(pending), NEW d \in pending[i].draws
      PROVE  HeldDraw(d, frame_counter - Len(pending) + i - 1)'
  <2>1. PICK n : n = frame_counter - Len(pending) + i - 1
    OBVIOUS
  <2>2. HeldDraw(d, n)
    BY <2>1 DEF PendingInv, Number
  <2>a. n \in Int /\ n <= frame_counter
    <3>1. Len(pending) \in Nat
      BY PendingParts
    <3>2. QED
      BY <1>1, <2>1, <3>1
  <2>3. HeldDraw(d, n)'
    BY <2>2, <2>a, ModelHolds
  <2>4. QED
    BY <1>1, <2>1, <2>3 DEF HeldDraw
<1>3. QED
  BY <1>1, <1>2 DEF PendingInv, Number

(* A draw whose objects were last used less than FrameCount frames ago     *)
(* still has them after destroy_stale_data.                                *)
LEMMA SweptHeld ==
  ASSUME ShapeInv, frame_counter \in Nat, DestroyStale(frame_counter),
         NEW d, NEW n \in Int, HeldDraw(d, n), n + FrameCount > frame_counter
  PROVE  HeldDraw(d, n)'
<1>1. /\ instances' = Swept(instances, frame_counter)
      /\ meshes' = Swept(meshes, frame_counter)
      /\ shaders' = Swept(shaders, frame_counter)
  BY DEF DestroyStale
<1>2. ASSUME NEW cache, NEW K, Shape(cache, K, frame_counter), NEW o, Held(cache, o, n)
      PROVE  Held(Swept(cache, frame_counter), o, n)
  <2>1. PICK x \in Entries(cache) : x.object = o /\ x.stamp >= n
    BY <1>2 DEF Held
  <2>2. /\ Entries(cache) \subseteq Entry(K)
        /\ Entries(Swept(cache, frame_counter)) = {y \in Entries(cache) : ~IsStale(y, frame_counter)}
    BY <1>2, SweptShape
  <2>3. x.stamp \in Nat /\ FrameCount \in Nat
    BY <2>2, FrameAssumption DEF Entry
  <2>4. ~IsStale(x, frame_counter)
    BY <2>1, <2>3 DEF IsStale
  <2>5. QED
    BY <2>1, <2>2, <2>4 DEF Held
<1>3. /\ Held(instances', d.instance, n) /\ Held(meshes', d.mesh, n)
      /\ Held(shaders', d.shader, n)
  BY <1>1, <1>2 DEF ShapeInv, HeldDraw
<1>4. QED
  BY <1>3 DEF HeldDraw, Held, Entries

LEMMA SubmitPending ==
  ASSUME CallsFail = {}, BaseInv, DrawsInv, PendingInv, Submit
  PROVE  PendingInv'
<1> DEFINE frame == [index |-> FrameIndex, draws |-> draws]
<1>1. PICK n : n = Len(pending)
  OBVIOUS
<1>2. PICK c : c = frame_counter
  OBVIOUS
<1>3. /\ FenceSignalled(FrameIndex) /\ DestroyStale(frame_counter) /\ ShapeInv
      /\ frame_counter' = c + 1 /\ c \in Nat /\ pending' = Append(pending, frame)
  <2>1. FenceSignalled(FrameIndex) /\ pending' = Append(pending, frame)
    BY DEF Submit, WaitReturns, SubmitFrame, Accepts
  <2>2. QED
    BY <1>2, <2>1 DEF Submit, BaseInv, TypeInv
<1>4. FrameIndex = c % FrameCount /\ FrameIndex \in Nat
  BY <1>2, <1>3, FrameAssumption DEF FrameIndex
<1>5. n \in Nat /\ n <= c /\ n < FrameCount
  <2>1. n \in Nat /\ n <= c /\ n <= FrameCount /\ FrameCount \in Nat \ {0}
    BY <1>1, <1>2, PendingParts
  <2>2. ASSUME n = FrameCount PROVE FALSE
    <3>1. 1 \in 1 .. Len(pending) /\ DOMAIN pending = 1 .. Len(pending)
      <4>1. pending \in Seq([index : Nat, draws : SUBSET DrawSet])
        BY PendingParts
      <4>2. DOMAIN pending = 1 .. Len(pending)
        BY <4>1, LenProperties
      <4>3. 1 \in 1 .. n
        BY <2>1, <2>2
      <4>4. QED
        BY <1>1, <4>2, <4>3
    <3>2. pending[1].index = (frame_counter - Len(pending) + 1 - 1) % FrameCount
      BY <3>1, PendingParts
    <3>3. frame_counter - Len(pending) + 1 - 1 = c - FrameCount
      BY <1>1, <1>2, <1>3, <2>1, <2>2
    <3>4. pending[1].index = c % FrameCount
      BY <1>3, <2>1, <2>2, <3>2, <3>3, SameFence
    <3>5. QED
      BY <1>3, <1>4, <3>1, <3>4 DEF FenceSignalled
  <2>3. QED
    BY <2>1, <2>2
<1>6. frame \in [index : Nat, draws : SUBSET DrawSet]
  BY <1>4 DEF DrawsInv
<1>7. /\ pending' \in Seq([index : Nat, draws : SUBSET DrawSet]) /\ Len(pending') = n + 1
      /\ \A i \in 1 .. n : pending'[i] = pending[i]
      /\ pending'[n + 1] = frame
  BY <1>1, <1>3, <1>6, AppendProperties DEF PendingInv
<1> HIDE DEF frame
<1>8. ASSUME NEW i \in 1 .. n + 1
      PROVE  /\ pending'[i].index = (c - n + i - 1) % FrameCount
             /\ \A d \in pending'[i].draws : HeldDraw(d, c - n + i - 1)'
  <2>1. CASE i \in 1 .. n
    <3>1. /\ pending'[i] = pending[i] /\ pending[i].index = (c - n + i - 1) % FrameCount
          /\ \A d \in pending[i].draws : HeldDraw(d, c - n + i - 1)
      BY <1>1, <1>2, <1>7, <2>1, PendingParts
    <3>2. c - n + i - 1 \in Int /\ c - n + i - 1 + FrameCount > c
      BY <1>3, <1>5, <2>1, FrameAssumption
    <3>3. ASSUME NEW d \in pending[i].draws PROVE HeldDraw(d, c - n + i - 1)'
      BY <1>2, <1>3, <3>1, <3>2, SweptHeld
    <3>4. QED
      BY <3>1, <3>3
  <2>2. CASE i = n + 1
    <3>1. c - n + i - 1 = c
      BY <1>3, <1>5, <2>2
    <3>2. /\ pending'[i] = frame /\ frame.index = c % FrameCount /\ frame.draws = draws
      BY <1>4, <1>7, <2>2 DEF frame
    <3>3. ASSUME NEW d \in draws PROVE HeldDraw(d, c)'
      <4>1. HeldDraw(d, c) /\ c \in Int /\ c + FrameCount > c
        BY <1>2, <1>3, FrameAssumption DEF DrawsInv
      <4>2. QED
        BY <1>2, <1>3, <4>1, SweptHeld
    <3>4. QED
      BY <3>1, <3>2, <3>3
  <2>3. QED
    BY <1>5, <2>1, <2>2
<1>9. \A i \in 1 .. n + 1 : c + 1 - (n + 1) + i - 1 = c - n + i - 1
  BY <1>3, <1>5
<1>10. Len(pending') <= FrameCount /\ Len(pending') <= frame_counter'
  BY <1>3, <1>5, <1>7, FrameAssumption
<1>11. ASSUME NEW i \in 1 .. n + 1
       PROVE  /\ pending'[i].index = Number(i)' % FrameCount
              /\ \A d \in pending'[i].draws : HeldDraw(d, Number(i))'
  <2>1. Number(i)' = c - n + i - 1
    BY <1>3, <1>7, <1>9 DEF Number
  <2>2. QED
    BY <1>8, <2>1 DEF HeldDraw
<1>12. QED
  BY <1>7, <1>10, <1>11 DEF PendingInv

LEMMA GpuPending ==
  ASSUME BaseInv, PendingInv, GpuCompletes
  PROVE  PendingInv'
<1>1. PICK n : n = Len(pending)
  OBVIOUS
<1>2. PICK c : c = frame_counter
  OBVIOUS
<1>3. /\ pending # <<>> /\ pending' = Tail(pending) /\ UNCHANGED <<frame_counter, caches>>
      /\ c \in Nat
  BY <1>2 DEF GpuCompletes, BaseInv, TypeInv
<1>4. /\ pending' \in Seq([index : Nat, draws : SUBSET DrawSet]) /\ Len(pending') = n - 1
      /\ n \in Nat \ {0}
      /\ \A i \in 1 .. n - 1 : pending'[i] = pending[i + 1]
  BY <1>1, <1>3, PendingParts, HeadTailProperties, EmptySeq
<1>5. Len(pending') <= FrameCount /\ Len(pending') <= frame_counter'
  BY <1>1, <1>3, <1>4, PendingParts, FrameAssumption DEF BaseInv, TypeInv
<1>6. ASSUME NEW i \in 1 .. n - 1
      PROVE  /\ pending'[i].index = Number(i)' % FrameCount
             /\ \A d \in pending'[i].draws : HeldDraw(d, Number(i))'
  <2>1. Number(i)' = Number(i + 1)
    BY <1>1, <1>2, <1>3, <1>4 DEF Number
  <2>2. i + 1 \in 1 .. n /\ pending'[i] = pending[i + 1]
    BY <1>4
  <2>3. /\ pending[i + 1].index = Number(i + 1) % FrameCount
        /\ \A d \in pending[i + 1].draws : HeldDraw(d, Number(i + 1))
    BY <1>1, <2>2 DEF PendingInv
  <2>4. ASSUME NEW d, HeldDraw(d, Number(i + 1)) PROVE HeldDraw(d, Number(i))'
    BY <1>3, <2>1, <2>4 DEF HeldDraw, Held, Entries, caches
  <2>5. QED
    BY <2>1, <2>2, <2>3, <2>4
<1>7. QED
  BY <1>4, <1>5, <1>6 DEF PendingInv

LEMMA PendingStep ==
  ASSUME CallsFail = {}, BaseInv, DrawsInv, PendingInv, [Next]_vars
  PROVE  PendingInv'
<1>1. CASE UNCHANGED vars
  BY <1>1, SamePending DEF vars, submitted
<1>2. CASE (\E e \in Entity : PushModel(e)) \/ PushDone \/ Shutdown \/ PushStop \/ Join
  BY <1>2, SamePending DEF PushModel, PushDone, Shutdown, PushStop, Join, renderer, submitted
<1>3. ASSUME NEW e \in Entity, RenderModel(e) PROVE PendingInv'
  BY <1>3, ModelPending
<1>4. CASE RenderDone \/ RenderStop
  BY <1>4, SamePending DEF RenderDone, RenderStop, submitted
<1>5. CASE Drain
  <2>1. /\ pending' = pending /\ pending = <<>>
        /\ frame_counter' = frame_counter + FrameCount + 1
        /\ frame_counter \in Nat
    BY <1>5 DEF Drain, BaseInv, TypeInv, submitted
  <2>2. Len(pending') = 0 /\ frame_counter' \in Nat /\ pending' \in Seq([index : Nat, draws : SUBSET DrawSet])
    BY <2>1, FrameAssumption, EmptySeq
  <2>3. QED
    BY <2>2, FrameAssumption DEF PendingInv
<1>6. QED
  BY <1>1, <1>2, <1>3, <1>4, <1>5, SubmitPending, GpuPending DEF Next, RenderStep, Finished

-----------------------------------------------------------------------------
(* What the caches hold exists.                                            *)
LEMMA ModelKeep ==
  ASSUME BaseInv, KeepInv, NEW e \in Entity, RenderModel(e)
  PROVE  KeepInv'
<1>1. /\ thread' = "pop" /\ thread = "pop" /\ frame_counter' = frame_counter
      /\ alive' = alive \cup {o \in Objects(DrawOf(e)) : o[2] = frame_counter}
  BY ModelTouches DEF Pop
<1>2. /\ Exact(instances) /\ Exact(meshes) /\ Exact(shaders)
      /\ Unused(meshes) /\ Unused(shaders)
      /\ Holds(instances) \cup Holds(meshes) \cup Holds(shaders) \subseteq alive
  BY <1>1 DEF KeepInv
<1>3. ASSUME NEW o \in Objects(DrawOf(e)), NEW key, o = <<key, frame_counter>> PROVE o \in alive'
  BY <1>1, <1>3
<1>4. /\ ObjectOf(instances', e) \in Objects(DrawOf(e))
      /\ ObjectOf(meshes', MeshOf[e]) \in Objects(DrawOf(e))
      /\ ObjectOf(shaders', ShaderOf[e]) \in Objects(DrawOf(e))
  BY DEF Objects, DrawOf
<1>5. Exact(instances') /\ Holds(instances') \subseteq alive'
  <2> DEFINE o == ObjectOf(instances', e)
  <2>1. /\ Exact(instances') /\ Holds(instances') \subseteq Holds(instances) \cup {o}
        /\ o \in Holds(instances) \/ o = <<e, frame_counter>>
    BY <1>2, ModelGains DEF Gains
  <2>2. o \in alive'
    BY <1>1, <1>2, <1>3, <1>4, <2>1
  <2>3. QED
    BY <1>1, <1>2, <2>1, <2>2
<1>6. Exact(meshes') /\ Unused(meshes') /\ Holds(meshes') \subseteq alive'
  <2> DEFINE o == ObjectOf(meshes', MeshOf[e])
  <2>1. /\ Exact(meshes') /\ Unused(meshes') /\ Holds(meshes') \subseteq Holds(meshes) \cup {o}
        /\ o \in Holds(meshes) \/ o = <<MeshOf[e], frame_counter>>
    BY <1>2, ModelGains DEF Gains
  <2>2. o \in alive'
    BY <1>1, <1>2, <1>3, <1>4, <2>1
  <2>3. QED
    BY <1>1, <1>2, <2>1, <2>2
<1>7. Exact(shaders') /\ Unused(shaders') /\ Holds(shaders') \subseteq alive'
  <2> DEFINE o == ObjectOf(shaders', ShaderOf[e])
  <2>1. /\ Exact(shaders') /\ Unused(shaders') /\ Holds(shaders') \subseteq Holds(shaders) \cup {o}
        /\ o \in Holds(shaders) \/ o = <<ShaderOf[e], frame_counter>>
    BY <1>2, ModelGains DEF Gains
  <2>2. o \in alive'
    BY <1>1, <1>2, <1>3, <1>4, <2>1
  <2>3. QED
    BY <1>1, <1>2, <2>1, <2>2
<1>8. QED
  BY <1>5, <1>6, <1>7 DEF KeepInv, Exact, Unused, Holds, Entries

LEMMA SubmitKeep ==
  ASSUME LooksResident, BaseInv, FramesInv, DrawsInv, KeepInv, Submit
  PROVE  KeepInv'
<1> DEFINE now == frame_counter
<1>1. /\ thread = "fence" /\ thread' = "pop" /\ now \in Nat
      /\ instances' = Swept(instances, now)
      /\ meshes' = Swept(meshes, now) /\ shaders' = Swept(shaders, now)
      /\ alive' = alive \ (StaleObjects(instances, now) \cup StaleObjects(meshes, now)
                             \cup StaleObjects(shaders, now))
      /\ Shape(instances, Keys(EntityKeys), now)
      /\ Shape(meshes, Keys(MeshOf), now) /\ Shape(shaders, Keys(ShaderOf), now)
  BY DEF Submit, DestroyStale, BaseInv, TypeInv, ShapeInv
<1>2. /\ Exact(instances) /\ Exact(meshes) /\ Exact(shaders)
      /\ Unused(meshes) /\ Unused(shaders)
      /\ Holds(instances) \subseteq alive /\ Holds(meshes) \subseteq alive
      /\ Holds(shaders) \subseteq alive
  BY <1>1 DEF KeepInv
<1>3. /\ \A x \in Entries(meshes) : ~IsStale(x, now)
      /\ \A x \in Entries(shaders) : ~IsStale(x, now)
  BY <1>1, LooksFresh
<1>4. meshes' = meshes /\ shaders' = shaders
  BY <1>1, <1>3, SweptKeeps DEF Shape
<1>5. StaleObjects(meshes, now) = {} /\ StaleObjects(shaders, now) = {}
  BY <1>3 DEF StaleObjects, Entries
<1>6. Entries(instances') = {x \in Entries(instances) : ~IsStale(x, now)}
  BY <1>1, SweptShape
<1>7. \A o \in StaleObjects(instances, now) :
        \E y \in Entries(instances) : y.object = o /\ IsStale(y, now)
  BY DEF StaleObjects, Entries
<1>8. ASSUME NEW x \in Entries(instances') PROVE x.object \in alive'
  <2>1. x \in Entries(instances) /\ ~IsStale(x, now) /\ x.object \in alive
    BY <1>2, <1>6 DEF Holds
  <2>2. ASSUME x.object \in StaleObjects(instances, now) PROVE FALSE
    <3>1. PICK y \in Entries(instances) : y.object = x.object /\ IsStale(y, now)
      BY <1>7, <2>2
    <3>2. y.key = x.key
      BY <1>2, <2>1, <3>1 DEF Exact
    <3>3. y = x
      BY <1>1, <2>1, <3>2, SameEntry DEF Shape
    <3>4. QED
      BY <2>1, <3>1, <3>3
  <2>3. QED
    BY <1>1, <1>5, <2>1, <2>2
<1>9. ASSUME NEW x, x \in Entries(meshes) \/ x \in Entries(shaders) PROVE x.object \in alive'
  <2>1. x.object \in alive
    BY <1>2, <1>9 DEF Holds
  <2>2. x.object[1] \in Mesh \cup Shader
    <3>1. x.key \in Mesh \cup Shader
      BY <1>1, <1>9, KeysKnown DEF Shape, InUseBy
    <3>2. QED
      BY <1>2, <1>9, <3>1 DEF Exact
  <2>3. ASSUME x.object \in StaleObjects(instances, now) PROVE FALSE
    <3>1. PICK y \in Entries(instances) : y.object = x.object
      BY <1>7, <2>3
    <3>2. y.object[1] \in Entity
      BY <1>1, <1>2, KeysKnown DEF Exact, Shape, InUseBy
    <3>3. QED
      BY <2>2, <3>1, <3>2, CacheAssumption
  <2>4. QED
    BY <1>1, <1>5, <2>1, <2>3
<1>10. Exact(instances')
  BY <1>2, <1>6 DEF Exact
<1>11. /\ Holds(instances') \subseteq alive' /\ Holds(meshes') \subseteq alive'
       /\ Holds(shaders') \subseteq alive'
  BY <1>4, <1>8, <1>9 DEF Holds
<1>12. /\ Exact(instances') /\ Exact(meshes') /\ Exact(shaders')
       /\ Unused(meshes') /\ Unused(shaders')
  BY <1>2, <1>4, <1>10
<1>13. QED
  BY <1>11, <1>12 DEF KeepInv, Exact, Unused, Holds, Entries

LEMMA KeepStep ==
  ASSUME LooksResident, BaseInv, FramesInv, DrawsInv, KeepInv, [Next]_vars
  PROVE  KeepInv'
<1>1. ASSUME UNCHANGED <<caches, alive>>, thread = "exited" => thread' = "exited" PROVE KeepInv'
  BY <1>1 DEF KeepInv, Exact, Unused, Holds, Entries, caches
<1>2. CASE UNCHANGED vars
  BY <1>1, <1>2 DEF vars
<1>3. CASE (\E e \in Entity : PushModel(e)) \/ PushDone \/ Shutdown \/ PushStop \/ Join
  BY <1>1, <1>3 DEF PushModel, PushDone, Shutdown, PushStop, Join, renderer
<1>4. CASE RenderDone \/ RenderStop \/ GpuCompletes
  BY <1>1, <1>4 DEF RenderDone, RenderStop, GpuCompletes, Pop
<1>5. CASE Drain
  BY <1>5 DEF Drain, KeepInv
<1>6. QED
  BY <1>2, <1>3, <1>4, <1>5, ModelKeep, SubmitKeep DEF Next, RenderStep, Finished

LEMMA StrongInit ==
  ASSUME Init
  PROVE  StrongInv
<1>1. /\ queue = <<>> /\ Len(queue) = 0 /\ thread = "pop" /\ drawn = {} /\ draws = {} /\ main = "draw"
      /\ pending = <<>> /\ Len(pending) = 0 /\ frame_counter = 0 /\ alive = {}
      /\ instances = EmptyCache /\ meshes = EmptyCache /\ shaders = EmptyCache
  BY DEF Init
<1>2. BaseInv
  BY BaseInit
<1>3. FramesInv
  BY <1>1 DEF FramesInv, InFrame, Processed
<1>4. DrawsInv
  BY <1>1 DEF DrawsInv
<1>5. PendingInv
  <2>1. pending \in Seq([index : Nat, draws : SUBSET DrawSet])
    BY <1>1
  <2>2. QED
    BY <1>1, <2>1, FrameAssumption DEF PendingInv
<1>6. KeepInv
  <2>1. /\ EmptyCache.count = 0
        /\ \A i \in 1 .. MaxDrawables : EmptyCache.slots[i].object = None
    BY DEF EmptyCache, Blank
  <2>2. Entries(EmptyCache) = {} /\ Unused(EmptyCache)
    BY <2>1 DEF Entries, Unused
  <2>3. Holds(EmptyCache) = {} /\ Exact(EmptyCache)
    BY <2>2 DEF Holds, Exact
  <2>4. QED
    BY <1>1, <2>2, <2>3 DEF KeepInv
<1>7. QED
  BY <1>2, <1>3, <1>4, <1>5, <1>6 DEF StrongInv, KeptInv

LEMMA KeptStep ==
  ASSUME LooksResident, KeptInv, [Next]_vars
  PROVE  KeptInv'
  BY BaseStep, FramesStep, DrawsStep, KeepStep DEF KeptInv

LEMMA StrongStep ==
  ASSUME LooksResident, CallsFail = {}, StrongInv, [Next]_vars
  PROVE  StrongInv'
  BY KeptStep, PendingStep DEF StrongInv, KeptInv

-----------------------------------------------------------------------------
(* The layouts of the pipelines.                                           *)

(* A new entry of the shaders takes a slot that holds NULL: its pipeline   *)
(* is made for the mesh at hand.  An old one has its pipeline already.     *)
LEMMA ModelLayout ==
  ASSUME OneLayout, KeptInv, LayoutInv, NEW e \in Entity, RenderModel(e)
  PROVE  LayoutInv'
<1> DEFINE key == ShaderOf[e]
           i == PlaceOf(shaders, key)
<1>1. /\ thread = "pop" /\ BaseInv /\ Exact(shaders) /\ Unused(shaders)
      /\ pipelines' = PipelinesFor(e) /\ key \in Shader
  BY CacheAssumption DEF KeptInv, KeepInv, RenderModel, Pop
<1>2. DOMAIN pipelines' = Shader /\ \A s \in Shader : s # key => pipelines'[s] = pipelines[s]
  BY <1>1 DEF LayoutInv, PipelinesFor
<1>3. pipelines'[key] = LayoutOf[MeshOf[e]]
  <2>1. CASE shaders.slots[i].object = None
    BY <1>1, <2>1 DEF PipelinesFor, LayoutInv
  <2>2. CASE shaders.slots[i].object # None
    <3>1. SlotsOf(shaders, key) # {}
      <4>1. ASSUME SlotsOf(shaders, key) = {} PROVE FALSE
        <5>1. i = shaders.count + 1
          BY <4>1 DEF PlaceOf
        <5>2. shaders.count + 1 \in 1 .. MaxDrawables
          BY <4>1, Room, <1>1, ModelTouches
        <5>3. shaders.count \in Nat
          BY <1>1 DEF BaseInv, ShapeInv, Shape, CacheSet
        <5>4. QED
          BY <1>1, <2>2, <5>1, <5>2, <5>3 DEF Unused
      <4>2. QED
        BY <4>1
    <3>2. PICK x \in Entries(shaders) : x.key = key
      BY <3>1 DEF SlotsOf, Entries
    <3>3. x.object \in Holds(shaders) /\ x.object[1] = key
      BY <1>1, <3>2 DEF Holds, Exact
    <3>4. pipelines[key] = LayoutOf[MeshOf[e]]
      BY <3>3 DEF LayoutInv, RightLayout
    <3>5. QED
      BY <1>1, <2>2, <3>4 DEF PipelinesFor
  <2>3. QED
    BY <2>1, <2>2
<1>4. RightLayout(key)'
  BY <1>3 DEF RightLayout, OneLayout
<1>5. PICK o : /\ Holds(shaders') \subseteq Holds(shaders) \cup {o} /\ o[1] = key
               /\ Holds(shaders) \subseteq Keys(ShaderOf) \X Nat
  <2>1. Gains(shaders, shaders', Keys(ShaderOf), key, FALSE)
    BY <1>1, ModelGains
  <2>2. Holds(shaders) \subseteq Keys(ShaderOf) \X Nat
    <3>1. Shape(shaders, Keys(ShaderOf), frame_counter)
      BY <1>1 DEF BaseInv, ShapeInv
    <3>2. QED
      BY <3>1, CacheAssumption DEF Shape, CacheSet, Entries, Entry, Holds, InUseBy, MaxDrawables
  <2>3. QED
    BY <1>1, <2>1, <2>2 DEF Gains
<1>6. ASSUME NEW p \in Holds(shaders'), p[1] # key PROVE RightLayout(p[1])'
  <2>1. p \in Holds(shaders) /\ p[1] \in Keys(ShaderOf) /\ RightLayout(p[1])
    BY <1>5, <1>6 DEF LayoutInv
  <2>2. p[1] \in Shader
    BY <2>1, KeysKnown
  <2>3. pipelines'[p[1]] = pipelines[p[1]]
    BY <1>2, <1>6, <2>2
  <2>4. QED
    BY <2>1, <2>3 DEF RightLayout
<1>7. \A p \in Holds(shaders') : RightLayout(p[1])'
  BY <1>4, <1>6
<1>8. QED
  BY <1>2, <1>7 DEF LayoutInv, Holds, Entries

LEMMA LayoutStep ==
  ASSUME OneLayout, KeptInv, LayoutInv, [Next]_vars
  PROVE  LayoutInv'
<1>1. ASSUME UNCHANGED <<shaders, pipelines>> PROVE LayoutInv'
  BY <1>1 DEF LayoutInv, RightLayout, Holds, Entries
<1>2. ASSUME NEW then \in Nat, DestroyStale(then) PROVE LayoutInv'
  <2>1. shaders' = Swept(shaders, then) /\ UNCHANGED pipelines
    BY <1>2 DEF DestroyStale
  <2>2. Shape(shaders, Keys(ShaderOf), frame_counter) /\ frame_counter \in Nat
    BY DEF KeptInv, BaseInv, TypeInv, ShapeInv
  <2>3. Entries(Swept(shaders, then)) \subseteq Entries(shaders)
    BY <2>2, SweptShape
  <2>4. QED
    BY <2>1, <2>3 DEF LayoutInv, RightLayout, Holds, Entries
<1>3. CASE Submit
  <2>1. DestroyStale(frame_counter) /\ frame_counter \in Nat
    BY <1>3 DEF Submit, KeptInv, BaseInv, TypeInv
  <2>2. QED
    BY <1>2, <2>1
<1>4. CASE Drain
  <2>1. /\ DestroyStale(frame_counter + FrameCount + 1)
        /\ frame_counter + FrameCount + 1 \in Nat
    BY <1>4, FrameAssumption DEF Drain, KeptInv, BaseInv, TypeInv
  <2>2. QED
    BY <1>2, <2>1
<1>5. CASE UNCHANGED vars
  BY <1>1, <1>5 DEF vars, caches
<1>6. CASE (\E e \in Entity : PushModel(e)) \/ PushDone \/ Shutdown \/ PushStop \/ Join
  BY <1>1, <1>6 DEF PushModel, PushDone, Shutdown, PushStop, Join, renderer, caches
<1>7. CASE RenderDone \/ RenderStop \/ GpuCompletes
  BY <1>1, <1>7 DEF RenderDone, RenderStop, GpuCompletes, caches
<1>8. QED
  BY <1>3, <1>4, <1>5, <1>6, <1>7, ModelLayout DEF Next, RenderStep, Finished

LEMMA LayoutInit ==
  ASSUME Init
  PROVE  LayoutInv
<1>1. shaders.count = 0 /\ DOMAIN pipelines = Shader
  BY DEF Init, EmptyCache
<1>2. Holds(shaders) = {}
  BY <1>1 DEF Holds, Entries
<1>3. QED
  BY <1>1, <1>2 DEF LayoutInv

-----------------------------------------------------------------------------
(* If what comes and goes looks like something that is drawn in every      *)
(* frame, destroy_stale_data never destroys what the frame being recorded  *)
(* or a frame still on the GPU uses: the fence it comes after is that of   *)
(* the frame FrameCount frames ago, and no object of a later one is stale. *)
(* The wait for it and the submissions have to succeed.                    *)
THEOREM NothingInUseEverDestroyed ==
  LooksResident /\ CallsFail = {} => (Spec => []NothingInUseDestroyed)
<1> SUFFICES ASSUME LooksResident, CallsFail = {} PROVE Spec => []NothingInUseDestroyed
  OBVIOUS
<1>1. StrongInv => NothingInUseDestroyed
  <2> SUFFICES ASSUME StrongInv, NEW o \in UNION InUse PROVE o \in alive
    BY DEF NothingInUseDestroyed
  <2>1. \/ \E d \in draws : o \in Objects(d)
        \/ \E i \in DOMAIN pending : \E d \in pending[i].draws : o \in Objects(d)
    BY DEF InUse
  <2>2. thread # "exited"
    BY <2>1 DEF StrongInv, KeptInv, BaseInv, StopInv, DrawsInv
  <2>3. PICK d, n : HeldDraw(d, n) /\ o \in Objects(d)
    <3>1. CASE \E d \in draws : o \in Objects(d)
      BY <3>1 DEF StrongInv, KeptInv, DrawsInv
    <3>2. CASE \E i \in DOMAIN pending : \E d \in pending[i].draws : o \in Objects(d)
      <4>1. PICK i \in DOMAIN pending : \E d \in pending[i].draws : o \in Objects(d)
        BY <3>2
      <4>2. i \in 1 .. Len(pending)
        BY <4>1, LenProperties DEF StrongInv, PendingInv
      <4>3. QED
        BY <4>1, <4>2 DEF StrongInv, PendingInv
    <3>3. QED
      BY <2>1, <3>1, <3>2
  <2>4. o \in Holds(instances) \cup Holds(meshes) \cup Holds(shaders)
    BY <2>3 DEF HeldDraw, Held, Holds, Objects
  <2>5. QED
    BY <2>2, <2>4 DEF StrongInv, KeptInv, KeepInv
<1>2. QED
  BY StrongInit, StrongStep, <1>1, PTL DEF Spec

(* And every draw uses a mesh, a shader and an instance that exist and     *)
(* that were made for the entity that was pushed; its pipeline is for the  *)
(* layout of its mesh if all that is drawn with a shader has one layout.   *)
(* Whether Vulkan's calls succeed does not matter here.                    *)
THEOREM WhatIsPushedAlwaysRendered ==
  LooksResident /\ OneLayout => (Spec => []RendersWhatIsPushed)
<1> SUFFICES ASSUME LooksResident, OneLayout PROVE Spec => []RendersWhatIsPushed
  OBVIOUS
<1>1. KeptInv /\ LayoutInv => RendersWhatIsPushed
  <2> SUFFICES ASSUME KeptInv, LayoutInv, NEW d \in draws
               PROVE  /\ Objects(d) \subseteq alive
                      /\ d.instance[1] = d.entity
                      /\ d.mesh[1] = MeshOf[d.entity]
                      /\ d.shader[1] = ShaderOf[d.entity]
                      /\ pipelines[d.shader[1]] = LayoutOf[MeshOf[d.entity]]
    BY DEF RendersWhatIsPushed
  <2>1. /\ HeldDraw(d, frame_counter) /\ d.instance[1] = d.entity /\ d.entity \in Entity
        /\ d.mesh[1] = MeshOf[d.entity] /\ d.shader[1] = ShaderOf[d.entity]
        /\ thread # "exited"
    BY DEF KeptInv, DrawsInv, DrawSet
  <2>2. /\ Objects(d) \subseteq Holds(instances) \cup Holds(meshes) \cup Holds(shaders)
        /\ d.shader \in Holds(shaders)
    BY <2>1 DEF HeldDraw, Held, Holds, Objects
  <2>3. pipelines[d.shader[1]] = LayoutOf[MeshOf[d.entity]]
    BY <2>1, <2>2 DEF LayoutInv, RightLayout
  <2>4. QED
    BY <2>1, <2>2, <2>3 DEF KeptInv, KeepInv
<1>2. Init => KeptInv /\ LayoutInv
  BY StrongInit, LayoutInit DEF StrongInv
<1>3. KeptInv /\ LayoutInv /\ [Next]_vars => (KeptInv /\ LayoutInv)'
  BY KeptStep, LayoutStep
<1>4. QED
  BY <1>1, <1>2, <1>3, PTL DEF Spec
=============================================================================
