\* Two entities in every frame, as the trucks and the player are, and two that
\* come and go, long enough to be destroyed and made again.
SPECIFICATION Spec
CONSTANTS
  m1 = m1
  m2 = m2
  s1 = s1
  s2 = s2
  Entities = 4
  Mesh <- Meshes
  Shader <- Shaders
  MeshOf <- LookMesh
  ShaderOf <- LookShader
  LayoutOf <- Layouts
  Resident = {1, 2}
  None = none
  QueueCapacity = 2
  FrameCount = 3
  CallsFail = {}
  MaxFrames = 5
INVARIANTS
  NothingInUseDestroyed
  RendersWhatIsPushed
  ShutdownClean
PROPERTIES
  EveryFrameComesOut
  ShutdownReturns
