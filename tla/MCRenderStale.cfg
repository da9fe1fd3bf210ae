\* Expected to fail: two looks, neither of them in every frame: caches empty
\* and fill again.
SPECIFICATION Spec
CONSTANTS
  m1 = m1
  m2 = m2
  s1 = s1
  s2 = s2
  Entities = 2
  Mesh <- Meshes
  Shader <- Shaders
  MeshOf <- TwoMesh
  ShaderOf <- TwoShader
  LayoutOf <- Layouts
  Resident = {}
  None = none
  QueueCapacity = 2
  FrameCount = 3
  CallsFail = {}
  MaxFrames = 6
INVARIANTS
  RendersWhatIsPushed
