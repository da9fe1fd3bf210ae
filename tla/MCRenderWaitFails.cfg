\* Expected to fail: vkWaitForFences fails, and objects the GPU uses are destroyed.
SPECIFICATION Spec
CONSTANTS
  m1 = m1
  m2 = m2
  s1 = s1
  s2 = s2
  Entities = 2
  Mesh <- Meshes
  Shader <- Shaders
  MeshOf <- TwoMesh
  ShaderOf <- TwoShader
  LayoutOf <- Layouts
  Resident = {}
  None = none
  QueueCapacity = 2
  FrameCount = 3
  CallsFail = {"vkWaitForFences"}
  MaxFrames = 5
INVARIANTS
  NothingInUseDestroyed
