\* Expected to fail: two meshes of different layouts drawn with one shader.
SPECIFICATION Spec
CONSTANTS
  m1 = m1
  m2 = m2
  s1 = s1
  s2 = s2
  Entities = 2
  Mesh <- Meshes
  Shader <- Shaders
  MeshOf <- TwoMesh
  ShaderOf <- OneShader
  LayoutOf <- Layouts
  Resident = {1, 2}
  None = none
  QueueCapacity = 2
  FrameCount = 3
  CallsFail = {}
  MaxFrames = 2
INVARIANTS
  RendersWhatIsPushed
