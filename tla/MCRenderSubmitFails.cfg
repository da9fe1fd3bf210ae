\* Expected to fail: vkQueueSubmit fails, and nothing will signal the fence that
\* was reset for it.
CHECK_DEADLOCK FALSE
SPECIFICATION Spec
CONSTANTS
  m1 = m1
  m2 = m2
  s1 = s1
  s2 = s2
  Entities = 2
  Mesh <- Meshes
  Shader <- Shaders
  MeshOf <- TwoMesh
  ShaderOf <- TwoShader
  LayoutOf <- Layouts
  Resident = {1, 2}
  None = none
  QueueCapacity = 2
  FrameCount = 3
  CallsFail = {"vkQueueSubmit"}
  MaxFrames = 5
PROPERTIES
  ShutdownReturns
