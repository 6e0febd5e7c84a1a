SPECIFICATION Spec
CONSTANTS
  A1 = A1
  A2 = A2
  B = B
  s1 = s1
  s2 = s2
  Pipelines = {x1}
  BindCalls = {}
  PushCalls <- PartialPushes
  Layouts <- CompatibleLayouts
  ClassOf <- OneClass
  NumSets = 2
  NumBytes = 4
  kMaxTrackedDescriptorSets = 3
  kMaxTrackedPushConstantBytes = 4
  kMaxTrackedDynamicOffsets = 1
  Injected = Injected
  None = None
INVARIANTS Transparent
