CONSTANTS
  Count = 3
  BufferSize = 2
  ChainOps <- AppendOnly
  MaxBytes = 6
SPECIFICATION Spec
INVARIANTS ResumesWrite
