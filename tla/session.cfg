CONSTANTS
  Word = 128
  Word32 = 16
  Large = 40
  Cpus = 2
  default_max_value_size = 3
  BufferSize = 28
  Setups <- SomeSetups
  Scripts <- ClientScripts
  Answers = {1, 29}
SPECIFICATION Spec
INVARIANTS TypeOK ServedAsSent VerdictsStable ParsesAgree RoundTrip ProcessingSound
CHECK_DEADLOCK FALSE
