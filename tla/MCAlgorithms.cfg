CONSTANTS
  BATCH_SIZE = 4
  MaxAddress = 7
  MaxElements = 11
  MaxBatches = 4
  InstructionSet = {"NONE", "AVX128", "AVX256", "AVX512"}
  Seeded <- MCSeeded
  MaxAdvances = 3
  Start <- SingleBits
  Type <- MCType
  Count = {0, 1, 3}
  begin = 16
  MaxObjects = 3
  Names <- MCNames
  File <- MCFile
  SizeLimit = 256
SPECIFICATION MCSpec
INVARIANTS FillExact EveryNumberOnce NumbersSound JumpIsLongRun ObjectsApart ReadsBack DamageRefused
PROPERTIES AdvanceReversible
