CONSTANTS
  MaxVads = 12
  MaxLookup = 7
  EntrySize = 2
  IndexCount = 4
  WordCount = 8192
  FixedSelf = 3
  PageSize = 4
  ArgSpan = 4
  WordSpan = 512
  Int3 <- MCInt3
  Nop <- MCNop
  Jmp <- MCJmp
  HighByte <- MCHighByte
  AnyCell <- MCAnyCell
  KernelModules <- MCKernelModules
  SystemRoutine = 10
  Sections <- MCSections
  Memories <- MCMemories
  LoaderCode <- MCLoaderCode
  Descriptor = 54
  ServiceTables <- MCServiceTables
  TableIndexes = {0, 1, 2}
  Services = {0, 1}
  HookAddresses = {5, 30, 90}
  MaxHooks = 3
  DiscardLayouts <- MCDiscardLayouts
  DiscardPages = {2, 3, 4, 5}
  MaxFrames = 2
  DiscardSizes = {1, 4, 5, 8}
  Systems <- MCSystems
  FixedBase = 3
  RelocatedBase = 7
  MaxHandles = 3
  Routine = 1
  SetEvent = 2
  Event = 3
  ReturnAddress = 9
  Answer = 7
  Junk <- MCJunk
  ArgLists <- MCArgLists
  Letters = {"a", "b", "/"}
  Separators = {"/"}
  Wildcard = "?"
  MaxText = 4
  MaxTarget = 2
  HalfSize = 4
  ImageFiles <- MCImageFiles
  Bases = {1, 4, 6, 61, 255}
SPECIFICATION Spec
INVARIANTS
  VadsAreKept
  
  CodeIsExact
  KernelIsPutBack
CHECK_DEADLOCK FALSE
