CONSTANTS
  MaxItems = 5
  MaxArgs = 4
  MaxLen = 4
  MaxUsize = 6
  Keys = {k1, k2, k3}
  TableSize = 4
  Refs = {r1, r2, r3, r4, r5}
  UsizeMax = 3
  Blocks = {b1, b2, b3, b4}
  MaxCapacity = 3
  Extended = FALSE
  VMs = {v1, v2}
  Embedded = Embedded
  NoVM = NoVM
  MaxDepth = 5
  MaxCalls = 6
SPECIFICATION UncheckedSpec
INVARIANTS CompilesWellFormed AnswersAsPython RequiredAreSet
INVARIANTS ReadsAreInBoundsUnlessWrapped EachPositionOnceUnlessWrapped
INVARIANTS DictLoopEnds StillDictIsWhole
INVARIANTS NeverHandedOutTwice
INVARIANTS AttachedFindsAVm BoundOnce
PROPERTIES PanicIsFinal ImplementsReadersWriter
CHECK_DEADLOCK FALSE
