SPECIFICATION Spec
CONSTANTS
  HostType <- MCHostType
  HostValue <- MCHostValue
  FieldsOf <- MCFieldsOf
  Symbols <- MCSymbols
  HeapStart <- MCHeapStart
  KnownField <- MCKnownField
  Returns <- MCReturns
  Programs <- MCPrograms
  LoopBound = 2
INVARIANT NoUnboundRead
INVARIANT ReturnsChecked
INVARIANT SameUses
CHECK_DEADLOCK FALSE
