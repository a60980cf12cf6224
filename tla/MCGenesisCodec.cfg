CONSTANTS
  Msgs <- MCMsgs
  Unknown <- MCUnknown
  Corrupt <- MCCorrupt
  Appended <- MCAppended
  CutAt = {1, 2, 3, 4, 5}
  Priors <- MCPriors

SPECIFICATION Spec
CHECK_DEADLOCK FALSE

INVARIANT TypeOK
INVARIANT ReadsMatchReference
INVARIANT MarshalFitsSize
INVARIANT DecodesWhatWasEncoded
PROPERTY LoopAdvances
INVARIANT NeverInventsFields
INVARIANT OverflowOnlyAfterTenBytes
