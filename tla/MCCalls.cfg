SPECIFICATION Spec
CONSTANTS
  MinStack = 6
  MaxCalls = 4
  ErrorCalls = 1
  MaxFrames = 6
  MaxCCalls = 2
  ErrCCalls = 4
  MaxStack = 4
  Calls <- MCProgram
  Iterators <- MCIterators
  Metamethods <- MCMetamethods
  Entries <- MCEntries
  Wants <- MCWants
INVARIANTS
  CallsCounted
  CallersUntouched
  UpvalsLive
  FramesRun
