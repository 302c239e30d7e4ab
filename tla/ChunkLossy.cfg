SPECIFICATION Spec
CONSTANTS
  app = app
  idt = idt
  other = other
  module = module
  broker = broker
  Sources = {module, broker}
  Threads = {app, idt, other}
  SourceOf <- TwoProcesses
  MaxChunks = 3
  MaxMessages = 2
  Base = 4
  PerSource = TRUE
  CharSigned = FALSE
  Unreliable = TRUE
CHECK_DEADLOCK FALSE
INVARIANTS OrderedPayloads ResyncOnFirstChunk
