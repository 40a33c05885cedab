SPECIFICATION Spec
CONSTANTS
  p1 = p1
  p2 = p2
  Procs = {p1, p2}
  Nobody = nobody
  Blocks <- MCBlocks
  Writes <- MCWrites
  NBuf = 2
  MaxHeld = 1
  MaxDirty = 2
PROPERTIES OnlyNoBuffers ImplementsStore RequestsEnd
\* bget may find no buffer: the panic stops the machine.
CHECK_DEADLOCK FALSE
