SPECIFICATION ProgramSpec
CONSTANTS
  Prods = {q1, q2, q3}
  Conss = {c1, c2}
  MsgNumPerProd = 2
  MAX_MSG = 2
  ForkMayFail = TRUE
PROPERTIES ImplementsBuffer TerminationIfForked
CHECK_DEADLOCK FALSE
