SPECIFICATION FairSpec
CONSTANTS
  Inputs <- MCInputs
  Forms <- MCForms
  Garbage = FALSE
  NoWord = NoWord
PROPERTIES ImplementsList Termination
CHECK_DEADLOCK FALSE
