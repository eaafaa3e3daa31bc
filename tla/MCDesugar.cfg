CONSTANTS
  MAX_CONTEXT = 4
  Programs <- AllPrograms
SPECIFICATION Spec
INVARIANTS TypeOK ContextIsEnclosing ContextFits PassesAgree AssertionsHold Sound Complete
PROPERTIES BindingsStable Termination
CHECK_DEADLOCK FALSE
