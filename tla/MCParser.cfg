SPECIFICATION Spec
CONSTANTS
  MAX_CONTEXT = 4
  MaxParams = 2
  Room = 5
  Malformed <- Malformeds
  Tokens <- Words
  Follow <- Sentences
INVARIANTS TypeOK ContextIsCalls SymbolsOfFile TreeIsTheFile
PROPERTIES Termination KeepsScopes
CHECK_DEADLOCK FALSE
