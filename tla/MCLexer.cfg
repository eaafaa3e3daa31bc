CONSTANTS
  Texts <- MCTexts
  Keywords <- MCKeywords
  Delims <- MCDelims
  Literals <- MCLiterals
  Skips <- MCSkips
  WordChars <- MCWordChars
  NewLine <- MCNewLine
  MaxRow = 9
SPECIFICATION Spec
INVARIANTS TypeOK Lossless RowExact WordsWhole KeywordsLongest
PROPERTIES Progress
CHECK_DEADLOCK FALSE
