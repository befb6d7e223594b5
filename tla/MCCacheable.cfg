SPECIFICATION MessageSpec
CONSTANTS
  MaxLength = 0
  MaxDigits = 0
  MaxFirst = 0
  MaxSecond = 0
  MaxCacheControl = 1
  Symbols <- AnySymbols
  FromChars <- StdFromChars
  ToText <- StdToText
  Inputs <- ShortInputs
INVARIANT MarkedNotStored
