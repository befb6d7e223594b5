SPECIFICATION MessageSpec
CONSTANTS
  MaxLength = 7
  MaxDigits = 6
  MaxFirst = 5
  MaxSecond = 2
  MaxCacheControl = 0
  Symbols <- AnySymbols
  FromChars <- StdFromChars
  ToText <- StdToText
  Inputs <- ShortInputs
INVARIANTS ParsesExactly EndToEndOnly UpstreamFraming ClientFraming
