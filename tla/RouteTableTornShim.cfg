SPECIFICATION TableSpec
CONSTANTS
  None = None
  Wildcard = Wildcard
  Num = Num
  Bad = Bad
  Literals <- MCLiterals
  Placeholders = {"{id}", "{n}", "{n|Bad}"}
  NameOf <- MCNameOf
  ConstraintOf <- MCConstraintOf
  Accepts <- MCAccepts
  Uncompilable = {Bad}
  Patterns <- CoveredBad
  Requests <- MCRequests
  RegexPatterns <- NoRegex
  RegexMatches <- MCRegexMatches
  Resources = {}
  Shims = {s1, s2}
  Methods = {GET, POST}
  SingleResource = FALSE
PROPERTY FailedCallKeepsHandlers
