SPECIFICATION TableSpec
CONSTANTS
  None = None
  Wildcard = Wildcard
  Num = Num
  Bad = Bad
  Literals <- MCLiterals
  Placeholders = {"{n|Num}"}
  NameOf <- MCNameOf
  ConstraintOf <- MCConstraintOf
  Accepts <- MCAccepts
  Uncompilable = {}
  Patterns <- OneNum
  Requests <- MCRequests
  RegexPatterns <- NoRegex
  RegexMatches <- MCRegexMatches
  Resources = {}
  Shims = {s1, s2}
  Methods = {GET, POST}
  SingleResource = FALSE
INVARIANT RegistrationsCompose
