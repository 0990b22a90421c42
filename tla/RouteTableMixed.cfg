SPECIFICATION TableSpec
CONSTANTS
  None = None
  Wildcard = Wildcard
  Num = Num
  Bad = Bad
  Literals <- MCLiterals
  Placeholders = {"{n|Num}", "{n|Bad}"}
  NameOf <- MCNameOf
  ConstraintOf <- MCConstraintOf
  Accepts <- MCAccepts
  Uncompilable = {Bad}
  Patterns <- MixedPatterns
  Requests <- MCRequests
  RegexPatterns <- OneRegex
  RegexMatches <- MCRegexMatches
  Resources = {r1}
  Shims = {s1, s2}
  Methods = {GET, POST}
  SingleResource = FALSE
INVARIANTS TierPolarity ApartHandlersServeTheirPaths FindableRegistrationsCompose
