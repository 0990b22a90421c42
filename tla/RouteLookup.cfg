SPECIFICATION Spec
CONSTANTS
  None = None
  Wildcard = Wildcard
  Bad = Bad
  Literals <- MCLiterals
  Placeholders = {"{id}", "{id|Bad}"}
  NameOf <- MCNameOf
  ConstraintOf <- MCConstraintOf
  Accepts <- MCAccepts
  Uncompilable = {Bad}
  Patterns <- RacedPatterns
  Requests <- RacedRequests
  RegexPatterns = {}
  RegexMatches <- NoRegexMatches
  Resources = {r1}
  Shims = {s1}
  Methods = {GET}
  SingleResource = FALSE
  Threads = {t1, t2}
  MaxEntries = 1
INVARIANTS TypeOK CacheCoherent AnswerLinearizes
