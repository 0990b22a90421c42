SPECIFICATION HistorySpec
CONSTANTS
  None = None
  Wildcard = Wildcard
  Literals <- MCLiterals
  Placeholders = {"{id}"}
  NameOf <- MCNameOf
  ConstraintOf <- NoConstraint
  Accepts <- NoAccepts
  Uncompilable = {}
  Patterns <- RacedPatterns
  Requests <- OneRequest
  RegexPatterns = {}
  RegexMatches <- NoRegexMatches
  Resources = {r1}
  Shims = {s1}
  Methods = {GET}
  SingleResource = FALSE
  Threads = {t1, t2}
  MaxEntries = 1
INVARIANT OneChangeLinearizes
SYMMETRY ThreadSymmetry
