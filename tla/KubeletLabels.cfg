\* Every key near the edges of the rule.
CONSTANTS
  Keys <- MCKeys
SPECIFICATION Spec
INVARIANTS
  VerdictInAnyOrder
  NamespaceRule
CHECK_DEADLOCK FALSE
