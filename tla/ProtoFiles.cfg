\* A kubelet of all packages and a plugin of one.
CONSTANTS
  Nil = Nil
  Processes = {"kubelet", "plugin"}
  Links <- MCLinks
SPECIFICATION Spec
INVARIANTS
  OnlyRegistrationVersionsClash
  TypesFitTogether
  ArrivesWhole
CHECK_DEADLOCK FALSE
