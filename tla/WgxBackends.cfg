SPECIFICATION Spec
CONSTANTS
  Sizes = {3}
  Programs <- MCPrograms
CHECK_DEADLOCK FALSE
INVARIANT
  BackendsAgree
