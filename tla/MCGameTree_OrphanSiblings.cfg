CONSTANTS
  Node = {n1, n2, n3, n4}
  Null = Null
SPECIFICATION Spec
\* A call with undefined behaviour ends the behaviour.
CHECK_DEADLOCK FALSE
INVARIANT RootsHaveNoSiblings
