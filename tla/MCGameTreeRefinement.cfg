CONSTANTS
  Node = {n1, n2, n3, n4}
  Null = Null
SPECIFICATION CallSpec
SYMMETRY Symmetry
VIEW View
\* A call with undefined behaviour ends the behaviour.
CHECK_DEADLOCK FALSE
INVARIANTS
  TypeOK
  LinksConsistent
  Acyclic
  NoLeak
PROPERTIES
  OnlySelfReferenceCrashes
  ForestSpec
