CONSTANT MaxNode = 4
SPECIFICATION Spec
INVARIANTS TypeOK VisitsAreRequested RoundTrip WellFormed
PROPERTIES ReadAllOrNothing TraversalsEnd
