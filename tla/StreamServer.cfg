SPECIFICATION Spec
CONSTANT Client = {c1, c2, c3}
INVARIANT JoinedOnReturn
PROPERTIES ImplementsOneSession PlaceComesFree CancelReturns
CHECK_DEADLOCK FALSE
