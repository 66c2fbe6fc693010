SPECIFICATION DSpec
INVARIANTS NothingLeft KeptOnReturn EndsAgree
PROPERTY DialReturns
CHECK_DEADLOCK FALSE
