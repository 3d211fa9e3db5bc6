SPECIFICATION Spec
CONSTANTS
  r1 = r1
  r2 = r2
  r3 = r3
  r4 = r4
  p1 = p1
  p2 = p2
  a = a
  b = b
  Rows = {r1, r2, r3}
  Names = {a, b}
  NameOf <- RowNames
  Priority <- Priorities
  Pollers = {p1, p2}
  Wanted <- TwoPollers
  FetchSizes = {1, 2}
  StuckTimeout = 2
  Delays = {0, 1}
  RunsMayBeLate = FALSE
  MaxTime = 3
INVARIANT
  ClaimIsExclusive
\* All rows may have ended.
CHECK_DEADLOCK FALSE
