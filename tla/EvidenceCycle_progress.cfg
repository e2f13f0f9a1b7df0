\* The ordinary course to a seal: two findings, two boundaries and a claimed
\* external verdict.
SPECIFICATION Spec
CONSTANTS
  Source = {s1, s2}
  Material = {m1}
  Finding = {f1, f2}
  Self = c0
  Cycle = {c0, c1}
  Tiers = {"local_pass", "external_verdict"}
  Boundaries <- TwoBoundaries
  Budgets = {13}
  MaxGenerations = 2
  None = None
SYMMETRY Symmetry
CHECK_DEADLOCK FALSE
INVARIANTS
  TypeOK
  SealIsEarned
