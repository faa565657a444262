SPECIFICATION Spec
CONSTANTS
  Run = {r1, r2}
  Queueable = {r2}
  Scenario = {s1, s2}
  Selection = {{s1, s2}}
  MaxReviews = 1
INVARIANTS
  OneRule
