SPECIFICATION Spec
CONSTANTS
  Workers = {w1}
  Employers = {e1, e2}
  Posted = {e1}
  Away = Away
  Still = Still
  MaxId = 2
  Purse = 1
  MaxCrashes = 1
INVARIANTS
  SavedAgree
