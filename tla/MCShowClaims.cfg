SPECIFICATION Spec
CONSTANTS
  None = None
  show1 = show1
  Classes = {c1, c2}
  Entries = {e1, e2}
  Splits = {x1, x2, x3}
  Media = {m1, m2}
  Cards = {k1, k2}
  ShowOf <- OneShow
  Invites = {i1}
  Badges = {b1}
  Fields = {hidden}
  OnForm = {}
  Values = {0, 1}
  Unset = 0
  Letters = 2
  MaxScore = 1
  MaxPlace = 1
  Together <- SplitsOrScores
  MaxIds = 4
  MaxMixed = 3
SYMMETRY MCSymmetry
INVARIANTS TypeOK RebuildKeepsRecords RebuildKeepsMedia  SplitLettersDiffer SplitOfEntryExists
PROPERTY DeletedStaysDeleted
