SPECIFICATION Spec
CONSTANTS
  v1 = v1
  v2 = v2
  f1 = f1
  k1 = k1
  k2 = k2
  t1 = t1
  t2 = t2
  Videos = {v1, v2}
  Texts = {t1, t2}
  Fields = {f1}
  Required = {f1}
  Campaigns = {k1, k2}
  Saved <- MC_Saved
  Blank = blank
  Typed = typed
  None = none
  MaxActs = 9
SYMMETRY VideoSymmetry
INVARIANTS
  OnePipelinePerVideo
  SelectionIsShown
  NothingBlankIsStored
PROPERTIES
  SubmittedIsStored
\* The user stops.
CHECK_DEADLOCK FALSE
