SPECIFICATION MCSpec
CONSTANTS
  t1 = t1
  t2 = t2
  Askers <- MCAskers
  newBase = newBase
  oldBase = oldBase
  Bases <- MCBases
  Legacy <- MCLegacy
  Groups = {2, 3}
  CacheCap = 1
  Documents = 2
  MaxChunks = 1
  Nobody = Nobody
  NoRow = NoRow
  NoIndex = NoIndex
  SettingReqs = {r1, r2}
  CredIds = {1}
  Keys = {k1}
  m1 = m1
  m2 = m2
  Models <- MCModels
  Seeds <- MCSeeds
  Params = {"temperature", "top_p"}
  Tunings = {"tuned"}
  MaxSettings = 2
INVARIANTS TypeOK CitesTheWholeBase PassagesLeaveBySwitch
PROPERTIES IndexIsFresh SettingsMoveOnlyWhenSaid
CHECK_DEADLOCK FALSE
