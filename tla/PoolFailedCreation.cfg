SPECIFICATION Spec
CONSTANTS
  t1 = t1
  t2 = t2
  k1 = k1
  k2 = k2
  Nobody = Nobody
  Threads = {t1, t2}
  Files = {k1, k2}
  g_maxCephPoolIdx = 2
  Calls = {"striper"}
  Warm = TRUE
  CreateMayFail = TRUE
  MaxClusters = 2
INVARIANT
  StripersLive
SYMMETRY Symmetry
