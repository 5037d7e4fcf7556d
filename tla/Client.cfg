SPECIFICATION ClientSpec
CONSTANTS
  Users = {u1, u2}
  NoUser = NoUser
  Anonymous = Anonymous
  Filters = {f1, f2}
  Sites = {s1, s2}
  NoSite = NoSite
  Nothing = Nothing
  MaxCalls = 2
  MaxFailures = 1
INVARIANTS OwnDataOnly LoginBeforeDashboard
PROPERTIES LocationsCatchUp PanelCatchesUp
