SPECIFICATION Spec
CONSTANTS
  t1 = t1
  t2 = t2
  r1 = r1
  r2 = r2
  s1 = s1
  s2 = s2
  five = five
  Requests = {r1, r2}
  SessionIDs = {s1, s2}
  Timeout = 2
  MaxTime = 6
  Nobody = Nobody
  Tabs = {t1, t2}
  MaxFailures = 1
  Workloads <- MCWorkloads
  ConfigFiles <- MCConfigFiles
  Merged <- MergeFiles
  Unmergeable <- MergePanics
  OtherKeys = {five}
  HostURLs = {"https://here"}
  Durations = {"12h"}
  Unusable = {"a=b"}
  Colons = {"a:b"}
  Unparsable = {"https://idp:port"}
INVARIANTS ServiceTypeOK EndedSessionsRefused LiveSessionsKept NoProviderRace MergeKeepsSettings ConfigurationSuffices
PROPERTIES ExpiredSessionsRemoved EmergencyAccess LoginsGoOn EndsAfterSignal
