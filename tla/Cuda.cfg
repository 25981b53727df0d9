CONSTANTS
  Hosts <- MCHosts
  Streams = {s1, s2}
  Default = s0
  Configs <- MCConfigs
SPECIFICATION Spec
SYMMETRY Symmetry
INVARIANTS TypeOK TasksRecordedOnce  GroupsRight
