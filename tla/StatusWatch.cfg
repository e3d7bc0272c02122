SPECIFICATION FairWatchSpec
CONSTANTS
  NoVersion = NoVersion
  Phases = {"Disconnected", "Connected"}
  Versions = {s1, s2, s3, s4}
INVARIANTS
  VersionsIdentify
PROPERTIES
  ShownInTheEnd
