CONSTANTS
  SegmentSeconds = 1
  StallAfter = 2
  ConnectSeconds = 1
  HealthySeconds = 4
  Backoffs <- MCBackoffs
  KeepSeconds = 3
  Reach = 1
  MaxChanges = 1
  None = None
SPECIFICATION FairSpec
INVARIANTS NoOrphan
PROPERTIES StopEnds HangEnds Recovers SettingsTakeEffect
