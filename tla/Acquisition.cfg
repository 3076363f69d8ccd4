SPECIFICATION Spec
CONSTANTS
  Nodes = {live, scan, other}
  Cameras = {A, B}
  Camera <- MCCamera
  Scans = {scan, other}
  live = live
  scan = scan
  other = other
  A = A
  B = B
  Nobody = Nobody
  User = User
  MaxStarts = 2
  MaxShots = 2
  MaxFaults = 1
  MaxGiveUps = 1
  MaxPending = 1
INVARIANTS
  OwnFrames
  PlayedWhole
  NotStranded
  SoleDriver
PROPERTIES
  StopEnds
