SPECIFICATION RuntimeSpec
CONSTANTS
  Controls = {a, b}
  Windows = {w1}
  NoWindow = none
  MaxTree = 2
  ProbeLimit = 1
  MaxGen = 3
  MaxSessions = 2
  Verifications = 2
  RequestIds = {r1, r2, r3}
  Capacity = 2
  Handles = {h1, h2}
  MaxCreated = 2
  MaxRequests = 6
  MaxFrames = 2
  MaxBytes = 6
  MaxEncoded = 3
  TombstoneLimit = 2
  PixelSizes = {1, 4, 7}
  PngSizes = {2, 4}
  Layouts = {l1, l2}
  MaxCaptures = 4
  MaxTopologies = 2
  Os = {"windows", "macos"}
  InputSessions = {s1}
  Applications = {app}
  MaxFaults = 2
SYMMETRY Symmetry
INVARIANTS
  RuntimeTypeOK
  ReferenceHolds SpentIsDead
  OneEffect RefusalsTouchNothing FallbackIsAdmitted CachedIsCurrent ReportedGenerationIsCurrent
  SendsAreAdmitted
  ReplayRefused WindowIdsHold LiveSessionsWork NothingLeftBehind
  FramesAccounted LoopsEnd FrameAnswersHold
  DownIsTracked
CHECK_DEADLOCK FALSE
