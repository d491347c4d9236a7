SPECIFICATION Spec
CONSTANTS
  Windows = {w1}
  NoWindow = none
  Rebinds = 2
  MaxActions = 3
  MaxGen = 2
INVARIANTS TypeOK LeaseReturned AimedInItsSession FrameFollowsSwitch OverlayGetsTheKeys SuccessIsComplete
PROPERTIES EveryCallAnswered
CHECK_DEADLOCK FALSE
