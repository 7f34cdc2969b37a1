SPECIFICATION Spec
CONSTANTS
  MaxLoops = 2
  SimulateOpen = {TRUE, FALSE}
  StartsStopped = {TRUE, FALSE}
PROPERTIES LoopsEndOnlyWhenStopped StopReachesEveryLoop SessionCloses EmergencyIsShown
CHECK_DEADLOCK FALSE
