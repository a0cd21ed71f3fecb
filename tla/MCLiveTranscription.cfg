SPECIFICATION LiveSpec
CONSTANTS
  JobIds = {1, 2, 3, 4, 5}
  FinalRequests <- MCRequests
  PartialRequests <- MCRequests
  Watermarks = {}
  BatchBound = 1
  MaxJobs = 1
  MaxSpeechMs = 3
  SamplesPerMs = 1
  DisableSpeechMs = 3
  RestoreSpeechMs = 1
  SequenceBound = 0
  Horizon <- MCHorizon
  UpdateCapacity = 1
  OutputCapacity = 1
INVARIANTS
  EventsConserved
PROPERTIES
  RunKeepsLedger
  StopTerminates
  StopDeliversEveryFinal
