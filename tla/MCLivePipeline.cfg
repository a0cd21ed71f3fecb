SPECIFICATION PipelineSpec
CONSTANTS
  JobIds = {1, 2, 3}
  FinalRequests <- MCFinalRequests
  PartialRequests <- MCPartialRequests
  Watermarks = {1, 2}
  BatchBound = 2
  MaxJobs = 2
  MaxSpeechMs = 3
  SamplesPerMs = 1
  DisableSpeechMs = 2
  RestoreSpeechMs = 1
  SequenceBound = 4
INVARIANTS
  FinalsAnsweredOnce
  StartsChronological
  PartialsShareTheWorker
CHECK_DEADLOCK FALSE
