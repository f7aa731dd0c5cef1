CONSTANTS
  Devices = {d1}
  SeqModulus = 1
  WaitOnHostOnline = FALSE
  Stimuli <- LifecycleStimuli
SPECIFICATION FairSpec
INVARIANTS TypeOK IInv BirthBeforeDevices SilentAfterDeath NoHandleWithoutWorker
PROPERTIES ImplementsEdgeSession StopReturns AttemptEnds OutOfServiceDisconnects DeathEndsSession
