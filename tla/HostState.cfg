CONSTANTS
  Stimuli <- AllStimuli
SPECIFICATION FairSpec
INVARIANTS TypeOK HostInv StateAnnounced StoppedMeansOffline
PROPERTIES ImplementsHostPresence StopReturns ServiceIsAnnounced
