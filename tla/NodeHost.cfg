CONSTANTS
  Devices = {d1, d2}
  SeqModulus = 2
  WaitOnHostOnline = FALSE
  Stimuli <- HostStimuli
SPECIFICATION FairSpec
INVARIANTS NumbersInOrder
PROPERTIES HostOfflineDisconnects IdleDevicesAreBorn
