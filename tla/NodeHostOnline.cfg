CONSTANTS
  Devices = {d1}
  SeqModulus = 1
  WaitOnHostOnline = TRUE
  Stimuli <- NoStimuli
SPECIFICATION FairSpec
PROPERTIES HostOnlineStartsNode
