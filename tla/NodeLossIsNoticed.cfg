CONSTANTS
  Devices = {d1}
  SeqModulus = 1
  WaitOnHostOnline = FALSE
  Stimuli <- NoStimuli
SPECIFICATION FairSpec
PROPERTIES LossIsNoticed
