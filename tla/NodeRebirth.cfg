CONSTANTS
  Devices = {d1}
  SeqModulus = 1
  WaitOnHostOnline = FALSE
  Stimuli <- OnlyStop
SPECIFICATION FairSpec
PROPERTIES DevicesAreBorn
