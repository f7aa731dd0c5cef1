SPECIFICATION FairDetectSpec
CONSTANTS
  Published = {}
  Subscribed = {}
  Values = {v1}
  Stimuli <- DetectStimuli
  Brokers = {b1, b2}
  MaxPolls = 3
INVARIANTS
  DetectInv
  FoundMeansAccepted
PROPERTIES
  GivesUpForAReason
  SearchEnds
