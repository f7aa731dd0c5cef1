SPECIFICATION FairSpec
CONSTANTS
  Published = {p}
  Subscribed = {s}
  Values = {v1, v2}
  Stimuli <- AllStimuli
INVARIANTS
  TypeOK
  IInv
  OnlineMeansAnswered
  NoHandleWithoutWorker
  UpdateNotForgotten
PROPERTIES
  ImplementsMetricUpdates
  DisconnectIsAwaited
  CallsReturn
  OutOfServiceDisconnects
  UpdatesAreSent
