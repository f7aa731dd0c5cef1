SPECIFICATION Spec
CONSTANTS
  Published = {}
  Subscribed = {}
  Values = {v1}
  Stimuli <- AllStimuli
PROPERTY ExitAwaitsDisconnect
