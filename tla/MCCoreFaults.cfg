CONSTANTS
  main = main
  serial = serial
  product = product
  gain = gain
  Nothing = Nothing
  Main = main
  Callers = {main}
  Attrs = {serial, gain}
  Values = {v1, v2}
  Noise = {"interrupt", "event", "alien"}
  InLimit = 2
  Capacity = 1
  Faults = {"unplug", "loss", "refuse", "flood"}
  InfoAttrs <- OneInfo
SPECIFICATION Spec
INVARIANTS TypeOK
PROPERTIES AnswerIsMine ImplementsService
