CONSTANTS
  main = main
  serial = serial
  product = product
  gain = gain
  Nothing = Nothing
  Main = main
  Callers = {main}
  Attrs = {serial}
  Values = {v1}
  Noise = {}
  InLimit = 2
  Capacity = 1
  Faults = {"unplug"}
  InfoAttrs <- OneInfo
SPECIFICATION FairSpec
PROPERTIES RequestCompletes
