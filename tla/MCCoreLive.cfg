CONSTANTS
  main = main
  serial = serial
  product = product
  gain = gain
  Nothing = Nothing
  Main = main
  Callers = {main}
  Attrs = {product, serial, gain}
  Values = {v1, v2}
  Noise = {"interrupt", "alien"}
  InLimit = 3
  Capacity = 1
  Faults = {"refuse"}
  InfoAttrs <- TwoInfo
SPECIFICATION FairSpec
PROPERTIES RequestCompletes
