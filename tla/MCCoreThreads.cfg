CONSTANTS
  main = main
  serial = serial
  product = product
  gain = gain
  Nothing = Nothing
  Main = main
  Callers = {main, ann, bob}
  Attrs = {serial}
  Values = {v1, v2}
  Noise = {"interrupt"}
  InLimit = 4
  Capacity = 1
  Faults = {"unplug", "loss"}
  InfoAttrs <- OneInfo
SPECIFICATION FairSpec
INVARIANTS InfoIsCurrent WorkerLife EveryAnswerAwaited
PROPERTIES CloseCompletes
