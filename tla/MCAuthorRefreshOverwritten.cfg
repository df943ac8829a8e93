SPECIFICATION Spec
CONSTANTS
  a1 = a1
  a2 = a2
  w1 = w1
  w2 = w2
  s1 = s1
  Authors <- OneAuthor
  Works <- TwoWorks
  FirstWork = w1
  Slots <- OneSlot
  Nil = Nil
  Missing = Missing
  MaxEvents = 2
  MaxEdges = 1
PROPERTY RefreshLeavesWorks
