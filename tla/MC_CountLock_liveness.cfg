CONSTANTS
  p1 = p1
  p2 = p2
  p3 = p3
  Proc <- ThreeProcs
  NoNumber = NoNumber
  MaxUnlinks = 1
SPECIFICATION LiveSpec
PROPERTIES ImplementsReadersWriters SomeoneEnters EntersWhenAlone
