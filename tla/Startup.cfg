CONSTANTS
  Colon = colon
  Left = left
  Right = right
  Quad = quad
  Group = {1}
  Groups = 3
  IntMax = 7
  PortMax = 3
  MaxHead = 5
  Input <- Texts
  Conn = {c1, c2}
SPECIFICATION FairSpec
INVARIANTS ListensAsAsked ClosedOnce
PROPERTIES WrittenIsRead ServesOrExits
