CONSTANTS
  n1 = n1
  n2 = n2
  a1 = a1
  a2 = a2
  Limit = 3
  Datagrams = 2
  Name = {n1, n2}
  Addr = {a1, a2}
  Circle = circle
  Failed = failed
  None = none
  Message <- Messages
  Packet <- Packets
  Start = 5
  Records = 2
  OutSize = 6
  Char = {x, y}
  Dot = dot
  MaxHost = 6
  LabelMax = 3
SPECIFICATION AllSpec
INVARIANTS Bounded RightAddress PacketsRead HostsEncoded
PROPERTIES Ends NamesEnd
