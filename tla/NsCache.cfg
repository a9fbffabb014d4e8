CONSTANTS
  Records = 2
  Life = 2
  ShortName = {n1, n2, n3}
  LongName = {n4}
  NoName = none
  Addr = {a1, a2}
  NoAddr = noaddr
  MaxTime = 3
SYMMETRY Symmetric
SPECIFICATION Spec
INVARIANT OneRecordPerName
PROPERTY ImplementsAged
