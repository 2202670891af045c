CONSTANTS
  Absent = Absent
  Ports = {p1, p2}
  Tokens = {t1, t2}
  Flags = {Absent, p2}
  DefaultPort = p1
  MaxLines = 4
  MaxSetups = 2
  MaxTroubles = 1
SPECIFICATION Spec
INVARIANTS NoneShutOut AgreeAfterSetup UserTextIsKept
PROPERTIES EditIsRight SecondRunIsNoop
CHECK_DEADLOCK FALSE
