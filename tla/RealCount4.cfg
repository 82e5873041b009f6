\* The forward transform of 4 floats.
SPECIFICATION Spec
CONSTANTS
  P = 31
  Expi <- Expi31
  t1 = t1
  c1 = c1
  c2 = c2
  n1 = n1
  in = in
  out1 = out1
  back = back
  tmp = tmp
  NoCall = NoCall
  Threads = {t1}
  Contexts = {c1, c2, n1}
  Neon <- UsesNeon
  ArmNeon = TRUE
  MaxCount <- RealMaxCount
  Counts = {4}
  Buffers = {in, out1, back, tmp}
  BufLen <- RealLen
  InitMem <- GenericMem
PROPERTIES
  WritesDocumented
\* Every thread makes one forward and one inverse transform and stops.
CHECK_DEADLOCK FALSE
