\* One thread, two levels of recursion above leaf 4, one above leaf 8, with
\* and without NEON.
SPECIFICATION FairSpec
CONSTANTS
  P = 127
  Expi <- Expi127
  t1 = t1
  t2 = t2
  c1 = c1
  c2 = c2
  n1 = n1
  in = in
  out1 = out1
  out2 = out2
  NoCall = NoCall
  Threads = {t1}
  Contexts = {c1, n1}
  Neon <- UsesNeon
  ArmNeon = TRUE
  MaxCount <- DeepMaxCount
  Counts = {32, 64}
  Buffers = {in, out1}
  BufLen <- DeepLen
  InitMem <- DeepMem
INVARIANTS
  InBounds
  RecursionDepth
  PartialResults
PROPERTIES
  Termination
\* Every thread makes one call and stops.
CHECK_DEADLOCK FALSE
