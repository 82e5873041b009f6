\* One thread, every count but 4 (see RealCount4), forward and back, on any of
\* the contexts each time.
SPECIFICATION Spec
CONSTANTS
  P = 31
  Expi <- Expi31
  t1 = t1
  c1 = c1
  c2 = c2
  n1 = n1
  in = in
  out1 = out1
  back = back
  tmp = tmp
  NoCall = NoCall
  Threads = {t1}
  Contexts = {c1, c2, n1}
  Neon <- UsesNeon
  ArmNeon = TRUE
  MaxCount <- RealMaxCount
  Counts = {1, 2, 8, 16, 32}
  Buffers = {in, out1, back, tmp}
  BufLen <- RealLen
  InitMem <- RealMem
INVARIANTS
  TypeOK
  ForwardCorrect
  RoundTrip
  UntangledInPlace
PROPERTIES
  WritesDocumented
\* Every thread makes one forward and one inverse transform and stops.
CHECK_DEADLOCK FALSE
