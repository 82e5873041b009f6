SPECIFICATION Spec
CONSTANTS
  P = 31
  Expi <- Expi31
  t1 = t1
  t2 = t2
  twoWay = twoWay
  fwd = fwd
  inv = inv
  vec = vec
  in = in
  out1 = out1
  out2 = out2
  tmp1 = tmp1
  NULL = NULL
  NoCall = NoCall
  IntMax = 127
  Threads = {t1}
  Contexts = {twoWay, fwd, inv, vec}
  Platform = "android"
  ArmNeon = FALSE
  CpuNeon = TRUE
  NoNeon = {}
  MaxCount <- ApiMaxCount
  Direction <- ApiDirection
  Requests <- StubRequests
  Buffers = {in, out1, tmp1}
  BufLen <- ApiLen
  InitMem <- ApiMem
PROPERTIES
  ImplementsService
\* Every thread makes one call and stops.
CHECK_DEADLOCK FALSE
