\* One thread, every basis input, both leaves and one level of recursion.
SPECIFICATION Spec
CONSTANTS
  P = 31
  Expi <- Expi31
  t1 = t1
  t2 = t2
  c1 = c1
  c2 = c2
  n1 = n1
  in = in
  out1 = out1
  out2 = out2
  NoCall = NoCall
  Threads = {t1}
  Contexts = {c1, c2, n1}
  Neon <- UsesNeon
  ArmNeon = TRUE
  MaxCount <- BasisMaxCount
  Counts = {1, 2, 4, 8, 16}
  Buffers = {in, out1}
  BufLen <- BasisLen
  InitMem <- BasisMem
INVARIANTS
  TypeOK
  Correctness
\* Every thread makes one call and stops.
CHECK_DEADLOCK FALSE
