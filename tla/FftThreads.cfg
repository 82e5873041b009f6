\* Two threads, a context for NEON and one without, one input.
SPECIFICATION Spec
CONSTANTS
  P = 31
  Expi <- Expi31
  t1 = t1
  t2 = t2
  c1 = c1
  c2 = c2
  n1 = n1
  in = in
  out1 = out1
  out2 = out2
  NoCall = NoCall
  Threads = {t1, t2}
  Contexts = {c1, n1}
  Neon <- UsesNeon
  ArmNeon = TRUE
  MaxCount <- ThreadsMaxCount
  Counts = {2, 16}
  Buffers = {in, out1, out2}
  BufLen <- ThreadsLen
  InitMem <- ThreadsMem
INVARIANTS
  Correctness
PROPERTIES
  NoInterference
\* Every thread makes one call and stops.
CHECK_DEADLOCK FALSE
