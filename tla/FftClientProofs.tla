-------------------------- MODULE FftClientProofs --------------------------
(* Proofs about FftClient, for every number of threads, contexts and        *)
(* buffers, every count, and builds and contexts with NEON and without.     *)
EXTENDS FftClient, FftResultProofs

(***************************************************************************)
(* The inductive invariant: contexts are as they were created, every frame  *)
(* on the stack of a thread is a good one that serves the thread's call,    *)
(* the call has buffers that are large enough, and no call writes a buffer  *)
(* that another thread's call uses.                                         *)
(***************************************************************************)
FramesOf(a) == {f \in OKFrames : Serves(f) = a}

ContextsOK == context = [c \in Contexts |-> NewContext(MaxCount[c], Neon[c])]

StacksOK ==
  /\ stack \in [Threads -> Seq(Frame)]
  /\ \A t \in Threads : stack[t] \in Seq(FramesOf(call[t]))

CallOK(a) ==
  /\ isPowerOfTwo(a.count) /\ a.count <= MaxCount[a.context]
  /\ a.count <= BufLen[a.src] /\ a.count <= BufLen[a.dst]
  /\ a.src # a.dst

CallsOK ==
  /\ call \in [Threads -> Args \cup {NoCall}]
  /\ \A t \in Threads : call[t] # NoCall => CallOK(call[t])

Separate ==
  \A t, u \in Threads : t # u /\ call[t] # NoCall /\ call[u] # NoCall =>
    call[t].dst \notin {call[u].src, call[u].dst}

IInv == ContextsOK /\ MemOK /\ StacksOK /\ CallsOK /\ Separate

-----------------------------------------------------------------------------
LEMMA ContextFacts ==
  ASSUME ContextsOK, NEW c \in Contexts
  PROVE  /\ context[c] = NewContext(MaxCount[c], Neon[c])
         /\ MaxCount[c] \in Nat /\ isPowerOfTwo(MaxCount[c]) /\ Neon[c] \in BOOLEAN
         /\ context[c].maxCount = MaxCount[c]
         /\ \A inverse \in BOOLEAN : HasTable(c, inverse)
<1>1. context[c] = NewContext(MaxCount[c], Neon[c])
  BY DEF ContextsOK
<1>2. MaxCount[c] \in Nat /\ isPowerOfTwo(MaxCount[c]) /\ Neon[c] \in BOOLEAN
  BY CallerAssumption
<1> QED BY <1>1, <1>2, CreatedTables

LEMMA ServesArgs ==
  ASSUME NEW f \in OKFrames
  PROVE  Serves(f) \in Args /\ Serves(f) # NoCall
<1>1. Serves(f) \in Args
  BY FrameFields DEF Serves, Args
<1> QED BY <1>1, CallerAssumption

LEMMA FramesClosed ==
  ASSUME NEW a
  PROVE  Closed(FramesOf(a)) /\ FramesOf(a) \subseteq OKFrames /\ FramesOf(a) \subseteq Frame
  BY DEF Closed, FramesOf, OKFrames

(* A thread that has frames is in a call.                                   *)
LEMMA NoFrames ==
  ASSUME StacksOK, NEW t \in Threads, call[t] = NoCall
  PROVE  stack[t] = << >>
<1>1. FramesOf(call[t]) = {}
  BY ServesArgs DEF FramesOf
<1>2. stack[t] \in Seq({})
  BY <1>1 DEF StacksOK
<1> QED BY <1>2

LEMMA SeqFrames ==
  ASSUME NEW a, NEW s \in Seq(FramesOf(a))
  PROVE  s \in Seq(Frame)
  BY FramesClosed

(* Good frames stay good as long as the contexts are what they are.         *)
LEMMA FramesUnchanged ==
  ASSUME UNCHANGED context
  PROVE  OKFrames' = OKFrames
  BY DEF OKFrames, FrameOK, HasTable, TableOf

(* A step of thread t that gives it a stack of the frames of its call keeps *)
(* StacksOK.                                                                *)
LEMMA StackStep ==
  ASSUME StacksOK, NEW t \in Threads, StackOf(t, FramesOf(call'[t])), UNCHANGED context,
         \A u \in Threads \ {t} : call'[u] = call[u],
         stack[t] \in Seq(FramesOf(call'[t]))
  PROVE  StacksOK'
<1>1. stack \in [Threads -> Seq(Frame)]
      /\ \A u \in Threads : stack[u] \in Seq(FramesOf(call[u]))
  BY DEF StacksOK
<1>2. PICK s \in Seq(FramesOf(call'[t])) :
        stack'[t] = s /\ \A u \in Threads \ {t} : stack'[u] = stack[u]
  BY <1>1 DEF StackOf
<1>3. stack' \in [Threads -> Seq(Frame)]
  <2>1. CASE UNCHANGED stack
    BY <1>1, <2>1
  <2>2. CASE \E q \in Seq(FramesOf(call'[t])) : stack' = [stack EXCEPT ![t] = q]
    <3>1. PICK q \in Seq(FramesOf(call'[t])) : stack' = [stack EXCEPT ![t] = q]
      BY <2>2
    <3>2. q \in Seq(Frame)
      BY SeqFrames
    <3> QED BY <1>1, <3>1, <3>2
  <2> QED BY <2>1, <2>2 DEF StackOf
<1>4. ASSUME NEW u \in Threads
      PROVE  stack'[u] \in Seq({f \in OKFrames : Serves(f) = call'[u]})
  BY <1>1, <1>2 DEF FramesOf
<1> QED BY <1>3, <1>4, FramesUnchanged DEF StacksOK, FramesOf

-----------------------------------------------------------------------------
LEMMA InitIInv == Init => IInv
<1> SUFFICES ASSUME Init PROVE IInv
  OBVIOUS
<1>1. /\ ContextsOK /\ mem \in InitMem
      /\ stack = [t \in Threads |-> << >>] /\ call = [t \in Threads |-> NoCall]
  BY DEF Init, ContextsOK
<1>2. MemOK
  BY <1>1, CallerAssumption DEF MemOK, BufferType
<1>3. StacksOK
  BY <1>1 DEF StacksOK
<1>4. CallsOK /\ Separate
  BY <1>1 DEF CallsOK, Separate
<1> QED BY <1>1, <1>2, <1>3, <1>4 DEF IInv

(* A call of fft(): the recursion it starts works for it.                   *)
LEMMA CallStep ==
  ASSUME IInv, NEW t \in Threads,
         NEW c \in Contexts, NEW src \in Buffers, NEW dst \in Buffers,
         NEW count \in Counts, NEW inverse \in BOOLEAN,
         MayCall(t, c, src, dst, count),
         call' = [call EXCEPT ![t] = [context |-> c, src |-> src, dst |-> dst,
                                      count |-> count, inverse |-> inverse]],
         fft(t, c, src, dst, count, inverse)
  PROVE  IInv' /\ Stores(dst, 0..(count - 1))
<1> DEFINE a == [context |-> c, src |-> src, dst |-> dst, count |-> count,
                 inverse |-> inverse]
           S == FramesOf(a)
<1>1. ContextsOK /\ MemOK /\ StacksOK /\ CallsOK /\ Separate /\ count \in Nat
  BY CallerAssumption DEF IInv
<1>2. call[t] = NoCall /\ stack[t] = << >>
  BY <1>1, NoFrames DEF MayCall
<1>3. HasTable(c, inverse) /\ context[c].maxCount = MaxCount[c]
  BY <1>1, ContextFacts
<1>4. /\ isPowerOfTwo(count) /\ count <= context[c].maxCount /\ src # dst
      /\ count <= BufLen[src] /\ count <= BufLen[dst]
  BY DEF MayCall
<1>5. a \in Args /\ a # NoCall
  <2>1. a \in Args
    BY <1>1 DEF Args
  <2> QED BY <2>1, CallerAssumption
<1>6. call' \in [Threads -> Args \cup {NoCall}] /\ call'[t] = a
      /\ \A u \in Threads \ {t} : call'[u] = call[u]
  <2>1. call \in [Threads -> Args \cup {NoCall}] /\ call' = [call EXCEPT ![t] = a]
    BY <1>1 DEF CallsOK
  <2> HIDE DEF a
  <2> QED BY <1>5, <2>1
<1>7. \A g \in OKFrames : Serves(g) = a => g \in S
  BY DEF FramesOf
<1>8. StackOf(t, S) /\ UNCHANGED context /\ Stores(dst, 0..(count - 1))
  <2>1. a = [context |-> c, src |-> src, dst |-> dst, count |-> count,
             inverse |-> inverse]
    OBVIOUS
  <2> HIDE DEF a, S
  <2> QED BY <1>1, <1>2, <1>3, <1>4, <1>7, <2>1, FftOK, SMTT(60)
<1>9. CallOK(a)
  BY <1>3, <1>4 DEF CallOK
<1>10. a.src = src /\ a.dst = dst
  OBVIOUS
<1>11. \A u \in Threads : call[u] # NoCall =>
         dst \notin {call[u].src, call[u].dst} /\ src # call[u].dst
  BY DEF MayCall
<1> HIDE DEF a
<1>12. MemOK'
  BY <1>1, <1>8, StoresKeepsMem
<1>13. ContextsOK'
  BY <1>1, <1>8 DEF ContextsOK
<1>14. StacksOK'
  <2>1. StackOf(t, FramesOf(call'[t])) /\ stack[t] \in Seq(FramesOf(call'[t]))
    BY <1>2, <1>6, <1>8
  <2> HIDE DEF S
  <2> QED BY <1>1, <1>6, <1>8, <2>1, StackStep
<1>15. CallsOK'
  BY <1>1, <1>6, <1>9 DEF CallsOK, CallOK
<1>16. Separate'
  BY <1>1, <1>6, <1>10, <1>11 DEF Separate
<1> QED BY <1>8, <1>12, <1>13, <1>14, <1>15, <1>16 DEF IInv

(* A step of the recursion: it goes on working for the thread's call.       *)
LEMMA RecursionStep ==
  ASSUME IInv, NEW t \in Threads, FftStep(t), UNCHANGED call
  PROVE  /\ IInv' /\ call[t] # NoCall /\ stack[t] # << >>
         /\ call[t].dst \in Buffers
         /\ Stores(call[t].dst, 0..(call[t].count - 1))
<1> DEFINE S == FramesOf(call[t])
<1>1. ContextsOK /\ MemOK /\ StacksOK /\ CallsOK /\ Separate
  BY DEF IInv
<1>2. Closed(S) /\ stack[t] \in Seq(S)
  BY <1>1, FramesClosed DEF StacksOK
<1>3. /\ stack[t] # << >> /\ Top(t) \in S \cap OKFrames
      /\ StackOf(t, S) /\ UNCHANGED context
      /\ Stores(Top(t).dst, 0..(Total(Top(t)) - 1))
  <2> HIDE DEF S
  <2> QED BY <1>1, <1>2, FftStepOK
<1>4. Serves(Top(t)) = call[t]
  BY <1>3 DEF FramesOf
<1>5. call[t] \in Args /\ call[t] # NoCall
  BY <1>3, <1>4, ServesArgs
<1>6. call[t].dst = Top(t).dst /\ call[t].count = Total(Top(t))
  BY <1>4 DEF Serves
<1>7. call[t].dst \in Buffers
  BY <1>5 DEF Args
<1>8. Stores(call[t].dst, 0..(call[t].count - 1))
  BY <1>3, <1>6
<1>9. MemOK'
  BY <1>1, <1>7, <1>8, StoresKeepsMem
<1>10. ContextsOK'
  BY <1>1, <1>3 DEF ContextsOK
<1>11. StacksOK'
  BY <1>1, <1>2, <1>3, StackStep
<1>12. CallsOK' /\ Separate'
  BY <1>1 DEF CallsOK, CallOK, Separate
<1> QED BY <1>3, <1>5, <1>7, <1>8, <1>9, <1>10, <1>11, <1>12 DEF IInv

(* What the operations rely on holds whenever one of them runs.             *)
THEOREM InductiveInvariant == Spec => []IInv
<1>1. IInv /\ [Next]_vars => IInv'
  <2> SUFFICES ASSUME IInv, [Next]_vars PROVE IInv'
    OBVIOUS
  <2>1. ASSUME NEW t \in Threads, Call(t) PROVE IInv'
    BY <2>1, CallStep DEF Call
  <2>2. ASSUME NEW t \in Threads, Step(t) PROVE IInv'
    BY <2>2, RecursionStep DEF Step
  <2>3. CASE UNCHANGED vars
    <3> USE <2>3 DEF vars
    <3>1. OKFrames' = OKFrames
      BY FramesUnchanged
    <3>2. StacksOK'
      BY <3>1 DEF IInv, StacksOK, FramesOf
    <3>3. CallsOK' /\ Separate' /\ MemOK' /\ ContextsOK'
      BY DEF IInv, CallsOK, CallOK, Separate, MemOK, ContextsOK
    <3> QED BY <3>2, <3>3 DEF IInv
  <2> QED BY <2>1, <2>2, <2>3 DEF Next
<1> QED BY InitIInv, <1>1, PTL DEF Spec

-----------------------------------------------------------------------------
(* The tables of the contexts hold complex numbers.                         *)
LEMMA ContextType ==
  ASSUME ContextsOK, NEW c \in Contexts
  PROVE  LET Table == [0..(context[c].maxCount - 1) -> CkFftComplex]
         IN  context[c] \in [neon: {Neon[c]}, maxCount: {MaxCount[c]},
                            fwdExpTable: Table, invExpTable: Table]
<1> DEFINE n == MaxCount[c]
           T == [0..(n - 1) -> CkFftComplex]
<1>1. context[c].maxCount = n /\ HasTable(c, FALSE) /\ HasTable(c, TRUE)
  BY ContextFacts
<1>2. TableOf(c, FALSE) \in T /\ TableOf(c, TRUE) \in T
  BY <1>1, TableType
<1>3. context[c].fwdExpTable \in T /\ context[c].invExpTable \in T
  BY <1>2 DEF TableOf
<1>4. context[c] = [neon |-> Neon[c], maxCount |-> n,
                    fwdExpTable |-> context[c].fwdExpTable,
                    invExpTable |-> context[c].invExpTable]
  <2>1. context[c] = NewContext(n, Neon[c])
    BY ContextFacts
  <2> QED BY <2>1 DEF NewContext
<1> HIDE DEF T
<1>5. context[c] \in [neon: {Neon[c]}, maxCount: {n}, fwdExpTable: T, invExpTable: T]
  BY <1>3, <1>4
<1> QED BY <1>1, <1>5 DEF T

(* Whatever the threads do, the state keeps the shape the code gives it.    *)
THEOREM TypeCorrect == Spec => []TypeOK
<1>1. IInv => TypeOK
  <2> SUFFICES ASSUME IInv PROVE TypeOK
    OBVIOUS
  <2>1. ContextsOK /\ MemOK /\ StacksOK /\ CallsOK
    BY DEF IInv
  <2>2. DOMAIN context = Contexts
    BY <2>1 DEF ContextsOK
  <2>3. DOMAIN mem = Buffers
        /\ \A b \in Buffers : mem[b] \in [0..(BufLen[b] - 1) -> CkFftComplex]
    BY <2>1 DEF MemOK, BufferType
  <2> QED BY <2>1, <2>2, <2>3, ContextType DEF TypeOK, StacksOK, CallsOK
<1> QED BY <1>1, InductiveInvariant, PTL

(* No call of fft_default or fft_neon ever points outside the input, the    *)
(* output or the table of twiddle factors, for every count and maxCount.    *)
THEOREM MemorySafe == Spec => []InBounds
<1>1. IInv => InBounds
  <2> SUFFICES ASSUME IInv, NEW t \in Threads, NEW d \in 1..Len(stack[t])
               PROVE  FrameInBounds(call[t].count, stack[t][d])
    BY DEF InBounds
  <2> DEFINE f == stack[t][d]
  <2>1. stack[t] \in Seq(FramesOf(call[t])) /\ ContextsOK
    BY DEF IInv, StacksOK
  <2>2. f \in OKFrames /\ Serves(f) = call[t]
    BY <2>1 DEF FramesOf
  <2>3. Total(f) = call[t].count
    BY <2>2 DEF Serves
  <2> HIDE DEF f
  <2>4. /\ f.context \in Contexts /\ f.count \in Nat /\ FrameOK(f)
    BY <2>2, FrameFields
  <2>5. context[f.context].maxCount = MaxCount[f.context]
    BY <2>1, <2>4, ContextFacts
  <2>6. f.count % 4 = 0 /\ Passed(f) <= f.count \div 4
    BY <2>4, PowerOfTwoQuarter DEF FrameOK
  <2>7. \A j \in 0..(f.count - 1) :
          InIdx(f, j) \in 0..(Total(f) - 1) /\ OutIdx(f, j) \in 0..(Total(f) - 1)
    BY <2>2, PointersInBounds
  <2>8. ASSUME NEW i \in 0..(f.count \div 4 - 1), NEW m \in 0..3
        PROVE  ExpIdx(f, i, m) \in 0..(MaxCount[f.context] - 1)
    <3>1. i \in Nat /\ i < f.count \div 4
      BY <2>4
    <3> QED BY <2>2, <2>5, <3>1, ExpInBounds
  <2>9. FrameInBounds(call[t].count, f)
    BY <2>3, <2>6, <2>7, <2>8 DEF FrameInBounds
  <2> QED BY <2>9 DEF f
<1> QED BY <1>1, InductiveInvariant, PTL

(* Threads that share contexts and inputs do not disturb one another.       *)
THEOREM ThreadsIsolated == Spec => NoInterference
<1>1. IInv /\ [Next]_vars => [\A t \in Threads : CallUntouched(t)]_vars
  <2> SUFFICES ASSUME IInv, Next, NEW u \in Threads, call[u] # NoCall
               PROVE  /\ mem'[call[u].src] = mem[call[u].src]
                      /\ Returned(u) => mem'[call[u].dst] = mem[call[u].dst]
    BY DEF CallUntouched
  <2>1. call[u] \in Args /\ CallOK(call[u]) /\ MemOK
    BY DEF IInv, CallsOK
  <2>2. call[u].src \in Buffers /\ call[u].dst \in Buffers
    BY <2>1 DEF Args
  <2>3. ASSUME NEW b \in Buffers, NEW R, Stores(b, R),
               b # call[u].src, Returned(u) => b # call[u].dst
        PROVE  /\ mem'[call[u].src] = mem[call[u].src]
               /\ Returned(u) => mem'[call[u].dst] = mem[call[u].dst]
    BY <2>1, <2>2, <2>3, StoresKeepsMem
  <2>4. ASSUME NEW t \in Threads, Step(t)
        PROVE  /\ mem'[call[u].src] = mem[call[u].src]
               /\ Returned(u) => mem'[call[u].dst] = mem[call[u].dst]
    <3>1. /\ call[t] # NoCall /\ stack[t] # << >> /\ call[t].dst \in Buffers
          /\ Stores(call[t].dst, 0..(call[t].count - 1))
      BY <2>4, RecursionStep DEF Step
    <3>2. call[t].dst # call[u].src /\ (Returned(u) => call[t].dst # call[u].dst)
      <4>1. CASE t = u
        BY <2>1, <3>1, <4>1 DEF CallOK, Returned
      <4>2. CASE t # u
        BY <3>1, <4>2 DEF IInv, Separate
      <4> QED BY <4>1, <4>2
    <3> QED BY <2>3, <3>1, <3>2
  <2>5. ASSUME NEW t \in Threads, Call(t)
        PROVE  /\ mem'[call[u].src] = mem[call[u].src]
               /\ Returned(u) => mem'[call[u].dst] = mem[call[u].dst]
    <3>1. PICK c \in Contexts, src \in Buffers, dst \in Buffers, count \in Counts,
               inverse \in BOOLEAN :
            /\ MayCall(t, c, src, dst, count)
            /\ call' = [call EXCEPT ![t] = [context |-> c, src |-> src, dst |-> dst,
                                            count |-> count, inverse |-> inverse]]
            /\ fft(t, c, src, dst, count, inverse)
      BY <2>5 DEF Call
    <3>2. Stores(dst, 0..(count - 1))
      BY <3>1, CallStep
    <3>3. dst # call[u].src /\ dst # call[u].dst
      BY <3>1 DEF MayCall
    <3> QED BY <2>3, <3>2, <3>3
  <2> QED BY <2>4, <2>5 DEF Next
<1> QED BY <1>1, InductiveInvariant, PTL DEF Spec, NoInterference

-----------------------------------------------------------------------------
(***************************************************************************)
(* What the results rely on besides the code.  The circle of the model has  *)
(* the angles of the tables, 2*pi/maxCount; and no context says NEON in a   *)
(* build without it, where fft_neon is an empty function.                   *)
(***************************************************************************)
AnglesExact == \A c \in Contexts : Divisor(MaxCount[c])

NeonBuilt == \A c \in Contexts : Neon[c] => ArmNeon

(***************************************************************************)
(* The inductive invariant: a thread in a call is on its way to the result  *)
(* or has it.                                                               *)
(***************************************************************************)
OnItsWay(s, a, x, y) ==
  IF s = << >> THEN HasResult(a.count, a.inverse, x, y) ELSE Progress(s, 0, x, y)

Results ==
  \A t \in Threads : call[t] # NoCall =>
    OnItsWay(stack[t], call[t], mem[call[t].src], mem[call[t].dst])

(* A thread in a call is on its way to the result of that call.             *)
LEMMA ThreadWorking ==
  ASSUME IInv, Results, AnglesExact, NEW t \in Threads, call[t] # NoCall, stack[t] # << >>
  PROVE  /\ Working(OKFrames, t, 0, call[t].src, call[t].dst) /\ Len(stack[t]) > 0
         /\ Top(t) \in OKFrames /\ Serves(Top(t)) = call[t]
<1>1. /\ stack \in [Threads -> Seq(Frame)] /\ stack[t] \in Seq(FramesOf(call[t]))
      /\ ContextsOK
  BY DEF IInv, StacksOK
<1>2. stack[t] \in Seq(OKFrames)
  BY <1>1, FramesClosed
<1>3. Progress(stack[t], 0, mem[call[t].src], mem[call[t].dst])
  BY DEF Results, OnItsWay
<1>4. ASSUME NEW d \in 1..Len(stack[t])
      PROVE  /\ stack[t][d].src = call[t].src /\ stack[t][d].dst = call[t].dst
             /\ ExactTable(stack[t][d])
  <2> DEFINE f == stack[t][d]
  <2>1. f \in OKFrames /\ Serves(f) = call[t]
    BY <1>1 DEF FramesOf
  <2>2. f.src = call[t].src /\ f.dst = call[t].dst
    BY <2>1 DEF Serves
  <2> HIDE DEF f
  <2>3. f.context \in Contexts
    BY <2>1, FrameFields
  <2>4. ExactTable(f)
    BY <1>1, <2>3, ContextFacts DEF ExactTable, AnglesExact
  <2> QED BY <2>2, <2>4 DEF f
<1>5. Top(t) \in FramesOf(call[t])
  BY <1>1, TopInStack
<1>6. Top(t) \in OKFrames /\ Serves(Top(t)) = call[t]
  BY <1>5 DEF FramesOf
<1>7. t \in DOMAIN stack
  BY <1>1
<1>8. Len(stack[t]) > 0 /\ 0 \in 0..Len(stack[t]) /\ (0 + 1)..Len(stack[t]) = 1..Len(stack[t])
  BY <1>2
<1>9. Recursion(OKFrames, stack[t], 0)
  BY <1>2, <1>8 DEF Recursion
<1> QED BY <1>3, <1>4, <1>6, <1>7, <1>8, <1>9 DEF Working

(* A step of the recursion brings its own thread nearer to the result.      *)
LEMMA OwnResult ==
  ASSUME IInv, Results, AnglesExact, NEW t \in Threads, FftStep(t), UNCHANGED call,
         call[t] # NoCall, stack[t] # << >>, mem'[call[t].src] = mem[call[t].src]
  PROVE  OnItsWay(stack'[t], call[t], mem'[call[t].src], mem'[call[t].dst])
<1> DEFINE a == call[t]
           x == mem[a.src]
           y == mem'[a.dst]
           f == Top(t)
<1>1. /\ Working(OKFrames, t, 0, a.src, a.dst) /\ Len(stack[t]) > 0
      /\ f \in OKFrames /\ Serves(f) = a
  BY ThreadWorking
<1>2. MemOK
  BY DEF IInv
<1>3. After(t, 0, x, y) /\ f = stack[t][Len(stack[t])]
  BY <1>1, <1>2, FftStepResult, TopWorking
<1>4. mem'[a.src] = x
  OBVIOUS
<1>5. CASE stack'[t] = << >>
  <2>1. FirstCall(f) /\ Done(f, x, y)
    <3>1. Len(stack'[t]) = 0
      BY <1>5
    <3> QED BY <1>3, <3>1 DEF After, AfterStack
  <2>2. f.count = a.count /\ f.inverse = a.inverse
    <3>1. Total(f) = a.count /\ f.inverse = a.inverse
      BY <1>1 DEF Serves
    <3>2. f.stride = 1 /\ f.count \in Nat
      BY <1>1, <2>1, FrameFields DEF FirstCall
    <3> QED BY <3>1, <3>2 DEF Total
  <2> HIDE DEF f, a, x, y
  <2>3. HasResult(f.count, f.inverse, x, y)
    BY <1>1, <2>1, FirstResult
  <2>4. HasResult(a.count, a.inverse, x, y)
    BY <2>2, <2>3
  <2>5. OnItsWay(stack'[t], a, x, y)
    BY <1>5, <2>4 DEF OnItsWay
  <2> QED BY <1>4, <2>5 DEF a, y
<1>6. CASE stack'[t] # << >>
  <2>1. Progress(stack'[t], 0, x, y)
    <3>1. Len(stack'[t]) # 0
      <4>1. Closed(FramesOf(call[t])) /\ stack[t] \in Seq(FramesOf(call[t]))
            /\ stack \in [Threads -> Seq(Frame)]
        BY FramesClosed DEF IInv, StacksOK
      <4>2. PICK s \in Seq(FramesOf(call[t])) : stack'[t] = s
        BY <1>2, <4>1, FftStepOK DEF StackOf
      <4> QED BY <1>6, <4>2
    <3> QED BY <1>3, <3>1 DEF After, AfterStack
  <2> HIDE DEF x, y
  <2>2. OnItsWay(stack'[t], a, x, y)
    BY <1>6, <2>1 DEF OnItsWay
  <2> QED BY <1>4, <2>2 DEF y
<1> QED BY <1>5, <1>6

(* A call begins.                                                           *)
LEMMA CallResult ==
  ASSUME IInv, AnglesExact, NeonBuilt, NEW t \in Threads,
         NEW c \in Contexts, NEW src \in Buffers, NEW dst \in Buffers,
         NEW count \in Counts, NEW inverse \in BOOLEAN, NEW a,
         MayCall(t, c, src, dst, count), fft(t, c, src, dst, count, inverse),
         a.count = count, a.inverse = inverse
  PROVE  OnItsWay(stack'[t], a, mem'[src], mem'[dst])
<1>1. ContextsOK /\ MemOK /\ StacksOK /\ count \in Nat
  BY CallerAssumption DEF IInv
<1>2. stack[t] = << >> /\ stack \in [Threads -> Seq(Frame)]
  BY <1>1, NoFrames DEF MayCall, StacksOK
<1>3. context[c].neon = Neon[c]
  <2>1. context[c] = NewContext(MaxCount[c], Neon[c])
    BY <1>1, ContextFacts
  <2> QED BY <2>1 DEF NewContext
<1>4. CASE count \in {1, 2} /\ mem' = FftTrivial(src, dst, count) /\ UNCHANGED stack
  <2>1. HasResult(count, inverse, mem'[src], mem'[dst])
    <3>1. src # dst /\ count <= BufLen[src] /\ count <= BufLen[dst]
      BY DEF MayCall
    <3>2. count \in {1, 2} /\ mem' = FftTrivial(src, dst, count)
      BY <1>4
    <3> QED BY <1>1, <3>1, <3>2, TrivialRight
  <2> QED BY <1>2, <1>4, <2>1 DEF OnItsWay
<1>5. CASE \E fn \in {"fft_default", "fft_neon"} :
             stack' = [stack EXCEPT ![t] =
                         Append(@, FftCall(fn, c, src, dst, count, inverse))]
  <2>1. PICK fn \in {"fft_default", "fft_neon"} :
          stack' = [stack EXCEPT ![t] =
                      Append(@, FftCall(fn, c, src, dst, count, inverse))]
    BY <1>5
  <2> DEFINE f == FftCall(fn, c, src, dst, count, inverse)
  <2>2. stack'[t] = Append(<< >>, f)
    BY <1>2, <2>1
  <2>3. Append(<< >>, f) = <<f>> /\ <<f>> # << >>
    <3> HIDE DEF f
    <3>1. Len(<<f>>) = 1 /\ Len(<< >>) = 0
      OBVIOUS
    <3>2. Append(<< >>, f) = <<f>>
      OBVIOUS
    <3> QED BY <3>1, <3>2
  <2>4. Progress(<<f>>, 0, mem'[src], mem'[dst])
    <3>1. Len(<<f>>) = 0 + 1 /\ <<f>>[0 + 1] = f
      OBVIOUS
    <3> QED BY <3>1, ProgressStart
  <2> HIDE DEF f
  <2> QED BY <2>2, <2>3, <2>4 DEF OnItsWay
<1>6. ASSUME count \notin {1, 2}
      PROVE  \E fn \in {"fft_default", "fft_neon"} :
               stack' = [stack EXCEPT ![t] =
                           Append(@, FftCall(fn, c, src, dst, count, inverse))]
  <2>1. CASE Neon[c]
    <3>1. ArmNeon /\ fft_neon(t, c, src, dst, count, inverse)
      BY <1>3, <1>6, <2>1 DEF fft, NeonBuilt
    <3> QED BY <3>1 DEF fft_neon
  <2>2. CASE ~Neon[c]
    <3>1. fft_default(t, c, src, dst, count, inverse)
      BY <1>3, <1>6, <2>2 DEF fft
    <3> QED BY <3>1 DEF fft_default
  <2> QED BY <2>1, <2>2
<1>7. count \in {1, 2} => mem' = FftTrivial(src, dst, count) /\ UNCHANGED stack
  BY DEF fft
<1> QED BY <1>4, <1>5, <1>6, <1>7

(* What one thread stores and stacks is nothing to the others.              *)
LEMMA OthersResults ==
  ASSUME IInv, Results, NEW t \in Threads, NEW b \in Buffers, NEW R, Stores(b, R),
         NEW u \in Threads, u # t, call'[u] = call[u], stack'[u] = stack[u],
         call[u] # NoCall, b \notin {call[u].src, call[u].dst}
  PROVE  OnItsWay(stack'[u], call[u], mem'[call[u].src], mem'[call[u].dst])
<1>1. MemOK /\ call[u] \in Args
  BY DEF IInv, CallsOK
<1>2. call[u].src \in Buffers /\ call[u].dst \in Buffers
  BY <1>1 DEF Args
<1>3. mem'[call[u].src] = mem[call[u].src] /\ mem'[call[u].dst] = mem[call[u].dst]
  BY <1>1, <1>2, StoresKeepsMem
<1>4. OnItsWay(stack[u], call[u], mem[call[u].src], mem[call[u].dst])
  BY DEF Results
<1> QED BY <1>3, <1>4

(* A step of the recursion of one thread keeps the results of all.          *)
LEMMA StepResults ==
  ASSUME IInv, Results, AnglesExact, NEW t \in Threads, Step(t)
  PROVE  Results'
<1>1. FftStep(t) /\ UNCHANGED call
  BY DEF Step
<1>2. /\ call[t] # NoCall /\ stack[t] # << >> /\ call[t].dst \in Buffers
      /\ Stores(call[t].dst, 0..(call[t].count - 1))
  BY <1>1, RecursionStep
<1>3. \A u \in Threads \ {t} : stack'[u] = stack[u]
  <2>1. Closed(FramesOf(call[t])) /\ stack[t] \in Seq(FramesOf(call[t])) /\ MemOK
        /\ stack \in [Threads -> Seq(Frame)]
    BY FramesClosed DEF IInv, StacksOK
  <2> QED BY <1>1, <2>1, FftStepOK DEF StackOf
<1>4. ASSUME NEW u \in Threads, call'[u] # NoCall
      PROVE  OnItsWay(stack'[u], call'[u], mem'[call'[u].src], mem'[call'[u].dst])
  <2>1. call'[u] = call[u] /\ call[u] # NoCall
    BY <1>1, <1>4
  <2>2. CASE u = t
    <3>1. call[t].src \in Buffers /\ call[t].src # call[t].dst /\ MemOK
      BY <1>2 DEF IInv, CallsOK, CallOK, Args
    <3>2. mem'[call[t].src] = mem[call[t].src]
      BY <1>2, <3>1, StoresKeepsMem
    <3> QED BY <1>1, <1>2, <2>1, <2>2, <3>2, OwnResult
  <2>3. CASE u # t
    <3>1. call[t].dst \notin {call[u].src, call[u].dst}
      BY <1>2, <2>1, <2>3 DEF IInv, Separate
    <3>2. OnItsWay(stack'[u], call[u], mem'[call[u].src], mem'[call[u].dst])
      BY <1>2, <1>3, <2>1, <2>3, <3>1, OthersResults
    <3> QED BY <2>1, <3>2
  <2> QED BY <2>2, <2>3
<1> QED BY <1>4 DEF Results

(* So does a call of fft().                                                 *)
LEMMA CallResults ==
  ASSUME IInv, Results, AnglesExact, NeonBuilt, NEW t \in Threads, Call(t)
  PROVE  Results'
<1>1. PICK c \in Contexts, src \in Buffers, dst \in Buffers, count \in Counts,
           inverse \in BOOLEAN :
        /\ MayCall(t, c, src, dst, count)
        /\ call' = [call EXCEPT ![t] = [context |-> c, src |-> src, dst |-> dst,
                                        count |-> count, inverse |-> inverse]]
        /\ fft(t, c, src, dst, count, inverse)
  BY DEF Call
<1> DEFINE a == [context |-> c, src |-> src, dst |-> dst, count |-> count,
                 inverse |-> inverse]
<1>2. Stores(dst, 0..(count - 1))
  BY <1>1, CallStep
<1>3. call \in [Threads -> Args \cup {NoCall}] /\ stack \in [Threads -> Seq(Frame)]
  BY DEF IInv, CallsOK, StacksOK
<1>4. /\ a.src = src /\ a.dst = dst /\ a.count = count /\ a.inverse = inverse
      /\ call' = [call EXCEPT ![t] = a]
  BY <1>1
<1> HIDE DEF a
<1>5. \A u \in Threads \ {t} : stack'[u] = stack[u]
  BY <1>1, <1>3 DEF fft, fft_neon, fft_default
<1>6. OnItsWay(stack'[t], a, mem'[src], mem'[dst])
  BY <1>1, <1>4, CallResult
<1>7. ASSUME NEW u \in Threads, call'[u] # NoCall
      PROVE  OnItsWay(stack'[u], call'[u], mem'[call'[u].src], mem'[call'[u].dst])
  <2>1. CASE u = t
    <3>1. call'[u] = a
      BY <1>3, <1>4, <2>1
    <3> QED BY <1>4, <1>6, <2>1, <3>1
  <2>2. CASE u # t
    <3>1. call'[u] = call[u] /\ call[u] # NoCall
      BY <1>3, <1>4, <1>7, <2>2
    <3>2. dst \notin {call[u].src, call[u].dst}
      BY <1>1, <3>1 DEF MayCall
    <3>3. OnItsWay(stack'[u], call[u], mem'[call[u].src], mem'[call[u].dst])
      BY <1>2, <1>5, <2>2, <3>1, <3>2, OthersResults
    <3> QED BY <3>1, <3>3
  <2> QED BY <2>1, <2>2
<1> QED BY <1>7 DEF Results

(* Every thread in a call is on its way to the result or has it.            *)
LEMMA InductiveResults ==
  ASSUME AnglesExact, NeonBuilt
  PROVE  Spec => [](IInv /\ Results)
<1>1. Init => Results
  BY DEF Init, Results
<1>2. IInv /\ Results /\ [Next]_vars => Results'
  <2> SUFFICES ASSUME IInv, Results, [Next]_vars PROVE Results'
    OBVIOUS
  <2>1. CASE UNCHANGED vars
    <3>1. stack' = stack /\ call' = call /\ mem' = mem
      BY <2>1 DEF vars
    <3> QED BY <3>1 DEF Results
  <2>2. ASSUME NEW t \in Threads, Call(t) PROVE Results'
    BY <2>2, CallResults
  <2>3. ASSUME NEW t \in Threads, Step(t) PROVE Results'
    BY <2>3, StepResults
  <2> QED BY <2>1, <2>2, <2>3 DEF Next
<1> QED BY <1>1, <1>2, InductiveInvariant, PTL DEF Spec

(***************************************************************************)
(* When a call has returned, its output is the transform of its input: for  *)
(* every count and maxCount, in both directions, on any number of threads,  *)
(* in plain C++ and in NEON vectors, as long as the angles of the tables    *)
(* are exact and the contexts say NEON only where it is built.              *)
(***************************************************************************)
THEOREM TransformCorrect ==
  ASSUME AnglesExact, NeonBuilt
  PROVE  Spec => []Correctness
<1>1. IInv /\ Results => Correctness
  <2> SUFFICES ASSUME Results, NEW t \in Threads, Returned(t)
               PROVE  LET n == call[t].count
                          X == DFT([j \in 0..(n - 1) |-> mem[call[t].src][j]], n,
                                   call[t].inverse)
                      IN  \A j \in 0..(n - 1) : mem[call[t].dst][j] = X[j]
    BY DEF Correctness
  <2>1. call[t] # NoCall /\ stack[t] = << >>
    BY DEF Returned
  <2>2. HasResult(call[t].count, call[t].inverse, mem[call[t].src], mem[call[t].dst])
    BY <2>1 DEF Results, OnItsWay
  <2> QED BY <2>2 DEF HasResult
<1> QED BY <1>1, InductiveResults, PTL

(* What the loop of butterflies has done so far, in the words of FftClient. *)
LEMMA LoopWords ==
  ASSUME MemOK, NEW f \in OKFrames, NEW r \in 0..4,
         LoopOK(f, r, mem[f.src], mem[f.dst])
  PROVE  LET n == f.count \div 4
             whole == DFT([j \in 0..(f.count - 1) |-> In(f, j)], f.count, f.inverse)
             quarter(q) == DFT([j \in 0..(n - 1) |-> In(f, 4 * j + q)], n, f.inverse)
         IN  /\ \A q \in 0..(r - 1) :
                  LET X == quarter(q)
                  IN  \A j \in Passed(f)..(n - 1) : Out(f, q * n + j) = X[j]
             /\ \A j \in 0..(Passed(f) - 1), m \in 0..3 :
                  Out(f, j + m * n) = whole[j + m * n]
<1> DEFINE n == f.count \div 4
           x == mem[f.src]
           y == mem[f.dst]
<1>1. n \in Nat \ {0} /\ f.count = 4 * n
  <2>1. IsQuarter(f, n)
    BY DEF IsQuarter
  <2> HIDE DEF n
  <2> QED BY <2>1, QuarterNat
<1>2. \A q, j : Out(f, q * n + j) = y[OutAt(f, q, j)]
  BY DEF Out, OutAt
<1>3. /\ \A q \in 0..(r - 1), j \in Passed(f)..(n - 1) : y[OutAt(f, q, j)] = Quarter(f, q, x)[j]
      /\ \A q \in 0..3, j \in 0..(Passed(f) - 1) : y[OutAt(f, q, j)] = Result(f, x)[q * n + j]
  BY DEF LoopOK
<1>4. \A j \in 0..(f.count - 1) : Input(f, x)[j] = In(f, j)
  BY InputType
<1>5. Result(f, x) = DFT([j \in 0..(f.count - 1) |-> In(f, j)], f.count, f.inverse)
  BY DEF Result, Input, In
<1>6. ASSUME NEW q \in 0..3
      PROVE  Quarter(f, q, x) = DFT([j \in 0..(n - 1) |-> In(f, 4 * j + q)], n, f.inverse)
  <2>1. \A j \in 0..(n - 1) : Input(f, x)[4 * j + q] = In(f, 4 * j + q)
    <3> TAKE j \in 0..(n - 1)
    <3>1. 4 * j + q \in 0..(f.count - 1)
      <4> HIDE DEF n
      <4> QED BY <1>1
    <3> QED BY <1>4, <3>1
  <2>2. Every4th(Input(f, x), q, n) = [j \in 0..(n - 1) |-> In(f, 4 * j + q)]
    <3> HIDE DEF n, x
    <3> QED BY <2>1 DEF Every4th
  <2> QED BY <2>2 DEF Quarter
<1>7. Passed(f) \in Nat
  BY FrameFields DEF Passed
<1> HIDE DEF n, x, y
<1>8. ASSUME NEW j \in 0..(Passed(f) - 1), NEW m \in 0..3
      PROVE  Out(f, j + m * n) = Result(f, x)[j + m * n]
  <2>1. j + m * n = m * n + j
    BY <1>1, <1>7
  <2> QED BY <1>2, <1>3, <2>1
<1>9. ASSUME NEW q \in 0..(r - 1), NEW j \in Passed(f)..(n - 1)
      PROVE  Out(f, q * n + j) = DFT([i \in 0..(n - 1) |-> In(f, 4 * i + q)], n, f.inverse)[j]
  <2>1. q \in 0..3
    OBVIOUS
  <2>2. Out(f, q * n + j) = Quarter(f, q, x)[j]
    BY <1>2, <1>3
  <2>3. Quarter(f, q, x) = DFT([i \in 0..(n - 1) |-> In(f, 4 * i + q)], n, f.inverse)
    BY <1>6, <2>1
  <2> QED BY <2>2, <2>3
<1> QED BY <1>5, <1>8, <1>9 DEF n

(***************************************************************************)
(* At every moment of every call, the quarters whose recursive calls have   *)
(* returned are transformed, and the elements that the loop of butterflies  *)
(* has passed are those of the whole transform.                             *)
(***************************************************************************)
THEOREM LoopInvariant ==
  ASSUME AnglesExact, NeonBuilt
  PROVE  Spec => []PartialResults
<1>1. IInv /\ Results => PartialResults
  <2> SUFFICES ASSUME IInv, Results PROVE PartialResults
    OBVIOUS
  <2>1. ASSUME NEW t \in Threads, NEW d \in 1..Len(stack[t])
        PROVE  LET f == stack[t][d]
                   n == f.count \div 4
                   returned == IF d = Len(stack[t]) THEN f.k ELSE f.k - 1
                   whole == DFT([j \in 0..(f.count - 1) |-> In(f, j)], f.count, f.inverse)
                   quarter(q) == DFT([j \in 0..(n - 1) |-> In(f, 4 * j + q)], n, f.inverse)
               IN  /\ Passed(f) < n => \A q \in 0..(returned - 1) :
                        LET X == quarter(q)
                        IN  \A j \in Passed(f)..(n - 1) : Out(f, q * n + j) = X[j]
                   /\ f.i > 0 => \A j \in 0..(Passed(f) - 1), m \in 0..3 :
                        Out(f, j + m * n) = whole[j + m * n]
    <3> DEFINE f == stack[t][d]
               r == IF d = Len(stack[t]) THEN f.k ELSE f.k - 1
    <3>1. stack[t] \in Seq(FramesOf(call[t])) /\ MemOK
      BY DEF IInv, StacksOK
    <3>2. f \in OKFrames /\ Serves(f) = call[t] /\ call[t] # NoCall
      BY <3>1, ServesArgs DEF FramesOf
    <3>3. f.src = call[t].src /\ f.dst = call[t].dst
      BY <3>2 DEF Serves
    <3>4. stack[t] # << >> /\ Len(stack[t]) \in Nat
      BY <3>1
    <3>5. Progress(stack[t], 0, mem[f.src], mem[f.dst]) /\ Len(stack[t]) > 0
      BY <3>2, <3>3, <3>4 DEF Results, OnItsWay
    <3>6. r \in 0..4 /\ LoopOK(f, r, mem[f.src], mem[f.dst])
      <4>1. CASE d = Len(stack[t])
        <5>1. r = f.k /\ f.k \in 0..4
          BY <3>2, <4>1, FrameFields
        <5> QED BY <3>4, <3>5, <4>1, <5>1 DEF Progress
      <4>2. CASE d # Len(stack[t])
        <5>1. d \in 1..(Len(stack[t]) - 1) /\ r = f.k - 1
          BY <3>4, <4>2
        <5>2. Waiting(f, stack[t][d + 1], mem[f.src], mem[f.dst])
          BY <3>5, <5>1 DEF Progress
        <5> QED BY <5>1, <5>2 DEF Waiting
      <4> QED BY <4>1, <4>2
    <3> QED BY <3>1, <3>2, <3>6, LoopWords
  <2> QED BY <2>1 DEF PartialResults
<1> QED BY <1>1, InductiveResults, PTL

-----------------------------------------------------------------------------
(***************************************************************************)
(* The strides of the calls on a stack are the powers of 4: the invariant   *)
(* that bounds the recursion, as the stride times the count of every call   *)
(* is the count of the first.                                               *)
(***************************************************************************)
StridesOf(s) ==
  \A d \in 1..Len(s) : s[d].stride = IF d = 1 THEN 1 ELSE 4 * s[d - 1].stride

Strides == \A t \in Threads : StridesOf(stack[t])

IsPower(f, n) == f = [j \in 0..n |-> IF j = 0 THEN 1 ELSE 4 * f[j - 1]]

(* The powers of 4 are what any function with their recursion says.         *)
LEMMA PowerIs ==
  ASSUME NEW n \in Nat, NEW f, IsPower(f, n)
  PROVE  PowerOf4(n) = f[n]
<1> DEFINE g == CHOOSE h : IsPower(h, n)
<1>1. IsPower(g, n)
  OBVIOUS
<1>2. PowerOf4(n) = g[n]
  BY DEF PowerOf4, IsPower
<1> HIDE DEF g
<1>3. /\ \A j \in 0..n : f[j] = IF j = 0 THEN 1 ELSE 4 * f[j - 1]
      /\ \A j \in 0..n : g[j] = IF j = 0 THEN 1 ELSE 4 * g[j - 1]
  <2>1. \A h : IsPower(h, n) => \A j \in 0..n : h[j] = IF j = 0 THEN 1 ELSE 4 * h[j - 1]
    BY DEF IsPower
  <2> QED BY <1>1, <2>1
<1> DEFINE S == {j \in Nat : j <= n => f[j] = g[j]}
<1>4. 0 \in S
  BY <1>3
<1>5. ASSUME NEW j \in S PROVE j + 1 \in S
  <2>1. j \in Nat /\ j + 1 \in Nat
    OBVIOUS
  <2>2. ASSUME j + 1 <= n PROVE f[j + 1] = g[j + 1]
    <3>1. j + 1 \in 0..n /\ j + 1 # 0 /\ (j + 1) - 1 = j /\ j <= n
      BY <2>1, <2>2
    <3>2. f[j] = g[j]
      BY <3>1
    <3> QED BY <1>3, <3>1, <3>2
  <2> QED BY <2>1, <2>2
<1>6. S = Nat
  <2>1. S \in SUBSET Nat
    OBVIOUS
  <2> HIDE DEF S
  <2> QED BY <1>4, <1>5, <2>1, Induction
<1>7. f[n] = g[n]
  BY <1>6
<1> QED BY <1>2, <1>7

(* The steps of a transform do one of three things to the stack.            *)
LEMMA StackSteps ==
  ASSUME NEW t, FftStep(t)
  PROVE  /\ stack[t] # << >>
         /\ Recurse(t) \/ Return(t) \/ \E X : IterationStep(t, X)
<1>1. CASE FftDefaultStep(t)
  BY <1>1 DEF FftDefaultStep, FftDefault4, FftDefault8, FftDefaultRecurse, FftDefaultCombine,
              FftDefaultReturn, General, Combining, Running, LeafStep, ReturnStep
<1>2. CASE FftNeonStep(t)
  BY <1>2 DEF FftNeonStep, FftNeon4, FftNeon8, FftNeonRecurse, FftNeonCombine,
              FftNeonReturn, General, Combining, Running, LeafStep, ReturnStep
<1> QED BY <1>1, <1>2 DEF FftStep

LEMMA StridesStep ==
  ASSUME NEW t \in DOMAIN stack, stack[t] \in Seq(Frame), StridesOf(stack[t]), FftStep(t)
  PROVE  StridesOf(stack'[t])
<1> DEFINE s == stack[t]
           f == Top(t)
<1>1. s # << >> /\ s \in Seq(Frame) /\ Len(s) \in Nat \ {0} /\ f \in Frame /\ f = s[Len(s)]
  BY StackSteps DEF Top
<1>2. \A d \in 1..Len(s) : s[d].stride = IF d = 1 THEN 1 ELSE 4 * s[d - 1].stride
  BY DEF StridesOf
<1>3. f.stride \in Nat
  BY <1>1 DEF Frame
<1>4. CASE Return(t)
  <2>1. stack'[t] = SubSeq(s, 1, Len(s) - 1)
    BY <1>4 DEF Return
  <2> DEFINE r == SubSeq(s, 1, Len(s) - 1)
  <2>2. Len(r) = Len(s) - 1 /\ \A d \in 1..(Len(s) - 1) : r[d] = s[d]
    BY <1>1, PopStack
  <2> HIDE DEF r, s
  <2>3. \A d \in 1..Len(r) : r[d].stride = IF d = 1 THEN 1 ELSE 4 * r[d - 1].stride
    <3> TAKE d \in 1..Len(r)
    <3>1. d \in 1..Len(s) /\ r[d] = s[d] /\ (d # 1 => r[d - 1] = s[d - 1])
      BY <1>1, <2>2
    <3> QED BY <1>2, <3>1
  <2> QED BY <2>1, <2>3 DEF StridesOf, r
<1>5. ASSUME NEW g, g.stride = f.stride
      PROVE  /\ StridesOf(ReplaceTop(s, g))
             /\ \A h : h.stride = f.stride * 4 => StridesOf(Append(ReplaceTop(s, g), h))
  <2> DEFINE r == ReplaceTop(s, g)
             S(h) == Frame \cup {g, h}
  <2>0. ASSUME NEW h
        PROVE  /\ r \in Seq(S(h)) /\ Len(r) = Len(s)
               /\ \A d \in 1..Len(s) : r[d] = IF d = Len(s) THEN g ELSE s[d]
    <3> DEFINE D == S(h)
    <3>1. Frame \subseteq D /\ g \in D
      OBVIOUS
    <3> HIDE DEF D, s
    <3>2. s \in Seq(D)
      BY <1>1, <3>1
    <3>3. /\ r \in Seq(D) /\ Len(r) = Len(s)
          /\ \A d \in 1..Len(s) : r[d] = IF d = Len(s) THEN g ELSE s[d]
      BY <1>1, <3>1, <3>2, UpdateTop
    <3> QED BY <3>3 DEF D
  <2>1. /\ Len(r) = Len(s)
        /\ \A d \in 1..Len(s) : r[d] = IF d = Len(s) THEN g ELSE s[d]
    BY <2>0
  <2> HIDE DEF r, s, f
  <2>2. \A d \in 1..Len(s) : r[d].stride = s[d].stride
    BY <1>1, <1>5, <2>1
  <2>3. \A d \in 1..Len(r) : r[d].stride = IF d = 1 THEN 1 ELSE 4 * r[d - 1].stride
    <3> TAKE d \in 1..Len(r)
    <3>1. d \in 1..Len(s) /\ (d # 1 => d - 1 \in 1..Len(s))
      BY <1>1, <2>1
    <3> QED BY <1>2, <2>2, <3>1
  <2>4. ASSUME NEW h, h.stride = f.stride * 4 PROVE StridesOf(Append(r, h))
    <3> DEFINE q == Append(r, h)
    <3>0. r \in Seq(S(h)) /\ h \in S(h)
      BY <2>0
    <3> HIDE DEF S
    <3>1. /\ Len(q) = Len(r) + 1
          /\ \A d \in 1..(Len(r) + 1) : q[d] = IF d <= Len(r) THEN r[d] ELSE h
      BY <3>0, PushStack
    <3> HIDE DEF q
    <3>2. \A d \in 1..Len(q) : q[d].stride = IF d = 1 THEN 1 ELSE 4 * q[d - 1].stride
      <4> TAKE d \in 1..Len(q)
      <4>1. CASE d <= Len(r)
        <5>1. d \in 1..Len(r) /\ (d # 1 => d - 1 \in 1..(Len(r) + 1) /\ d - 1 <= Len(r))
          BY <1>1, <2>1, <3>1, <4>1
        <5> QED BY <2>3, <3>1, <4>1, <5>1
      <4>2. CASE ~(d <= Len(r))
        <5>1. d = Len(s) + 1 /\ d - 1 = Len(s) /\ Len(s) \in 1..Len(s) /\ d # 1
          BY <1>1, <2>1, <3>1, <4>2
        <5>2. q[d] = h /\ q[d - 1] = r[Len(s)]
          BY <1>1, <2>1, <3>1, <5>1
        <5>3. r[Len(s)].stride = f.stride
          BY <1>1, <2>2, <5>1
        <5> QED BY <1>3, <2>4, <5>1, <5>2, <5>3
      <4> QED BY <4>1, <4>2
    <3> QED BY <3>2 DEF StridesOf, q
  <2> QED BY <2>3, <2>4 DEF StridesOf, r
<1>6. CASE \E X : IterationStep(t, X)
  <2> DEFINE g == [f EXCEPT !.i = @ + 1]
  <2>1. stack'[t] = ReplaceTop(s, g)
    BY <1>6 DEF IterationStep
  <2>2. g.stride = f.stride
    <3> HIDE DEF f
    <3> QED BY <1>1 DEF Frame
  <2> HIDE DEF g, s
  <2> QED BY <1>5, <2>1, <2>2
<1>7. CASE Recurse(t)
  <2> DEFINE g == [f EXCEPT !.k = @ + 1]
             h == SubCall(f)
  <2>1. stack'[t] = Append(ReplaceTop(s, g), h)
    BY <1>7 DEF Recurse
  <2>2. g.stride = f.stride
    <3> HIDE DEF f
    <3> QED BY <1>1 DEF Frame
  <2>3. h.stride = f.stride * 4
    <3> HIDE DEF f
    <3> QED BY <1>1 DEF Frame, SubCall
  <2> HIDE DEF g, h, s
  <2> QED BY <1>5, <2>1, <2>2, <2>3
<1> QED BY <1>4, <1>6, <1>7, StackSteps

LEMMA StridesInvariant == Spec => []Strides
<1>1. Init => Strides
  <2> SUFFICES ASSUME Init PROVE Strides
    OBVIOUS
  <2>1. \A t \in Threads : stack[t] = << >>
    BY DEF Init
  <2>2. \A t \in Threads : Len(stack[t]) = 0
    BY <2>1
  <2> QED BY <2>2 DEF Strides, StridesOf
<1>2. IInv /\ Strides /\ [Next]_vars => Strides'
  <2> SUFFICES ASSUME IInv, Strides, [Next]_vars PROVE Strides'
    OBVIOUS
  <2>1. /\ stack \in [Threads -> Seq(Frame)] /\ StacksOK /\ MemOK
        /\ \A t \in Threads : StridesOf(stack[t])
    BY DEF IInv, StacksOK, Strides
  <2>2. ASSUME NEW t \in Threads, Step(t) PROVE Strides'
    <3>1. StridesOf(stack'[t])
      BY <2>1, <2>2, StridesStep DEF Step
    <3>2. \A u \in Threads \ {t} : stack'[u] = stack[u]
      <4>1. StackOf(t, FramesOf(call[t]))
        BY <2>1, <2>2, FftStepOK, FramesClosed DEF Step, StacksOK
      <4> QED BY <2>1, <4>1 DEF StackOf
    <3>3. \A u \in Threads : StridesOf(stack'[u])
      BY <2>1, <3>1, <3>2
    <3> QED BY <3>3 DEF Strides, StridesOf
  <2>3. ASSUME NEW t \in Threads, Call(t) PROVE Strides'
    <3>1. call[t] = NoCall
      BY <2>3 DEF Call, MayCall
    <3>2. stack[t] = << >>
      BY <2>1, <3>1, NoFrames
    <3>3. PICK c \in Contexts, src \in Buffers, dst \in Buffers, count \in Counts,
               inverse \in BOOLEAN : fft(t, c, src, dst, count, inverse)
      BY <2>3 DEF Call
    <3>4. \/ UNCHANGED stack
          \/ \E g : g.stride = 1 /\ stack' = [stack EXCEPT ![t] = Append(@, g)]
      BY <3>3 DEF fft, fft_default, fft_neon, FftCall
    <3>5. CASE UNCHANGED stack
      BY <2>1, <3>5 DEF Strides, StridesOf
    <3>6. ASSUME NEW g, g.stride = 1, stack' = [stack EXCEPT ![t] = Append(@, g)]
          PROVE  Strides'
      <4>1. stack'[t] = <<g>> /\ \A u \in Threads \ {t} : stack'[u] = stack[u]
        BY <2>1, <3>2, <3>6
      <4>2. StridesOf(<<g>>)
        <5>1. Len(<<g>>) = 1 /\ <<g>>[1] = g
          OBVIOUS
        <5> QED BY <3>6, <5>1 DEF StridesOf
      <4>3. \A u \in Threads : StridesOf(stack'[u])
        BY <2>1, <4>1, <4>2
      <4> QED BY <4>3 DEF Strides, StridesOf
    <3> QED BY <3>4, <3>5, <3>6
  <2>4. CASE UNCHANGED vars
    BY <2>1, <2>4 DEF Strides, StridesOf, vars
  <2> QED BY <2>2, <2>3, <2>4 DEF Next
<1> QED BY <1>1, <1>2, InductiveInvariant, PTL DEF Spec

(***************************************************************************)
(* The recursion is as deep as the count has powers of 4, for every count:  *)
(* the last call on a stack has a stride of 4^(depth - 1) and at least 4    *)
(* elements.                                                                *)
(***************************************************************************)
THEOREM DepthBounded == Spec => []RecursionDepth
<1>1. IInv /\ Strides => RecursionDepth
  <2> SUFFICES ASSUME IInv, Strides, NEW t \in Threads, stack[t] # << >>
               PROVE  PowerOf4(Len(stack[t])) <= call[t].count
    BY DEF RecursionDepth
  <2> DEFINE s == stack[t]
             n == Len(s)
             p == [j \in 0..n |-> IF j = 0 THEN 1 ELSE 4 * s[j].stride]
             f == s[n]
  <2>1. s \in Seq(FramesOf(call[t])) /\ n \in Nat \ {0} /\ StridesOf(s)
    BY DEF IInv, StacksOK, Strides
  <2>2. f \in OKFrames /\ Serves(f) = call[t]
    BY <2>1 DEF FramesOf
  <2>3. \A j \in 1..n : s[j].stride = IF j = 1 THEN 1 ELSE 4 * s[j - 1].stride
    BY <2>1 DEF StridesOf
  <2>4. IsPower(p, n)
    <3>1. ASSUME NEW j \in 0..n
          PROVE  p[j] = IF j = 0 THEN 1 ELSE 4 * p[j - 1]
      <4> HIDE DEF s, n
      <4>1. CASE j = 0
        BY <2>1, <4>1
      <4>2. CASE j # 0
        <5>1. j \in 1..n /\ j - 1 \in 0..n
          BY <2>1, <4>2
        <5>2. p[j - 1] = s[j].stride
          <6>1. CASE j = 1
            BY <2>3, <5>1, <6>1
          <6>2. CASE j # 1
            BY <2>3, <5>1, <6>2
          <6> QED BY <6>1, <6>2
        <5>3. p[j] = 4 * s[j].stride
          BY <4>2
        <5> QED BY <4>2, <5>2, <5>3
      <4> QED BY <4>1, <4>2
    <3> DEFINE e(j) == IF j = 0 THEN 1 ELSE 4 * p[j - 1]
    <3>2. p = [j \in 0..n |-> p[j]]
      OBVIOUS
    <3>3. \A j \in 0..n : p[j] = e(j)
      BY <3>1
    <3>4. p = [j \in 0..n |-> e(j)]
      <4> HIDE DEF p, e, n
      <4> QED BY <3>2, <3>3
    <3> QED BY <3>4 DEF IsPower
  <2>5. PowerOf4(n) = p[n]
    <3> HIDE DEF p, n
    <3> QED BY <2>1, <2>4, PowerIs
  <2>6. p[n] = 4 * f.stride
    <3> HIDE DEF s, n
    <3> QED BY <2>1 DEF f
  <2>7. Total(f) = call[t].count
    BY <2>2 DEF Serves
  <2>8. f.count \in Nat /\ f.stride \in Nat /\ f.count >= 4
    <3> HIDE DEF f
    <3> QED BY <2>2, FrameFields DEF FrameOK
  <2>9. 4 * f.stride <= f.count * f.stride
    <3> HIDE DEF f
    <3> QED BY <2>8, MulMonotone
  <2> HIDE DEF s, n, p, f
  <2>10. PowerOf4(n) <= call[t].count
    BY <2>5, <2>6, <2>7, <2>9 DEF Total
  <2> QED BY <2>10 DEF n, s
<1> QED BY <1>1, InductiveInvariant, StridesInvariant, PTL
=============================================================================
