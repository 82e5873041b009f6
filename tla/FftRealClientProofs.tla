------------------------ MODULE FftRealClientProofs ------------------------
(* Proofs about FftRealClient, for every number of threads, contexts and    *)
(* buffers, every count, and builds and contexts with NEON and without.     *)
EXTENDS FftRealClient, FftRealProofs

(***************************************************************************)
(* The inductive invariant: contexts are as they were created, a stack has  *)
(* only good frames of its thread's transform, of the real one or of the    *)
(* complex one of half its size, and the buffers of a transform are large   *)
(* enough.  The buffer that a forward transform untangles is its output.    *)
(***************************************************************************)
ContextsOK == context = [c \in Contexts |-> NewContext(MaxCount[c], Neon[c])]

StacksOK ==
  /\ stack \in [Threads -> Seq(Frame \cup RealFrame)]
  /\ \A t \in Threads :
       /\ stack[t] \in Seq(FramesOf(call[t]))
       /\ call[t] = NoCall => stack[t] = << >>

CallOK(a) ==
  /\ isPowerOfTwo(a.count) /\ a.count <= MaxCount[a.context]
  /\ Pairs(a.count) <= BufLen[IF a.op = "forward" THEN a.src ELSE a.dst]
  /\ HalfSpectrum(a.count) <= BufLen[IF a.op = "forward" THEN a.dst ELSE a.src]
  /\ HalfSpectrum(a.count) <= BufLen[a.tmpBuf]
  /\ a.op = "forward" => a.tmpBuf = a.dst

CallsOK ==
  /\ call \in [Threads -> Args \cup {NoCall}]
  /\ \A t \in Threads : call[t] # NoCall => CallOK(call[t])

IInv == ContextsOK /\ MemOK /\ StacksOK /\ CallsOK

-----------------------------------------------------------------------------
LEMMA ContextFacts ==
  ASSUME ContextsOK, NEW c \in Contexts
  PROVE  /\ MaxCount[c] \in Nat /\ context[c].maxCount = MaxCount[c]
         /\ HasTable(c, FALSE) /\ HasTable(c, TRUE)
<1>1. context[c] = NewContext(MaxCount[c], Neon[c])
  BY DEF ContextsOK
<1>2. MaxCount[c] \in Nat /\ isPowerOfTwo(MaxCount[c]) /\ Neon[c] \in BOOLEAN
  BY CallerAssumption
<1> QED BY <1>1, <1>2, CreatedTables

(* A step of thread t that gives it a stack of the frames of its call keeps *)
(* StacksOK.                                                                *)
LEMMA StackStep ==
  ASSUME StacksOK, NEW t \in Threads, StackOf(t, FramesOf(call'[t])), UNCHANGED context,
         call'[t] # NoCall, \A u \in Threads \ {t} : call'[u] = call[u],
         stack[t] \in Seq(FramesOf(call'[t]))
  PROVE  StacksOK'
<1>1. /\ stack \in [Threads -> Seq(Frame \cup RealFrame)]
      /\ \A u \in Threads : /\ stack[u] \in Seq(FramesOf(call[u]))
                            /\ call[u] = NoCall => stack[u] = << >>
  BY DEF StacksOK
<1>2. PICK s \in Seq(FramesOf(call'[t])) :
        stack'[t] = s /\ \A u \in Threads \ {t} : stack'[u] = stack[u]
  BY <1>1 DEF StackOf
<1>3. stack' \in [Threads -> Seq(Frame \cup RealFrame)]
  <2>1. CASE UNCHANGED stack
    BY <1>1, <2>1
  <2>2. CASE \E q \in Seq(FramesOf(call'[t])) : stack' = [stack EXCEPT ![t] = q]
    <3>1. PICK q \in Seq(FramesOf(call'[t])) : stack' = [stack EXCEPT ![t] = q]
      BY <2>2
    <3>2. q \in Seq(Frame \cup RealFrame)
      BY SeqFrames
    <3> QED BY <1>1, <3>1, <3>2
  <2> QED BY <2>1, <2>2 DEF StackOf
<1>4. ASSUME NEW u \in Threads
      PROVE  /\ (stack[u] \in Seq(FramesOf(call[u])))'
             /\ (call[u] = NoCall => stack[u] = << >>)'
  <2>1. stack'[u] \in Seq(FramesOf(call'[u])) /\ (call'[u] = NoCall => stack'[u] = << >>)
    BY <1>1, <1>2
  <2>2. ASSUME NEW a, a = call'[u]
        PROVE  (stack[u] \in Seq(FramesOf(call[u])))'
    <3>1. FramesOf(a)' = FramesOf(a)
      BY FramesUnchanged
    <3> QED BY <2>1, <2>2, <3>1
  <2> QED BY <2>1, <2>2
<1> QED BY <1>3, <1>4 DEF StacksOK

(* The elements R of b are among those the call a may write.                *)
Documented(a, b, R) == \A j \in R : << b, j >> \in Writable(a)

LEMMA InitIInv == Init => IInv
<1> SUFFICES ASSUME Init PROVE IInv
  OBVIOUS
<1>1. /\ ContextsOK /\ mem \in InitMem
      /\ stack = [t \in Threads |-> << >>] /\ call = [t \in Threads |-> NoCall]
  BY DEF Init, ContextsOK
<1>2. MemOK
  BY <1>1, CallerAssumption DEF MemOK, BufferType
<1>3. StacksOK
  BY <1>1 DEF StacksOK
<1>4. CallsOK
  BY <1>1 DEF CallsOK
<1> QED BY <1>1, <1>2, <1>3, <1>4 DEF IInv

(* What the calls of both operations come down to.                          *)
LEMMA CallKeeps ==
  ASSUME IInv, NEW t \in Threads, NEW a \in Args, CallOK(a),
         call' = [call EXCEPT ![t] = a], stack[t] = << >>,
         StackOf(t, FramesOf(a)), UNCHANGED context, NEW R, Stores(a.dst, R)
  PROVE  IInv' /\ call'[t] = a
<1>1. ContextsOK /\ MemOK /\ StacksOK /\ CallsOK /\ a.dst \in Buffers /\ a # NoCall
  BY CallerAssumption DEF IInv, Args
<1>2. call' \in [Threads -> Args \cup {NoCall}] /\ call'[t] = a
      /\ \A u \in Threads \ {t} : call'[u] = call[u]
  BY <1>1 DEF CallsOK
<1>3. MemOK'
  BY <1>1, StoresKeepsMem
<1>4. ContextsOK'
  BY <1>1 DEF ContextsOK
<1>5. StacksOK'
  <2>1. StackOf(t, FramesOf(call'[t])) /\ stack[t] \in Seq(FramesOf(call'[t]))
    BY <1>2
  <2> QED BY <1>1, <1>2, <2>1, StackStep
<1>6. CallsOK'
  BY <1>1, <1>2 DEF CallsOK, CallOK
<1> QED BY <1>2, <1>3, <1>4, <1>5, <1>6 DEF IInv

LEMMA CallForwardStep ==
  ASSUME IInv, NEW t \in Threads, CallForward(t)
  PROVE  /\ IInv' /\ call'[t] # NoCall /\ call'[t] \in Args
         /\ Stores(call'[t].dst, RealShare(call'[t].count))
         /\ call'[t].op = "forward"
<1>1. PICK c \in Contexts, src \in Buffers, dst \in Buffers, count \in Counts :
        /\ call[t] = NoCall
        /\ isPowerOfTwo(count) /\ count <= context[c].maxCount
        /\ src # dst
        /\ Pairs(count) <= BufLen[src] /\ HalfSpectrum(count) <= BufLen[dst]
        /\ Apart(t, {src}, {dst})
        /\ call' = [call EXCEPT ![t] = [op |-> "forward", context |-> c, src |-> src,
                                        dst |-> dst, tmpBuf |-> dst, count |-> count,
                                        data |-> src]]
        /\ fft_real(t, c, src, dst, count)
  BY DEF CallForward
<1> DEFINE a == [op |-> "forward", context |-> c, src |-> src, dst |-> dst,
                 tmpBuf |-> dst, count |-> count, data |-> src]
           S == FramesOf(a)
<1>2. ContextsOK /\ MemOK /\ StacksOK /\ CallsOK /\ count \in Nat
  BY CallerAssumption DEF IInv
<1>3. stack[t] = << >>
  BY <1>1, <1>2 DEF StacksOK
<1>4. HasTable(c, FALSE) /\ context[c].maxCount = MaxCount[c]
  BY <1>2, ContextFacts
<1>5. a \in Args
  BY DEF Args
<1>6. a # NoCall
  BY <1>5, CallerAssumption
<1>7. CallOK(a)
  BY <1>1, <1>4 DEF CallOK
<1>8. /\ a.dst = dst /\ a.count = count /\ a.op = "forward" /\ a.context = c
      /\ a.src = src /\ a.tmpBuf = dst
  OBVIOUS
<1>9. call' = [call EXCEPT ![t] = a]
  BY <1>1
<1> HIDE DEF a
<1>10. \A fn \in ForwardFns : StartFrames(fn, c, src, dst, dst, count) \subseteq S
  BY <1>8 DEF FramesOf, RealFramesOf, FnsOf
<1>11. \A g \in OKFrames :
         Serves(g) = [context |-> c, src |-> src, dst |-> dst,
                      count |-> count \div 2, inverse |-> FALSE] => g \in S
  BY <1>8 DEF FramesOf, HalfFft
<1> HIDE DEF S
<1>12. StackOf(t, S) /\ UNCHANGED context /\ Stores(dst, RealShare(count))
  BY <1>1, <1>2, <1>3, <1>4, <1>10, <1>11, FftRealOK
<1>13. IInv' /\ call'[t] = a
  BY <1>3, <1>5, <1>7, <1>8, <1>9, <1>12, CallKeeps DEF S
<1> QED BY <1>5, <1>6, <1>8, <1>12, <1>13

LEMMA CallInverseStep ==
  ASSUME IInv, NEW t \in Threads, CallInverse(t)
  PROVE  /\ IInv' /\ call'[t] # NoCall /\ call'[t] \in Args
         /\ Stores(call'[t].dst, 0..(Pairs(call'[t].count) - 1))
         /\ call'[t].op = "inverse"
<1> DEFINE src == call[t].dst
           count == call[t].count
<1>1. call[t] # NoCall /\ call[t].op = "forward" /\ stack[t] = << >>
  BY DEF CallInverse
<1>2. PICK c \in Contexts, dst \in Buffers, tmpBuf \in Buffers :
        /\ count <= context[c].maxCount
        /\ Pairs(count) <= BufLen[dst] /\ HalfSpectrum(count) <= BufLen[tmpBuf]
        /\ call' = [call EXCEPT ![t] = [op |-> "inverse", context |-> c, src |-> src,
                                        dst |-> dst, tmpBuf |-> tmpBuf, count |-> count,
                                        data |-> call[t].data]]
        /\ fft_real_inverse(t, c, src, dst, count, tmpBuf)
  BY DEF CallInverse
<1> DEFINE a == [op |-> "inverse", context |-> c, src |-> src, dst |-> dst,
                 tmpBuf |-> tmpBuf, count |-> count, data |-> call[t].data]
           S == FramesOf(a)
<1>3. ContextsOK /\ MemOK /\ StacksOK /\ CallsOK
  BY DEF IInv
<1>4. call[t] \in Args /\ CallOK(call[t])
  BY <1>1, <1>3 DEF CallsOK
<1>5. src \in Buffers /\ count \in Counts /\ count \in Nat
  BY <1>4, CallerAssumption DEF Args
<1>6. isPowerOfTwo(count) /\ HalfSpectrum(count) <= BufLen[src]
  BY <1>1, <1>4 DEF CallOK
<1>7. HasTable(c, TRUE) /\ context[c].maxCount = MaxCount[c]
  BY <1>3, ContextFacts
<1>8. a \in Args
  BY <1>4, <1>5 DEF Args
<1>9. a # NoCall
  BY <1>8, CallerAssumption
<1>10. CallOK(a)
  BY <1>2, <1>6, <1>7 DEF CallOK
<1>11. /\ a.dst = dst /\ a.count = count /\ a.op = "inverse" /\ a.context = c
       /\ a.src = src /\ a.tmpBuf = tmpBuf
  OBVIOUS
<1>12. call' = [call EXCEPT ![t] = a]
  BY <1>2
<1> HIDE DEF a
<1>13. \A fn \in InverseFns : StartFrames(fn, c, src, dst, tmpBuf, count) \subseteq S
  BY <1>11 DEF FramesOf, RealFramesOf, FnsOf
<1> HIDE DEF S
<1>14. ASSUME NEW x \in Buffers, x = src, NEW n \in Nat, n = count
       PROVE  StackOf(t, S) /\ UNCHANGED context /\ Stores(dst, 0..(Pairs(n) - 1))
  <2>1. /\ n <= context[c].maxCount /\ isPowerOfTwo(n)
        /\ HalfSpectrum(n) <= BufLen[x]
        /\ Pairs(n) <= BufLen[dst] /\ HalfSpectrum(n) <= BufLen[tmpBuf]
        /\ fft_real_inverse(t, c, x, dst, n, tmpBuf)
        /\ \A fn \in InverseFns : StartFrames(fn, c, x, dst, tmpBuf, n) \subseteq S
    BY <1>2, <1>6, <1>13, <1>14
  <2> HIDE DEF src, count
  <2> QED BY <1>1, <1>3, <1>7, <2>1, FftRealInverseOK
<1>15. StackOf(t, S) /\ UNCHANGED context /\ Stores(dst, 0..(Pairs(count) - 1))
  BY <1>5, <1>14
<1> HIDE DEF src, count
<1>16. IInv' /\ call'[t] = a
  BY <1>1, <1>8, <1>10, <1>11, <1>12, <1>15, CallKeeps DEF S
<1> QED BY <1>8, <1>9, <1>11, <1>15, <1>16

(* A step of a transform: it goes on working for the thread's call.         *)
LEMMA TransformStep ==
  ASSUME IInv, NEW t \in Threads, FftRealStep(t), UNCHANGED call
  PROVE  /\ IInv' /\ call[t] # NoCall /\ call[t].dst \in Buffers /\ call[t].tmpBuf \in Buffers
         /\ \A u \in Threads \ {t} : stack'[u] = stack[u]
         /\ \E b \in {call[t].dst, call[t].tmpBuf} : \E R :
              Stores(b, R) /\ Documented(call[t], b, R)
<1> DEFINE S == FramesOf(call[t])
<1>1. ContextsOK /\ MemOK /\ StacksOK /\ CallsOK
  BY DEF IInv
<1>2. RealClosed(S) /\ stack[t] \in Seq(S) /\ (call[t] = NoCall => stack[t] = << >>)
  BY <1>1, FramesClosed DEF StacksOK
<1>3. /\ stack[t] # << >> /\ Top(t) \in S
      /\ StackOf(t, S) /\ UNCHANGED context
      /\ \/ /\ Top(t) \in OKFrames
            /\ Stores(Top(t).dst, 0..(Total(Top(t)) - 1))
         \/ /\ Top(t) \in OKRealFrames
            /\ Stores(Top(t).tmpBuf, 0..(Top(t).count \div 2))
  <2> HIDE DEF S
  <2> QED BY <1>1, <1>2, FftRealStepOK
<1>4. call[t] # NoCall
  BY <1>2, <1>3
<1>5. call[t] \in Args /\ CallOK(call[t])
  BY <1>1, <1>4 DEF CallsOK
<1>6. /\ call[t].dst \in Buffers /\ call[t].tmpBuf \in Buffers /\ call[t].count \in Nat
      /\ call[t].op \in {"forward", "inverse"}
      /\ call[t].op = "forward" => call[t].tmpBuf = call[t].dst
  BY <1>5, CallerAssumption DEF Args, CallOK
<1> DEFINE n == call[t].count
<1>7. /\ HalfSpectrum(n) - 1 = n \div 2 /\ n \div 2 \in Nat
      /\ Pairs(n) \in Nat /\ n \div 2 <= Pairs(n)
  <2> HIDE DEF n
  <2> QED BY <1>6 DEF HalfSpectrum, Pairs, n
<1>8. \E b \in {call[t].dst, call[t].tmpBuf} : \E R :
        Stores(b, R) /\ Documented(call[t], b, R)
  <2>1. CASE Top(t) \in OKFrames /\ Stores(Top(t).dst, 0..(Total(Top(t)) - 1))
    <3>1. Serves(Top(t)) = HalfFft(call[t])
      BY <1>3, <2>1, RealFramesFields, FrameKinds DEF FramesOf
    <3>2. Top(t).dst = call[t].dst /\ Total(Top(t)) = n \div 2
      BY <3>1 DEF Serves, HalfFft
    <3>3. Documented(call[t], call[t].dst, 0..(n \div 2 - 1))
      <4>1. 0..(n \div 2 - 1) \subseteq 0..(n \div 2)
            /\ 0..(n \div 2 - 1) \subseteq 0..(Pairs(n) - 1)
        BY <1>7
      <4> QED BY <1>7, <4>1 DEF Documented, Writable
    <3>4. Stores(call[t].dst, 0..(n \div 2 - 1))
      BY <2>1, <3>2
    <3> QED BY <1>6, <3>3, <3>4
  <2>2. CASE Top(t) \in OKRealFrames /\ Stores(Top(t).tmpBuf, 0..(Top(t).count \div 2))
    <3>1. Top(t).tmpBuf = call[t].tmpBuf /\ Top(t).count = n
      BY <1>3, <2>2, RealFramesFields, FrameKinds DEF FramesOf
    <3>2. Documented(call[t], call[t].tmpBuf, 0..(n \div 2))
      BY <1>6, <1>7 DEF Documented, Writable
    <3>3. Stores(call[t].tmpBuf, 0..(n \div 2))
      BY <2>2, <3>1
    <3> QED BY <1>6, <3>2, <3>3
  <2> QED BY <1>3, <2>1, <2>2
<1>9. MemOK'
  BY <1>1, <1>6, <1>8, StoresKeepsMem
<1>10. ContextsOK'
  BY <1>1, <1>3 DEF ContextsOK
<1>11. StacksOK'
  BY <1>1, <1>2, <1>3, <1>4, StackStep
<1>12. CallsOK'
  BY <1>1 DEF CallsOK, CallOK
<1>13. \A u \in Threads \ {t} : stack'[u] = stack[u]
  BY <1>1, <1>3 DEF StackOf, StacksOK
<1> QED BY <1>4, <1>6, <1>8, <1>9, <1>10, <1>11, <1>12, <1>13 DEF IInv

(* A step that changes nothing.                                             *)
LEMMA IInvStutters ==
  ASSUME IInv, UNCHANGED vars
  PROVE  IInv'
<1> USE DEF vars
<1>1. ASSUME NEW a PROVE FramesOf(a)' = FramesOf(a)
  BY FramesUnchanged
<1>2. StacksOK'
  BY <1>1 DEF IInv, StacksOK
<1>3. CallsOK' /\ MemOK' /\ ContextsOK'
  BY DEF IInv, CallsOK, CallOK, MemOK, ContextsOK
<1> QED BY <1>2, <1>3 DEF IInv

(* What the operations rely on holds whenever one of them runs.             *)
THEOREM InductiveInvariant == Spec => []IInv
<1>1. IInv /\ [Next]_vars => IInv'
  <2> SUFFICES ASSUME IInv, [Next]_vars PROVE IInv'
    OBVIOUS
  <2>1. ASSUME NEW t \in Threads, CallForward(t) PROVE IInv'
    BY <2>1, CallForwardStep
  <2>2. ASSUME NEW t \in Threads, CallInverse(t) PROVE IInv'
    BY <2>2, CallInverseStep
  <2>3. ASSUME NEW t \in Threads, Step(t) PROVE IInv'
    BY <2>3, TransformStep DEF Step
  <2>4. CASE UNCHANGED vars
    BY <2>4, IInvStutters
  <2> QED BY <2>1, <2>2, <2>3, <2>4 DEF Next
<1> QED BY InitIInv, <1>1, PTL DEF Spec

-----------------------------------------------------------------------------
(* Buffers keep their lengths, and no iteration of a real transform leaves  *)
(* the half it works on, but for the one vector that LoopInBounds names.    *)
THEOREM TypeCorrect == Spec => []TypeOK
<1>1. IInv => TypeOK
  <2> SUFFICES ASSUME IInv PROVE TypeOK
    OBVIOUS
  <2>1. MemOK /\ StacksOK /\ CallsOK
    BY DEF IInv
  <2>2. \A b \in Buffers : mem[b] \in [0..(BufLen[b] - 1) -> CkFftComplex]
    BY <2>1 DEF MemOK, BufferType
  <2>3. ASSUME NEW t \in Threads, NEW d \in 1..Len(stack[t])
        PROVE  \/ stack[t][d] \in Frame
               \/ stack[t][d] \in RealFrame /\ LoopInBounds(stack[t][d])
    <3>1. stack[t][d] \in FramesOf(call[t])
      BY <2>1 DEF StacksOK
    <3>2. stack[t][d] \in OKFrames \cup OKRealFrames
      BY <3>1, RealFramesFields DEF FramesOf
    <3> QED BY <3>2 DEF OKFrames, OKRealFrames, RealFrameOK
  <2> QED BY <2>1, <2>2, <2>3 DEF TypeOK, CallsOK
<1> QED BY <1>1, InductiveInvariant, PTL

(* The real transforms write what ckfft.h documents and nothing else, for   *)
(* every count but 4: fft_real() writes 4 elements for 4 floats, one more   *)
(* than documented, which the run RealCount4 shows.                         *)
THEOREM DocumentedWrites ==
  ASSUME 4 \notin Counts
  PROVE  Spec => WritesDocumented
<1>1. IInv /\ [Next]_vars =>
        [\A b \in Buffers : \A j \in 0..(BufLen[b] - 1) :
           mem'[b][j] # mem[b][j] =>
             \E t \in Threads : call'[t] # NoCall /\ <<b, j>> \in Writable(call'[t])]_vars
  <2> SUFFICES ASSUME IInv, Next, NEW b \in Buffers, NEW j \in 0..(BufLen[b] - 1),
                      mem'[b][j] # mem[b][j]
               PROVE  \E t \in Threads : call'[t] # NoCall /\ <<b, j>> \in Writable(call'[t])
    OBVIOUS
  <2>1. MemOK
    BY DEF IInv
  <2>2. ASSUME NEW x \in Buffers, NEW R, Stores(x, R) PROVE b = x /\ j \in R
    BY <2>1, <2>2, StoresKeepsMem
  <2>3. ASSUME NEW t \in Threads, CallForward(t)
        PROVE  call'[t] # NoCall /\ <<b, j>> \in Writable(call'[t])
    <3>1. /\ call'[t] # NoCall /\ call'[t] \in Args /\ call'[t].op = "forward"
          /\ Stores(call'[t].dst, RealShare(call'[t].count))
      BY <2>3, CallForwardStep
    <3>2. call'[t].dst \in Buffers /\ call'[t].count \in Nat /\ call'[t].count # 4
      BY <3>1, CallerAssumption DEF Args
    <3>3. RealShare(call'[t].count) = 0..(HalfSpectrum(call'[t].count) - 1)
      BY <3>2 DEF RealShare, HalfSpectrum
    <3>4. b = call'[t].dst /\ j \in 0..(HalfSpectrum(call'[t].count) - 1)
      BY <2>2, <3>1, <3>2, <3>3
    <3> QED BY <3>1, <3>4 DEF Writable
  <2>4. ASSUME NEW t \in Threads, CallInverse(t)
        PROVE  call'[t] # NoCall /\ <<b, j>> \in Writable(call'[t])
    <3>1. /\ call'[t] # NoCall /\ call'[t] \in Args /\ call'[t].op = "inverse"
          /\ Stores(call'[t].dst, 0..(Pairs(call'[t].count) - 1))
      BY <2>4, CallInverseStep
    <3>2. b = call'[t].dst /\ j \in 0..(Pairs(call'[t].count) - 1)
      BY <2>2, <3>1 DEF Args
    <3> QED BY <3>1, <3>2 DEF Writable
  <2>5. ASSUME NEW t \in Threads, Step(t)
        PROVE  call'[t] # NoCall /\ <<b, j>> \in Writable(call'[t])
    <3>1. call[t] # NoCall /\ UNCHANGED call
      BY <2>5, TransformStep DEF Step
    <3>2. PICK x, R : x \in Buffers /\ Stores(x, R) /\ Documented(call[t], x, R)
      BY <2>5, TransformStep DEF Step
    <3>3. b = x /\ j \in R
      BY <2>2, <3>2
    <3> QED BY <3>1, <3>2, <3>3 DEF Documented
  <2> QED BY <2>3, <2>4, <2>5 DEF Next
<1> QED BY <1>1, InductiveInvariant, PTL DEF Spec, WritesDocumented

-----------------------------------------------------------------------------
(* What the results rely on besides the code, as for the complex FFT: the   *)
(* angles of the tables, and contexts that say NEON only where it is built. *)
AnglesExact == \A c \in Contexts : Divisor(MaxCount[c])

NeonBuilt == \A c \in Contexts : Neon[c] => ArmNeon

(***************************************************************************)
(* No call writes a buffer that another thread's call uses.  A call does    *)
(* not write its own input, nor the data that its input came from.          *)
(***************************************************************************)
Uses(a) == {a.src, a.dst, a.tmpBuf, a.data}

Separate ==
  \A t, u \in Threads : (t # u /\ call[t] # NoCall /\ call[u] # NoCall) =>
    {call[t].dst, call[t].tmpBuf} \cap Uses(call[u]) = {}

OwnBuffers(a) ==
  /\ {a.dst, a.tmpBuf} \cap {a.src, a.data} = {} /\ Pairs(a.count) <= BufLen[a.data]
  /\ a.op = "forward" => a.data = a.src
  /\ a.op = "inverse" => a.dst # a.tmpBuf

BuffersApart ==
  /\ Separate
  /\ \A t \in Threads : call[t] # NoCall => OwnBuffers(call[t])

(***************************************************************************)
(* A thread whose last call is a forward transform is on its way to the     *)
(* spectrum of its input, or has it; one whose last call is an inverse      *)
(* transform is on its way back to the data.                                *)
(***************************************************************************)
RealWay(a, s, d, x, w, y) ==
  IF a.op = "forward" THEN ForwardWay(s, a.count, x, y)
                      ELSE InverseWay(s, a.count, d, x, w, y)

Results ==
  \A t \in Threads : call[t] # NoCall =>
    RealWay(call[t], stack[t], mem[call[t].data], mem[call[t].src],
            mem[call[t].tmpBuf], mem[call[t].dst])

RInv == IInv /\ BuffersApart /\ Results

(* The facts about a call that its proof of correctness uses.               *)
LEMMA CallJob ==
  ASSUME IInv, AnglesExact, NeonBuilt, NEW a \in Args, CallOK(a), OwnBuffers(a)
  PROVE  /\ a.count \in Nat /\ (context[a.context].neon => ArmNeon)
         /\ a.op = "forward" => ForwardJob(a)
         /\ a.op = "inverse" => InverseJob(a) /\ RealData(a.count, mem[a.data])
<1>1. /\ a.context \in Contexts /\ a.src \in Buffers /\ a.dst \in Buffers
      /\ a.tmpBuf \in Buffers /\ a.data \in Buffers /\ a.count \in Nat
      /\ a.op \in {"forward", "inverse"}
  BY CallerAssumption DEF Args
<1>2. ContextsOK /\ MemOK
  BY DEF IInv
<1> DEFINE c == a.context
           n == a.count
<1>3. /\ context[c] = NewContext(MaxCount[c], Neon[c]) /\ HasTable(c, FALSE) /\ HasTable(c, TRUE)
      /\ context[c].maxCount = MaxCount[c] /\ MaxCount[c] \in Nat /\ isPowerOfTwo(MaxCount[c])
  BY <1>1, <1>2, ContextFacts, CallerAssumption DEF ContextsOK
<1>4. context[c].neon = Neon[c]
  BY <1>3 DEF NewContext
<1>5. isPowerOfTwo(n) /\ n <= MaxCount[c]
  BY DEF CallOK
<1>6. Divisor(context[c].maxCount) /\ Divisor(n)
  <2>1. Divisor(MaxCount[c])
    BY <1>1 DEF AnglesExact
  <2> HIDE DEF c, n
  <2>2. n \in Nat
    BY <1>1 DEF n
  <2> QED BY <1>3, <1>5, <2>1, <2>2, PowerDivisor
<1>7. a.op = "forward" => ForwardJob(a)
  BY <1>1, <1>3, <1>6 DEF ForwardJob, CallOK, OwnBuffers
<1>8. a.op = "inverse" => InverseJob(a)
  BY <1>1, <1>3, <1>6 DEF InverseJob, CallOK, OwnBuffers
<1>9. RealData(n, mem[a.data])
  <2> DEFINE b == a.data
  <2>1. b \in Buffers /\ n \in Nat /\ Pairs(n) <= BufLen[b] /\ BufLen[b] \in Nat
    BY <1>1, BufferAssumption DEF OwnBuffers
  <2> HIDE DEF b, n
  <2>2. HasFloats(mem[b], n)
    BY <1>2, <2>1, HasFloatsOf
  <2>3. n \div 2 \in Nat /\ n \div 2 <= BufLen[b]
    <3>1. n \div 2 <= (n + 1) \div 2
      BY <2>1
    <3> QED BY <2>1, <3>1 DEF Pairs
  <2>4. HoldsPairs(mem[b], n \div 2)
    <3> DEFINE h == n \div 2
    <3> HIDE DEF h
    <3>1. h \in Nat /\ h <= BufLen[b]
      BY <2>3 DEF h
    <3>2. HoldsPairs(mem[b], h)
      BY <1>2, <2>1, <3>1, BufferPairs
    <3> QED BY <3>2 DEF h
  <2> QED BY <2>2, <2>4 DEF RealData, b
<1> QED BY <1>1, <1>4, <1>7, <1>8, <1>9 DEF NeonBuilt

(* What one thread stores and stacks is nothing to the others.              *)
LEMMA OthersResults ==
  ASSUME RInv, NEW t \in Threads, NEW b \in Buffers, NEW R, Stores(b, R),
         NEW u \in Threads, u # t, call'[u] = call[u], stack'[u] = stack[u],
         call[u] # NoCall, b \notin Uses(call[u])
  PROVE  RealWay(call'[u], stack'[u], mem'[call'[u].data], mem'[call'[u].src],
                 mem'[call'[u].tmpBuf], mem'[call'[u].dst])
<1>1. MemOK /\ call[u] \in Args
  BY DEF RInv, IInv, CallsOK
<1> DEFINE a == call[u]
<1>2. a.src \in Buffers /\ a.dst \in Buffers /\ a.tmpBuf \in Buffers /\ a.data \in Buffers
  BY <1>1 DEF Args
<1>3. b # a.src /\ b # a.dst /\ b # a.tmpBuf /\ b # a.data
  BY DEF Uses
<1>4. /\ mem'[a.src] = mem[a.src] /\ mem'[a.dst] = mem[a.dst]
      /\ mem'[a.tmpBuf] = mem[a.tmpBuf] /\ mem'[a.data] = mem[a.data]
  <2> HIDE DEF a
  <2> QED BY <1>1, <1>2, <1>3, StoresKeepsMem
<1>5. RealWay(a, stack[u], mem[a.data], mem[a.src], mem[a.tmpBuf], mem[a.dst])
  BY DEF RInv, Results
<1> QED BY <1>4, <1>5

(* A step of a transform keeps the results of all threads.                  *)
LEMMA StepResults ==
  ASSUME RInv, AnglesExact, NeonBuilt, NEW t \in Threads, Step(t)
  PROVE  RInv'
<1> DEFINE a == call[t]
<1>1. FftRealStep(t) /\ UNCHANGED call
  BY DEF Step
<1>2. /\ IInv' /\ call[t] # NoCall
      /\ \A u \in Threads \ {t} : stack'[u] = stack[u]
      /\ \E b \in {call[t].dst, call[t].tmpBuf} : \E R :
           Stores(b, R) /\ Documented(call[t], b, R)
  BY <1>1, TransformStep DEF RInv
<1>3. PICK b \in {call[t].dst, call[t].tmpBuf} : \E R : Stores(b, R)
  BY <1>2
<1>4. PICK R : Stores(b, R)
  BY <1>3
<1>5. a \in Args /\ CallOK(a) /\ OwnBuffers(a) /\ IInv /\ Separate
  BY <1>2 DEF RInv, IInv, CallsOK, BuffersApart
<1>6. BuffersApart'
  BY <1>1 DEF RInv, BuffersApart, Separate, OwnBuffers, Uses
<1>7. /\ a.context \in Contexts /\ a.src \in Buffers /\ a.dst \in Buffers
      /\ a.tmpBuf \in Buffers /\ a.data \in Buffers /\ b \in Buffers
      /\ a.op \in {"forward", "inverse"}
  BY <1>5 DEF Args
<1>8. /\ t \in DOMAIN stack /\ stack[t] \in Seq(FramesOf(a)) /\ MemOK
      /\ stack'[t] \in Seq(Frame \cup RealFrame)
  BY <1>2, <1>5 DEF IInv, StacksOK
<1>9. a.count \in Nat /\ (a.op = "forward" => ForwardJob(a))
      /\ (a.op = "inverse" => InverseJob(a) /\ RealData(a.count, mem[a.data]))
  BY <1>5, CallJob
<1>10. mem'[a.src] = mem[a.src] /\ mem'[a.data] = mem[a.data]
  <2>1. b # a.src /\ b # a.data
    BY <1>5, <1>3 DEF OwnBuffers
  <2> HIDE DEF a
  <2> QED BY <1>4, <1>7, <1>8, <2>1, StoresKeepsMem
<1>11. RealWay(a, stack[t], mem[a.data], mem[a.src], mem[a.tmpBuf], mem[a.dst])
  BY <1>2 DEF RInv, Results
<1>12. RealWay(a, stack'[t], mem'[a.data], mem'[a.src], mem'[a.tmpBuf], mem'[a.dst])
  <2> HIDE DEF a
  <2> DEFINE T == Frame \cup RealFrame
  <2> HIDE DEF T
  <2>0. stack'[t] \in Seq(T)
    BY <1>8 DEF T
  <2>1. CASE a.op = "forward"
    <3>1. ForwardJob(a) /\ ForwardWay(stack[t], a.count, mem[a.src], mem[a.dst])
      BY <1>9, <1>11, <2>1 DEF RealWay
    <3>2. ForwardWay(stack'[t], a.count, mem[a.src], mem'[a.dst])
      BY <1>1, <1>8, <2>0, <3>1, ForwardStep
    <3> QED BY <1>10, <2>1, <3>2 DEF RealWay
  <2>2. CASE a.op = "inverse"
    <3>1. InverseJob(a) /\ RealData(a.count, mem[a.data])
          /\ InverseWay(stack[t], a.count, mem[a.data], mem[a.src], mem[a.tmpBuf], mem[a.dst])
      BY <1>9, <1>11, <2>2 DEF RealWay
    <3> DEFINE d == mem[a.data]
    <3> HIDE DEF d
    <3>2. InverseWay(stack'[t], a.count, d, mem[a.src], mem'[a.tmpBuf], mem'[a.dst])
      BY <1>1, <1>8, <2>0, <3>1, InverseStep DEF d
    <3>3. a.op # "forward"
      BY <2>2
    <3> QED BY <1>10, <3>2, <3>3 DEF RealWay, d
  <2> QED BY <1>7, <2>1, <2>2
<1>13. ASSUME NEW u \in Threads, call'[u] # NoCall
       PROVE  RealWay(call'[u], stack'[u], mem'[call'[u].data], mem'[call'[u].src],
                      mem'[call'[u].tmpBuf], mem'[call'[u].dst])
  <2>1. call'[u] = call[u] /\ call[u] # NoCall
    BY <1>1, <1>13
  <2>2. CASE u = t
    BY <1>12, <2>1, <2>2
  <2>3. CASE u # t
    <3>1. b \notin Uses(call[u])
      BY <1>2, <1>3, <1>5, <2>1, <2>3 DEF Separate
    <3> QED BY <1>2, <1>4, <1>7, <2>1, <2>3, <3>1, OthersResults
  <2> QED BY <2>2, <2>3
<1>14. Results'
  BY <1>13 DEF Results
<1> QED BY <1>2, <1>6, <1>14 DEF RInv

(* The buffers that a new call uses are apart from those of the others.     *)
LEMMA BuffersCall ==
  ASSUME IInv, BuffersApart, NEW t \in Threads, NEW a, call' = [call EXCEPT ![t] = a],
         OwnBuffers(a),
         \A u \in Threads \ {t} : call[u] # NoCall =>
           /\ {a.dst, a.tmpBuf} \cap Uses(call[u]) = {}
           /\ {call[u].dst, call[u].tmpBuf} \cap Uses(a) = {}
  PROVE  BuffersApart'
<1>1. call \in [Threads -> Args \cup {NoCall}]
  BY DEF IInv, CallsOK
<1>2. \A u \in Threads : call'[u] = IF u = t THEN a ELSE call[u]
  BY <1>1
<1>3. ASSUME NEW u \in Threads, NEW v \in Threads, u # v,
             call'[u] # NoCall, call'[v] # NoCall
      PROVE  {call'[u].dst, call'[u].tmpBuf} \cap Uses(call'[v]) = {}
  BY <1>2, <1>3 DEF BuffersApart, Separate
<1>4. ASSUME NEW u \in Threads, call'[u] # NoCall PROVE OwnBuffers(call'[u])
  BY <1>2, <1>4 DEF BuffersApart
<1>5. Separate'
  BY <1>3 DEF Separate, Uses
<1>6. (\A u \in Threads : call[u] # NoCall => OwnBuffers(call[u]))'
  BY <1>4 DEF OwnBuffers
<1> QED BY <1>5, <1>6 DEF BuffersApart

(* What the calls of both operations come down to.                          *)
LEMMA CallResults ==
  ASSUME RInv, NEW t \in Threads, NEW a \in Args, call' = [call EXCEPT ![t] = a],
         IInv', BuffersApart', NEW R, Stores(a.dst, R),
         \A u \in Threads \ {t} : stack'[u] = stack[u],
         \A u \in Threads \ {t} : call[u] # NoCall => a.dst \notin Uses(call[u]),
         RealWay(a, stack'[t], mem'[a.data], mem'[a.src], mem'[a.tmpBuf], mem'[a.dst])
  PROVE  RInv'
<1>1. call \in [Threads -> Args \cup {NoCall}] /\ a.dst \in Buffers
  BY DEF RInv, IInv, CallsOK, Args
<1>2. call'[t] = a /\ \A u \in Threads \ {t} : call'[u] = call[u]
  BY <1>1
<1>3. ASSUME NEW u \in Threads, call'[u] # NoCall
      PROVE  RealWay(call'[u], stack'[u], mem'[call'[u].data], mem'[call'[u].src],
                     mem'[call'[u].tmpBuf], mem'[call'[u].dst])
  <2>1. CASE u = t
    BY <1>2, <2>1
  <2>2. CASE u # t
    <3> DEFINE b == a.dst
    <3> HIDE DEF b
    <3>1. call'[u] = call[u] /\ call[u] # NoCall /\ stack'[u] = stack[u] /\ b \notin Uses(call[u])
          /\ b \in Buffers /\ Stores(b, R)
      BY <1>1, <1>2, <1>3, <2>2 DEF b
    <3> QED BY <2>2, <3>1, OthersResults
  <2> QED BY <2>1, <2>2
<1>4. Results'
  BY <1>3 DEF Results
<1> QED BY <1>4 DEF RInv

(* A forward transform begins.                                              *)
LEMMA ForwardResults ==
  ASSUME RInv, AnglesExact, NeonBuilt, NEW t \in Threads, CallForward(t)
  PROVE  RInv'
<1>1. PICK c \in Contexts, src \in Buffers, dst \in Buffers, count \in Counts :
        /\ call[t] = NoCall
        /\ isPowerOfTwo(count) /\ count <= context[c].maxCount
        /\ src # dst
        /\ Pairs(count) <= BufLen[src] /\ HalfSpectrum(count) <= BufLen[dst]
        /\ Apart(t, {src}, {dst})
        /\ call' = [call EXCEPT ![t] = [op |-> "forward", context |-> c, src |-> src,
                                        dst |-> dst, tmpBuf |-> dst, count |-> count,
                                        data |-> src]]
        /\ fft_real(t, c, src, dst, count)
  BY DEF CallForward
<1> DEFINE a == [op |-> "forward", context |-> c, src |-> src, dst |-> dst,
                 tmpBuf |-> dst, count |-> count, data |-> src]
<1>2. IInv /\ ContextsOK /\ MemOK /\ StacksOK /\ CallsOK /\ BuffersApart
  BY DEF RInv, IInv
<1>3. stack[t] = << >> /\ stack \in [Threads -> Seq(Frame \cup RealFrame)]
  BY <1>1, <1>2 DEF StacksOK
<1>4. /\ IInv' /\ call'[t] = a /\ Stores(dst, RealShare(count))
  <2>1. call'[t] = a
    BY <1>1, <1>2 DEF CallsOK
  <2>2. IInv' /\ Stores(call'[t].dst, RealShare(call'[t].count))
    BY <1>2, CallForwardStep
  <2> QED BY <2>1, <2>2
<1>5. a \in Args
  BY DEF Args
<1>6. CallOK(a)
  <2>1. context[c].maxCount = MaxCount[c]
    BY <1>2, ContextFacts
  <2> QED BY <1>1, <2>1 DEF CallOK
<1>7. OwnBuffers(a)
  BY <1>1 DEF OwnBuffers
<1>8. ASSUME NEW u \in Threads \ {t}, call[u] # NoCall
      PROVE  /\ {a.dst, a.tmpBuf} \cap Uses(call[u]) = {}
             /\ {call[u].dst, call[u].tmpBuf} \cap Uses(a) = {}
             /\ a.dst \notin Uses(call[u])
  BY <1>1, <1>8 DEF Apart, Uses
<1>9. /\ a.dst = dst /\ a.count = count /\ a.op = "forward" /\ a.context = c
      /\ a.src = src /\ a.tmpBuf = dst /\ a.data = src /\ call' = [call EXCEPT ![t] = a]
  BY <1>1
<1> HIDE DEF a
<1>10. BuffersApart'
  BY <1>2, <1>7, <1>8, <1>9, BuffersCall
<1>11. \A u \in Threads \ {t} : stack'[u] = stack[u]
  BY <1>1, <1>3 DEF fft_real, fft_real_neon, fft_real_default
<1>12. ForwardJob(a) /\ (context[a.context].neon => ArmNeon) /\ a.count \in Nat
  BY <1>2, <1>5, <1>6, <1>7, <1>9, CallJob
<1>13. ForwardWay(stack'[t], a.count, mem'[a.src], mem'[a.dst])
  <2>1. fft_real(t, a.context, a.src, a.dst, a.count) /\ t \in DOMAIN stack
    BY <1>1, <1>3, <1>9
  <2> QED BY <1>2, <1>3, <1>12, <2>1, ForwardStart
<1>14. RealWay(a, stack'[t], mem'[a.data], mem'[a.src], mem'[a.tmpBuf], mem'[a.dst])
  BY <1>9, <1>13 DEF RealWay
<1>15. Stores(a.dst, RealShare(count))
  BY <1>4, <1>9
<1> QED BY <1>4, <1>5, <1>8, <1>9, <1>10, <1>11, <1>14, <1>15, CallResults

(* An inverse transform begins, from the result of the forward one.         *)
LEMMA InverseResults ==
  ASSUME RInv, AnglesExact, NeonBuilt, NEW t \in Threads, CallInverse(t)
  PROVE  RInv'
<1> DEFINE old == call[t]
           src == call[t].dst
           count == call[t].count
<1>1. call[t] # NoCall /\ call[t].op = "forward" /\ stack[t] = << >>
  BY DEF CallInverse
<1>2. PICK c \in Contexts, dst \in Buffers, tmpBuf \in Buffers :
        /\ count <= context[c].maxCount
        /\ dst # call[t].src /\ tmpBuf # call[t].src
        /\ src # dst /\ src # tmpBuf /\ dst # tmpBuf
        /\ Pairs(count) <= BufLen[dst] /\ HalfSpectrum(count) <= BufLen[tmpBuf]
        /\ Apart(t, {src}, {dst, tmpBuf})
        /\ call' = [call EXCEPT ![t] = [op |-> "inverse", context |-> c, src |-> src,
                                        dst |-> dst, tmpBuf |-> tmpBuf, count |-> count,
                                        data |-> call[t].data]]
        /\ fft_real_inverse(t, c, src, dst, count, tmpBuf)
  BY DEF CallInverse
<1> DEFINE a == [op |-> "inverse", context |-> c, src |-> src, dst |-> dst,
                 tmpBuf |-> tmpBuf, count |-> count, data |-> call[t].data]
<1>3. IInv /\ ContextsOK /\ MemOK /\ StacksOK /\ CallsOK /\ BuffersApart /\ Separate
  BY DEF RInv, IInv, BuffersApart
<1>4. old \in Args /\ CallOK(old) /\ OwnBuffers(old)
  BY <1>1, <1>3 DEF CallsOK, BuffersApart
<1>5. /\ src \in Buffers /\ count \in Counts /\ count \in Nat /\ old.data \in Buffers
      /\ old.data = old.src /\ isPowerOfTwo(count) /\ HalfSpectrum(count) <= BufLen[src]
      /\ Pairs(count) <= BufLen[old.data] /\ old.data # src
  BY <1>1, <1>4, CallerAssumption DEF Args, OwnBuffers, CallOK
<1>6. stack \in [Threads -> Seq(Frame \cup RealFrame)]
  BY <1>3 DEF StacksOK
<1>7. /\ IInv' /\ call'[t] = a /\ Stores(dst, 0..(Pairs(count) - 1))
  <2>1. call'[t] = a
    BY <1>2, <1>3 DEF CallsOK
  <2>2. IInv' /\ Stores(call'[t].dst, 0..(Pairs(call'[t].count) - 1))
    BY <1>3, CallInverseStep
  <2> QED BY <2>1, <2>2
<1>8. a \in Args
  BY <1>5 DEF Args
<1>9. CallOK(a)
  <2>1. context[c].maxCount = MaxCount[c]
    BY <1>3, ContextFacts
  <2> QED BY <1>2, <1>5, <2>1 DEF CallOK
<1>10. OwnBuffers(a)
  BY <1>2, <1>5 DEF OwnBuffers
<1>11. ASSUME NEW u \in Threads \ {t}, call[u] # NoCall
       PROVE  /\ {a.dst, a.tmpBuf} \cap Uses(call[u]) = {}
              /\ {call[u].dst, call[u].tmpBuf} \cap Uses(a) = {}
              /\ a.dst \notin Uses(call[u])
  <2>1. {call[u].dst, call[u].tmpBuf} \cap Uses(call[t]) = {}
    BY <1>1, <1>3, <1>11 DEF Separate
  <2>2. {dst, tmpBuf} \cap Uses(call[u]) = {}
    BY <1>2, <1>11 DEF Apart, Uses
  <2>3. {call[u].dst, call[u].tmpBuf} \cap {dst, tmpBuf} = {}
    BY <2>2 DEF Uses
  <2>4. {call[u].dst, call[u].tmpBuf} \cap Uses(a) = {}
    BY <2>1, <2>3 DEF Uses
  <2> QED BY <2>2, <2>4
<1>12. /\ a.dst = dst /\ a.count = count /\ a.op = "inverse" /\ a.context = c
       /\ a.src = src /\ a.tmpBuf = tmpBuf /\ a.data = old.data
       /\ call' = [call EXCEPT ![t] = a]
  BY <1>2
<1> HIDE DEF a
<1>13. BuffersApart'
  BY <1>3, <1>10, <1>11, <1>12, BuffersCall
<1>14. \A u \in Threads \ {t} : stack'[u] = stack[u]
  BY <1>2, <1>6 DEF fft_real_inverse, fft_real_inverse_neon, fft_real_inverse_default
<1>15. /\ InverseJob(a) /\ (context[a.context].neon => ArmNeon) /\ a.count \in Nat
       /\ RealData(a.count, mem[a.data])
  BY <1>3, <1>8, <1>9, <1>10, <1>12, CallJob
<1>16. HasSpectrum(a.count, mem[a.data], mem[a.src])
  <2>1. RealWay(old, stack[t], mem[old.data], mem[old.src], mem[old.tmpBuf], mem[old.dst])
    BY <1>1 DEF RInv, Results
  <2>2. ForwardWay(<< >>, old.count, mem[old.src], mem[old.dst])
    BY <1>1, <2>1 DEF RealWay
  <2>3. HasSpectrum(old.count, mem[old.src], mem[old.dst])
    BY <2>2 DEF ForwardWay
  <2> QED BY <1>5, <1>12, <2>3
<1>17. mem'[a.data] = mem[a.data]
  <2>1. dst # old.data
    BY <1>2, <1>5
  <2> HIDE DEF old, count
  <2> QED BY <1>3, <1>5, <1>7, <1>12, <2>1, StoresKeepsMem
<1>18. mem'[a.src] = mem[a.src]
  <2>1. dst # src
    BY <1>2
  <2> HIDE DEF src, count
  <2> QED BY <1>3, <1>5, <1>7, <1>12, <2>1, StoresKeepsMem
<1>19. InverseWay(stack'[t], a.count, mem[a.data], mem[a.src], mem'[a.tmpBuf], mem'[a.dst])
  <2>1. fft_real_inverse(t, a.context, a.src, a.dst, a.count, a.tmpBuf) /\ t \in DOMAIN stack
    BY <1>2, <1>6, <1>12
  <2> DEFINE d == mem[a.data]
  <2> HIDE DEF d
  <2>2. RealData(a.count, d) /\ SpectrumGiven(a.count, d, mem[a.src])
    BY <1>15, <1>16 DEF d, HasSpectrum, SpectrumGiven
  <2>3. InverseWay(stack'[t], a.count, d, mem[a.src], mem'[a.tmpBuf], mem'[a.dst])
    BY <1>1, <1>3, <1>15, <2>1, <2>2, InverseStart
  <2> QED BY <2>3 DEF d
<1>20. RealWay(a, stack'[t], mem'[a.data], mem'[a.src], mem'[a.tmpBuf], mem'[a.dst])
  <2>1. a.op # "forward"
    BY <1>12
  <2> QED BY <1>17, <1>18, <1>19, <2>1 DEF RealWay
<1>21. Stores(a.dst, 0..(Pairs(count) - 1))
  BY <1>7, <1>12
<1> HIDE DEF count
<1> QED BY <1>7, <1>8, <1>11, <1>12, <1>13, <1>14, <1>20, <1>21, CallResults

(* Every thread is on its way to the result of its call, or has it.         *)
LEMMA InductiveResults ==
  ASSUME AnglesExact, NeonBuilt
  PROVE  Spec => []RInv
<1>1. Init => RInv
  <2> SUFFICES ASSUME Init PROVE RInv
    OBVIOUS
  <2>1. IInv
    BY InitIInv
  <2>2. \A t \in Threads : call[t] = NoCall
    BY DEF Init
  <2> QED BY <2>1, <2>2 DEF RInv, BuffersApart, Separate, Results
<1>2. RInv /\ [Next]_vars => RInv'
  <2> SUFFICES ASSUME RInv, [Next]_vars PROVE RInv'
    OBVIOUS
  <2>1. ASSUME NEW t \in Threads, CallForward(t) PROVE RInv'
    BY <2>1, ForwardResults
  <2>2. ASSUME NEW t \in Threads, CallInverse(t) PROVE RInv'
    BY <2>2, InverseResults
  <2>3. ASSUME NEW t \in Threads, Step(t) PROVE RInv'
    BY <2>3, StepResults
  <2>4. CASE UNCHANGED vars
    <3>1. IInv'
      BY <2>4, IInvStutters DEF RInv
    <3> USE <2>4 DEF vars
    <3>2. BuffersApart'
      BY DEF RInv, BuffersApart, Separate, OwnBuffers, Uses
    <3>3. Results'
      BY DEF RInv, Results
    <3> QED BY <3>1, <3>2, <3>3 DEF RInv
  <2> QED BY <2>1, <2>2, <2>3, <2>4 DEF Next
<1> QED BY <1>1, <1>2, PTL DEF Spec

(* The spectrum in the words of FftRealClient.                              *)
LEMMA SpectrumWords ==
  ASSUME NEW b, NEW n
  PROVE  Spectrum(b, n) = SpectrumOf(mem[b], n)
BY DEF Spectrum, SpectrumOf, RealInput, float, FloatAt

(***************************************************************************)
(* When a forward transform has returned, its output holds the n/2 + 1      *)
(* elements of the spectrum of its input, scaled by 2, for every count and  *)
(* maxCount, on any number of threads, in plain C++ and in NEON vectors.    *)
(***************************************************************************)
THEOREM SpectrumCorrect ==
  ASSUME AnglesExact, NeonBuilt
  PROVE  Spec => []ForwardCorrect
<1>1. RInv => ForwardCorrect
  <2> SUFFICES ASSUME RInv, NEW t \in Threads, Returned(t, "forward")
               PROVE  LET n == call[t].count
                          X == Spectrum(call[t].src, n)
                      IN  \A k \in 0..(n \div 2) : mem[call[t].dst][k] = X[k]
    BY DEF ForwardCorrect
  <2>1. call[t] # NoCall /\ call[t].op = "forward" /\ stack[t] = << >>
    BY DEF Returned
  <2>2. HasSpectrum(call[t].count, mem[call[t].src], mem[call[t].dst])
    BY <2>1 DEF RInv, Results, RealWay, ForwardWay
  <2> QED BY <2>2, SpectrumWords DEF HasSpectrum
<1> QED BY <1>1, InductiveResults, PTL

(***************************************************************************)
(* When the inverse transform of a spectrum has returned, every float of    *)
(* its output is that of the original data, times 2n: whatever contexts and *)
(* buffers the two calls use, and whatever the other threads do meanwhile.  *)
(***************************************************************************)
THEOREM DataComesBack ==
  ASSUME AnglesExact, NeonBuilt
  PROVE  Spec => []RoundTrip
<1>1. RInv => RoundTrip
  <2> SUFFICES ASSUME RInv, NEW t \in Threads, Returned(t, "inverse")
               PROVE  LET n == call[t].count
                      IN  \A j \in 0..(n - 1) :
                            float(call[t].dst, j) = (2 * n * float(call[t].data, j)) % P
    BY DEF RoundTrip
  <2>1. call[t] # NoCall /\ call[t].op = "inverse" /\ stack[t] = << >>
    BY DEF Returned
  <2>2. ScaledBack(call[t].count, mem[call[t].data], mem[call[t].dst])
    BY <2>1 DEF RInv, Results, RealWay, InverseWay
  <2>3. \A b, j : float(b, j) = FloatAt(mem[b], j)
    BY DEF float, FloatAt
  <2> QED BY <2>2, <2>3 DEF ScaledBack
<1> QED BY <1>1, InductiveResults, PTL

(***************************************************************************)
(* In the middle of the loop of a forward transform, the elements between   *)
(* the two ends are still those of the complex transform, and those outside *)
(* are final: no iteration, scalar or vector, reads what an earlier one has *)
(* overwritten.                                                             *)
(***************************************************************************)
THEOREM LoopInPlace ==
  ASSUME AnglesExact, NeonBuilt
  PROVE  Spec => []UntangledInPlace
<1>1. RInv => UntangledInPlace
  <2> SUFFICES ASSUME RInv, NEW t \in Threads,
                      Running(t, "fft_real_default") \/ Running(t, "fft_real_neon"),
                      Top(t).copied
               PROVE  LET f == Top(t)
                          half == f.count \div 2
                          Z == DFT([j \in 0..(half - 1) |-> mem[f.src][j]], half, FALSE)
                          X == Spectrum(f.src, f.count)
                      IN  \A k \in 0..half :
                            mem[f.dst][k] = IF k \in f.i..(half - f.i) THEN Z[k % half]
                                                                      ELSE X[k]
    BY DEF UntangledInPlace
  <2> DEFINE a == call[t]
             f == Top(t)
  <2>1. stack[t] # << >> /\ f.fn \in ForwardFns
    BY DEF Running, ForwardFns
  <2>2. IInv /\ a # NoCall /\ stack[t] \in Seq(FramesOf(a))
    BY <2>1 DEF RInv, IInv, StacksOK
  <2>3. a \in Args /\ CallOK(a)
    BY <2>2 DEF IInv, CallsOK
  <2>4. Top(t) \in FramesOf(a)
    BY <2>1, <2>2, TopInStack
  <2>5. f \in OKRealFrames
    BY <2>1, <2>4, FrameKinds, RealFramesFields DEF FramesOf, ForwardFns
  <2>6. /\ f.src = a.src /\ f.dst = a.dst /\ f.count = a.count /\ f.fn \in FnsOf(a)
    BY <2>4, <2>5, RealFramesFields, FrameKinds DEF FramesOf
  <2>7. a.op = "forward"
    BY <2>1, <2>3, <2>6 DEF FnsOf, Args, ForwardFns, InverseFns
  <2>8. ForwardWay(stack[t], a.count, mem[a.src], mem[a.dst])
    BY <2>2, <2>7 DEF RInv, Results, RealWay
  <2>9. Len(stack[t]) = 1 /\ f = stack[t][1]
    <3>1. Len(stack[t]) \in Nat \ {0}
      BY <2>1, <2>2
    <3>2. CASE Len(stack[t]) > 1
      <4>1. AboveFfts(stack[t], 1) /\ Len(stack[t]) \in (1 + 1)..Len(stack[t])
        BY <2>1, <2>8, <3>1, <3>2 DEF ForwardWay
      <4> QED BY <2>1, <4>1 DEF AboveFfts, Top, ForwardFns, FftFns
    <3>3. CASE ~(Len(stack[t]) > 1)
      <4>1. \A k \in Nat \ {0} : ~(k > 1) => k = 1
        OBVIOUS
      <4>2. Len(stack[t]) = 1
        BY ONLY <3>1, <3>3, <4>1, Zenon
      <4>3. f = stack[t][1]
        BY <4>2 DEF Top
      <4> QED BY <4>2, <4>3
    <3> QED BY <3>2, <3>3
  <2> DEFINE n == a.count
             x == mem[a.src]
             h == n \div 2
  <2>10. UntangledSoFar(h, f.i, PairTransform(x, h), SpectrumOf(x, n), mem[a.dst])
    BY <2>1, <2>8, <2>9 DEF ForwardWay
  <2>11. SpectrumOf(x, n) = Spectrum(f.src, f.count)
    BY <2>6, SpectrumWords
  <2>12. PairTransform(x, h) =
           DFT([j \in 0..(f.count \div 2 - 1) |-> mem[f.src][j]], f.count \div 2, FALSE)
    BY <2>6 DEF PairTransform
  <2>13. \A k \in 0..h : mem[a.dst][k] = IF k \in f.i..(h - f.i) THEN PairTransform(x, h)[k % h]
                                                              ELSE SpectrumOf(x, n)[k]
    BY ONLY <2>10, Zenon DEF UntangledSoFar
  <2>14. h = f.count \div 2 /\ mem[a.dst] = mem[f.dst]
    BY <2>6
  <2> HIDE DEF f, h, x, n, a
  <2>15. \A k \in 0..(f.count \div 2) :
           mem[f.dst][k] =
             IF k \in f.i..(f.count \div 2 - f.i)
             THEN DFT([j \in 0..(f.count \div 2 - 1) |-> mem[f.src][j]], f.count \div 2, FALSE)
                    [k % (f.count \div 2)]
             ELSE Spectrum(f.src, f.count)[k]
    BY <2>11, <2>12, <2>13, <2>14
  <2> QED BY <2>15 DEF f
<1> QED BY <1>1, InductiveResults, PTL
=============================================================================
