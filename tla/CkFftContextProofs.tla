------------------------ MODULE CkFftContextProofs ------------------------
(* Proofs about CkFftContext, for every maxCount whose tables int can size. *)
EXTENDS CkFftContext, TLAPS

(* The sizes that clients ask for stay within int.  Without this the code   *)
(* answers and allocates too few bytes for the tables it then stores: the   *)
(* run ContextOverflow shows a wrong answer.                                *)
NoOverflow ==
  \A n \in MaxCounts : ContextSize + 2 * (n * SizeofComplex) <= IntMax

RealDirections == {Forward, Inverse, Both}

-----------------------------------------------------------------------------
(* The conversion to int changes nothing that int can hold, and makes no    *)
(* size larger.                                                             *)
LEMMA ToIntSmall ==
  ASSUME NEW x \in 0..IntMax
  PROVE  ToInt(x) = x
  BY ContextAssumption DEF ToInt

LEMMA ToIntLess ==
  ASSUME NEW x \in Nat
  PROVE  ToInt(x) \in Int /\ ToInt(x) <= x
<1> DEFINE w == 2 * (IntMax + 1)
           y == x + IntMax + 1
<1>1. w \in Nat /\ w > 0 /\ y \in Nat
  BY ContextAssumption
<1>2. y % w \in Int /\ y % w <= y
  <2> HIDE DEF w, y
  <2> QED BY <1>1
<1> QED BY <1>2, ContextAssumption DEF ToInt

LEMMA ContextSizeType ==
  /\ ContextSize \in Nat
  /\ SizeofContext <= ContextSize
  /\ ContextSize % SizeofComplex = 0
<1> DEFINE r == SizeofContext % SizeofComplex
           q == SizeofContext \div SizeofComplex
<1>1. /\ SizeofContext \in Nat /\ SizeofComplex \in Nat \ {0}
      /\ r \in 0..(SizeofComplex - 1) /\ q \in Nat
      /\ SizeofContext = SizeofComplex * q + r
  <2>1. SizeofContext \in Nat /\ SizeofComplex \in Nat \ {0}
    BY ContextAssumption
  <2> QED BY <2>1
<1>2. CASE r = 0
  BY <1>1, <1>2 DEF ContextSize
<1>3. CASE r # 0
  <2>1. ContextSize = SizeofContext + SizeofComplex - r
    BY <1>3 DEF ContextSize
  <2> HIDE DEF r, q
  <2>2. ContextSize = SizeofComplex * (q + 1)
    BY <1>1, <2>1
  <2>3. \A z \in Nat : (SizeofComplex * z) % SizeofComplex = 0
    BY <1>1
  <2>4. ContextSize % SizeofComplex = 0
    BY <1>1, <2>2, <2>3
  <2> QED BY <1>1, <2>1, <2>4
<1> QED BY <1>2, <1>3

(* What CkFftInit takes for the size of a context is its size.              *)
LEMMA SizeExact ==
  ASSUME NoOverflow, NEW n \in MaxCounts, n > 0, NEW d \in RealDirections
  PROVE  /\ ReqBufSize(n, d) = BytesNeeded(n, d)
         /\ BytesNeeded(n, d) \in Nat
<1> DEFINE s == n * SizeofComplex
<1>1. s \in Nat /\ ContextSize \in Nat /\ IntMax \in Nat
  BY ContextAssumption, ContextSizeType
<1>2. ContextSize + 2 * s <= IntMax
  BY DEF NoOverflow
<1> HIDE DEF s
<1>3. s \in 0..IntMax /\ ContextSize + s \in 0..IntMax /\ ContextSize + s + s \in 0..IntMax
  BY <1>1, <1>2
<1>4. /\ ToInt(s) = s /\ ToInt(ContextSize + s) = ContextSize + s
      /\ ToInt(ContextSize + s + s) = ContextSize + s + s
  BY <1>3, ToIntSmall
<1>5. ReqBufSize(n, d) = IF d = Both THEN ContextSize + s + s ELSE ContextSize + s
  BY <1>4 DEF ReqBufSize, s
<1>6. BytesNeeded(n, d) = IF d = Both THEN ContextSize + 2 * s ELSE ContextSize + 1 * s
  BY DEF BytesNeeded, s
<1> QED BY <1>1, <1>3, <1>5, <1>6

-----------------------------------------------------------------------------
(***************************************************************************)
(* The inductive invariant: a live context is the object that create built  *)
(* for some maxCount and direction it accepts, in a block that has the      *)
(* bytes they need; and the blocks belong to whom they should.              *)
(***************************************************************************)
Built(b) ==
  \E n \in MaxCounts, d \in RealDirections, u \in Blocks \cup {NULL} :
    /\ n > 0
    /\ object[b] = NewObject(n, d, u)
    /\ BytesNeeded(n, d) <= size[b]

Shape ==
  /\ DOMAIN owner = Blocks
  /\ size \in [Blocks -> Nat]
  /\ DOMAIN object = Blocks
  /\ live \subseteq Blocks

IInv ==
  /\ Shape
  /\ \A b \in live : Built(b)
  /\ Ownership

(* A context that create built in a block with the bytes it needs fits it.  *)
LEMMA BuiltFits ==
  ASSUME Shape, live \subseteq {b \in Blocks : Built(b)}
  PROVE  TablesFit
<1> SUFFICES ASSUME NEW b \in live
    PROVE  LET o == object[b]
               End(table) == table + o.maxCount * SizeofComplex
           IN  /\ SizeofContext <= size[b]
               /\ \A table \in {o.fwdExpTable, o.invExpTable} \ {NULL} :
                    /\ SizeofContext <= table /\ End(table) <= size[b]
                    /\ table % SizeofComplex = 0
               /\ o.fwdExpTable # NULL /\ o.invExpTable # NULL =>
                    \/ End(o.fwdExpTable) <= o.invExpTable
                    \/ End(o.invExpTable) <= o.fwdExpTable
  BY DEF TablesFit
<1> DEFINE o == object[b]
<1>1. PICK n \in MaxCounts, d \in RealDirections, u \in Blocks \cup {NULL} :
        /\ n > 0
        /\ object[b] = NewObject(n, d, u)
        /\ BytesNeeded(n, d) <= size[b]
  BY DEF Built
<1> DEFINE s == n * SizeofComplex
<1>2. /\ n \in Nat /\ s \in Nat /\ size[b] \in Nat /\ SizeofComplex \in Nat \ {0}
      /\ SizeofContext \in Nat
  BY <1>1, ContextAssumption DEF Shape
<1>3. ContextSize + s <= size[b] /\ (d = Both => ContextSize + s + s <= size[b])
  <2>1. BytesNeeded(n, d) = IF d = Both THEN ContextSize + 2 * s ELSE ContextSize + 1 * s
    BY DEF BytesNeeded
  <2> HIDE DEF s
  <2> QED BY <1>1, <1>2, <2>1, ContextSizeType
<1>4. (ContextSize + s) % SizeofComplex = 0
  <2> DEFINE q == ContextSize \div SizeofComplex
  <2>1. q \in Nat /\ ContextSize = SizeofComplex * q
    BY <1>2, ContextSizeType
  <2> HIDE DEF q
  <2>2. ContextSize + s = SizeofComplex * (q + n)
    BY <1>2, <2>1
  <2>3. \A z \in Nat : (SizeofComplex * z) % SizeofComplex = 0
    BY <1>2
  <2>4. q + n \in Nat
    BY <1>2, <2>1
  <2> QED BY <2>2, <2>3, <2>4
<1>5. /\ o.maxCount = n
      /\ o.fwdExpTable \in {NULL, ContextSize}
      /\ \/ o.invExpTable \in {NULL, ContextSize} /\ d # Both
            /\ (o.fwdExpTable = NULL \/ o.invExpTable = NULL)
         \/ o.invExpTable = ContextSize + s /\ d = Both
  <2>1. o = NewObject(n, d, u)
    BY <1>1
  <2>2. Both # Inverse /\ Both # Forward /\ Forward # Inverse
    BY DEF Both, Inverse, Forward
  <2>3. CASE d = Inverse
    BY <2>1, <2>2, <2>3 DEF NewObject
  <2>4. CASE d = Both
    BY <2>1, <2>2, <2>4 DEF NewObject
  <2>5. CASE d = Forward
    BY <2>1, <2>2, <2>5 DEF NewObject
  <2> QED BY <2>3, <2>4, <2>5 DEF RealDirections
<1> HIDE DEF o, s
<1>6. /\ SizeofContext <= size[b]
      /\ \A table \in {o.fwdExpTable, o.invExpTable} \ {NULL} :
           /\ SizeofContext <= table /\ table + s <= size[b]
           /\ table % SizeofComplex = 0
      /\ o.fwdExpTable # NULL /\ o.invExpTable # NULL =>
           o.fwdExpTable + s <= o.invExpTable
  BY <1>2, <1>3, <1>4, <1>5, ContextSizeType
<1> QED BY <1>5, <1>6 DEF o, s

-----------------------------------------------------------------------------
(* The guards of CkFftInit leave the directions the code knows.             *)
LEMMA ValidInitFacts ==
  ASSUME NEW n, NEW d, NEW b, NEW s, ValidInit(n, d, b, s)
  PROVE  n > 0 /\ d \in RealDirections
  BY DEF ValidInit, RealDirections

(* Building a context in a block that is large enough.                      *)
LEMMA CreateStep ==
  ASSUME IInv, NEW c \in Clients, NEW b \in Blocks, NEW contents,
         NEW n \in MaxCounts, NEW d \in RealDirections, NEW u \in Blocks \cup {NULL},
         n > 0, Create(c, b, contents, n, d, u),
         size' \in [Blocks -> Nat], \A x \in Blocks \ {b} : size'[x] = size[x],
         BytesNeeded(n, d) <= size'[b],
         DOMAIN owner' = Blocks, \A x \in Blocks \ {b} : owner'[x] = owner[x],
         owner'[b] = IF u = NULL THEN "library" ELSE "user"
  PROVE  IInv'
<1>1. /\ object' = [object EXCEPT ![b] = NewObject(n, d, u)]
      /\ live' = live \cup {b}
  BY DEF Create
<1>2. Shape'
  BY <1>1 DEF IInv, Shape
<1>3. object'[b] = NewObject(n, d, u) /\ \A x \in Blocks \ {b} : object'[x] = object[x]
  BY <1>1 DEF IInv, Shape
<1>4. ASSUME NEW x \in live' PROVE Built(x)'
  <2>1. CASE x = b
    BY <1>3, <2>1 DEF Built
  <2>2. CASE x # b
    <3>1. x \in live /\ x \in Blocks /\ size'[x] = size[x] /\ object'[x] = object[x]
      BY <1>1, <1>3, <2>2 DEF IInv, Shape
    <3>2. Built(x)
      BY <3>1 DEF IInv
    <3> QED BY <3>1, <3>2 DEF Built
  <2> QED BY <2>1, <2>2
<1>5. object'[b].ownBuf = (u = NULL)
  BY <1>3 DEF NewObject
<1>6. ASSUME NEW x \in Blocks
      PROVE  /\ owner'[x] = "library" <=> x \in live' /\ object'[x].ownBuf
             /\ x \in live' => owner'[x] # "free"
  <2>1. CASE x = b /\ u = NULL
    BY <1>1, <1>5, <2>1
  <2>2. CASE x = b /\ u # NULL
    BY <1>1, <1>5, <2>2
  <2>3. CASE x # b
    BY <1>1, <1>3, <2>3 DEF IInv, Ownership
  <2> QED BY <2>1, <2>2, <2>3
<1> QED BY <1>2, <1>4, <1>6 DEF IInv, Ownership

(* A buffer that create accepts has the bytes it needs.                     *)
LEMMA BufferFits ==
  ASSUME Shape, NoOverflow, NEW c, NEW n \in MaxCounts, NEW d, NEW u \in Blocks \cup {NULL},
         NEW s, InitUserBuf(c, n, d, u, s)
  PROVE  BytesNeeded(n, d) <= size[u]
<1>1. u \in Blocks /\ u # NULL /\ n > 0 /\ d \in RealDirections
  BY ValidInitFacts DEF InitUserBuf
<1>2. s /\ size[u] \in Nat
  BY <1>1 DEF InitUserBuf, ValidInit, Shape
<1>3. ToInt(size[u]) >= ReqBufSize(n, d)
  <2>1. ~(ToInt(size[u]) < ReqBufSize(n, d))
    BY <1>1, <1>2 DEF InitUserBuf, TooSmall
  <2>2. ReqBufSize(n, d) \in Int
    BY <1>1, SizeExact
  <2> QED BY <1>2, <2>1, <2>2, ToIntLess
<1> QED BY <1>1, <1>2, <1>3, SizeExact, ToIntLess

LEMMA StepInit ==
  ASSUME IInv, NoOverflow, NEW c \in Clients, NEW n \in MaxCounts,
         NEW d \in Directions, NEW u \in Blocks \cup {NULL},
         NEW s \in BOOLEAN,
         CkFftInit(c, n, d, u, s)
  PROVE  IInv'
<1>1. CASE \/ InitInvalid(c, n, d, u, s) \/ InitQuery(c, n, d, u, s)
           \/ InitNoMemory(c, n, d, u, s)
  <2>1. UNCHANGED <<owner, size, object, live>>
    BY <1>1 DEF InitInvalid, InitQuery, InitNoMemory
  <2>2. Shape' /\ Ownership'
    BY <2>1 DEF IInv, Shape, Ownership
  <2>3. \A b \in live' : Built(b)'
    BY <2>1 DEF IInv, Built
  <2> QED BY <2>2, <2>3 DEF IInv
<1>2. CASE InitUserBuf(c, n, d, u, s)
  <2>1. /\ u \in Blocks /\ u # NULL /\ owner[u] = "user"
        /\ n > 0 /\ d \in RealDirections
    BY <1>2, ValidInitFacts DEF InitUserBuf
  <2>4. BytesNeeded(n, d) <= size[u]
    BY <1>2, BufferFits DEF IInv
  <2>5. Create(c, u, mem[u], n, d, u) /\ UNCHANGED <<owner, size>>
    BY <1>2 DEF InitUserBuf
  <2> QED BY <2>1, <2>4, <2>5, CreateStep DEF IInv, Shape
<1>3. CASE InitMalloc(c, n, d, u, s)
  <2>1. u = NULL /\ n > 0 /\ d \in RealDirections
    BY <1>3, ValidInitFacts DEF InitMalloc
  <2> DEFINE r == ReqBufSize(n, d)
  <2>2. r = BytesNeeded(n, d) /\ r \in Nat
    BY <2>1, SizeExact
  <2>3. PICK b \in Blocks :
          /\ owner[b] = "free"
          /\ owner' = [owner EXCEPT ![b] = "library"]
          /\ size' = [size EXCEPT ![b] = r]
          /\ Create(c, b, Unwritten(r), n, d, u)
    BY <1>3 DEF InitMalloc
  <2> HIDE DEF r
  <2>4. /\ size' \in [Blocks -> Nat] /\ size'[b] = r
        /\ \A x \in Blocks \ {b} : size'[x] = size[x]
    BY <2>2, <2>3 DEF IInv, Shape
  <2>5. /\ DOMAIN owner' = Blocks /\ owner'[b] = "library"
        /\ \A x \in Blocks \ {b} : owner'[x] = owner[x]
    BY <2>3 DEF IInv, Shape
  <2>6. BytesNeeded(n, d) <= size'[b]
    BY <2>2, <2>4
  <2> QED BY <2>1, <2>3, <2>4, <2>5, <2>6, CreateStep
<1> QED BY <1>1, <1>2, <1>3 DEF CkFftInit

(* Freeing a block that holds no live context any more.                     *)
LEMMA FreeStep ==
  ASSUME IInv, NEW b \in Blocks, Free(b), live' = live \ {b}
  PROVE  IInv'
<1>1. /\ Shape' /\ owner'[b] = "free"
      /\ \A x \in Blocks \ {b} :
           owner'[x] = owner[x] /\ size'[x] = size[x] /\ object'[x] = object[x]
  BY DEF IInv, Shape, Free
<1>2. ASSUME NEW x \in live' PROVE Built(x)'
  <2>1. x \in live /\ x \in Blocks \ {b}
    BY DEF IInv, Shape
  <2> QED BY <1>1, <2>1 DEF IInv, Built
<1>3. Ownership'
  BY <1>1 DEF IInv, Ownership
<1> QED BY <1>1, <1>2, <1>3 DEF IInv

LEMMA StepClient ==
  ASSUME IInv, NEW b \in Blocks,
         CkFftShutdown(b) \/ ClientFree(b) \/ \E c \in Clients : ClientAlloc(c, b)
  PROVE  IInv'
<1>1. CASE CkFftShutdown(b)
  <2>1. CASE object[b].ownBuf
    BY <1>1, <2>1, FreeStep DEF CkFftShutdown
  <2>2. CASE ~object[b].ownBuf
    <3>1. /\ b \in live /\ live' = live \ {b}
          /\ UNCHANGED <<owner, size, object>>
      BY <1>1, <2>2 DEF CkFftShutdown
    <3>2. Shape' /\ Ownership'
      BY <2>2, <3>1 DEF IInv, Shape, Ownership
    <3>3. \A x \in live' : Built(x)'
      BY <3>1 DEF IInv, Built
    <3> QED BY <3>2, <3>3 DEF IInv
  <2> QED BY <2>1, <2>2
<1>2. CASE ClientFree(b)
  BY <1>2, FreeStep DEF ClientFree
<1>3. ASSUME NEW c \in Clients, ClientAlloc(c, b) PROVE IInv'
  <2>1. PICK n \in Nat :
          /\ owner[b] = "free" /\ owner' = [owner EXCEPT ![b] = "user"]
          /\ size' = [size EXCEPT ![b] = n] /\ UNCHANGED <<object, live>>
    <3>1. 1..HeapLimit \subseteq Nat
      BY ContextAssumption
    <3> QED BY <1>3, <3>1 DEF ClientAlloc
  <2>2. b \notin live
    BY <2>1 DEF IInv, Ownership
  <2>3. /\ Shape' /\ owner'[b] = "user"
        /\ \A x \in Blocks \ {b} : owner'[x] = owner[x] /\ size'[x] = size[x]
    BY <2>1 DEF IInv, Shape
  <2>4. ASSUME NEW x \in live' PROVE Built(x)'
    <3>1. x \in live /\ x \in Blocks \ {b}
      BY <2>1, <2>2 DEF IInv, Shape
    <3> QED BY <2>1, <2>3, <3>1 DEF IInv, Built
  <2>5. Ownership'
    BY <2>1, <2>2, <2>3 DEF IInv, Ownership
  <2> QED BY <2>3, <2>4, <2>5 DEF IInv
<1> QED BY <1>1, <1>2, <1>3

LEMMA InitIInv == Init => IInv
  BY DEF Init, IInv, Shape, Ownership

THEOREM InductiveInvariant ==
  ASSUME NoOverflow
  PROVE  Spec => []IInv
<1>1. IInv /\ [Next]_vars => IInv'
  <2> SUFFICES ASSUME IInv, [Next]_vars PROVE IInv'
    OBVIOUS
  <2>1. ASSUME NEW c \in Clients, ClientInit(c) PROVE IInv'
    BY <2>1, StepInit DEF ClientInit
  <2>2. CASE UNCHANGED vars
    <3>1. UNCHANGED <<owner, size, object, live>>
      BY <2>2 DEF vars
    <3>2. Shape' /\ Ownership'
      BY <3>1 DEF IInv, Shape, Ownership
    <3>3. \A b \in live' : Built(b)'
      BY <3>1 DEF IInv, Built
    <3> QED BY <3>2, <3>3 DEF IInv
  <2> QED BY <2>1, <2>2, StepClient DEF Next
<1> QED BY InitIInv, <1>1, PTL DEF Spec

(* Every context the library hands out fits its block, with either table or *)
(* both, in the caller's memory or the library's, when int holds the sizes. *)
THEOREM ContextsFit ==
  ASSUME NoOverflow
  PROVE  Spec => []TablesFit
<1>1. IInv => TablesFit
  BY BuiltFits DEF IInv, Shape
<1> QED BY <1>1, InductiveInvariant, PTL

(* The library holds exactly the memory of its live contexts.               *)
THEOREM NoLeak ==
  ASSUME NoOverflow
  PROVE  Spec => []Ownership
<1>1. IInv => Ownership
  BY DEF IInv
<1> QED BY <1>1, InductiveInvariant, PTL

-----------------------------------------------------------------------------
(***************************************************************************)
(* The sizes answered.  An answer once given stays until the next one.      *)
(***************************************************************************)
AnswerInv == DOMAIN answer = Clients /\ AnswerExact

LEMMA StepAnswer ==
  ASSUME AnswerInv, NoOverflow, [Next]_vars
  PROVE  AnswerInv'
<1>1. CASE UNCHANGED answer
  BY <1>1 DEF AnswerInv, AnswerExact
<1>2. ASSUME NEW c \in Clients, ClientInit(c), answer' # answer PROVE AnswerInv'
  <2>1. PICK n \in MaxCounts, d \in Directions, u \in Blocks \cup {NULL}, s \in BOOLEAN :
          InitQuery(c, n, d, u, s)
    BY <1>2 DEF ClientInit, CkFftInit, InitInvalid, InitUserBuf, InitMalloc, InitNoMemory
  <2>2. /\ n > 0 /\ d \in RealDirections
        /\ answer' = [answer EXCEPT ![c] = [maxCount |-> n, direction |-> d,
                                            size |-> ReqBufSize(n, d)]]
    BY <2>1, ValidInitFacts DEF InitQuery
  <2>3. ReqBufSize(n, d) = BytesNeeded(n, d)
    BY <2>2, SizeExact
  <2> QED BY <2>2, <2>3 DEF AnswerInv, AnswerExact
<1>3. ASSUME NEW b \in Blocks,
             CkFftShutdown(b) \/ ClientFree(b) \/ \E c \in Clients : ClientAlloc(c, b)
      PROVE  UNCHANGED answer
  BY <1>3 DEF CkFftShutdown, ClientFree, ClientAlloc
<1> QED BY <1>1, <1>2, <1>3 DEF Next, vars

(* A client is told the number of bytes that a context takes, to the byte,  *)
(* when int holds the sizes.                                                *)
THEOREM SizesExact ==
  ASSUME NoOverflow
  PROVE  Spec => []AnswerExact
<1>1. Init => AnswerInv
  BY DEF Init, AnswerInv, AnswerExact
<1>2. AnswerInv /\ [Next]_vars => AnswerInv'
  BY StepAnswer
<1>3. AnswerInv => AnswerExact
  BY DEF AnswerInv
<1> QED BY <1>1, <1>2, <1>3, PTL DEF Spec

-----------------------------------------------------------------------------
(* A step of the library or of a client frees a caller's buffer only when   *)
(* it is ClientFree.                                                        *)
LEMMA StepKeepsUserMemory ==
  ASSUME IInv, [Next]_vars, NEW b \in Blocks, owner[b] = "user", owner'[b] # "user"
  PROVE  ClientFree(b)
<1>1. owner' # owner
  OBVIOUS
<1>2. ASSUME NEW c \in Clients, ClientInit(c) PROVE FALSE
  <2>1. PICK n \in MaxCounts, d \in Directions, u \in Blocks \cup {NULL}, s \in BOOLEAN :
          InitMalloc(c, n, d, u, s)
    BY <1>1, <1>2 DEF ClientInit, CkFftInit, InitInvalid, InitQuery, InitUserBuf,
                      InitNoMemory
  <2>2. PICK x \in Blocks :
          owner[x] = "free" /\ owner' = [owner EXCEPT ![x] = "library"]
    BY <2>1 DEF InitMalloc
  <2> QED BY <2>2 DEF IInv, Shape
<1>3. ASSUME NEW c \in Clients, NEW x \in Blocks, ClientAlloc(c, x) PROVE FALSE
  BY <1>3 DEF ClientAlloc, IInv, Shape
<1>4. ASSUME NEW x \in Blocks, CkFftShutdown(x) PROVE FALSE
  <2>1. x \in live /\ object[x].ownBuf /\ owner' = [owner EXCEPT ![x] = "free"]
    BY <1>1, <1>4 DEF CkFftShutdown, Free
  <2>2. owner[x] = "library"
    BY <2>1 DEF IInv, Ownership
  <2> QED BY <2>1, <2>2 DEF IInv, Shape
<1>5. ASSUME NEW x \in Blocks, ClientFree(x) PROVE x = b
  BY <1>5 DEF ClientFree, Free, IInv, Shape
<1> QED BY <1>1, <1>2, <1>3, <1>4, <1>5 DEF Next, vars

(* A buffer of the caller is freed by the caller only, never by a shutdown, *)
(* when int holds the sizes.                                                *)
THEOREM CallersKeepBuffers ==
  ASSUME NoOverflow
  PROVE  Spec => UserMemoryKept
<1> DEFINE A == \A b \in Blocks :
                  owner[b] = "user" /\ owner'[b] # "user" => ClientFree(b)
<1>1. IInv /\ [Next]_vars => A
  BY StepKeepsUserMemory
<1>2. Spec => [][A]_vars
  BY <1>1, InductiveInvariant, PTL DEF Spec
<1> QED BY <1>2 DEF UserMemoryKept

-----------------------------------------------------------------------------
(***************************************************************************)
(* What the buffers' sizes decide.  Every block has a size that int holds   *)
(* when malloc grants no more than INT_MAX bytes; the run                   *)
(* ContextLargeBuffer shows what happens otherwise.                         *)
(***************************************************************************)
SizesInv == size \in [Blocks -> 0..IntMax] /\ DOMAIN ret = Clients

LEMMA StepSizes ==
  ASSUME SizesInv, HeapLimit <= IntMax, [Next]_vars
  PROVE  SizesInv'
<1>1. IntMax \in Nat /\ HeapLimit \in Nat
  BY ContextAssumption
<1>2. ASSUME NEW c \in Clients, ClientInit(c) PROVE SizesInv'
  <2>1. PICK n \in MaxCounts, d \in Directions, u \in Blocks \cup {NULL}, s \in BOOLEAN :
          CkFftInit(c, n, d, u, s)
    BY <1>2 DEF ClientInit
  <2>2. CASE InitMalloc(c, n, d, u, s)
    <3>1. PICK m \in 0..HeapLimit, b \in Blocks :
            /\ size' = [size EXCEPT ![b] = m]
            /\ ret' = [ret EXCEPT ![c] = b]
      BY <2>2 DEF InitMalloc, Create
    <3> QED BY <1>1, <3>1 DEF SizesInv
  <2>3. CASE ~InitMalloc(c, n, d, u, s)
    BY <2>1, <2>3 DEF CkFftInit, InitInvalid, InitQuery, InitUserBuf, InitNoMemory,
                      Create, SizesInv
  <2> QED BY <2>2, <2>3
<1>3. ASSUME NEW c \in Clients, NEW b \in Blocks, ClientAlloc(c, b) PROVE SizesInv'
  <2>1. PICK m \in 1..HeapLimit : size' = [size EXCEPT ![b] = m] /\ UNCHANGED ret
    BY <1>3 DEF ClientAlloc
  <2> QED BY <1>1, <2>1 DEF SizesInv
<1>4. ASSUME NEW b \in Blocks, CkFftShutdown(b) \/ ClientFree(b) PROVE SizesInv'
  BY <1>1, <1>4 DEF CkFftShutdown, ClientFree, Free, SizesInv
<1>5. CASE UNCHANGED vars
  BY <1>5 DEF vars, SizesInv
<1> QED BY <1>2, <1>3, <1>4, <1>5 DEF Next

LEMMA AcceptsEnough ==
  ASSUME SizesInv, NoOverflow, NEW c \in Clients, NEW n \in MaxCounts,
         NEW d \in Directions, NEW b \in Blocks,
         ValidInit(n, d, b, TRUE), CkFftInit(c, n, d, b, TRUE)
  PROVE  ret'[c] = b <=> size[b] >= BytesNeeded(n, d)
<1>1. b # NULL
  BY ContextAssumption
<1>2. /\ ToInt(size[b]) = size[b] /\ ReqBufSize(n, d) = BytesNeeded(n, d)
      /\ size[b] \in Int /\ BytesNeeded(n, d) \in Int
  <2>1. size[b] \in 0..IntMax /\ IntMax \in Nat
    BY ContextAssumption DEF SizesInv
  <2>2. n > 0 /\ d \in RealDirections
    BY ValidInitFacts
  <2>3. ReqBufSize(n, d) = BytesNeeded(n, d) /\ BytesNeeded(n, d) \in Nat
    BY <2>2, SizeExact
  <2> QED BY <2>1, <2>3, ToIntSmall
<1>3. TooSmall(n, d, b, TRUE) <=> ~(size[b] >= BytesNeeded(n, d))
  BY <1>1, <1>2 DEF TooSmall
<1>4. CASE InitQuery(c, n, d, b, TRUE)
  BY <1>1, <1>3, <1>4 DEF InitQuery, SizesInv
<1>5. CASE InitUserBuf(c, n, d, b, TRUE)
  BY <1>3, <1>5 DEF InitUserBuf, Create, SizesInv
<1>6. InitQuery(c, n, d, b, TRUE) \/ InitUserBuf(c, n, d, b, TRUE)
  BY <1>1 DEF CkFftInit, InitInvalid, InitMalloc, InitNoMemory
<1> QED BY <1>4, <1>5, <1>6

(* A caller's buffer is taken exactly when the context fits, when int holds *)
(* the sizes of the tables and of the buffers.                              *)
THEOREM BuffersJudged ==
  ASSUME NoOverflow, HeapLimit <= IntMax
  PROVE  Spec => BufferAccepted
<1> DEFINE A ==
      \A c \in Clients, maxCount \in MaxCounts, direction \in Directions, b \in Blocks :
        /\ owner[b] = "user" /\ b \notin live
        /\ ValidInit(maxCount, direction, b, TRUE)
        /\ CkFftInit(c, maxCount, direction, b, TRUE)
        => (ret'[c] = b <=> size[b] >= BytesNeeded(maxCount, direction))
<1>1. Init => SizesInv
  BY ContextAssumption DEF Init, SizesInv
<1>2. SizesInv /\ [Next]_vars => SizesInv'
  BY StepSizes
<1>3. SizesInv => A
  BY AcceptsEnough
<1>4. Spec => [][A]_vars
  BY <1>1, <1>2, <1>3, PTL DEF Spec
<1> QED BY <1>4, PTL DEF BufferAccepted

-----------------------------------------------------------------------------
(***************************************************************************)
(* The tables.  Intact(m, o): memory m holds the tables of object o.        *)
(***************************************************************************)
Intact(m, o) ==
  \A i \in 0..(o.maxCount - 1) :
    /\ o.fwdExpTable # NULL =>
         m[(o.fwdExpTable + i * SizeofComplex) \div SizeofComplex] = Twiddle(i, o.maxCount)
    /\ o.invExpTable # NULL =>
         m[(o.invExpTable + i * SizeofComplex) \div SizeofComplex]
           = conjugate(Twiddle(i, o.maxCount))

(* A block of n bytes has n \div SizeofComplex whole elements.              *)
Elements(n) == 0..(n \div SizeofComplex - 1)

MemShape == DOMAIN mem = Blocks /\ \A b \in Blocks : DOMAIN mem[b] = Elements(size[b])

TablesInv == MemShape /\ \A b \in live : Intact(mem[b], object[b])

(* Element i of a table that starts at element q of its block.              *)
LEMMA TableElement ==
  ASSUME NEW q \in Nat, NEW n \in Nat, NEW i \in 0..(n - 1)
  PROVE  /\ (q * SizeofComplex + i * SizeofComplex) \div SizeofComplex = q + i
         /\ (q + i) * SizeofComplex \in
              (q * SizeofComplex)..(q * SizeofComplex + n * SizeofComplex - 1)
         /\ ((q + i) * SizeofComplex - q * SizeofComplex) \div SizeofComplex = i
<1>1. SizeofComplex \in Nat \ {0} /\ i \in Nat /\ n \in Nat
  BY ContextAssumption
<1>2. \A z \in Nat : (SizeofComplex * z) \div SizeofComplex = z
  BY <1>1
<1> DEFINE qs == q * SizeofComplex
           is == i * SizeofComplex
           ns == n * SizeofComplex
<1>3. /\ qs \in Nat /\ is \in Nat /\ ns \in Nat
      /\ (q + i) * SizeofComplex = qs + is
      /\ qs + is = SizeofComplex * (q + i) /\ is = SizeofComplex * i
  BY <1>1
<1>4. is + SizeofComplex <= ns
  <2>1. ns = is + (n - i) * SizeofComplex
    BY <1>1
  <2>2. (n - i) * SizeofComplex = SizeofComplex + (n - i - 1) * SizeofComplex
    BY <1>1
  <2>3. (n - i - 1) * SizeofComplex \in Nat
    BY <1>1
  <2> HIDE DEF is, ns
  <2> QED BY <1>1, <1>3, <2>1, <2>2, <2>3
<1>5. (qs + is) \div SizeofComplex = q + i /\ is \div SizeofComplex = i
  BY <1>1, <1>2, <1>3
<1> HIDE DEF qs, is, ns
<1>6. (q + i) * SizeofComplex \in qs..(qs + ns - 1)
  BY <1>1, <1>3, <1>4
<1>7. (q + i) * SizeofComplex - qs = is
  BY <1>3
<1> QED BY <1>5, <1>6, <1>7 DEF qs, is, ns

(* The tables start at whole elements of their block and end inside it.     *)
LEMMA TablesPlaced ==
  ASSUME NEW n \in MaxCounts, n > 0, NEW d \in RealDirections,
         NEW u \in Blocks \cup {NULL}, NEW bytes \in Nat, BytesNeeded(n, d) <= bytes
  PROVE  LET o == NewObject(n, d, u)
             q == ContextSize \div SizeofComplex
         IN  /\ SizeofComplex \in Nat \ {0} /\ n \in Nat /\ q \in Nat
             /\ o.maxCount = n /\ o.fwdExpTable \in {NULL, q * SizeofComplex}
             /\ \/ o.invExpTable = NULL
                \/ o.invExpTable = q * SizeofComplex /\ d # Both /\ o.fwdExpTable = NULL
                \/ o.invExpTable = (q + n) * SizeofComplex /\ d = Both
             /\ q + n <= bytes \div SizeofComplex
             /\ d = Both => q + n + n <= bytes \div SizeofComplex
<1> DEFINE o == NewObject(n, d, u)
           q == ContextSize \div SizeofComplex
           s == n * SizeofComplex
<1>1. /\ SizeofComplex \in Nat \ {0} /\ n \in Nat /\ q \in Nat /\ s \in Nat
      /\ ContextSize \in Nat /\ ContextSize = q * SizeofComplex
  BY ContextAssumption, ContextSizeType
<1>2. /\ o.maxCount = n /\ o.fwdExpTable \in {NULL, q * SizeofComplex}
      /\ \/ o.invExpTable = NULL
         \/ o.invExpTable = q * SizeofComplex /\ d # Both /\ o.fwdExpTable = NULL
         \/ o.invExpTable = (q + n) * SizeofComplex /\ d = Both
  <2>1. Both # Inverse /\ Both # Forward /\ Forward # Inverse
    BY DEF Both, Inverse, Forward
  <2>2. ContextSize + s = (q + n) * SizeofComplex
    BY <1>1
  <2> QED BY <1>1, <2>1, <2>2 DEF NewObject, RealDirections
<1>3. /\ q + n <= bytes \div SizeofComplex
      /\ d = Both => q + n + n <= bytes \div SizeofComplex
  <2>1. \A z \in Nat : z * SizeofComplex <= bytes => z <= bytes \div SizeofComplex
    BY <1>1
  <2>2. (q + n) * SizeofComplex = ContextSize + s
    BY <1>1
  <2>3. (q + n + n) * SizeofComplex = ContextSize + 2 * s
    BY <1>1
  <2>4. BytesNeeded(n, d) = IF d = Both THEN ContextSize + 2 * s ELSE ContextSize + 1 * s
    BY DEF BytesNeeded
  <2>5. /\ ContextSize + s <= bytes
        /\ d = Both => ContextSize + 2 * s <= bytes
    <3> HIDE DEF s
    <3> QED BY <1>1, <2>4
  <2> QED BY <1>1, <2>1, <2>2, <2>3, <2>5
<1> HIDE DEF o, q, s
<1> QED BY <1>1, <1>2, <1>3 DEF o, q

(* The loop of create stores inside a block that has the bytes needed.      *)
LEMMA StoredInBlock ==
  ASSUME NEW n \in MaxCounts, n > 0, NEW d \in RealDirections,
         NEW u \in Blocks \cup {NULL}, NEW bytes \in Nat, BytesNeeded(n, d) <= bytes
  PROVE  Stored(NewObject(n, d, u)) \subseteq Elements(bytes)
<1> DEFINE o == NewObject(n, d, u)
           q == ContextSize \div SizeofComplex
           k == bytes \div SizeofComplex
<1>1. /\ SizeofComplex \in Nat \ {0} /\ n \in Nat /\ q \in Nat
      /\ o.maxCount = n /\ o.fwdExpTable \in {NULL, q * SizeofComplex}
      /\ \/ o.invExpTable = NULL
         \/ o.invExpTable = q * SizeofComplex
         \/ o.invExpTable = (q + n) * SizeofComplex /\ d = Both
      /\ q + n <= k
      /\ d = Both => q + n + n <= k
  BY TablesPlaced
<1>2. k \in Nat /\ \A z \in Nat : (z * SizeofComplex) \div SizeofComplex = z
  <2>1. \A z \in Nat : z * SizeofComplex = SizeofComplex * z
    BY <1>1
  <2> QED BY <1>1, <2>1
<1> HIDE DEF o, q, k
<1> SUFFICES ASSUME NEW table \in {o.fwdExpTable, o.invExpTable} \ {NULL},
                    NEW i \in 0..(n - 1)
             PROVE  table \div SizeofComplex + i \in 0..(k - 1)
  BY <1>1 DEF Stored, Elements, o, k
<1>3. table \div SizeofComplex \in {q, q + n}
      /\ table \div SizeofComplex + n <= k
  <2>1. CASE table = q * SizeofComplex
    BY <1>1, <1>2, <2>1
  <2>2. CASE table = (q + n) * SizeofComplex /\ d = Both
    <3>1. q + n \in Nat /\ q + n + n <= k
      BY <1>1, <2>2
    <3> QED BY <1>2, <2>2, <3>1
  <2> QED BY <1>1, <2>1, <2>2
<1> DEFINE e == table \div SizeofComplex
<1>4. e \in Nat
  BY <1>1, <1>3
<1> HIDE DEF e
<1> QED BY <1>1, <1>2, <1>3, <1>4 DEF e

LEMMA FillDomain ==
  ASSUME NEW n \in MaxCounts, n > 0, NEW d \in RealDirections,
         NEW u \in Blocks \cup {NULL}, NEW bytes \in Nat, BytesNeeded(n, d) <= bytes,
         NEW contents, DOMAIN contents = Elements(bytes)
  PROVE  DOMAIN Fill(contents, NewObject(n, d, u)) = Elements(bytes)
<1>1. Stored(NewObject(n, d, u)) \subseteq Elements(bytes)
  BY StoredInBlock
<1> QED BY <1>1 DEF Fill

(* It fills both tables of the object it has built.                         *)
LEMMA FillIntact ==
  ASSUME NEW n \in MaxCounts, n > 0, NEW d \in RealDirections,
         NEW u \in Blocks \cup {NULL}, NEW bytes \in Nat, BytesNeeded(n, d) <= bytes,
         NEW contents, DOMAIN contents = Elements(bytes)
  PROVE  Intact(Fill(contents, NewObject(n, d, u)), NewObject(n, d, u))
<1> DEFINE o == NewObject(n, d, u)
           q == ContextSize \div SizeofComplex
           m == Fill(contents, o)
<1>1. SizeofComplex \in Nat \ {0} /\ n \in Nat /\ q \in Nat
  BY TablesPlaced
<1>2. /\ o.maxCount = n /\ o.fwdExpTable \in {NULL, q * SizeofComplex}
      /\ \/ o.invExpTable = NULL
         \/ o.invExpTable = q * SizeofComplex /\ d # Both /\ o.fwdExpTable = NULL
         \/ o.invExpTable = (q + n) * SizeofComplex /\ d = Both
  BY TablesPlaced
<1>3. NULL \notin Nat
  BY ContextAssumption
<1>4. /\ q + n <= bytes \div SizeofComplex
      /\ d = Both => q + n + n <= bytes \div SizeofComplex
  BY TablesPlaced
<1> HIDE DEF o, q
<1>5. ASSUME NEW i \in 0..(n - 1), o.fwdExpTable # NULL
      PROVE  m[(o.fwdExpTable + i * SizeofComplex) \div SizeofComplex] = Twiddle(i, n)
  <2>1. o.fwdExpTable = q * SizeofComplex /\ i \in Nat
    BY <1>2, <1>5
  <2>2. /\ (q * SizeofComplex + i * SizeofComplex) \div SizeofComplex = q + i
        /\ InTable(o, o.fwdExpTable, q + i) /\ Entry(o.fwdExpTable, q + i) = i
    BY <1>1, <1>2, <1>5, <2>1, TableElement DEF InTable, Entry
  <2>3. ~InTable(o, o.invExpTable, q + i)
    <3>1. CASE o.invExpTable = NULL
      BY <3>1 DEF InTable
    <3>2. CASE o.invExpTable = (q + n) * SizeofComplex
      <4>1. (q + n) * SizeofComplex = q * SizeofComplex + n * SizeofComplex
        BY <1>1
      <4>2. (q + i) * SizeofComplex \in
              (q * SizeofComplex)..(q * SizeofComplex + n * SizeofComplex - 1)
        BY <1>1, TableElement
      <4> DEFINE a == (q + i) * SizeofComplex
                 z == (q + n) * SizeofComplex
                 ns == n * SizeofComplex
                 qs == q * SizeofComplex
      <4>3. a \in Int /\ z \in Int /\ ns \in Int /\ qs \in Int
        BY <1>1, <2>1
      <4>4. z = qs + ns /\ a \in qs..(qs + ns - 1)
        BY <4>1, <4>2
      <4>5. InTable(o, z, q + i) => a \in z..(z + ns - 1)
        BY <1>2 DEF InTable
      <4> HIDE DEF a, z, ns, qs
      <4>6. ~InTable(o, z, q + i)
        BY <4>3, <4>4, <4>5
      <4> QED BY <3>2, <4>6 DEF z
    <3> QED BY <1>2, <1>5, <3>1, <3>2
  <2>4. q + i \in DOMAIN contents
    BY <1>1, <1>4, <2>1 DEF Elements
  <2>5. m[q + i] = Twiddle(i, n)
    BY <1>2, <2>2, <2>3, <2>4 DEF Fill
  <2> HIDE DEF m
  <2> QED BY <2>1, <2>2, <2>5
<1>6. ASSUME NEW i \in 0..(n - 1), o.invExpTable # NULL
      PROVE  m[(o.invExpTable + i * SizeofComplex) \div SizeofComplex]
               = conjugate(Twiddle(i, n))
  <2>1. PICK p \in Nat :
          o.invExpTable = p * SizeofComplex /\ p + n <= bytes \div SizeofComplex
    <3>1. CASE o.invExpTable = q * SizeofComplex
      BY <1>1, <1>4, <3>1
    <3>2. CASE o.invExpTable = (q + n) * SizeofComplex /\ d = Both
      <4>1. q + n \in Nat /\ (q + n) + n <= bytes \div SizeofComplex
        BY <1>1, <1>4, <3>2
      <4> QED BY <3>2, <4>1
    <3> QED BY <1>2, <1>6, <3>1, <3>2
  <2>2. /\ (p * SizeofComplex + i * SizeofComplex) \div SizeofComplex = p + i
        /\ InTable(o, o.invExpTable, p + i) /\ Entry(o.invExpTable, p + i) = i
    BY <1>1, <1>2, <1>6, <2>1, TableElement DEF InTable, Entry
  <2>3. p + i \in DOMAIN contents
    BY <1>1, <2>1 DEF Elements
  <2>4. m[p + i] = conjugate(Twiddle(i, n))
    BY <1>2, <2>2, <2>3 DEF Fill
  <2> HIDE DEF m
  <2> QED BY <2>1, <2>2, <2>4
<1> QED BY <1>2, <1>5, <1>6 DEF Intact, o

(* A context built in block b; the others lie in other blocks.              *)
LEMMA CreateIntact ==
  ASSUME TablesInv, IInv, NEW c \in Clients, NEW b \in Blocks, NEW contents,
         NEW n \in MaxCounts, NEW d \in RealDirections, NEW u \in Blocks \cup {NULL},
         n > 0, Create(c, b, contents, n, d, u), size' \in [Blocks -> Nat],
         \A x \in Blocks \ {b} : size'[x] = size[x],
         DOMAIN contents = Elements(size'[b]), BytesNeeded(n, d) <= size'[b]
  PROVE  TablesInv'
<1> DEFINE o == NewObject(n, d, u)
           m == Fill(contents, o)
<1>1. /\ object' = [object EXCEPT ![b] = o] /\ mem' = [mem EXCEPT ![b] = m]
      /\ live' = live \cup {b}
  BY DEF Create
<1>2. Intact(m, o)
  BY FillIntact
<1>3. DOMAIN m = Elements(size'[b])
  BY FillDomain
<1> HIDE DEF o, m
<1>4. /\ mem'[b] = m /\ object'[b] = o /\ DOMAIN mem' = Blocks
      /\ \A x \in Blocks \ {b} : mem'[x] = mem[x] /\ object'[x] = object[x]
  BY <1>1 DEF TablesInv, MemShape, IInv, Shape
<1>5. MemShape'
  BY <1>3, <1>4 DEF TablesInv, MemShape, Elements
<1>6. ASSUME NEW x \in live' PROVE Intact(mem'[x], object'[x])
  <2>1. CASE x = b
    BY <1>2, <1>4, <2>1
  <2>2. CASE x # b
    <3>1. x \in live /\ x \in Blocks \ {b}
      BY <1>1, <2>2 DEF IInv, Shape
    <3> QED BY <1>4, <3>1 DEF TablesInv
  <2> QED BY <2>1, <2>2
<1> QED BY <1>5, <1>6 DEF TablesInv

(* Memory that no live context has after the step may be lost.              *)
LEMMA BlockIntact ==
  ASSUME TablesInv, IInv, NEW b \in Blocks, b \notin live', live' \subseteq live,
         DOMAIN mem' = Blocks, DOMAIN mem'[b] = Elements(size'[b]),
         \A x \in Blocks \ {b} :
           mem'[x] = mem[x] /\ size'[x] = size[x] /\ object'[x] = object[x]
  PROVE  TablesInv'
<1>1. MemShape'
  BY DEF TablesInv, MemShape, Elements
<1>2. ASSUME NEW x \in live' PROVE Intact(mem'[x], object'[x])
  <2>1. x \in live /\ x \in Blocks \ {b}
    BY DEF IInv, Shape
  <2> QED BY <2>1 DEF TablesInv
<1> QED BY <1>1, <1>2 DEF TablesInv

LEMMA StepInitTables ==
  ASSUME TablesInv, IInv, NoOverflow, NEW c \in Clients, NEW n \in MaxCounts,
         NEW d \in Directions, NEW u \in Blocks \cup {NULL}, NEW s \in BOOLEAN,
         CkFftInit(c, n, d, u, s)
  PROVE  TablesInv'
<1>1. CASE \/ InitInvalid(c, n, d, u, s) \/ InitQuery(c, n, d, u, s)
           \/ InitNoMemory(c, n, d, u, s)
  <2>1. UNCHANGED <<size, mem, object, live>>
    BY <1>1 DEF InitInvalid, InitQuery, InitNoMemory
  <2> QED BY <2>1 DEF TablesInv, MemShape, Elements, Intact
<1>2. CASE InitUserBuf(c, n, d, u, s)
  <2>1. /\ u \in Blocks /\ u # NULL /\ n > 0 /\ d \in RealDirections
        /\ Create(c, u, mem[u], n, d, u) /\ UNCHANGED <<owner, size>>
    BY <1>2, ValidInitFacts DEF InitUserBuf
  <2>2. BytesNeeded(n, d) <= size[u]
    BY <1>2, BufferFits DEF IInv
  <2>3. DOMAIN mem[u] = Elements(size[u]) /\ size \in [Blocks -> Nat]
    BY <2>1 DEF TablesInv, MemShape, IInv, Shape
  <2> QED BY <2>1, <2>2, <2>3, CreateIntact
<1>3. CASE InitMalloc(c, n, d, u, s)
  <2> DEFINE r == ReqBufSize(n, d)
  <2>1. n > 0 /\ d \in RealDirections /\ u = NULL
    BY <1>3, ValidInitFacts DEF InitMalloc
  <2>2. r = BytesNeeded(n, d) /\ r \in Nat
    BY <2>1, SizeExact
  <2>3. PICK b \in Blocks :
          /\ size' = [size EXCEPT ![b] = r]
          /\ Create(c, b, Unwritten(r), n, d, u)
    BY <1>3 DEF InitMalloc
  <2>4. DOMAIN Unwritten(r) = Elements(r)
    BY DEF Unwritten, Elements
  <2> HIDE DEF r
  <2>5. /\ size' \in [Blocks -> Nat] /\ size'[b] = r
        /\ \A x \in Blocks \ {b} : size'[x] = size[x]
    BY <2>2, <2>3 DEF IInv, Shape
  <2>6. BytesNeeded(n, d) <= size'[b]
    BY <2>2, <2>5
  <2> QED BY <2>1, <2>3, <2>4, <2>5, <2>6, CreateIntact
<1> QED BY <1>1, <1>2, <1>3 DEF CkFftInit

LEMMA StepTables ==
  ASSUME TablesInv, IInv, NoOverflow, [Next]_vars
  PROVE  TablesInv'
<1>1. DOMAIN Unwritten(0) = Elements(0) /\ \A k \in Nat : DOMAIN Unwritten(k) = Elements(k)
  BY DEF Unwritten, Elements
<1>2. ASSUME NEW c \in Clients, ClientInit(c) PROVE TablesInv'
  BY <1>2, StepInitTables DEF ClientInit
<1>3. ASSUME NEW b \in Blocks, Free(b), b \notin live', live' \subseteq live
      PROVE  TablesInv'
  <2>1. /\ size'[b] = 0 /\ mem'[b] = Unwritten(0) /\ DOMAIN mem' = Blocks
        /\ \A x \in Blocks \ {b} :
             mem'[x] = mem[x] /\ size'[x] = size[x] /\ object'[x] = object[x]
    BY <1>3 DEF Free, TablesInv, MemShape, IInv, Shape
  <2> QED BY <1>1, <1>3, <2>1, BlockIntact
<1>4. ASSUME NEW b \in Blocks, CkFftShutdown(b) PROVE TablesInv'
  <2>1. live' = live \ {b}
    BY <1>4 DEF CkFftShutdown
  <2>2. CASE Free(b)
    BY <1>3, <2>1, <2>2
  <2>3. CASE UNCHANGED <<owner, size, mem, object>>
    BY <2>1, <2>3 DEF TablesInv, MemShape, Elements, Intact
  <2> QED BY <1>4, <2>2, <2>3 DEF CkFftShutdown
<1>5. ASSUME NEW b \in Blocks, ClientFree(b) PROVE TablesInv'
  BY <1>3, <1>5 DEF ClientFree
<1>6. ASSUME NEW c \in Clients, NEW b \in Blocks, ClientAlloc(c, b) PROVE TablesInv'
  <2>1. 1..HeapLimit \subseteq Nat
    BY ContextAssumption
  <2>2. PICK k \in Nat :
          /\ owner[b] = "free" /\ size' = [size EXCEPT ![b] = k]
          /\ mem' = [mem EXCEPT ![b] = Unwritten(k)] /\ UNCHANGED <<object, live>>
    BY <1>6, <2>1 DEF ClientAlloc
  <2>3. b \notin live
    BY <2>2 DEF IInv, Ownership
  <2>4. /\ size'[b] = k /\ mem'[b] = Unwritten(k) /\ DOMAIN mem' = Blocks
        /\ \A x \in Blocks \ {b} :
             mem'[x] = mem[x] /\ size'[x] = size[x] /\ object'[x] = object[x]
    BY <2>2 DEF TablesInv, MemShape, IInv, Shape
  <2> QED BY <1>1, <2>2, <2>3, <2>4, BlockIntact
<1>7. CASE UNCHANGED vars
  BY <1>7 DEF vars, TablesInv, MemShape, Elements, Intact
<1> QED BY <1>2, <1>4, <1>5, <1>6, <1>7 DEF Next

(* A live context's tables hold its twiddle factors at every moment, in any *)
(* memory and whatever happens to others, when int holds the sizes.         *)
THEOREM TablesKept ==
  ASSUME NoOverflow
  PROVE  Spec => []TablesIntact
<1>1. Init => TablesInv
  BY DEF Init, TablesInv, MemShape, Elements, Unwritten
<1>2. IInv /\ TablesInv /\ [Next]_vars => TablesInv'
  BY StepTables
<1>3. TablesInv => TablesIntact
  BY DEF TablesInv, TablesIntact, Intact
<1> QED BY <1>1, <1>2, <1>3, InductiveInvariant, PTL DEF Spec

-----------------------------------------------------------------------------
(* The type of the state.  It needs the sizes to fit an int, as the loop of *)
(* create would otherwise store past the end of its block.                  *)
Contents(n) == [Elements(n) -> CkFftComplex \cup {Garbage}]

LEMMA IntMod ==
  ASSUME NEW x \in Int, NEW m \in Nat \ {0}
  PROVE  x % m \in 0..(m - 1)
  OBVIOUS

LEMMA TwiddleFactors ==
  ASSUME NEW i \in Int, NEW n \in Nat \ {0}
  PROVE  Twiddle(i, n) \in CkFftComplex /\ conjugate(Twiddle(i, n)) \in CkFftComplex
<1> DEFINE angle == (i * ((P + 1) \div n)) % (P + 1)
<1>1. P \in Nat \ {0} /\ P + 1 \in Nat \ {0} /\ (P + 1) \div n \in Int
  BY ModulusAssumption
<1>2. i * ((P + 1) \div n) \in Int
  <2>1. \A x, y \in Int : x * y \in Int
    OBVIOUS
  <2> QED BY <1>1, <2>1
<1>3. angle \in 0..P
  <2>1. angle \in 0..(P + 1 - 1)
    BY <1>1, <1>2, IntMod
  <2> HIDE DEF angle
  <2> QED BY <1>1, <2>1
<1> HIDE DEF angle
<1>4. Expi[angle] \in CkFftComplex
  BY <1>3, ExpiAssumption
<1>5. ASSUME NEW a \in CkFftComplex PROVE conjugate(a) \in CkFftComplex
  <2>1. a.real \in 0..(P - 1) /\ -a.imag \in Int
    BY <1>1 DEF CkFftComplex, Float
  <2>2. (-a.imag) % P \in 0..(P - 1)
    BY <1>1, <2>1, IntMod
  <2> QED BY <2>1, <2>2 DEF conjugate, CkFftComplex, Float
<1> QED BY <1>4, <1>5 DEF Twiddle, angle

LEMMA NewObjectType ==
  ASSUME NEW n \in MaxCounts, n > 0, NEW d, NEW u
  PROVE  NewObject(n, d, u) \in Context /\ NewObject(n, d, u).maxCount = n
<1>1. n * SizeofComplex \in Nat /\ ContextSize \in Nat /\ n \in Nat /\ NEON \in BOOLEAN
  BY ContextAssumption, ContextSizeType
<1> QED BY <1>1 DEF NewObject, Context

LEMMA FillType ==
  ASSUME NEW k \in Nat, NEW contents \in Contents(k),
         NEW o \in Context, o.maxCount # 0, Stored(o) \subseteq Elements(k)
  PROVE  Fill(contents, o) \in Contents(k)
<1>1. o.maxCount \in Nat \ {0} /\ SizeofComplex \in Nat \ {0}
  BY ContextAssumption DEF Context
<1>2. ASSUME NEW e \in Elements(k), NEW table \in Nat \cup {NULL}, InTable(o, table, e)
      PROVE  Entry(table, e) \in Int
  <2>1. table \in Nat /\ e \in Int /\ e * SizeofComplex - table \in Int
    BY <1>1, <1>2 DEF InTable, Elements
  <2> DEFINE x == e * SizeofComplex - table
  <2> HIDE DEF x
  <2>2. x \in Int => x \div SizeofComplex \in Int
    BY <1>1
  <2> QED BY <2>1, <2>2 DEF Entry, x
<1>3. o.fwdExpTable \in Nat \cup {NULL} /\ o.invExpTable \in Nat \cup {NULL}
  BY DEF Context
<1>4. \A e \in Elements(k) :
        /\ InTable(o, o.fwdExpTable, e) =>
             Twiddle(Entry(o.fwdExpTable, e), o.maxCount) \in CkFftComplex
        /\ InTable(o, o.invExpTable, e) =>
             conjugate(Twiddle(Entry(o.invExpTable, e), o.maxCount)) \in CkFftComplex
  BY <1>1, <1>2, <1>3, TwiddleFactors
<1>5. DOMAIN contents \cup Stored(o) = Elements(k)
      /\ \A e \in Elements(k) : contents[e] \in CkFftComplex \cup {Garbage}
  BY DEF Contents
<1> QED BY <1>4, <1>5 DEF Fill, Contents

LEMMA CreateType ==
  ASSUME TypeOK, NEW c \in Clients, NEW b \in Blocks, NEW n \in MaxCounts, n > 0,
         NEW d \in RealDirections, NEW u \in Blocks \cup {NULL}, size' \in [Blocks -> Nat],
         owner' \in [Blocks -> {"free", "user", "library"}], BytesNeeded(n, d) <= size'[b],
         NEW contents \in Contents(size'[b]), \A x \in Blocks \ {b} : size'[x] = size[x],
         Create(c, b, contents, n, d, u), UNCHANGED answer, DOMAIN mem = Blocks
  PROVE  TypeOK' /\ DOMAIN mem' = Blocks
<1> DEFINE o == NewObject(n, d, u)
           m == Fill(contents, o)
<1>1. /\ object' = [object EXCEPT ![b] = o] /\ mem' = [mem EXCEPT ![b] = m]
      /\ live' = live \cup {b} /\ ret' = [ret EXCEPT ![c] = b]
  BY DEF Create
<1>2. o \in Context /\ o # NULL /\ o.maxCount # 0
  BY NewObjectType, ContextAssumption
<1>3. m \in Contents(size'[b])
  <2>1. size'[b] \in Nat /\ Stored(o) \subseteq Elements(size'[b])
    BY StoredInBlock
  <2> HIDE DEF o
  <2> QED BY <1>2, <2>1, FillType
<1> HIDE DEF o, m
<1>4. ASSUME NEW x \in Blocks
      PROVE  mem'[x] \in [0..(size'[x] \div SizeofComplex - 1) -> CkFftComplex \cup {Garbage}]
  <2>1. CASE x = b
    BY <1>1, <1>3, <2>1 DEF Contents, Elements
  <2>2. CASE x # b
    BY <1>1, <2>2 DEF TypeOK
  <2> QED BY <2>1, <2>2
<1>5. object' \in [Blocks -> {NULL} \cup Context] /\ \A x \in live' : object'[x] # NULL
  BY <1>1, <1>2 DEF TypeOK
<1>6. live' \subseteq Blocks /\ ret' \in [Clients -> Blocks \cup {NULL}]
  BY <1>1 DEF TypeOK
<1> QED BY <1>1, <1>4, <1>5, <1>6 DEF TypeOK

LEMMA AnswerType ==
  ASSUME NEW n \in MaxCounts, n > 0, NEW d \in Directions
  PROVE  ReqBufSize(n, d) \in Int
<1>1. ASSUME NEW x \in Int PROVE ToInt(x) \in Int
  <2>1. 2 * (IntMax + 1) \in Nat \ {0} /\ x + IntMax + 1 \in Int /\ IntMax \in Nat
    BY ContextAssumption
  <2>2. (x + IntMax + 1) % (2 * (IntMax + 1)) \in Int
    BY <2>1, IntMod
  <2> QED BY <2>1, <2>2 DEF ToInt
<1>2. ContextSize \in Int /\ n * SizeofComplex \in Int
  BY ContextAssumption, ContextSizeType
<1> QED BY <1>1, <1>2 DEF ReqBufSize

(* A block that is freed.                                                   *)
LEMMA BlockType ==
  ASSUME TypeOK, DOMAIN mem = Blocks, NEW b \in Blocks,
         size' = [size EXCEPT ![b] = 0], mem' = [mem EXCEPT ![b] = Unwritten(0)],
         owner' = [owner EXCEPT ![b] = "free"], b \notin live', live' \subseteq live, object' \in [Blocks -> {NULL} \cup Context],
         \A x \in Blocks \ {b} : object'[x] = object[x], UNCHANGED <<ret, answer>>
  PROVE  TypeOK' /\ DOMAIN mem' = Blocks
<1>1. size' \in [Blocks -> Nat] /\ owner' \in [Blocks -> {"free", "user", "library"}]
  BY DEF TypeOK
<1>2. Unwritten(0) \in [0..(0 \div SizeofComplex - 1) -> CkFftComplex \cup {Garbage}]
  BY DEF Unwritten
<1>3. ASSUME NEW x \in Blocks
      PROVE  mem'[x] \in [0..(size'[x] \div SizeofComplex - 1) -> CkFftComplex \cup {Garbage}]
  <2>1. CASE x = b
    BY <1>2, <2>1 DEF TypeOK
  <2>2. CASE x # b
    BY <2>2 DEF TypeOK
  <2> QED BY <2>1, <2>2
<1>4. live' \subseteq Blocks /\ \A x \in live' : object'[x] # NULL
  BY DEF TypeOK
<1> QED BY <1>1, <1>3, <1>4 DEF TypeOK

TypeInv == TypeOK /\ DOMAIN mem = Blocks

LEMMA StepInitType ==
  ASSUME TypeInv, IInv, NoOverflow, NEW c \in Clients, NEW n \in MaxCounts,
         NEW d \in Directions, NEW u \in Blocks \cup {NULL}, NEW s \in BOOLEAN,
         CkFftInit(c, n, d, u, s)
  PROVE  TypeInv'
<1>1. TypeOK /\ DOMAIN mem = Blocks
  BY DEF TypeInv
<1>2. CASE InitInvalid(c, n, d, u, s) \/ InitNoMemory(c, n, d, u, s)
  <2>1. /\ ret' = [ret EXCEPT ![c] = NULL]
        /\ UNCHANGED <<owner, size, mem, object, live, answer>>
    BY <1>2 DEF InitInvalid, InitNoMemory
  <2> QED BY <1>1, <2>1 DEF TypeInv, TypeOK
<1>3. CASE InitQuery(c, n, d, u, s)
  <2> DEFINE a == [maxCount |-> n, direction |-> d, size |-> ReqBufSize(n, d)]
  <2>1. /\ ret' = [ret EXCEPT ![c] = NULL] /\ answer' = [answer EXCEPT ![c] = a]
        /\ UNCHANGED <<owner, size, mem, object, live>> /\ n > 0
    BY <1>3, ValidInitFacts DEF InitQuery
  <2>2. a \in [maxCount: Int, direction: Directions, size: Int]
    BY <2>1, AnswerType, ContextAssumption
  <2> HIDE DEF a
  <2> QED BY <1>1, <2>1, <2>2 DEF TypeInv, TypeOK
<1>4. CASE InitUserBuf(c, n, d, u, s)
  <2>1. /\ u \in Blocks /\ n > 0 /\ Create(c, u, mem[u], n, d, u)
        /\ UNCHANGED <<owner, size, answer>> /\ d \in RealDirections
    BY <1>4, ValidInitFacts DEF InitUserBuf
  <2>2. mem[u] \in Contents(size'[u])
    BY <1>1, <2>1 DEF TypeOK, Contents, Elements
  <2>3. size' \in [Blocks -> Nat] /\ owner' \in [Blocks -> {"free", "user", "library"}]
        /\ \A x \in Blocks \ {u} : size'[x] = size[x]
    BY <1>1, <2>1 DEF TypeOK
  <2>4. BytesNeeded(n, d) <= size'[u]
    BY <1>4, <2>1, BufferFits DEF IInv
  <2> QED BY <1>1, <2>1, <2>2, <2>3, <2>4, CreateType DEF TypeInv
<1>5. CASE InitMalloc(c, n, d, u, s)
  <2> DEFINE r == ReqBufSize(n, d)
  <2>1. n > 0 /\ d \in RealDirections /\ UNCHANGED answer
    BY <1>5, ValidInitFacts DEF InitMalloc
  <2>2. r \in Nat /\ r = BytesNeeded(n, d)
    BY <2>1, SizeExact
  <2>3. PICK b \in Blocks :
          /\ owner' = [owner EXCEPT ![b] = "library"]
          /\ size' = [size EXCEPT ![b] = r]
          /\ Create(c, b, Unwritten(r), n, d, u)
    BY <1>5 DEF InitMalloc
  <2> HIDE DEF r
  <2>4. Unwritten(r) \in Contents(r)
    BY DEF Unwritten, Contents, Elements
  <2>5. size' \in [Blocks -> Nat] /\ owner' \in [Blocks -> {"free", "user", "library"}]
        /\ \A x \in Blocks \ {b} : size'[x] = size[x]
    BY <1>1, <2>2, <2>3 DEF TypeOK
  <2>6. size'[b] = r
    BY <1>1, <2>3 DEF TypeOK
  <2>7. BytesNeeded(n, d) <= size'[b]
    BY <2>2, <2>6
  <2> QED BY <1>1, <2>1, <2>3, <2>4, <2>5, <2>6, <2>7, CreateType DEF TypeInv
<1> QED BY <1>2, <1>3, <1>4, <1>5 DEF CkFftInit

LEMMA StepType ==
  ASSUME TypeInv, IInv, NoOverflow, [Next]_vars
  PROVE  TypeInv'
<1>1. TypeOK /\ DOMAIN mem = Blocks
  BY DEF TypeInv
<1>2. ASSUME NEW c \in Clients, ClientInit(c) PROVE TypeInv'
  BY <1>2, StepInitType DEF ClientInit
<1>3. ASSUME NEW b \in Blocks, Free(b), b \notin live', live' \subseteq live,
             UNCHANGED <<ret, answer>>
      PROVE  TypeInv'
  <2>1. object' \in [Blocks -> {NULL} \cup Context]
        /\ \A x \in Blocks \ {b} : object'[x] = object[x]
    BY <1>1, <1>3 DEF Free, TypeOK
  <2>2. /\ size' = [size EXCEPT ![b] = 0] /\ mem' = [mem EXCEPT ![b] = Unwritten(0)]
        /\ owner' = [owner EXCEPT ![b] = "free"]
    BY <1>3 DEF Free
  <2> QED BY <1>1, <1>3, <2>1, <2>2, BlockType DEF TypeInv
<1>4. ASSUME NEW b \in Blocks, CkFftShutdown(b) PROVE TypeInv'
  <2>1. live' = live \ {b} /\ UNCHANGED <<ret, answer>>
    BY <1>4 DEF CkFftShutdown
  <2>2. CASE Free(b)
    BY <1>3, <2>1, <2>2
  <2>3. CASE UNCHANGED <<owner, size, mem, object>>
    BY <1>1, <2>1, <2>3 DEF TypeInv, TypeOK
  <2> QED BY <1>4, <2>2, <2>3 DEF CkFftShutdown
<1>5. ASSUME NEW b \in Blocks, ClientFree(b) PROVE TypeInv'
  BY <1>3, <1>5 DEF ClientFree
<1>6. ASSUME NEW c \in Clients, NEW b \in Blocks, ClientAlloc(c, b) PROVE TypeInv'
  <2>1. 1..HeapLimit \subseteq Nat
    BY ContextAssumption
  <2>2. PICK k \in Nat :
          /\ owner' = [owner EXCEPT ![b] = "user"] /\ size' = [size EXCEPT ![b] = k]
          /\ mem' = [mem EXCEPT ![b] = Unwritten(k)]
          /\ UNCHANGED <<object, live, ret, answer>>
    BY <1>6, <2>1 DEF ClientAlloc
  <2>3. size' \in [Blocks -> Nat] /\ owner' \in [Blocks -> {"free", "user", "library"}]
    BY <1>1, <2>2 DEF TypeOK
  <2>4. Unwritten(k) \in [0..(k \div SizeofComplex - 1) -> CkFftComplex \cup {Garbage}]
    BY DEF Unwritten
  <2>5. ASSUME NEW x \in Blocks
        PROVE  mem'[x] \in
                 [0..(size'[x] \div SizeofComplex - 1) -> CkFftComplex \cup {Garbage}]
    BY <1>1, <2>2, <2>4 DEF TypeOK
  <2> QED BY <1>1, <2>2, <2>3, <2>5 DEF TypeInv, TypeOK
<1>7. CASE UNCHANGED vars
  BY <1>1, <1>7 DEF vars, TypeInv, TypeOK
<1> QED BY <1>2, <1>4, <1>5, <1>6, <1>7 DEF Next

(* The state keeps its shape when int holds the sizes: no store of create   *)
(* reaches past the end of the block, the caller's or the library's.        *)
THEOREM TypeCorrect ==
  ASSUME NoOverflow
  PROVE  Spec => []TypeOK
<1>1. Init => TypeInv
  <2> SUFFICES ASSUME Init PROVE TypeInv
    OBVIOUS
  <2>1. 0 \div SizeofComplex = 0
    BY ContextAssumption
  <2>2. Unwritten(0) \in [0..(0 \div SizeofComplex - 1) -> CkFftComplex \cup {Garbage}]
    BY DEF Unwritten
  <2>3. [maxCount |-> 0, direction |-> {}, size |-> 0]
          \in [maxCount: Int, direction: Directions, size: Int]
    BY DEF Directions
  <2> QED BY <2>2, <2>3 DEF Init, TypeInv, TypeOK
<1>2. IInv /\ TypeInv /\ [Next]_vars => TypeInv'
  BY StepType
<1>3. TypeInv => TypeOK
  BY DEF TypeInv
<1> QED BY <1>1, <1>2, <1>3, InductiveInvariant, PTL DEF Spec
=============================================================================
