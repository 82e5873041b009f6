---------------------------- MODULE CkFftContext ----------------------------
(***************************************************************************)
(* The life of a context: CkFftInit and CkFftShutdown of ckfft.cpp with     *)
(* create and destroy of context.cpp.  A context is an object and one or    *)
(* two tables of twiddle factors in one block of memory, which the caller   *)
(* gives (after asking for its size) or the library allocates.  Sizes are   *)
(* ints of the width IntMax says, and wrap as the builds wrap them.         *)
(*                                                                          *)
(* A definition whose name ends in "Bug" is a faulty variant of the         *)
(* definition that follows it: a plausible slip in the code, which the      *)
(* properties must notice.  No specification uses it.                       *)
(***************************************************************************)
EXTENDS CkComplex

CONSTANTS
  Clients,
  Blocks,         \* the blocks of memory malloc hands out
  MaxCounts,      \* the values clients pass for maxCount
  BufSizes,       \* the sizes of buffers clients allocate unasked
  HeapLimit,      \* malloc returns NULL for more bytes than this
  IntMax,         \* INT_MAX
  SizeofContext,  \* sizeof(_CkFftContext)
  SizeofComplex,  \* sizeof(CkFftComplex)
  NEON,           \* what isNeonSupported() returns on this machine
  NULL,
  Garbage         \* the contents of memory nobody has written

(* The values of CkFftDirection, as the set of its bits.                    *)
Forward == {"forward"}
Inverse == {"inverse"}
Both == Forward \cup Inverse
Directions == SUBSET Both

(* A _CkFftContext; a table is where it starts in the block, in bytes.      *)
Context == [neon: BOOLEAN, maxCount: Nat, fwdExpTable: Nat \cup {NULL},
            invExpTable: Nat \cup {NULL}, ownBuf: BOOLEAN]

ASSUME ContextAssumption ==
  /\ MaxCounts \subseteq Int
  /\ BufSizes \subseteq Nat
  /\ {HeapLimit, IntMax, SizeofContext} \subseteq Nat
  /\ SizeofComplex \in Nat \ {0}
  /\ NEON \in BOOLEAN
  /\ NULL \notin Blocks /\ NULL \notin Nat /\ NULL \notin Context

VARIABLES
  owner,    \* owner[b]: who has block b, "free", "user" or "library"
  size,     \* size[b]: the number of bytes of block b
  mem,      \* mem[b][e]: the CkFftComplex at byte e * SizeofComplex of b
  object,   \* object[b]: the _CkFftContext at the start of b
  live,     \* the contexts created and not yet shut down
  ret,      \* ret[c]: what the last CkFftInit of client c returned
  answer    \* answer[c]: the last size client c was told, and for what

vars == <<owner, size, mem, object, live, ret, answer>>

-----------------------------------------------------------------------------
(* The conversion to int: two's complement of the width of int.             *)
ToInt(x) == ((x + IntMax + 1) % (2 * (IntMax + 1))) - (IntMax + 1)

(* The size of the object, rounded up so that the tables are aligned.       *)
ContextSize ==
  IF SizeofContext % SizeofComplex = 0 THEN SizeofContext
  ELSE SizeofContext + SizeofComplex - (SizeofContext % SizeofComplex)

\* room for one table whatever the direction
ReqBufSizeBug(maxCount, direction) ==
  ToInt(ContextSize + ToInt(maxCount * SizeofComplex))

ReqBufSize(maxCount, direction) ==
  LET expTableSize == ToInt(maxCount * SizeofComplex)
      one == ToInt(ContextSize + expTableSize)
  IN  IF direction = Both THEN ToInt(one + expTableSize) ELSE one

(* The bytes that the object and the tables really take.                    *)
BytesNeeded(maxCount, direction) ==
  ContextSize + (IF direction = Both THEN 2 ELSE 1) * (maxCount * SizeofComplex)

(* The guards of CkFftInit.  userBufSize says whether the caller passes a   *)
(* pointer to a size; the size is that of its buffer.                       *)
ValidInit(maxCount, direction, userBuf, userBufSize) ==
  /\ maxCount > 0
  /\ isPowerOfTwo(maxCount)
  /\ direction \in {Forward, Inverse, Both}
  /\ userBuf # NULL => userBufSize

\* sizes compared the wrong way round
TooSmallBug(maxCount, direction, userBuf, userBufSize) ==
  /\ userBufSize
  /\ userBuf # NULL => ToInt(size[userBuf]) <= ReqBufSize(maxCount, direction)

TooSmall(maxCount, direction, userBuf, userBufSize) ==
  /\ userBufSize
  /\ userBuf # NULL => ToInt(size[userBuf]) < ReqBufSize(maxCount, direction)

-----------------------------------------------------------------------------
\* both tables in the same place
NewObjectBug(maxCount, direction, userBuf) ==
  [neon |-> NEON, maxCount |-> maxCount,
   fwdExpTable |-> IF "forward" \in direction THEN ContextSize ELSE NULL,
   invExpTable |-> IF "inverse" \in direction THEN ContextSize ELSE NULL,
   ownBuf |-> userBuf = NULL]

\* the inverse table put before the forward one
NewObjectBeforeBug(maxCount, direction, userBuf) ==
  [neon |-> NEON, maxCount |-> maxCount,
   fwdExpTable |-> IF direction = Inverse THEN NULL ELSE ContextSize,
   invExpTable |-> CASE direction = Inverse -> ContextSize
                     [] direction = Both -> ContextSize - maxCount * SizeofComplex
                     [] OTHER -> NULL,
   ownBuf |-> userBuf = NULL]

\* ownBuf left as the constructor sets it
NewObjectOwnerBug(maxCount, direction, userBuf) ==
  [neon |-> NEON, maxCount |-> maxCount,
   fwdExpTable |-> IF direction = Inverse THEN NULL ELSE ContextSize,
   invExpTable |-> CASE direction = Inverse -> ContextSize
                     [] direction = Both -> ContextSize + maxCount * SizeofComplex
                     [] OTHER -> NULL,
   ownBuf |-> FALSE]

(* The object's fields; the tables are byte offsets in the block.           *)
NewObject(maxCount, direction, userBuf) ==
  [neon |-> NEON, maxCount |-> maxCount,
   fwdExpTable |-> IF direction = Inverse THEN NULL ELSE ContextSize,
   invExpTable |-> CASE direction = Inverse -> ContextSize
                     [] direction = Both -> ContextSize + maxCount * SizeofComplex
                     [] OTHER -> NULL,
   ownBuf |-> userBuf = NULL]

(* The element of a table that lies at element e of its block.              *)
InTable(o, table, e) ==
  /\ table # NULL
  /\ e * SizeofComplex \in table..(table + o.maxCount * SizeofComplex - 1)

Entry(table, e) == (e * SizeofComplex - table) \div SizeofComplex

(* The elements of its block that the loop of create stores.                *)
Stored(o) ==
  {table \div SizeofComplex + i :
     table \in {o.fwdExpTable, o.invExpTable} \ {NULL}, i \in 0..(o.maxCount - 1)}

\* the sine not negated for the inverse table
FillBug(contents, o) ==
  [e \in DOMAIN contents \cup Stored(o) |->
     IF InTable(o, o.invExpTable, e)
     THEN Twiddle(Entry(o.invExpTable, e), o.maxCount)
     ELSE IF InTable(o, o.fwdExpTable, e)
     THEN Twiddle(Entry(o.fwdExpTable, e), o.maxCount)
     ELSE contents[e]]

(* The loop that fills the tables.  What it stores past the end of the      *)
(* block, as when the size of the block has wrapped, makes the function     *)
(* longer, and TypeOK fails.                                                *)
Fill(contents, o) ==
  [e \in DOMAIN contents \cup Stored(o) |->
     IF InTable(o, o.invExpTable, e)
     THEN conjugate(Twiddle(Entry(o.invExpTable, e), o.maxCount))
     ELSE IF InTable(o, o.fwdExpTable, e)
     THEN Twiddle(Entry(o.fwdExpTable, e), o.maxCount)
     ELSE contents[e]]

Unwritten(bytes) == [e \in 0..(bytes \div SizeofComplex - 1) |-> Garbage]

(* The context is built in block b, which holds contents.                   *)
Create(c, b, contents, maxCount, direction, userBuf) ==
  LET o == NewObject(maxCount, direction, userBuf)
  IN  /\ object' = [object EXCEPT ![b] = o]
      /\ mem' = [mem EXCEPT ![b] = Fill(contents, o)]
      /\ live' = live \cup {b}
      /\ ret' = [ret EXCEPT ![c] = b]

-----------------------------------------------------------------------------
(* CkFftInit refuses its parameters.                                        *)
InitInvalid(c, maxCount, direction, userBuf, userBufSize) ==
  /\ ~ValidInit(maxCount, direction, userBuf, userBufSize)
  /\ ret' = [ret EXCEPT ![c] = NULL]
  /\ UNCHANGED <<owner, size, mem, object, live, answer>>

(* It answers how large the buffer must be.  A negative int becomes a huge  *)
(* size_t, which stays negative here.                                       *)
InitQuery(c, maxCount, direction, userBuf, userBufSize) ==
  /\ ValidInit(maxCount, direction, userBuf, userBufSize)
  /\ TooSmall(maxCount, direction, userBuf, userBufSize)
  /\ answer' = [answer EXCEPT ![c] =
                  [maxCount |-> maxCount, direction |-> direction,
                   size |-> ReqBufSize(maxCount, direction)]]
  /\ ret' = [ret EXCEPT ![c] = NULL]
  /\ UNCHANGED <<owner, size, mem, object, live>>

(* It builds the context in the caller's buffer.  The caller has allocated  *)
(* that buffer, and keeps no live context in it.                            *)
InitUserBuf(c, maxCount, direction, userBuf, userBufSize) ==
  /\ ValidInit(maxCount, direction, userBuf, userBufSize)
  /\ ~TooSmall(maxCount, direction, userBuf, userBufSize)
  /\ userBuf # NULL
  /\ owner[userBuf] = "user" /\ userBuf \notin live
  /\ Create(c, userBuf, mem[userBuf], maxCount, direction, userBuf)
  /\ UNCHANGED <<owner, size, answer>>

(* It builds the context in memory from malloc, whose argument is a size_t. *)
InitMalloc(c, maxCount, direction, userBuf, userBufSize) ==
  /\ ValidInit(maxCount, direction, userBuf, userBufSize)
  /\ ~TooSmall(maxCount, direction, userBuf, userBufSize)
  /\ userBuf = NULL
  /\ LET n == ReqBufSize(maxCount, direction)
     IN  /\ n \in 0..HeapLimit
         /\ \E b \in Blocks :
              /\ owner[b] = "free"
              /\ owner' = [owner EXCEPT ![b] = "library"]
              /\ size' = [size EXCEPT ![b] = n]
              /\ Create(c, b, Unwritten(n), maxCount, direction, userBuf)
  /\ UNCHANGED answer

(* malloc may fail at any time.                                             *)
InitNoMemory(c, maxCount, direction, userBuf, userBufSize) ==
  /\ ValidInit(maxCount, direction, userBuf, userBufSize)
  /\ ~TooSmall(maxCount, direction, userBuf, userBufSize)
  /\ userBuf = NULL
  /\ ret' = [ret EXCEPT ![c] = NULL]
  /\ UNCHANGED <<owner, size, mem, object, live, answer>>

CkFftInit(c, maxCount, direction, userBuf, userBufSize) ==
  \/ InitInvalid(c, maxCount, direction, userBuf, userBufSize)
  \/ InitQuery(c, maxCount, direction, userBuf, userBufSize)
  \/ InitUserBuf(c, maxCount, direction, userBuf, userBufSize)
  \/ InitMalloc(c, maxCount, direction, userBuf, userBufSize)
  \/ InitNoMemory(c, maxCount, direction, userBuf, userBufSize)

(* free(b): what was in the block is lost.                                  *)
Free(b) ==
  /\ owner' = [owner EXCEPT ![b] = "free"]
  /\ size' = [size EXCEPT ![b] = 0]
  /\ mem' = [mem EXCEPT ![b] = Unwritten(0)]
  /\ object' = [object EXCEPT ![b] = NULL]

\* a context in the caller's buffer freed as well
CkFftShutdownBug(b) ==
  /\ b \in live
  /\ live' = live \ {b}
  /\ Free(b)
  /\ UNCHANGED <<ret, answer>>

CkFftShutdown(b) ==
  /\ b \in live
  /\ live' = live \ {b}
  /\ IF object[b].ownBuf THEN Free(b) ELSE UNCHANGED <<owner, size, mem, object>>
  /\ UNCHANGED <<ret, answer>>

-----------------------------------------------------------------------------
(* A client calls CkFftInit with or without a buffer, and with or without a *)
(* pointer to the buffer's size.                                            *)
ClientInit(c) ==
  \E maxCount \in MaxCounts, direction \in Directions, userBuf \in Blocks \cup {NULL},
     userBufSize \in BOOLEAN :
    CkFftInit(c, maxCount, direction, userBuf, userBufSize)

(* A client allocates a buffer, of the size it was told or of another.      *)
ClientAlloc(c, b) ==
  /\ owner[b] = "free"
  /\ \E n \in BufSizes \cup {answer[c].size} :
       /\ n \in 1..HeapLimit
       /\ owner' = [owner EXCEPT ![b] = "user"]
       /\ size' = [size EXCEPT ![b] = n]
       /\ mem' = [mem EXCEPT ![b] = Unwritten(n)]
  /\ UNCHANGED <<object, live, ret, answer>>

ClientFree(b) ==
  /\ owner[b] = "user" /\ b \notin live
  /\ Free(b)
  /\ UNCHANGED <<live, ret, answer>>

Init ==
  /\ owner = [b \in Blocks |-> "free"]
  /\ size = [b \in Blocks |-> 0]
  /\ mem = [b \in Blocks |-> Unwritten(0)]
  /\ object = [b \in Blocks |-> NULL]
  /\ live = {}
  /\ ret = [c \in Clients |-> NULL]
  /\ answer = [c \in Clients |-> [maxCount |-> 0, direction |-> {}, size |-> 0]]

Next ==
  \/ \E c \in Clients : ClientInit(c)
  \/ \E c \in Clients, b \in Blocks : ClientAlloc(c, b)
  \/ \E b \in Blocks : CkFftShutdown(b) \/ ClientFree(b)

Spec == Init /\ [][Next]_vars

-----------------------------------------------------------------------------
(* The state has the shape the code gives it; a block has the elements its  *)
(* size says and no more, so that no store has left it.                     *)
TypeOK ==
  /\ owner \in [Blocks -> {"free", "user", "library"}]
  /\ size \in [Blocks -> Nat]
  /\ \A b \in Blocks : mem[b] \in
       [0..(size[b] \div SizeofComplex - 1) -> CkFftComplex \cup {Garbage}]
  /\ object \in [Blocks -> {NULL} \cup Context]
  /\ live \subseteq Blocks
  /\ \A b \in live : object[b] # NULL
  /\ ret \in [Clients -> Blocks \cup {NULL}]
  /\ answer \in [Clients -> [maxCount: Int, direction: Directions, size: Int]]

(***************************************************************************)
(* A context that was handed out fits the block it lies in: the object and  *)
(* the tables of both directions are inside the block, aligned, and apart   *)
(* from each other, whoever gave the block (context.cpp, the arithmetic of  *)
(* contextSize, reqBufSize, expBuf and invExpBuf).                          *)
(***************************************************************************)
TablesFit ==
  \A b \in live :
    LET o == object[b]
        End(table) == table + o.maxCount * SizeofComplex
    IN  /\ SizeofContext <= size[b]
        /\ \A table \in {o.fwdExpTable, o.invExpTable} \ {NULL} :
             /\ SizeofContext <= table /\ End(table) <= size[b]
             /\ table % SizeofComplex = 0
        /\ o.fwdExpTable # NULL /\ o.invExpTable # NULL =>
             End(o.fwdExpTable) <= o.invExpTable \/ End(o.invExpTable) <= o.fwdExpTable

(***************************************************************************)
(* As long as a context lives its tables hold the twiddle factors of its    *)
(* maxCount, the inverse table their conjugates, whatever other contexts    *)
(* are created, refused and destroyed, and whatever the block held before.  *)
(***************************************************************************)
TablesIntact ==
  \A b \in live :
    LET o == object[b]
        At(table, i) == mem[b][(table + i * SizeofComplex) \div SizeofComplex]
    IN  \A i \in 0..(o.maxCount - 1) :
          /\ o.fwdExpTable # NULL => At(o.fwdExpTable, i) = Twiddle(i, o.maxCount)
          /\ o.invExpTable # NULL =>
               At(o.invExpTable, i) = conjugate(Twiddle(i, o.maxCount))

(***************************************************************************)
(* The library has the memory of its own live contexts and no other: a      *)
(* refused call and a shutdown leave nothing behind, and a live context is  *)
(* never in freed memory.                                                   *)
(***************************************************************************)
Ownership ==
  \A b \in Blocks :
    /\ owner[b] = "library" <=> b \in live /\ object[b].ownBuf
    /\ b \in live => owner[b] # "free"

(* The caller's buffers are freed by the caller only, never by a shutdown   *)
(* ("if you let CkFftInit allocate its own memory buffer, then this will    *)
(* free that buffer", ckfft.h).                                             *)
UserMemoryKept ==
  [][\A b \in Blocks : owner[b] = "user" /\ owner'[b] # "user" => ClientFree(b)]_vars

(***************************************************************************)
(* ckfft.h, lines 46 to 49, in two parts.  The size that CkFftInit answers  *)
(* is the minimum number of bytes the context takes; and a buffer is used   *)
(* exactly when it has that many bytes.                                     *)
(***************************************************************************)
AnswerExact ==
  \A c \in Clients :
    LET a == answer[c]
    IN  a.maxCount > 0 => a.size = BytesNeeded(a.maxCount, a.direction)

BufferAccepted ==
  [][\A c \in Clients, maxCount \in MaxCounts, direction \in Directions, b \in Blocks :
       /\ owner[b] = "user" /\ b \notin live
       /\ ValidInit(maxCount, direction, b, TRUE)
       /\ CkFftInit(c, maxCount, direction, b, TRUE)
       => (ret'[c] = b <=> size[b] >= BytesNeeded(maxCount, direction))]_vars
=============================================================================
