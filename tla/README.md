# CKFFT in TLA+

Specifications, model-checking instances and proofs for CKFFT, a C++ library of
fast Fourier transforms of complex and real data (`src/ckfft`, interface
`inc/ckfft/ckfft.h`). Paths below are relative to the repository's root.

## The system

| part | source | state | operations |
|---|---|---|---|
| public interface | `inc/ckfft/ckfft.h`, `src/ckfft/ckfft.cpp` | none | checks of the parameters, then a call of a part below |
| context | `context.cpp`, `context.h` | an object and one or two tables of twiddle factors, in one block of memory from `malloc` or from the caller; who owns the block | `create` (query of the size, refusal, failure, success), `destroy` |
| complex FFT | `fft.cpp`, `fft_default.cpp` | a stack of recursive calls per thread; the caller's buffers; reads the context | `fft`, `fft_default`: leaves for 4 and 8, four recursive calls, butterfly loop |
| real FFT | `fft_real.cpp`, `fft_real_default.cpp` | loop counter; `output` or `tmpBuf` is rewritten in place; reads the context | `fft_real`, `fft_real_inverse`, with shortcuts for 1, 2 and 4 |
| complex arithmetic | `math_util.h` | none | `isPowerOfTwo`, `add`, `subtract`, `multiply`, on numbers and on vectors |
| NEON complex FFT | `fft_neon.cpp` | as the complex FFT | the recursion of `fft_default`, with two butterflies at once for 8 and four in the loop; an empty function in a build without NEON |
| NEON real FFT | `fft_real_neon.cpp` | as the real FFT | the loops with four elements from either end at once; empty functions in a build without NEON |
| platform, debug | `platform.h`, `debug.cpp` | none | preprocessor switches, printing |
| test harness | `src/test` | timers, statistics | compares with other libraries, measures time |
| vendored code | `src/ext` | | other FFT libraries, an XML parser; used by the test harness |

How the parts meet. A client makes a context with `CkFftInit`. Any number of
threads then pass it to the four transforms, which share it without locks: the
header promises that a context holds no state. A transform checks its
parameters and calls `fft`, `fft_real` or `fft_real_inverse`, which choose the
NEON or the default code by `context->neon`. A real transform of `count` floats
is a complex one of `count/2` elements and a loop that separates the spectra of
the even and odd elements. There are no messages, callbacks or persistent
state, and nothing is recovered after a crash.

What is hard to get right and hard to test:

- The recursion multiplies strides: of the input, of the output and of the
  table, the last once more by the ratio of the context's `maxCount` to the
  count asked for. Nothing checks an index.
- The loops of the real transforms work in place from both ends of a buffer.
- Threads share a context, inputs and nothing else; the tests have one thread.
- A context lives in memory that is the library's or the caller's, sized by
  arithmetic in `int`, with failures on the way.
- The NEON code does several butterflies at once, loads twiddle factors lane by
  lane, and reverses vectors; for the smallest count the vectors from the two
  ends overlap. Whether it is used is a flag in the context, whether it exists a
  property of the build. A machine without NEON tests none of it.
- The shortcuts for small counts must agree with the general code, in their
  results, scale and in what they write.

What makes each part correct:

- complex FFT: the output is the DFT of the input; every access is inside the
  documented buffers and the table; a call changes its output only; it returns.
- real FFT: the same, but scaled: a forward transform by 2, as the tests expect
  (`src/test/test.cpp:369-372`, `813-818`) and `fft_real.cpp` does for the small
  counts, and a round trip by 2n (`inc/ckfft/ckfft.h:79-81`, whose "no scaling"
  means that nothing is normalised); and n/2 + 1 elements are written.
- context: object and tables fit their memory and stay intact; the size told is
  the size needed; memory is neither leaked nor freed under its user.

`PROJECT.json` lists the hazards one by one, at their lines.

## The modules

| module | models | state and actions |
|---|---|---|
| `CkComplex` | `math_util.h`, the twiddle factors | operators; the reference `DFT` |
| `UnitCircle` | values of `cosf` and `sinf` | constants for the instances |
| `FftCalls` | what `fft_default.cpp` and `fft_neon.cpp` share | `context`, `mem`, `stack`; a call's elements and twiddle factors, the recursive call, the kinds of steps |
| `FftDefault` | `fft_default.cpp` | one action per leaf, recursive call, butterfly and return |
| `FftNeon` | `fft_neon.cpp` | the same actions, a vector of butterflies to a step |
| `Fft` | `fft.cpp`, which chooses between the two | `NewContext`, `fft`, `FftStep` |
| `FftClient` | the threads that call `fft` | adds `call`; `Init`, `Call`, `Next`, the properties of the complex FFT |
| `FftRealCalls` | what `fft_real_default.cpp` and `fft_real_neon.cpp` share, above `Fft` | the same variables; the arithmetic of an iteration and the kinds of steps |
| `FftRealDefault` | `fft_real_default.cpp` | one action per statement or iteration, in either direction |
| `FftRealNeon` | `fft_real_neon.cpp` | the same actions, with vectors |
| `FftReal` | `fft_real.cpp`, which chooses between the two | `fft_real`, `fft_real_inverse`, `FftRealStep` |
| `FftRealClient` | the threads that call the real transforms | adds `call`; `Init`, `Call`, `Next`, the properties of the real FFT |
| `CkFftContext` | `context.cpp`, `CkFftInit`, `CkFftShutdown`, `malloc` and `free` | `owner`, `size`, `mem`, `object`, `live`, `ret`, `answer`; one action per outcome of `CkFftInit` |
| `CkFft` | the four transforms of `ckfft.cpp` and `isNeonSupported`, above `FftReal` | the variables of `FftReal`, `call` and `ret`; `Call`, and one action per transform: its checks, and the call of the transform below it |
| `FftService` | what `ckfft.h` promises of the transforms; abstract | `call`, `data`, `answer`; a request is refused, or performed at once |
| `MC...` | instances for TLC | |
| `ComplexProofs`, `FftProofs`, `FftResultProofs`, `FftRealProofs` | lemmas and theorems about the operators and the operations, whoever calls them | |
| `FftClientProofs`, `FftRealClientProofs`, `CkFftProofs`, `CkFftContextProofs` | invariants and theorems of the specifications | |

The modules of the transforms build on one another by EXTENDS, from the
arithmetic up: `CkComplex`, `FftCalls`, `FftDefault` and `FftNeon`, `Fft`,
`FftRealCalls`, `FftRealDefault` and `FftRealNeon`, `FftReal`, `CkFft`. The two
clients stand beside this chain, on `Fft` and on `FftReal`, so that what is
proved of an operation holds for every caller. `FftService` is instantiated by
`CkFft`, under a refinement mapping. `CkFftContext` stands alone above `CkComplex`.

Correspondence with the code:

- Numbers. A `float` is an integer modulo a Mersenne prime P. The unit circle
  modulo P is a cyclic group of P + 1 = 2^k elements, so exact sines and cosines
  exist for every angle the code asks for, and the algebra of the code is
  checked exactly. Rounding and the range of `float` are left out.
- Memory. `mem[b]` is the content of buffer b as a function on its indices; a
  pointer is a buffer and an offset. An access outside a buffer is outside the
  function's domain and TLC reports it.
- Vectors. A NEON register pair is a function from lanes to complex numbers: the
  `vld2` and `vst2` instructions take real and imaginary parts apart and put them
  together again, and the arithmetic on vectors in `math_util.h` is that of
  `add`, `subtract` and `multiply` in every lane. A vector is loaded whole before
  any is stored, as in the code. What a vector stores past the end of a buffer
  makes the function longer, and `TypeOK` fails.
- Builds and processors. `ArmNeon` says whether the NEON code is compiled, and its
  functions are empty otherwise; `CpuNeon` and `Platform` decide the flag in a
  context, as `isNeonSupported` does. `NoNeon` are contexts whose flag their
  creator has cleared, as `src/test/test.cpp:260` does to compare the two codes; it
  lets one run have both.
- Calls. `stack[t]` holds a record for each call thread t is in, with the
  parameters and loop counters of the code. Arguments of the API call are kept
  in `call[t]` so that properties can speak of them after the return. A thread
  of `FftClient` makes one call; one of `FftRealClient` a forward transform and
  an inverse one of its result.
- Grain. A step is one leaf, one recursive call, one iteration of a loop (one
  butterfly, or a vector of four), or one return. Threads that keep to the header's rules never write what another
  one reads, so finer steps give no further results.
- Callers do what the header asks: different buffers of the documented sizes,
  and no buffer that another thread's call uses, except inputs, which may be
  shared. Contexts in the two clients have both tables. In `CkFft`
  callers pass anything in `Requests`: null pointers, any integer as a count,
  contexts that lack a table or are too small, the output as the input. Only
  the lengths of buffers are as documented, as the code cannot see them, and
  `tmpBuf` is neither input nor output of the call.
- `CkFftContext` treats memory as blocks of bytes of which every
  `sizeof(CkFftComplex)`-th starts an element. `int` has the width that IntMax
  says and wraps; it is small in the instances, and so are the sizes. What the
  loop of `create` stores past the end of a block, as it does when the size of the
  block has wrapped, makes the block's function longer (`Stored`, `Fill`), and
  `TypeOK` fails, as for the buffers of the FFT. What such a store does to other
  memory is undefined and not represented.

The abstract specification. `FftService` knows nothing of tables, recursion or
stacks. A call is pending until it is answered with 0, when a parameter is
invalid, or else with 1 and the transform of the data that was in the input when
the call was made. `CkFft` implements it under the mapping `Data` (what the
input buffer holds now) and `Answer` (the value returned and what the output
holds, once the thread's stack is empty again). Because the mapping reads the
buffers at every moment, `ImplementsService` also says that inputs never change
under a call, that outputs stay as they were answered, and that no call is seen
half done by its caller.

Definitions whose name ends in `Bug` are faulty variants of their neighbours.
No specification uses them: put in the neighbour's place they show that a
property notices a slip in the code.

## The runs

| run | instance | shows |
|---|---|---|
| `FftBasis` | one thread; counts 1, 2, 4, 8, 16; contexts of 16 and 32, and one of 32 for NEON; all 32 real and imaginary unit vectors | `Correctness`, `TypeOK`. The transform is linear, so the basis decides for every input |
| `FftThreads` | two threads, a context of 32 with NEON and one without, one input, three buffers; counts 2 and 16 | `Correctness`, `NoInterference` in every interleaving |
| `FftDeep` | one thread, P = 127; counts 32 and 64 on contexts of 128, with NEON and without | `InBounds`, `RecursionDepth`, `PartialResults`, `Termination`: recursion within recursion, and recursion over each of the leaves 4 and 8 |
| `RealRoundTrip` | one thread; counts 1, 2, 8, 16, 32; contexts of 8 and 32, and one of 32 for NEON; unit vectors of 16 floats and a generic input; forward and back on any two of the contexts | `ForwardCorrect`, `RoundTrip`, `UntangledInPlace`, `WritesDocumented`, `TypeOK`. Count 4 is left to `RealCount4`, and its results to `ApiGuards` |
| `RealCount4` | count 4 only | `WritesDocumented` is violated, see below |
| `ApiGuards` | one thread; an Android build with NEON; the four transforms; contexts for both directions (maxCount 16), with NEON and without, forward only and inverse only (8), or none; counts -1 to 16; null pointers; output = input | `ImplementsService`, `TablePresent`, `TypeOK` |
| `ApiThreads` | two threads; an iOS build with NEON; complex forward and inverse, real forward and inverse and a request to be refused, on shared contexts with NEON and without, and one input | `ImplementsService`, `Answered` in every interleaving |
| `ApiIntMin` | INT_MAX = 127, a count of -128 | `ImplementsService` is violated, see below |
| `ApiStubs` | an Android build without NEON on a processor with it; counts 1, 2, 16 | `ImplementsService` is violated, see below |
| `ContextLife` | one client, two blocks, valid and invalid maxCounts, all directions | the properties of `CkFftContext` where sizes fit an `int` |
| `ContextOverflow` | INT_MAX = 127, tables of up to 256 bytes | `AnswerExact` is violated, see below |
| `ContextLargeBuffer` | INT_MAX = 127, a buffer of 200 bytes | `BufferAccepted` is violated, see below |

Why the bounds are enough. The code distinguishes counts 1, 2, 4, 8 and larger
powers of two by the parity of their exponent; 16 and 32 are the smallest with
one level of recursion above each leaf, 64 has two. In the NEON code 16 is the
smallest count of the loop of vectors, with one iteration; 64 has four, and below
it calls with one. For the real transforms 8 is the smallest count that reaches
the loops, and the one whose vectors overlap; 16 is the first with a middle
element of its own, and 32 with two iterations. A context larger than the
count makes the table's stride differ from 1. Output buffers start with values
that no transform leaves there by chance. Two threads are enough for one to run
between any two steps of the other, and they share all they may share. In
`CkFftContext` two blocks let a context be created while another lives and while
the caller owns a buffer; the buffer of 56 bytes is enough for one table of four
elements and too small for two. `HeapLimit` bounds what `malloc` grants.

`isPowerOfTwo` is defined by divisors, which is easier to prove about than the
code's `x & (x - 1)`; `PowerOfTwoIsOneBit` in `MCCkFft` says that the two agree
for 8-bit words, and TLC evaluates it in the runs of `MCCkFft`.

Deadlock is checked for `CkFftContext`. In the other runs threads make their
calls and stop, so it is not.

Fairness: `WF_vars(Step(t))` in `FftClient` and in `CkFft`, for every thread t. A thread inside a call of the library takes no locks and waits for
nobody; the assumption is that the scheduler runs it again. Callers are under no
obligation to call.

### What the violated runs show

- `RealCount4`: `CkFftRealForward` with n = 4 writes `output[3]`
  (`src/ckfft/fft_real.cpp:46`); `inc/ckfft/ckfft.h:70` says that the output
  contains n/2+1 elements, three. Callers that allocate three have the float
  pair after them overwritten.
- `ContextOverflow`: the size of the tables is computed in an `int`
  (`src/ckfft/context.cpp:37`). When it exceeds INT_MAX it wraps, and the number
  placed in `*bufSize` is not the minimum that `inc/ckfft/ckfft.h:46` speaks of.
- `ContextLargeBuffer`: `(int) *userBufSize` (`src/ckfft/context.cpp:47`) is
  negative for a buffer of more than INT_MAX bytes, and such a buffer is refused.
- `ApiIntMin`: `isPowerOfTwo` takes an `unsigned int` (`src/ckfft/math_util.h:12`),
  so a count of INT_MIN passes the check, and it is not greater than `maxCount`
  (`src/ckfft/ckfft.cpp:84`). The loops of `fft_default` do nothing and the call
  returns 1; `inc/ckfft/ckfft.h:127` says that it returns "1 if the FFT could be
  performed, or 0 if one of the parameters was invalid".
- `ApiStubs`: on Android the flag `neon` is what the processor says at run time
  (`src/ckfft/context.cpp:129`), whatever the build. A library built for plain
  armeabi, which the makefile of the tests also asks for
  (`src/test/android/jni/Application.mk:2`), has no NEON code
  (`src/ckfft/platform.h:23`), and its `fft_neon` is an empty function
  (`src/ckfft/fft_neon.cpp:269`). On a processor with NEON every transform of 4
  elements and more returns 1 and does nothing.

## The proofs

`tlapm` checks the theorems for every value of the constants: any number of
threads, contexts, buffers and clients, every count and `maxCount`, builds and
contexts with NEON and without. An operation is proved about once, for any caller
that meets its conditions; the invariants of the callers cite that.

### The operations

`ComplexProofs` is about numbers. `isPowerOfTwo` is stated by divisors, so that
halving and quartering a power of two need no induction (`PowerOfTwoQuarter`).
The operations of `math_util.h` are those of a commutative ring, and `Root`, the
roots of unity that a transform uses, are powers of one another (`RootSum`,
`RootScale`). `Induction` is the principle of induction for a set of numbers
rather than for an operator; with it `SumOf`, the recursive sum of the reference
`DFT`, splits into the sums over every fourth element (`SumOfQuarters`).

`FftStepOK` and `FftOK` (`FftProofs`): a step of a call of `fft`, at any depth of
the recursion, and the call itself stay inside the buffers and the table, store
complex numbers in the output only, and leave a stack of well-formed calls of
the same transform. `OKFrames` says what well-formed is: count * stride is the
count of the API call, the input and output offsets leave room for the rest,
count is a power of two of at least 4, the table's stride times the API call's
count is maxCount, the loop starts when all four recursive calls are made and has
passed no more than a quarter. Bounds alone would not be inductive: they speak of
products of strides, and a recursive call needs to know how these were built.
For the loop of vectors the power of two matters once more: a quarter that is
neither 1 nor 2 is divided by four, so that the last vector ends where the
quarter does.

`FftRealStepOK`, `FftRealOK` and `FftRealInverseOK` (`FftRealProofs`) say the
same of the real transforms, with the complex transform below them: their loops
from both ends stay in the first count/2 + 1 elements, also where the vectors
overlap (`OKRealFrames`).

### The results of the complex FFT

The complex FFT computes the transform: `TransformCorrect`,
`Spec => []Correctness`, and `LoopInvariant`, `Spec => []PartialResults`, in
`FftClientProofs`, from what `FftResultProofs` proves of the operations. The
argument has four steps.

1. `DftQuarters`: element a * n + l of the transform of 4 * n elements is the
   a-th result of the butterfly of `math_util.h`'s arithmetic, `Radix4`, on
   element l of the transforms of the four quarters and the twiddle factors.
   `ExpRoot`: the factors that a call reads, through the strides of the
   recursion, are those of its own count.
2. `Leaf4Right`, `Leaf8Right`, `NeonLeaf8Right`, `CombineRight`,
   `NeonCombineRight`: each leaf and each iteration, plain or in vectors, stores
   elements of the result of its call and changes no other one.
3. `Progress`, an invariant of a call stack: every call is the recursive call of
   the one below on the quarter whose turn it is, stores in that quarter only,
   and has done what its counters say. `FftStepResult`: every step keeps it, and
   the last return leaves the transform in the output. It speaks of the calls
   above any number of others, so that a real transform may be below them.
4. `Results`, an invariant of the client: each thread in a call is on its way or
   has its result, because no other thread stores in its buffers.

Two hypotheses. `AnglesExact`: the circle of the model has the angles
2*pi/maxCount, as the instances of TLC have, or `Twiddle` would not be what the
code asks `cosf` and `sinf` for. `NeonBuilt`: no context says NEON in a build
without it; `ApiStubs` shows what happens otherwise.

### The results of the real FFT

`SpectrumCorrect`, `DataComesBack` and `LoopInPlace` (`FftRealClientProofs`) prove
`ForwardCorrect`, `RoundTrip` and `UntangledInPlace`, under the same two
hypotheses. The argument:

1. About transforms (`ComplexProofs`): `RootsCancel`, the roots of unity add up to
   zero; from it `DftInverse`, an inverse transform after a forward one gives
   back n times the data; `DftPairs`, the transform of n real numbers is made of
   the complex transform of their n/2 pairs, element k from the elements k and
   n/2 - k.
2. About the loops (`FftRealProofs`): an iteration stores the two elements of the
   spectrum that `DftPairs` says, or, going back, four times the two elements of
   the complex transform that they came from (`ElementUntangles`); the shortcuts
   for 1, 2 and 4 store what the loops would (`RealTrivialRight`,
   `RealInverseTrivialRight`).
3. `ForwardWay` and `InverseWay`, the invariants of a stack with a real transform
   below a complex one. Forward: the complex transform is on its way
   (`Progress`), or the loop has done the elements outside `i..(n/2 - i)` and left
   the others (`UntangledSoFar`). Inverse: the loop has filled tmpBuf with the
   complex transform of the pairs, times four, up to its counter
   (`TangledSoFar`), or the complex transform is on its way back from there. The
   vectors do not break this where they overlap, since both ends are loaded
   before either is stored. `ForwardStart` and `InverseStart` establish the two,
   `ForwardStep` and `InverseStep` keep them.
4. `RInv`, the invariant of the client: every thread that has called is on its
   way or has its result. It rests on `BuffersApart`, that a call writes no buffer
   that another thread's call uses, nor the data its own input came from: the
   result of an inverse transform is stated about a buffer it never reads.

### The service

`ServiceImplemented` (`CkFftProofs`) proves `ImplementsService`: the whole library
below `ckfft.cpp` is the abstract service, for every set of requests. The argument:

1. The abstract service computes with the same numbers (`SameDft`), and the checks
   of the four transforms accept exactly the parameters that `FftService` calls
   valid (`GuardsAccept`).
2. What an inverse real transform is given need not come from a forward one.
   `DataOfSpectrum` (`ComplexProofs`): everything that has the symmetry of the
   spectrum of real data is one, with the scale of 2, namely that of its inverse
   transform divided by 2n, which exists because 2n is a unit modulo P
   (`UndoExists`). `InverseDataFacts` (`FftRealProofs`) brings the result that the
   service asks for into the form of `InverseWay`, whose invariance is proved
   already.
3. `CallWay` is the invariant of one call: `Progress`, `ForwardWay` or `InverseWay`,
   whichever serves it. `EndOfWay`: with an empty stack it gives the result that
   `FftService` says.
4. `RInv` adds to the invariant `IInv` that no call writes a buffer another one
   uses, that a buffer no call writes is still as it was at first, and that a call
   that will return 1 was allowed and is on its way or has its result.
   `EveryStep`: a step of the library refuses a call that was not allowed
   (`Refuses`) or keeps an allowed one on its way (`Works`).
5. `RefusesRefines` and `CallRefines` map these steps to `Refuse` and `Request`;
   `WorksRefines` maps the last step of a call to `Perform` and those before it to
   a stutter, because no step changes the data of a call or an answer given.

Five hypotheses, each with a reason in the code or the header. `NoIntMin` and
`NeonBuilt` exclude what `ApiIntMin` and `ApiStubs` show to be violations, and
these runs are instances where just one of the hypotheses is false. `AnglesExact`
is that of the complex FFT. `OwnTmpBuf`: `tmpBuf` is neither input nor output,
which the header does not say and the code does not check
(`src/ckfft/ckfft.cpp:69`). `SpectraGiven`: the spectrum given to an inverse real
transform of 8 elements or more has no imaginary part at elements 0 and n/2, as
the result of `CkFftRealForward` has, which is what the header asks of that input
(`inc/ckfft/ckfft.h:95`); the code would let these parts into the result. The
instances of `ApiGuards` and `ApiThreads` satisfy all five.

### The callers

- `FftClientProofs`: `TypeCorrect` (`Spec => []TypeOK`: buffers keep their lengths
  under the stores of vectors, so none reaches past an end), `MemorySafe`
  (`Spec => []InBounds`) and `ThreadsIsolated` (`Spec => NoInterference`), from
  an invariant that says that the frames on a stack serve the thread's call and
  that no other call uses what it writes. `DepthBounded`
  (`Spec => []RecursionDepth`) needs `Strides` besides: the strides of the calls on a
  stack are the powers of 4.
- `FftRealClientProofs`: besides the three above `TypeCorrect`, and
  `DocumentedWrites` (`Spec => WritesDocumented`) if no count is 4. `RealCount4` shows that count 4
  does write past the documented elements.
- `CkFftProofs`: `TypeCorrect` and `TablesPresent` (`Spec => []TablePresent`), for
  any requests without the count INT_MIN (`NoIntMin`), which `ApiIntMin` shows to
  pass the checks. The checks of the four transforms give the operations below
  them what they rely on, and refuse a context that lacks the table of the
  direction. Nothing here asks `tmpBuf` to differ from input and output: even
  then memory is safe, whatever the results.
- `CkFftContextProofs`, under the hypothesis `NoOverflow` that the sizes of the
  requested contexts fit an `int`: `TypeCorrect` (`Spec => []TypeOK`, with which
  no store of the tables leaves its block), `ContextsFit` (`Spec => []TablesFit`),
  `NoLeak` (`Spec => []Ownership`), `SizesExact` (`Spec => []AnswerExact`), `CallersKeepBuffers` (`Spec => UserMemoryKept`),
  `TablesKept` (`Spec => []TablesIntact`), and `BuffersJudged`
  (`Spec => BufferAccepted`) if also no block is larger than INT_MAX.
  `ContextOverflow` and `ContextLargeBuffer` show what happens without these
  hypotheses. The invariant of `ContextsFit` and `NoLeak` adds to the two
  properties where the tables of a live context lie (`Built`) and that a free
  block has no live context. `TablesKept` needs `TablesInv`: besides the tables,
  that a block has the elements its size says. `StoredInBlock` shows that the
  stores of `Create` stay among them, for the theorems on types and on tables:
  it is here that the sizes must not wrap. `FillIntact` and `CreateIntact` show
  that filling the second table leaves the first, because it starts where the
  first ends; `BlockIntact`, that what happens to another block leaves both.

The assumptions are those the modules name: `ModulusAssumption` and
`ExpiAssumption` (the arithmetic; sine and cosine as a homomorphism),
`BufferAssumption`, the two `CallerAssumption`, `RequestAssumption` and
`ContextAssumption` (the types of the constants, and that NULL and the like are
values of their own). TLC evaluates them in the runs.

### Model-checked and not proved

- Liveness: `Termination`, `Answered`. It rests on fairness and ENABLED, which
  the provers do not reason about.

## Not modelled

- Rounding: the abstraction of `float` is exact.
- Real transforms of a negative count that passes the checks (INT_MIN): they
  write outside every buffer, which the model has no state for. `Requests` has
  them with complex transforms only.
- A `tmpBuf` that is the output or the input, and buffers that overlap without
  being equal: the code accepts them, and the header does not speak of them.
- Alignment of the caller's buffer, which the code does not check.
- The test and benchmark harness (`src/test`): it is not shipped and runs in
  sequence on one thread; what it expects of the library is what the properties
  here state. The example program, printing, packaging.
- The vendored libraries in `ext` (libav, FFTW, kiss_fft, tinyxml): other
  projects' code, which the harness measures CKFFT against. The library does not
  call it. It is most of the repository's lines and none of its logic.

## Plan

Everything of the library that changes state has an action. What is left
is `CkFft` with the contexts of `CkFftContext`: transforms between creation and
shutdown, in memory of the caller that is used again. Today the two meet in what
`CkFft` assumes of a context, which is what `TablesIntact` says of one.
