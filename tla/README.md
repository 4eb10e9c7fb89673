# b-multi in TLA+

Multi is a header-only C++ library of multidimensional arrays: views with
strides over memory that somebody else owns, arrays that own theirs, memory
resources that arrays can take theirs from, and adaptors that hand views to
BLAS, LAPACK, FFTW, cuFFT, MPI and CUDA.

Two things are hard in it. The core is sequential, and its difficulty lies in
*protocols*: chains of view operations that leave layouts no constructor builds,
arrays that trade blocks, layouts and allocators one assignment at a time,
exceptions between two of those assignments, resources that assume the order in
which blocks come back. The adaptors translate strides, turns and conjugations
into requests of libraries that know none of them, and two of them meet
*concurrency*: processes that wait for one another, and a device that runs
behind the host.

This directory models both, checks them with TLC on small instances and proves
the most important properties for every instance with TLAPS. Line numbers refer
to the sources; `PROJECT.json` gives the lines of every definition.

## 1. Inventory

### Memory resources (`memory/`)

| part | state | operations |
|---|---|---|
| `monotonic` | `start_`, `size_` (a `block`), `position_` | `allocate` (align, test, move `position_`), `owns`, `deallocate` (nothing, or `bad_alloc` for a foreign pointer), `reset` |
| `stack` (a monotonic) | `positions_`, the counters `total_requested_`, `total_discarded_`, `max_needed_`, `hits_` | `allocate` (counters first), `deallocate` (assert the top, pop, move `position_` back) |
| `fallback<stack>` | `back_`, `fallbacks_` | `allocate` and `deallocate`: the base, and `back_` in a `catch(...)` |
| `instrumented` | `blocks_`, a balance per pointer | forwarding, `leak` |
| `allocator` | a pointer to a resource | forwarding |

They interact by calls and exceptions only: a fallback is told by an exception
of its base class that the base cannot serve a request or does not own a block.
Hard behaviour: the order in which clients return blocks, alignment padding, the
last byte of the buffer, counters and the buffer itself changed before a call that throws. Correct
means: blocks held are aligned, inside the buffer and disjoint; each block goes
back to the side it came from; the counters say what they are named for.

### Layouts and views (`detail/layout.hpp`, `detail/index_range.hpp`, `array_ref.hpp`)

A layout is, per dimension, `stride_`, `offset_` and `nelems_`; a view
(`basic_array`) is a base pointer and a layout, without ownership. Operations
make a view from a view: indexing, `sliced`, `blocked`, `range`, `paren`
(`operator()`), `strided`, `partitioned`, `flatted`, `diagonal`, `rotated`,
`unrotated`, `transposed`, `reindexed`, and the casts (`member_cast`,
`reinterpret_array_cast`), which count in parts of elements; iterators walk over
one dimension. Each derives the new numbers from those the operation before it
left, with integer divisions that are exact only if nobody broke a multiple
before. Correct means: no index leaves the root array, no two indices name one
element, iterators agree with indices, sizes and renamings are those the
operation promises.

### Arrays (`array.hpp`)

An array is an allocator, a base pointer and a layout, the latter two inherited
from `array_ref`. Constructors allocate in the initializer of that base class
and build elements in the body; assignments make temporaries and move or swap
them in; `clear`, `reextent`, `reshape`, `reindex` write the layout, from which
`deallocate` later takes the size of the block. Correct means: a block has one
owner and goes back to the allocator it came from, none is lost, and arrays
behave as values. Below the constructors the loops of `detail/adl.hpp` build
elements one by one and undo them after an exception.

### Adaptors of numerical libraries (`adaptors/blas`, `adaptors/lapack`, `adaptors/fftw.hpp`, `adaptors/cufft.hpp`)

They keep no state. A function looks at the strides of its operands and at
whether they are conjugated, and asks the library for something: BLAS and LAPACK
know matrices by columns with a leading dimension, FFTW lists of sizes and
strides, cuFFT one transformed dimension (or some) and one to repeat along, so
that `cufft::dft` turns, flattens and loops until a request fits. Correct means:
what the library is asked for is what the *views* promise, whatever their order
and padding; no request is one the library refuses; the recursion ends.

### Matrices over processes (`adaptors/fftw/mpi`)

`scattered_array` holds the rows of one process, `gathered_array` all rows on the
first, `mpi::array` converts to and from a matrix that every process has. State: a
buffer per process, and what is on its way between them. Operations are
collective but for copies and assignments of one's own rows. Hard behaviour: a
process may be several operations ahead of another; one may have no rows; one
may return from an operation that others wait in. Correct means: each process
has its rows of what one process would have computed, and none waits for ever.

### Arrays on a device (`memory/adaptors/cuda`, `adaptors/cuda/cublas`, `adaptors/blas/cuda.hpp`)

Pointers to device or managed memory, references that copy one element to the
host and back, copies of any stride, fills, and cuBLAS through a context. State:
the memory, the stream of what was launched and not yet executed, the pointer
mode of a context. Threads make runtime calls, the device follows. Correct
means: the host never reads an element that a launch has yet to write, and what
is in the stream is what the operations say, in their order. Any call of cuBLAS may
be refused, which some functions report and others do not.

### The rest

The operators (`detail/operators.hpp`, `utility.hpp`), allocators that forward
to a resource, Thrust, serialization, debugger display, examples, timings.
`PROJECT.json` lists each with its status; section 8 says why those that are
left out are.

## 2. Modules

```
Blocks ---- Monotonic ---- Stack ------ Fallback      Resource   what a memory
   \            |            |             |             ^      resource promises
    \           |            \      FallbackProofs       |
     Instrumented -- InstrumentedProofs    +--- refine --+

Layout ---- BasicArray ---- Views ------- ViewsProofs   Grid     what a view
   \         |    \           +--- refines ------------->         promises
    \        |     Elementwise ---- Comparison
     \       |                      \-- ElementwiseProofs
      \      +-- BlasLibrary ---- BlasAdaptors ---- Blas
       \     +-- FftLibrary ----- FftAdaptors ----- Fft
     Arrays --- ArraysProofs
      +--- refines ------------------------------> ArrayValues   what arrays promise

LayoutProofs (of Layout) is what ViewsProofs, ArraysProofs and ElementwiseProofs rest on; its sums over finite sets
are also those of FallbackProofs and InstrumentedProofs.

Lifetimes ---- LifetimesProofs        what the constructors of Arrays do to elements
MpiLibrary --- Mpi --- MpiProofs      matrices over processes
CudaRuntime -- Device                 arrays on a device that runs behind
```

* **Blocks**: addresses, alignment, containment, disjoint blocks.
* **Resource**: the abstract memory resource; `live` is the set of blocks held.
* **Monotonic**, **Stack** (its base class by `INSTANCE`), **Fallback** (a Stack
  and an external `back_`, which is a Resource that may throw), **Instrumented**.
  State variables have the names of the members; `live`, `back`, `lost` are
  history variables that stand for what the clients hold and what an exception
  took away from everyone, and `stranded` counts the bytes of the buffer that no client holds and
  nobody can return.
* **Layout**: `layout_t` as a sequence of records, one per dimension, and its
  pure operations. **BasicArray**: a view as a value, what each operation makes
  of one, and iterators. **Views**: the state machine of one client that holds one
  view and replaces it by what an operation returns, so that operations chain
  in any order. **Grid**: the same operations as renamings of tuples of indices,
  without strides, offsets or counts. A cast to parts multiplies the numbers of a
  layout (`Scale`) and the size of the root (`room`): in Grid element n becomes
  element f * n + part of the root in parts.
* **Elementwise**: one call that writes through a view, from another or from an
  element of the same memory, one element per step. **Comparison**: equality and
  order of views, as a function of the number of dimensions that is defined by rows, which have
  one less.
* **Arrays**: a program with a few array variables over a heap. Operations on a
  pair of variables and heap (`Construct`, `Deallocate`, `Clear`, `Move`,
  `Swap`, ...) compose to actions as the C++ functions compose, temporaries
  included (`Temp`). **ArrayValues**: the same program over plain values: a function from
  names to extensions and elements by index. `ValuesOf` reads it off the layouts and the
  heap; a view copied into an array tells its extensions as the array's own layout does
  (`Normal`: a dimension without elements has no indices).
* **Lifetimes**: the loops below the constructors of Arrays, one element per
  step: building, undoing after an exception, destroying.
* **BlasLibrary** and **FftLibrary** are external: what a routine does to memory.
  Numbers are symbols. A BLAS routine leaves *equations* between products of the
  numbers before and after it; a transform leaves in each cell a *sum* of
  initial numbers, each times a fraction of a turn. Two requests with the same
  equations or sums compute the same for every content. **BlasAdaptors** and
  **FftAdaptors** are the requests the adaptors build from views. **Blas** and
  **Fft** are one call of one function: it builds requests, the library serves or
  refuses them; in Fft the recursion of `cufft::dft` is a stack of pending steps.
* **MpiLibrary** is external: blocks of rows, and the transposition between two
  distributions. **Mpi**: every process runs one program of collective and local
  steps at its own pace; in a collective step it hands over its part (`Enter`)
  and goes on once it has what it needs of the others (`Leave`). The ghost
  `whole` has the matrices of a single process after every step.
* **CudaRuntime** is external: the calls of the runtime and what each does once the
  device gets to it. **Device**: threads that make the calls of their operations
  one by one, a stream, and the device. `done` has the operations begun, each with whether
  cuBLAS refused its call without a word (`Refuse`); one that threw is taken out again (`Throw`).
* **...Proofs**: theorems and proofs. **MC...**: values of the constants for TLC,
  and, where a program is an input, the programs.

A definition marked *Mutant* is a plausible slip in the definition below it; no
behaviour of the model uses it. It is there to show that the property named in
`PROJECT.json` would notice.

### How actions correspond to code

One action is one call from start to return or exception, except where the inside
of a call is the subject: one action is one element in Elementwise and
Lifetimes, one request in Blas, one request or one level of the recursion in Fft,
one half of a collective operation in Mpi, one call of the runtime in Device. A
call that can end in several ways is several actions (`Allocate`, `AllocateThrows`, `PushThrows`;
`DeallocateTop`, `StackViolation`, `DeallocateThrows`; `CopyAssign`,
`CopyAssignThrows`). An assertion is a guard where the caller is documented to
meet it, and otherwise an action that sets `aborted`, `stopped` or an outcome, after which
nothing happens: assertions are taken to be compiled in. The constant
`Unchecked` names operations that callers use on the strength of the code's own
assertions, without the care a correct result needs; passing runs give it no
name whose consequences they do not check. `Careful(f)` is the guard that goes
with it, and the comment above each says what goes wrong without.

## 3. Runs

| run | question | bounds | states |
|---|---|---|---|
| `stack` | does the stack resource keep its promise with clients that return blocks in any order? | buffer of 8 bytes at address 3, sizes 1-3, alignments 1, 2, 4, foreign pointers, 7 bytes requested in all | 809941 |
| `fallback` | are blocks routed to their owner, do the counters survive exceptions, what of the buffer does not, does `max_needed()` suffice as a size without padding? | buffer of 6 bytes, `back_` on both sides of it, sizes 2, 4, 16 bytes requested | 58422 |
| `instrumented` | does `leak()` count the held bytes when addresses are reused and the map runs out of memory? | 6 addresses, sizes 1-3 | 13696 |
| `views` | is every chain of view operations right? | a sequence of 4 from index 2, a 2x2 matrix from row 1, a sequence of 2 from 1; up to 3 dimensions, steps and ratios of 2 | 199361 |
| `elementwise` | what do assignment, swap, fill and comparison do to views that overlap, and when an element throws? | 28 views of 8 elements, of 1 to 3 dimensions, every pair | 5752 |
| `lifetimes` | is each element built and destroyed once, whatever throws? | up to 6 elements, rows of 1, 2 and 3 | 283 |
| `arrays` | has every block one owner, whatever throws, and do arrays behave as values? | 2 arrays, 3 blocks, up to 2x2 elements; one allocator and two element values, or two allocators | 4806 |
| `blas` | do the adaptors ask for what the views promise? | every function, 1 to 3 rows and columns, by rows, by columns, neither; padded; conjugated | 41121 |
| `blas_gemm` | is `gemm(1., a, ~b, 0., ~c)` the product, as its test says? **no** | 2x2 | |
| `fft` | do the plans and the recursion compute the transform, and end? | nine shapes of 1 to 3 dimensions of sizes 1 to 3, four ways to lie in memory, apart and in place | 19520 |
| `mpi` | has each process its rows, and does each get to the end? | 3 processes, 3x2 and 4x1 matrices, every program of 2 operations | 16065 |
| `cuda` | does the host read what a program without a device would? | 2 threads, every program of 2 operations in one of them, some of 3, cuBLAS refusing calls, 6 elements | 674339 |

What the passing runs show:

* **LiveApart, PositionsMatch**: no two blocks share a byte and
  `positions_` is the list of the held blocks; the `position_ -= n` of the stack
  never goes below a block still held. **ViolationNeedsOlderBlock**: the
  assertion fires only for a block below another held one, so a client that
  returns the last block first is never stopped. **ImplementsResource**: every
  step is a step of Resource.
* **RoutedByOwner, ImplementsWhole**: the address alone decides where
  a block goes back to, and decides rightly even next to the buffer.
  **NothingLost**: `stack` counts a request that throws and a block it refuses, and
  below a fallback the two cancel out (`HeldBytes`); when no request needs padding
  and the blocks of the buffer have been returned, all of it is free again but for exactly the
  bytes that `positions_.push` took when it threw (`Reclaimed`; stack.hpp:40).
* **HighWater, NeededSuffices**: without padding, and with these bytes set aside,
  the buffer is never used beyond `max_needed()`, and a step falls back only if `max_needed()` exceeds the
  buffer or its own push throws. This is what the examples of `fallback.hpp` rely on; the bytes have
  to be set aside because below a fallback their request is counted off again with the block of `back_`
  that served it.
* **LeakIsHeldBytes**: a balance that is not 0 is that of the one block held at
  the pointer (`BalanceOfHeld`), and their sum is the number of bytes held.
  **LostUnseen**: `blocks_[p]` may throw after `back_` has answered; the block is lost,
  but its address is none that a client had or gets, so no balance goes wrong.
* **Whole**: offsets and counts stay multiples of the stride through every chain
  of operations, casts included, so that the divisions in `size()`, `extension()` and `sliced`
  drop nothing. **InBounds, NoAlias**: no index
  leaves the root array, no element has two names.
  **TraversalMatchesIndices, TraversalOfAnyDimension**: iterators reach what
  indices name. **ImplementsGrid**: the chain names exactly the elements, at the
  indices, that the renamings of Grid name.
* **AssignedSoFar**: an assignment between views, whole or cut off by an exception,
  gives the elements written so far the values that the argument had when the
  call was made, if the views are apart, or if they have the same strides and sizes, the one assigned
  to is not ahead and the other's elements ascend; `fill` may take an element of
  the view itself; nothing else is ever written. **StopsBeforeWriting**: the assertions on rows, met
  one by one, stop a call before its first write, because all rows are alike.
  **SwapExchanges**: a swap exchanges by index where the views are apart.
  **EqualMatchesIndices, TotalOrder**: what the walk over rows compares is what indexing
  names, and of two views exactly one is less or they are equal. (The view that starts at the *larger* index is less,
  before any element is looked at.)
* **ElementsLiveOnce, OnlyWholeRowsStay**: each element is built where none lives and destroyed
  once; an exception leaves no element alive, but rows that were complete.
* **Owned, LostInConstructionOnly**: through moves, swaps, clears, reextents,
  reshapes and interrupted assignments each block has exactly one owner, of the
  allocator it came from and of the size its layout says; the only blocks lost
  are those of a constructor that was interrupted. **ImplementsValues**: arrays
  share nothing and change only when called, with any order of allocations.
* **Computes** (in Blas): the equations made true are those the views promise, no
  more and no fewer: no element is swapped with another, conjugated once too often,
  left out, or written outside the triangle. **NeverRefused**: what passes the
  assertions of an adaptor is taken by the library; a row or a column alone still
  has a leading dimension that is long enough. **ServesRows**: assertions never
  stop a call whose matrices lie by rows as they are.
* **Computes** (in Fft): every cell of the result is the sum the definition of the
  transform gives, every other cell is untouched, in place too. **ServesAlike**: operands that lie
  alike are always taken. **Terminates**: the turning and looping of `cufft::dft` ends,
  unless its search has read past its end (section 4).
* **SharesOfWhole**: however far the processes are apart, each has the rows, the
  replica and the answers that one process alone would have. **NoDeadlock**: never do all
  that are left wait. **Finishes**: each gets to the end of the program.
* **ReadsCurrent**: what a thread has read is what a program without a device
  would have read that leaves out the operations cuBLAS refused, whether it threw or said nothing;
  only the result of a refused reduction may be anything. **InOrder**: whatever is still in the stream, the
  memory it will leave is that of these operations one after another. Without refusals
  (`MayFail = FALSE`) nothing is left out, and `ReadsAsAsked` holds as well.

`MCMonotonic.cfg` checks the monotonic resource alone (2285 states); as the base
class of a stack it is part of the runs above.

### Why the bounds are enough

The buffers begin at an odd address and hold at least three blocks with padding
between them, so alignment, a request whose padding alone overflows, the last
byte and three blocks returned in every order all occur. `MaxRequested` bounds
the byte counters, which only grow; at 7 every state of the buffer is
reached. Foreign blocks include the address right behind the buffer.

Views start from indices other than 0; partitioning
a matrix reaches three dimensions (`MaxRank`), the smallest number at which
turning once differs from turning back. `MaxStride` bounds the strides: a
dimension of at most one index may be strided again and again. `MaxRoom` bounds the
root in parts: the sequence of two elements is cast into four parts, and the
casts chain with everything else. Steps of 2 divide the sizes that occur.

The operands of `elementwise` are rows, columns, a diagonal, windows that overlap
by all but one element, turned, strided and reindexed matrices and cubes over
the same eight elements; of 3 dimensions, because rows are compared by their
number where they have 2 dimensions and by their extension where they have 1. The memory
starts with values that are all different: copies never look at them, so whatever goes wrong with
some values goes wrong with these. For the same reason one call makes a behaviour.

Two arrays are enough for a protocol in which every operation has at most two
operands; three blocks are what two arrays and a temporary hold at once. The
shapes are chosen so that a reextent meets all, a part or none of the old
indices, and so that there is an array without elements. `Programs` separates two kinds
of program: with `std::allocator`, and element values that differ; with an allocator of two
values, and elements that do not.

The adaptors' branches depend on which stride is 1, on a size being 1, on
conjugation and on the order of strides: sizes 1 to 3 with every layout, padded
or not, meet each combination, and 2 and 3 tell a matrix from its transpose. Terms and
equations are symbolic, so one content of the operands stands for all. `Period = 6` is a common multiple of the sizes
that are transformed, so that phases are exact.

Three processes over 3 rows have one each; over 4 they have two, two and none.
Programs of two operations (each up to a new communicator and the operation)
suffice for a process to be an operation ahead of another and for one to read what
another has written since. On the device one thread has every pair of operations of
`MCDevice`, which include fills of 0 to 5 elements, copies of stride 2 and both ways
through the host; the other thread runs a fixed program of launches and updates. Two operations cannot
have a launch that is not waited for, a call that throws, and a read of what the launch writes, so
there are programs of three for this (`Interrupted`).

### Views and symmetry

`views` identifies states by `WithoutCall`, which drops the ghost `call`: no
guard and no checked property but the mapping to Grid's own `call` reads it, and
there it is only written. `arrays` uses the permutations of array names and
of blocks, which no definition tells apart, and `WithoutDangling`, which forgets
where an array without elements points: `deallocate` does nothing for it, and no
operation reads its elements.

### Deadlock

TLC checks for deadlock in `instrumented`, `lifetimes`, `cuda` and in `MCMonotonic.cfg`. In `elementwise`, `blas`
and `fft` a behaviour ends with its call. In the
stack's and the fallback's runs the program really stops, at the assertion, and
the bound of the byte counters ends behaviours; in `views` a view of
no dimensions (an element) has no operations; in `arrays` the program
stops at an assertion; in `mpi` the programs end, and that nobody is stuck before is
`NoDeadlock`. In `cuda` the end of all programs is a step of its own (`Over`), so that only threads that wait for one another would count.

### Fairness

* Fft: weak fairness of the steps of a call. A call runs on one thread, which the
  system does not leave aside for ever.
* Mpi: weak fairness of each process, none between them: every process runs, how fast is
  left open, and a collective operation is left as soon as what it needs is there.

The other specifications assume none and state no liveness: whether a next call is
made is the client's choice, and a call that was made is one step or ends by itself.
Device has none either: its properties are about what is read and what is in the stream,
however far behind the device is.

## 4. Where code and documentation part

`blas_gemm` is the run that expects a violation. adaptors/blas/test/gemm.cpp:185
has `blas::gemm(1., a, ~b, 0., ~c); // c=ab⸆`. With `a` by rows and `b` and `c`
by columns `gemm_n` asks for `('N','T')` of `b` and `a` into the columns of `c` (gemm.hpp:74),
which is `~b` times `a` and not `a` times `~b`; the test looks at one element, and for its numbers
that one is 183 in both products.

More of the kind, each a counterexample to one property. To see one, change the
constants of the configuration as given, name the property, and add
`CHECK_DEADLOCK FALSE`:

| configuration | constants | property | what it shows |
|---|---|---|---|
| `MCViews` | `Shapes <- ThreeRows`, `MaxRoom = 12`, `MaxStride = 12`, `Unchecked <- PartitionAlone` | PartitionKeepsElements | `partitioned(s)` asserts `nelems_ % s == 0` (array_ref.hpp:540), where `nelems_` counts elements in memory, not rows: 3 rows of 4 pass with s = 2 and lose a row |
| `MCViews` | `Shapes <- Box234`, `MaxRoom = 24`, `MaxStride = 24`, `Unchecked <- RangeAlone` | RangeInPlace | `range(ir, n)` returns with `rotated(-n)` (array_ref.hpp:496), which `layout_t::rotate` takes for D + n turns forward, as it subtracts a negative number (detail/layout.hpp:457): the dimensions of 2x3x4 come back in another order |
| `MCViews` | `Shapes <- OneBased`, `Firsts <- ZeroFirst`, `MaxRank = 2`, `MaxRoom = 8`, `MaxStride = 8`, `Unchecked <- StridedAlone` | InBounds | `strided(2)` of indices 1 to 4 has indices 0 and 1, and 0 lies before the array (array_ref.hpp:484) |
| `MCViews` | `Shapes <- OneBasedRows`, `MaxRoom = 12`, `MaxStride = 12`, `Unchecked <- DiagonalAlone` | InBounds | the diagonal keeps the second dimension's offset under a longer stride (array_ref.hpp:523) |
| `MCViews` | `Shapes <- NoColumns` | NonZeroStrides | an extent of 0 makes the strides before it 0 (detail/layout.hpp:338), which `size()` divides by |
| `MCViews` | `Shapes <- OneBased` | BeginZeroIsBegin | README.md:216 has `begin(0)` equivalent to `begin()`; it is not for a reindexed view (array_ref.hpp:700) |
| `MCViews` | `Shapes <- OneBased`, `MaxRoom = 8`, `Unchecked <- PartsAlone` | InBounds | `reinterpret_array_cast(n)` of one dimension takes any n (array_ref.hpp:1302): with more parts than an element has the last ones lie behind the array |
| `MCElementwise` | | AssignedWhateverOverlaps | an assignment between views that overlap reads what it has written: `A() = A.rotated()` makes A symmetric (array_ref.hpp:764) |
| `MCElementwise` | | AssignReplacesAll | `assign` from fewer rows leaves the others as they were; the assertion is commented out (array_ref.hpp:739) |
| `MCLifetimes` | | AllOrNothing | array.hpp:141 calls the constructor from rows "analogous to std::vector::vector (5)"; the loop over rows has no catch (array_ref.hpp:1595), and rows built before an exception stay alive |
| `MCLifetimes` | `Room = 8`, `RowLists <- Ragged`, `Unchecked <- RowsAlone` | ElementsLiveOnce | rows are taken to be as long as the first (array.hpp:147): a longer one is built over the next, a shorter one leaves raw elements that are destroyed later |
| `MCArrays` | `Programs <- PoolOnly`, `Shapes <- Line`, `Throwing <- Constructions`, `Unchecked <- Nothing` | NoLeak | a constructor allocates in the initializer of its base class and throws in its body; nobody owns the block yet (array.hpp:179) |
| `MCArrays` | `Programs <- PoolOnly`, `Shapes <- Line`, `Unchecked <- MoveAlone` | Owned | a move with another allocator takes the block along (array.hpp:104), and returns it to the wrong one |
| `MCArrays` | `Programs <- StandardOnly` | NeverStopped | as many rows as before, but longer, are assigned in place (array.hpp:888) and trip an assertion |
| `MCArrays` | `Programs <- PoolOnly`, `Shapes <- Line` | AllocatorFromOperands | assigning a view of other extents replaces the array's allocator by a default one (array.hpp:860) |
| `MCBlas` | `Ranges <- Two`, `Unchecked <- PotrfAlone` | Computes | after a minor that is not positive `potrf` returns a block with one row more than was factored (potrf.hpp:37), and the whole matrix when it was the last |
| `MCFft` | `Shapes <- Four`, `Kinds <- OnlyDense`, `Beyond <- TrueByte` | Terminates | the search for a small dimension reads the flag of the next one (cufft.hpp:352); with four dimensions, two of one element, the recursion turns for ever |
| `MCFft` | `Shapes <- Square`, `Kinds <- OnlyDense`, `Unchecked <- RotateCalled` | Computes | `fftw::rotate` copies an array into itself with the sign `none` (fftw.hpp:443), which transforms nothing and moves one element |
| `MCMpi` | `Processes = 2`, `Extents <- Matrix`, `Programs <- RaggedPrograms`, `Ragged = TRUE` | NoDeadlock | a comparison returns at once where the extents differ (fftw/mpi.hpp:119); if they differ on one process only, the others wait for it in the reduction |
| `MCDevice` | `Threads <- OneThread`, `Programs <- Singles` | ReadsCurrent | vector functions through a context that is kept, copies and fills do not wait for the device (blas/cuda.hpp:33): the host reads an old element of managed memory |
| `MCFallback` | | AllReclaimed | `positions_.push` may throw after `position_` has moved (stack.hpp:40); the `catch(...)` of the fallback serves the request from `back_` (fallback.hpp:60), and these bytes of the buffer never come back |
| `MCDevice` | | ReadsAsAsked | the functions of vectors drop the status that cuBLAS returns (blas/cuda.hpp:285-298, 342-351; blas/scal.hpp:16, blas/nrm2.hpp:32): a refused call does nothing, and nobody is told; a refused reduction into a local variable returns what was in it |
| `MCDevice` | `Threads <- OneThread`, `Programs <- ThrownBefore` | ReadsCurrent | `cublas::call` throws before it synchronises (cuda/cublas/call.hpp:13): the host reads an element that an earlier launch has yet to write |
| `MCDevice` | `Threads <- OneThread`, `Programs <- Backward` | InOrder | the status of `cudaMemcpy2D` is dropped (cstring.hpp:77): a copy of a reversed array has a negative pitch, is refused, and copies nothing |
| `MCDevice` | `ContextOf <- Shared` | InOrder | `nrm2` switches the pointer mode of its context (blas/cuda.hpp:290) while another thread launches through the same one |

Read off the models without a configuration of their own:

* README.md:605 calls the stack resource "FIFO memory reclaim"; `deallocate`
  asserts that the pointer is the last one handed out (memory/stack.hpp:50): it is
  last-in first-out (`StackViolation` of a client that returns the oldest block first).
* Padding is never given back (memory/stack.hpp:51): requests of 1 byte at alignment
  4 exhaust the buffer although each is returned. This is why `NoPadding` is in the guard of `Reclaimed`.
* After a push that threw, a buffer of `max_needed()` bytes may fall back, and be used beyond
  `max_needed()`: the counters forget the bytes, the buffer does not. `stranded` in `HighWater` and
  `NeededSuffices` is what they would have to count.
* `GemmSound`, `HerkSound`, `SyrkSound` and `Clear` in Blas are the operands the
  functions get right. Outside of them: branches of `gemm_n` that compute BA for AB, swap the sizes of C or
  do not conjugate; `herk` and `syrk` do not look for a stride of 1 (herk.hpp:57); `herk` into rows
  stops at a matrix by columns and at a single number (herk.hpp:66); `syrk` with both by columns takes rows for columns (syrk.hpp:27); a matrix of one contiguous column is taken for one by columns, with
  a leading dimension smaller than its rows, and refused (gemv.hpp:25, also in `ger`, `syrk`,
  `herk`, `trsm`). `trsv` ignores the conjugation of its vector (trsv.hpp:39).
* `tail[d]` in `cufft::dft` is read one past its end (cufft.hpp:352). The byte
  is `beyond` in Fft, and either value occurs: with {false, true, false} on 2x1x2 a build with
  optimisation ends and one without recurses for ever. `Terminates` therefore speaks of
  the calls that have not read it.
* Two steps in the texts of the library have an order the language leaves open:
  `fftw::move` sets `mbase` to 0 in one argument and reads it in another (fftw.hpp:523).

The passing runs keep away from these by the guards marked `Careful(...)`, by
`Iterable`, by the programs of the MC modules, and by shapes without empty dimensions in `views` and `fft`.

## 5. Proofs

`tlapm X.tla` checks the proofs of each of the eight modules `...Proofs`.

### Stack (at the head of FallbackProofs), for every buffer, set of sizes and set of alignments

Assumption: `StackAssumption` (sizes and alignments are positive; foreign blocks
are outside the buffer). `TypeOK`, `LiveApart` and `PositionsMatch` are not
inductive one by one. `IInv` is their conjunction with `BehindPosition`: every
held block ends at or before `position_`. From it: the top of `positions_` is the address of
the *highest* held block (`TopIsHighest`), so moving `position_` down by that
block's size stays above all the others. Each action has its lemma
(`AllocateInv`, `DeallocateTopInv`, `BufferUntouchedInv`); `NextInv` puts them
together.

* `TypeCorrect`, `StackLiveApart`, `StackPositionsMatch`: from `IInv`.
* `StackViolationNeedsOlderBlock`: the action property, from `IInv`.
* `StackImplementsResource`: initial states map to initial states and steps to
  steps or stutters of Resource (`StepRefines`).
* `StackHighWater`: needs a second invariant (everything is a multiple of every
  alignment, and `position_ - Start <= total_requested_ - total_discarded_ <= max_needed_`
  until the assertion fires), and assumes `Foreign = {}`: a foreign block counts as discarded
  although the buffer never held it. Under this assumption nothing is set aside for pushes that throw,
  as no other resource gives their bytes back: it is stronger than `HighWater`.

### Fallback, for every buffer and every `back_`

A step of a fallback is a step of its base class or leaves that alone
(`StackStep`), so every behaviour is one of Stack: `FallbackIsStack`. With it `IInv` of
the stack holds of it, and what is left is the other side: `BackOK`, the blocks
of `back_` are apart, aligned, and at its own addresses, none of which the buffer has.

* `FallbackRoutedByOwner`: blocks of the buffer lie inside it (`LiveInside`), the
  others outside (`BackOutside`).
* `FallbackImplementsWhole`: a block of one side meets none of the other
  (`SidesApart`), and a request is a step of the common Resource on either (`WholeStep`).
* `FallbackNothingLost`: two sums are carried along. The counters differ by the bytes of all
  blocks held on either side and of the requests nobody served (`HeldInv`: each step that changes
  a counter by n takes one block of n bytes into that union or out of it, `NewBlock`, `ReturnsOne`), and
  without padding `position_ - Start` is the sum over the blocks of the buffer alone, and `stranded`
  (`FullInv`), whatever `back_` holds.
* `FallbackHighWater`: the blocks of the buffer are some of the blocks held, so that their bytes, which are
  `position_ - Start - stranded`, are at most the difference of the counters and hence `max_needed_`
  (`ChargedInv`, which also says that this stays so when the assertion has ended the program).
* `FallbackNeededSuffices`: a step that falls back without a throwing push asked for more than was left. The counters, which
  moved first, already hold the request and all blocks of the buffer (`LiveCharged`), so that with `stranded` they exceed
  its size, and so does `max_needed_`.

### Instrumented, for every set of addresses and sizes

Invariant: the blocks held or lost are apart (`AllApart`), every one held is booked
with its size, and a pointer with no block has balance 0 (`Booked`). Two blocks never share an address
(`OneBlockPerAddress`), so what `blocks_` adds up is at most one block at a time.

* `InstrumentedBalanceOfHeld`, `InstrumentedLostUnseen`.
* `InstrumentedLeak`: the sum of `blocks_` over its pointers, those at 0 included, is the sum of
  the sizes over the blocks held (`LeakInv`). A request changes the one by n at a pointer that
  is new or stood at 0 (`FreeBalance`), the other by one block of n bytes.

Sums: the community modules define a sum over a set by taking out one element after the other, in the order `CHOOSE`
picks. `LayoutProofs` proves once that such a function exists on the subsets of a finite set
(`SummingExists`), that taking out another element first gives the same (`AnyOrder`),
and hence what a sum becomes when an element comes, goes or changes (`TotalMore`, `TotalSplit`,
`TotalChanged`). Induction is over finite sets as elements of a set of sets (`SetInduction`).

### Layouts, for every list of extensions

`LayoutProofs` is a library of lemmas about `layout_t` that know no state machine, and four
theorems about the layout that the constructor builds.

* `LayoutOfExtensions`: its `num_elements()` is the product of the lengths of the extensions and, unless that is 0, it
  gives back the extensions it was made from. A list is built from its last
  dimension on, so the argument goes along that recursion (`LayoutMade`, `Made`).
* `DenseInBlock`: every tuple of indices has a position below `num_elements()`.
* `DenseApart`: no two tuples have the same position.
* `DenseInOrder`: the position of a tuple is the number of tuples before it in lexicographic
  order. Positions are ordered as tuples are, and there is exactly one for every place of the block
  (`MixedRadixOrder`, `Rowwise`): arrays are stored row by row.

The last three are one fact about mixed radix numbers: where each stride is what the dimensions
after it hold together (`Dense`), these reach less than one step of it, so that the
position determines the index of the leading dimension, and so on (`WalkInBlock`, `MixedRadix`). Recursion over the length of a sequence is recursion
over numbers here: a set S of naturals that has 0, and i + 1 with every i below a bound, has all of them up to the
bound (`InductionTo`). That takes a set where the induction theorems of the library take an operator.

### Views, for every list of shapes, number of dimensions and stride

The inductive invariant `Inv` has two parts. `This \in WholeViews`: the view is an integer base and a
sequence of dimensions that are whole numbers of strides with a positive stride.
`Faithful(This, room)`: each tuple of indices names an element of the root, and no two the
same one, which is `InBounds` and `NoAlias` together. The second needs the first, because it is
exact division that says which index of the new view stands for which of the old.

* *Whole.* One lemma per operation shows that the view it returns is whole again; the
  arithmetic is in `SliceDim`, `StrideDim`, `PartitionDim`, `ScaleDim`, `QuotExact`.
* *Renaming.* For each operation there is a function from the tuples of the new view to
  those of the old one that is injective and keeps addresses (`Renames`). Renamings compose
  (`RenamesThen`) and carry `Faithful` along (`RenamesFaithful`). Most
  operations change the leading dimension only: `FrontRenames` reduces them to
  what happens to one or two indices at the front. `rotated(n)` is n single turns
  (`TurnRenames`), each of which moves the first index to the end. Casts name parts of elements: their addresses
  are multiplied, and room for each part is left between them (`ScaleNames`, `MemberFaithful`, `PartsFaithful`).
* *Roots.* The layout of a root is dense: `DenseInBlock` and `DenseApart`.
* *Refinement.* `Becomes` says of an operation which extensions its view has and which renaming leads
  back, and each operation is proved to become what the action of the same name in Grid says
  (`PromisesSliced`, `PromisesFlatted`, ...); casts multiply elements instead (`PromisesMember`, `PromisesParts`). A root
  is in the order Grid begins with by `DenseInOrder`.

Theorems, all from `Inv`: `ViewsInBounds`, `ViewsNoAlias`, `ViewsWhole`, `ViewsTypeCorrect`,
`ViewsTraverse` and `ViewsTraverseAnyDimension` (iterators agree with indices), and
`ViewsImplementsGrid`, the refinement: no operation reads more of a layout than the box it stands for.

Hypotheses: `Unchecked = {}`, as the operations that break a multiple or leave the root are exactly those with a
`Careful` guard; and `RootsWhole`, that no extension of a root but the leading one is
empty. Without it the strides before the empty one are 0 and `Whole` is false from the beginning
(`NoColumns` in section 4). The refinement also assumes `EmptyAtZero`: an empty leading extension is
`(0, 0)`, because `extensions()` forgets where another one began.

### Elementwise and Comparison, for every memory and every set of views

Assumption: `OperandsAssumption`. The views have elements, whole dimensions (`Whole` of Views) and name no
element twice (`NoAlias` of Views).

* *The walk.* An iterator over rows of rows meets the elements in the order of a new array
  with the same extensions (`NthOfName`, `NameOfNth`). `Nth` divides from the last dimension on, and from the position of a
  tuple in the dense layout of these extensions each division leaves the position of the tuple without its last
  index (`LandsMore`, by induction over the number of dimensions). So it meets each element once
  (`OperandWalks`), and two views with the same extensions side by side, whatever their strides.
* *The assertions.* At the first element all rows begin, so all of them are met there
  (`AssertedFirst`), and they leave each element of the argument a place in `*this` (`AssertedFits`).
* *The call.* `IInv` says that behind the first element all assertions hold, that nothing has changed but
  the elements walked over (`Elsewhere`), and what these hold (`Done`, `DoneBack`). The step that copies needs that
  it reads what is not written yet (`SourceUnwritten`): the views are apart, or the
  distance between the two walks is fixed (`WalksAlike`) and the one that reads is ahead; or the
  source is the one element of a fill, which at most is copied onto itself.

Theorems, all from `IInv`: `ElementwiseAssignedSoFar`, `ElementwiseStopsBeforeWriting` and
`ElementwiseSwapExchanges`. The last counts occurrences of values (`ExchangeCounts`), since
overlapping views permute the memory but do not exchange it.

* *Comparison.* A tuple of indices of a view is one of a row and a tuple of that row (`RowName`, `RowAddress`),
  so that rows with the same values make views with the same values (`SameByRows`), and what the recursion over
  dimensions finds is `SameValues` (`EqualIsSame`). For the order, `Orders(V, R, E)` says that R is
  less and E is equal among the views V: one of them holds of any two, and never two. If rows are
  ordered so, sequences of rows are, of different lengths as well (`DecidedOrEquated`,
  `DecidedNotBoth`, `DecidedTransitive`): what decides is the first row that differs, found without
  equality, as the code does, by asking for less in both directions. With the first index in front
  (`OrdersAbove`) views of one dimension more are ordered again.

`ComparisonEqualMatchesIndices` and `ComparisonTotalOrder` follow in every state of a call.

### Arrays, for every set of arrays, blocks, allocators and shapes

`Owned` is not inductive. An action is a sequence of operations of the code on a *world*, a pair
of arrays and heap, in which a temporary lives and worlds in between break what holds at the end. The invariant is therefore stated of
worlds: `Sound(w)` says that arrays and blocks have their types, every array with elements has a block of
its size and (unless moves with another allocator are allowed) of its allocator, no
two arrays share one, and each block has an owner or was lost by an interrupted constructor. `IInv` is
`Sound(World)` with no temporary alive (`Live \subseteq Arrays`). It also needs more of a layout than
its type. `ArrayLayouts`: it is one that a constructor could have
built, or has no elements. Otherwise `deallocate`, which takes the size from the layout, and
`reshape`, which trusts `num_elements()`, could not be followed. `Told`: `extensions()` says `(0, 0)` of every
dimension without indices, after `reindex` too. An array whose layout told more would not get it back from
the copy of its extensions, and a copy would differ from what it copies.

There is one lemma per operation on worlds (`Construct`, `Deallocate`, `Clear`, `Destroy`,
`Move`, `Swap`, `Resized`, ...): from a sound world it makes a sound one, under the precondition its callers
establish. An action composes them as the code does.

* `ArraysInvariant`: `IInv` is an invariant. `ArraysTypes`, `ArraysLoseInConstructionOnly` follow.
* `ArraysOwn` assumes `"move" \notin Unchecked`: a move with another allocator takes
  the block along (`MoveAlone` in section 4).
* `ArraysLoseNothing` assumes that constructors of elements do not throw: then nothing is
  ever lost (`NoLeak`), although assignments may throw at any element.
* `ArraysImplementValues`: the refinement `ImplementsValues`, with no hypothesis. The empty program maps to the
  empty function, and `NextValues` maps every action to the action of ArrayValues with the
  same meaning; an interrupted constructor changes no value, and the assertion that stops a program none either.

The refinement follows the worlds. `Gains(w, a, v, x)` and `Becomes(w, a, v, x)` say that v is w with array
a new, or changed, of value x, *and all other arrays of the values they had*; each operation of the code
has a lemma that says which x (`CopyViewGains`, `MoveValues`, `ResizedBecomes`, ...). The others keep
theirs because the blocks are apart and each array has the block its layout needs: this is where
`Sound` is used. That the elements of x are the right ones is about layouts. The cell of an index in a
new layout is the number of tuples before it (`OrdinalPosition`, from `DenseInOrder`), which is what `reshape`,
a copy of cells and an assignment interrupted at element k come down to (`ReshapeBecomes`, `SamePositions`,
`RefillBecomes`); a transposed view has the tuples of the other turned (`TurnedTuples`), a
reindexed layout those of the old one moved along the first dimension (`ReindexNames`); rows are
cells by division (`RowOf`).

The assumptions on the constants say that shapes are lists of ranges of one length, that the
temporary is none of the program's arrays and `nullptr` no block, and that a program's types have default values.

### Lifetimes, for every block, number of elements and list of rows

Neither property is inductive: both speak of what lives when a call has ended,
and that depends on how far the loop had come. `IInv` says for each phase which
cells live. While elements are built it is the prefix `Upto(current)`; while a row is
unwound it is the whole rows before, a gap that grows from the start of the row, and
the rest of the row (`Unwinding`); while the block is destroyed it is `Upto(first)`. Two sums make
the loops meet: `total = current + n + Len(rows) * width`, so that what is built when the
rows run out is what is destroyed later, and `first = k * width`, so that an exception leaves whole rows.
The hypothesis `"rows" \notin Unchecked` says that all rows are as long as the
first; without it the first of the sums is false (`Ragged` in section 4).

* `LifetimesElementsLiveOnce`, `LifetimesOnlyWholeRowsStay`: from `IInv`, which
  also contains `LifetimesTypeOK`; one step per action (`NextKeeps`, `BeginKeeps`).

### Mpi, for every number of processes, matrices and programs

* `DealtOnce`: the default blocks of FFTW-MPI, as modelled, deal each row to exactly one process. Row
  i goes to process `i \div block`, which exists because the blocks cover all rows
  (`DefaultBlockFacts`).
* `MpiNoDeadlock`: the invariant says that a process has handed over its part of every
  collective step it is through, and of the one it is inside (`HandedOver`), and that replicas
  are cleared on all processes alike (`ReplicaGone`). Take a process that is furthest
  behind (`Slowest`): it can hand over or go on alone, or it waits in a step that all others
  are through or inside of as well; if one of those is not inside yet, that one can advance.
  The hypothesis `~Ragged` is needed: with it `NoDeadlock` is false.
* `MpiSharesOfWhole`, from the same invariant and `SharesInv`, with the same hypothesis. That a process has its share
  (`HaveShares`) does not carry itself: a process that leaves a collective step puts together what others
  handed over, who have gone on and changed their matrices since. `SentShares` says of
  every part ever handed over that it is due (`Due`): what the program on one process gives at that step,
  not what its sender has by now. `ScriptRuns` says that the program on one process is run step by
  step. `Gathered` and `Scattered` are why the blocks fit: the transposition with blocks of all
  columns sends each column of the transposed matrix to the process whose row it is, and each row
  has one owner (`OwnerOf`, `AssembledIs`). The answers need `EqualParts`: two matrices are equal when all
  their parts are.

### Only model-checked

* Monotonic (as the base class of Stack it is inside of the proofs of that).
* Blas and Fft (their properties are equalities of sets built from folds); Device (recursive operators).
* What is out of the prover's reach: `Terminates` and `Finishes` under fairness.

## 6. What is assumed

* Requests are for at least one byte. `array_allocator::allocate` answers
  `nullptr` itself for zero (array.hpp:35); a request of zero bytes to
  `monotonic` would return a pointer that `owns` disclaims when the buffer is full.
* `back_` and the heap of Arrays are external: they keep the promise of
  Resource, or throw. Allocators are told apart by value.
* Addresses are integers and do not wrap around.
* Elements have a default constructor; their copies and assignments may throw,
  their moves and destructors do not.
* Clients of a view stay inside its extension, as `operator[]` asserts.
* BLAS, LAPACK, FFTW and cuFFT compute what their interfaces promise, for operands that lie
  apart in memory where an adaptor asks so. BLAS ends the program at a leading
  dimension that is too small.
* MPI delivers every message. FFTW-MPI's transposition moves the blocks its arguments
  describe; `distribution.hpp` and `scattered_array.hpp` are its only users.
* There is one default stream. A copy with host memory at one end returns when it is
  done, one inside the device or of managed memory may return before; the destruction of a cuBLAS handle
  waits for the device. A call that waits does so until the thread's own launches are done, and
  two threads do not use each other's arrays. A call that cuBLAS refuses launches nothing; that a handle is made
  and its pointer mode set is taken to succeed.

## 7. Plan

Done: Blocks, Resource, Monotonic, Stack, Fallback, Instrumented and their proofs;
Layout, LayoutProofs, Grid, BasicArray, Views with casts, ViewsProofs; Arrays, ArraysProofs, ArrayValues;
Elementwise, ElementwiseProofs, Comparison; Lifetimes, LifetimesProofs; Blas (with LAPACK), Fft, Mpi, MpiProofs, Device.

Next, the most important first:

1. **Arrays over the stack resource**: `reextent` holds two blocks and returns
   the older one first; composing Arrays and Stack shows which operations do.
2. **Moving elements**: sorting rows through `array_iterator`, whose references are
   views and whose values are arrays; dimension 0 of `array`.
3. **Compositions of functions**: `onrm` (herk, potrf, trsm), `gemm` on the device.

## 8. Not modelled

* `stack::reset()` (`std::stack` has no `clear`), `array::move()` and the assignment of its result,
  `assign(extensions, value)`, the copy constructor with an allocator, `instrumented` and `fallback` over a `monotonic`
  (their calls of `deallocate` have another number of arguments), `gerc` and `geru`: no program
  can instantiate them. `detail/monotonic_allocator.hpp` and
  `detail/stack_allocator.hpp` do not compile.
* `flattened()` and `biiterator`: their only user is a test that is switched off.
* Arrays of dimension 0, element types without a default constructor.
* `detail/operators.hpp`, `utility.hpp`, the allocators of `memory/`: they
  forward and keep no state.
* BLAS: `nrm2`, `asum`, `iamax` (one call each), `detect_triangular` (a scan).
  LAPACK: `geqrf`, the cuSOLVER versions. FFTW: planner flags, costs, threads, `fftw::move`.
  cuFFT: error codes. cuBLAS: those of `cublasCreate` and `cublasSetPointerMode`.
* MPI: who owns the blocks. `scattered_array` returns its block in the destructor
  and has the compiler's copy constructor (scattered_array.hpp:102), which only the elision of its return keeps from returning it
  twice; the move constructor of `mpi::array` reads extensions through the pointer it has just emptied (mpi.hpp:92).
* CUDA: the allocators, whose counters are plain statics that every thread
  increments; the return value of `fill_n`, which counts from where the count
  has ended; copies between element types. `adaptors/thrust`, `adaptors/cuda.hpp`, `detail/cuda`: forwarding or kernels.
* Serialization formats, debugger display, examples, timings.

About a sixth of the lines of the headers are mapped. Most of the rest is what a
model has nothing to say about: the programs at the end of each header that test it, overloads for `const`,
rvalues and older standards that repeat a function word for word, deduction guides, type aliases, code
between `#if 0` and `#endif`, and forwarding.
