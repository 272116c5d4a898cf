# UFC Undisputed 3 static recompilation: formal models

TLA+ models, model-checking runs and machine-checked proofs for the Xbox 360
static recompilation in this repository. Paths below are relative to the
repository root; `XR/` stands for `tools/XenonRecomp-ufc/`.

## 1. The system

| Component | Source | State | Operations | What is hard |
|---|---|---|---|---|
| XEX loader, patcher | `XR/XenonUtils/xex*.cpp`, `image.cpp` | one buffer worked on in place; image, sections, symbols | patch, decrypt, decompress, write, load | three compressions, sizes that come from two files, what is checked and what is not |
| Switch table analyzer | `XR/XenonAnalyse/main.cpp`, then `recompiler_config.cpp` and `Recompile` | file of tables; `switchTable`, the entry that waits for a `bctr` | find patterns, find the guard, read the table, print a switch | guesses from a few instructions must agree with what the guest's jump does |
| Function discovery | `XR/XenonRecomp/recompiler.cpp` `Analyse`, `symbol_table.h` | symbols, functions | four passes that add functions | passes must agree on what is known |
| Function boundary analyzer | `XR/XenonAnalyse/function.cpp` | blocks, block stack | one turn of the scan | order of discovery, gaps, back branches |
| Instruction translation | `recompiler.cpp` `Recompile`, `ppc_context.h` | `csrState`; at run time the registers of `PPCContext`, guest memory and the host's MXCSR | print, run | static knowledge of a dynamic mode over joins and loops; carries found by comparisons, masks that wrap, vectors held turned around |
| Configuration and generated output | `recompiler.cpp` `LoadConfig`, `Recompile(header)`, `SaveCurrentOutData` | patched file, exported image, units on disk | load or reuse, rewrite if changed | reuse of what an earlier or a dead run left, unchecked writes |
| Native bootstrap | `CMakeLists.txt`, `src/native/main.cpp`, `memory.cpp` | the linked program, guest address space | build, load, bind imports, fill the function table, run | what is on disk may come from different runs |
| Pool and virtual memory | `src/native/imports/pool.cpp`, `virtual_memory.cpp` | two atomic cursors, allocation map, host pages | allocate, free | threads, wrap-around, overlapping ranges |
| Critical sections | `src/native/imports/sync.cpp` | map from address to host mutex | initialise, enter, try, leave | first use by several threads, re-initialisation |
| Kernel imports, stubs | `kernel.cpp`, `xam.cpp`, `debug.cpp`, `fallback.cpp`, `generated_stubs.cpp` | host TLS, a set of reported names | one call each | little |
| ReXGlue host, startup trace | `src/rexglue/` | registered module, call counters | prepare, run, trace | exit paths, per-thread counters |
| Scripts, offline tools, configuration | `scripts/`, `tools/*.py`, `config/` | files | run in order | none modelled |

The tools run once, in order: loader, analysis, discovery, translation, output.
What they leave is C++ that the native runtime (or the ReXGlue host) links; the
guest program then calls the imports, which share the guest memory, the maps
and the host's page table. The handlers are written for several threads
(atomics and mutexes), although in the current native build `ExCreateThread`
is a stub, so that one guest thread runs. The models take the handlers as they
are written, with several threads.

What makes each part correct:

* memory: live blocks never overlap, a live block can be touched, a free never
  takes pages from anybody else, and the fixed regions survive;
* critical sections: exclusion per guest address, one mutex per address, and a
  waiter gets in when it can;
* carries: a chain of additions linked by `xer.ca` is the sum of the long
  integers, although C++ finds each carry by comparisons;
* loads, stores, vectors: the guest sees big-endian memory and PowerPC's
  registers; vectors are merged, permuted and packed as there; conditional
  stores lose no update;
* flush mode: on every path, scalar instructions keep denormals and vector
  instructions flush them;
* boundary analysis: the size is the code reachable from the start without a
  gap, and the analysis ends;
* output: after a complete run the directory holds what its input asks for and
  the build recompiles only what changed;
* discovery: one function per base, no word left out, every local call resolved;
* loader and patcher: the patched file, loaded, is the image that the patch
  describes of the image the base loads as, and a base and a patch that agree keep inside the buffers;
* switch tables: the printed switch goes where the guest's jump goes, and a
  guarded jump never meets the end of its switch;
* rotates, shifts and logic: results and carries are those of the PowerPC
  definitions, which number bits from the left;
* bootstrap: a program that starts runs the code of the image it loaded.

## 2. Modules

| Module | Models | Correspondence |
|---|---|---|
| `BlockAllocator` | what callers of the pool rely on | abstract: blocks are claimed, handed out, taken back |
| `GuestMemory` | `ExAllocatePoolTypeWithTag`, `ExFreePool`, `NtAllocateVirtualMemory` | one step per access to shared state: atomic cursor, host page table, locked map; `Blocks` maps them to `BlockAllocator` |
| `RecursiveLocks` | what callers of the critical sections rely on | abstract: a recursive lock per address |
| `CriticalSections` | the six `Rtl...CriticalSection` imports | one step for the locked lookup, one for the host mutex; `Locks` maps mutexes and nesting to `RecursiveLocks` |
| `FlushMode` | `csrState`, `printSetFlushMode`, `PPCFPSCRRegister` | `Translate` is a turn of `Recompile`'s loop, the other actions run what it printed |
| `CarryUnit` | the integer additions and subtractions that `Recompile` prints | one action per instruction; a register is its two words |
| `BitUnit` | logical instructions, rotates under masks (`ComputeMask`), shifts, extensions, leading zeroes | extends `CarryUnit`: one action per instruction computes on integers as the C++ does, and what it should be on sets of bit positions |
| `MemoryInstructions` | the loads, stores and vector instructions modelled with their forms and immediates, register values | bytes are known by where they came from, so that one run stands for all values |
| `PowerMemory` | what the architecture says of them | abstract: big-endian memory, vectors and their elements from the left, reservations |
| `HostVectors` | the intrinsics and loops printed for merges, splats, permutes, packs, unpacks, `vor`, `vxor` | one operator per intrinsic, on registers turned around; a loop reads and writes element by element |
| `LoadStore` | what `Recompile` prints for them, with the macros of `ppc_context.h` | one action per kind of access; vector registers turned around, `lvsl`/`lvsr`, compare-and-swap; `Power` is `PowerMemory` on what the guest sees of them |
| `FunctionAnalyze` | `Function::Analyze`, `SearchBlock` | one action per branch of the loop body, the final sort and cut are `Finish` |
| `FunctionDiscovery` | `Recompiler::Analyse`, `SymbolTable::find` | one action per turn of each of the four passes |
| `OutputWriter` | `LoadConfig`, `Recompile(header)`, `SaveCurrentOutData` | one action per file printed, per function, and per step of a write: compare, truncate, fill; `Begin` is another run of the tool, `Kill` and `FillShort` are its faults |
| `NativeBootstrap` | the build of `CMakeLists.txt`, `main` up to the entry point, `loadImage`, `initializeFunctionTable` | extends `OutputWriter`: `Build` links what is in the directory, `Boot` reads the image that is there by then |
| `XexImage` | `XexPatcher::apply` in both forms, `Xex2LoadImage` | one action per check, per block and per entry of a patch; `WriteFails` and `CloseFails` are the faults of the output file |
| `SwitchTables` | `XenonAnalyse`'s `main`, `SearchMask`, `ScanTable`, `ReadTable`; `RecompilerConfig::Load`; the printing of `bctr` | one action per turn of the search, per line printed, and per instruction of the printed function when it runs |
| `Toolchain` | the three programs in a row | composes `XexImage` and `SwitchTables`: the image loaded is the image analysed and recompiled |

`MC...` modules hold only the values of constants; `..._proofs` modules hold the
theorems (`Instructions_proofs` those of `CarryUnit` and `LoadStore`,
`Toolchain_proofs` those of `XexImage` and `Toolchain`). Definitions named `X_Y` are variants of `X` that change it as a
plausible bug would; each makes one property fail, which shows that the
property depends on the code. No specification uses them.

Abstractions: addresses are pages (`GuestMemory`) or words (the analyzers);
bytes in memory, names and printed text are left out; decoding is reduced to
what an instruction does to control and to the flush mode. `XexImage` counts in words
and keeps of headers what both programs read; LZX is what it does to words, AES
changes every word and is its own inverse, a hash is the words it was made from.
In `SwitchTables` the constants of the instruction set are small (a byte has 128
values, `lis` adds multiples of 64), so that an image is a short sequence of words.
Bytes in `LoadStore` are only moved: an operation that computes on an element
(saturation, sign extension) is a symbol applied to the bytes it was given.

## 3. Runs

| Run | Module, configuration | Shows |
|---|---|---|
| `memory` | `GuestMemory`, 12 pages, 2 threads, 4 calls | pool blocks of concurrent calls are disjoint and stay committed, whatever commit fails; virtual memory and the fixed regions lose no page while the pool keeps to its part; requests that wrap a size or a cursor; the pool implements `BlockAllocator` |
| `sections` | 3 threads, 2 addresses, nesting of 2, fair | exclusion, refinement of `RecursiveLocks`; a section that is waited for does not stay free |
| `flush_mode` | every function of 4 instructions over 4 sets of targets, entered in either mode and any rounding | the mode fits on every path, the cache is the host's register |
| `carry` | `BitUnit`, 2-bit words (4-bit registers), programs of 2 instructions, every choice of registers, counts and masks | results and carries of the whole integer unit modelled; sums and differences of 2 words |
| `carry_addme` | `addme` after a carry | violated: see the findings |
| `memory_access` | every access in every form, 4 bases; a load and a store of what it loaded; every vector instruction on every choice of registers; the two idioms for vectors at any address; two threads at one word | the machine is that of `PowerMemory`, accesses stay in the guest space, what compare-and-swap needs |
| `analyze_size` | every code of 4 words | the size is the reachable prefix; the assertion holds; the work is bounded |
| `analyze_before` | 2 words, conditional branches before the start | violated: see the findings |
| `discovery` | 5 words in 2 sections, every subset of configuration and `.pdata`, an empty entry, fair | one function per base, calls resolve, nothing is left out, the analysis ends |
| `output` | 3 runs of the tool on 7 inputs, 2 faults, units of 2 functions, a build and a start after each step | a skipped file is up to date, a rewritten one was not; the units are those of the image; whose image it is; a program that starts runs the code of the image it read |
| `output_patched` | the same | violated: see the findings |
| `toolchain` | executables in the three compressions, plain and encrypted, against patches that zero, move and decompress, with chains, blocks, moves and headers that stray from each buffer among them; executables with a function in the shapes the patterns know and in others | decompression in place; which agreement of base and patch keeps the buffers; the file written and loaded again is the patched image; the tables found; the printed switches |

Bounds. Two threads suffice for races between two handlers, since each shares
with the others only the cursor, the map and the page table; three threads in
`sections` let two wait while one holds. The page granularity keeps the
order of all regions and lets four calls reach every limit: the end of
the pool's range, of the dynamic range, and of the 32-bit space. Four instructions
hold a loop with a scalar, a vector instruction and a call; four words hold two
nested loops or a gap with code behind it. A word of two bits has
a sign, a wrap-around by one and by two, and every relation of an operand to
the wrapped result; with registers of two such words there are masks that wrap,
that cross the middle, that are full and of one bit, and counts below, at and
above a word. An instruction of `BitUnit` that does not hand on a carry comes last
in a program, since nothing that follows depends on it. The sizes in the discovery runs let
functions overlap, skip the end of a section and be found by every pass. Accesses have
their real widths, in a space of three vectors: bases and displacements reach
every kind of edge, and three steps of one thread against three of the other hold
a reservation that is lost, kept and given back. Three vector registers give every
way in which the result can be an operand. Three runs of the
tool let one leave something, the next die over it and the last clean up; the
images have no function, one unit, one and a half and two. Files of a few words
have blocks of no data and of no zeroes, a patch that is longer than the image, of
exactly its size, and one that changes the header's size; the functions with tables
have the guard near, far and for another condition field, a data section before the
code section, the guard of the function before, a call between, an index shifted in place or with an upper word, and
entries made by hand at the right and at the wrong word.

Fairness. `CriticalSections`: weak fairness of each thread's next step inside a
handler, which the host's scheduler gives; nothing makes a guest leave a section
and no queue order is assumed of `std::recursive_mutex`. `FunctionDiscovery`:
weak fairness of `Next`, as a single-threaded program that runs.
`CHECK_DEADLOCK FALSE` is set where a behaviour ends: the bound on calls is
used up, the function returns, the analysis is done.

### Preconditions the runs found to be needed

* The pool's cursor must not wrap (`NoPoolWrap`). Address space is never given
  back and refused requests move the cursor, so a long session does reach this;
  after it, new blocks overlap live ones.
* `ExFreePool` leaves virtual memory alone only as long as the pool was asked
  for no more than lies below `0x20000000`, since its range contains the
  dynamic range; the same with the kernel data page at `0x60000000`.
* `SizeIsReached` takes `OrdinaryCode`: no branch to the next word, and control
  that reaches nothing outside the section. `Reached` is the least set that has the
  start and that control does not leave.
* `WorkBounded` takes branches that stay between the function's start and the
  section's end (`BranchesInside` in the proofs); `analyze_before` shows what happens
  in front of the start.
* `UniqueBases` is about functions that are not empty: `SymbolTable::find` never
  finds an empty symbol, so that an empty `.pdata` entry gets a second function.

* Translated accesses stay in the guest space unless a negative displacement has
  no base register, or the index of `lwarx`, `ldarx`, `stwcx.` or `stdcx.` takes the
  sum past 2^32 (`InGuest`): `recompiler.cpp:1139` adds both registers to the host
  pointer, where all other accesses add them in 32 bits.
* A conditional store tells an untouched word from one that was given its old
  value back only if threads store new values each time (`NewValues`), as counters
  and locks with tickets do, and each conditional store is to what its thread
  reserved last (`Paired`). `OnlyOldValues` says that this is enough. Bytes are
  known by where they came from, so that the bytes of two values all differ.
* A directory that held more units keeps the extra ones (`OnlyItsUnits`), a file
  cut short by a full disk stays so until the next run (`DoneIsUpToDate`), and the
  patched file that is kept serves only the game and patch it was made from, and
  only if the run that wrote it did not die there (`OwnImage`).
* A program that was built after a run that died, or is started after another run
  has changed the image, may run one game's code on another's image (`OneGame`
  asks for a build after the last complete run): `main` compares the image's size,
  the entry point and one import slot, not the code.
* After a complete run the program's code is the image's unless two things come
  together (`NothingBorrowed`): this run cut a unit short, which nobody looks at
  (`recompiler.cpp:3083-3085`), and a larger image left a unit that defines what is
  missing. Units define functions by name, `sub_` and the address, and the build takes
  every `ppc_recomp.*.cpp`: an old function then links into the new program and
  nothing tells. Without the exception the run finds this in 61 steps: an image of three
  functions, then one of two whose unit is cut behind its first.
* A base and a patch have to agree on what `XexPatcher::apply` does not check
  (`Agree`, and the run meets a breach of each): the new header is not empty and no longer
  than the base, and what its delta takes stays in it and in the decompressor's window
  (`HeadersAgree`); the base's words fit the size that the patch gives the image; blocks and
  chunks of an LZX base lie in the buffer, they hand on no more than `compressBuffer` takes,
  and the executable fits behind the longer of the two headers (`ChainAgrees`); blocks of the
  patch lie in `patchData`, and what they do stays in the image (`PatchAgrees`). A block
  that is smaller than its own header sends the cursor on by a difference that wraps, which
  is why a block has a `size` and a `step`. After an access outside a buffer the model stops.
  The loaded file is the patched image (`PatchThenLoad`) if moves do not overlap, as they are
  a `memcpy`; if the base itself can be loaded; if the file has no words behind the base's
  image; and, for an LZX base, if the new header is as long as the old one or longer, because
  `xex_patcher.cpp:455` expands it behind the longer of the two headers where everything
  else starts at the new one.
* `apply` asks the output stream for `bad()` after `close()`. A failure that first
  shows when the stream is closed sets `failbit` only, so that a file cut short
  counts as a success (`late`). Both properties are about files written whole.
* `SwitchFollowsTable` is about tables found in the image that is recompiled, and a
  straight way from the table's first instruction to its `bctr`, with the index
  register still what was compared and its upper word clear (`Straight`):
  the printed `switch` looks at 64 bits of the register when it comes to the jump.
  Entries made by hand are taken as right, at the word where they stand.
* The vector packs that are printed as loops (`recompiler.cpp:2351` and after) read
  elements of their second operand after they have written over them when it is the
  result as well (`Overwrites`).
* Three things are left out of the comparison in `BitUnit`: `sraw` and `srad` of the
  most negative number by a whole register or more lose the carry (`Cut`); `rlwimi`
  under a mask that wraps treats the upper word in its own way; and record forms of
  some logical and doubleword instructions print no comparison (the tool says
  so when it meets one, `recompiler.cpp:2688`).

### Findings

`analyze_before`: `XR/XenonAnalyse/function.cpp` pushes a block for a conditional
branch that leads before the function's start; `SearchBlock` answers -1 for any
such address, so the block is pushed again each time. The comment at line 156
says branches before base need not be chased, and the unconditional case does
not chase them. When the code there comes back the analysis never ends.

`carry_addme`: `recompiler.cpp:618` finds the carry of `addme` by comparing the
result with the operand. The instruction adds minus one and the carry, so the
two are equal when a carry comes in, and the carry that should go out is lost.
`LongSum` therefore leaves out chains through that case.

`output_patched`: `LoadConfig` reuses the file at `patched_file_path` even if no
patch file is specified, where the README of XenonRecomp says it does nothing.

## 4. Proofs

Every theorem holds for all values of the constants that satisfy the named
assumptions of its module (`LayoutAssumption`, `RequestAssumption`,
`SectionAssumption`, `CarryAssumption`, `FunctionAssumption`, `CodeAssumption`, `ImageAssumption`,
`XexAssumption`, `PatchAssumption`, `OffsetAssumption`, `ChainAssumption`,
`OutputAssumption`, `AccessAssumption`, `ProgramAssumption`, `ScanAssumption`). Three theorems
name a hypothesis of their own: `StaysBehindStart` and `WorkIsBounded`, which are about
where branches lead, and `CompiledCode`, which is about what the code before a jump does.

* `GuestMemory_proofs`: types; pool blocks disjoint, committed, in range;
  virtual memory blocks disjoint and committed; the fixed regions committed.
  Blocks alone are not inductive: `PoolBounds` says that everything claimed
  lies below the cursor and that the cursor is `PoolBase + poolTotal` until it
  wraps; `FreshCommitted` covers the block between commit and record. And the
  refinement of `BlockAllocator` (`PoolImplementsBlockAllocator`): up to the call that
  makes the cursor wrap each step of `pool.cpp` is one of the allocator's or none,
  beside the steps of virtual memory.
* `CriticalSections_proofs`: types, exclusion, currency of handles,
  independence of addresses. `LockInv` adds that the map is injective, that the
  owner and count of a mutex are the guest's own nesting depth, and that a
  thread about to unlock is inside. From it the refinement of `RecursiveLocks`
  (`SectionsImplementLocks`): holder and nesting of an address are those of the mutex
  that the map has for it, and only the step on the mutex changes them.
* `FlushMode_proofs`: types, cache, mode, minimal switches, rounding. The
  invariant relates the translator's `csrState` at a line to the host's mode
  whenever the program is at that line; it holds at the entry, where callers are in
  either mode, and at a line that a jump reaches because both are printed with
  "Unknown".
* `Instructions_proofs`, additions: types; every instruction leaves the result and the
  carry of its definition (`ResultsRight`), and chains of any length
  compute sums of any number of words, for words of every width. The definitions
  (`Exact`, `CarryOut`) are those of the architecture on integers: what is added up,
  modulo the width of a register, and whether the low words carry or borrow. That the
  printed C++ comes to them has two halves: what it adds in two's complement is the exact
  sum up to a multiple of the width, and each of its comparisons is the carry (`Carry...`
  lemmas). For chains the rest is that multiplying by the weight distributes.
* `Instructions_proofs`, loads and stores: types; accesses leave the guest space in
  three cases only (`AccessesInGuest`); and the step refinement of `PowerMemory`
  (`GuestSeesPowerPC`), for every number of threads, size of memory that vectors divide, contents of base
  registers and programs of instructions as `ProgramAssumption` has them. `TypeInv`
  says what registers and programs hold; `GhostInv` that a thread is at its end after
  an access outside and past its conditional stores, so that both ghosts grow when
  they are excused. `Seen` is a vector as the guest sees it. There is one lemma
  per action (`LoadPower`, `StorePower`, `ConditionalPower`, `LoadVectorPower`,
  `StoreVectorPower`, `LoadControlPower`, `PermutePower`), and for the last one lemma
  for each operation on vectors, all from `ElementIs`: the guest's element `e` of a
  vector is the host's `total - e`. The packs printed as loops are followed turn by
  turn (`PackedSoFar`): what is still to be read has not been written unless the
  result is the second operand. All immediates and all registers are covered, where
  the run enumerates some.
* `Instructions_proofs`, conditional stores: `OnlyOldValuesGiveBack`, for every number
  of threads and every program. That nothing was given back is not inductive;
  `ValuesInv` adds that a register holds the value its last `li` put there (`Holds`),
  that every byte in memory is `Spent`, and that a thread that has read a word either
  still has it reserved or the word differs from what it read (`Watches`). A store of a
  value that was never stored (`NewBytes`) writes bytes that are not spent, so a word
  that lost its reservation never looks again like what was read.
* `FunctionAnalyze_proofs`: all that the run `analyze_size` checks. `Inv`: the
  analyzer's assertion, and that blocks stay behind the start when conditional
  branches do. `LoopInv`, for the size: in ordinary code blocks hold only words that
  control reaches, each block that waits is on the stack once, and where control goes
  from a block that is done, at its last word or its projection, is held by a block or
  about to be looked up. When the stack is empty the blocks are a closed set, hence
  what is reached, and the cut at the first gap leaves its first stretch.
  `TypeInv`: a block survives the cut. `WorkInv`, for the bound: a block is known by
  its start and by the word that its scan was pushed for, since conditional returns
  follow one another and only the last waits.
* `FunctionDiscovery_proofs`: types; one function per base; local calls resolve;
  nothing is left out. Symbols are only added, so what is known and covered
  stays so; `Position` says how far the passes are.
* `Toolchain_proofs`: decompression in place, for any number of blocks of any
  sizes; and that nothing reaches over a buffer when base and patch agree: `outBytes` with
  its header, `compressBuffer`, `patchData`, the window, and the file the loader reads. The first
  rests on `Ordered`: up to each block the file's offset is at most the image's, and
  offsets grow, so what a block is moved over has been moved before. The loop that
  adds up the sizes establishes it block by block. The second, `BufferInv`, says
  which lengths the buffers have in each phase, and that a cursor in a chain or in the
  patch is what the sizes of the blocks before it add up to. The third is `PatchedFileLoads`, that the
  patched file, loaded, is the patched image (`PatchThenLoad`): `PatchInv` says what the
  buffer holds in each phase, for each of the three formats of a base, and in the patch
  after each block and entry. What the patch makes of an image is a recursive function
  over its entries (`BlockStages`, `EntryStages`), which `StagesFollow` shows to be what
  its defining equations say, by a least counterexample; each step of `apply` is then one
  more of them, with the copy's direction left open where moves do not overlap. The other tools do not disturb this:
  `ToolchainLoads` shows that the toolchain implements `XexSpec`, and all three
  properties carry over to `ToolSpec`, which is what the run checks.
* `Toolchain_proofs`, switches: `SwitchesFollowTables`, that in every state
  `CompiledCode => SwitchFollowsTable`, for images of every size, every list of sections,
  every entry by hand and every distance that `ScanTable` looks back. `SearchMask`
  compares opcodes and `ScanTable` looks for a comparison in the words before, so the
  claim is false of arbitrary code. `CompiledCode` says what makes it true, of every
  pattern that is found behind a comparison and a branch: each instruction reads what
  the earlier ones were meant to give it (`Flow`, `Computes`); control comes into the words
  from the comparison to the jump only at the comparison, or by that branch, so that neither
  another branch, nor a label, nor the start of the function is among them (`OneWayIn`);
  and no `cmpwi` sets the field before the branch. It says nothing of what is in
  the registers, of the order in which tables are found and armed, or of patterns that
  are not found. Of the programs of the run
  `toolchain`, it holds of all that `Layout.good` calls good, and of others. `TablesInv`
  says that what is not entered by hand is what `ReadTable` makes where a pattern is;
  `PrintInv` that an entry is printed for the next `bctr` behind its base, whatever
  comes in between; `RunInv` that the function is at a word behind the comparison only
  with this comparison in its field, behind the branch only with it as the guard, and
  after `n` words of a pattern with the `n` values of it in the registers (`Steps`,
  `Computed`). `JumpIs` is that the last of those values is the label that `ReadTable` read.
* `Toolchain_proofs`, search: `SearchIsComplete`, that the file of tables has what it should and
  nothing else (`EveryTableFound`), for sections that overlap or are empty as well. `ScanInv` says it of
  the places that the search has come past (`Passed`). The hypothesis `TypedLayout` only says
  that sections, functions and entries by hand are such.
* `OutputWriter_proofs`: all that the run `output` checks, for every number of runs,
  faults, functions and functions per unit. `ProgressInv` says what `out` holds at
  each place of a run: between units nothing, in a unit its include and its functions
  up to the last printed, during a save the whole text of the file. From it a file
  that looks the same is the file that is wanted. `WrittenInv` and `TouchedInv` add
  that files passed are right or cut short, and files found up to date unopened;
  `KeptInv` what the patched file can hold, torn or whole; `LeftInv` which units
  there can be. `NativeImplements` carries these over to `NativeSpec`. For
  `ProgramIsOfOneGame`: either every unit of the run is whole and defines its own
  functions, and as a name is defined once no other unit supplies any (`WholePlace`); or
  the units in the directory are the run's own, and what a torn one still holds is a
  beginning of its text (`PieceInv`, `OwnPlace`). The names of an image's functions are
  taken to differ (`OutputAssumption`), as their addresses do.

Where a run lists no type invariant it is proved only, as are two facts about single
modules: addresses of critical sections keep apart, and unconditional switches are
printed only where the mode is known.

Inductions over numbers (blocks of an image, blocks of the analyzer, turns of a pack's
loop) are by a least counterexample, from a lemma that a set of naturals has a
least element.

Only model-checked:

* the liveness properties `WaiterGoesOn` and `Terminates`, which need fairness;
* `GuardedJumpArrives`, which says that such a jump is made at all: it holds of whole
  functions of certain shapes, which the run enumerates, and also of code with entries by
  hand, of which nothing can be assumed but that they are right;
* `SwitchFollowsTable` where `CompiledCode` does not hold. The run checks it of functions that move
  the index, call in between or borrow the comparison of another function; there
  `Straight` alone decides;
* `BitUnit`'s part of `ResultRight`: `Bitwise` has recursive operators, which are out
  of the prover's reach. `ResultsRight` covers the additions.

## 5. Not modelled

* In instruction translation: multiplications and divisions, moves of condition
  registers, scalar and vector floating point, vector arithmetic, compares, shifts
  and selects, the D3D packs. Each is one host operation per instruction; what the
  architecture says of it would be the same formula written twice. Mid-asm hooks and
  `setjmp`: the game's configuration has none.
* Of memory, `dcbz` and `dcbzl` (`recompiler.cpp:892-904`), each one `memset` of 32 or
  128 bytes.
* In the loader: the fields inside headers, and that they and the tables of optional
  headers are read without a look at where they lie (`securityOffset`, the keys, the
  lists of blocks); the mapping of PE sections, import thunks, ELF images. Files are at least as
  long as their headers, sums of sizes do not overflow their 32 bits except in a block
  smaller than its header, and AES has whole
  words of 16 bytes. The text of the configuration and of the switch tables.
* In the bootstrap: what the imports that `main` binds print, the guest's own run,
  crash reports. The mask bits of MXCSR (`main.cpp:99`): the model holds the flush
  and rounding bits, and which of the host's exceptions are masked shows in no state
  of the guest.
* Kernel imports for time, TLS and debug output, the generated stubs and their
  fallback: one host call each. The ReXGlue host and its startup trace: glue to a
  library that is not in the repository, counters and logs.
* Tests, scripts, offline tools, configuration, documentation, vendored libraries,
  the disassembler: data or other people's code. The vendored libraries are most of
  the lines in the repository.

`PROJECT.json` lists every component with its state.

## 6. Plan

What is left, in order: the whole functions of `GuardedJumpArrives`, should a description of
them be found that is shorter than the programs of the run; the termination measure of discovery;
the fallback's table of reported names and the startup trace, should they get state that
anything depends on.
