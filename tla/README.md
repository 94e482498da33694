# winlift in TLA+

winlift turns a 32-bit Windows PE executable into a static i386 ELF executable.
The original machine code is copied unchanged to the addresses it was linked
for; its import address table is rewritten to point into a small freestanding
runtime, the *shim*, which is embedded in the output and implements the
imported functions with Linux system calls.

These modules model both halves: the converter (`src/src`), a sequential program
whose difficulty is 32-bit arithmetic, failures half way and pointers that must
outlive three stages, and the runtime (`src/runtime`), whose functions are called
by arbitrary program code, in any order, and re-entered from within callbacks.

## The system

| Component | State | Operations | Talks to | What makes it correct |
| --- | --- | --- | --- | --- |
| Driver (`main.c`) | the image, its byte buffer, the segment list, exit code | load, dump, copy, lay out, patch, write, chmod, free | calls every stage in turn | no buffer dangles or is freed twice; each failure ends with exit 1 and everything freed; no output on rejection |
| PE loader (`pe_reader.c`) | file bytes, header fields, sections | header checks, section table, table walks | fills `pe_image_t`; `pe_rva_to_ptr()` is used by all readers | what it returns is inside the file |
| PE tables (`pe_imports.c`, `pe_relocs.c`) | growing arrays of DLLs and functions, a counted array of relocations, a fixed one of TLS callbacks | walks to a terminator or a size | read through `pe_rva_to_ptr()` | no array overrun; slot and name stay in step; the walks end |
| Layout (`layout.c`) | segments, running file offset | header segment, one segment per section | points into the image's bytes | page-aligned, sorted, disjoint |
| Stub patch (`stub_patch.c`, `shim_abi.c`) | IAT slots, a copy of the blob, further segments | range check, resolve and patch, poke the entry word, embed | writes the bytes the layout points at | imports resolved, shim complete, nothing overlapped |
| ELF writer (`elf_writer.c`) | the output file, its position | headers, padding, data, close | reads the segments | every byte where the headers say, or failure |
| Shim start and exit (`shim_entry.S`, `shim_startup.c`, `shim_msvcrt.c`) | the atexit list, the call stack of the process | `_start`, register, `_cexit`, `exit`, `abort`, `_initterm` | calls back into the program | a stack, nothing called twice, `exit` ends the process |
| Shim heap (`shim_startup.c`) | `heap_next`, `heap_limit`, the kernel's break | malloc, calloc, realloc, Heap* | `brk` | blocks apart and mapped, contents kept |
| Shim file I/O (`shim_kernel32.c`, `shim_msvcrt.c`, `shim_user32.c`) | handles as descriptors plus one, the last error | WriteFile, ReadFile, CreateFile, CloseHandle, fwrite, fprintf, MessageBox | the kernel, the formatter | no stream is closed or taken, handles do not collide, every character is stored once and counted |
| Formatter (`shim_startup.c`) | a bounded buffer | `shim_vformat` | called by fprintf and vfprintf | it prints what the format means, cut off at the buffer's end |
| Environment and command line (`shim_startup.c`) | strings built once | `shim_startup_init`, `shim_env_block` | the heap the program allocates from | sizes computed agree with bytes stored; the strings outlive what the program does with its blocks |
| user32, comctl32, memory queries | constants | one system call or none | | |
| Dump, diagnostics, tools | none | formatting | | |

There are no threads anywhere. What is hard: failures of `malloc`, `fwrite`, `fclose`
and `brk` at any point; sums that wrap at 2^32; two walks over one table that
must agree; pointers taken before a buffer is replaced or patched; program code
that re-enters the runtime in the middle of a loop. `PROJECT.json` lists each
hazard at its line with the properties about it.

## Modules

| Module | Models | Extends |
| --- | --- | --- |
| `PeImage` | `pe_image_t`, `pe_rva_to_ptr()`, `align_up()`; `Loadable` (what the loader has checked) and `WellFormed` (what a linker guarantees besides) | |
| `Layout` | `pe_layout_to_elf_spec()` | `PeImage` |
| `StubPatch` | `stub_patch_apply()` and the lookup in `shim_abi.c` | `Layout` |
| `ElfWriter` | `elf_write()`; how the kernel loads the file (external) | `StubPatch` |
| `Winlift` | `main()`: composes the three stages, owns the buffers | `ElfWriter` |
| `PeTables` | import, relocation and TLS walks | `PeImage` |
| `PeLoader` | `pe_image_load()`, composed with `PeTables` | `PeTables` |
| `ShimHeap` / `AbstractHeap` | the allocator / what it promises | |
| `ShimEnv` | the strings the shim builds, composed with the allocator and the program that uses it | `ShimHeap` |
| `ShimProcess` / `AtExitStack` | the process between `_start` and `exit_group` / the stack it promises | |
| `Format` | `shim_vformat()` on a string of characters; what a list of directives means, and which directives the formatter knows (`WellWritten`) | |
| `ShimIO` / `AbstractFiles` | the file functions over the kernel / what Win32 promises of them | `Format` |
| `MC...` | the instances TLC checks | the module they are named after |
| `Arithmetic` | lemmas on quotients and remainders, least elements, functions defined by recursion on numbers, strings put one after another | |
| `WinliftProofs`, `WinliftFileProofs` | the conversion: its segments, buffers, range check and rejection; the output file and what the kernel loads from it | `Winlift` |
| `PeLoaderProofs` | the loader and its tables | `PeLoader` |
| `ShimHeapProofs` | the allocator, alone and with the strings built in it: safety and refinement of `AbstractHeap` | `ShimEnv` |
| `ShimProcessProofs` | the process, with its refinement | `ShimProcess` |
| `FormatProofs` | the formatter prints what a format means | `Format` |
| `ShimIOProofs` | the file functions, with their refinement | `ShimIO`, `FormatProofs` |

`PeLoader` and `Winlift` meet in `Loadable`: `Winlift` starts from any image for
which it holds, and `ResultSound` checks that the loader returns no other.

### How state and actions correspond to the code

`pc` in the converter names the statement reached: `"load"`, `"layout"`, `"sections"`
(its loop), `"patch"`, `"imports"` (its loops), `"embed"`, `"open"`, `"ehdr"`, `"phdrs"`,
`"data"`, `"chmod"`, and `"reject"` for the error path. One action is one turn of a
loop or one straight piece of code; each early return is an action of its own.

A byte is named by where it comes from: `<<"pe", k>>` is byte *k* of the input,
`<<"shim", k>>` of the blob, `<<"address", a, k>>` byte *k* of a stored address. So the
final properties can say of every address of the loaded program which byte must be
there. `mem` maps the live buffers to their bytes; `raw` is the pointer
`img.raw`; a data pointer is a buffer and an offset. `held` counts, for the bytes that were read, their
copy and the loader's arrays (`tables`), the allocations less the frees, so that a second `free()` shows as
well as a missing one. `stream` is what `fwrite()` was
given, `ondisk` how much of it is on disk after `fclose()`. The zero padding before a segment is written
before the writer finds that the segment has a size but no data, so a rejected file may end in padding.

`uint32_t` sums are reduced modulo `WORD` exactly where the code adds in 32 bits, and
are plain sums where it widens to 64.

In `PeTables` a scalar of the file is one cell, so a struct is as many cells long as it
has fields and a relocation entry is one cell (the odd byte of an odd-sized block
is not represented). A thunk with the ordinal flag keeps only its value modulo `ORDINALS` (2^16), as
`(uint16_t)(thunk & 0xFFFF)` does. `overrun` records any store past an array's capacity. A file
carries, besides its cells, the fixups and callbacks its tables were written from
(`fixups`, `tlsFns`), so that `TablesKept` compares with something that is not computed
by the walk. The chain of header checks is one action: each check only reads, and each
failure has the same effect, so which one failed is a member of `flaws`.

In `ShimHeap` the program is the environment: it calls any function on any block it
owns with any size of `Request`, and writes inside its blocks. `brk` may be refused at
any call. `CopiedByte` is the byte loop of `shim_heap_realloc()` as it behaves when
the ranges overlap. In `ShimProcess` `calls` is the call stack, with a frame for each
suspended `shim_run_atexit()` and `_initterm()`. The program may register functions without limit; the
first `Numbered` registrations have a number of their own and all later ones share the next (`Later`), which
bounds the histories and nothing the code does.

`ShimEnv` stores the strings in the heap of `ShimHeap`, so that a block too small for its
string, or one handed out twice, spoils bytes that the properties read back. The
program runs after `Startup` and touches only blocks of its own; `brk` may refuse either
string, and then a later call of `GetEnvironmentStrings()` tries again.

In `ShimIO` the kernel is external: `files` and `fds` are its files and open descriptors, and
`sys_open()`, `sys_write()` and the read in `ReadFile` do what the system calls do. A call
of the program is several steps: `Calls` records what was asked in `call.req` and what the loop
has to write in `call.text`; `WriteSome` is one turn, of which the kernel stores any part;
`WriteDone` or `WriteStops` returns. `call.was` keeps the state the call found, and the
refinement shows `AbstractFiles` that state until the call returns, so that the pieces become one
step. A handle is a descriptor plus one. A disposition that `CreateFileA()` does not know (`"OTHER"`, its `default:`)
opens a file that exists and fails otherwise; Win32 would refuse it. The program may use the standard handles, the handles it
holds, `NULL` and `INVALID_HANDLE_VALUE`, but not a handle it has closed. It may
start with standard descriptors missing, or with stderr on stdout's file.

`Format` prints a character at a time as the code does, from the string the directives
are written as (`Written`). `Meaning` interprets the directives themselves, so that what
the scanner takes for flags, lengths and conversions is compared with something it did not
compute. `out_uint()`'s loop is the recursive function `Left`: what is left of a number after each
division; the scanner's loop is `Turn`, one turn of which takes a directive. `WellWritten` says which lists of
directives are meant: literal text without `%`, conversions the formatter knows, arguments they can take,
and less output than an `int` counts. A 64-bit conversion (`%llx`) takes two words of arguments by its meaning and
one by the code; it is outside `WellWritten`, and a run of its own, `ShimIOFormats`, shows what it prints. The position in the
buffer is a word that wraps, `Returned` is its conversion to `int`, and `Clamped` what `vfprintf()` makes of
that: nothing less than 0 or more than the buffer holds.
`MCShimIO` assumes of its formats, where TLC evaluates it, what the proofs assume (`MCFormats`).

Operators introduced by a comment "A fault:" are mutated forms of the definition that
follows. They belong to no specification; each shows that a property notices it.

## Runs

| Run | Question | Bounds |
| --- | --- | --- |
| `Winlift` | does every conversion, with every failure, end well, and is the output the program? | 128 addresses, pages of 8, 2-byte slots, six segments; ten section lists (none, padded, zero tail over a page, bss, exactly a page, unaligned, unsorted, too many, too wide, three) by eight import lists (in text, data, tail, headers, cut off by the raw size, unknown DLL, unknown function, DLL name in other case), five further bases with two sizes (unaligned, touching the shim from below, reaching into it, wrapping) |
| `ElfWriter` | does the writer protect itself from bad segment lists? | up to two segments over four offsets, three sizes, with and without data |
| `WinliftFlush`, `WinliftClear` | the two claims about the output that fail | as `Winlift` |
| `ShimHeap` | does the bump allocator keep its promise, and do the shim's strings in it stay whole? | ten bytes of heap in a word of 64, alignment 2, growth by 4, sizes 0, 1, 3, 5 (below, at and above the alignment and the growth), four blocks, two of which the strings may take; one or two arguments of a character, no, one or two variables. Bytes are 0 and 1, so the space is the one letter there is: that it is a space and stands between the arguments only is left to the length of the line here, and to `EnvCommandLineKept` for every alphabet |
| `ShimHeapZero` | the claim that fails | the flag allowed, three blocks |
| `ShimProcess` | what nesting does to exit handling | three slots, any number of registrations, of which four are told apart (one of a null pointer), six frames, two initializers |
| `ShimProcessFull` | the claim that fails | two slots, three registrations told apart, five frames |
| `PeLoader` | are the tables read right and safely? | 68 cells; 9 import directories by 7 relocation directories by 8 TLS directories, each sound or damaged in one way, and five damaged headers; ordinals modulo 32, one of them with bits above; capacities start at 1, 2 callbacks, names of 2 characters |
| `PeLoaderCircle` | does the relocation walk end? | one file whose second block points back |
| `ShimIO` | do the file functions keep their promise over a kernel that fills up, and does printing print what is meant? | one file and the streams, eight ways to open it, all standard descriptors or stderr alone; texts of none and two characters; words of five bits, a buffer of six; products of `fwrite()` that fit, are zero, wrap; three calls, one of them to print (499,230 states) |
| `ShimIOFormats` | the claim that fails | as `ShimIO`, printing `%llx%5lu%u` |

The bounds are small because the code's decisions depend on comparisons of few
quantities: page boundaries, a section's raw against its virtual size, an address
against a limit. Every list contains a case on each side of each comparison, and one on
the boundary. Arrays grow from capacity 1 so that three elements grow them twice.
The word sizes are chosen so that sums do wrap. Three calls suffice in `ShimIO` because its
hazards need a handle (one call), a disturbance (a second handle, a close, a write cut
short) and an observation; every loop inside a call is explored in full.

`CHECK_DEADLOCK FALSE` stands only in the runs of the heap and of the file functions: with the
bound on calls used up, and every block freed, the program has nothing left to do.

### Properties

* `WriterPrecondition`: what `elf_writer.h` demands of callers holds of what layout and
  embedding produce together.
* `FaithfulImage`, `EntersThroughShim`: loading the output as the kernel does gives, at
  every address of the headers and sections, the byte of the input or the resolved
  import, zeros in the tails, the section's permissions; and control enters the shim,
  whose entry word holds the program's entry point.
* `SegmentDataAlive`, `ImageFreed`: the ownership of the buffers, on every path: nothing dangles, is left
  or is freed twice.
* `RejectionWritesNothing`: the claim of `run_tests.sh`. It excludes failed writes, after
  which the partial file stays, and file offsets that wrapped: then the overlap is only
  noticed when the file is open.
* `ReservedRangeKept`: the range check, for sections of an accepted image.
* `SegmentsPlaced`: the writer on its own, whatever it is handed.
* `BlocksSeparate`, `NoFault`, `KeepsPromise` (refinement of `AbstractHeap`): the heap.
* `CommandLineKept`, `EnvironmentKept`: the strings, read back as a program reads them, are the
  process's arguments and environment, whenever they were built and whatever the program
  did with the heap since.
* `CalledOnce`, `ExitCallsAll`, `KeepsStack` (refinement of `AtExitStack`); `ExitEnds`: once `exit()` is called
  the process ends, if the program stops registering functions.
* `StdStreamsKept`, `HandlesMatch`: whatever is closed, the inherited streams stay open, and a
  handle names the descriptor of the file it was made for.
* `PrintsMeaning`: `fprintf()` hands on what its format means, up to the buffer's size.
* `KeepsPromise` of `ShimIO` (refinement of `AbstractFiles`): a call is one atomic step that fails
  or stores a prefix and reports its length.
* `CallsReturn`: the write loops end, on a full disk too.
* `NoOverrun`, `ResultSound`, `SlotsMatchNames`, `TablesKept`, `Ends`: the loader.

### Fairness

The converter and the loader are sequential programs that call functions which return:
weak fairness of the whole next-state relation. In `ShimProcess` only the shim's own
loops are weakly fair, since they are straight code; `Return` is strongly fair at each depth of the
call stack, which assumes that a function the shim calls returns in the end however often it calls the
shim before. Nothing is assumed of the entry point. That is not enough for `exit()` to end the process: a function that
registers itself again and returns keeps the loop of `shim_run_atexit()` busy for ever, and no rule forbids
it. Neither the model nor its fairness excludes this; `ExitEnds` has it as its hypothesis instead
(`StopsRegistering`: from some point on the program registers nothing), and without the hypothesis TLC answers with
that loop. In `ShimIO` only the shim's own steps
(`WF_vars(Shim)`) are fair: they are straight code around system calls that return. The
program need never call anything. The heap's specification has no fairness and no liveness
property.

## What is proved

For every value of the constants that satisfies the modules' assumptions:

| Theorem | Module | States |
| --- | --- | --- |
| `TypeCorrect`, `ImageAlwaysFreed`, `SegmentDataAlways`, `WriterPreconditionHolds` | `WinliftProofs` | `TypeOK`, `ImageFreed`, `SegmentDataAlive`, `WriterPrecondition` |
| `AcceptedKeepRange`, `RejectionLeavesPath` | `WinliftProofs` | `ReservedRangeKept`, `RejectionWritesNothing` |
| `SegmentsAlwaysPlaced` | `WinliftFileProofs` | `SegmentsPlaced`, of every conversion |
| `ConversionFaithful`, `ConversionEntersThroughShim` | `WinliftFileProofs` | `FaithfulImage`, `EntersThroughShim` |
| `LoaderTypeCorrect`, `LoaderSlotsMatchNames` | `PeLoaderProofs` | `TypeOK`, `SlotsMatchNames`, of every file, with ordinals cut to 16 bits |
| `LoaderResultSound` | `PeLoaderProofs` | `ResultSound`, where any text may be a name (`Seq(Address) \subseteq Name`) |
| `LoaderNeverOverruns`, `LoaderReadsTables` | `PeLoaderProofs` | `NoOverrun`, `TablesRead`, under `CountFits` |
| `CountAlwaysFits`, `WalksAdvance` | `PeLoaderProofs` | `CountFits`, and that no turn of a relocation walk goes back, under `RelocsShort` |
| `LoaderKeepsTables` | `PeLoaderProofs` | `TablesKept`, under `CountFits` and `TablesTold` |
| `HeapTypeCorrect`, `HeapBlocksSeparate`, `HeapNeverFaults` | `ShimHeapProofs` | `TypeOK`, `BlocksSeparate`, `NoFault`, under `ModestRequests` |
| `HeapKeepsPromise` | `ShimHeapProofs` | the refinement `KeepsPromise`, under `ModestRequests` and `NoZeroing` |
| `EnvTypeCorrect`, `EnvBlocksSeparate`, `EnvNeverFaults` | `ShimHeapProofs` | the same three of `EnvSpec`, under `ModestRequests` and `ModestStrings` |
| `EnvCommandLineKept`, `EnvEnvironmentKept` | `ShimHeapProofs` | `CommandLineKept`, `EnvironmentKept`, under the same |
| `EnvKeepsPromise` | `ShimHeapProofs` | the refinement `KeepsPromise` of `EnvSpec`, under these, `NoZeroing` and `StringsRequested` |
| `ProcessTypeCorrect`, `RegistrationsCalledOnce`, `ExitCallsEveryKept`, `ListIsStack` | `ShimProcessProofs` | `TypeOK`, `CalledOnce`, `ExitCallsAll`, the refinement `KeepsStack` |
| `IOTypeCorrect`, `StreamsAlwaysKept`, `HandlesAlwaysMatch` | `ShimIOProofs` | `TypeOK`, `StdStreamsKept`, `HandlesMatch` |
| `FprintfAlwaysMeans`, `CallsKeepPromise` | `ShimIOProofs` | `PrintsMeaning`, the refinement `KeepsPromise`, under `FormatsWritten` |

`ModestRequests`: no sum of the break, a request and the alignment reaches 2^32. `NoZeroing`:
`HEAP_ZERO_MEMORY` is not used (with it the promise is broken, see Findings).
`ModestStrings`: nor does one of the break and the strings the process was started with. `StringsRequested`: the
sizes of those strings are among the sizes `AbstractHeap` allows. `FormatsWritten`: the program prints lists of directives that are `WellWritten`;
a directive outside them, like `%5lu` or `%llx`, is printed wrong (see Findings), and a format whose output an `int` cannot count is not printed at all. `CountFits`: the first walk over the relocations
never counts more than an `int` holds; on a file with more the claim is false. It is implied by `RelocsShort`, which is about the file alone: no block
of the directory ends past its first 2^31 bytes. `TablesTold`: `fixups` and `tlsFns` of a file say what its tables hold,
where they can be read at all; nothing is assumed of the others. Each of these holds in the run that
checks the property, or is what that run's files satisfy.

*Conversion.* `TypeOK` is not inductive: that `segs` holds 32-bit addresses needs to know
that the image was checked whenever a stage uses it, and which buffer `raw` names at
which `pc`; that they are never more than `ELF_MAX_SEGMENTS` needs the number of sections checked before the
loop over them. `Typing` adds this (`StageChecked`, `BuffersOwned`). `ImageFreed` needs in addition `HeldOnce`: between
loading and exit the buffer `raw` names and the loader's arrays are held once each, and nothing else is. `SegmentDataAlive` needs in addition that every data pointer names
`raw`'s buffer or the blob's copy, which is what the segments were built from
(`DataOwnedStep`). `WriterPrecondition` is an invariant about the end of a loop, so the
proof carries one about its middle, `LayoutInvariant`: `SegmentsLaidOut` of the segments so
far, `OffsetsBehindAddresses` (the next file offset is at most one page past the address
the last segment ends at: this is what keeps 32-bit offsets from wrapping, because the addresses do not), and
`RoomAhead` (the next section, or the next shim segment, starts at or after the page where
the last one ended). The last holds because a well-formed image's sections ascend below
`SizeOfImage`, which ends below the shim, whose segments ascend by
`ShimSegmentsAssumption`, a fact about what the linker makes of the shim. The arithmetic of
rounding is in `PageUpFacts`, `PageUpLeast` and `AlignUpIsPageUp`, the last of which says
where rounding in 32 bits is rounding.

*Heap.* `HeapInvariant` is `TypeOK`, `BlocksSeparate`, `NoFault` and `BumpPointer`: `heap_next` is
aligned, before the first call nothing was returned and the break is where the process
found it, and after it the limit lies in the heap. Without it the first call, which takes
both pointers from the kernel, could hand out anything. `HeapAllocOutcome` states in one lemma what a
call of `shim_heap_alloc()` can return; the lemma per function then only places the new
block above the others. `NoFault` follows because realloc's source starts below
`heap_next`, so a copy as long as the new block ends before the new block does.

*Range check and rejection.* `ReservedRangeKept` needs, besides the check itself, where every segment
of the layout came from: `RangeInvariant` says which header or section each segment is and that
`StartPatching` has compared the end of the image. `RejectionInvariant` follows `elf_write()`: once the file
is open and offsets are sorted, `cur` is the end of the last segment written, so
`WritableSegment` holds of the next one and only a failed write is left as a way to `reject`.

*Output file.* `FileInvariant` says what the stream holds at each stage: the headers written so
far at `PhdrAt(i)`, the data of the segments so far at their offsets, and, unless an offset wrapped,
that its length is `cur`. What was written stays (`StillHeld`), what is written now stands at
the end (`NowHeld`), and what is held is what `SubSeq` reads (`HeldIsSubSeq`). Nothing is assumed of the
image, the shim or the segments.

*The output is the program.* The second half of `WinliftFileProofs` follows a byte from the input to its address. In
the input: a slot lies in the headers or in the raw bytes of one section (`SlotPlaced`), and since file
ranges and slots of a well-formed image do not overlap, the file byte an address comes from is under a
slot exactly when the address is (`SlotHere`). In the copy: after `n` imports, `Patched` says of every
byte whether it is the input's or belongs to one of the first `n` slots (`PatchStep`). In the segments:
`ImageSegments` and `ShimSegments` say which header, section or program header of the shim each was
made from; `OutputInvariant` carries all three to the end of the embedding. In the file:
`Delivered` joins them with `FileInvariant`, and with `LayoutInvariant`, which is why no offset wrapped
(`OffsetsFit`). In memory: pages are disjoint, so each address is mapped by one program header
(`MappedOnce`), and `ByteLoaded` reads the file where it points. The entry word lies in one segment of the
shim and, as no byte of the blob is in two of them (`ShimSegmentsAssumption`), is seen at one address only.

*Heap refinement.* `PromiseInvariant` adds to `HeapInvariant` that blocks are pairwise apart. One lemma per call
(`...Seen`) maps it to a step of `AbstractHeap`: a fresh block, a freed one, a moved one whose bytes
`CopiedByte` carries over because source and target do not overlap backwards, or a write inside one block.

*Process.* Every registration that was accepted is in exactly one of the list and the history of calls, however
the frames of suspended `shim_run_atexit()` calls lie on the stack: the loop takes the last
entry off before it calls it. `CalledOnce` and the refinement follow from that.

*File functions.* Types and handles first: a descriptor is closed only above 2, the lowest free one is
given out, so with all standard streams inherited a handle is above 3. `Progress` says that during a
write the kernel holds exactly the first `call.done` characters of the text on top of what the
call found (`StoredInPieces`: storing a text in two pieces is storing it once), so whenever
the loop is left the whole call is one abstract step.

*Loader.* All of its theorems rest on `LoaderInvariant`: where the loader stands, that `img` was read from
`file` (`ReadFrom`: as large, its sections inside), the types of what the walks hold, and that an array has room
whenever it is stored to (`Room`). `PointerInside` is the lemma behind it: a pointer `pe_rva_to_ptr()` returns, with the bytes asked for,
lies in the file, so `CellsTyped` gives a type to whatever is read. `NoOverrun` relates two walks: `Path` is the
sequence of blocks and of counts the first one makes, `Exact` says that the count never wrapped, and `WalkInvariant` that the
second walk stands on that path with no more relocations than were counted up to there; a block is not refused by
the second walk that the first accepted. `KeptFacts` says what the loop over a block's entries keeps.
That the count fits follows because a block takes more room than it has entries, so the count stays below the position (`CountBelow`) while
the position does not wrap; for the same reason a walk never goes back (`WalksAdvance`).
`SlotsMatchNames` is about the end of a nested loop; `ImportsRead` says what each of its stages has read, and `DescriptorsCounted` that
the loop stopped at the first zero descriptor, since descriptors repeat after 2^32. `RelocsRead` and `TlsRead` do the same for the other tables:
at block *j* the second walk holds the fixups of the blocks before it, and when it was skipped every block was empty.

*Strings in the heap.* `EnvInvariant` is `PromiseInvariant` and, for each string that was made, that it stands whole within a block
(`TextIn`); the program writes only to its own blocks, so `BlocksSeparate` keeps the text. That the sizes
computed by one loop cover what another stores is `LongerStrings` and `LengthsTo`: the length of joined strings is the sum of theirs.
`EnvironmentKept` reads the block back; `StartsFacts` and `ListRead` say that a reader who goes from terminator to
terminator meets the start of every string, no other place, and stops at the empty one.

*Formatter.* Numerals first: `LeftIsQuotient` (after *k* divisions by the base, the quotient by its *k*-th `Power`) and
`DigitsRight` (so the digits stored last to first are the numeral, without a leading zero, whatever the width of the word). Then the scanner: on a format that
is `WellWritten`, one `Turn` at the start of a directive ends at the start of the next one, has appended what the directive means, and has taken its
arguments (`TurnAfter`); the scan of flags and lengths cannot run past the conversion (`ConversionFound`). `ProducesMeaning` joins the
turns and `PrintedIsMeaning` adds the buffer's limit. With it a call of `fprintf()` hands `WriteFile()` the text that is meant,
and `CallsKeepPromise` needs no assumption about what the formatter does.

The proofs use linear arithmetic by SMT; the facts about products and remainders
are in `Arithmetic`. Induction over numbers is by the least element of a set (`LeastElement`, `Climbs`), and functions defined by
recursion get their values from `Recursion` and `Iteration`. Sets of files, strings and formats are
assumed only to have the types C gives them (`FilesAssumption`, `StringsAssumption`, `FormatsWritten`).

### Only model-checked

Liveness: `Terminates`, `ExitEnds`, `Ends`, `CallsReturn`. Fairness and `ENABLED` are beyond the provers. Every
invariant and every refinement the runs check is also proved.

## Findings

Each is shown by the trace of a violation run and has an entry in `PROJECT.json`.

1. `WinliftFlush`: `elf_write()` ignores `fclose()`'s result: a truncated file can be reported as success.
2. `WinliftClear`: the shim's ELF headers are mapped one page below `SHIM_MIN_BASE`; the range check
   accepts an image over that page.
3. `ShimHeapZero`: `HeapReAlloc()` with `HEAP_ZERO_MEMORY` loses the old contents.
4. `ShimProcessFull`: `atexit()` and `_onexit()` report success for a function they drop.
5. `PeLoaderCircle`: a relocation block size can send the counting walk in a circle.
6. `ShimIOFormats`: in `%5lu` the `l` after the width is taken for the conversion.
7. `ShimIOFormats`: of a 64-bit argument one word is read, so `%llx` cuts it and a later directive
   prints its other half. One trace shows both: `%llx%5lu%u` prints `a%lu1` where `2a79` is meant.

Met while modelling, without a run:

* Sizes near 2^32 wrap in `shim_heap_alloc()`; the sources promise nothing about them, and the proofs
  assume `ModestRequests`.
* TLS callbacks are resolved by the converter and never run by the shim.
* `SizeOfHeaders` is not compared with the file's size, so the header segment of a
  malformed file may take bytes from beyond the buffer (the model reads `Garbage` there).
* `GetModuleHandleA(NULL)` answers `0x00400000` whatever the base is: a constant, so not a hazard of any state.
* A function registered at exit that registers itself again keeps `exit()` from ending (see Fairness).
* A disposition `CreateFileA()` does not know is accepted (see above).
* `ReadFile()` and `VirtualProtect()` fail without setting the last error.

## Not modelled

* `VirtualProtect`, `VirtualQuery`, `Sleep`, `TlsGetValue` and the module functions: one system call or a
  constant, best effort by their comments, no state shared with anything else.
* user32 and comctl32 apart from `MessageBoxA`: headless constants.
* The fake TEB, the table of standard streams and the accessors of the C runtime's
  variables: straight-line initialisation and addresses.
* Message texts and the dump: output only. The build tools and test fixtures are not part of
  the program; they serve as sources of constants and claims.
* The instruction stream of the converted program is the environment of the shim's modules, and
  calling conventions are below the level of the model.

## Plan

Done: the conversion pipeline, the loader, the heap, the process, the file functions with the
formatter, the environment and the command line, each with an abstract specification where it
makes a promise to somebody, and the proofs above. The conversion needs none: nobody looks at the output path while
winlift runs, and what stands there afterwards is said by `FaithfulImage`, `EntersThroughShim` and `RejectionWritesNothing`.

Left: the measures behind the other liveness properties (what each loop makes smaller), which can be proved as
`WalksAdvance` is.
