# A TLA+ model of the FAT32 kernel

The repository is a small kernel in Rust. It mounts a FAT32 image that is part
of the binary (`include_bytes!("../test.img")` in `src/src/main.rs`), and a
shell session lists, reads, creates and writes files on it. This directory
models the file system and the session, the disk below them, the heap
allocators, the setup of the heap, the screen, and the locks that the kernel
shares with its interrupt handlers. TLC checks all of them; TLAPS proves the
safety invariants and the action properties of the file system, that the disk is
the volume it takes it for, that three of the allocators are heaps, and that the
heap is mapped before it is used.

## The parts of the system

| Part | Source | Module | Status |
|---|---|---|---|
| 8.3 names, checksum | `file_system.rs` 263-290, 695-746 | `ShortName` | modelled |
| directory slots and listing | `file_system.rs` 510-693, 771-938 | `DirEntries`, `DirScan` | modelled |
| FAT, clusters, tree | `file_system.rs` 91-507 | `Image`, `Fat32` | modelled, proved |
| shell session | `file_system/interface.rs` | `Fat32` | modelled |
| boot sector, byte offsets | `file_system.rs` 16-130, 225-261, 335-377, 458-502 | `Disk`, over `Volume` | modelled, proved |
| slab allocator (the one in use) | `allocator/slab.rs` | `Slab`, over `Heap` | modelled |
| linked-list allocator | `allocator/linked_list.rs` | `LinkedList`, over `Heap` | modelled, proved |
| fixed-size-block allocator | `allocator/fixed_size_block.rs` | `FixedSizeBlock`, over `Heap` | modelled, proved |
| bump allocator | `allocator/bump.rs` | `Bump`, over `Heap` | modelled, proved |
| heap setup, frame allocator | `allocator.rs`, `memory.rs` | `HeapSetup` | partly; proved |
| VGA writer | `vga_buffer.rs` | `VgaBuffer`; its lock in `Kernel` | modelled |
| interrupts, GDT | `interrupts.rs`, `gdt.rs` | `Kernel` | modelled |
| serial port, test runner, entry point | `serial.rs`, `lib.rs`, `main.rs` | `Kernel` | partly: locks and failures |

How they fit together: the entry point prints, sets up the interrupts and the
heap, and runs the shell. The shell calls the file system (`Fat32`). The file
system takes the disk for a FAT and an array of clusters, which is what `Volume`
says and `Disk` implements, and takes its strings and vectors from the global
allocator, which is to do what `Heap` says. `HeapSetup` is what must have
happened before the allocator is used. All of them print, and interrupts come
between any two of their steps; `Kernel` has the locks that this involves.

`PROJECT.json` gives, for every definition that models code, the lines it
models, and lists the hazards of the code with the properties that cover them.

The kernel has one thread besides interrupt handlers, and sessions share the
file system through an `Rc`, which does not leave that thread. The handlers do
not use the file system. So two calls never interleave, although `ls` releases
the lock between resolving its path and listing. What is hard in the file system
is inside one call, and in long sequences of calls: a call works in several
steps on the disk, steps fail after others have already changed the disk, a path
is resolved a second time after data was written, and cluster numbers are kept
while the disk changes. So a call is modelled step by step.

The allocators and the writer are behind a lock, so one call of theirs is one
step. What is hard there is in sequences of calls, and in offsets.

## The modules

### `ShortName`

Operators on byte sequences: `format_to_8_3` (split at the first dot, upper
case, cut, pad), `short_name_to_string` (trim, check UTF-8, join) and
`lfn_checksum` (8-bit rotate and add). The conversions are modelled by what they
do: a name written by `touch` and read back by a listing is not the same name.
`str::to_uppercase`, `from_utf8` and `from_utf16` are external; upper case is
modelled for ASCII and for characters without case.

### `DirEntries`

A cluster is a function from slot numbers to 32-byte slots. A slot is a classic
entry, a long-name entry, 32 bytes of file data or a blank, and every kind has a
`first_byte`, because the code decides by that byte whether a slot is free,
deleted or the end. File data is also read as directory entries when the code
does so. Sizes are counted in slots.

`IsListed`, `EntryName` and `Named` say declaratively what
`list_directory_entries` returns.

### `DirScan`

The loop of `list_directory_entries` as the code has it: the list of fragments
with its expected checksum, replaced by number in `process_lfn_entry`, sorted
and joined in `assemble_lfn`, used or dropped in `process_data_entry`. It is
checked against the declarative listing of `DirEntries`, which the other
modules use.

### `Image`

The FAT, the slots of all clusters, the operators that search and fill
directories, and `Tree(f, d, ds)`: the FAT `f` and the slots `d` form a
well-formed tree with the directory clusters `ds`.

* `DirsOK`: directories are allocated, the root is one.
* `ChildrenOK`: an entry leads to an allocated cluster, and to a directory
  exactly if its attribute says so. A file may have no cluster (start 0).
* `ChildrenDistinct`: no cluster is the start of two entries.
* `ChainsOK`: a FAT link leads to an allocated cluster that no other link and no
  entry leads to.
* `DotsOK`: `.` and `..` are in slots 1 and 2 and lead to the directory itself
  and to the directory that has its entry (0 for the root).
* `EndMarksOK`: nothing is stored behind an end mark.
* `ReachableOK`: every directory is reached from the root. It is stated without
  recursion: a set of directories that has the root, and with a directory also
  those its entries lead to, is all of them.

### `Fat32`

The state machine. Variables:

| Variable | Code |
|---|---|
| `fat`, `data` | the FAT and the data area of `disk` |
| `cwd` | `ShellSession.current_cluster` |
| `pc`, `call` | the call in progress and its arguments |
| `todo`, `at` | the parts left and `cluster` in `parse_path`; later the cluster the call works on |
| `file` | the `FileInfo` that `parse_path` returned |
| `buf` | the data `read_file` has collected |
| `res` | what the last call returned |
| `dirs`, `content` | auxiliary: directory clusters, and what was last written to each file; no guard reads them |

Actions: `Begin` (a method of `ShellSession` is called), `Parse` (one iteration
of the loop of `parse_path`, also for the second walk in `update_file_size`),
`LsParsed`, `List`, `CdParsed`, `CatParsed`, `Read` (one cluster of a chain),
`Decode`, `Show`, `CreateParsed`, `Touch` (`create_file` after its path),
`Mkdir` (`mkdir` after its path), `WriteParsed`, `Store`, `UpdateParsed`,
`UpdateSize`, and `Halted`.

An arithmetic underflow panics, as in a development build (`Cargo.toml` does not
change the profiles, and that one checks overflow), and so does an index outside
the disk. Every step that reads a cluster has that panic; in `Parse` and
`UpdateSize` it never happens, which `PanicOnlyOnEmptyFile` says and
`ParsesDirectories` explains. A panic halts the kernel: `pc = "panic"`, with the
memory as it was.

`allocate_cluster` searches below a fixed bound (50000 in the code, `AllocEnd`
here). `write_file` keeps what fits in one cluster. `create_file` and `mkdir`
allocate a cluster before they look for a slot, and the cluster stays allocated
when they fail. All of this is in the actions.

### `Volume` and `Disk`

`Volume` is what `Image` and `Fat32` take the disk for: FAT entries and clusters
as arrays, where a call changes one FAT entry, one slot, the size in one slot,
or the start of one cluster. `Disk` is the disk as the code has it: one array,
with the sectors that `new` computes from the boot sector and the offsets that
each method computes for itself. It is shown to implement `Volume`
(`IsVolume`), where the FAT and the clusters are found by the FAT32 layout,
stated independently of the code. The array is of words of four bytes, since the
code reads and writes nothing smaller except in data; of a FAT entry the four
high bits are kept apart (`top`). `U32` stands for 2^32: an offset beyond it
panics. `allocate_cluster` stops looking at a fixed number (`AllocEnd` here,
`SearchEnd` in `Volume`), which may be below the last cluster of the volume.

### `HeapBase` and `Heap`

`Heap` is what a global allocator promises: a block it returns is aligned,
inside the heap and apart from all blocks in use. An allocation may fail at any
time. `HeapBase` has blocks, ranges and `align_up`. Each allocator is shown to
implement it (`IsHeap`), with `live`, the blocks that callers have, as an
auxiliary variable that no guard of the allocator reads. `live` is a set: if an
allocator returned a block that is in use, with the same address and layout, the
set would not change and `Heap` would see no step. That no allocator does so is
what `CountsBlocks`, `FreeIsNotLive`, `BlocksPartitioned` and `FreeChain` say: what
an allocator gives out next is not in use.

### `Bump`, `LinkedList`, `FixedSizeBlock`, `Slab`

One action for `alloc` and one for `dealloc`. `Bump` has `next` and the counter.
`LinkedList` has the list of free regions in the order of its nodes; the code
never merges regions. `FixedSizeBlock` has a list of addresses per size class;
the crate `linked_list_allocator` behind it is external, and any `Heap`
(`Fallback`, over `held`) stands for it. `Slab` has the caches by class, the
slabs by page, with `s_mem`, `free`, `inuse` and the `bufctl` table, and the
page allocator's `next`; the circular lists are sequences of pages. Page, header
and object sizes are those of the code. A small allocation without pages left
panics (`panicked`), with the cache that may already have been made; a large one
returns null.

### `Allocators`

The global allocator: one of the four, chosen in the initial state as a comment
in `allocator.rs` chooses it in the code. Each has a heap and layouts of its own
in which its own boundaries are met, so that one run covers all four.

### `HeapSetup`

`init_heap` page by page. `BootInfoFrameAllocator` is its memory map and `next`;
`usable_frame` is the set of frames its iterator yields, each with the number of
its region, and the frame that `nth(n)` returns is the one with `n` frames before
it, in the order of the regions and of their frames. `map_to` of the
crate `x86_64` is external: it takes a frame for each table that is missing on
the way to a page, from the same allocator, before it maps the page.

### `VgaBuffer`

`Writer` with the screen and the column. `PrintText` is one call of `print!`.
`text`, what was printed since boot, is auxiliary, for `ShowsText`.

### `Kernel`

One processor. `stack` has the activations, main code last; each is the sequence
of operations it has still to run, written with `with_lock`, `vga_print`, `init`
and so on as the code is. `held` has the locks taken, `interrupts` is the
processor's flag, `irr` and `isr` are the registers of the PICs, `ready` is what
`init` has set up. An interrupt may come before each operation when the flag is
set. "work" and "assert" are code that may go on, panic, page-fault or overflow
the stack, and so are "show" and "report", the formatting and writing inside
`_print` with its lock taken: its `unwrap` or `expect` may panic and its code may
fault like any other. The stack may also overflow in `init` and in the interrupt
handlers. There is no unwinding: a failure keeps its locks, and `abandoned`, which
is auxiliary, has the locks that were taken when one came. Code that wants a
taken lock spins (`Spin`). `machine` is "lost" when the processor would reset: an
interrupt before `init` is done, a fault before the IDT is loaded, or a stack
overflow without a stack for its handler; that stack is assumed to be large enough
for the handler. `testing`, which never changes, is which of the
kernels of `cargo run` and `cargo test` is built; they differ in the panic
handler, in boot and in what main code does.

## The runs

| Run | States | Properties |
|---|---|---|
| `tree` | 104,033 | `TypeOK`, `ClusterOwnership`, `DotEntries`, `NothingBehindEndMark`, `SessionInDirectory`, `DirsAreReachable`, `FileIsCurrent`, `EntriesPersist`, `FailedCreateKeepsTree`, `CreateLosesNothing` |
| `write` | 56,763 | `ParsesDirectories`, `SizeSynced`, `ReadBack` |
| `empty` | 4,694 | `PanicOnlyOnEmptyFile`, `CallsEnd` |
| `scan` | 568,559 | `ScanIsListing` |
| `disk` | 77,229 | `ReadsAgree`, `NoPanic`, `IsVolume` |
| `allocators` | 59,390 | `IsHeap`; `CountsBlocks` of `Bump`; `FreeRegionsHoldNodes`, `FreeIsNotLive`, `LossIsAlignment` of `LinkedList`; `BlocksPartitioned` of `FixedSizeBlock`; `FreeChain`, `SlabsOnLists`, `MetadataIsNotLive`, `GrowsOnlyWhenFull` of `Slab` |
| `heap_setup` | 3,848 | `FramesUsedOnce`, `HeapIsMapped`, `EndsRight` |
| `vga` | 21,845 | `ShowsText` |
| `kernel` | 47,253 | `NoSelfDeadlock`, `NeverLost`, `InterruptsServed`, `FailureReported` |

`tree` makes files and directories in every order, with `ls` and `cd` between:
invalid names, a name that starts with the byte 0xE5 (which every listing takes
for a deleted entry), a file used as the parent directory, a full directory and
a full disk. The tree and the FAT stay consistent, every directory stays
reachable, no listed entry changes or disappears, a failed call loses at most
the one cluster it had allocated and a successful one loses none.

`write` adds `write` and `cat`, in the root and in a new directory, with data
that is cut at the end of a cluster, inside a UTF-8 character, and with a file
on two clusters. Sizes stay in step and `cat` shows what was written. This does
not hold for every path, and the calls of this run keep to those for which it
does: the last part of the path is the only entry of its directory with that
short name, the part before it is not `.`, and no `/` follows it. The run
`alias` shows what happens otherwise.

`empty` mounts an image with a file that has no cluster. A call panics only if
it uses that file as a cluster, and every call ends.

`scan` starts from every directory of five slots over ten kinds of slot and
compares the loop with the declarative listing.

`disk` makes every call that writes, twice in a row, on three geometries: what
is meant to change does, no other cluster, FAT entry, FAT copy or boot sector
does, and reading sector by sector finds the same words.

`allocators` allocates and frees in every order, with each of the four
allocators, and shows that each implements `Heap`. Besides, the counter of `Bump`
is the number of blocks in use. `LinkedList` meets the assertions of
`add_free_region`, and loses bytes only in front of a block aligned to more than
8. `FixedSizeBlock` has no block on a list and with a caller at once. In `Slab`
the free chain of every slab visits exactly its unused objects, every slab is on
the one list that `alloc` needs it on, no caller's block reaches into a cache, a
header or a table, and a cache grows only when all its objects are in use.
`IsHeap` of `Slab` holds for layouts that do not share a class (see `slab_class`)
and, if small, ask for no alignment above 8.

`heap_setup` runs `init_heap` on every memory map of three regions in twelve
frames: it always ends, and it succeeds exactly if there are enough usable
frames for the pages and the tables. `vga` compares the screen with the text
printed so far, cut into lines and rows at once.

`kernel` lets the timer and the keyboard interrupt anywhere, and lets main code,
handlers and prints fail, with locks taken, in both kernels. No code waits for a
lock that the code it interrupted has; every interrupt is served and ended; every
failure is shown, on the screen or on the serial port. There is one exception, and
the code has it: a failure inside `_print` leaves `WRITER` (or `SERIAL1`) taken,
and a handler that prints under the same lock spins on it with nothing shown.
`NoSelfDeadlock` and `FailureReported` allow exactly that: the wait must be for the
lock of a print, and the lock must have been taken when a failure came. A wait for
any other lock, or of a handler that no failure preceded, is a violation. A fault
before the IDT is loaded resets the machine, and is the only way it resets
(`NeverLost`).

Three runs show where the code and its documentation differ (`findings` in
`PROJECT.json` quotes the lines):

| Run | What TLC shows |
|---|---|
| `alias` | `write` stores the data of one file and the size of another with the same short name |
| `file_parent` | `touch` with a file as the parent returns `Ok` and adds no entry to any directory |
| `slab_class` | a block of 1536 bytes is served from a cache of objects of 512 bytes, and overlaps its neighbours |

Other behaviour that the models have, that a reader of the documentation may not
expect, and that no run is about:

* A call on an empty file without a cluster panics: `read_cluster` and
  `write_file` compute `start_cluster - 2`. `PanicOnlyOnEmptyFile` says that no
  other call does.
* `touch("", "f")` stores the name `F`, and paths compare names exactly, so the
  file is not found as `f`. `cd("/")` fails, since `parse_path` returns `None` for
  a path without parts.
* The slab allocator never gives the pages of a block of more than 2048 bytes
  back; `cat` of a file of more than four clusters of `test.img` takes such
  blocks. A slab of one object that becomes empty goes to the list of partial slabs;
  it is found there (`SlabsOnLists`).

### Bounds

The image has the layout of `test.img` at a small scale: clusters 2 to 11, of
which `allocate_cluster` may use those below 9; six slots per cluster. The root
has one free slot (a deleted one), the directory has two (a deleted one and the
end mark), three clusters are free, one of them with old data in it. So one or
two creations fill a directory, three fill the disk, and both kinds of free slot
are taken. The calls of each run are listed in `MCFat32`. There is no bound on
the number of calls: there is no operation that deletes, so the state space is
finite. There are few names, since the properties depend on names only through
equality, the first byte, validity and the 8.3 form: those of the image, an
upper-case letter, an invalid one, and one that starts with 0xE5.

In `scan`, five slots hold a long name of three fragments, its entry and one
slot more, so each way to interrupt, repeat, reorder or wrongly sum a long name
occurs.

In `disk` an image has seven clusters, of which `allocate_cluster` looks at six. The three geometries have two slots in
one sector, a slot in each of two sectors with a FAT of two sectors, and two
slots in each of two sectors with one FAT; `U32` is the length of the largest.
The clusters up to any one are in use. `MaxWrites` is two: the second call meets
what the first has changed, and no method keeps state between calls.

In `allocators` the heaps of `Bump`, `LinkedList` and `FixedSizeBlock` have a few
dozen bytes, with layouts that are smaller than a node, not a multiple of their
alignment, and aligned to more than the heap's start; blocks are limited by the
heap only. That of `Slab` has five pages, and `MaxLive` allows four blocks in
use: slabs of three objects and of one, so that slabs become full, partial and
empty in every order, a full cache grows, and pages run out. `slab_class` has four
pages and two sizes of one class.

In `heap_setup` pages have four bytes and tables two entries, so that the five
pages of the heap need tables at all three levels while it is mapped. In `vga`
the screen has three rows (two columns each), texts are up to seven bytes
(`MaxText`) in calls of up to three (`MaxCall`): a text wraps, scrolls, and
scrolls off. `Kernel` has no bound of its own: an interrupt whose line is in
service waits, and a device asks again only after the interrupted code has made
a step (`quiet`), so handlers cannot starve the code they interrupt.

### Fairness

`CallsEnd` assumes weak fairness of the steps of a call, not of calls: a call is
ordinary sequential code that no other thread preempts for good. It holds
because every iteration of `parse_path` consumes a part, and because chains of
the FAT are acyclic (a consequence of `ChainsOK`: no link leads to the first
cluster of a file or to a cluster that another link leads to).

`EndsRight` assumes that the boot code runs on. `InterruptsServed` and
`FailureReported` assume weak fairness of the processor, which always executes
something, and nothing of the devices; that handlers leave time to the code they
interrupt (`quiet`) is an assumption on the rate of the devices.

## The proofs

`Fat32Proofs` proves for every well-formed image, of any size, and every set of
calls:

| Theorem | Statement |
|---|---|
| `Invariance` | `Spec => []IInv` |
| `TypeCorrect` | `Spec => []TypeOK` |
| `ClustersAreOwned` | `Spec => []ClusterOwnership` |
| `DotEntriesAreRight` | `Spec => []DotEntries` |
| `NothingIsHidden` | `Spec => []NothingBehindEndMark` |
| `SessionStaysInTree` | `Spec => []SessionInDirectory` |
| `ParseStaysInTree` | `Spec => []ParsesDirectories` |
| `FileInfoStaysRight` | `Spec => []FileIsCurrent` |
| `PanicIsOnEmptyFile` | `Spec => []PanicOnlyOnEmptyFile` |
| `DirsStayReachable` | `Spec => []DirsAreReachable` |
| `EntriesArePermanent` | `Spec => EntriesPersist` |
| `FailedCreateIsHarmless` | `Spec => FailedCreateKeepsTree` |
| `CreateIsLossless` | `Spec => CreateLosesNothing` |

Assumptions, each evaluated by TLC for the instances of the runs:

* `SizeAssumption`: the numbers of clusters fit in the FAT, the bound of
  `allocate_cluster` is not beyond the last cluster (`test.img` has 64496
  clusters and the bound is 50000), a cluster has at least two slots (a sector
  has 16);
* `ImageAssumption`: the image that is mounted is a `Tree`;
* `CallsAssumption`: calls have the form the session gives them, and a new name
  does not start with NUL.

None of the properties is inductive alone. A new entry keeps
`ChildrenDistinct` only if the allocated cluster belongs to nothing, which needs
`ChainsOK` and `ChildrenOK`: a free cluster is in no chain and in no entry.
`..` leads to a directory only because of `DotsOK`, which survives a new entry
only because slots 1 and 2 are never free. `EndMarksOK` is needed because a new
entry in a slot that was an end mark makes the slot behind it visible.
`ReachableOK` survives `mkdir` because the new directory is entered in one that
is reached, and the other steps because no entry is taken away. What a
call holds between two steps must be related to the image too: `FileIsCurrent`
for the `FileInfo`, and `AtIsCurrent` for the cluster number (a directory; or
the start of a file that was used as a parent or listed; or an allocated cluster
of a chain). `IInv` is the conjunction. It was checked with TLC on the instances
of `tree`, `write` and `empty` before it was proved.

The argument is in two modules:

* `TreeProofs`, with no reference to the state machine. First names and slots: a
  formatted name has eleven bytes and its first byte is neither a dot nor NUL; the
  two dot names read back as `.` and `..`; filling the first free slot changes the
  listing by that entry only. Then what each change does to a `Tree`. `SameView`
  is what the tree sees of a slot. `SameEntriesTree` (file data and sizes do not
  matter), `AllocateTree`, `NewFileTree`, `NewDirectoryTree` and `CreateTree` (the
  end of `create_file` and `mkdir`, also with a file as the parent),
  `ParentIsDirectory`, `NamedIsCurrent`.
* `Fat32Proofs`: `IInv`, one lemma for each step, the theorems. The action
  properties follow from `IInv` and from the cases in which `touch` and `mkdir`
  end (`CreateCases`): with nothing changed, with a cluster allocated and no entry
  added, or with an entry added.

`DiskProofs` proves for every image of the form `ImageAssumption` asks for, all
entries and all contents:

| Theorem | Statement |
|---|---|
| `ReadsFindData` | `Spec => []ReadsAgree` |
| `OffsetsStayOnDisk` | `Spec => []NoPanic` |
| `DiskIsVolume` | `Spec => IsVolume`: `Disk` implements `Volume` |

`ImageAssumption` says of the boot sector what `mkfs.fat` guarantees and the code
relies on (`GeometryOK`): a sector has whole slots, a cluster has room for `.` and
`..`, the FAT has an entry for every cluster, the volume has no more than `U32`
bytes, and no fewer clusters than `allocate_cluster` looks at; of the disk only
that it is as long as its boot sector says. The invariant is small: the disk
keeps its length, and nothing has panicked. The argument is in the offsets. A
number of bytes is a quotient and a remainder by the sector size in the code and
a number of words in the layout; `OffsetOfEntry`, `OffsetOfFatEntry` and
`StartOfCluster` say that both are the same word, from the uniqueness of quotient
and remainder (`SamePlace`, `Quotient`). `OwnWord` says that no word is in two
clusters, so that what is stored in one (`Overlaid`) is not seen in another, in
the FAT or in the rest.

Of the allocators, `BumpProofs`, `LinkedListProofs` and `FixedSizeBlockProofs`
prove for every heap and every set of layouts:

| Theorem | Statement |
|---|---|
| `BumpCountsBlocks` | `Spec => []CountsBlocks` |
| `BumpIsHeap` | `Spec => IsHeap`: `Bump` implements `Heap` |
| `RegionsHoldNodes` | `Spec => []FreeRegionsHoldNodes` |
| `FreeStaysApart` | `Spec => []FreeIsNotLive` |
| `LinkedListIsHeap` | `Spec => IsHeap`: `LinkedList` implements `Heap` |
| `FixedSizeBlockIsHeap` | `Spec => IsHeap`: `FixedSizeBlock`, over any `Heap`, implements `Heap` |
| `FixedSizeBlocksPartitioned` | `Spec => []BlocksPartitioned` |

They take `HeapOK` as a hypothesis (addresses and sizes are numbers, and no size
or alignment is 0). `LinkedList` needs `ListHeapOK` besides: the heap begins where
a node may and has room for one, and an alignment divides that of a node or is a
multiple of it, as powers of two are. `FixedSizeBlock` needs `BlockSizesOK`: the
block sizes increase, and one that is not smaller than an alignment is a multiple
of it, as for powers of two. `HeapsAssumption` of `Allocators` says all this of
the heaps there, TLC evaluates it in the run `allocators`, and from it
`AllocatorsProofs` carries the invariants over to the composition, one theorem for
each property of the run: `BumpStaysCounted` (`CountsBlocks`), `NodesFitRegions`
(`FreeRegionsHoldNodes`), `ListedIsFree` (`FreeIsNotLive`) and
`BlocksStayPartitioned` (`BlocksPartitioned`).

The invariant of `Bump` is `CountsBlocks` with `next` inside the heap and `live` a
finite set of blocks. That the counter is the number of blocks is what makes it
safe to start again at zero, and that all blocks end before `next` makes a new one
apart from them; neither holds without the other.

The invariant of `LinkedList` is about the list and the blocks at once
(`IsLayout`): the regions and the blocks in use, each with the padding that
`size_align` adds, are in the heap and pairwise apart; a region is aligned for a
node and holds one; and so are blocks, which is why `dealloc` may turn one back
into a region. `alloc_from_region` refuses a region whose rest is too small for a
node; without that the rest could not go back on the list (`BlockInRegion`).

The invariant of `FixedSizeBlock` relates three places. `HeldInv`: the blocks of
the fallback are aligned, in the heap and apart. `LiveInv`: a caller's block is
one of these, of the layout that the fallback was asked for (`Backing`), and two
callers have different ones. `ListInv`: a block on a list is one of these too, of
the class of the list, is there once, and no caller has it. A block taken from a
list is then apart from all in use because it is another block of the fallback,
and `BackingServes` says that it is large and aligned enough for every layout of
its class. `NoneLost`, that each block of the fallback is with a caller or on a
list, is what `BlocksPartitioned` needs besides.

`HeapSetupProofs` proves for every page size, heap and memory map whose regions do
not overlap (`MemoryMapAssumption`):

| Theorem | Statement |
|---|---|
| `FramesServeOnce` | `Spec => []FramesUsedOnce` |
| `HeapGetsMapped` | `Spec => []HeapIsMapped` |

The invariant says that every frame in use is one of the first `next` that the
iterator yields (`Returned`); the next one is none of these, because no two frames
have the same number of frames before them and regions do not overlap. For
`HeapIsMapped` it has the pages before `page` mapped, with their tables.

Only model-checked:

* `SizeSynced` and `ReadBack`, which hold for the calls of the run `write` and not
  for all (see `alias`).
* `CallsEnd`, `EndsRight`, `InterruptsServed` and `FailureReported`: liveness is
  beyond this prover.
* `ScanIsListing` and `ShowsText` are about recursive definitions, and
  `LossIsAlignment` about a sum over a set, which need induction over data.
* The properties of `Slab`, and `IsHeap` of the composition, which rests on them.
* `Kernel`: it has no constants and finitely many states, so that the run is
  exhaustive and there is nothing left to prove for safety.

## What is not modelled

* The decoding of the boot sector's bytes: `Disk` starts from its fields. The
  second copy of the FAT is on the modelled disk, and the code neither reads nor
  writes it.
* Images smaller than the bound of `allocate_cluster`, on which it can reserve a
  number that is no cluster, and images that are not well-formed: crossed chains,
  directories that share clusters.
* Directories on more than one cluster: the code reads and extends the first
  cluster only, so entries further on do not exist for it.
* Cased letters outside ASCII in new names. Paths with an empty part (`//`).
* A long-name entry whose first eleven bytes happen to be a short name:
  `update_file_size` compares the bytes of every slot, the model those of short
  entries.
* The output of `ls` and `cat` beyond whether it is reached, and
  `list_files_names`, which only formats.
* `memory::init` and `active_level_4_table`, which read a processor register;
  `EmptyFrameAllocator` and `crate_example_mapping`, which nothing uses.
* The colours of the screen (the code has one), the initialisation of the serial
  port, and the names that the test runner prints.
* Small blocks with an alignment above 8 in `Slab`: the kernel asks for none, and
  the code would not align them.

## Plan

1. A proof of the invariants of `Slab`, and with it of `IsHeap` for `Allocators`.
2. `Fat32` over `Disk` in one module, so that the tree is checked on the array of
   bytes. `DiskIsVolume` is what makes checking them apart sound.
