# The Naive file systems in TLA+

This directory is a verification development of the file systems under
`src/naive/`: models of their handlers, TLC configurations that check them on
small instances, and proofs checked by TLAPS. File names below are relative to
`src/`.

## 1. Inventory

The repository is a series of laboratory exercises. Each is a kernel module (or
a program) of its own; they share no code at run time.

| component | state it keeps | operations | what is hard about it | what makes it correct |
|---|---|---|---|---|
| **split naivefs** `naive/naivefs_{dir,inode,file,super,main}.c`, `naivefs.h` | two allocation bitmaps, copied from disk at mount; one `naive_inode_info` per inode (block count, eight block pointers); directory records in data blocks; the inode table | create, lookup, unlink, mkdir, rmdir, open, release, read, write, write_inode, evict, destroy, fill_super, put_super | files unlinked while open; partial failures of `sb_bread`; a directory or the disk filling up; no lock of its own, find and mark in two steps; inodes that are not in the inode hash | a block has one owner and is marked; a number is given once; link counts; records and names agree |
| **mkfs.naive** `naive/mkfs.naive.c` | the image file and its offset | one run of writes and seeks | offsets left by calls whose results are ignored | the layout the mount expects |
| **naivefs-final** `naive/naivefs-final/naivefs.c` | one list of files and one counter for all mounts | create, mkdir, unlink, rmdir, readdir, fill_super | several mounts on one list; mounts that fail; entries that cannot be allocated; names cut to 29 bytes; readdir and its position | the list agrees with what lookup finds; a listing ends |
| **naivefs-complete** `naive/naivefs-complete/naivefs.c` | a static counter; the dcache | create, mkdir, unlink, rmdir, readdir of a constant table | the counter is shared by mounts without a lock | numbers, link count of the root, a listing ends |
| **monolithic naivefs** `naive/naivefs-7`, `-8`, `-9-10/naivefs.c` | bitmaps in buffers, disk inodes in buffers | create, read, write, unlink, release, mount, unmount | unlink frees a neighbour's number; buffers marked and not marked, and write-back at any time; writes that stop at any block; files without a name but open | a block has one owner, in memory and on the device; size, pointers and what write returned agree |
| **split naivefs of steps 9-10** `naive/naivefs-9-10/naivefs_{dir,super,main}.c` | as the split naivefs | as the split naivefs | its Makefile lists two sources that do not exist | |
| **steps 3 to 6, naivefs_simple** | a root directory; in step 6 a static counter | mount; in step 6 create | little beyond registration and one superblock read | |
| **myext2** `myext2/` | a superblock check, a root directory; `changeMN` patches a magic number | mount | | |

Interactions. Inside the split naivefs the handlers call the allocators of
`naivefs_super.c` and the record functions of `naivefs_dir.c`, all on shared
memory. The VFS calls the handlers: it resolves names through its dentry cache,
holds the parent directory's lock around create, mkdir, unlink and rmdir, and
frees an inode with its last user. mkfs.naive and the modules meet in the image
only. The VFS is external to the repository; it is modelled from what the
handlers rely on, and the definitions that model it are marked so.

The hazards of each component, at their lines, are the list `hazards` in
`PROJECT.json`, each with the properties that watch it.

## 2. Modules

| module | models | state and actions in terms of the code |
|---|---|---|
| `NaiveAlloc` | the two bitmaps as sets, and what the two scans return | `FindFreeInode`, `AllocBlock`; both scans look at whole bytes only (`ScannedInos`, `ScannedBlocks`) |
| `NaiveFS` | the mounted split naivefs | `imap`, `bmap` the bitmaps; `obj` the inode objects with their `naive_inode_info`; `dent` the positive dentries; `blk` the data blocks. One action per handler: `Create`, `Mkdir`, `Unlink`, `Rmdir`, `Open`, `Close`, `FileWrite`, `Truncate`; `AddEntry` and `Remove` are `naive_add_entry` and `naive_remove_entry` with all their outcomes |
| `Namespace` | the abstract directory tree: what the split naivefs promises | `NaiveFS` implements it through the records in its blocks (`ImplementsNamespace`) |
| `NaiveStore` | `NaiveFS` with reclaim of dentries and objects, `naive_lookup`, `naive_iget`, `naive_write_inode`, unmount and mounts that succeed or fail | adds `itable`, the inode table on disk; `mounted`; `held`, the allocations and buffer references of `naive_fill_super`, which fails at any of its nine calls |
| `NaiveMono` | the monolithic naivefs of step 8 | `mem` the buffers of bitmaps and inode table, `dirty` which are marked, `disk` what the device holds once these are written; `obj` the open files. One action per handler; `naive_file_write` has one per way its loop ends |
| `NaiveAllocRace` | the allocators taken apart | `pc`, `call`, `num`, `new`, `reg` are a process's place in a handler and its locals; `reg` is the byte that `\|=` and `&=` load and store back |
| `NaiveBitmap` | the byte loops of the scans and of `naive_free_block` | arrays of bytes; shown to compute the operators of `NaiveAlloc` |
| `NaiveMkfs` | `format_disk` | the row of `write` and `lseek` calls, the offset, and the name of what each block holds |
| `NaiveFinal` | naivefs-final | `file_list`, `next_inode_no` for all mounts; `dent` and `pos` per mount |
| `NaiveComplete` | naivefs-complete | `ino_counter`, with its load and store as two steps; `dent`, `links`, `pos` per mount |
| `MCNaiveFS`, `MCNaiveStore`, `MCNaiveMono`, `MCAllocRace` | instances for TLC | symmetry, name storage, parent directories |
| `NaiveFSProofs`, `NaiveNamesProofs` | theorems about `NaiveFS`: types, pointers and owners of blocks, names, numbers, link counts and sizes; records and the refinement of `Namespace` | section 4 |
| `NaiveBitmapProofs`, `NaiveStoreProofs`, `NaiveMonoProofs`, `NaiveRaceProofs`, `NaiveFinalProofs`, `NaiveCompleteProofs` | theorems about `NaiveBitmap`, `NaiveStore`, `NaiveMono`, `NaiveAllocRace`, `NaiveFinal`, `NaiveComplete` | section 4 |

`NaiveFS`, `NaiveBitmap` and `NaiveAllocRace` extend `NaiveAlloc`; `NaiveStore`
extends `NaiveFS`. Of the proof modules, `NaiveNamesProofs` and
`NaiveStoreProofs` extend `NaiveFSProofs`.

### Abstractions

* File bytes are one value, `FileBytes`; a block holds it or an array of
  records. Times, owners and permission bits are left out.
* In `NaiveFS`, `NaiveStore`, `NaiveMono` and `NaiveFinal` a handler is one step. For the
  split naivefs, `NaiveAllocRace` says what the interleaving of handlers adds.
* A call that fails without a change of state is a stuttering step.
* `NAIVE_I(inode)` is taken to be the inode's own `naive_inode_info`, as
  `naive_alloc_inode` intends. (The cast of `naivefs.h:71` would make it so only
  if `vfs_inode` were the first member, and the header's declaration of
  `naive_lookup` does not match its definition: as it stands the tree needs both
  repaired before it compiles into something that runs.)
* `naive_fill_super` writes `s_blocksize` by hand after its first read; devices
  with blocks of 512 bytes are assumed, and images of at most 4096 blocks, the
  bits of a one-block bitmap.
* `NaiveFS` is the file system while the VFS keeps every dentry and inode; the
  other half, reclaim and reading back, is `NaiveStore`.
* An unlinked file that is still open keeps its object; its number may be given
  out meanwhile, as the code does.
* `NaiveMono` settles two calls that have no defined outcome. `NAIVE_I` there is
  a `container_of` of an inode that `new_inode` allocated without the container:
  a handler finds the pointers `create` stored, as it is meant to, or faults
  (`Stray`: the machine is down, and nothing is claimed of the device any more,
  since there is no journal and no order of writes to recover with).
  The `d_add` of a dentry that `simple_lookup` has hashed already is taken to
  bind the name.
* Names need no variable in `NaiveMono`: no directory block is ever written, and
  the dentries of `simple_lookup` go with their last user, so a file has a name
  exactly while it is open and linked.
* `disk` in `NaiveMono` already holds what is marked and not written yet. A step
  that changes a buffer without marking it leaves `disk` behind; where a handler
  sleeps between a marked change and an unmarked one, a write-back may come
  between (`LeaveAfter`). The device is read at a mount only.
* History variables record what happened and restrict no action: `written` in
  `NaiveAllocRace`, `shared` and `starved` in `NaiveFinal`, `overlapped` in
  `NaiveComplete`, `failed` in `NaiveMkfs`, `wrote` and `deleted` in `NaiveMono`.

## 3. Runs

| run | asks | result | distinct states |
|---|---|---|---|
| `tree` | while no read fails and directories have room: do records, names, numbers and link counts agree; do the records form a tree (`Namespace`); does a block keep one owner, a mark and its content; can every byte below a file's size be read | holds | 42 038 |
| `io_errors` | what survives when any `sb_bread` may fail | packed pointers, numbers and link counts hold | 94 936 |
| `dir_full` | is a name recorded when the directory's pointers are used up | violated | |
| `race` | does the one parent's lock make up for the allocators having none | numbers always; blocks until a file is written | 363 169 |
| `two_parents` | are numbers distinct with two parent directories | violated | |
| `bitmap` | do the byte loops compute the set operators | holds | 98 304 |
| `store` | do packing and the root's number survive reclaim, write-back and remount; what does `naive_iget` read back; does every failing mount give back what it holds | holds, but for one buffer | 117 465 |
| `mono` | the same of the monolithic version: owners of blocks in memory and on the device, sizes, counts, what was written and is read | holds; numbers until the first unlink | 528 115 |
| `final` | is the shared list consistent, and does it follow the names | holds | 322 248 |
| `readdir` | does a listing of naivefs-final end | violated | |
| `complete` | root links, numbers and the end of a listing in naivefs-complete | holds | 105 678 |
| `mkfs` | does format_disk leave the layout it announces | violated | |

### What the violations show

* `dir_full`: `naive_add_entry` looks for a zero pointer
  (`naive/naivefs_dir.c:56`); when there is none the record is written to the
  new block all the same, no pointer leads to it, and the call succeeds.
* `two_parents`: `naive_find_free_inode` returns a number that the caller marks
  later; creates in two directories, under two locks, take one number.
* `mkfs`: after the superblock, `lseek(fd, 512, SEEK_SET)`
  (`naive/mkfs.naive.c:93`) goes back to block 1: the block bitmap overwrites
  the superblock, and block 3 stays unwritten. An image it made is refused by
  every mount. This is why `NaiveFS` starts from the image kept in the
  repository.
* `readdir`: `naive_readdir` of naivefs-final emits the list from its head at
  every call, so a reader that calls until nothing comes back never stops while
  the list has an entry.

Known behaviours that the properties leave room for rather than hide: when one
particular read fails a block may get two owners (`naive_add_entry` attaches a
block, then fails to read it and frees it; section 4 shows that, until dentries
are reclaimed, no other read does such harm); once dentries are reclaimed a name may be created twice
(`naive_lookup` skips what it cannot read); after a remount the root is empty,
since `naive_fill_super` never reads the root's disk inode; an append to a partly
filled block takes a block more than it needs, so that a file can run out of
pointers short of `NAIVE_MAX_FILE_SIZE`; a mkdir beside a write can give both the
same block.

Of the mount: `naive_fill_super` releases the buffer of the inode bitmap once or
twice too often when a call fails after its read, since its labels fall through
one another (`naive/naivefs_super.c:189`, `:193`); `ReferencesBalance` allows that
and nothing else. Of the monolithic version: `create` gives out bit `i` as number
`i` and `unlink` clears bit `i_ino - 1` (`naive/naivefs-8/naivefs.c:384`), so two
files come to share a disk inode after an unlink, and the last number is never
freed; `memset` over 524 bytes of a 512-byte block resets the next inode's
`i_blocks` (`:528`); a truncate enlarges or shrinks the VFS's size only
(`:460`), and the first file gets the number 1 that the root has (`:500`, `:713`). In
the split version a truncate that enlarges a file leaves a size its blocks do not
reach, so `ReadsReachTheEnd` is checked with truncates to zero.

### Bounds

Every bound is a CONSTANT or a comment in a cfg.

* `NaiveFS`: two or three objects besides the root, two names, five data blocks
  at most, blocks of two bytes, one or two pointers per inode, two or three
  records per block, bitmap bytes of two or three bits. A hazard here needs two
  owners and a third party that frees, an index in the middle of a directory's
  scan, a partial last byte of a bitmap, a full pointer array: all occur. The
  scaled sizes enter the code only through the quotients the constants name.
* `NaiveStore`: one name, one pointer per inode, `MaxLinks` bounds the link
  count of a parent whose subdirectories are read back as files.
* `NaiveMono`: two open files, three entries in the inode table (the root's and
  two more, so that one neighbour's number is another's), two data blocks for two
  files of up to two blocks of two bytes, writes of two bytes at any position, so
  that they cross a block, leave holes and run out of blocks; the table blocks of
  the three inodes on one page.
* `NaiveAllocRace`: three processes in one directory, or two in two; bytes of two
  bits, so that neighbours share a byte and some do not; each process owns at
  most one thing, of at most `MaxBlocks` blocks.
* `NaiveBitmap`: three bytes of three bits, every content of both bitmaps, a data
  area that starts inside a byte, totals that are no whole number of bytes.
* `NaiveFinal`: two mounts, three inode numbers (the two pre-made files and one
  more, or three after a failed mount), three names: one `README`, one cut; one
  of the mounts is read. The position past the dots is kept as its parity.
* `NaiveComplete`: two mounts, two names, three numbers: two overlapping creates
  and a third.
* `NaiveMkfs`: an inode table of two blocks; a blank image or one formatted
  before; any write may fail.

### Fairness

Only the runs `readdir` and `complete` assume any: a reader that has a directory
open goes on calling `readdir` (weak fairness of `Getdents`). It is what `ls` does, and
the kernel never makes it wait: the call is enabled as long as the directory is
open. No handler of the file systems waits for another actor, so nothing else is
assumed.

## 4. Proofs

Every safety property that a passing run checks is also proved, for every value
of the constants that satisfies the modules' assumptions. The runs show it on one small instance; the theorems hold for any
geometry, any number of objects, names, mounts and processes, and any sequence
of calls.

The assumptions say what the headers say: sizes and counts are positive numbers,
the data area starts inside the device, and the record names `.`, `..` and the
zeroed one are not file names. Three need a word.
`TagAssumption`: the value that stands for file bytes is no block of records.
(A file whose bytes look like records can only be read as such if a block has
two owners.) `RootIno \in ScannedInos` in `FSAssumption`: the root's bit lies in
a byte the scan reads. `Cut \notin {README, example}` in `FinalAssumption`: a name
cut to the 29 bytes a list entry keeps is neither of these short ones.

### The bitmaps: `NaiveBitmapProofs`

The models of the handlers use sets of numbers and of blocks, and take the lowest
one that is free; the code has bytes, loops over bytes and bits, and a start in
the middle of a byte. Two theorems close the gap.

* `LoopsAgree`: `Spec => [](FindAgrees /\ AllocAgrees)`. The loops are recursive
  functions of the byte index. No induction on them is needed: that a function
  satisfies the loop's equation is shown by writing one down (`LoopExists`), and
  any such function has at its start the value of its first stop (`LoopReturns`),
  because the least index that has this value (`LeastNumber`) can only be the
  start: the one before it would have it too. The rest is arithmetic of
  bytes and bits: a number is its byte and its bit (`ByteAndBit`), an earlier
  byte holds smaller numbers (`BytesThenBits`), and the whole bytes are what
  `ScannedInos` and `ScannedBlocks` say (`WholeBytes`). So the first clear bit of
  the first byte that has one is the least free number (`FirstClear`). It holds
  for every content of the bitmap, not of reachable ones only.
* `OtherBitsStay`: `Spec => OneBitAtATime`, from the range of the bitmaps
  (`BytesFit`) and the effect of `|=` and `&=` on one bit (`OneBit`).

### The split naivefs: `NaiveFSProofs`, `NaiveNamesProofs`

Seven of the theorems are about the executions in which no block is half added:
`[][~ HalfAdded]_vars`. In a half-added block `naive_add_entry` has hung a new block
in the directory and counted it, fails to read it, and frees it without taking
the pointer back (`naive/naivefs_dir.c:66`); its next owner shares it with the
directory. Any other read may fail at any time: a failing scan, a failing
`naive_lookup`, a write that stops at a block it cannot read. So this is the
one place where an error path must be mended for their properties to hold under
read errors. `NoErrorsNoHalfAdds` (`~ IoErrors => (Spec => [][~
HalfAdded]_vars)`) shows that the premise is no premise where no read fails, and
`SoundWithoutReadErrors` draws the conclusion.

Four invariants, each made of the one before.

* `Good`: types and packed pointers. `TypeCorrect`: `Spec => [](TypeOK /\
  PointersPacked)`, with and without read errors. `TypeOK` alone is not
  inductive: that a new pointer stays in range needs `block_count` to be bounded
  and in step with the pointers. Each handler has a lemma (`CreateGood`, ...)
  resting on what `naive_add_entry` may return (`AddEntryOutcome`), on the release
  of an inode (`ReleasedType`) and on the arithmetic of the write (`ExtendType`).
* `Good /\ Owns`: a block has one owner, and an owned block is marked.
  `NoBlockIsShared`: `Spec /\ [][~ HalfAdded]_vars => [](NoSharedBlock /\
  OwnedBlocksMarked)`. The two are inductive only together: a block is handed
  out because it is not marked, so its mark must tell of its owner.
* `TreeFits`: `Good`, and dentries and objects fit (`NamesFit`), numbers are
  distinct and marked (`NumbersFit`), link counts are right (`LinksFit`).
  `LinksAndNumbers`: `Spec => [](LinkedInodeNumbers /\ DirLinkCount)`, with and
  without read errors. Seen from the names a handler does one of four things
  (`StepKeeps`, `StepForgets`, `StepAdds`, `StepRemoves`); each handler is put into
  its kind once, and the invariant survives the four kinds. The counts of
  subdirectories need the set of dentries to be finite, which is part of the
  invariant. With `AllSized`, that the blocks of a file reach its size:
  `FilesAreReadToTheEnd`: `Spec /\ [][~ Enlarges]_vars => []ReadsReachTheEnd`; the
  premise excludes the truncates that the code does not provide blocks for.
* `RecordsFit`: `TreeFits`, `Owns`, and the records of every linked directory
  are of live names, none twice (`LiveFit`), with dots that name it and its
  parent (`DotsFit`), and what has a link has a name (`Reached`). From `BlocksFit`
  (`TreeFits /\ Owns`): `FileDataStays` and `OnlyNamesChangeRecords`, the two
  action properties, while no block is half added. From `RecordsFit`:
  `RecordsAreOfNames` (`RecordsAreLive /\ DotEntries`), under the same condition and
  for names that fit their records (`NamesAreKept`); a name that is cut is never
  found again. That `naive_lookup` skips blocks it cannot read does no harm as
  long as the dentry is there: a name without a dentry has no record
  (`NameIsNew`).
  That a name has its record (`NamesRecorded`) needs room: `naive_add_entry`
  reports success when it hung the block nowhere. `NamesHaveRecords` therefore
  assumes `[]RoomLeft`, and so does `RecordsAreATree`:
  `Spec /\ [][~ HalfAdded]_vars /\ []RoomLeft => ImplementsNamespace`, the
  refinement: under the mapping of `NaiveFS`, each handler is one step of
  `Namespace` or none. Its proof shows what
  each of the four kinds does to `TreeDirs`, `TreeFiles` and `TreeEntry`.
  `SmallDirectoriesAreATree` removes the premise on room: with fewer
  names than a directory has records for (`NamesAreFew`), a pigeonhole argument
  over names and places (`FewNamesFit`) gives `RoomLeft`.

### Reclaim and remount: `NaiveStoreProofs`

`StoreIsSound`: `StoreSpec => [](TypeOK /\ PointersPacked /\ ReadBackIsPlain /\
RootNumberIsKept /\ ReferencesBalance)`, with and without read errors. Numbers do
collide after a remount, so `TreeFits` is of no use here; the invariant `SInv`
adds to `Good` what closes the circle through the device: only an inode that
`naive_iget` made is ever dirty, hence only plain ones reach the inode table, with
a pointer below each count (`TableFits`), hence what `naive_iget` reads is plain
and packed. The root's number stays its own because no record of a name holds
it (`NoRootRecord`): through one, `naive_lookup` would make a second object of
it. Each step changes an object in one of three ways (`Fine`), and `FineKeeps`
draws the conclusion once for all of them. `ReleasesAre` says which of the six
labels release what after a failure of the k-th call.

### Allocation under concurrent callers: `NaiveRaceProofs`

`OneLockIsEnough`: `OneParent => (Spec => [](NumbersDistinct /\ NumbersMarked /\
LockKeepsBlocks))`, for any number of processes, of which any may write, and any
width of a byte. The invariant follows the one call that holds the directory's
lock: which steps it goes through (`Control`), that its number is free until it
marks it, and that the byte it loaded is still the bitmap's when it stores it
(`Numbers`); the same of the block bitmap while no file was written
(`BlocksKept`). The premise is needed: see `two_parents`.

### The monolithic version: `NaiveMonoProofs`

`MonoIsSound`: `Spec => []` of the seven invariants of the run `mono`, through every
way the write loop may end. The properties speak of the buffers or of the
device; the invariant `Inv` speaks of both at once, since a mount makes the
device's state the buffers' again. Every disk inode, in a buffer and on the
device, is `Sound`; a pointer of either is the only one to its block among the
pointers of both, and its bit is set in the buffer (`Apart`), so that a block the
device still knows is not handed out again; a bit set in the buffer is set on
the device, since only clears go unmarked. `Kept` says that what write returned
is still there, `Numbered` that numbers are distinct until an unlink.

### naivefs-final and naivefs-complete

* `ListAndNames`: `Spec => [](TypeOK /\ ListConsistent /\ ListFollowsNames /\
  ExamplesStay)`. The list and the dentries are two records of the same names,
  compared by name only; the invariant says that both hold every name but the cut
  one at most once, so the entry the loop of `naive_unlink` finds is the
  dentry's own (`RemovedEntry`), as long as one device has the list to itself.
* `LinksAndNumbersOfComplete`: `FairSpec => [](TypeOK /\ RootLinkCount /\
  NumbersDistinct)`. The invariant keeps the entry of a call under way apart from
  the root's; while calls do not overlap, the one under way holds the counter's
  value and no entry has reached it (`Numbered`).

### Only model-checked

* `ListingEnds` and the fairness of the run `complete`: liveness needs `ENABLED`.
* The runs that find a violation (`dir_full`, `two_parents`, `readdir`, `mkfs`).

## 5. Properties and the code they watch

Each property is stated in a comment above its definition. For each there is a
mutant in `PROJECT.json`, a definition changed the way a slip in the code would
change it (a scan from the wrong bit, `=` for `|=`, a block count reset
without its pointers, an unlink that takes the wrong entry), under which TLC finds
the property violated.

## 6. Plan

1. The split naivefs (`NaiveAlloc`, `NaiveFS`, `Namespace`, `NaiveStore`,
   `NaiveAllocRace`, `NaiveBitmap`), then mkfs, naivefs-final and
   naivefs-complete: done, with the runs above.
2. The failing mounts of the split naivefs and what they hold (in `NaiveStore`),
   and the monolithic version (`NaiveMono`): done.
3. Concurrency beyond allocation: two handlers of one directory's blocks (a
   writer beside `naive_add_entry`), lookups beside creates.
4. Proofs of every safety property the runs check, the loops of `NaiveBitmap`
   included, and under failing reads for all but the half-added block: done.
5. Left: an abstract specification of the monolithic version's files (what was
   written is what is read) and its refinement; the ownership of blocks in
   `NaiveStore` between two mounts.

## 7. Not modelled

* **Parts of the monolithic naivefs no call reaches**: `naive_rmdir` (there is no
  mkdir operation), `naive_write_inode` (its inodes are not hashed),
  `naive_put_super` (not in `naive_sops`). Step 7 is step 8 without unlink, and
  `naive/naivefs-9-10/naivefs.c` is a copy of step 8. File bytes, the content of
  a block before its first write, and the VFS's copy of the size are left out.
* **Split naivefs of steps 9-10**: does not build (`naivefs_inode.o` and
  `naivefs_file.o` have no source there), and is an earlier text of the split
  naivefs.
* **Steps 3 to 6, `naivefs_simple`, myext2, `changeMN`**: registration, one
  superblock check, the library's handlers. Step 6 adds a create that takes
  numbers from a static counter, as naivefs-complete does.
* **References** inside a handler (`brelse` twice at `naive/naivefs_dir.c:37` and
  `:42`), and of dentries (`dget` without `dput` in naivefs-final and
  naivefs-complete).
* **Concurrent handlers of the monolithic version**: its `write` and allocator take
  no lock, so two writers can take one block (`naive/naivefs-8/naivefs.c:118`);
  `NaiveAllocRace` shows the same race of the split version.
* Scripts, build files and binary images.
