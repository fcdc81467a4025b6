# icix in TLA+

icix is a small 32-bit x86 kernel and a host-side tool that builds its initial
ram disk.  This directory models its parts in TLA+, checks them with TLC on
small instances, and proves what matters most with TLAPS.

    tlc -config ufs_grow.cfg MCUfs.tla      # a run; every cfg names its own
    tlapm UfsDataProofs.tla                 # the proofs of a module

Paths below are relative to the repository.

1. [The system](#1-the-system): components, state, operations, what is hard
2. [Modules and the code](#2-modules-and-the-code)
3. [Runs](#3-runs): what each asks, its bounds, and why they are enough
4. [Fairness and stopping](#4-fairness-and-stopping)
5. [Proofs](#5-proofs)
6. [Findings](#6-findings)
7. [What is only checked, and what is not modelled](#7-what-is-only-checked-and-what-is-not-modelled)
8. [Plan](#8-plan)

## 1. The system

### Components

| Component | State | Operations | Correct when |
|---|---|---|---|
| **ufs library** `fs/ufs.c` | in core: inode and data bitmap, inode table, a dirty bitmap for each; on the image: superblock, the two bitmaps, the table, blocks | `ufs_init`, `ufs_lookup`, `ufs_creat`, `ufs_write`, `ufs_read`, `ufs_unlink`, and `commit_dirty_to_disk` at the end of the three that change something | no update is lost, no block has two owners, directories are trees, files read back, a call that returned 0 is on the image |
| **mkfs** `fs/mkfs.c` | the image | computes a layout, writes superblock, bitmaps, root inode and root block | the regions do not overlap and ufs finds a root directory |
| **kernel file system** `kernel/kernel/filesystem.c` | as the ufs library, over a `disk_driver_t` | the same calls, plus `print_fs_contents` | the same, and every access stays within the disk |
| **initrd driver** `kernel/arch/i386/drivers/initrd.c` | the module's bytes in memory | `read`, `write`, `sync` | reads what was written, refuses what lies outside |
| **physical memory** `kernel/arch/i386/pmm.c` | `free_addr` | `kmalloc`, `malloc` | what is handed out is used once, and mapped |
| **paging** `kernel/arch/i386/vmm.c` | `frames[]`, page directory and tables | `init_paging`, `get_page`, `pfa_alloc`, `pfa_free` | a frame has one owner; the kernel stays mapped where it is |
| **segments** `kernel/arch/i386/gdt.c` | the GDT | `init_gdt` | flat: everything addressable |
| **interrupts** `kernel/arch/i386/isr.c`, `interrupt.S`, `pic.c`, `kernel/kernel/kernel.c` (timer) | IDT, `interrupt_handlers[]`, `tick`; outside: PICs, PIT | `init_idt`, `PIC_remap`, `PIC_disable`, `IRQ_set/clear_mask`, `PIC_sendEOI`, `interrupt_handler`, `init_timer`, `timer_callback` | no interrupt arrives where nobody handles it; the timer goes on ticking |
| **terminal** `kernel/arch/i386/tty.c` | cursor row and column, the 80 x 25 buffer | `terminal_initialize`, `terminal_putchar`, `terminal_clear`, `terminal_setcolor` | the screen shows what was printed |
| **printf and strings** `libc/stdio`, `libc/string` | none | `printf`, `__int_str`, `strcpy`, `strcat`, `strlen`, `mem*` | what C says |
| **boot** `boot.S`, `linker.ld`, `isodir/boot/grub/grub.cfg` | stack, sections | `_start` | `kernel_main` runs in protected mode |

`tmp.c`, `hi.c` and `test.c` are experiments no build links; `sysroot/` holds
installed copies of headers and libraries.

### How they interact

* **Host.**  `mkfs` makes an image and then calls the ufs library on it.  Each
  library call changes the in-core copies, writes directory and file blocks
  directly with `fwrite`, and leaves bitmaps and inodes to
  `commit_dirty_to_disk`, one bitmap word or one inode per write, inodes before
  the data bitmap.  The image file is all that survives the process.
* **Image.**  The kernel mounts whatever the tool's last call left, on a disk
  that refuses every write and the last bytes of the last block.
* **Boot.**  GRUB loads kernel and image.  `kernel_main` prints its progress,
  sets up GDT and IDT (which executes `sti`), takes `free_addr` from the end of
  the module, maps memory, remaps and masks the PICs, starts the timer, then
  mounts the file system on the initrd driver, prints it, and halts.
* **Shared state.**  Interrupt handlers run between any two instructions after
  `sti`.  They share terminal and PICs with `kernel_main`; those that stop the
  machine print first.  `kmalloc` moves `free_addr` beneath the loop of
  `init_paging` that runs up to it.

### What is hard

* Partial failure: `ufs_creat` has five places to return -1 after it changed
  something, `ufs_write` one, and what they leave dirty is committed by the next
  call that succeeds.
* Death of the tool between two writes, and a restart from the image.
* Stale memory: dirty bitmaps and most of `frames[]` come from memory nobody
  clears; inodes mkfs did not set hold stack bytes or zeroes.
* Long sequences of legal calls: `ufs_unlink`'s hole and its wrong bit,
  `pfa_free`'s wrong bit, `malloc`'s new page table all show much later.
* A loop whose bound moves: the identity mapping of `init_paging`.
* Interrupts before and during `PIC_remap`, requests latched behind a mask,
  spurious interrupts, end-of-interrupt.
* Handlers printing in the middle of another `terminal_putchar`.
* An image in the wrong hands: of a mkfs that died half way, or with an inode
  table that overflowed an `int`, or, in the kernel, with holes, with names that
  mislead, with pointers that wrap around to other memory.
* A recursion that follows names on a stack of 16 KiB.
* Boundaries: the last slot, the last block, the last byte of the module, the
  last frame, the last column and row.

`PROJECT.json` lists each of these hazards at its line, with the properties
that cover it or the reason why none does.

## 2. Modules and the code

| Module | Models | Extends |
|---|---|---|
| `Ufs` | `fs/ufs.c` on an image of `fs/mkfs.c` | |
| `FileSystem` | nothing: the abstract specification of a file system that grows | |
| `UfsTree` | the tree an image holds; the refinement `Ufs` to `FileSystem` | `Ufs`; instantiates `FileSystem` |
| `UfsProofs` | proofs about `Ufs`: types, what is durable, who owns a block | `Ufs` |
| `UfsDataProofs` | proofs about `Ufs`: directories, lookups, files, what survives | `UfsProofs` |
| `UfsTreeProofs` | proofs that the entries form a tree, what `LinksFrom` is, and that `Ufs` implements `FileSystem` | `UfsTree`, `UfsDataProofs` |
| `Mkfs` | `fs/mkfs.c` and what `ufs_init` accepts, then `Ufs` on it | `Ufs` |
| `MkfsProofs` | proofs about it, and about the file system it starts | `Mkfs`, `UfsDataProofs` |
| `Initrd` | `drivers/initrd.c` | |
| `KernelFs` | `kernel/filesystem.c`, `print_fs_contents` and `print_file` of `kernel.c` | `UfsTree`; instantiates `Initrd` |
| `KernelFsProofs` | proofs about it | `KernelFs`, `UfsTreeProofs` |
| `Paging` | `pmm.c`, `vmm.c` | |
| `PagingProofs` | proofs about it | `Paging` |
| `Interrupts` | `kernel_main`'s boot sequence, `isr.c`, `pic.c`, the timer, the limit of `gdt.c` | |
| `InterruptsProofs` | proofs about it | `Interrupts` |
| `Console` | `tty.c`, `printf.c`'s integers in all lengths, `strcpy.c`, `strcat.c`, `strlen.c` | |
| `ConsoleProofs` | proofs about its terminal and its numbers | `Console` |
| `MC*` | the values TLC uses | the module they check |

Operators keep the source's names where they translate one function.  Operators
called `Faulty...` stand before a definition they are a plausible mistake of; no
specification uses them.  They are there to show that each property tells the
code from the mistake.

### Ufs

Variables `inode_bp`, `data_bp`, `inodes`, `dirty_inode_bp`, `dirty_data_bp` are
`struct ufs`; `disk_*` and `blocks` are the image; `pc` and `frame` are the
running call and its locals; `last` is the last result of a call that changes
something (`ufs_lookup` and `ufs_read` that return leave nothing behind).  A
bitmap is the set of its set bits.

| Action | Code |
|---|---|
| `Lookup`, `Read` | `ufs_lookup`, `ufs_read`: they change nothing but may end the process |
| `CreatRefused`, `CreatFails`, `CreatAllocates` | `ufs_creat` up to the block of a new directory: refused before any change; inode taken and then -1; inode and block taken |
| `LinkFails`, `LinkInNewBlock`, `LinkInFreeEntry` | the entry in the parent |
| `WriteRefused`, `WriteBegin`, `WriteBlock`, `WriteFails`, `WriteEnd` | `ufs_write`, one `WriteBlock` per turn of its loop |
| `UnlinkRefused`, `Unlink` | `ufs_unlink` |
| `CommitInodeBit`, `CommitInode`, `CommitData`, `CommitDone` | `commit_dirty_to_disk`: one write each |
| `Restart` | the process ends (between calls, or anywhere) and `ufs_init` reads the image |

Decisions worth knowing:

* Data is cut into cells of `sizeof(dir_ent_t)` = 32 bytes; sizes and offsets
  count cells.  A cell is an entry, the bytes a client wrote at one offset of one
  file, or zeroes.  A file read as a directory, or the reverse, stays visible.
* `ufs_creat` has no `return` after its last statement.  The caller sees the
  register `fsync` left its 0 in, so 0 is what the model returns.
* The bitmap helpers shift by `31 - i` for any `i`; the x86 shift takes the count
  modulo 32, so each index has a bit of its own in its word, and which one it is
  does not matter here.
* `DirtyGarbage` and `StaleInodes` are what `malloc` and `mkfs` leave undefined.
* Bits that `ufs_unlink` clears past the bitmap fall into the slack of the
  `malloc`ed chunk: they change nothing.
* When `ufs_unlink` is called on a parent that is not a directory it uses
  `ufs_lookup`'s -4 as an inode number.  The process is then `"wild"`, as after a
  failed assertion or `exit(1)`, and only `Restart` goes on from there.
* `torn` becomes TRUE when the process dies inside a call.  The code orders its
  writes in no crash-safe way (inodes go before the data bitmap), so structural
  properties are stated for images that are not torn; `CommittedCellsStable` is
  what does hold of every write up to and including that death, and of none after it.

### FileSystem and UfsTree

`FileSystem` is what clients may rely on while nothing is unlinked, files are only
appended to, and the process ends between calls: a `tree` of links and file
contents that calls see, a tree `saved` that a restart returns to, at most one
write in progress, and whether the last answer was success.  `Create` links one
new node and is durable at once; `AppendPart` makes part of a write visible;
`Save` makes everything durable; `Succeed` is only allowed when it is; anything
else leaves the trees alone.

`UfsTree!FS` maps `Ufs` to it, by `TreeBar`, `SavedBar`, `WritingBar` and `OkBar`.
`tree` is read off the in-core inode table and the
blocks by walking from the root, `saved` off the image's, so directories that a
failed `creat` leaked are no part of either.  While `commit_dirty_to_disk` runs,
`saved` is already the new tree: it is not interrupted in these behaviours, so a
restart only ever sees the finished commit, and `Create` maps to its first step
and not to one of many.  `Implements` therefore says that the first write of a
commit is the point where a call takes effect, that failed calls are invisible
except for parts of a write, and that a write of the whole length returns 0 only
if everything that fits below the last direct block is there.

### Mkfs

One action for each write: `WriteSuper`, `ZeroBlock` (the loop that fills the
file), `WriteInodeBitmap`, `WriteDataBitmap`, `WriteTable`, `WriteRoot`.  `Start`
truncates the file, and only then looks at the arguments, as `mkfs.c:59` does.
`MkfsEnds` is a failing write or the death of the process; mkfs may be started
again after it.  `Layout` computes the regions with the `int` of
`total_inode_bytes`, at a width of `IntBlocks` blocks; `Target` is the block a
write goes to, and one at a negative offset fails.  `Mount` is `ufs_init` with the
checks that every read is of full length (`Accepted`; Linux reads at most
2^31 - 4096 bytes at once, so a table of 2^31 bytes is refused); afterwards
`Run` is `Ufs!Next`.

Only an image with the sizes of the instance is mounted, and nobody formats an
image that is finished or mounted; for other arguments the layout alone is checked.

### Initrd and KernelFs

`Initrd` has no variables: `initrd_lseek` and `initrd_read` take and return the
cursor.  Sums of addresses are modulo `Space`.

`KernelFs` runs `Ufs` on the host first.  `Boot` may come whenever the tool is
between calls or has ended in one; the kernel's in-core copy then takes the same
variables, for the tool is gone.

| Action | Code |
|---|---|
| `Boot` | `ufs_init` over the driver: superblock at the cursor of the bss, bitmaps, table |
| `PrintDirectory` | one call of `print_fs_contents` without those it makes of itself, which go to the front of `todo`; `print_file` for its files |
| `PrintDone` | back in `kernel_main` |
| `KLookup`, `KReadCall`, `KCreat`, `KWrite`, `KUnlink` | the calls; nothing in the kernel makes them yet |
| `KPanic` | `abort`: of a failed read or assertion, and of every write |

Where the tool exits at an unset pointer, the kernel computes an address below the
module and may read it: `Misreads` are the entries it may find there, and `strayed`
records that it did.  All that a call did before it panics in a write is lost with
the machine, so the model keeps only the panic.  `Offset` is the cell a read past the
last direct block leaves the caller with: the block it had before, at its end.
`depth` counts the nested calls of
`print_fs_contents`; past `StackDepth` the machine is in `"overflow"`.

### Paging

`frames`, `tables`, `ptes` are `frames[]`, the present tables and the present
entries, as pairs of page and frame.  `garbage` is what the part of `frames[]`
that `init_paging` does not clear happens to hold: the array has
`NFrames / WordBits` words but that many *bytes* are requested and cleared, so a
quarter of it is.  The array, the directory, and each page table come from
`free_addr`.

| Action | Code |
|---|---|
| `InitFrames` | the allocations at the start of `init_paging` |
| `MapPage` | one turn of its loop: `get_page`, `pfa_alloc` |
| `EnablePaging` | `cr3` and `cr0`; `"wild"` when what runs is not mapped to itself |
| `Malloc`, `MallocPage`, `MallocReturn` | `malloc` |
| `MallocTable` | `get_page` making a table while paging is on |
| `Free` | `pfa_free`, which passes a frame number where `clear_frame` wants an address |

The end of a boot module is page aligned: its start is (`boot.S:2`), and an image
is a whole number of 4096-byte blocks.  Access rights are left out: everything
runs in ring 0 with CR0.WP clear.

### Interrupts

`pc` walks through `Boot`, the sequence of hardware accesses and flag changes
`kernel_main` makes.  Between any two of them a device may raise its line and an
interrupt may be taken.  The PICs are hardware and marked external: a data-port
write is ICW2 to ICW4 or a mask depending on `stage`; ICW1 clears mask, requests
and lines in service; a chip requests nothing during its initialisation; a
request that is withdrawn after the processor saw it (`latched`) is answered with
IR7.  `interrupt_handler` is `HandlerOf`: registered, or `cli; hlt`.  `TimerEoi`
and `TimerCount` are `timer_callback`.  Whether the processor checks segment
limits, which QEMU's interpreter does not, is settled at the start (`checks`, out of
`ChecksLimits`).  NMIs are left out.

### Console

Strings are functions from 0, so that `strcpy`, which copies
`sizeof(src) + 1` = 5 bytes, carries along what stands behind a short string and
cuts a long one.  `__int_str` builds the digits over it, with the loop that counts them (`shifter`), from an argument that
`Held` has put through the types of `vprintf` and `int32_t`: `CharMod`, `ShortMod`,
`IntMod` are their widths.  The digits of INT_MIN come from before the array:
`Junk`.  `Standard` is what C prints, from the argument itself.  The terminal makes one
step per store (`PutEntry`, `NextColumn`, `NewLine`, `NextRow`, `Clear` for each
cell), and `Trap` may start a handler's message before each.  The optimised build
keeps the incremented row in a register until it is compared, so `terminal_row`
never holds `VGA_HEIGHT` in memory, and the model has no such state.

## 3. Runs

States are the distinct states of the complete search; a run that shows a
violation stops at its counterexample.

| Run | Question | Distinct states |
|---|---|---|
| `ufs_grow` | Is a file system that only grows sound, until inodes, blocks and slots run out? Does it implement `FileSystem`? | 79 176 |
| `ufs_crash` | What does a mkfs that may die leave, for any arguments, and what of it is mounted? Does any write of a call, up to the first death between two of them, change what was committed? | 1 100 862 |
| `kernel_fs` | What survives `unlink`, apart from its wrong bit? Does the kernel print what the tool left? Do all calls, and the printing, end? | 194 095 |
| `paging` | Do boot, `malloc` and `pfa_free` keep frames apart and the kernel mapped, whatever memory held? | 76 488 |
| `irq_boot` | When can an interrupt stop the boot, and which fault does the timer's demonstration end in? | 2 272 |
| `console` | Does the screen show what was printed, handlers' messages included, and which numbers are right? | 170 500 |
| `ufs_assert` | violation: the assertion of `ufs_lookup` | |
| `ufs_double_alloc` | violation: a free block is free | |
| `ufs_overwrite` | violation: `size` is in bytes of the file | |
| `paging_malloc` | violation: `malloc` works once paging is on | |
| `irq_early` | violation: the kernel gets to the timer's fault | |
| `console_numbers` | violation: only 4096 is printed wrong | |

### ufs_grow

The specification is `GrowSpec`, `Ufs` without `Unlinks`: `unlink` is `kernel_fs`'s.

4 inodes, 4 data blocks, 2 slots per inode, 2 cells per block, words of 2 bits,
three names of which one is too long, inode numbers one past either end, two
contents of inodes mkfs did not set, clean and half-set dirty bitmaps, restarts
between calls.  A directory overflows into its second block on its third entry,
and is full with four; four blocks run out under two directories and a file;
two bits per word let a word be written with a neighbour's change.  Every -1 of
`ufs_creat` and `ufs_write` is reached.

* `Coherent`: what is not dirty is on the image, in every state of every handler.
* `SuccessIsDurable`: after a 0, image and core are the same.
* `BlocksOwnedOnce`, `NoBlockLost`: owned blocks and set bits are the same, once.
* `SizeCountsEntries`, `TreeShape`, `LookupIsExact`: directories.
* `FileContents`: files read back what was appended, after cut-short writes too.
* `Implements`: `FileSystem`, see above.  Files stop growing at 5 cells, one more
  than two slots of two cells hold, so writes end at, cross, and begin at the end
  of the last direct block: a write of several cells that is cut there returns 0.
* `DeathNeedsLeak`: the process only dies after a `creat` failed half way.  (It
  does then: a leaked directory inode keeps a stale size, and a lookup in it reads
  at an unset pointer.  The comment at `ufs.c:309` says as much.)

Writes append (`AppendOnly`), because overwriting breaks `size`; that is the
question of `ufs_overwrite`.

### ufs_crash

mkfs with 0 to 40 inodes and 1, 3, 9 or 17 blocks, where an `int` holds the bytes of
16 inodes: the table is right up to 15, negative from 16 on, and from 32 on too
small again, as at 2^24 and 2^25 in the code.  A block holds 16 bits, so the
bitmaps take up to three blocks.  Death before, between and after all writes, of mkfs
and of the calls, on an image with 3 inodes and 3 blocks.

* `LayoutSound`: an image that `ufs_init` accepts has room for everything it says it
  has.  It is the refusal of long reads that saves the others, not mkfs: the mutant
  is the kernel's comparison of 32-bit products, with which an image whose table
  lies inside its data is accepted.
* `DotTells`: mkfs writes the superblock first, so images it did not finish are
  mounted, and calls on them succeed; but `ufs_lookup(0, ".")` is 0 on exactly
  those it finished, wherever clients of either died later.
* `CommittedCellsStable` is an action property: no step takes a cell below the
  committed size of a committed inode away or changes it, up to and including the
  step at which a process dies inside a commit.  After such a death nothing is
  claimed, and the promise would not hold: `commit_dirty_to_disk` writes the inodes
  before the data bitmap (`ufs.c:266`), so the image may hold an inode and a clear bit
  for its block; the process that is started next reads that bitmap, hands the block
  out again and overwrites what was committed.

### kernel_fs

The tool: 3 inodes, 4 blocks, with `unlink`, and `DataStart` 4, so that the addresses
`ufs_unlink` clears are not bits of the bitmap and the consequences of
`ufs_double_alloc` do not hide everything else.  Unlinked blocks are then lost, which
is what the code does.  `SizeCountsEntries`, `TreeShape`, `FileContents` hold, and
`CallsReturn` is checked here, where handlers meet the most shapes of directories.

The kernel: two names, of which one begins with a d, so files are called like
directories and the reverse; a stack for 4 nested calls, where no tree of
3 inodes is deeper than 3, as mkfs's default of 32 inodes is no depth for 16 KiB and
frames of about a hundred bytes (an image of hundreds of directories, each in the one
before, is outside this assumption);
other memory that looks like an unused entry, a directory called d, or a file, with
the root's inode.

* `PrintedIsTree`: when the kernel halts, the screen has had the tree of the image,
  each file with its contents.  This needs an image that is `Orderly`: names tell
  directories from files, and no directory has a hole.  Otherwise at most
  entries that are there.
* `PrintingPanics`: only the last 32 bytes of the module, which the driver never
  reads (`initrd.c:34` compares with `>=`), or other memory.
* `KernelAgrees`: the two copies of `ufs_lookup` give one answer, except where the
  tool exits.
* `KernelSeesImage`: calls that return have not changed the tree in core.
* `BootEnds`: the recursion ends before the stack.

### paging

Pages of 32 bytes, 24 frames, tables of 8 pages, words of 4 bits: three tables
cover memory, six of 24 bits are cleared, and the directory takes three pages, as
8196 bytes do in the kernel.  Modules end at any page from 1 to 20, so that boot
takes one, two or three tables, just fits, or aborts; garbage is any subset of
four bits that lie in words not cleared, before and behind the first table's end.
Requests are of a byte, a page, a page and a byte, and more than two pages.

* `FramesOwned`: until something is freed, mapped frames are marked and not shared.
* `KernelMapped`: if memory was zero, all that was handed out, page tables
  included, is mapped to itself whenever paging is on and `malloc` is not running.
* `SharedOnlyFrameZero`: with `pfa_free`, whatever goes wrong goes wrong in frame 0,
  for the wrong bit is always that one while there are no more frames than bytes
  in a page.  The kernel has 4096 of each.
* `BootReachesPaging`: the loop over a moving end terminates.

Without `garbage = {}`, `KernelMapped` does not hold: a bit set by chance shifts
the mapping of all later pages, and a kernel region that reaches past the part
that was cleared (the first 4 MB) runs on other memory as soon as paging is on,
`pc = "wild"`.  Nothing in the repository states that it would not, so it is
recorded as a hazard and not as a finding.

### irq_boot

Timer, keyboard and a device on the slave raise their lines at any time, any
number of times, and before boot; three masks of the BIOS; spurious requests;
a processor that checks limits and one that does not.  The demonstration comes after 3
ticks in place of 250: the first, one in the middle and the last.

* `HangsOnlyWhileOpen`: an unhandled interrupt stops the machine between `sti` and
  the end of `PIC_disable` and never afterwards, except for the one the timer
  provokes: 14, or 13 on a processor that finds 0xFFFFFFFF past the segment limit,
  which `gdt.c:19` sets to 0xFFFF pages.
* `PicsConfigured`: what the eleven writes of `PIC_remap` and the masks add up to.
* `NothingInService`: interrupts are ended, and at the right chip.
* `TimerFaults`: a kernel that has come up ticks until the read of `timer_callback`
  faults.  Where limits are not checked that is the page fault which `kernel.c:112`
  announces.  Where they are, the announcement is wrong: the fault is a general
  protection fault, vector 13 has no handler, and the kernel hangs.  The property
  says which of the two each processor gets, so that with a limit of
  0xFFFFFFFF in `gdt.c:19` its second half would be violated.

### console

4 columns and 3 rows; texts that fill a row to its end and texts with newlines;
number directives with every flag and every length, at values whose digits lie on
both sides of 4, and values that do not fit a char of 4, a short of 8 or an int of
14 bits; two pieces printed, which fill and clear the screen; a fatal interrupt at
every point.

* `ScreenIsPage`: the screen is the text since the last clear, laid out in lines
  by a reference that does not know of rows and columns moving.
* `MessageShown`: the message of a handler is complete wherever it broke in,
  unless it reached the end of the last row itself and cleared the screen.
* `NumbersRight`: the directives of which `Reliable` holds come out as C defines
  them: digits up to 4, padding up to 5 on the left and no zeros where they meet a
  sign or the right margin, values below the sign bit of the type printed, any
  length but `hh`, which is not understood at all.

### Why CHECK_DEADLOCK is FALSE

Each of these systems may stop: clients of ufs need not call again, and at the
bounds they cannot; a dead process that may not be restarted stays dead; the
kernel halts, panics or hangs by design, and `malloc` aborts.

### Bounds

`MaxFileSize` (Ufs), `MaxAddr` (Paging), `MaxPrints` (Console) and `TickLimit`
(Interrupts) bound what would grow for ever; the first three stand in a guard with
the comment `bound`, as do the two of `Mkfs` named above.  `Space`, `IntBlocks`,
`BitsPerBlock`, `IntMod` and their like are sizes of the machine, scaled down.
`NameSymmetry` permutes names and is used only where no liveness property
is checked; the one action property beside it, `CommittedCellsStable`, is about single
steps and treats all names alike.

## 4. Fairness and stopping

* `Ufs`: weak fairness of `Handler`, the steps of a call that is running.  The tool
  is one thread; it goes on unless it dies.  Calls and restarts are not fair.
* `KernelFs`: weak fairness of the tool's `Handler` while the tool runs, and of
  `Printing`, which the kernel does without waiting for anything.
* `Mkfs`: none.
* `Paging`: weak fairness of `Step`, what runs on the boot processor inside
  `init_paging` and `malloc`.  Callers need not call.
* `Interrupts`: weak fairness of the processor's own steps, of taking an interrupt
  it may take, and of the PIT raising line 0, which runs since the BIOS started it.
  Other devices are not fair.
* `Console`: none.

## 5. Proofs

The theorems hold for every value of the constants that satisfies the named
assumptions of the modules.  `tlapm` checks every leaf.

**UfsProofs**

* `TypeCorrect`: `Spec => []TypeOK`.  It carries more than types: `direct[]`
  never holds anything but a data block, the superblock's 0 from a stale inode,
  or -1, and every index in use is in range.
* `CoherentAlways`, `SuccessDurable`: from the inductive invariant `DurableInv` =
  `TypeOK /\ Coherent /\ SuccessIsDurable /\ WriterMarked`.  `Coherent` alone is
  not inductive: `WriteBlock` changes an inode without marking it, which is right
  only because `WriteBegin` has (`WriterMarked`).  `SuccessIsDurable` follows
  from `Coherent` when both dirty bitmaps are empty, which is when `CommitDone`
  is enabled; no step of a failing call returns 0.
* `BlocksNeverShared`, `ASSUME "unlink" \notin Ops`: from `OwnedInv`.  It adds that
  ownership holds of the image too except while it is being committed, which a
  restart needs, and that the block `ufs_creat` chose for the parent before it
  took its own stays free until it is linked, which the second allocation needs.

**UfsDataProofs**, all `ASSUME "unlink" \notin Ops`, from one inductive
invariant, `DataInv` = `OwnedInv /\ DataOK`.  `DataOK` says of each allocated inode
what `InodeOK` says: a directory's first `size` cells are entries of inodes, no name
twice, and the other cells of its blocks are free; an append-only file's cells below
`size` hold the bytes written there; slots are set from the front, exactly as far as
`size` reaches.  The exception is an inode a failed `creat` leaked, which has a stale
`size` and, if a directory, no block.  It is needed because the properties are not inductive one by
one: that `LinkInFreeEntry` writes the cell number `size`, so that lookups find the
entry and the count is right, follows only from the shape of all blocks of the
parent, which the call's own earlier steps must not have disturbed (`LinkState`).
The same is said of the image outside `commit_dirty_to_disk`
(`ImageOK`), for a restart returns to it, and that the in-core inode
only ever extends the committed one (`Extends`), for blocks are written before the
inode that covers them.

* `BlocksNeverLost` (`NoBlockLost`), `SizesCount` (`SizeCountsEntries`),
  `LookupsFind` (`LookupIsExact`): from `CoreOK`; the second by a bijection between
  the entries and `0 .. size - 1`.
* `FilesReadBack` (`FileContents`) and `DeathsNeedLeaks` (`DeathNeedsLeak`), which
  assume `AppendOnly` besides.
* `CommittedStays`: `[][...]_vars` of `CommittedCellsStable`.  Every step that writes a
  block writes a free cell of a directory, a cell past the end of a file, or a block
  nobody owns on the image.  It assumes `AppendOnly` as well.

The hypotheses are what the code forces.  With `unlink` the wrong bit is cleared
and a block gets two owners (`ufs_double_alloc`); overwriting moves `size` past
the blocks (`ufs_overwrite`).

`durable` is the history variable of these statements: the allocated inodes whose
table entry has been written to the image.  An inode whose bitmap word a neighbour's
commit has written, but whose entry has not been, is not among them.

**UfsTreeProofs**: `EntriesFormTree` (`TreeShape`), `ASSUME "unlink" \notin Ops`, from
`LinksInv` = `DataInv /\ LinksOK`.  `LinksOK` speaks of the places of entries, an inode, a
slot and a cell, and says `Tree(ib, tab, b, linked)` in core and, outside
`commit_dirty_to_disk`, of the image: the links of the directories among `ib` lead one to
one to the inodes `linked`, and a directory's second entry leads back to where its link is.
Three things `TreeShape` leaves out make it inductive: that the image has a tree of its
own, for a restart returns to it; that between its allocation and its link the new
inode is one without a link (`Unlinked`) whose `..` already names the parent (`NewOK`);
and that this inode is not on the image, so that leaking it takes nothing from the
image's tree.  `TreeKept` is for every step without a new link, and `TreeGrows` for the two
that write one, of which `LinkedAt` in `UfsDataProofs` says all that is needed.

`LinksFrom`, the tree that the properties of `UfsTree` and `KernelFs` are about, follows
links from the root as often as there are inodes.  `LinksFromIs` says what that
gives: the links of the directories in the least set that has the root and is closed
under links.  Two states with the same root block and the same links have the same tree.

`GrowsAsFileSystem` (`GrowSpec => Implements`) assumes no `unlink`, `AppendOnly`, and that the
process does not die inside a call.  With a death between two writes of a commit it
would be false: the restart would find a tree that is neither the old nor the new one.
The inductive invariant is `GrowInv` = `LinksInv /\ ~torn /\ BareNew`; `BareNew` says
that what `ufs_creat` has allocated and not yet linked has no links in it, or size
0, although the inode may be one an earlier file used or mkfs never set.  Without it
`Create` would link something that is not empty.  The argument has three layers.

* What a tree is: `Stored`, the `View` of the least set of directories closed under
  links (`Reached`).  There is one such view at most (`StoredOnce`), and it depends on
  the part of the state that is reached only (`StoredSame`).  `ShowsTrees` says that
  `TreeBar` and `SavedBar` are such views, and follows from `LinksInv` (`AlwaysShowsTrees`).
* What a change of the state does to it: nothing (`ViewKept`), one cell at the end of a
  file (`ViewAppends`), one link to an inode without links (`ViewGrows`).
* One lemma for each kind of step: `Creating`, `Linking` and `LinkingFails` for `ufs_creat`,
  `Appending`, `Writing`, `WritingFails` and `WritingEnds` for `ufs_write`, `CommittingTrees`
  for the steps of `commit_dirty_to_disk`, `Replying`, `Resting`, `Restarting`.
  `Linking` is where `FileSystem` moves: the link is made in core, and, as `SavedBar` has
  it, on the image; the many writes that follow are stutters, and the last of them,
  `CommitDone`, is `Succeed`.  A link in a directory that a failed call leaked is not
  seen, and the step is a `Save`.

**MkfsProofs**

* `AcceptedIsSound` (`LayoutSound`), for all numbers of inodes and blocks and all widths:
  the image that the length checks of `ufs_init` accept has a table below half the
  range of the `int`, where `InodeBytes` is the identity (`BytesFit`), and
  the file is as long as the layout because the loop of zeroes was through before
  the first bitmap was written (`MkfsInv`).
* `CommittedStaysFromMkfs`: `CommittedCellsStable` for the composed specification.
  `FormatInv` follows the writes of mkfs up to the image on which `Init` of `Ufs` holds;
  from then on `DataInv`.
* `DotTellsAlways` (`DotTells`): an image mkfs did not finish never gets a `.` in the
  root.  Before mkfs is through with the root's inode the root is free, and
  nothing a client can call allocates inode 0 with a block; after it, only the root
  block's own write makes the entry.  It assumes, besides no `unlink`,
  `StaleSparesRoot`, that inodes mkfs did not set do not point at the root's block.
  That is no formality: the inodes of an unfinished image are blank, their pointers
  are 0, and unlinking such an inode would clear bit 0 and hand out the
  root's block.

**InterruptsProofs**

From `IrqInv` = `TypeOK /\ PicsFollow /\ HandlersFollow /\ CpuFollows`, for all sets of
devices, BIOS masks, and numbers of ticks.  None of the properties is inductive: what the
PICs' masks, vectors and initialisation stage are at a step of `Boot` is the sum of the
writes before it, so the invariant states it for every `pc`, along with which
handlers are registered, whether interrupts may be taken, and what may be in service.

* `TypeCorrect`; `HangsOnlyInWindow` (`HangsOnlyWhileOpen`), with the window from `sti` to
  the end of `PIC_disable`; `ComesUpConfigured` (`PicsConfigured`);
  `NothingLeftInService` (`NothingInService`).

**ConsoleProofs**

From `ConsoleInv` = `TypeOK /\ Pending /\ PageShows /\ MessageShows`, for screens of every
width and height, all texts and all directives.  The last two say one thing,
`Displays(t, n, m)`, of two texts: of `t` the first `n` characters are done with,
`rest` is what follows, the cursor is where character `n + 1` goes or, between the
stores of `terminal_putchar`, on its way there, and the letters behind the
first `m` are in their places.  For `kernel_main` the text is `page \o rest`; for a
handler it is `mark \o call.text`, where `mark` leads to wherever the cursor
was when the handler broke in.

* `TypeCorrect`: cursor and clearing stay on the screen.
* `PageOnScreen` (`ScreenIsPage`) and `MessageStands` (`MessageShown`).  The lemmas they
  rest on are about the reference layout: `NextPlace`, what one more character adds to
  rows and columns; `PlacesGrow`, no two characters have one place, which is why a
  store never covers a letter that is shown; `SameBeginning`, a place depends on
  what comes before it only.
* `NumbersShown` (`NumbersRight`), for every size of a pointer, width of the integer types
  and set of directives.  As an invariant it needs only that what is displayed came out
  of `vprintf` for some directive (`Numbers`); the work is `NumberIsRight`, about one directive.
  `ArgumentArrives`: a value below the sign bit gets through the conversions of `vprintf`
  and `int32_t` unchanged.  `DigitsAre`: the loop of `__int_str` that counts digits ends
  after at most 11, each of which is below the base; that is what an `int` of at most 32
  bits gives, which `ConsoleAssumption` states.  `DigitCopied`: of each digit `strcpy`
  copies what C would print if it is no more than the size of a pointer.  The buffers are
  then treated as the texts they hold (`String`), with `Appended`, `Catenated` and `Copied`
  for `strcpy` and `strcat`; `SamePadding` and `SameOrder` compare sign, zeros, prefix and
  padding with C's order.  `DirectivesAssumption` says what a caller may pass: a width
  that leaves room for the NUL, and no negative number as an unsigned argument.

**KernelFsProofs**

* `OnlyLastCellPanics` (`PrintingPanics`), without hypotheses: clients may unlink and
  overwrite, and the tool may die anywhere.  `KernelInv` says that in core there is
  what is on the image and inodes without blocks that failed calls leaked.  `TypeOK`
  of the tool, which keeps `direct[]` on the image in the data region or at -1, then
  gives the addresses (`BlockInImage`, `Wraps`): the one below the module can be
  read, and of those in it only the last cannot (`OnlyLastCell`).
* `LookupsAgree` (`KernelAgrees`), `ASSUME "unlink" \notin Ops` and
  `CrashPoints # "any"`: from `ImageInv`, which carries `LinksInv` of the tool, of which the
  kernel keeps what concerns the image (`GoodImage`).  A directory is then packed
  and its cells are entries (`EntrySeen`), or it has no block at all.
* `KernelKeepsTree` (`KernelSeesImage`), with the same hypotheses.  What a failing call
  leaks has no link on the image, so nothing that is followed from the root has
  changed (`SameTree`, by `LinksFromIs`).
* `TreeIsPrinted` (`PrintedIsTree`), `ASSUME AppendOnly` besides.  `PrintInv` has two parts.
  `Loose`: unless the kernel strayed, what is left in `todo` are inodes that links of the tree
  lead to, and what was printed are links of the tree.  It is inductive because a
  regular file that is followed as a directory either is empty or is noticed at its first
  cell, which is a byte and no entry.  `Tight`, in an orderly image: there is a set of
  directories that have been printed whole and that lead only to one another and
  to what is left (`Progress`).  When nothing is left that set is closed, and
  `DirsNamedD` is the least closed one (`DirsNamedDAre`).  `EntriesAreAll`
  is where a directory's shape (`DirOK`) meets the loop of `print_fs_contents`, `FileSeen`
  where a file's does.

**PagingProofs**

* `TypeCorrect`: no index past the end of `frames[]`; the -1 of `first_frame`
  never gets into a page table.
* `FramesNeverShared`: `Exclusive` is inductive until `freed`, with boot starting
  without pages.
* `MemoryStaysMapped`: from `DenseInv`.  The loops extend a dense prefix,
  `ptes = {<<p, p>> : p \in 0 .. n - 1}`, by one, because the first clear frame
  is always the next page; `Reached` says how long the prefix is at each `pc`.  The
  arithmetic of rounding up to pages is in `PageCount`, `PageCountGrows` and
  `PageCountExact`.
* `DamageConfined`, `ASSUME NFrames <= PageSize`: a frame number divided by the
  page size is 0, so only bit 0 is ever cleared; every mapped frame is marked or
  is frame 0.

**Induction.**  The library's theorems about it take a predicate, which the installed
provers cannot instantiate, but not those about sets.  `MinNat`, on which the
searches for a first clear bit rest, comes from the well-foundedness of `<` on the naturals: a
non-empty set of naturals has a least element.  What holds of all numbers up
to `n` is then proved as the lack of a least counterexample (`UpTo`), and that a
function defined by recursion up to `n` exists and is unique the same way
(`IterationExists`, `IterationIs`).  `FixedPoint` is about a chain of subsets
of a set of `n` members, `F[k + 1] = Step(F[k])`, that grows by what a set of pairs
leads to: after `n` steps it no longer does.

Out of the prover's reach, and left to TLC: liveness (`CallsReturn`,
`BootEnds`, `BootReachesPaging`, `TimerFaults`), which needs ENABLED of the fair actions.
Every invariant and action property of a passing run, and the refinement, is stated by
a theorem, under the hypotheses given above.

## 6. Findings

| Run | What it shows |
|---|---|
| `ufs_assert` | `creat a`, `creat b`, `unlink a`, and any lookup past `a`'s place fails `assert(dir_ent.inum != -1)` (`fs/ufs.c:241`, `571`; the kernel has the same code) |
| `ufs_double_alloc` | `ufs_unlink` clears the bit of the block's address instead of its index (`fs/ufs.c:537`); with mkfs's layout another block's bit is cleared and the block is handed out twice |
| `ufs_overwrite` | writing over existing bytes grows `size` (`fs/ufs.c:481`), documented as the file's bytes (`fs/ufs.h:13`) |
| `paging_malloc` | a new page table is cleared through an address nothing maps (`vmm.c:126`): `malloc` faults when it crosses into one |
| `irq_early` | `sti` at `isr.c:42` comes before `PIC_remap`: a tick arrives at vector 8 and hangs the machine before the promise of `kernel.c:112` |
| `console_numbers` | the README's "weird bug" is not limited to 4096: `strcpy` copies five bytes, so every digit above 4 ends a number |

One more disagreement is stated by a passing property and has no run of its own.
The data segment's limit of 0xFFFF pages ends at 256 MB (`gdt.c:19`), so on a processor
that checks limits the timer's read at 0xFFFFFFFF is not the page fault that
`kernel.c:112` announces but a general protection fault that hangs the kernel: the
second half of `TimerFaults`, in `irq_boot`.

## 7. What is only checked, and what is not modelled

Only model-checked: what holds of the structure of a file system whose clients
unlink (`SizeCountsEntries`, `TreeShape`, `FileContents`, `KernelAgrees`, `KernelSeesImage`
and `PrintedIsTree` in `kernel_fs`), for the theorems about these assume no `unlink`; and
liveness.

Not modelled:

* Failing `fread`, `fwrite` and `fsync` of the ufs library: the tool exits on a short
  count, which is a process death at that write, covered by `Restart`; partial
  writes of one call to `fwrite` are not.
* Two processes on one image: nothing in the code expects it.
* What happens on a torn image beyond `DotTells`, and after `"wild"`
  (`fs/ufs.c:526`): the code promises nothing.
* A kernel that mounts an image of an unfinished mkfs: `kernel_fs` starts from
  finished ones.
* `malloc` aborting while the kernel prints, for lack of memory; that is in `Paging`.
* The output of `print_superblock` and of a `DEBUG` build; the drawing of the layout
  and `getopt` in `mkfs`.
* printf's parsing of formats, precision, `%n`, floating point; nothing in the kernel
  uses them.
* `terminal_setcolor`, `IRQ_set_mask`, `PIC_get_irr`, `PIC_get_isr`, `test_frame`,
  `initrd_init`: no caller.
* `boot.S`, `linker.ld`, `gdt_flush.S`, `paging.S`, `abort`, `assert`, `memcmp`,
  `strcmp`, `memmove`: straight-line code or loops without state; their effect is
  in the callers' models.
* Build scripts, `sysroot/`, `tmp.c`, `hi.c`, `test.c`.

## 8. Plan

Done: all modules of section 2, with the proofs of section 5.

What remains to be proved is the structure of a file system with `unlink`.  There
`DataInv` does not hold: an unlinked entry leaves a hole, blocks get lost, and with the
layout of mkfs a block gets two owners.  A proof would need an assumption on the layout
that makes the bits `ufs_unlink` clears harmless, as `DataStart` does in `kernel_fs`, and an
invariant in which directories have holes.
