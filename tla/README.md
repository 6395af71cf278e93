# A TLA+ model of rpos

rpos is a small operating system for the Raspberry Pi 4: a kernel in C and
AArch64 assembly with processes, a scheduler, system calls, a buddy and a slab
allocator, virtual memory with copy-on-write, a keyboard, a sleep timer, an
ext4 reader and a few user programs. This directory models the parts of the
kernel that are hard to test on a host, checks them with TLC on small
instances and proves the most important properties with TLAPS for every value
of the constants.

`PROJECT.json` lists the components, the runs, the line ranges each definition
stands for, the hazards, the findings and the theorems. Line numbers are those
of the sources under `src/`.

## 1. The system

| component | state | operations | who it talks to |
|---|---|---|---|
| scheduler, process life cycle (`system/scheduler.c`, `process.c`, `contextswitch.S`, `entry.S`) | PCBs, run queue, `current`, kernel stacks, the interrupt mask | `scheduler`, `deschedule`, `reschedule`, `add_to_schedule`, `reap`, `context_switch`, `check_and_reap`, `idle`, exception entry and return | every system call and interrupt |
| blocking system calls (`system/syscalls.c`) | `waiting_on`, `children`, the point where a process blocks | fork, waitid, exit, nanosleep, read | scheduler, keyboard, timer |
| interrupts (`system/irq.c`) | — | IRQ 30 (quantum), 27 (virtual timer), 125 (UART) | scheduler, timer, keyboard |
| sleep timer (`utils/timer.c`, `pq.c`) | the queue of sleepers, the armed timer | `timer_nanosleep`, `handle_virtual_timer` | scheduler |
| keyboard pipe (`drivers/kbd.c`, `filedescriptors.c`, `wait.c`) | ring occupancy, wait queue | `pipe_read`, `handle_keyboard_event`, `wake_listeners` | scheduler |
| linked lists (`utils/datastructures.h`) | `next`, `prev` | `list_add`, `list_remove`, `list_empty` | all of the above |
| buddy allocator (`memory/paging.c`) | the page frame array, a free list per order | `buddy_alloc`, `_split_down`, `buddy_free`, `coalesce_up`, `set_page_owner`, `head_from_page` | kmalloc, kernel stacks, page tables, faults |
| slab allocator (`memory/kmalloc.c`) | caches of slabs: bitmap, count, list | `kmalloc`, `kfree` | buddy allocator; every kernel object |
| address spaces (`paging.c`, `mmap.c`, `userfault.c`) | page tables, reference counts, the copy-on-write bit | `clone_virtual_memory`, `reap_virtual_memory`, `handle_el0_fault`, `map`, `update_mapping` | fork, exit, exec |
| VMAs (`syscalls.c`, `process.c`) | the VMA list, `heap_vma`, `brk` | mmap, brk | faults, fork |
| mutex, spinlock, atomics (`synchronization/`) | owner, wait lock, wait list | `mutex_acquire`, `mutex_release` | scheduler, sleep timer |
| descriptors, open, exec (`process.c`, `filedescriptors.c`, `filesystem.c`, `elf.c`) | `fds[]`, file objects, inode objects | open, execve, ioctl, `readelf` | file system, device trie, address spaces |
| device trie (`trie.c`) | the trie's nodes | `trie_add`, `trie_get` | open |
| ext4 reader (`disk.c`, `filesystem.c`) | the open file's inode and position | `open`, `read`, `seek`, `lookup` | exec, open; eMMC driver |
| eMMC driver (`emmc.c`, `emmc_clock.c`) | `device`: address, capacity, last error, block size | `emmc_init`, `emmc_read`, with retries and timeouts | the card |
| console (`kprintf.c`, `cli.c`, `mini_uart.c`, the user library's `printf.c`) | decoder state, colours, cursor, the panel, the program's buffer | `kprintf`, `print_glyph`, `buf_putc`, SYS_WRITE | every part that logs |
| boot (`highhalf.c`, `mmap.c`, `linker.ld`) | the kernel's page tables | `map_high`, `map` | allocators, kernel stacks |
| framebuffer, GPIO, mailbox, PCIe, memory profiler, user programs | registers | — | — |

What is hard here:

* **Interrupts against the idle process.** Kernel code runs with IRQs masked
  from the exception entry on, except `idle()`, which enables them and then
  calls `scheduler()`. Every access to the run queue in that call can be
  interleaved with an interrupt that calls `scheduler()` itself and switches
  away. A process that the idle process switches to goes on with its mask: the
  rest of its system call runs with IRQs enabled.
* **Wakeups.** Four places link a process into the run queue (`fork`, `reap`,
  `wake_listeners`, `handle_virtual_timer`), none asks whether it is linked
  already, and `waiting_on` is never reset and is inherited.
* **Freeing the stack one stands on.** A terminated process's kernel stack is
  freed by the process that runs next.
* **Overloaded metadata.** The field `order` of a page frame is the order of
  the block in a head page and the number of the head page in a tail page;
  `coalesce_up` compares it without asking which, and finds buddies by XOR
  although the first blocks are laid from an unaligned page.
* **Limits.** Full ring, full sleep queue, full descriptor table, no page left,
  a bitmap of more than 64 bits, 15 tables for the boot mapping.
* **A card that fails.** Commands time out, are answered with errors or not at
  all; the driver retries with what earlier attempts left in `device`.
* **Pointers that fork copies.** `heap_vma` and the descriptors of a child are
  those of its parent; the VMAs are not.

The hazards in `PROJECT.json` give the line where each of these bites and the
properties that would catch it.

## 2. Modules

| module | models | proofs |
|---|---|---|
| `LinkedList` | the lists as two functions `next`, `prev`; the pointer assignments in their order, so misuse corrupts the model as it corrupts the kernel | `LinkedList_proofs` (lemmas) |
| `Scheduler` | scheduler, process life cycle, blocking calls, interrupts, idle process | `Scheduler_proofs` |
| `PageAllocator` | abstract: what a page allocator promises | — |
| `BuddyAllocator` | `paging.c`, the page allocator | `BuddyAllocator_proofs` |
| `SlabAllocator` | `kmalloc.c` over what `PageAllocator` promises | `SlabAllocator_proofs` |
| `PrivateMemory` | abstract: what address spaces promise to programs | — |
| `AddressSpace` | page tables, reference counts, copy-on-write, faults, exec, exit, mmap | `AddressSpace_proofs` |
| `ProcessTables` | VMA lists, `mmap`, `brk`, `heap_vma`, descriptors, open, execve, ioctl | `Services_proofs` |
| `Mutex` | `mutex.c` with its spinlock, as `sys_test_mutex` uses it | `Mutex_proofs` |
| `SleepQueue` | the heap of `pq.c` and the timer above it, with deadlines and a clock | `Mutex_proofs` |
| `KeyRing` | the bytes of the keyboard ring, with wrapping counters | `Services_proofs` |
| `Console` | escape sequences, colours, the panel, the programs' buffered printf | — (folds over texts) |
| `Trie` | the trie of device paths | `Services_proofs` |
| `Ext4Reader` | path resolution, reads, seeks | `Services_proofs` |
| `BootMapping` | the kernel's page tables, `map_high` and `map` | `Services_proofs` |
| `Emmc` | the SD card driver, against a card and a controller that fail | `Emmc_proofs` |
| `MCAddressSpace` | constants for TLC | — |
| `MCStorage` | `BuddyAllocator`, `SlabAllocator` and `Emmc`, in one run | — |
| `MCServices` | the eight components from `ProcessTables` to `BootMapping`, in one run | — |

Definitions that begin a comment with "Mutant" are faulty variants of the
definition that follows them. They are used by no specification; putting one
in the place of its original must break the property named with it in
`PROJECT.json`.

### Scheduler

*State.* `state`, `waiting_on`, `parent` are the PCB fields; `rq` is the run
queue through `pcb->runqueue`; `current`, `masked` are the processor; `at` is
where a thread goes on when it is switched in and `nest` the number of
interrupt frames above that point; `kstack` says whether the kernel stack is
allocated; `avail`, `rdWait` are the keyboard pipe; `sleeping`, `items`,
`armed` the sleep timer; `newproc` the local variable of the idle process's
call of `scheduler()`. `wedged` is set when the kernel switches to a stack
that is not there or takes the list head for a PCB; nothing happens after it.

*Actions.* A system call or an interrupt handler is one action up to the
context switch it ends with: IRQs are masked, and there is one core. What the
process does when it is switched in again is an action of its own (`Resume...`,
`Eret`). The mask is not saved by `context_switch`: a process that an interrupt
handler switched to starts with IRQs masked, one that the idle process switched
to with IRQs enabled. The idle process's `scheduler()` is cut at every access
to shared state (`IdleTest`, `IdlePick`, `IdleRemove`, `IdleReady`,
`IdleSwitch`), and `Tick`, `Key` and `VirtualTimer` may fall between any two.
Two cuts are left out: inside `list_add`/`list_remove`, and inside
`pre_context_switch`.

*Inputs.* `Workload` is the set of calls that the programs use, `Readers` the
processes that read the keyboard, and the programs take any path through them.
`IdlePid` stands for the uninitialised `idle_proc->pid`. PCBs are not reused
(`kfree` is never called on one), so `Procs` bounds the number of forks.
`MaxNest` bounds the interrupt frames on one kernel stack.

*Abstracted.* The address space, VMAs and descriptors (`AddressSpace`,
`ProcessTables`); the priorities of sleepers, of which any may be the next one
to wake (`SleepQueue` has the deadlines); the bytes of the keyboard (`KeyRing`).

### BuddyAllocator and PageAllocator

*State.* `order`, `flags`, `owner`, `list` are the fields of the page frames;
the list heads are nodes with numbers above the pages. `step`, `level`, `arg`
are the running function and its arguments.

*Actions.* One per call of a recursive function and one per turn of the layout
loop. `Alloc(o)` takes all orders up to one too large; `Free(p)` takes every
page, so double frees and frees of tail pages are among the behaviours.
`SetPageOwner` is only called on a block in use, as `_slab_alloc` does.

`PageAllocator` has two variables: the order of the block in use at each page,
and the order asked for by the call that is running. `NoDoubleVend` says that
`BuddyAllocator` implements it, with `Owned` and `Want` as the mapping: layout,
splitting and coalescing are stuttering steps.

### SlabAllocator

*State.* Per block: its owner, class, bitmap (as the set of bits that are
set), count; the lists of the caches. `live` (the objects that callers hold)
and `nulls` (the classes that returned NULL) are history. One action is one
call of `kmalloc` or `kfree`. The bits above `Zeroed` of a new slab hold what
the page held: the model takes any set. `kfree` is called by the holder, or
again by a former holder while nobody else has the object.

### AddressSpace and PrivateMemory

*State.* `state` is where a process is in its life; `table` the frame of its
page tables and `pt` their leaf entries (frame, access permissions, the
copy-on-write bit); `vma` the permissions of the VMA that holds a page;
`allocated` and `refcount` the page frames; `data` what is in a frame. `fault`
is the access that a process repeats when its fault returns. `halted` becomes
`"crash"` after `halt()` and `"hang"` after an abort in EL1, which
`sync_invalid_el1h` never leaves; nothing happens after either.

*Actions.* A fault or a system call is one action, as if IRQs were masked
throughout: the idle process switches to a process in the middle of a call only
when that call has blocked, and of these only the read behind `CopyToUser` does,
whose copy touches the caller's own pages. Between two of them any process may
run, so the model covers every order in which the scheduler can interleave the users of a shared page.
`CowFault`, `VmaFault` and `GenuineFault` are the branches of
`handle_el0_fault`; `Access` is a user instruction that the MMU allows.
`Fork`, `Exit`, `Exec`, `Mmap` are the memory side of the system calls, and
`CopyToUser` is a system call that writes into a user's buffer.
`buddy_alloc` is used as `PageAllocator` describes it and returns NULL when
no frame is left; `check_vma` then maps the physical address of NULL
(`NullFrame`), the other callers write through NULL (`Hang`).

*`FrameArrayMapped`.* `handle_el0_fault` reads a reference count through
`pa_to_va(page_frame_array_start())`, although the symbol is a virtual address
already; the sum wraps to an address that `map_high` does not map. `FALSE` is
the kernel of this commit, and the run `cow_hang` shows what follows. The
other runs set it to `TRUE`, as if that one line read the array where the rest
of `paging.c` does, so that the logic behind it is examined as well.

*Abstracted.* All tables of a process are one frame; a VMA is a page with
permissions, and VMAs do not overlap; execute permission, the TLB (flushed on
every change of a user entry), 2 MiB blocks and the kernel's own mappings are
left out.

`PrivateMemory` has the contents of every page of every process, the processes
that exist, and those with an access that is not completed. `MemoryIsPrivate`
says that `AddressSpace` implements it: sharing and copying change nothing
that a program can see.

### ProcessTables

*State.* VMAs, files and inode objects have identities, because fork copies the
VMAs and shares the files. `heap` is `heap_vma`, which is the word in front of
`fds`: an index of -1 into the table is `heap_vma`. `own` is history: the
descriptors that a process got from open, not from fork.

*Actions.* One per system call, since IRQs are masked: `Fork`, `Mmap`, `Brk`,
`OpenDevice`, `OpenDisk`, `OpenMissing`, `Execve`, `Ioctl`, and `UseDisk`, a
call through the missing operations of a disk file, which is an abort in EL1
(`hung`). Arguments that make a call return an error without a change are
stuttering. A page has two addresses in the run, so that regions can begin and
end inside one.

### Mutex

*State.* The mutex (`owner`, `waitLock`, `waiters`), where each process is
(`pc`, `frames`), the run queue, the sleepers and the interrupt mask. `raced`
and `woken` are history: an interrupt was taken inside the call, and the waiter
that was woken last. `junk` says that the memory of the mutex, which
`buddy_alloc` does not clear and `sys_test_mutex` does not initialise, held
something where the wait lock lies.

*Actions.* One per access to shared state of `mutex_acquire` and
`mutex_release`; `Quantum` and `Alarm` are the interrupts, taken wherever IRQs
are enabled. That includes the calls themselves, when the idle process has
switched to the caller. Run queue and wait list are sequences used as stacks:
their links are the subject of `LinkedList` and `Scheduler`.

### SleepQueue

*State.* `nodes` is the array of `pq.c`, with the one node behind it that a
store can reach; `items` the count; `alarm` the comparator while the timer is
enabled; `now` the counter. `calls` is the stack of the calls under way: where
each is (`op`), the node it adds, the index of its loop, and whether it left
interrupts enabled. `asleep` and `intruded` are history.

*Actions.* `timer_nanosleep` is a step for each access to the queue
(`Nanosleep`, `TestFull`, `StoreNode`, `Count`, `Swim` for each turn, `Peek`,
`Prime`); `HandleVirtualTimer` pops and `Sink` is a turn of the loop, at whose
end the handler primes or clears the timer. `sys_nanosleep` and the handler run
masked. `sys_test_mutex` may have been switched to by the idle process in
`mutex_acquire` and then calls `timer_nanosleep` with IRQs enabled: between any
two of its steps the handler, or the `sys_nanosleep` of a process that the
quantum switches to, comes in and runs to its end. A second `sys_test_mutex`
does not come in, as the mutex is held.

An intrusion is harmless before the node is stored and between the end of
`_pq_swim` and `pq_peek`: `AlarmIsEarliest` shows it. `intruded` is set where the
interrupted call is not prepared: after the store and before `items++` (the next
request overwrites the node), inside `_pq_swim` (`idx` stands for another node
afterwards), after `pq_peek` (the timer is primed for a deadline that has been
served or is no longer the earliest), when the queue was filled behind the test
of `items` (the node is stored behind the array), and when it was emptied before
`pq_peek` (a stale root is primed). Each of these breaks the property when it is
taken out of `Unprepared` or of the two other conditions. After the first one
the model ends the calls under way and follows no new ones.

The clock may advance only where an interrupt could be taken; the masked code
does not read it again, so a tick inside it is the same as one behind it.

### KeyRing, Trie

Algorithms on data. In `Trie` a step is one turn of a loop, so
that an invariant can say what a loop has established; a call starts when none
is under way. `Trie` has the nodes with
`next` and `down`: `SearchLevel` goes along a level, `AddDescend` and `GetDown`
go down, `AddFinish` sets a value or inserts the rest of a key; it is checked
against the sequence of additions. `KeyRing` has one action per call: the head
and tail counters, which start at the address of the buffer and wrap, and the
cuts to 32 bits of `pipe_read`.

### Console

Characters are strings; two digits, two colours and one conversion stand for
all. The decoder of `kprintf.c` and that of the user library are one operator,
`Decoded`. `Log` is a kernel message, `UserPutc` a character that a program
prints: it passes the program's decoder and buffer, and what the buffer
flushes is a format string for `kprintf` (`uart_write`). `Meaning` reads a whole
text from its start and is the reference for both.

### Ext4Reader

The disk is a constant of the run: inodes in two groups, a directory with a hole
and unused entries, a file with a hole and an indirect block. `Open`, `Read` and
`Seek` start the calls; a step is one name of the path or one block of the file,
from `i_block` or from the table. `ReadInode` goes by the computed sector and offset, so an
error of the arithmetic finds another inode or none.

### BootMapping

`Placed` is what the linker script fixes of the sections; their sizes are
inputs. `MapRegion` is one call of `map_high`, in its order, and `Map` a call of
`map` after boot. `BootPage` is the page where the kernel is loaded: 128 in the
linker script (`PHYS_BASE = 0x80000`), inside the first chunk, so that the boot
code, the first pages of `.text` and the pages in front of the kernel share it.
`damage` holds the words of RAM that were written as if they were page table
entries. They are recorded and not applied to memory: `KernelMapped` says that
they all lie in the RAM that the page allocator hands out, and not in the
kernel's sections or in the tables of early boot. What such a page held at the
time, a slab or a user's page, is not followed.
`map` leaves an entry that is valid as it is, so its flags are ignored for a page
that is mapped already; that is in the model (`EnterPages`) and no property is
about it.

### Emmc

*State.* `stage` is the call of `emmc_card_reset` (or the read) that is under
way, `wait` what the driver waits for; `dev` and `v2` are what it knows, `tries`
its counters. `hw`, `intFlags`, `resp` and `bus` are the controller, `card` the
card; both are external, modelled from what the driver expects of them.

*Actions.* The driver's steps (`ResetHost`, `Issue`, `Collect`,
`Refuse`, `ResetCommandFails`, `Drain`, `Finish`, `SwitchClock`, `Read`)
alternate with the hardware's (`Answer`, `DataReady`, `TransferDone`, `PowerUp`,
`Inhibit`, `Release`). A fault is a lost, corrupt or late answer, bad content, a
dead controller, or one that keeps CMD_INHIBIT or DAT_INHIBIT set when
`switch_clock_rate` waits for it; `FaultBudget` bounds their number, and any
place may have one. `Refuse` is the refusal of a transfer of more than
`MaxBlocks` blocks, which is no fault and is retried like one.

## 3. Runs

| run | instance | shows |
|---|---|---|
| `scheduler_safety` | 4 processes, 1 reader, ring of 2, no nanosleep; 111 396 states | the run queue, the kernel stacks, stale `waiting_on`, wakers and idle invariants |
| `scheduler_sleep` | 2 processes, both readers, nanosleep, 2 sleepers, 2 nested interrupts; 279 419 states | timer and sleep queue agree; waitid and read never return early, whatever the races do |
| `scheduler_live` | 2 processes, fairness | READY processes run; waitid returns |
| `storage` | three components, each by itself, fairness; 233 082 states | see below |
| `address_space` | 3 processes, 2 pages, 5 frames, all calls; 119 935 states | exact reference counts, private page tables, shared pages are copy-on-write, refinement of `PrivateMemory` |
| `address_space_live` | 2 processes, 2 pages, 6 frames, fork, exit and read-only mmap, fairness; 634 872 states | a faulting access that copy-on-write or a VMA can resolve is completed |
| `services` | eight components, each by itself; 2 364 224 states | see below |
| `round_robin`, `ready_only`, `kernel_masked`, `read_only_fault`, `cow_hang` | small instances | the disagreements below |

`storage` and `services` are runs for components that share no state: the initial
state chooses one of them and the others stand still, so the states are the sum
of those of the parts.

| part | instance | properties |
|---|---|---|
| `pages` | 16 pages, 9 reserved (unaligned), orders 0–4 | `PageFramesExact`, `FullyCoalesced`, `ExhaustionExact`, `NoDoubleVend`, `AllocatorCallsReturn` |
| `objects` | 3 blocks, one class of 2 objects (zeroed) and one of 3 (partly zeroed) | `SlabsExact`, `KmallocServes` |
| `card` | 3 kinds of cards, 3 attempts, 3 tries of a read, 3 faults, transfers of up to 2 blocks | `DriverAgrees`, `ReadAnswersTruly`, `CleanResetFailsOnlyStale`, `DriverReturns` |
| `tables` | 2 processes, 4 descriptors, 5 VMAs, 5 files | `HeapOverwrittenOnlyWhenFull`, `OpensAreSeparate`, `VmasKept` |
| `mutex` | 3 processes, 2 interrupt frames each | `MutexExclusion`, `WaiterIsRemembered`, `HandedOver` |
| `sleep` | 5 requests for 4 slots, deadlines 0 to 3, masked and interruptible calls | `AlarmIsEarliest` |
| `ring` | ring of 4, counters modulo 16, 10 keys | `KeysInOrder` |
| `log`, `printf` | a panel of 2 by 2, texts of 7 characters; a buffer of 3, 5 characters | `ConsoleShows` |
| `trie` | 15 keys of up to 3 characters, 3 additions | `DevicesResolve` |
| `disk` | 4 inodes, all paths of up to 6 characters | `PathsResolve`, `ReadsAreTheFile` |
| `boot` | chunks of 4 pages, 64 pages, the kernel from page 1 on, all sizes of the sections | `KernelMapped` |

A property may be a conjunction of named parts that make one claim together:
`PageFramesExact` (types, `Tiling`, `FreeListsExact`, `HeadOfAllocated`),
`SlabsExact` (types, `SlabCountsExact`, `CacheListsExact`), `SharingExact` (types,
`RefcountExact`, `TablesPrivate`, `SharedIsCow`), `DriverAgrees` (types,
`ReadyAgrees`), `ConsoleShows` (`ColoursAsWritten`, `CursorAtEndOfText`,
`PrintedIsShown`) and `KernelMapped` (`SegmentsMapped`, the number of tables, no
writes into the kernel).

Bounds. Four processes give a waiting parent, a running child, a READY sibling
and a grandchild with an inherited `waiting_on` at once. A ring of two has
empty, partly full and full states. With 16 pages and a base of 9 the first
layout has blocks of three orders at unaligned pages, and XOR partners in and
out of the reserved prefix. A class of two and one of three objects pass through
empty, partial and full, and three blocks let both classes have slabs while a
third is freed, reused and exhausted. Three processes share one page, so its
count goes through 3, 2 and 1 in every order of writes and exits. Five frames
are three tables, the shared page and one copy of it, or tables with text and
stack of their own: every caller of `buddy_alloc` also finds none left. `address_space_live` has a frame for every page and every table; a process that
writes to a mapped page of a read-only VMA uses up the rest of them for ever, so
its property is about accesses that can be resolved (`Resolvable`) and ends when
no frame is left: `check_vma` would map the address of NULL. The VMAs of mmap are
read-only in this run, and those of the program writable; `read_only_fault` has
the accesses that are left out.
Symmetry permutes the frames (`address_space`), which are only compared for
equality; no liveness is checked there.

In the part `card` three faults are enough for a read to fail in all of its
tries, for every attempt of a reset to fail, and for a retried reset to go on
with the address of the first. Two blocks are the most a transfer may have, so
that a read of three is refused. In `services`, four
descriptors let one open fill the table and the next overwrite `heap_vma`; three
processes are a holder, a waiter and one that comes between; five requests
overflow the queue and four fill three levels of the heap, two of the requests
being open at once when one is interruptible; ten keys wrap the
ring and its counters; seven characters overflow the parameter buffer and
scroll; keys of three characters have prefixes, siblings before and after; the
disk has an inode in each group, at offset 0 and behind it.

Deadlock is checked except where the system may really stop:
`scheduler_sleep`, `ready_only` and `kernel_masked` (the races of the idle
process can leave the kernel on a stale stack, and the only process may exit),
the address-space runs (`halt()`, aborts in EL1, the end of the last process),
`storage` (`panic()`, and the kernel stops when the card cannot be reset) and
`services` (each part ends at its bounds).

Fairness. `FairSpec` of `Scheduler` assumes that kernel code goes on
(`Resume`, `IdleStep`) and that the quantum ends (`Tick`): every path through
`scheduler()` primes the physical timer before it returns or switches. Nothing
is assumed of user programs or of the keyboard. `Fairness` of
`BuddyAllocator` assumes that a function that is running goes on. `FairSpec`
of `AddressSpace` assumes that a process whose access faulted repeats it: the
exception returns to the same instruction, and `EveryReadyProcessRuns` covers
the scheduler for two processes, the number in that run. `EmmcFairness`
assumes that the driver's polling loops go on and that the controller reacts to
what it was asked or has gone quiet. It does not assume that a card finishes its
power-up or that a controller lets go of its inhibit bits: `DriverReturns` says
that `emmc_init` returns or stays for ever in the poll for exactly that. Nobody
has to read, and no fault is bound to happen. `StorageSpec` has the two of them,
each for the part that runs.

### Disagreements found

Each is a run that TLC must find violated; `findings` quotes the text that the
code disagrees with.

| run | what happens |
|---|---|
| `round_robin` | `scheduler()` takes the node inserted last, not the tail as its comment says. The run queue is a stack; with three busy processes one never runs. |
| `ready_only` | an interrupt in the idle process's `scheduler()` makes it go on with a stale process; a process that is RUNNING stays on the run queue. |
| `kernel_masked` | a sleeper that the timer makes READY is switched in by the idle process and finishes its system call with IRQs enabled: no instruction masks them on entry, and `context_switch` does not keep the mask. |
| `read_only_fault` | `check_vma` does not compare the access with the permissions: a write to a mapped page of a read-only VMA takes a page, changes no entry and faults again, for ever. |
| `cow_hang` | the page frame array is read at an address that is not mapped; the first write after a fork stops the kernel. |

Seen while modelling and part of the models, without a run of their own:

* With IRQs enabled in `sys_test_mutex`, the timer's handler or another request
  can come into `timer_nanosleep` where it is not prepared for it: a sleeper is
  lost from the heap, a node is stored behind the array, or the timer is armed
  for a deadline that has passed, with an interrupt for an empty queue to follow,
  which `reschedule`s NULL (`intruded`, `timer.c:93`, `pq.c:17`).
* `idle_proc->pid` is never set; unless the memory held 0, the idle process is
  linked into the run queue (`IdlePid`, `scheduler.c:72`).
* The largest block of the first layout can be lost although everything is
  freed: the layout is not aligned and buddies are found by XOR
  (`paging.c:92`).
* A system call that writes to a user page which is lazy or copy-on-write aborts
  in EL1, although the address is in a VMA (`CopyToUser`).
* The first writer of a shared page gets a private copy that is still
  read-only; it faults again and copies the copy (`CowFault`,
  `userfault.c:123`). `FaultingAccessCompletes` shows that it ends there.
* `readelf` rounds the pages of a segment down to a power of two, and the copy
  runs past them (`MappedPages`, `elf.c:74`). A header that is not PT_LOAD is
  read again for the rest of the loop (`Loaded`, `elf.c:63`).
* A page that was read-only before a fork is writable once it was copied
  (`CowFault`, `userfault.c:128`; a comment there says so).
* `reap()` frees the page tables that TTBR0 points at and runs on until the
  context switch; nothing allocates in between (`scheduler.c:220`).
* `pipe_read` links its wait entry only when the wait queue is empty, so a
  second reader blocks without one (`ReadLoop`, `filedescriptors.c:36`).
* `kmalloc` zeroes 8 of the 16 bytes of a slab's bitmap. The 32-byte class has
  126 objects: slots are lost, and `kmalloc` can return NULL while the slab
  stays on the partial list (`SlabAlloc`, `kmalloc.c:86`).
* With a full descriptor table open overwrites `heap_vma` with a file
  (`Install`, `syscalls.c:233`); execve keeps `heap_vma` and the VMAs of the old
  program (`Execve`); after fork a child's brk moves the end of its parent's
  heap (`Brk`).
* open frees the inode that its file points at, so the next open reuses it, and
  leaks it when the path does not resolve (`DiskFile`, `OpenMissing`,
  `filesystem.c:59`). `close` would free it again.
* read, write and ioctl of a disk file call through NULL (`UseDisk`), and
  `/dev/fb0` opens the value 1 as a file (`OpenDevice`).
* When an interrupt is taken inside `mutex_acquire` or `mutex_release`, a wakeup
  can be lost, the wait lock can be held by a process that is not running, and
  an entry can stay linked after its stack frame is gone. This needs a caller
  that the idle process switched to. The wait lock is never initialised
  (`Enter`, `mutex.c:34`). Exclusion holds all the same.
* A tab near the end of a line leaves the cursor behind it, and the glyphs that
  follow are drawn into the next line or outside of the frame (`PrintGlyph`,
  `cli.c:76`).
* What a program prints is a format for `kprintf`: percent signs are lost or
  take arguments that were not passed (`KprintfChars`, `filedescriptors.c:116`).
  Colours that a program prints never reach the panel: its own decoder drops
  them.
* `trie_get` does not compare the last character of a key, and returns the first
  node of the last level (`GetDown`, `trie.c:128`): `/dev/i2d` opens `/dev/i2c`.
* A read that crosses from the direct to the indirect blocks returns the table
  itself (`ReadDirect`, `filesystem.c:117`), and one in the indirect blocks ends
  at the first block with a number of 128 or more (`filesystem.c:159`).
* `.data` is mapped only where it shares a page with `.bss`
  (`SegmentsMapped`, `highhalf.c:211`). `map` of a page in a 2 MiB block writes an
  entry into the first page of the block (`damage`, `mmap.c:195`), and `map` of a
  page that is mapped ignores the flags it is called with.
* A reset of the card that is retried after the relative address was published
  sends CMD55 with the old address and fails in `check_ocr`
  (`CleanResetFailsOnlyStale`, `emmc.c:155`). A card of high capacity whose
  answer to CMD8 was lost is polled for ever, as is a card that never becomes
  ready (`DriverReturns`, `emmc.c:264`) and a controller that does not let go of
  its inhibit bits (`emmc_clock.c:67`). After a
  transfer of several blocks was cut off, every later read may fail, as no stop
  command is sent (`ReadAnswersTruly`).

## 4. Proofs

All theorems hold for every value of the constants that satisfies the
assumptions in the modules (`SchedulerConstants`, `BuddyConstants`,
`SlabConstants`, `AddressSpaceConstants`, `MutexAssumption`,
`ProcessTablesAssumption`, `KeyRingAssumption`, `BootAssumption`,
`SleepQueueAssumption`, `Ext4Assumption`, `DiskAssumption`, `TrieAssumption`,
`EmmcAssumption`), which TLC evaluates in the runs. They say of which kind a
constant is (sizes are natural numbers, sets of processes, pages, frames and
blocks are finite, a special value is not a member of the set it is told apart
from) and what the code fixes: the reserved prefix has more pages than there
are orders; the ring's size divides 2^32 and 2^64 and is smaller than both; the
RAM is a whole number of 2 MiB blocks; programs have at least two pages; sectors
and inodes fill blocks, `i_block` has three entries behind the direct ones; no
device path is empty. `DiskAssumption` is the format: the tables of the inodes
do not overlap, a name is in a directory once and has an inode, and an indirect
block is a table of numbers.
TLC finds no violation of the inductive invariants on the instances of the runs.

**Linked lists.** `ListAddRing`, `ListRemoveRing`, `ListAddAnchored`,
`ListRemoveAnchored` and the label lemmas say what an insertion or removal does
to well-formed rings: it keeps them, links or unlinks one node, and moves no
other node to another list. `Anchored` says, without induction over paths, that
a linked node is on the ring of a list head: a set of nodes that is closed
under `next` and holds no list head has no linked node. `ReachIsLinked`
derives from it what a walk along `next` visits (`ListReach`, the least closed
set): all the linked nodes, when there is one list head.

**Scheduler.** Three theorems hold for every workload, with nanosleep and all
races of the idle process. `TypeCorrect` needs `AllocInv`: only allocated
processes are queued, waited for, woken or current, so that the idle process's
stale pointer is at least a process. `BlockingCallsAreComplete` is a theorem
about steps: the only ones in which waitid and read return test their condition
themselves. `TimerIsArmed` needs `SleepInv`: `items` is the number of entries
in the sleep queue, as the cardinality of a set of pairs, so that the last entry
that is popped disarms the timer and a full queue drops what it cannot hold.

The other theorems assume that the programs do not use nanosleep and that
`IdlePid = 0`; without the first, the run `ready_only` refutes
them, without the second the idle process can be queued. Without nanosleep nothing
becomes READY while the idle process runs except through a handler that
switches to it at once, so the unsafe part of the idle process's `scheduler()`
is never reached. The inductive invariant `IInv` is the conjunction of

* `QueueInv`: rings, anchored; linked iff READY, the idle process never;
* `CurrentInv`: exactly the current thread is RUNNING, and it is the idle
  process only when the queue is empty;
* `StackInv`: a stack exactly for living processes, no use of a freed one;
* `LabelInv`: the label of a thread fits its state and mask, and the idle
  process's label is in the part of the loop that does not touch the queue;
* `WaitInv`: `waiting_on` names a child of the process while it waits, and a
  terminated process otherwise;
* `ReadInv`: a process blocked in a read has the entry on the wait queue, and
  the ring is empty.

`RunQueueCorrect`, `QueueIsReachable` (with `ReachIsLinked`), `KernelStackCorrect`, `StaleWaitIsHarmless`,
`IdleIsLast` and `NobodyBlockedForGood` (this one for a single
reader) follow.

**Buddy allocator.** `BInv` is TypeOK with

* `TileInv`: the heads and orders tile the managed pages, as a predicate of the
  field `order` and the set of heads alone, so that one lemma each says what
  laying, splitting and merging do to a tiling (`TileLay`, `TileSplit`,
  `TileMerge`);
* `ListInv`: rings, anchored at the list heads, linked exactly the heads of
  free blocks, every node on the list of its label;
* `FlagsInv`: heads carry only the head flag, tails of allocated blocks the
  tail flag;
* `StepInv`: what the running function relies on — the list that
  `_split_down` looks at is not empty, the page of `coalesce_up` is the head of
  a free block, the rest of the layout loop is smaller than two blocks;
* reserved pages stay reserved, which keeps merges out of the prefix.

The heart is `CoalesceFacts`: when the two values of `order` agree and both
pages are free, both pages are heads. A free tail would hold the number of a
managed page in that field, and a managed page number is larger than any order
because the prefix has more pages than there are orders (`BuddyConstants`).
`PageFramesCorrect` (with its parts `BlocksTile`, `FreeListsCorrect` and
`AllocatedPagesResolve`), `ExhaustionIsExact` and the refinement
`ImplementsPageAllocator` follow.

`FreesCoalesce` (`FullyCoalesced`) adds `CoInv`, which says what is coalesced
while a function runs: the layout makes blocks of different orders; a split
works on one block, and no free block has one of the orders it goes through; a
merge has only the block in its hands left to compare. Its lemmas are
`BuddyOfBuddy` (the XOR partner's partner) and one effect of each step on the
set of free heads (`Lays`, `Splits`, `Vends`, `Merges`).

**Slab allocator.** `SInv` has, for every block that is a slab (`SlabOK`): the
set bits are slots of its class, every object that a caller holds has its bit,
the count is the number of those objects, and where the whole bitmap is zeroed
the bits are exactly those objects. With it go the rings of the caches, every
slab on the list of its count. `SlabsCorrect` and `KmallocAlwaysServes` follow:
a slab on the partial list has a count below its total, hence a clear bit.

**Address spaces.** `AInv` is `SharingExact` with three parts that it needs: a
process that is not in use holds no table and no page, only a page in memory is
marked copy-on-write, and only a process with a program has an access to
repeat. The reference count of a frame is the number of pairs of process and
page that use it, so fork, a copy, exit and execve are arithmetic on finite
sets (`UsersIn`). `SharingCorrect` says this for any number of processes, and
`ImplementsPrivateMemory` is the refinement, step by step: the copy that a
fault makes leaves `Contents` as it was, a write changes one page of one process
because a writable frame has one user.

**Mutex.** `MutexExcludes` says that two processes never hold the mutex
together, for any number of processes and wherever interrupts fall. It is not
inductive as it stands: `owner` names the last contender, not the holder. The
invariant `ExclusionInv` adds the labels of `pc` and that the mutex is not free
while somebody holds it (`HeldIsMarked`); the only step that makes it free is `Store`, and the process that takes it was the
only holder.

What waiters can rely on holds only while no interrupt falls into the calls,
and the wait lock's memory was 0. `QuietInv` says `CalmInv` under that
condition: the run queue and the wait list have no entry twice and hold the
processes that their states say, one process at a time is between its failed
attempt and its sleep, the wait lock is free at every switch, and while a
process is blocked somebody holds the mutex or is on the way to it.
`WaitersAreRemembered` and `ReleaseHandsOver` follow.

**Process tables.** `HeapIsKept` (`HeapOverwrittenOnlyWhenFull`) rests on
`TableInv`, which adds the types of `heap` and `fds`: entries are never cleared,
so a table that was full stays full, fork copies table and `heap_vma` together,
and -1 is what `fd_alloc` returns for a full table only (`FdAllocFree`,
`InstallKeeps`). `OpensNeverShare` (`OpensAreSeparate`) rests on `FilesInv`: a
descriptor in use names a file object that was made, those from open are set,
and a process that was not forked yet has none; a new file object is then
different from all that are in use.

`VmasAreKept` rests on `VmaInv`: the lists and `heap_vma` name VMAs that were
filled in, so a fresh VMA is in nobody's list and fork's copies are new ones
(`CopiesAreFresh`, `ForkIsCopy`); every step lets filled VMAs only grow.

**Keyboard ring.** `KeysStayInOrder` (`KeysInOrder`) rests on `RingInv`: head
and tail are the numbers of keys stored and delivered, offset by the buffer's
address and wrapped, and the keys between them are in the ring at their indexes.
Three facts about remainders carry it, each proved from the uniqueness of
division: the difference of wrapped counters (`WrapDifference`), the index of a
wrapped counter when the ring's size divides the word (`WrapIndex`), and that
two counters less than the ring's size apart have different indexes
(`IndexesDiffer`), so that a stored key overwrites no unread one. The two copies
of `pipe_read` are `FirstCopy` and `SecondCopy`.

**Kernel page tables.** `KernelIsMapped` (`KernelMapped`) is about the eight
calls of `map_high` and any calls of `map` after it, for every first page
(`BootPage`, so also one inside the first chunk) and all sizes of the sections.
`MapInv` has a function from pages to the
permissions they were given so far (`LaidUpTo`), and `Laid` says that the tables
give exactly those: a chunk is empty, a block of one permission, or a table with
its own pages. One lemma each says what `map_l3_range` and `map_l2_range` do to
it (`LayPages`, `LayBlocks`). The count of tables is the cardinality of the
chunks that are tables, which are among the few where a region begins or ends.
`map` enters a page in the table that has it, leaves a valid entry alone, or
writes into a block that stays a block. It is called for pages of the allocator,
and the block of such a page holds only such pages, as a chunk that the kernel
shares is a table: what it writes lies in free RAM (`PageInChunk` and
`DivisionUnique` tell the entries of different pages apart).

**Sleep queue.** `EarliestIsArmed` (`AlarmIsEarliest`) rests on `SleepInv`,
which holds until the first intrusion: the heap holds the sleepers, none twice,
and the stack of calls is in order (`StackIs`). The call that runs (`Working`)
has the heap ordered, except, while a loop runs, at the one place where the loop
stands (`SwimOrder`, `SinkOrder`), whose children are behind its parent
(`ChildrenBehind`): without that an exchange would not restore the order. A call
below it (`Below`, `Interrupted`) was interrupted before it stored its node or behind
its loop, so it relies on nothing that the intruder changes; its node is not in
the heap yet (`Fresh`). The timer is not later than needed only when no call is
under way (`SettledAlarm`), but it is never armed before the earliest deadline
(`Due`), which is why an interrupt inside a call takes a sleeper that is due.
That the root is the least entry of an ordered heap needs no induction: among the
entries with the least deadline the one with the least index has a parent that is
not later (`HasLeast`).

**Disk.** `ReadsReturnTheFile` (`ReadsAreTheFile`) rests on `ReadInv`: what was
read so far is the file from the position at the call on, the position has moved
by that much, and the loop stands at the block of the position, as an index of
`i_block` or as an entry of the table. `OpenFindsThePath` (`PathsResolve`) rests
on `PathInv`: `open` is at the inode that the names so far lead to. The
reference, `Route`, is a recursive function over the positions of the path; the
proof uses that it changes only where a name ends, by the least position where
it does (`RouteFlat`), and that the computed sector and offset of an inode are
those of no other (`ReadInode`).

**Trie.** `DevicesAreFound` (`DevicesResolve`) rests on `TrieInv`. The nodes do
not hold what they stand for, so the invariant says that there is a function
`before` from nodes to the characters above their level: every pointer leads to
the first node of its level, or to the first behind the node (`FirstFrom`); no
level has a character twice; the nodes are the beginnings of the stored keys, all
of them and no other, with the value of the key that was added last or 0. A
search is behind all smaller characters of its level (`Searching`). When it ends
without a match, no stored key begins like the key (`NoKeyAlike`), so the chain
that is inserted joins levels that had nothing below (`InsertedIs`,
`SortedInserted`, `ShapeInserted`). An answer is the value of the first node of
the key's last level, which is the key's own node when no other key is in it.

**eMMC driver.** `EInv` is TypeOK with four parts: the phase of the bus fits
the driver's step (`PhaseInv`); the card's state and address fit what the reset
sequence has done so far (`CardInv`); the buffer holds the sectors that arrived,
in order, and the card is at the next one (`DataInv`); a command that is lost
had a fault, or is one of the few that a healthy card does not answer
(`FaultInv`). `DriverCorrect`, `ReadsAnswerTruly` and `CleanResetIsStale`
follow. `ReadsAnswerTruly` is stated for a first sector that the 32-bit argument
can name (`InReach`): beyond it the byte address of a card of standard capacity
wraps. The requests of the run `storage` are in reach. A read of more than
`MaxBlocks` sectors is refused and fails without a fault.

**Only model-checked.** Liveness (`EveryReadyProcessRuns`, `WaitidReturns`,
`AllocatorCallsReturn`, `FaultingAccessCompletes`, `DriverReturns`) is out of the prover's
reach. `ConsoleShows` compares folds over texts of any length (`Meaning`,
`KprintfChars`), which needs induction over data. Where a loop is a step for
each turn the loop itself needs none, and the few facts about all positions of a
sequence come from a least counterexample (`HasLeast`). The theorems are
about the specifications of the components (`Spec`, `SlabSpec`, `EmmcSpec`,
`MutexSpec`, `SleepSpec`, `RingSpec`, `BootSpec`, `Ext4Spec`, `TrieSpec`); the
runs `storage` and `services` take their initial states and steps.

## 5. Not modelled

* Framebuffer, GPIO, mailbox and PCIe are register I/O in a straight line, and
  the memory profiler only reads. The transfers over I2C are of the same kind.
* The assembly before `map_high`, and the order of initialisations in
  `kernel.c`. Secondary cores stay parked.
* Formatting of numbers and the pixels of a glyph (`Console`), the arithmetic of
  the card's clock divider (its result is masked away again), writing to the card
  (never called), the superblock and the partition table (fixed layout), double
  and triple indirect blocks (stubs in the code), the device-tree parser (not
  called), `pipe_open`, `pipe_write`, `pipe_close` and `sys_pipe2` (stubs), `close` (no system call
  reaches it). `usrtmp/printf.c` is a copy of the user library's.
* User programs are clients: the models quantify over all sequences of calls.

## 6. Plan

1. The console with a step for each character, so that `ConsoleShows` can be
   stated of the text so far and proved.
2. `ProcessTables` with `AddressSpace`: a fault through overlapping VMAs and a
   shared heap.
