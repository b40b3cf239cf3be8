# JOS kernel: TLA+ models

Models of the JOS teaching kernel (x86-64, several CPUs, one big kernel lock)
for the TLC model checker. Every definition that models code is listed in
`PROJECT.json` under `map` with the lines it stands for; the hazards the
properties aim at are listed there under `hazards`.

## 1. The system

| part | source | state | operations |
|---|---|---|---|
| EnvTable | `kern/env.c` | `envs[NENV]` (id, parent id, status, link, pml4e, upcall, ipc fields), `env_free_list`, `curenv` of each CPU | `env_init`, `envid2env`, `env_alloc`, `env_create`, `env_free`, `env_destroy`, `env_run`, `env_pop_tf` |
| AddrSpace | `kern/env.c` | the page tables of an environment | `env_setup_vm`, `region_alloc`, the walk in `env_free` |
| Loader | `kern/env.c` | - | `load_icode` |
| Sched | `kern/sched.c` | `cpu_status` of each CPU | `sched_yield`, `sched_halt` |
| Syscall | `kern/syscall.c` | - | `syscall` and the fourteen `sys_*` functions |
| IPC | `kern/syscall.c` | `env_ipc_recving`, `env_ipc_from`, `env_ipc_value`, `env_ipc_perm`, `env_ipc_dstva` | `sys_ipc_recv`, `sys_ipc_try_send` |
| BKL | `kern/spinlock.c` | `kernel_lock.locked`, `kernel_lock.cpu` | `spin_lock`, `spin_unlock`, `holding` |
| Trap | `kern/trap.h` (`kern/trap.c` is not in the repository) | the trap frame | `trap`, `trap_dispatch`, `page_fault_handler` |
| PhysAlloc, VMem | `kern/pmap.h`, `inc/memlayout.h` (`kern/pmap.c` is not in the repository) | `pages[]` with `pp_ref` (16 bits) and `pp_link`, the page tables | `page_alloc`, `page_free`, `page_decref`, `page_insert`, `page_lookup`, `page_remove` |
| UserFork | `lib/fork.c` | the page tables of parent and child | `fork`, `duppage`, `pgfault` |
| Kernel self-tests | `kern/pmaptests.h` | the locals of a check (`pp0` .. `pp5`, `fl`, `nfree`) | `check_page_free_list`, `check_page_alloc`, `check_page`, `check_page_installed_pml4e`, `check_va2pa`, `check_kern_pml4e` |
| SMP discovery | `kern/mpconfig.c` | `cpus[]`, `ncpu`, `bootcpu` | `mp_init`, `findSDT` |
| Bootloader | `bootloader/main.c` | the locals of `main` and `get_mem_map`; the firmware's configuration table, memory map and boot services | `main`, `find_rsdp`, `load_kernel`, `get_mem_map` |
| Boot page tables, user test programs | `kern/entrypgdir.c`, `user/` | - | static data; programs that run once, sequentially |

How they interact. A CPU is in user mode (running `curenv`), or it has trapped
and waits for the big kernel lock, or it holds the lock and runs kernel code, or
it is halted. Every entry from user mode takes the lock (`trap`), every way out
releases it: `env_run` releases it just before `env_pop_tf`, `sched_halt` just
before `hlt`. Under the lock, system calls look environments up by id
(`envid2env`), change them, and end in `env_run` of the caller or in
`sched_yield`. What is hard is what happens *between* the kernel sections of
different CPUs: an environment's status is changed by one CPU while another CPU
runs it in user mode, so "who is on which CPU" is spread over `env_status`,
`curenv` and `cpu_status`, and each kernel section must leave the three in
agreement.

Before all that the loader runs as a UEFI application: it finds the RSDP in the
firmware's configuration table, loads the kernel, asks for the memory map,
exits the boot services with the key of that map and jumps to the kernel with
the RSDP as its one argument. The loader is one thread, but the firmware is
not idle: its timer events and its console driver allocate memory between any
two calls of the loader, and every allocation changes the key of the map. The
kernel's `mp_init` follows the RSDP to the MADT and counts the processors that
are enabled; `boot_aps` starts those, and they are the CPUs of the paragraph
above.

What must hold:

* Bootloader: the kernel gets the ACPI 2.0 RSDP when the firmware has one,
  wherever it stands in the table; the kernel starts on a machine whose boot
  services have ended (it does not always: Findings).
* SMP discovery: `ncpu` is the number of enabled processors of the MADT and
  never more than `NCPU`, whatever stands between their entries; what holds
  of the kernel holds on every number of processors `mp_init` can find.

* EnvTable: a slot is on the free list exactly when it is `ENV_FREE`, once; the
  id of an allocated slot is positive and names that slot; an environment is
  `ENV_RUNNING` on at most one CPU and a CPU is never on a free slot; only an
  environment itself or its parent destroys it; an id of a freed environment is
  never accepted again.
* Sched: a CPU halts only when nothing is runnable, whichever slot the scan
  started from; a CPU enters the monitor, where it keeps the lock for ever,
  only when no environment is left that runs, may run or has still to be
  freed. The specification also has an environment that is destroyed while
  it runs elsewhere freed at the next trap of its CPU, and a runnable
  environment run in its turn; the code gives neither (Fairness, Findings).
* IPC: a message reaches a receiver that waits, once; a receiver stays off the
  CPUs until then; a second sender fails with `-E_IPC_NOT_RECV`.
* BKL: at most one CPU in the kernel; in the debug build the owner checks panic
  exactly on a second acquire and on a release by a CPU that does not hold the
  lock.
* PhysAlloc, VMem, AddrSpace: `pp_ref` of a frame is the number of pointers to
  it in the page tables; the free list is the frames with count zero, each
  once; `env_free` gives back every frame the environment held; no call
  makes a read-only page writable.
* Kernel self-tests: no assert of a check fails on a correct allocator,
  whatever the order of the free list; a check gives the allocator back as
  sound as it got it.
* UserFork: parent and child see independent memory after `fork`: what one
  reads changes only by its own stores; a store to a copy-on-write page is
  carried out after the fault, unless there is no frame for the copy; a
  child is `ENV_NOT_RUNNABLE` only while its parent is on its way to
  `sys_env_set_status`, or after the parent panicked inside `fork`.

## 2. Modules

| module | models | variables | actions |
|---|---|---|---|
| `Kernel` | EnvTable, Sched, Syscall, IPC, and the steps of Trap, on several CPUs under the lock | `envs`, `env_free_list`, `curenv`, `cpu_status`, `kernel_lock`, `pc`, `trapno` | `env_create`, `boot_yield`, `mp_main`, `TimerInterrupt`, `UserTrap`, `spin_lock`, `trap_dying`, `trap_timer`, `trap_pgflt`, `trap_other`, `syscall` (nine calls), `env_pop_tf`, `monitor`, `Halt` |
| `MCKernel` | two CPUs (one in run `sched_starvation`) and the sets of system calls of the runs | | |
| `Boot` | Bootloader and SMP discovery: `main` of the loader call by call, the firmware beside it, and `mp_init` on the pointer the loader hands over | `ST`, `mem_map`, `boot_services`, `pc`, `rsdp`, `loc`, `map_key`, `ncpu` | `CallHandleProtocol`, `FindRsdp`, `LoadKernel`, `GetMemoryMap`, `GrowBuffer`, `Printf`, `ExitBootServices`, `KernelStart`, `FirmwareEvent`, `MpInit`, `Done` |
| `Machines`, `MCBoot` | configuration tables, RSDPs of both revisions and MADTs of a few machines | | |
| `System` | `Boot`, then `Kernel` on the processors `mp_init` counted | those of `Kernel` and of `Boot` (`pc` of `Boot` is `stage`) | `BootStep` (the actions of `Boot`), `KernelStep` (the steps of `Kernel` of a processor in `Started`), `Halt` |
| `MCSystem` | three machines, `cpus[]` of two entries | | |
| `Spinlock` | `spin_lock`, `spin_unlock` and `holding`, one memory access per step, in both builds | `locked`, `cpu`, `pc`, and the history variable `holds` | `call_spin_lock`, `lock_holding`, `xchg`, `record`, `call_spin_unlock`, `unlock_holding`, `clear`, `release`, `Halt` |
| `MCSpinlock` | three CPUs | | |
| `Memory` | PhysAlloc, VMem, AddrSpace, Loader and the page calls of Syscall, in one kernel | `pp_ref`, `page_free_list`, `envs`, `pgtab`, `pte`, `mode` | `EnvCreate`, `BootDone`, `syscall` (`SysExofork`, `SysEnvSetStatus`, `SysEnvDestroy`, `SysPageAlloc`, `SysPageMap`, `SysPageUnmap`), `Halt` |
| `MCMemory` | the sets of pages, page tables and permissions of the runs | | |
| `Fork` | UserFork: `pgfault`, `duppage` and `fork` of `lib/fork.c` run by user programs over the kernel of `Memory` | those of `Memory`, and `mem`, `upcall`, `u` | `Boot`, `Write`, `Retry`, `pgfault`, `set_pgfault_handler`, `ForkExofork`, `ForkLoop`, `ForkDuppage`, `ForkStart`, `Protect`, `Exit`, `ForkHalt` |
| `MCFork` | a parent and a child, four pages in two page tables | | |
| `PmapTests` | Kernel self-tests: the checks of `kern/pmaptests.h` as scripts of statements, run on the allocator and the walk of `Memory` with `kern_pml4` as the root | those of `Memory`, and `test`, `pc`, `loc`, `fill` | `Call`, one action per kind of statement (`alloc`, `free`, `decref`, `steal`, `give_back`, `insert`, `remove`, `walk_create`, `clear_pml4`, `memset`, `store`, `set_ref`, `count`, `reorder_list`, `poison`, `assert`), `TestHalt` |
| `MCPmapTests` | nine frames, four pages below `kern_pml4[0]` with all levels of their walk | | |

### Kernel

The C functions that change the kernel's data are operators from a record of
the kernel's variables to the record after the call (`env_alloc(K, parent)`,
`env_free(K, c, e)`, `sys_ipc_try_send(K, c, ...)`), so that a handler which
calls several of them is still one action: `SysEnvDestroy` is
`sys_env_destroy`, which is `envid2env`, then `env_destroy`, which is `env_free`
and `sched_yield`, which is `env_run` or `sched_halt`. A step of the module is
what one CPU does between two points where another CPU can see a difference:

* `pc[c] = "user"`: the CPU runs `curenv[c]`. `TimerInterrupt` and `UserTrap`
  (a system call with its arguments, a page fault, another exception) move it to
  `"trap"`. No kernel data changes.
* `pc[c] = "trap"`: `spin_lock` takes `kernel_lock` when it is free and moves to
  `"kernel"`.
* `pc[c] = "kernel"`: one of the `trap_*` steps or a system call runs to its
  end under the lock. It ends with the lock released and the CPU at
  `"iret"` (after `env_run`) or `"halted"` (after `sched_halt`), or with the
  lock held at `"monitor"` or `"panic"`.
* `pc[c] = "iret"`: `env_pop_tf`, the `iretq` after the unlock of `env_run`.
  The gap between the unlock and this step is in the code (`env.c` line 680)
  and other CPUs run kernel sections in it.
* `pc[c] = "halted"`: only `TimerInterrupt` wakes the CPU.
* Boot: the bootstrap CPU starts at `"boot"` with the lock, creates
  `NBOOTENVS` environments and yields; the others start at `"trap"`, which is
  `mp_main` waiting for the lock.

Data is abstracted to what the properties tell apart: an address space is the
flag `env_pml4e`, a page sent by IPC is a flag, a user program is any sequence
of system calls with arguments from the ids that exist and a few that do not.
Environment ids keep their arithmetic: `generation` is the source's
`(env_id + (1 << ENVGENSHIFT)) & ~(NENV - 1)` with the restart when the sum is
not positive, on integers of `IDBITS` bits instead of 32, so that the restart
happens within the bound.

`Disciplined` is an assumption about user programs, not about the kernel: with
`"SYS_env_destroy"` in it an environment that is already `ENV_DYING` is not
destroyed again, with `"SYS_env_set_status"` a parent changes only the status of
itself or of a child that is off the CPUs and not receiving. The kernel checks
neither. The passing runs assume both; the runs `set_status_running` and
`destroy_twice` drop one each and show what the kernel then does.

### Boot and System

`Boot` follows `main` of the loader from `HandleProtocol` to the jump to
`e_entry`, and the kernel from there through `mp_init`. A step is one call of
a firmware service with the code up to the next call; `pc` names the call
that comes next.

* The firmware is data and an actor. `ST.ConfigurationTable` is a sequence of
  entries (a GUID and the table it points to); a pointer is the table it
  points to, and a table is a record of the fields the code reads. An RSDP of
  revision 0 has no field `XsdtAddress`: the structure is 20 bytes long, and
  `mp_init` prints "Unimplemented" for it and reads offset 24 all the same
  (the `return` at line 168 is commented out). `mem_map` is the
  firmware's memory map, the size a buffer needs for it (`need`) and its key
  (`key`); `allocated` is what an allocation does to both. `FirmwareEvent`
  is an allocation by the firmware while the boot services run, between any
  two steps of the loader, up to `MaxMapChanges`.
* `find_rsdp` is the loop over the entries with the RSDP found so far
  (`find_rsdp_from`): an ACPI 2.0 entry ends the search, an ACPI 1.0 entry is
  kept and the search goes on.
* `get_mem_map` is two actions, the call (`GetMemoryMap`) and the body of the
  loop (`GrowBuffer`: `free`, `malloc`, which may change the map and may
  return `NULL`). `EFI_BUFFER_TOO_SMALL` sets the size and goes round;
  any other status ends the loop, and `main` gets the key, or -1 when the
  status was not `EFI_SUCCESS`. `main` does not look at what it got.
* `load_kernel` is one step: `AllocatePages` gives the pages or refuses them,
  and the status is dropped. When it did not give them the `memcpy` writes
  over memory that may be the firmware's; the model lets the loader go on or
  stop (`"hang"`), and says no more about that machine.
* `ExitBootServices` ends the boot services exactly when `map_key` is the key
  of the map as it is now. Its status is dropped as well, so `KernelStart`
  follows in both cases.
* `KernelStart` is the jump. The locals of the loader are dead from there and
  the firmware runs no more once the kernel has the interrupts, so the step
  sets them back to their first values; `rsdp` and `boot_services` stay.
* `mp_init(r)` gives `ncpu`, or the fault of a kernel that reads through a
  pointer that leads to no table: `rsdp` is `NULL` (`KADDR` of it is the
  first page of memory), the RSDP is of revision 0, or `findSDT` found no
  MADT (its `NULL` is used at once, line 176). The loop
  over the MADT is a fold of `madt_entry`. `i386_init` (`kern/init.c`), which
  calls `mp_init`, is not in the repository; `MpInit` follows the
  specification for it.

`System` puts `Kernel` behind `Boot`: `Boot`'s actions run with the kernel's
variables unchanged, and a CPU of `Kernel` takes steps only when
`stage = "booted"` and it is in `Started`, the boot processor and
`cpus[1 .. ncpu-1]` (`boot_aps` is not in the repository and follows the
specification). `CPU` of `Kernel` is then the array `cpus[NCPU]`, not the
processors that run: on the machine with one processor the second CPU of
`Kernel` waits at `mp_main` for ever, and the kernel's properties are checked
for that machine as for the one with two (run `lifecycle`).

### Spinlock

`Spinlock` has one step for each access to `lk->locked` and `lk->cpu`, so the
two reads of `holding()` are two steps, and the owner is recorded one step
after the `xchg` that takes the lock and cleared one step before the `xchg`
that releases it. `DEBUG_SPINLOCK` selects the build; `Misuse` lets a CPU call
`spin_lock` while it holds the lock and `spin_unlock` while it does not. The
history variable `holds` says which CPU is between its acquiring and its
releasing `xchg`.

`Kernel` uses the lock as one bit and `spin_lock` as one step;
`MutualExclusion` of `Spinlock` is what allows it. The lock promises no more:
the loop on `xchg` serves the CPUs that spin in no order, and `Kernel` gives
`spin_lock` the fairness of such a loop (Fairness).

### Memory

`Memory` is the kernel seen from the frames. As in `Kernel` the C functions are
operators on a record of the state, and a system call is one step: the big
kernel lock makes it one, which `Kernel` and `Spinlock` show. The module has no
CPUs; the caller of a call is any environment that is `ENV_RUNNABLE`.

* `pp_ref[f]` is `pages[f].pp_ref`, an integer of `REFBITS` bits (16 in
  `inc/memlayout.h`); `incref` and `page_decref` count modulo `2^REFBITS`.
  `page_free_list` is the list linked by `pp_link`, head first: `page_alloc`
  takes the head, `page_free` pushes.
* `envs[e].env_pml4e` is the frame of the PML4; `pgtab[e][t]` is the frame
  of table `t` below it, or `NULL`; `pte[e][va]` is the leaf entry of the
  user page `va`, a frame number and permission bits, or `NULL`.
  `Levels[va]` are the tables the walk to the entry of `va` goes through.
  In the runs of `Memory` and `Fork` that is the page table `PTX[va]` alone
  (the PDPT and the page directory of the user half are made once and
  behave like it); `PmapTests` gives all three. `walk` makes the missing
  tables one after the other and stops at the first it finds no frame for;
  `pml4e_walk` is the walk of one address, and gives back what it made when
  it fails (the specification does not say; the checks of `pmaptests.h`
  pass with a walk that keeps them, too). The tables `1 .. KTABLES` are the
  ones the walks of the window
  `UTOP .. KERNBASE` allocates in `env_setup_vm` (table 1 also stands for the
  PDPT of slot 0, which `env_setup_vm` allocates itself when the window made
  none). All of them are below PML4 slot 0 and PDPT slots 0 to 2, which is
  what `env_free` walks.
* `kern/pmap.c` is not in the repository. `page_alloc`, `page_free`,
  `page_decref`, `pml4e_walk`, `page_insert`, `page_remove` and `page_lookup`
  follow the specification (4.1, 4.2): `page_insert` walks with `create`,
  increments, removes what was there, and writes `page2pa(pp) | perm | PTE_P`.
  `page2pte` is that `|`: a bit of `perm` above the low twelve lands in the
  frame number (`BIT12` stands for those bits, `PTE_PCD` for the low bits
  outside `PTE_SYSCALL`).
* `env_create` is `env_alloc` and `load_icode`, and `load_icode` is its calls
  of `region_alloc`, one page each in `BootPages`; both panic when memory runs
  out, and `mode` then holds the panic. `BootDone` is the first `sched_yield`;
  user programs run from there.
* An environment id is the slot; generations and the scheduler are in `Kernel`.
  `sys_env_destroy` frees at once: there is one kernel and nobody runs
  elsewhere.

### PmapTests

`mem_init` runs the checks of `kern/pmaptests.h` on the page allocator and on
`kern_pml4` before any environment exists. A check is a fixed sequence of
calls and asserts; the module writes each as the sequence of its statements
(`check_page` is the source's lines 242 to 388, statement by statement) and
runs them one a step: `test` is the check that runs, `pc` its next statement,
`loc` its locals. A statement is a call of an operator of `Memory` with
`kern_pml4` as the address space (`Alloc`, `PageFree`, `Decref`, `Insert`,
`PageRemove`, `Walk`), an assignment the check makes to the allocator
itself (`Steal` and `GiveBack` of the free list, `ClearPml4`, `SetRef`,
`Reorder`), a write to a frame (`Memset`, `Store`, `Poison`), or an assert
that only reads; `Holds` says what each form of assert reads. An assert that
fails, and a panic of `page_free` below a call, end the run at
`mode # "boot"`.

* `assert(pp0->pp_ref=1)` (lines 383 to 388) is `SetRef`: the assignment is
  made, and its value, 1, is true.
* Addresses are page numbers (`PGSIZE` is 1, `PTSIZE` 512); the pages 0,
  `PGSIZE` and `100 * PGSIZE` share PDPT, page directory and page table,
  `PTSIZE` has a page table of its own. `check_va2pa` is the walk by hand over
  `Levels`.
* `fill[f]` is the byte a `memset` or a store left in all of frame `f`, and -1
  for a frame nobody wrote; `ALLOC_ZERO` writes 0. A word the check loads or
  stores through a virtual address is the frame `check_va2pa` finds.
* `page_init` is not in the repository: the free list starts as the usable
  frames in any order (`TestInit`), since the specification leaves the order
  open. `Reserved` stands for page 0 and the hole at `IOPHYSMEM`, `Low` for
  the frames below `EXTPHYSMEM`, `Mapped` for those `entry_pgdir` maps, which
  `check_page_free_list(1)` moves to the front.
* `mem_init` is not in the repository either: `Call` starts any check of
  `Tests` whenever none runs and the allocator is `Sound` (the free list is
  the frames with count zero, once each, and every count is the number of
  pointers below `kern_pml4`). After a check that leaves it otherwise the
  module stops.
* Left out: `check_kern_pml4e`, which asserts the mappings `mem_init` made;
  the assert on `kern_pml4[0] & PTE_U` (line 310), which is about the flags
  of upper levels; the asserts that a `PageInfo` pointer lies within
  `pages[]` (lines 43 to 45), which hold of every frame number.

### Fork

`Fork` extends `Memory` with the user side: `mem[f]` is what frame `f` holds
(one value for the page), `upcall[e]` is `env_pgfault_upcall`, and `u[e]` is
the program of `e`: its `pc`, and the locals of `fork` and `pgfault` (`child`,
the page number `pn`, the calls `duppage` has still to make, the faulting
address `addr` and where the store returns to, `ret`).

* A step is one system call, or the user code between two calls. `pgfault` is
  four steps: the test of `PTE_COW` and `sys_page_alloc`, the `memmove`,
  `sys_page_map`, `sys_page_unmap`; then `Retry` executes the store again.
  The test of `FEC_WR` (lines 51 to 53) always passes and is left out: the
  only access that faults in the model is a store. `fork` is
  `set_pgfault_handler`, `ForkExofork`, and a loop of `ForkLoop` (the scan of
  `uvpt` to the next page that is present, and `duppage`'s read of its entry)
  and `ForkDuppage` (one `sys_page_map` of `duppage`), then the child's
  exception stack (in `ForkLoop` when no page is left) and `ForkStart` (the
  upcall and the status of the child). Every failure is a `panic`, which
  destroys the caller.
* Every environment that is `ENV_RUNNABLE` may take the next step, so the
  calls of the parent and the child interleave as on two CPUs or under the
  timer. The kernel's calls are the operators of `Memory`, one step each.
* `Write` is a store to the stack at any point of the program or of `fork`
  between two calls (the compiled `fork` pushes and pops there), and to the
  data page by the program. A store to a page that is not writable goes
  through `page_fault_handler` to the upcall, or ends the environment when
  there is none. An environment stores values of its own (`Values(e)`), which
  tells whose store is seen where.
* `Protect` is a program that makes its data page read-only with
  `sys_page_map`; nothing else leads `duppage` to its third branch, since
  `region_alloc` maps every page writable.
* The child of `sys_exofork` starts as a copy of the parent's `u` at `"main"`.
  A frame that is free holds `Zero`: every allocation after boot is
  `ALLOC_ZERO`, and nobody reads a free frame.
* `fork` panics after every call that fails, and its child is then left
  `ENV_NOT_RUNNABLE` with its frames: the parent is the only environment
  `envid2env` lets start or destroy it, and the parent is gone. With the
  bounds of the run the call that fails is the `sys_page_alloc` of `pgfault`
  on the parent's own stack, between two calls of `fork`; `duppage` and the
  allocation of the child's exception stack always find their frames there.
  `OrphanOnlyByPanic` says that this is the only way a child is left behind:
  `StartingChild(e, c)` is the parent between `sys_exofork` and the end of
  `sys_env_set_status`, the faults it takes on the way included.
* `set_pgfault_handler` (`lib/pgfault.c`), `page_fault_handler`
  (`kern/trap.c`) and `panic` are not in the repository and follow the
  specification.

## 3. Runs

| run | module, cfg | result | what it shows |
|---|---|---|---|
| `lifecycle` | `MCSystem`, `Lifecycle.cfg` | pass, 456,823 states | `TypeOK`, `CurenvMatchesStatus`, `FreeListExact`, `BigKernelLock`, `EnvIdsWellFormed`, `BootTypeOK`, `Acpi20Preferred`, `NcpuCountsEnabled`, `DestroyedBySelfOrParent`, `HaltsOnlyWhenIdle`: the machine from the firmware's tables to the scheduler. The loader hands over the ACPI 2.0 RSDP and `ncpu` is the number of enabled processors up to `NCPU`; on the processors `mp_init` found, one or two, through fork, exit, destroy, yield and timer interrupts the table, the free list, the CPUs and the lock agree, ids stay well formed through the restart of the generation, nobody destroys a stranger, and a CPU goes into `hlt` only in a step that leaves nothing runnable |
| `ipc` | `MCKernel`, `Ipc.cfg` | pass, 301,923 states | `ReceiverBlocked`, `MessageDeliveredOnce`, `MonitorStrandsNobody`: a receiver is off the CPUs until a message arrives, of two senders one succeeds, and the monitor is entered, with receivers still blocked, only when no environment runs, may run or is dying |
| `sched_starvation` | `MCKernel`, `SchedStarvation.cfg` | violation | `RunnableIsScheduled` under `FairSpec`: on one CPU with four slots the environment of slot 0 stays `ENV_RUNNABLE` for ever while the scan of `sched_yield` starts at slot 1 after every exit of a child |
| `set_status_running` | `MCKernel`, `SetStatusRunning.cfg` | violation | `RunningOnOneCpu`: `sys_env_set_status` stores `ENV_RUNNABLE` into a child that runs on the other CPU; the next `sched_yield` runs it a second time |
| `destroy_twice` | `MCKernel`, `DestroyTwice.cfg` | violation | `NoCpuOnFreeEnv`: the second `sys_env_destroy` of a child that is `ENV_DYING` frees it while it is `curenv` of the other CPU |
| `spinlock` | `MCSpinlock`, `Spinlock.cfg` | pass, 1,576 states | `TypeOK`, `DebugChecksExact`, `MutualExclusion`: three CPUs, the debug build, right and wrong calls; the checks panic exactly on misuse, and no two CPUs are between their acquiring and their releasing `xchg` |
| `memory` | `MCMemory`, `Memory.cfg` | pass, 193,487 states | `TypeOK`, `RefCountsExact`, `FreeListExact`: with every page call and every argument, through aliasing in one address space, re-insertion over an entry, exhausted memory in the middle of a call and `env_free`, the count of a frame is the number of pointers to it and the free list is the frames with count zero |
| `memory_sharing` | `MCMemory`, `MemorySharing.cfg` | pass, 413,071 states | `EnvFreeLosesNothing`, `ReadOnlyStaysReadOnly`: with a frame shared by parent and child, `env_free` of either strands no frame, and a chain of map and unmap calls never turns a read-only frame writable |
| `perm_high_bits` | `MCMemory`, `PermHighBits.cfg` | violation | `RefCountsExact`: `sys_page_alloc` lets a bit of `perm` above the low twelve into the entry, whose frame is then another one |
| `fork` | `MCFork`, `Fork.cfg` | pass, 169,151 states | `ForkTypeOK`, `PrivateMemory`, `StoreCompletes`, `OrphanOnlyByPanic`: while `fork` and `pgfault` of one side interleave with the stores and faults of the other, the memory an environment reads changes only by its own stores, a store to a copy-on-write page is done unless `pgfault` finds no frame, and a child stays `ENV_NOT_RUNNABLE` outside `fork` only behind a parent that panicked for want of a frame |

| `pmap_tests` | `MCPmapTests`, `PmapTests.cfg` | pass, 2,551,968 states | `TestTypeOK`, `ChecksPass`: from each of the 5,040 orders of the free list, every check that starts on a sound allocator runs to its end without a failed assert or a panic |
| `check_page_unsound` | `MCPmapTests`, `PmapTestsSound.cfg` | violation | `ChecksLeaveAllocatorSound`: `check_page` returns with four frames counted and unreachable, and two on the free list with a count of 1 |

Four more configurations are kept beside the runs; two of them fail, and the
Findings say what they show. `SetupVmLeak.cfg` (`MCMemory`, `NoFrameLost`,
violated after 9 states): `env_setup_vm` that fails at the second table of
the window leaves the first counted. `ExitBoot.cfg` (`MCBoot`,
`KernelOwnsMachine`, violated after nine steps): the kernel starts with the
boot services live. `DyingSpins.cfg` (`MCKernel`, `DyingEventuallyFreed`
under `FairSpec`, violated, 1,569 states): the CPU of a dying environment
spins on `kernel_lock` for ever, see Fairness. `Boot.cfg` (`MCBoot`, the
three invariants of `Boot`, 1,398 states, no error): the loader and `mp_init`
alone on six machines, with the tables in both orders, ACPI 1.0 alone, an
XSDT without a MADT and no ACPI at all.

Each property of a passing run has a mutant in `PROJECT.json`: a plausible bug
in the definition it names (an unchecked generation, an `env_free` that forgets
the list, a `spin_lock` that does not wait, an `xchg` that ignores the old
value, an `env_setup_vm` without `pp_ref++`, a `sys_page_alloc` that keeps the
page when `page_insert` fails, a `sys_page_map` without the `PTE_W` test, an
`env_free` that leaves the page tables, a `duppage` that remaps the parent
first, a `pgfault` that maps its copy read-only, a `sched_yield` whose scan
does not wrap, a check that forgets to empty the list it steals, a `find_rsdp`
without its `break`, a loop over the MADT without `ncpu < NCPU` or without the
test of the flags, a `sched_halt` that looks for `ENV_RUNNABLE` alone, a `fork`
that returns without `sys_env_set_status`, ...) under which TLC finds the
property violated.

### Bounds

* `CPU`: two in `Kernel`. The hazards are between a CPU in the kernel and one
  in user mode or on its way out; two CPUs have every such pair. In run
  `lifecycle` the two are `cpus[]` of `System`, and the machine decides how
  many of them run.
* `LOG2NENV = 1`: two slots, a parent and a child, or two children after the
  parent has gone. The table fills (`-E_NO_FREE_ENV`), slots are re-used, and
  the IPC run has two senders for one receiver through re-use.
* `ENVGENSHIFT = 1`, `IDBITS = 4` (3 in the IPC run): ids up to
  7 (3), so a slot sees its generation restart after three (one) re-uses. With
  the source's 32 bits the same restart needs 2^19 re-uses of one slot.
* `Values`: one or two message values; two are needed to tell messages apart.
* `Spinlock`: three CPUs (a holder, a CPU in `holding()`, and one that takes
  the lock between its two reads). The release build is the debug build
  without the steps of `holding()` and the owner, so the properties are
  checked on the build that has more steps.
* `lifecycle`, the machines: `NCPU = 2`, and three machines, one with three
  enabled processors (more than `cpus[]` holds, so the kernel runs on two),
  one with the boot processor alone, one with ACPI 1.0 only (the kernel
  faults in `mp_init`).
  `SLACK = 1` (10 in the source): the slack is there to absorb what `malloc`
  adds to the map, and one descriptor against allocations of one descriptor
  keeps both outcomes: a buffer that is large enough at the second call, and
  one that a firmware event in between has made too small again. `MaxMapChanges = 3` (4 in `Boot.cfg`): the map changes
  in `load_kernel`, in the loop, and between `get_mem_map` and
  `ExitBootServices`, once each at least. The firmware's first map needs two
  descriptors and has key 1, so that a size is never taken for a key.

* `Memory`, run `memory`: two slots, two user pages with a page table each,
  six frames. The first environment takes four (PML4, window table, page
  table, page); the other two are enough for a second page table and page in
  it, or for a child's PML4 and window table, after which a `sys_page_alloc`
  for the child takes the last frame for the page and finds none for the page
  table. `REFBITS = 3`: no frame has more than four pointers, the count does
  not wrap. `Perms`: read-only, writable, writable without `PTE_U | PTE_P`,
  and one with a bit outside `PTE_SYSCALL`.
* `Memory`, run `memory_sharing`: seven frames and one user page, the least
  with which a child has a page table of its own and maps the parent's page.
  Six frames never get there, and seven with two pages are beyond five minutes.
  `KTABLES = 1` in both runs, which leaves the frames to the user pages:
  `env_setup_vm` then fails before it has made a table or not at all. Its
  failure after the first table needs a second one and two frames left, and
  is `SetupVmLeak.cfg`; the passing runs say nothing about it.
* `SetupVmLeak.cfg`: `KTABLES = 2`, seven frames, so that two are left when
  the child is made.
* `sched_starvation`: one CPU and `LOG2NENV = 2`. Four slots are the least
  with which the scan can be kept from a slot: the environment that waits, the
  one that forks, and a child that is runnable when the timer fires. `perm_high_bits`: `Perms` with a `BIT12` permission.
* `pmap_tests`: nine frames, two reserved, so seven on the free list:
  `check_page` takes six and steals a list that is not empty, and after it
  frees three the insert at `PTSIZE` finds none for a fourth table. One
  usable frame is in `Low`, one more in `Mapped`, the rest above. All 7!
  orders of the list are initial states: the asserts on which frame became
  which table (lines 278 to 282) depend on it. `REFBITS = 16`, the width in
  `inc/memlayout.h`; the checks decrement counts that are zero.

* `fork`: two slots; four pages (`PFTEMP`, data, stack, exception stack) in
  two page tables; thirteen frames. The first program has seven after
  `set_pgfault_handler` and its child five after `fork`, which leaves one:
  one side copies a page while the other waits or, if both fault at once, one
  `pgfault` finds no frame and panics. `MaxForks = 2`: the first program forks twice, the
  second time with its child alive (`-E_NO_FREE_ENV`) or in the slot the child
  left; children do not fork. Two values for each environment: with one, a
  second store to a frame would change nothing and a shared frame would not
  show.

### The count of sixteen bits

`pp_ref` wraps: with `REFBITS = 1` in `Memory.cfg`, `FreeListExact` fails
after two mappings of one frame, and one step later the frame is on the free
list with two entries naming it. With sixteen bits the same needs 65,536
entries for one frame, which one address space has room for. Nothing in
`sys_page_map` bounds the count. The passing runs keep it within its width.

### Fairness

`Kernel!Fairness`, for each CPU: weak fairness of the steps in the kernel and
of `env_pop_tf` (a CPU executes: a handler runs to its end and an `iretq`
completes), strong fairness of `TimerInterrupt`, and weak fairness of
`spin_lock`.

* The timer. The local APIC timer is periodic and its interrupt stays pending
  while the kernel runs with interrupts off; it is taken when the CPU is back
  in user mode or in `hlt`. An environment that makes system calls for ever is
  in user mode again and again, not continuously, and is preempted all the
  same: that is strong fairness.
* The lock. `spin_lock` is `while (xchg(&lk->locked, 1) != 0)` (`spinlock.c`
  line 71), with no order among the CPUs that spin; the specification calls
  it a ticket lock, which it is not. A CPU gets the lock for certain only if
  the lock stays free, and may lose every race while others take and release
  it: that is weak fairness, and no more is assumed.
* User programs have no fairness: a program need not make a system call.

Under this fairness the two liveness properties of the specification fail.
`RunnableIsScheduled` fails on one CPU, where the lock plays no part, because
of the start of the scan (run `sched_starvation`, Findings).
`DyingEventuallyFreed` fails on two CPUs because of the lock
(`DyingSpins.cfg`): an environment is destroyed by its parent while it runs on
CPU 0, the timer takes CPU 0 to its trap, and CPU 1, which has nothing to run,
leaves `hlt` at every timer interrupt, takes `kernel_lock`, finds nothing
runnable and halts again, each time before CPU 0 looks at the lock. CPU 0
spins for ever and the environment stays `ENV_DYING`. With a lock that serves
its waiters in turn the property holds; on real hardware the race is lost for
ever with probability zero, which is not a guarantee of the code.

`System` and `Memory` have no liveness property and no fairness: in run
`lifecycle` a loader that stops in a firmware call is a behaviour.

`Fork!Fairness` is weak fairness of the steps of each environment that is
`ENV_RUNNABLE`: `sched_yield` goes round the table and the timer takes the CPU
from whoever holds it, which `Kernel` models. It is written with `Running(e)`
in place of `ENABLED <<Step(e)>>_fvars`; the two are the same, since a program
that runs is never at an end (`ForkTypeOK`) and every other `pc` has a step
that changes it. `StoreCompletes` needs it only from the environment that
faulted.

### Deadlock

TLC checks deadlock in every run. The kernel's ends are stuttering steps of the
models: `monitor` (the loop of `sched_halt` when no environment is left or
runnable, lock held; `MonitorStrandsNobody` says when it may be entered, and
the run `ipc` reaches it with environments blocked in `sys_ipc_recv` that
nobody will wake) and `Halt` (after a panic; in `Memory` also when no
environment is left to make a call; `ForkHalt` in `Fork`). `Done` of `Boot`
is the machine that never reaches the scheduler: the loader returned to the
firmware after `HandleProtocol` failed, stopped in `load_kernel`, or the kernel
faulted in `mp_init`.

## 4. Findings

* `syscall.c:143`, `sys_env_set_status` changes an environment that is
  `ENV_RUNNING` on another CPU (run `set_status_running`).
* `env.c:594`, `env_destroy` frees an environment that is `ENV_DYING` and still
  `curenv` of another CPU (run `destroy_twice`).
* `env.c:292`, ids are re-used after the restart of the generation: the
  generation of a slot starts again at `1 << ENVGENSHIFT` when the sum is not
  positive, so the environment allocated then has the id of the first one of
  the slot, and `envid2env` accepts that id from whoever kept it. The
  specification says stale ids are rejected. No run checks this; `lifecycle`
  goes through the restart and checks that ids stay well formed.
* `env.c:239`, `env_setup_vm` releases the PML4 when a walk of the window
  fails, and not the tables made by the walks before; they stay counted and
  nothing points to them. `SetupVmLeak.cfg` shows it (`NoFrameLost`): the
  first environment holds five of seven frames, `sys_exofork` takes the sixth
  for the PML4 and the seventh for the first table, the walk for the second
  finds none, and `page_decref(p)` frees the PML4. The table stays with a
  count of 1 below a page that is on the free list, and `env_pml4e` of the
  free slot still names that page.
* `pmaptests.h:383`, `check_page` ends with `assert(pp0->pp_ref=1)` to
  `assert(pp5->pp_ref=1)` where it used to free the six frames (the
  `page_free` calls are commented out below). Before that it calls
  `page_decref` on frames whose count is 0 (line 365 for `pp4`, lines 379 to
  381), which takes the 16-bit count to 65535, and `page_free_list = fl`
  (line 376) drops what was freed since the list was stolen. The asserts then
  set every count to 1. The check returns with `pp1`, `pp3`, `pp4`, `pp5`
  counted, mapped nowhere and on no list, and `pp0`, `pp2` on the free list
  with a count of 1 (run `check_page_unsound`, a trace of 77 states). The
  kernel goes on with four frames fewer, and with two frames whose count is
  one too high whenever they are allocated. With a `page_decref` that panics
  on underflow, as section 7 of the specification has it, line 365 would
  stop the boot.
  `check_page_installed_pml4e` has its own: it sets `pp0->pp_ref = 0` and
  frees `pp0` (lines 434 to 437) while `pp0` is still the table
  `kern_pml4[0]` points to, the line that cleared the entry being commented
  out (432). With `Tests` set to that check alone, `PmapTestsSound.cfg`
  gives a trace of 22 states that ends with the PDPT on the free list.
* `sched.c:50`, `sched_yield` starts its scan at slot 1 whenever `curenv` is
  `NULL`, which it is after every exit: the specification has the scan start
  "one slot past the last-run slot on this CPU". With one CPU and four slots
  (run `sched_starvation`) the environment in slot 0 is runnable for ever and
  never runs: the environment in slot 1 forks a child into slot 2, the timer
  gives the CPU to the child, the child ends, and the scan from slot 1 finds
  the parent again before it gets to slot 0. The CPU takes every timer
  interrupt in that behaviour; the scan itself wraps (`HaltsOnlyWhenIdle`),
  it is its start that forgets who ran last.
* `spinlock.c:71`, the lock has no order among its waiters, and an
  environment that is `ENV_DYING` is freed by its own CPU alone: that CPU can
  spin at its trap for ever (`DyingSpins.cfg`, described under Fairness). The
  specification has a ticket lock.
* `syscall.c:217`, `sys_page_alloc` tests `(perm & 0xFFF) & ~PTE_SYSCALL`;
  `sys_page_map` tests `perm & ~PTE_SYSCALL`. A `perm` with a bit above the low
  twelve changes the physical address of the entry: the program maps a frame
  it was not given (run `perm_high_bits`). `sys_page_alloc` also does not ask
  for `PTE_U | PTE_P`, it adds them; that differs from the comment and is
  harmless.

* `main.c:157`, `ExitBootServices(IM, map_key)`: the status is dropped, and
  so is the -1 of `get_mem_map` two lines above. The key is the key of the map
  at the last `GetMemoryMap`; the `printf` at line 153 and any timer event of
  the firmware after that call change the map, the firmware then answers
  `EFI_INVALID_PARAMETER`, and `main` jumps to the kernel all the same. The
  kernel runs with the firmware's timers armed and its memory in use
  (`ExitBoot.cfg`, `KernelOwnsMachine` violated after nine steps). UEFI
  asks the caller to fetch the map again and retry. The loader is outside
  what the specification describes, and the configuration is kept beside the
  runs.
* `mpconfig.c:173` and `176`, `mp_init` trusts the pointer: it reads
  `rsdp->XsdtAddress` of a null `rsdp` (no ACPI entry in the configuration
  table) and of an RSDP of revision 0, which has no such field, and it uses
  the `NULL` of `findSDT` when the XSDT has no MADT. `find_rsdp` hands over an
  ACPI 1.0 RSDP when it finds no other, so the loader's fallback leads to the
  kernel's fault. `Boot` has these machines; they end at `stage = "fault"`.
  An entry of the MADT with `Length` 0 keeps the loop at line 184 on that
  entry; the machines of the model have none.
* `main.c:107`, `AllocatePages` in `load_kernel`: the status is dropped and
  the `memcpy` follows.
* The specification (sections 2 and 6) has the kernel seed its allocator
  from the UEFI memory map; `main` calls `get_mem_map(NULL)` (line 153), so
  the map is fetched for its key only and the kernel gets the RSDP alone.

## 5. Not modelled

What was tried and where it stopped:

1. **IPC with pages.** `Kernel` has the control of `sys_ipc_recv` and
   `sys_ipc_try_send`, with the page as a flag. The transfer itself
   (`page_lookup` in the sender, `page_insert` in the receiver) as two more
   calls of `Memory` takes the instance of run `memory_sharing`, the smallest
   where two environments share a frame, from 413,071 states to more than
   3.4 million, unfinished after fifteen minutes. `ipc_send`'s retry loop
   (`lib/ipc.c`) is not in the repository.
2. **TLBs of other CPUs**: a translation used after `page_remove` by another
   CPU (`sys_page_unmap` of a child that runs) needs `Memory` and the CPUs of
   `Kernel` in one module, and `tlb_invalidate` (`kern/pmap.c`) is not in
   the repository.
3. **Fork**: the child sees the parent's memory as it was when `fork`
   returned (a history variable for the snapshot), children that fork, and
   `sys_env_destroy` of a child in the middle of `pgfault`.
4. **The checks in boot order**: `check_page` leaves the allocator unsound,
   and `PmapTests` stops there; what the checks after it, `env_init` and the
   first `env_create` do with that allocator is not followed.
5. **`fork` always ends** as a liveness property (a child that is
   `ENV_NOT_RUNNABLE` is started in the end, or its parent has panicked): it
   holds when the next call of `fork` is fair as well as the steps of the
   environment, since a parent may store to its stack for ever between two
   calls, and it doubles the time of run `fork`. The run has the invariant
   `OrphanOnlyByPanic` in its place. Mutants that make `duppage` or the loop
   of `fork` return the error instead of the panic change nothing in that
   run: with thirteen frames those calls never fail.
6. **The rest of the source**: the lines no definition stands for are
   comments, the declarations of the ACPI tables and of `struct spinlock`,
   and the items below.

Not modelled:

* The user test programs (`user/faultalloc.c`, `user/faultregs.c`): each is
  one environment that runs once from start to end, with no second actor and
  no choice but the failure of `sys_page_alloc`. What they exercise is the
  upcall path, `page_fault_handler`, `pfentry.S` and `lib/pgfault.c`, none of
  which is in the repository; a model would check the specification's words
  for those against themselves. `Fork` has the same path as far as `pgfault`
  needs it.
* `check_kern_pml4e` (`pmaptests.h` 143 to 202): it asserts the mappings
  `mem_init` made (`UPAGES`, `UENVS`, the kernel stacks, all of physical
  memory at `KERNBASE`). `mem_init` is not in the repository and the
  specification gives the layout and not the calls.
* `font.h` (data) and the stores of `main` to `0x10000` and `0x10008`; the
  file calls of `load_kernel` and the ELF headers it reads.
* `entrypgdir.c` (static tables).
* The ELF parsing and the copy in `load_icode`, the IDT and the assembly
  stubs, console I/O (`sys_cputs` only checks the buffer, which is the choice
  `ok` of `SysCputs`), `env_init_percpu` (segment registers).
