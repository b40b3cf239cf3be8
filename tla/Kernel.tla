------------------------------- MODULE Kernel -------------------------------
(***************************************************************************)
(* The environment table, the round-robin scheduler, the big kernel lock   *)
(* and the system calls that change environments, on several CPUs.         *)
(*                                                                         *)
(* kern/env.c, kern/sched.c and kern/syscall.c are written as operators    *)
(* from a kernel state K to the kernel state the C function leaves, so     *)
(* that a handler is the composition of the calls it makes.  One step of   *)
(* the specification is what one CPU does between two points where another *)
(* CPU can observe it: a trap, the acquisition of kernel_lock, one whole   *)
(* handler up to unlock_kernel, the iretq.                                 *)
(*                                                                         *)
(* Memory is not in this module: env_setup_vm, load_icode and the page     *)
(* checks of the system calls succeed or fail by choice, and env_pml4e is  *)
(* kept as "is it a non-null pointer".                                     *)
(***************************************************************************)
EXTENDS Integers, FiniteSets, Sequences, FiniteSetsExt, SequencesExt

CONSTANTS
    CPU,          \* the processors mp_init found (cpus[0 .. ncpu-1])
    BSP,          \* the boot processor, cpus[0]
    LOG2NENV,     \* envs[] has NENV = 2^LOG2NENV slots
    ENVGENSHIFT,  \* env.c:22, a generation is a multiple of 2^ENVGENSHIFT
    IDBITS,       \* width of envid_t and of 'generation' (32 in the source)
    NBOOTENVS,    \* bound: env_create calls before the first sched_yield
    Syscalls,     \* the system calls user programs issue
    Values,       \* the values user programs send with sys_ipc_try_send
    Disciplined,  \* the system calls user programs use as UserMay says
    NULL

ASSUME /\ BSP \in CPU
       /\ LOG2NENV \in Nat /\ ENVGENSHIFT >= LOG2NENV /\ IDBITS > ENVGENSHIFT + 1
       /\ NBOOTENVS \in 1 .. 2 ^ LOG2NENV
       /\ Disciplined \subseteq {"SYS_env_destroy", "SYS_env_set_status"}

VARIABLES
    envs,           \* struct Env envs[NENV]
    env_free_list,  \* head of the free list, linked by env_link
    curenv,         \* thiscpu->cpu_env of every CPU
    cpu_status,     \* thiscpu->cpu_status of every CPU
    kernel_lock,    \* kernel_lock.locked
    pc,             \* where every CPU is
    trapno          \* tf_trapno of the trap a CPU is handling

vars == <<envs, env_free_list, curenv, cpu_status, kernel_lock, pc, trapno>>

NENV    == 2 ^ LOG2NENV
EnvIdx  == 0 .. NENV - 1
EnvIds  == 0 .. 2 ^ (IDBITS - 1) - 1           \* the non-negative envid_t
ENVX(envid) == envid % NENV

Status  == {"ENV_FREE", "ENV_DYING", "ENV_RUNNABLE", "ENV_RUNNING", "ENV_NOT_RUNNABLE"}
Traps   == {"T_SYSCALL", "T_PGFLT", "T_OTHER", "IRQ_TIMER"}
OnCpu   == {"ENV_RUNNING", "ENV_DYING"}

\* inc/error.h: the functions return the negative of these.
E_BAD_ENV     == -2
E_NO_MEM      == -4
E_NO_FREE_ENV == -5

\* The kernel state the C functions read and write.
Now == [envs |-> envs, env_free_list |-> env_free_list, curenv |-> curenv,
        cpu_status |-> cpu_status, kernel_lock |-> kernel_lock, pc |-> pc]

\* panic(): the message is left out; the machine stops (see Halt).
Panic(K, c) == [K EXCEPT !.pc[c] = "panic"]

-----------------------------------------------------------------------------
(* kern/env.c *)

\* envid2env without the test of checkperm.
envid2env_unchecked(K, c, envid, checkperm) ==
    LET e == ENVX(envid) IN
    IF envid = 0 THEN K.curenv[c]
    ELSE IF K.envs[e].env_status = "ENV_FREE" \/ K.envs[e].env_id # envid
         THEN E_BAD_ENV
    ELSE e

envid2env(K, c, envid, checkperm) ==
    LET e == ENVX(envid) IN
    IF envid = 0 THEN K.curenv[c]
    ELSE IF K.envs[e].env_status = "ENV_FREE" \/ K.envs[e].env_id # envid
         THEN E_BAD_ENV
    ELSE IF /\ checkperm
            /\ e # K.curenv[c]
            /\ K.envs[e].env_parent_id # K.envs[K.curenv[c]].env_id
         THEN E_BAD_ENV
    ELSE e

\* Every slot free with env_id 0, the list in the order of the array.
env_init ==
    [i \in EnvIdx |->
        [env_id |-> 0, env_parent_id |-> 0, env_status |-> "ENV_FREE",
         env_link |-> IF i = NENV - 1 THEN NULL ELSE i + 1,
         env_pml4e |-> FALSE, env_pgfault_upcall |-> FALSE,
         env_ipc_recving |-> FALSE, env_ipc_dstva |-> "page",
         env_ipc_from |-> 0, env_ipc_value |-> 0, env_ipc_perm |-> 0]]

\* vm is what page_alloc and pml4e_walk let env_setup_vm do: "ok", no page
\* for the PML4 ("E_NO_MEM"), or no page for a table after env_pml4e was
\* stored ("E_NO_MEM_late", which leaves the pointer dangling).
env_setup_vm(K, e, vm) ==
    IF vm = "E_NO_MEM" THEN K ELSE [K EXCEPT !.envs[e].env_pml4e = TRUE]

\* generation without 'if (generation <= 0)'.
generation_unchecked(envid) ==
    LET sum == envid + 2 ^ ENVGENSHIFT IN sum - (sum % NENV)

\* generation without '& ~(NENV - 1)'.
generation_unmasked(envid) ==
    LET sum == (envid + 2 ^ ENVGENSHIFT) % 2 ^ IDBITS IN
    IF sum = 0 \/ sum >= 2 ^ (IDBITS - 1) THEN 2 ^ ENVGENSHIFT ELSE sum

\* The generation of the next environment in a slot whose last id was envid:
\* int32_t arithmetic that wraps, the low bits cleared, never zero or
\* negative (a negative int32_t is a value from 2^(IDBITS-1) here).
generation(envid) ==
    LET sum == (envid + 2 ^ ENVGENSHIFT) % 2 ^ IDBITS
        gen == sum - (sum % NENV)
    IN  IF gen = 0 \/ gen >= 2 ^ (IDBITS - 1) THEN 2 ^ ENVGENSHIFT ELSE gen

\* The kernel state after env_alloc, and in r the new slot or the error.
env_alloc(K, parent_id, vm) ==
    LET e  == K.env_free_list
        K1 == env_setup_vm(K, e, vm)
    IN  IF e = NULL THEN [K |-> K, r |-> E_NO_FREE_ENV]
        ELSE IF vm # "ok" THEN [K |-> K1, r |-> E_NO_MEM]
        ELSE [r |-> e,
              K |-> [K1 EXCEPT
                       !.envs[e].env_id = generation(@) + e,
                       !.envs[e].env_parent_id = parent_id,
                       !.envs[e].env_status = "ENV_RUNNABLE",
                       !.envs[e].env_pgfault_upcall = FALSE,
                       !.envs[e].env_ipc_recving = FALSE,
                       !.env_free_list = K.envs[e].env_link]]

\* env_free that forgets 'e->env_link = env_free_list'.
env_free_unlinked(K, c, e) ==
    IF ~K.envs[e].env_pml4e THEN Panic(K, c)
    ELSE [K EXCEPT !.envs[e].env_pml4e = FALSE,
                   !.envs[e].env_status = "ENV_FREE",
                   !.env_free_list = e]

\* env_free walks e->env_pml4e: with a null pointer the kernel faults.
env_free(K, c, e) ==
    IF ~K.envs[e].env_pml4e THEN Panic(K, c)
    ELSE [K EXCEPT !.envs[e].env_pml4e = FALSE,
                   !.envs[e].env_status = "ENV_FREE",
                   !.envs[e].env_link = K.env_free_list,
                   !.env_free_list = e]

\* Context switch of CPU c to e; PADDR(0) panics; the lock is released and
\* the CPU is left before the iretq of env_pop_tf.
env_run(K, c, e) ==
    LET old == K.curenv[c]
        K1  == IF old # NULL /\ K.envs[old].env_status = "ENV_RUNNING"
               THEN [K EXCEPT !.envs[old].env_status = "ENV_RUNNABLE"] ELSE K
        K2  == [K1 EXCEPT !.curenv[c] = e, !.envs[e].env_status = "ENV_RUNNING"]
    IN  IF ~K2.envs[e].env_pml4e THEN Panic(K2, c)
        ELSE [K2 EXCEPT !.kernel_lock = FALSE, !.pc[c] = "iret"]

-----------------------------------------------------------------------------
(* kern/sched.c *)

\* sched_halt that looks for ENV_RUNNABLE alone before it enters the monitor.
sched_halt_runnable_only(K, c) ==
    IF \A i \in EnvIdx : K.envs[i].env_status # "ENV_RUNNABLE"
    THEN [K EXCEPT !.pc[c] = "monitor"]
    ELSE [K EXCEPT !.curenv[c] = NULL, !.cpu_status[c] = "CPU_HALTED",
                   !.kernel_lock = FALSE, !.pc[c] = "halted"]

sched_halt(K, c) ==
    IF \A i \in EnvIdx : K.envs[i].env_status \notin OnCpu \cup {"ENV_RUNNABLE"}
    THEN [K EXCEPT !.pc[c] = "monitor"]
    ELSE [K EXCEPT !.curenv[c] = NULL, !.cpu_status[c] = "CPU_HALTED",
                   !.kernel_lock = FALSE, !.pc[c] = "halted"]

\* sched_yield whose scan also takes an environment that is ENV_DYING.
sched_yield_takes_dying(K, c) ==
    LET cur      == K.curenv[c]
        start    == IF cur # NULL THEN ENVX(K.envs[cur].env_id) ELSE 0
        slot(i)  == (start + 1 + i) % NENV
        runnable == {i \in EnvIdx : K.envs[slot(i)].env_status
                                        \in {"ENV_RUNNABLE", "ENV_DYING"}}
    IN  IF runnable # {} THEN env_run(K, c, slot(Min(runnable)))
        ELSE IF cur # NULL /\ K.envs[cur].env_status = "ENV_RUNNING"
             THEN env_run(K, c, cur)
        ELSE sched_halt(K, c)

\* sched_yield whose scan stops at the end of envs[] instead of wrapping.
sched_yield_no_wrap(K, c) ==
    LET cur      == K.curenv[c]
        start    == IF cur # NULL THEN ENVX(K.envs[cur].env_id) ELSE 0
        slot(i)  == start + 1 + i
        runnable == {i \in EnvIdx : /\ slot(i) < NENV
                                    /\ K.envs[slot(i)].env_status = "ENV_RUNNABLE"}
    IN  IF runnable # {} THEN env_run(K, c, slot(Min(runnable)))
        ELSE IF cur # NULL /\ K.envs[cur].env_status = "ENV_RUNNING"
             THEN env_run(K, c, cur)
        ELSE sched_halt(K, c)

sched_yield(K, c) ==
    LET cur      == K.curenv[c]
        start    == IF cur # NULL THEN ENVX(K.envs[cur].env_id) ELSE 0
        slot(i)  == (start + 1 + i) % NENV
        runnable == {i \in EnvIdx : K.envs[slot(i)].env_status = "ENV_RUNNABLE"}
    IN  IF runnable # {} THEN env_run(K, c, slot(Min(runnable)))
        ELSE IF cur # NULL /\ K.envs[cur].env_status = "ENV_RUNNING"
             THEN env_run(K, c, cur)
        ELSE sched_halt(K, c)

\* env_destroy without the test for an environment running elsewhere.
env_destroy_at_once(K, c, e) ==
    LET K1 == env_free(K, c, e) IN
    IF K1.pc[c] = "panic" \/ K.curenv[c] # e THEN K1
    ELSE sched_yield([K1 EXCEPT !.curenv[c] = NULL], c)

\* kern/env.c again: env_destroy ends in sched_yield.
env_destroy(K, c, e) ==
    IF K.envs[e].env_status = "ENV_RUNNING" /\ K.curenv[c] # e
    THEN [K EXCEPT !.envs[e].env_status = "ENV_DYING"]
    ELSE LET K1 == env_free(K, c, e) IN
         IF K1.pc[c] = "panic" \/ K.curenv[c] # e THEN K1
         ELSE sched_yield([K1 EXCEPT !.curenv[c] = NULL], c)

-----------------------------------------------------------------------------
(* kern/syscall.c: the kernel state when the function returns to syscall(), *)
(* or when it has left the kernel through sched_yield.                      *)

sys_cputs(K, c, readable) ==
    IF readable THEN K ELSE env_destroy(K, c, K.curenv[c])

sys_env_destroy(K, c, envid) ==
    LET e == envid2env(K, c, envid, TRUE) IN
    IF e = E_BAD_ENV THEN K ELSE env_destroy(K, c, e)

sys_exofork(K, c, vm) ==
    LET a == env_alloc(K, K.envs[K.curenv[c]].env_id, vm) IN
    IF a.r < 0 THEN a.K
    ELSE [a.K EXCEPT !.envs[a.r].env_status = "ENV_NOT_RUNNABLE"]

sys_env_set_status(K, c, envid, status) ==
    LET e == envid2env(K, c, envid, TRUE) IN
    IF status \notin {"ENV_RUNNABLE", "ENV_NOT_RUNNABLE"} \/ e = E_BAD_ENV THEN K
    ELSE [K EXCEPT !.envs[e].env_status = status]

sys_env_set_pgfault_upcall(K, c, envid, func) ==
    LET e == envid2env(K, c, envid, TRUE) IN
    IF e = E_BAD_ENV THEN K ELSE [K EXCEPT !.envs[e].env_pgfault_upcall = func]

\* ipc_refused without the test of env_ipc_recving.
ipc_refused_unguarded(K, e, srcva, page) ==
    \/ e = E_BAD_ENV
    \/ srcva = "page" /\ page = "E_INVAL"
    \/ srcva = "page" /\ K.envs[e].env_ipc_dstva = "page" /\ page = "E_NO_MEM"

\* The early returns of sys_ipc_try_send.  srcva is "page" (below UTOP) or
\* "UTOP"; page is what the checks of srcva, perm and the page say: "ok",
\* "E_INVAL", or "E_NO_MEM" from page_insert.
ipc_refused(K, e, srcva, page) ==
    \/ e = E_BAD_ENV
    \/ ~K.envs[e].env_ipc_recving
    \/ srcva = "page" /\ page = "E_INVAL"
    \/ srcva = "page" /\ K.envs[e].env_ipc_dstva = "page" /\ page = "E_NO_MEM"

sys_ipc_try_send(K, c, envid, value, srcva, page) ==
    LET e == envid2env(K, c, envid, FALSE) IN
    IF ipc_refused(K, e, srcva, page) THEN K
    ELSE [K EXCEPT !.envs[e].env_ipc_perm =
                        IF srcva = "page" /\ K.envs[e].env_ipc_dstva = "page"
                        THEN 1 ELSE 0,
                   !.envs[e].env_ipc_recving = FALSE,
                   !.envs[e].env_ipc_from = K.envs[K.curenv[c]].env_id,
                   !.envs[e].env_ipc_value = value,
                   !.envs[e].env_status = "ENV_RUNNABLE"]

\* sys_ipc_recv that leaves the caller ENV_RUNNING.
sys_ipc_recv_running(K, c, dstva) ==
    LET e == K.curenv[c] IN
    IF dstva = "unaligned" THEN K
    ELSE sched_yield([K EXCEPT !.envs[e].env_ipc_dstva = dstva,
                               !.envs[e].env_ipc_recving = TRUE], c)

\* dstva is "page", "UTOP" (at or above it) or "unaligned" (below it).
sys_ipc_recv(K, c, dstva) ==
    LET e == K.curenv[c] IN
    IF dstva = "unaligned" THEN K
    ELSE sched_yield([K EXCEPT !.envs[e].env_ipc_dstva = dstva,
                               !.envs[e].env_ipc_recving = TRUE,
                               !.envs[e].env_status = "ENV_NOT_RUNNABLE"], c)

-----------------------------------------------------------------------------
(* trap(): what follows trap_dispatch, and the steps of a CPU.              *)

\* Back to the environment if it is still running, else to the scheduler.
trap_return(K, c) ==
    LET e == K.curenv[c] IN
    IF K.pc[c] # "kernel" THEN K
    ELSE IF e # NULL /\ K.envs[e].env_status = "ENV_RUNNING" THEN env_run(K, c, e)
    ELSE sched_yield(K, c)

Allocated == {i \in EnvIdx : envs[i].env_status # "ENV_FREE"}

\* CPU c leaves its handler with the kernel state K.
Leave(c, K) ==
    /\ envs' = K.envs /\ env_free_list' = K.env_free_list /\ curenv' = K.curenv
    /\ cpu_status' = K.cpu_status /\ kernel_lock' = K.kernel_lock /\ pc' = K.pc
    /\ trapno' = [trapno EXCEPT ![c] = "none"]

\* What user programs do with a call in Disciplined: they destroy an
\* environment once, and set the status of themselves or of a child that is
\* off the CPUs and not blocked in sys_ipc_recv (as fork() does).
UserMay(c, call, envid) ==
    LET e == envid2env(Now, c, envid, TRUE) IN
    call \in Disciplined /\ e # E_BAD_ENV =>
        \/ call = "SYS_env_destroy" /\ envs[e].env_status # "ENV_DYING"
        \/ /\ call = "SYS_env_set_status"
           /\ \/ e = curenv[c]
              \/ envs[e].env_status \notin OnCpu /\ ~envs[e].env_ipc_recving

\* CPU c is in trap_dispatch for trap t of an environment that is not dying.
Dispatch(c, t) ==
    /\ pc[c] = "kernel" /\ trapno[c] = t
    /\ curenv[c] # NULL /\ envs[curenv[c]].env_status # "ENV_DYING"

InSyscall(c, call) == Dispatch(c, "T_SYSCALL") /\ call \in Syscalls

TimerInterrupt(c) ==
    /\ pc[c] \in {"user", "halted"}
    /\ pc' = [pc EXCEPT ![c] = "trap"]
    /\ trapno' = [trapno EXCEPT ![c] = "IRQ_TIMER"]
    /\ cpu_status' = [cpu_status EXCEPT ![c] = "CPU_STARTED"]
    /\ UNCHANGED <<envs, env_free_list, curenv, kernel_lock>>

UserTrap(c) ==
    /\ pc[c] = "user"
    /\ \E t \in Traps \ {"IRQ_TIMER"} : trapno' = [trapno EXCEPT ![c] = t]
    /\ pc' = [pc EXCEPT ![c] = "trap"]
    /\ UNCHANGED <<envs, env_free_list, curenv, cpu_status, kernel_lock>>

\* spin_lock that does not wait for the lock to be free.
spin_lock_no_wait(c) ==
    /\ pc[c] \in {"trap", "mp_main"}
    /\ kernel_lock' = TRUE
    /\ pc' = [pc EXCEPT ![c] = "kernel"]
    /\ UNCHANGED <<envs, env_free_list, curenv, cpu_status, trapno>>

\* kern/spinlock.c: the xchg that finds the lock free.
spin_lock(c) ==
    /\ pc[c] \in {"trap", "mp_main"}
    /\ ~kernel_lock
    /\ kernel_lock' = TRUE
    /\ pc' = [pc EXCEPT ![c] = "kernel"]
    /\ UNCHANGED <<envs, env_free_list, curenv, cpu_status, trapno>>

env_pop_tf(c) ==
    /\ pc[c] = "iret"
    /\ pc' = [pc EXCEPT ![c] = "user"]
    /\ UNCHANGED <<envs, env_free_list, curenv, cpu_status, kernel_lock, trapno>>

\* i386_init on the boot CPU: env_create, which panics when env_alloc or
\* load_icode fails, as often as init.c asks, then sched_yield.
env_create(c) ==
    /\ pc[c] = "boot"
    /\ Cardinality(Allocated) < NBOOTENVS
    /\ \E vm \in {"ok", "E_NO_MEM", "E_NO_MEM_late"}, loaded \in BOOLEAN :
          LET a == env_alloc(Now, 0, vm) IN
          Leave(c, IF a.r >= 0 /\ loaded THEN a.K ELSE Panic(a.K, c))

boot_yield(c) ==
    /\ pc[c] = "boot"
    /\ Cardinality(Allocated) = NBOOTENVS
    /\ Leave(c, sched_yield(Now, c))

\* mp_main on the other CPUs, after lock_kernel.
mp_main(c) ==
    /\ pc[c] = "kernel" /\ trapno[c] = "none"
    /\ Leave(c, sched_yield(Now, c))

\* trap(): an environment found dying when it enters the kernel is freed.
trap_dying(c) ==
    /\ pc[c] = "kernel"
    /\ curenv[c] # NULL /\ envs[curenv[c]].env_status = "ENV_DYING"
    /\ LET K1 == env_free(Now, c, curenv[c]) IN
       Leave(c, IF K1.pc[c] = "panic" THEN K1
                ELSE sched_yield([K1 EXCEPT !.curenv[c] = NULL], c))

\* The timer: lapic_eoi and sched_yield, in an environment or out of hlt.
trap_timer(c) ==
    /\ pc[c] = "kernel" /\ trapno[c] = "IRQ_TIMER"
    /\ curenv[c] # NULL => envs[curenv[c]].env_status # "ENV_DYING"
    /\ Leave(c, sched_yield(Now, c))

\* page_fault_handler: to the upcall on the exception stack, else destroyed.
trap_pgflt(c) ==
    /\ Dispatch(c, "T_PGFLT")
    /\ \E stack_ok \in BOOLEAN :
          Leave(c, IF envs[curenv[c]].env_pgfault_upcall /\ stack_ok
                   THEN trap_return(Now, c)
                   ELSE env_destroy(Now, c, curenv[c]))

\* Any other exception of user mode destroys the environment.
trap_other(c) ==
    /\ Dispatch(c, "T_OTHER")
    /\ Leave(c, env_destroy(Now, c, curenv[c]))

SysCputs(c) ==
    /\ InSyscall(c, "SYS_cputs")
    /\ \E readable \in BOOLEAN : Leave(c, trap_return(sys_cputs(Now, c, readable), c))

\* sys_cgetc, sys_getenvid and an unknown number change no environment.
SysGet(c) ==
    /\ InSyscall(c, "SYS_getenvid")
    /\ Leave(c, trap_return(Now, c))

SysEnvDestroy(c) ==
    /\ InSyscall(c, "SYS_env_destroy")
    /\ \E envid \in EnvIds :
          /\ UserMay(c, "SYS_env_destroy", envid)
          /\ Leave(c, trap_return(sys_env_destroy(Now, c, envid), c))

SysYield(c) ==
    /\ InSyscall(c, "SYS_yield")
    /\ Leave(c, sched_yield(Now, c))

SysExofork(c) ==
    /\ InSyscall(c, "SYS_exofork")
    /\ \E vm \in {"ok", "E_NO_MEM", "E_NO_MEM_late"} :
          Leave(c, trap_return(sys_exofork(Now, c, vm), c))

SysEnvSetStatus(c) ==
    /\ InSyscall(c, "SYS_env_set_status")
    /\ \E envid \in EnvIds, status \in {"ENV_RUNNABLE", "ENV_NOT_RUNNABLE", "ENV_FREE"} :
          /\ UserMay(c, "SYS_env_set_status", envid)
          /\ Leave(c, trap_return(sys_env_set_status(Now, c, envid, status), c))

SysEnvSetPgfaultUpcall(c) ==
    /\ InSyscall(c, "SYS_env_set_pgfault_upcall")
    /\ \E envid \in EnvIds, func \in BOOLEAN :
          Leave(c, trap_return(sys_env_set_pgfault_upcall(Now, c, envid, func), c))

SysIpcTrySend(c) ==
    /\ InSyscall(c, "SYS_ipc_try_send")
    /\ \E envid \in EnvIds, value \in Values, srcva \in {"page", "UTOP"},
          page \in {"ok", "E_INVAL", "E_NO_MEM"} :
          Leave(c, trap_return(sys_ipc_try_send(Now, c, envid, value, srcva, page), c))

SysIpcRecv(c) ==
    /\ InSyscall(c, "SYS_ipc_recv")
    /\ \E dstva \in {"page", "UTOP", "unaligned"} :
          Leave(c, trap_return(sys_ipc_recv(Now, c, dstva), c))

syscall(c) ==
    \/ SysCputs(c) \/ SysGet(c) \/ SysEnvDestroy(c) \/ SysYield(c)
    \/ SysExofork(c) \/ SysEnvSetStatus(c) \/ SysEnvSetPgfaultUpcall(c)
    \/ SysIpcTrySend(c) \/ SysIpcRecv(c)

\* sched_halt found nothing left to run: the monitor reads commands for ever.
monitor(c) ==
    /\ pc[c] = "monitor"
    /\ UNCHANGED vars

Panicked == \E c \in CPU : pc[c] = "panic"

\* After a panic no CPU goes on.
Halt == Panicked /\ UNCHANGED vars

-----------------------------------------------------------------------------
Init ==
    /\ envs = env_init
    /\ env_free_list = 0
    /\ curenv = [c \in CPU |-> NULL]
    /\ cpu_status = [c \in CPU |-> "CPU_STARTED"]
    /\ kernel_lock = TRUE
    /\ pc = [c \in CPU |-> IF c = BSP THEN "boot" ELSE "mp_main"]
    /\ trapno = [c \in CPU |-> "none"]

Step(c) ==
    \/ TimerInterrupt(c) \/ UserTrap(c) \/ spin_lock(c) \/ env_pop_tf(c)
    \/ env_create(c) \/ boot_yield(c) \/ mp_main(c)
    \/ trap_dying(c) \/ trap_timer(c) \/ trap_pgflt(c) \/ trap_other(c)
    \/ syscall(c) \/ monitor(c)

Next == (~Panicked /\ \E c \in CPU : Step(c)) \/ Halt

Spec == Init /\ [][Next]_vars

\* The steps of a handler under the lock.
InKernelStep(c) ==
    \/ env_create(c) \/ boot_yield(c) \/ mp_main(c)
    \/ trap_dying(c) \/ trap_timer(c) \/ trap_pgflt(c) \/ trap_other(c)
    \/ syscall(c)

\* What the hardware and the code give a CPU.  A handler runs to its end
\* and an iretq completes.  The LAPIC timer is periodic and its interrupt
\* stays pending while the kernel runs with interrupts off, so it is taken
\* at the latest when the CPU is back in user mode, however often the
\* environment enters the kernel.  'while (xchg(&lk->locked, 1) != 0)' has
\* no order among the CPUs that spin: a CPU gets kernel_lock for certain
\* only if the lock stays free, and may lose every race while the others
\* take and release it.
Fairness ==
    \A c \in CPU :
        /\ WF_vars(~Panicked /\ InKernelStep(c))
        /\ WF_vars(~Panicked /\ env_pop_tf(c))
        /\ SF_vars(~Panicked /\ TimerInterrupt(c))
        /\ WF_vars(~Panicked /\ spin_lock(c))

FairSpec == Spec /\ Fairness

-----------------------------------------------------------------------------
(* Properties *)

Env == [env_id : EnvIds, env_parent_id : EnvIds, env_status : Status,
        env_link : EnvIdx \cup {NULL}, env_pml4e : BOOLEAN,
        env_pgfault_upcall : BOOLEAN, env_ipc_recving : BOOLEAN,
        env_ipc_dstva : {"page", "UTOP"}, env_ipc_from : EnvIds,
        env_ipc_value : Values \cup {0}, env_ipc_perm : {0, 1}]

\* The variables keep their C types; for env_id that is what
\* 'if (generation <= 0)' in env_alloc is for: an envid_t is never negative.
TypeOK ==
    /\ envs \in [EnvIdx -> Env]
    /\ env_free_list \in EnvIdx \cup {NULL}
    /\ curenv \in [CPU -> EnvIdx \cup {NULL}]
    /\ cpu_status \in [CPU -> {"CPU_STARTED", "CPU_HALTED"}]
    /\ kernel_lock \in BOOLEAN
    /\ pc \in [CPU -> {"boot", "mp_main", "trap", "kernel", "iret", "user",
                       "halted", "monitor", "panic"}]
    /\ trapno \in [CPU -> Traps \cup {"none"}]

\* The CPUs that have e as their curenv; a CPU that sched_halt has dropped
\* into the monitor has not cleared its curenv and runs nothing any more.
CpusOf(e) == {c \in CPU : curenv[c] = e /\ pc[c] # "monitor"}

\* An environment is ENV_RUNNING or ENV_DYING exactly when it is the curenv
\* of one CPU, and otherwise of none: env_run, sched_halt and env_destroy
\* keep env_status and the cpu_env of every CPU in step, whichever CPU
\* destroys or reschedules the environment.
CurenvMatchesStatus ==
    \A e \in EnvIdx :
        Cardinality(CpusOf(e)) = IF envs[e].env_status \in OnCpu THEN 1 ELSE 0

\* "A process whose status is Running is the curenv of exactly one CPU", and
\* sched_yield "never choose[s] an environment that's currently running on
\* another CPU".
RunningOnOneCpu ==
    \A e \in EnvIdx :
        envs[e].env_status = "ENV_RUNNING" => Cardinality(CpusOf(e)) = 1

\* env_destroy leaves an environment that runs on another CPU to that CPU:
\* no CPU has a freed environment as its curenv.
NoCpuOnFreeEnv ==
    \A c \in CPU : curenv[c] # NULL => envs[curenv[c]].env_status # "ENV_FREE"

\* The slots reached from env_free_list over env_link, at most n of them.
RECURSIVE free_list(_, _)
free_list(e, n) ==
    IF e = NULL \/ n = 0 THEN <<>>
    ELSE <<e>> \o free_list(envs[e].env_link, n - 1)

\* env_free_list holds every ENV_FREE slot once and no other slot, and ends:
\* env_alloc takes a slot off the list only when it cannot fail any more,
\* and env_free puts back each slot once.
FreeListExact ==
    LET l == free_list(env_free_list, NENV + 1) IN
    /\ Len(l) <= NENV
    /\ IsInjective(l)
    /\ ToSet(l) = EnvIdx \ Allocated

\* kernel_lock is held exactly when one CPU is in the kernel, and never are
\* two: lock_kernel on every way in, unlock_kernel in env_run and sched_halt
\* on every way out.
BigKernelLock ==
    Cardinality({c \in CPU : pc[c] \in {"boot", "kernel", "monitor", "panic"}})
        = IF kernel_lock THEN 1 ELSE 0

\* "For every non-Free Env e, e.id has its low bits equal to its table
\* index", and no two environments have one id: envid2env finds the slot of
\* an id by ENVX, through every reuse of a slot and the wrap of generation.
EnvIdsWellFormed ==
    \A e \in Allocated : envs[e].env_id > 0 /\ ENVX(envs[e].env_id) = e

\* An environment is destroyed by a step of its own CPU or in a system call
\* of its parent, never by another environment: sys_env_destroy resolves
\* the id with checkperm set.
Gone == {"ENV_FREE", "ENV_DYING"}
DestroyedBySelfOrParent ==
    [][\A e \in EnvIdx :
          envs[e].env_status \notin Gone /\ envs'[e].env_status \in Gone =>
             \E c \in CPU :
                /\ pc[c] = "kernel" /\ curenv[c] # NULL
                /\ \/ curenv[c] = e
                   \/ envs[e].env_parent_id = envs[curenv[c]].env_id]_vars

\* 'if there are no runnable environments in the system, then drop into the
\* kernel monitor': the monitor keeps kernel_lock for ever, so a CPU may
\* enter it only when no environment is left that runs, is about to run or
\* has still to be freed by its CPU.  Whatever is on another CPU then, in
\* user mode or between the unlock of env_run and its iretq, would spin on
\* the lock at its next trap and never be freed or run again.
MonitorStrandsNobody ==
    (\E c \in CPU : pc[c] = "monitor") =>
        \A e \in EnvIdx : envs[e].env_status \notin OnCpu \cup {"ENV_RUNNABLE"}

\* 'Halt this CPU when there is nothing to do': a CPU goes into hlt only in
\* a step that leaves no environment ENV_RUNNABLE, whichever slot the scan
\* of sched_yield started from and whatever the handler did to the table
\* before it yielded (an exit, a destroyed child, a receiver put to sleep).
HaltsOnlyWhenIdle ==
    [][\A c \in CPU :
          pc[c] # "halted" /\ pc'[c] = "halted" =>
             \A e \in EnvIdx : envs'[e].env_status # "ENV_RUNNABLE"]_vars

\* An environment that waits in sys_ipc_recv is ENV_NOT_RUNNABLE until a
\* sender wakes it, so that no CPU runs it with env_ipc_recving set.
ReceiverBlocked ==
    \A e \in Allocated :
        envs[e].env_ipc_recving => envs[e].env_status = "ENV_NOT_RUNNABLE"

\* A message is delivered only to an environment that waits for one, and
\* ends the wait: env_ipc_from, env_ipc_value and env_ipc_perm change in no
\* other step, so a second sender cannot overwrite what the receiver has not
\* read yet ("ipc_try_send to a non-recving target returns IpcNotRecv;
\* target's IPC fields unchanged").
ipc_message(e) == <<e.env_ipc_from, e.env_ipc_value, e.env_ipc_perm>>
MessageDeliveredOnce ==
    [][\A e \in EnvIdx :
          ipc_message(envs'[e]) # ipc_message(envs[e]) =>
             /\ envs[e].env_ipc_recving /\ ~envs'[e].env_ipc_recving
             /\ envs'[e].env_status = "ENV_RUNNABLE"]_vars

-----------------------------------------------------------------------------
(* What the specification promises and the code does not give *)

\* "env_destroy on a process running elsewhere marks it Dying; its next
\* kernel entry (next timer tick or syscall) observes the state and
\* self-destructs": a dying environment is freed.  The trap of its CPU
\* spins in spin_lock first, and this does NOT hold under Fairness: the
\* xchg loop of spinlock.c:71 lets the other CPU, which leaves hlt at
\* every timer interrupt, take kernel_lock each time it is free
\* (DyingSpins.cfg).  It holds of a lock that serves its waiters in turn.
DyingEventuallyFreed ==
    \A e \in EnvIdx :
        envs[e].env_status = "ENV_DYING" ~> envs[e].env_status = "ENV_FREE"

\* "yield() scans the process table starting one slot past the last-run
\* slot on this CPU, wrapping, picking the first Runnable": round-robin,
\* under which an environment that is ENV_RUNNABLE does not wait for ever
\* while the CPU takes timer interrupts and runs sched_yield; it is run, or
\* its parent changes or destroys it, unless the kernel panics first.  The
\* code does NOT give this: when the environment of the CPU was freed,
\* curenv is NULL and the scan starts again at slot 1 (sched.c:50), so the
\* slots behind one that forks children that exit are never reached
\* (SchedStarvation.cfg).
RunnableIsScheduled ==
    \A e \in EnvIdx :
        envs[e].env_status = "ENV_RUNNABLE"
            ~> (envs[e].env_status # "ENV_RUNNABLE" \/ Panicked)

=============================================================================
