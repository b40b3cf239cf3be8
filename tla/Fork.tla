-------------------------------- MODULE Fork --------------------------------
(***************************************************************************)
(* The copy-on-write fork of lib/fork.c (pgfault, duppage, fork) run by    *)
(* user programs over the kernel of module Memory.                         *)
(*                                                                         *)
(* A step is one system call, or one piece of user code between two        *)
(* system calls: a store to memory, the memmove of pgfault, the read of    *)
(* uvpt in duppage.  Every environment that is ENV_RUNNABLE may take the   *)
(* next step, so the system calls of a parent and of its child interleave  *)
(* as they do on two CPUs or under the timer.  A frame holds one value;    *)
(* an environment stores values of its own, which tells whose store is     *)
(* seen where.                                                             *)
(*                                                                         *)
(* The page-fault path of the kernel (kern/trap.c), set_pgfault_handler    *)
(* (lib/pgfault.c) and panic (lib/panic.c) are not in the repository and   *)
(* are written from the specification.                                     *)
(***************************************************************************)
EXTENDS Memory

CONSTANTS
    PFTEMP,     \* the page pgfault maps its copy at
    STACK,      \* the page of the user stack
    UXSTACK,    \* the page of the user exception stack, just below UTOP
    MaxForks    \* bound: the calls of fork of the first program; a child makes none

VARIABLES
    mem,        \* mem[f]: what frame f holds
    upcall,     \* upcall[e]: env_pgfault_upcall of e is set
    u           \* u[e]: where the program of e is, and its variables

fvars == <<vars, mem, upcall, u>>

UserPages == VA \ {PFTEMP, UXSTACK}     \* what programs store to

ASSUME /\ {PFTEMP, STACK, UXSTACK} \subseteq VA /\ UXSTACK = UTOP - 1
       /\ STACK \in BootPages /\ BootPages = UserPages

PU  == {"PTE_P", "PTE_U"}
PUW == PU \cup {"PTE_W"}
PUC == PU \cup {"PTE_COW"}

\* What e stores, and the zero of a page from page_alloc(ALLOC_ZERO).
Values(e) == {2 * e + 1, 2 * e + 2}
Zero      == 0

\* Where user code outside pgfault is: the program itself, and fork between
\* its system calls.
ForkCode == {"exofork", "loop", "duppage", "set_upcall", "set_status"}
Code     == {"main"} \cup ForkCode
InFault  == {"pgfault", "pf_copy", "pf_map", "pf_unmap", "retry"}
Ended    == {"exited", "killed", "panic", "panic_no_mem", "panic_not_cow"}

NoProgram == [pc |-> "exited", ret |-> "main", addr |-> STACK, child |-> NULL,
              pn |-> 0, calls |-> <<>>, handler |-> FALSE, forks |-> 0]

Running(e) == mode = "run" /\ envs[e].env_status = "ENV_RUNNABLE"

Goto(e, pc) == u' = [u EXCEPT ![e].pc = pc]

\* The kernel leaves the state M.  Every frame it hands out is filled with
\* zeroes (ALLOC_ZERO in sys_page_alloc, in the walk and in env_setup_vm),
\* so what a free frame holds is read by nobody: it is Zero here from the
\* moment the frame is free.
Apply(M) ==
    /\ Set(M)
    /\ mem' = [f \in Frame |-> IF M.pp_ref[f] = 0 THEN Zero ELSE mem[f]]

-----------------------------------------------------------------------------
(* The kernel and the library around fork.c, from the specification *)

\* env_destroy of e by the kernel.
Destroy(e, why) ==
    /\ Apply(env_free(Now, e))
    /\ u' = [u EXCEPT ![e] = [NoProgram EXCEPT !.pc = why]]
    /\ UNCHANGED upcall

\* panic() of a user program ends the environment.
panic(e, r) ==
    Destroy(e, IF r = E_NO_MEM THEN "panic_no_mem" ELSE "panic")

\* A system call with the result r whose failure is a panic of the caller.
Try(e, r, next) ==
    IF r.r < 0 THEN panic(e, r.r)
    ELSE Apply(r.M) /\ Goto(e, next) /\ UNCHANGED upcall

\* page_fault_handler: the fault goes to the upcall on the exception
\* stack; an environment without one is destroyed.
page_fault_handler(e, va, ret) ==
    LET x == pte[e][UXSTACK] IN
    IF upcall[e] /\ x # NULL /\ "PTE_W" \in x.perm
    THEN /\ u' = [u EXCEPT ![e].pc = "pgfault", ![e].addr = va, ![e].ret = ret]
         /\ UNCHANGED <<vars, mem, upcall>>
    ELSE Destroy(e, "killed")

\* A store of v to the page va by e; the program goes on at ret.
Store(e, va, v, ret) ==
    LET p == pte[e][va] IN
    IF p # NULL /\ "PTE_W" \in p.perm
    THEN /\ mem' = [mem EXCEPT ![p.pa] = v]
         /\ Goto(e, ret)
         /\ UNCHANGED <<vars, upcall>>
    ELSE page_fault_handler(e, va, ret)

\* The program calls fork, which begins with set_pgfault_handler: the
\* first call allocates the exception stack and installs the upcall.
set_pgfault_handler(e) ==
    LET r == sys_page_alloc(Now, e, e, UXSTACK, PUW) IN
    /\ u[e].pc = "main" /\ u[e].forks < MaxForks
    /\ IF u[e].handler
       THEN /\ u' = [u EXCEPT ![e].pc = "exofork", ![e].forks = @ + 1]
            /\ UNCHANGED <<vars, mem, upcall>>
       ELSE IF r.r < 0 THEN panic(e, r.r)
       ELSE /\ Apply(r.M)
            /\ upcall' = [upcall EXCEPT ![e] = TRUE]
            /\ u' = [u EXCEPT ![e].pc = "exofork", ![e].handler = TRUE,
                              ![e].forks = @ + 1]

-----------------------------------------------------------------------------
(* lib/fork.c *)

\* The permissions pgfault maps its copy with.
pgfault_perm_read_only == PU
pgfault_perm == PUW

\* pgfault: the test of PTE_COW and sys_page_alloc; memmove; sys_page_map;
\* sys_page_unmap, after which the store is executed again.  The test of
\* FEC_WR before the first passes: Write is the only access that faults.
pgfault(e) ==
    LET addr == u[e].addr
        p    == pte[e][addr]
    IN  \/ /\ u[e].pc = "pgfault"
           /\ IF p = NULL \/ "PTE_COW" \notin p.perm
              THEN Destroy(e, "panic_not_cow")
              ELSE Try(e, sys_page_alloc(Now, e, e, PFTEMP, PUW), "pf_copy")
        \/ /\ u[e].pc = "pf_copy"
           /\ mem' = [mem EXCEPT ![pte[e][PFTEMP].pa] = mem[p.pa]]
           /\ Goto(e, "pf_map")
           /\ UNCHANGED <<vars, upcall>>
        \/ /\ u[e].pc = "pf_map"
           /\ Try(e, sys_page_map(Now, e, e, PFTEMP, e, addr, pgfault_perm),
                  "pf_unmap")
        \/ /\ u[e].pc = "pf_unmap"
           /\ Try(e, sys_page_unmap(Now, e, e, PFTEMP), "retry")

\* duppage that marks the page copy-on-write in the parent first.
duppage_parent_first(e, envid, va) ==
    IF pte[e][va].perm \cap {"PTE_W", "PTE_COW"} # {}
    THEN <<[dst |-> e, perm |-> PUC], [dst |-> envid, perm |-> PUC]>>
    ELSE <<[dst |-> envid, perm |-> PU]>>

\* duppage: the calls of sys_page_map it makes for the page va, in order.
duppage(e, envid, va) ==
    IF pte[e][va].perm \cap {"PTE_W", "PTE_COW"} # {}
    THEN <<[dst |-> envid, perm |-> PUC], [dst |-> e, perm |-> PUC]>>
    ELSE <<[dst |-> envid, perm |-> PU]>>

\* fork that goes on with whatever sys_exofork returned.
ForkExofork_unchecked(e) ==
    /\ u[e].pc = "exofork"
    /\ \/ /\ Free = {}
          /\ u' = [u EXCEPT ![e].pc = "loop", ![e].child = E_NO_FREE_ENV]
          /\ UNCHANGED <<vars, mem, upcall>>
       \/ \E c \in Free :
            LET r == sys_exofork(Now, e, c) IN
            /\ Apply(r.M)
            /\ upcall' = [upcall EXCEPT ![c] = FALSE]
            /\ u' = [u EXCEPT ![e].pc = "loop", ![e].child = r.r, ![e].pn = 0,
                              ![c] = [u[e] EXCEPT !.pc = "main",
                                                       !.forks = MaxForks]]

\* sys_exofork: the child is a copy of the parent's registers that returns
\* 0 from the call when it is first run.
ForkExofork(e) ==
    /\ u[e].pc = "exofork"
    /\ \/ Free = {} /\ panic(e, E_NO_FREE_ENV)
       \/ \E c \in Free :
            LET r == sys_exofork(Now, e, c) IN
            IF r.r < 0 THEN panic(e, r.r)
            ELSE /\ Apply(r.M)
                 /\ upcall' = [upcall EXCEPT ![c] = FALSE]
                 /\ u' = [u EXCEPT ![e].pc = "loop", ![e].child = r.r, ![e].pn = 0,
                                   ![c] = [u[e] EXCEPT !.pc = "main",
                                                       !.forks = MaxForks]]

\* The pages the loop of fork has still to look at.
ToDup(e) == {va \in VA : va >= u[e].pn /\ va # UXSTACK /\ pte[e][va] # NULL}

\* The loop over uvpt up to the next page that is present, and duppage's
\* read of its entry; after the last page, the child's exception stack.
ForkLoop(e) ==
    /\ u[e].pc = "loop"
    /\ IF ToDup(e) = {}
       THEN Try(e, sys_page_alloc(Now, e, u[e].child, UXSTACK, PUW), "set_upcall")
       ELSE /\ u' = [u EXCEPT ![e].pc = "duppage", ![e].pn = Min(ToDup(e)),
                              ![e].calls = duppage(e, u[e].child, Min(ToDup(e)))]
            /\ UNCHANGED <<vars, mem, upcall>>

\* The next sys_page_map of duppage.
ForkDuppage(e) ==
    LET c    == Head(u[e].calls)
        r    == sys_page_map(Now, e, e, u[e].pn, c.dst, u[e].pn, c.perm)
        last == Len(u[e].calls) = 1
    IN  /\ u[e].pc = "duppage"
        /\ IF r.r < 0 THEN panic(e, r.r)
           ELSE /\ Apply(r.M)
                /\ u' = [u EXCEPT ![e].calls = Tail(@),
                                  ![e].pn = IF last THEN @ + 1 ELSE @,
                                  ![e].pc = IF last THEN "loop" ELSE "duppage"]
                /\ UNCHANGED upcall

\* fork that returns after sys_env_set_pgfault_upcall and leaves out
\* sys_env_set_status.
ForkStart_forgets_status(e) ==
    LET r == envid2env(Now, e, u[e].child, TRUE) IN
    /\ u[e].pc = "set_upcall"
    /\ IF r < 0 THEN panic(e, r)
       ELSE /\ upcall' = [upcall EXCEPT ![u[e].child] = TRUE]
            /\ Goto(e, "main")
            /\ UNCHANGED <<vars, mem>>

\* sys_env_set_pgfault_upcall and sys_env_set_status of the child.
ForkStart(e) ==
    LET r == envid2env(Now, e, u[e].child, TRUE) IN
    \/ /\ u[e].pc = "set_upcall"
       /\ IF r < 0 THEN panic(e, r)
          ELSE /\ upcall' = [upcall EXCEPT ![u[e].child] = TRUE]
               /\ Goto(e, "set_status")
               /\ UNCHANGED <<vars, mem>>
    \/ /\ u[e].pc = "set_status"
       /\ IF r < 0 THEN panic(e, r)
          ELSE /\ Apply(sys_env_set_status(Now, e, u[e].child, "ENV_RUNNABLE"))
               /\ Goto(e, "main")
               /\ UNCHANGED upcall

-----------------------------------------------------------------------------
(* User programs *)

\* A store of the program to its data or its stack, or of fork to the stack
\* between two calls.
Write(e) ==
    \/ /\ u[e].pc \in Code
       /\ \E v \in Values(e) : Store(e, STACK, v, u[e].pc)
    \/ /\ u[e].pc = "main"
       /\ \E va \in UserPages \ {STACK} : Store(e, va, Min(Values(e)), "main")

\* The store that faulted, executed again after the upcall.
Retry(e) ==
    /\ u[e].pc = "retry"
    /\ \E v \in Values(e) : Store(e, u[e].addr, v, u[e].ret)

\* A program makes a page of its data read-only.
Protect(e) ==
    /\ u[e].pc = "main"
    /\ \E va \in UserPages \ {STACK} :
         Apply(sys_page_map(Now, e, e, va, e, va, PU).M)
    /\ UNCHANGED <<upcall, u>>

\* exit(): sys_env_destroy(0).
Exit(e) == u[e].pc = "main" /\ Destroy(e, "exited")

\* i386_init: one environment is created and run.
Boot ==
    LET M == env_create(Now, 0) IN
    /\ mode = "boot"
    /\ Set(IF M.mode = "boot" THEN [M EXCEPT !.mode = "run"] ELSE M)
    /\ u' = [u EXCEPT ![0].pc = "main"]
    /\ UNCHANGED <<mem, upcall>>

ForkHalt == Halt /\ UNCHANGED <<mem, upcall, u>>

Step(e) ==
    /\ Running(e)
    /\ \/ Write(e) \/ Retry(e) \/ pgfault(e)
       \/ set_pgfault_handler(e) \/ ForkExofork(e) \/ ForkLoop(e)
       \/ ForkDuppage(e) \/ ForkStart(e)
       \/ Protect(e) \/ Exit(e)

ForkInit ==
    /\ Init
    /\ mem = [f \in Frame |-> Zero]
    /\ upcall = [e \in Env |-> FALSE]
    /\ u = [e \in Env |-> NoProgram]

ForkNext ==
    \/ Boot
    \/ \E e \in Env : Running(e) /\ Write(e)
    \/ \E e \in Env : Running(e) /\ Retry(e)
    \/ \E e \in Env : Running(e) /\ pgfault(e)
    \/ \E e \in Env : Running(e) /\ set_pgfault_handler(e)
    \/ \E e \in Env : Running(e) /\ ForkExofork(e)
    \/ \E e \in Env : Running(e) /\ ForkLoop(e)
    \/ \E e \in Env : Running(e) /\ ForkDuppage(e)
    \/ \E e \in Env : Running(e) /\ ForkStart(e)
    \/ \E e \in Env : Running(e) /\ Protect(e)
    \/ \E e \in Env : Running(e) /\ Exit(e)
    \/ ForkHalt

ForkSpec == ForkInit /\ [][ForkNext]_fvars

\* An environment that can run is run again and again: sched_yield goes
\* round the table and the timer takes the CPU from whoever holds it.
\* This is WF_fvars(Step(e)) with Running(e) written for ENABLED
\* <<Step(e)>>_fvars: a program that runs is at a pc of Code or InFault
\* (ForkTypeOK), and at each of them a step of its own changes its pc or
\* ends it.
Fairness ==
    \A e \in Env : []<>(~Running(e)) \/ []<><<Step(e)>>_fvars

FairForkSpec == ForkSpec /\ Fairness

-----------------------------------------------------------------------------
(* Properties *)

\* The variables keep their types: fork panics on a negative result of
\* sys_exofork before it uses it as the child's id.  And an environment
\* that is ENV_RUNNABLE has a program that goes on: env_destroy after a
\* panic, an exit or a fault without upcall frees the slot.
ForkTypeOK ==
    /\ TypeOK
    /\ mem \in [Frame -> 0 .. 2 * Cardinality(Env)]
    /\ upcall \in [Env -> BOOLEAN]
    /\ u \in [Env -> [pc : Code \cup InFault \cup Ended, ret : Code, addr : VA,
                      child : Env \cup {NULL}, pn : 0 .. UTOP,
                      calls : Seq([dst : Env, perm : SUBSET PTE_SYSCALL]),
                      handler : BOOLEAN, forks : 0 .. MaxForks]]
    /\ \A e \in Env : Running(e) => u[e].pc \notin Ended

\* "Parent and child observe independent post-copy content": what an
\* environment that runs reads from a page of its own changes only by a
\* store of its own.  duppage shares every writable page of the parent
\* with the child while the parent goes on storing to its stack, and
\* pgfault replaces a shared frame by a copy in three calls; the other
\* side runs in between.
PrivateMemory ==
    [][\A e \in Env, va \in UserPages :
         LET old == pte[e][va]
             new == pte'[e][va]
         IN  (/\ envs[e].env_status = "ENV_RUNNABLE"
              /\ envs'[e].env_status = "ENV_RUNNABLE"
              /\ old # NULL /\ new # NULL
              /\ mem'[new.pa] # mem[old.pa])
             => mem'[new.pa] \in Values(e) /\ u[e].pc \in Code \cup {"retry"}]_fvars

\* A store to a copy-on-write page is done in the end, unless pgfault finds
\* no memory for the copy: the three calls of pgfault leave the page
\* writable, and the store that is executed again does not fault again.
StoreCompletes ==
    \A e \in Env :
        (u[e].pc = "pgfault" /\ pte[e][u[e].addr] # NULL
                             /\ "PTE_COW" \in pte[e][u[e].addr].perm)
            ~> (u[e].pc \in Code \cup {"panic_no_mem"})

\* Where fork is between sys_exofork and the end of the call that starts
\* the child, the faults it takes on its own stack on the way included.
StartingChild(e, c) ==
    /\ envs[e].env_status = "ENV_RUNNABLE" /\ u[e].child = c
    /\ LET at == IF u[e].pc \in InFault THEN u[e].ret ELSE u[e].pc
       IN  at \in ForkCode \ {"exofork"}

\* 'panic("...")' after every call of fork: an environment is
\* ENV_NOT_RUNNABLE only while its parent is inside fork and still on its
\* way to sys_env_set_status, through every fault the parent takes while
\* duppage turns its stack copy-on-write under it and the other child runs.
\* fork does not return, exit or lose track of the child before it has
\* started it, with one exception: the parent that runs out of memory
\* panics, and its child stays behind with its frames and with nobody left
\* who may start or free it.
OrphanOnlyByPanic ==
    \A c \in Env :
        envs[c].env_status = "ENV_NOT_RUNNABLE" =>
            LET parent == envs[c].env_parent_id IN
            StartingChild(parent, c) \/ u[parent].pc = "panic_no_mem"

=============================================================================
