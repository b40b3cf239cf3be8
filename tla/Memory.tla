------------------------------- MODULE Memory -------------------------------
(***************************************************************************)
(* Physical frames and their reference counts, the page tables of the      *)
(* address spaces, and the code that changes them: env_setup_vm,           *)
(* region_alloc, load_icode and env_free of kern/env.c, and sys_page_alloc,*)
(* sys_page_map and sys_page_unmap of kern/syscall.c.                      *)
(*                                                                         *)
(* kern/pmap.c is not in the repository: page_alloc, page_free,            *)
(* page_decref, pml4e_walk, page_insert, page_remove and page_lookup are   *)
(* written from the specification (4.1 PhysAlloc, 4.2 VMem).               *)
(*                                                                         *)
(* The functions are operators from a memory state M to the state they     *)
(* leave (and their result).  The big kernel lock makes a system call one  *)
(* step.  The tables below a PML4 are the tables env_setup_vm creates for *)
(* the window UTOP .. KERNBASE (the PDPT of slot 0 is the first of them),  *)
(* and for every user page the tables Levels[va] the walk to its entry     *)
(* goes through: the page table PTX[va] alone, unless a model names the    *)
(* PDPT and the page directory too.  An environment id is the slot it      *)
(* names; the generations are in module Kernel.                            *)
(***************************************************************************)
EXTENDS Integers, FiniteSets, Sequences, FiniteSetsExt, SequencesExt

CONSTANTS
    Env,        \* the slots of envs[], numbers from 0
    NPAGES,     \* frames page_init put on the free list
    VA,         \* the user pages (page numbers below UTOP) programs name
    PTX,        \* PTX[va], the page table that holds the entry of va
    KTABLES,    \* tables the walk of the window creates in env_setup_vm
    BootPages,  \* pages of the segments and the stack load_icode maps
    REFBITS,    \* width of pp_ref (16 in inc/memlayout.h)
    Perms,      \* the 'perm' arguments user programs pass
    NULL

VARIABLES
    pp_ref,          \* pages[f].pp_ref
    page_free_list,  \* the frames linked by pp_link, head first
    envs,            \* env_status, env_parent_id and env_pml4e of every slot
    pgtab,           \* pgtab[e][t]: the frame of table t of e, or NULL
    pte,             \* pte[e][va]: the leaf entry of va, or NULL for 0
    mode             \* "boot", "run", or the panic that stopped the kernel

vars == <<pp_ref, page_free_list, envs, pgtab, pte, mode>>

Frame      == 0 .. NPAGES - 1
SetupTable == 1 .. Max({KTABLES, 1})
\* The tables the walk to the entry of va goes through, from the PML4 down:
\* the last one unless a model gives all three.
Levels     == [va \in VA |-> <<PTX[va]>>]
Table      == SetupTable \cup UNION {Range(Levels[va]) : va \in VA}
UTOP       == Max(VA) + 1            \* stands for every address refused

ASSUME /\ Env \subseteq Nat /\ VA \subseteq Nat
       /\ BootPages \subseteq VA /\ BootPages # {}
       /\ DOMAIN PTX = VA /\ \A va \in VA : PTX[va] \in Nat \ SetupTable
       /\ KTABLES \in Nat /\ REFBITS \in Nat \ {0}

\* The bits of a page table entry that the code tells apart.  PTE_COW is
\* one of PTE_AVAIL; PTE_PCD stands for the low bits outside PTE_SYSCALL,
\* BIT12 for the bits of an int above the low twelve.
PTE_SYSCALL == {"PTE_P", "PTE_U", "PTE_W", "PTE_COW"}
LowBits     == PTE_SYSCALL \cup {"PTE_PCD"}
Bits        == LowBits \cup {"BIT12"}

E_BAD_ENV     == -2
E_INVAL       == -3
E_NO_MEM      == -4
E_NO_FREE_ENV == -5

Now == [pp_ref |-> pp_ref, page_free_list |-> page_free_list, envs |-> envs,
        pgtab |-> pgtab, pte |-> pte, mode |-> mode]

Panic(M, what) == [M EXCEPT !.mode = what]

NoTables == [t \in Table |-> NULL]
NoPages  == [va \in VA |-> NULL]

-----------------------------------------------------------------------------
(* inc/memlayout.h, kern/pmap.h and, from the specification, kern/pmap.c *)

\* pp->pp_ref++ on a uint16_t.
incref(M, pp) == [M EXCEPT !.pp_ref[pp] = (@ + 1) % 2 ^ REFBITS]

\* page2pa(pp) | perm: the frame number is shifted to bit 12, where the
\* bits of perm above the low twelve are or-ed into it.
page2pte(pp, perm) ==
    [pa   |-> IF "BIT12" \in perm THEN pp + 1 - (pp % 2) ELSE pp,
     perm |-> perm \cap LowBits]

\* pa2page panics on a frame number the machine does not have.
pa2page_ok(pa) == pa \in Frame

page_alloc(M) ==
    IF M.page_free_list = <<>> THEN [M |-> M, pp |-> NULL]
    ELSE [M |-> [M EXCEPT !.page_free_list = Tail(@)],
          pp |-> Head(M.page_free_list)]

\* pp_link is not null for every frame of the list but the last.
page_free(M, pp) ==
    IF M.pp_ref[pp] # 0 \/ Contains(Front(M.page_free_list), pp)
    THEN Panic(M, "page_free")
    ELSE [M EXCEPT !.page_free_list = Cons(pp, @)]

page_decref(M, pp) ==
    LET M1 == [M EXCEPT !.pp_ref[pp] = (@ - 1) % 2 ^ REFBITS]
    IN  IF M1.pp_ref[pp] = 0 THEN page_free(M1, pp) ELSE M1

page_lookup(M, e, va) == M.pte[e][va]

page_remove(M, e, va) ==
    LET p == page_lookup(M, e, va) IN
    IF p = NULL THEN M
    ELSE IF ~pa2page_ok(p.pa) THEN Panic(M, "pa2page")
    ELSE [page_decref(M, p.pa) EXCEPT !.pte[e][va] = NULL]

\* One level of the walk with create = 1: a missing table is allocated and
\* counted.  ok is FALSE when there is no frame for it.
walk_level(M, e, t) ==
    LET a == page_alloc(M) IN
    IF M.pgtab[e][t] # NULL THEN [M |-> M, ok |-> TRUE]
    ELSE IF a.pp = NULL THEN [M |-> M, ok |-> FALSE]
    ELSE [M |-> [incref(a.M, a.pp) EXCEPT !.pgtab[e][t] = a.pp], ok |-> TRUE]

\* Tables one after the other, until one cannot be had; the tables made
\* before the failure stay.
RECURSIVE walk(_, _, _)
walk(M, e, ts) ==
    IF ts = <<>> THEN [M |-> M, ok |-> TRUE]
    ELSE LET w == walk_level(M, e, Head(ts)) IN
         IF w.ok THEN walk(w.M, e, Tail(ts)) ELSE w

\* The levels from the PML4 down; a walk that fails at a lower level gives
\* back the tables it made above it.
pml4e_walk(M, e, va) ==
    LET w == walk(M, e, Levels[va]) IN
    IF w.ok THEN w ELSE [M |-> M, ok |-> FALSE]

page_insert(M, e, pp, va, perm) ==
    LET w  == pml4e_walk(M, e, va)
        M1 == page_remove(incref(w.M, pp), e, va)
    IN  IF ~w.ok THEN [M |-> M, r |-> E_NO_MEM]
        ELSE [M |-> [M1 EXCEPT !.pte[e][va] = page2pte(pp, perm \cup {"PTE_P"})],
              r |-> 0]

-----------------------------------------------------------------------------
(* kern/env.c *)

\* The slot an id names for the caller cur, or E_BAD_ENV.
envid2env(M, cur, envid, checkperm) ==
    IF M.envs[envid].env_status = "ENV_FREE" THEN E_BAD_ENV
    ELSE IF checkperm /\ envid # cur /\ M.envs[envid].env_parent_id # cur
         THEN E_BAD_ENV
    ELSE envid

\* env_setup_vm without 'p->pp_ref++'.
env_setup_vm_no_incref(M, e) ==
    LET a  == page_alloc(M)
        M1 == [a.M EXCEPT !.envs[e].env_pml4e = a.pp,
                          !.pgtab[e] = NoTables,
                          !.pte[e] = NoPages]
        w  == walk(M1, e, SetToSortSeq(SetupTable, <))
    IN  IF a.pp = NULL THEN [M |-> M, r |-> E_NO_MEM]
        ELSE IF ~w.ok THEN [M |-> [page_decref(w.M, a.pp)
                                     EXCEPT !.pgtab[e] = NoTables],
                            r |-> E_NO_MEM]
        ELSE [M |-> w.M, r |-> 0]

\* A PML4, the tables of the window, and the PDPT of slot 0 when the window
\* made none.  When a table cannot be had the PML4 is released; the
\* tables made before stay counted, below a page that is free.
env_setup_vm(M, e) ==
    LET a  == page_alloc(M)
        M1 == [incref(a.M, a.pp) EXCEPT !.envs[e].env_pml4e = a.pp,
                                        !.pgtab[e] = NoTables,
                                        !.pte[e] = NoPages]
        w  == walk(M1, e, SetToSortSeq(SetupTable, <))
    IN  IF a.pp = NULL THEN [M |-> M, r |-> E_NO_MEM]
        ELSE IF ~w.ok THEN [M |-> [page_decref(w.M, a.pp)
                                     EXCEPT !.pgtab[e] = NoTables],
                            r |-> E_NO_MEM]
        ELSE [M |-> w.M, r |-> 0]

\* env_alloc of the slot e, which the caller found at the head of
\* env_free_list.
env_alloc(M, e, parent_id) ==
    LET s == env_setup_vm(M, e) IN
    IF s.r < 0 THEN s
    ELSE [M |-> [s.M EXCEPT !.envs[e].env_parent_id = parent_id,
                            !.envs[e].env_status = "ENV_RUNNABLE"],
          r |-> e]

\* One iteration of region_alloc; what page_alloc(0) leaves in the page is
\* not looked at.
region_page(M, e, va) ==
    LET a == page_alloc(M)
        i == page_insert(a.M, e, a.pp, va, {"PTE_U", "PTE_W"})
    IN  IF a.pp = NULL \/ i.r < 0 THEN Panic(M, "region_alloc") ELSE i.M

region_alloc(M, e, pages) ==
    FoldLeft(LAMBDA N, va : IF N.mode = "boot" THEN region_page(N, e, va) ELSE N,
             M, SetToSortSeq(pages, <))

\* The segments, then the stack; BootPages is both.
load_icode(M, e) == region_alloc(M, e, BootPages)

env_create(M, e) ==
    LET a == env_alloc(M, e, NULL) IN
    IF a.r < 0 THEN Panic(M, "env_create") ELSE load_icode(a.M, e)

\* env_free that does not release the page tables.
env_free_leaves_tables(M, e) ==
    LET pages  == SetToSortSeq({va \in VA : M.pte[e][va] # NULL}, <)
        M1     == FoldLeft(LAMBDA N, va : page_remove(N, e, va), M, pages)
        M2     == page_decref(M1, M.envs[e].env_pml4e)
    IN  [M2 EXCEPT !.pgtab[e] = NoTables, !.envs[e].env_pml4e = NULL,
                   !.envs[e].env_status = "ENV_FREE"]

\* Every user page is removed, every table, the PDPT and the PML4 are
\* released, the slot is free.
env_free(M, e) ==
    LET pages  == SetToSortSeq({va \in VA : M.pte[e][va] # NULL}, <)
        tables == SetToSortSeq({t \in Table : M.pgtab[e][t] # NULL}, >)
        M1     == FoldLeft(LAMBDA N, va : page_remove(N, e, va), M, pages)
        M2     == FoldLeft(LAMBDA N, t : page_decref(N, M.pgtab[e][t]), M1, tables)
        M3     == page_decref(M2, M.envs[e].env_pml4e)
    IN  [M3 EXCEPT !.pgtab[e] = NoTables, !.envs[e].env_pml4e = NULL,
                   !.envs[e].env_status = "ENV_FREE"]

-----------------------------------------------------------------------------
(* kern/syscall.c *)

sys_exofork(M, cur, e) ==
    LET a == env_alloc(M, e, cur) IN
    IF a.r < 0 THEN a
    ELSE [a EXCEPT !.M.envs[e].env_status = "ENV_NOT_RUNNABLE"]

sys_env_set_status(M, cur, envid, status) ==
    IF envid2env(M, cur, envid, TRUE) < 0 THEN M
    ELSE [M EXCEPT !.envs[envid].env_status = status]

sys_env_destroy(M, cur, envid) ==
    IF envid2env(M, cur, envid, TRUE) < 0 THEN M ELSE env_free(M, envid)

\* sys_page_alloc without the test of perm against PTE_SYSCALL.
sys_page_alloc_any_perm(M, cur, envid, va, perm) ==
    LET a == page_alloc(M)
        i == page_insert(a.M, envid, a.pp, va, perm \cup {"PTE_U", "PTE_P"})
    IN  IF envid2env(M, cur, envid, TRUE) < 0 THEN [M |-> M, r |-> E_BAD_ENV]
        ELSE IF va = UTOP THEN [M |-> M, r |-> E_INVAL]
        ELSE IF a.pp = NULL THEN [M |-> M, r |-> E_NO_MEM]
        ELSE IF i.r < 0 THEN [M |-> page_free(a.M, a.pp), r |-> E_NO_MEM]
        ELSE i

\* sys_page_alloc that forgets page_free(p) when page_insert fails.
sys_page_alloc_keeps_page(M, cur, envid, va, perm) ==
    LET a == page_alloc(M)
        i == page_insert(a.M, envid, a.pp, va, perm \cup {"PTE_U", "PTE_P"})
    IN  IF envid2env(M, cur, envid, TRUE) < 0 THEN [M |-> M, r |-> E_BAD_ENV]
        ELSE IF va = UTOP \/ (perm \cap LowBits) \ PTE_SYSCALL # {}
             THEN [M |-> M, r |-> E_INVAL]
        ELSE IF a.pp = NULL THEN [M |-> M, r |-> E_NO_MEM]
        ELSE IF i.r < 0 THEN [M |-> a.M, r |-> E_NO_MEM]
        ELSE i

sys_page_alloc(M, cur, envid, va, perm) ==
    LET a == page_alloc(M)
        i == page_insert(a.M, envid, a.pp, va, perm \cup {"PTE_U", "PTE_P"})
    IN  IF envid2env(M, cur, envid, TRUE) < 0 THEN [M |-> M, r |-> E_BAD_ENV]
        ELSE IF va = UTOP \/ (perm \cap LowBits) \ PTE_SYSCALL # {}
             THEN [M |-> M, r |-> E_INVAL]
        ELSE IF a.pp = NULL THEN [M |-> M, r |-> E_NO_MEM]
        ELSE IF i.r < 0 THEN [M |-> page_free(a.M, a.pp), r |-> E_NO_MEM]
        ELSE i

\* What sys_page_map refuses before it looks the page up.
page_map_refused(M, cur, srcenvid, srcva, dstenvid, dstva, perm) ==
    IF \E id \in {srcenvid, dstenvid} : envid2env(M, cur, id, TRUE) < 0
    THEN E_BAD_ENV
    ELSE IF \/ UTOP \in {srcva, dstva}
            \/ perm \ PTE_SYSCALL # {}
            \/ ~({"PTE_U", "PTE_P"} \subseteq perm)
         THEN E_INVAL
    ELSE 0

\* sys_page_map without the test of PTE_W against the source entry.
sys_page_map_grants_write(M, cur, srcenvid, srcva, dstenvid, dstva, perm) ==
    LET r == page_map_refused(M, cur, srcenvid, srcva, dstenvid, dstva, perm)
        p == page_lookup(M, srcenvid, srcva)
    IN  IF r < 0 THEN [M |-> M, r |-> r]
        ELSE IF p = NULL THEN [M |-> M, r |-> E_INVAL]
        ELSE page_insert(M, dstenvid, p.pa, dstva, perm)

sys_page_map(M, cur, srcenvid, srcva, dstenvid, dstva, perm) ==
    LET r == page_map_refused(M, cur, srcenvid, srcva, dstenvid, dstva, perm)
        p == page_lookup(M, srcenvid, srcva)
    IN  IF r < 0 THEN [M |-> M, r |-> r]
        ELSE IF p = NULL \/ ("PTE_W" \in perm /\ "PTE_W" \notin p.perm)
             THEN [M |-> M, r |-> E_INVAL]
        ELSE page_insert(M, dstenvid, p.pa, dstva, perm)

sys_page_unmap(M, cur, envid, va) ==
    IF envid2env(M, cur, envid, TRUE) < 0 THEN [M |-> M, r |-> E_BAD_ENV]
    ELSE IF va = UTOP THEN [M |-> M, r |-> E_INVAL]
    ELSE [M |-> page_remove(M, envid, va), r |-> 0]

-----------------------------------------------------------------------------
(* Steps: the kernel boots, then environments that run make system calls. *)

Set(M) ==
    /\ pp_ref' = M.pp_ref /\ page_free_list' = M.page_free_list
    /\ envs' = M.envs /\ pgtab' = M.pgtab /\ pte' = M.pte /\ mode' = M.mode

Free     == {e \in Env : envs[e].env_status = "ENV_FREE"}
Runnable == {e \in Env : envs[e].env_status = "ENV_RUNNABLE"}
Args     == VA \cup {UTOP}

EnvCreate ==
    /\ mode = "boot"
    /\ \E e \in Free : Set(env_create(Now, e))

\* The first sched_yield: user programs run from here on.
BootDone ==
    /\ mode = "boot" /\ Runnable # {}
    /\ mode' = "run"
    /\ UNCHANGED <<pp_ref, page_free_list, envs, pgtab, pte>>

SysExofork(cur) ==
    \/ \E e \in Free : Set(sys_exofork(Now, cur, e).M)
    \/ Free = {} /\ UNCHANGED vars

SysEnvSetStatus(cur) ==
    \E e \in Env, s \in {"ENV_RUNNABLE", "ENV_NOT_RUNNABLE"} :
        Set(sys_env_set_status(Now, cur, e, s))

SysEnvDestroy(cur) ==
    \E e \in Env : Set(sys_env_destroy(Now, cur, e))

SysPageAlloc(cur) ==
    \E e \in Env, va \in Args, perm \in Perms :
        Set(sys_page_alloc(Now, cur, e, va, perm).M)

SysPageMap(cur) ==
    \E s, d \in Env, srcva, dstva \in Args, perm \in Perms :
        Set(sys_page_map(Now, cur, s, srcva, d, dstva, perm).M)

SysPageUnmap(cur) ==
    \E e \in Env, va \in Args : Set(sys_page_unmap(Now, cur, e, va).M)

syscall(cur) ==
    /\ mode = "run"
    /\ \/ SysExofork(cur) \/ SysEnvSetStatus(cur) \/ SysEnvDestroy(cur)
       \/ SysPageAlloc(cur) \/ SysPageMap(cur) \/ SysPageUnmap(cur)

\* Nothing runs after a panic, or when no environment is left to run.
Halt == (mode \notin {"boot", "run"} \/ (mode = "run" /\ Runnable = {}))
        /\ UNCHANGED vars

Init ==
    /\ pp_ref = [f \in Frame |-> 0]
    /\ page_free_list = [i \in 1 .. NPAGES |-> i - 1]
    /\ envs = [e \in Env |-> [env_status |-> "ENV_FREE", env_parent_id |-> NULL,
                              env_pml4e |-> NULL]]
    /\ pgtab = [e \in Env |-> NoTables]
    /\ pte = [e \in Env |-> NoPages]
    /\ mode = "boot"

Next == EnvCreate \/ BootDone \/ (\E cur \in Runnable : syscall(cur)) \/ Halt

Spec == Init /\ [][Next]_vars

-----------------------------------------------------------------------------
(* Properties *)

\* An entry names a frame (or, with a bit of perm in the address, the one
\* past the last) and carries bits of PTE_SYSCALL only.
Pte == [pa : 0 .. NPAGES, perm : SUBSET PTE_SYSCALL]

TypeOK ==
    /\ pp_ref \in [Frame -> 0 .. 2 ^ REFBITS - 1]
    /\ page_free_list \in Seq(Frame)
    /\ envs \in [Env -> [env_status : {"ENV_FREE", "ENV_RUNNABLE", "ENV_NOT_RUNNABLE"},
                         env_parent_id : Env \cup {NULL},
                         env_pml4e : Frame \cup {NULL}]]
    /\ pgtab \in [Env -> [Table -> Frame \cup {NULL}]]
    /\ pte \in [Env -> [VA -> Pte \cup {NULL}]]
    /\ mode \in {"boot", "run", "region_alloc", "env_create", "page_free", "pa2page"}

Living  == Env \ Free
Stopped == mode \notin {"boot", "run"}

\* The pointers to frame f in the page tables of the living environments.
refs(f) ==
    Cardinality({e \in Living : envs[e].env_pml4e = f})
    + Cardinality({x \in Living \X Table : pgtab[x[1]][x[2]] = f})
    + Cardinality({x \in Living \X VA :
                     pte[x[1]][x[2]] # NULL /\ pte[x[1]][x[2]].pa = f})

\* "pp_ref is the count of pointers (usually in page table entries) to this
\* page": page_insert over an entry that is present, sys_page_map of a page
\* onto itself, env_free and the failure paths keep the count of every
\* frame that is pointed to equal to the number of pointers.
RefCountsExact ==
    Stopped \/ \A f \in Frame : refs(f) > 0 => pp_ref[f] = refs(f)

\* The free list holds every frame once, and exactly the frames whose
\* count is zero: sys_page_alloc gives its page back when page_insert
\* fails, and nothing is freed twice.
FreeListExact ==
    Stopped \/ /\ IsInjective(page_free_list)
               /\ ToSet(page_free_list) = {f \in Frame : pp_ref[f] = 0}

\* The frames that are counted and that no living environment points to:
\* nothing will ever release them.
Lost == {f \in Frame : pp_ref[f] > 0 /\ refs(f) = 0}

\* env_free gives back everything the environment held: the step that
\* frees a slot strands no frame, whatever the environment shared with the
\* others and in whatever order the pages, the tables and the PML4 are
\* released (env.c:556 onwards).
EnvFreeLosesNothing ==
    [][Free' \ Free # {} => Lost' \subseteq Lost]_vars

\* No frame is ever stranded: the error paths of env_alloc release what
\* they took.  env_setup_vm does not keep this promise: when the walk of
\* the window fails after it made a table, 'page_decref(p)' (env.c:239)
\* releases the PML4 alone (SetupVmLeak.cfg).
NoFrameLost == Stopped \/ Lost = {}

writable(f) ==
    \E e \in Living, va \in VA :
        pte[e][va] # NULL /\ pte[e][va].pa = f /\ "PTE_W" \in pte[e][va].perm

\* sys_page_map "must not grant write access to a read-only page": an
\* entry that a step makes writable names a frame that was free before the
\* step, or one that somebody could write already.
ReadOnlyStaysReadOnly ==
    [][\A e \in Env, va \in VA :
          LET q == pte'[e][va] IN
          (q # pte[e][va] /\ q # NULL /\ "PTE_W" \in q.perm)
              => (pp_ref[q.pa] = 0 \/ writable(q.pa))]_vars

=============================================================================
