----------------------------- MODULE PmapTests ------------------------------
(***************************************************************************)
(* kern/pmaptests.h: the checks mem_init runs on the page allocator and on *)
(* kern_pml4 before any environment exists.  A check is the sequence of    *)
(* its statements, one step each, run on the page_alloc, page_free,        *)
(* page_decref, pml4e_walk, page_insert and page_remove of module Memory,  *)
(* with kern_pml4 as the one root and all levels of the walk.  An assert   *)
(* that fails is a panic.                                                  *)
(*                                                                         *)
(* mem_init is in kern/pmap.c, which is not in the repository: the checks  *)
(* in Tests are called in any order, as long as the allocator is Sound.    *)
(* check_kern_pml4e looks at mappings only mem_init makes and is left out; *)
(* so is the assert on the flags of the upper levels (line 310).           *)
(***************************************************************************)
EXTENDS Memory

CONSTANTS
    Reserved,   \* frames page_init keeps off the free list
    Low,        \* usable frames below EXTPHYSMEM
    Mapped,     \* usable frames entry_pgdir maps: PDX(page2pa(pp)) < 1
    Tests       \* the checks mem_init calls

VARIABLES
    test,    \* the check that runs, or NULL
    pc,      \* the statement of it that is next
    loc,     \* its locals: pp, pp0 .. pp5, fl, nfree
    fill     \* the byte memset or a store left in every frame, -1 for any

tvars == <<vars, test, pc, loc, fill>>

kern_pml4 == CHOOSE e \in Env : TRUE
Usable    == Frame \ Reserved
Pointers  == {"pp", "pp0", "pp1", "pp2", "pp3", "pp4", "pp5"}

ASSUME /\ Cardinality(Env) = 1
       /\ Reserved \subseteq Frame /\ Low \subseteq Mapped /\ Mapped \subseteq Usable

-----------------------------------------------------------------------------
(* The statements of the checks *)

Alloc(x)       == [op |-> "alloc", x |-> x, zero |-> FALSE]
AllocZero(x)   == [op |-> "alloc", x |-> x, zero |-> TRUE]
PageFree(x)    == [op |-> "free", x |-> x]
Decref(x)      == [op |-> "decref", x |-> x]
Steal          == [op |-> "steal"]
GiveBack       == [op |-> "give_back"]
Insert(x, va, perm, r) == [op |-> "insert", x |-> x, va |-> va, perm |-> perm, r |-> r]
PageRemove(va)     == [op |-> "remove", va |-> va]
Walk(va)       == [op |-> "walk", va |-> va]
ClearPml4      == [op |-> "clear_pml4"]
Memset(x, c)   == [op |-> "memset", x |-> x, c |-> c]
Store(va, c)   == [op |-> "store", va |-> va, c |-> c]
SetRef(x, n)   == [op |-> "set_ref", x |-> x, n |-> n]
Count          == [op |-> "count"]
Reorder        == [op |-> "reorder"]
Poison(ps)     == [op |-> "poison", ps |-> ps]
\* The asserts that change nothing.
NoAlloc        == [op |-> "assert", that |-> "no_alloc"]
Distinct(xs)   == [op |-> "assert", that |-> "distinct", xs |-> xs]
Ref(x, ns)     == [op |-> "assert", that |-> "ref", x |-> x, ns |-> ns]
Va2pa(va, x)   == [op |-> "assert", that |-> "va2pa", va |-> va, x |-> x]
NoPage(va)     == [op |-> "assert", that |-> "no_page", va |-> va]
TopIn(xs)      == [op |-> "assert", that |-> "top_in", xs |-> xs]
Walked(va)     == [op |-> "assert", that |-> "walked", va |-> va]
PteU(va, b)    == [op |-> "assert", that |-> "pte_u", va |-> va, b |-> b]
Load(va, c)    == [op |-> "assert", that |-> "load", va |-> va, c |-> c]
Filled(x, c)   == [op |-> "assert", that |-> "filled", x |-> x, c |-> c]
Same(x, y)     == [op |-> "assert", that |-> "same", x |-> x, y |-> y]
Unlinked(x)    == [op |-> "assert", that |-> "unlinked", x |-> x]
Counted        == [op |-> "assert", that |-> "counted"]
HasHead        == [op |-> "assert", that |-> "has_head"]
ListOk(low)    == [op |-> "assert", that |-> "list_ok", low |-> low]
TableClear(va) == [op |-> "assert", that |-> "table_clear", va |-> va]

Ok    == {0}
NoMem == {E_NO_MEM}
Either == {0, E_NO_MEM}
PGSIZE == 1          \* the addresses of the checks, as page numbers
PTSIZE == 512
Three == <<"pp0", "pp1", "pp2">>
Six   == Three \o <<"pp3", "pp4", "pp5">>

Each(form(_), xs) == [i \in DOMAIN xs |-> form(xs[i])]

check_page_free_list(only_low_memory) ==
    <<HasHead>>
    \o (IF only_low_memory THEN <<Reorder>> ELSE <<>>)
    \o <<Poison(IF only_low_memory THEN Mapped ELSE Usable),
         ListOk(only_low_memory)>>

check_page_alloc ==
    <<Count>>
    \o Each(Alloc, Three) \o <<Distinct(Three)>>
    \o <<Steal, NoAlloc>>
    \o Each(PageFree, Three)
    \o Each(Alloc, Three) \o <<Distinct(Three), NoAlloc>>
    \o <<Memset("pp0", 1), PageFree("pp0"), AllocZero("pp"), Same("pp", "pp0"),
         Filled("pp", 0)>>
    \o <<GiveBack>>
    \o Each(PageFree, Three)
    \o <<Counted>>

check_page ==
    Each(Alloc, Six) \o <<Distinct(Six)>>
    \o <<Steal, NoAlloc, NoPage(0)>>
    \o <<Insert("pp1", 0, {}, NoMem)>>
    \o <<PageFree("pp0"), Insert("pp1", 0, {}, NoMem)>>
    \o <<PageFree("pp2"), PageFree("pp3")>>
    \o <<Insert("pp1", 0, {}, Ok), TopIn({"pp0", "pp2", "pp3"}), Va2pa(0, "pp1"),
         Ref("pp1", {1}), Ref("pp0", {1}), Ref("pp2", {1})>>
    \o <<Insert("pp3", PGSIZE, {}, Ok), Va2pa(PGSIZE, "pp3"), Ref("pp3", {2})>>
    \o <<NoAlloc>>
    \o <<Insert("pp3", PGSIZE, {}, Ok), Va2pa(PGSIZE, "pp3"), Ref("pp3", {2})>>
    \o <<NoAlloc, Walked(PGSIZE)>>
    \o <<Insert("pp3", PGSIZE, {"PTE_U"}, Ok), Va2pa(PGSIZE, "pp3"),
         Ref("pp3", {2}), PteU(PGSIZE, TRUE)>>
    \o <<Insert("pp0", PTSIZE, {}, NoMem)>>
    \o <<Insert("pp1", PGSIZE, {}, Ok), PteU(PGSIZE, FALSE)>>
    \o <<Va2pa(0, "pp1"), Va2pa(PGSIZE, "pp1"), Ref("pp1", {2}), Ref("pp3", {1})>>
    \o <<PageRemove(0), Va2pa(0, NULL), Va2pa(PGSIZE, "pp1"),
         Ref("pp1", {1}), Ref("pp3", {1})>>
    \o <<Insert("pp1", PGSIZE, {}, Ok), Ref("pp1", 1 .. 2 ^ REFBITS - 1),
         Unlinked("pp1")>>
    \o <<PageRemove(PGSIZE), Va2pa(0, NULL), Va2pa(PGSIZE, NULL),
         Ref("pp1", {0}), Ref("pp3", {1})>>
    \o <<ClearPml4, Ref("pp3", {1}), Decref("pp3")>>
    \o <<Decref("pp0"), Decref("pp2"), Walk(100 * PGSIZE)>>
    \o <<Decref("pp4"), Memset("pp4", 255), Walk(0), TableClear(0), ClearPml4>>
    \o <<GiveBack>>
    \o Each(Decref, Three)
    \o Each(LAMBDA x : SetRef(x, 1), Six)

check_page_installed_pml4e ==
    Each(Alloc, Three)
    \o <<PageFree("pp0"), Memset("pp1", 1), Memset("pp2", 2)>>
    \o <<Insert("pp1", PGSIZE, {"PTE_W"}, Either), Ref("pp1", {1}), Load(PGSIZE, 1)>>
    \o <<Insert("pp2", PGSIZE, {"PTE_W"}, Either), Load(PGSIZE, 2),
         Ref("pp2", {1}), Ref("pp1", {0})>>
    \o <<Store(PGSIZE, 3), Filled("pp2", 3)>>
    \o <<PageRemove(PGSIZE), Ref("pp2", {0})>>
    \o <<Ref("pp0", {1}), SetRef("pp0", 0)>>
    \o <<PageFree("pp0")>>

Script ==
    [check_page_free_list_low   |-> check_page_free_list(TRUE),
     check_page_free_list       |-> check_page_free_list(FALSE),
     check_page_alloc           |-> check_page_alloc,
     check_page                 |-> check_page,
     check_page_installed_pml4e |-> check_page_installed_pml4e]

ASSUME Tests \subseteq DOMAIN Script

-----------------------------------------------------------------------------
(* What the statements do *)

S  == Script[test][pc]
At(x) == IF x = NULL THEN NULL ELSE loc[x]
Entry(va) == pte[kern_pml4][va]

\* The walk by hand: ~0 where a level or the entry is not present.
check_va2pa(va) ==
    IF \E t \in Range(Levels[va]) : pgtab[kern_pml4][t] = NULL THEN NULL
    ELSE IF Entry(va) = NULL THEN NULL
    ELSE Entry(va).pa

\* The low pages first, each part in the order it had.
reorder(list) ==
    SelectSeq(list, LAMBDA f : f \in Mapped) \o SelectSeq(list, LAMBDA f : f \notin Mapped)

\* What an assert of the checks says of the state.
Holds(a) ==
    CASE a.that = "no_alloc"    -> page_alloc(Now).pp = NULL
      [] a.that = "distinct"    -> /\ IsInjective([i \in DOMAIN a.xs |-> loc[a.xs[i]]])
                                   /\ \A i \in DOMAIN a.xs : loc[a.xs[i]] \in Frame
      [] a.that = "ref"         -> pp_ref[loc[a.x]] \in a.ns
      [] a.that = "va2pa"       -> check_va2pa(a.va) = At(a.x)
      [] a.that = "no_page"     -> page_lookup(Now, kern_pml4, a.va) = NULL
      [] a.that = "top_in"      -> pgtab[kern_pml4][Head(Levels[0])] \in {loc[x] : x \in a.xs}
      [] a.that = "walked"      -> \A t \in Range(Levels[a.va]) : pgtab[kern_pml4][t] # NULL
      [] a.that = "pte_u"       -> Entry(a.va) # NULL /\ ("PTE_U" \in Entry(a.va).perm) = a.b
      [] a.that = "load"        -> check_va2pa(a.va) # NULL /\ fill[check_va2pa(a.va)] = a.c
      [] a.that = "filled"      -> fill[loc[a.x]] = a.c
      [] a.that = "same"        -> loc[a.x] # NULL /\ loc[a.x] = loc[a.y]
      [] a.that = "unlinked"    -> ~Contains(Front(page_free_list), loc[a.x])
      [] a.that = "counted"     -> loc.nfree = Len(page_free_list)
      [] a.that = "table_clear" -> \A va \in VA : Levels[va] = Levels[a.va] => Entry(va) = NULL
      [] a.that = "list_ok"     ->
            /\ ToSet(page_free_list) \subseteq Usable
            /\ ~a.low \/ ToSet(page_free_list) \cap Low # {}
            /\ ToSet(page_free_list) \ Low # {}
      [] a.that = "has_head"    -> page_free_list # <<>>

\* The next statement, or the return to mem_init.
Go ==
    IF pc < Len(Script[test]) THEN pc' = pc + 1 /\ UNCHANGED test
    ELSE pc' = 1 /\ test' = NULL

\* The statement leaves the memory M, the locals l and the contents f, and
\* asserts cond; a failed assert and a panic below it stop the kernel.
Do(M, cond, l, f) ==
    LET N == IF cond THEN M ELSE Panic(M, "assert") IN
    /\ Set(N) /\ loc' = l /\ fill' = f
    /\ IF N.mode = "boot" THEN Go ELSE UNCHANGED <<test, pc>>

Is(op) == test # NULL /\ mode = "boot" /\ S.op = op

alloc ==
    /\ Is("alloc")
    /\ LET a == page_alloc(Now) IN
       Do(a.M, a.pp # NULL, [loc EXCEPT ![S.x] = a.pp],
          IF S.zero /\ a.pp # NULL THEN [fill EXCEPT ![a.pp] = 0] ELSE fill)

free == Is("free") /\ Do(page_free(Now, loc[S.x]), TRUE, loc, fill)

decref == Is("decref") /\ Do(page_decref(Now, loc[S.x]), TRUE, loc, fill)

\* The list is remembered and left where it is.
steal_keeps_list ==
    Is("steal") /\ Do(Now, TRUE, [loc EXCEPT !.fl = page_free_list], fill)

steal ==
    /\ Is("steal")
    /\ Do([Now EXCEPT !.page_free_list = <<>>], TRUE,
          [loc EXCEPT !.fl = page_free_list], fill)

give_back == Is("give_back") /\ Do([Now EXCEPT !.page_free_list = loc.fl], TRUE, loc, fill)

insert ==
    /\ Is("insert")
    /\ LET i == page_insert(Now, kern_pml4, loc[S.x], S.va, S.perm) IN
       Do(i.M, i.r \in S.r, loc, fill)

remove == Is("remove") /\ Do(page_remove(Now, kern_pml4, S.va), TRUE, loc, fill)

\* pml4e_walk(kern_pml4, va, 1), and the entry it returns is the one the
\* levels lead to.
walk_create ==
    /\ Is("walk")
    /\ LET w == pml4e_walk(Now, kern_pml4, S.va) IN Do(w.M, w.ok, loc, fill)

\* kern_pml4[0] = 0: the tables below it are not freed.
clear_pml4 ==
    /\ Is("clear_pml4")
    /\ Do([Now EXCEPT !.pgtab[kern_pml4] = NoTables, !.pte[kern_pml4] = NoPages],
          TRUE, loc, fill)

memset == Is("memset") /\ Do(Now, TRUE, loc, [fill EXCEPT ![loc[S.x]] = S.c])

store ==
    /\ Is("store")
    /\ Do(Now, check_va2pa(S.va) # NULL, loc,
          IF check_va2pa(S.va) = NULL THEN fill
          ELSE [fill EXCEPT ![check_va2pa(S.va)] = S.c])

\* pp->pp_ref = n; as the condition of an assert n is 1, which holds.
set_ref == Is("set_ref") /\ Do([Now EXCEPT !.pp_ref[loc[S.x]] = S.n], TRUE, loc, fill)

\* The count that starts at one.
count_from_one ==
    Is("count") /\ Do(Now, TRUE, [loc EXCEPT !.nfree = Len(page_free_list) + 1], fill)

count == Is("count") /\ Do(Now, TRUE, [loc EXCEPT !.nfree = Len(page_free_list)], fill)

reorder_list ==
    Is("reorder") /\ Do([Now EXCEPT !.page_free_list = reorder(@)], TRUE, loc, fill)

poison ==
    /\ Is("poison")
    /\ Do(Now, TRUE, loc,
          [f \in Frame |-> IF f \in ToSet(page_free_list) \cap S.ps THEN 151 ELSE fill[f]])

assert == Is("assert") /\ Do(Now, Holds(S), loc, fill)

Statement ==
    \/ alloc \/ free \/ decref \/ steal \/ give_back \/ insert \/ remove
    \/ walk_create \/ clear_pml4 \/ memset \/ store \/ set_ref \/ count
    \/ reorder_list \/ poison \/ assert

-----------------------------------------------------------------------------
(* The allocator the checks are given, and the calls of mem_init *)

\* The pointers to frame f below kern_pml4.
pointers(f) ==
    Cardinality({t \in Table : pgtab[kern_pml4][t] = f})
    + Cardinality({va \in VA : Entry(va) # NULL /\ Entry(va).pa = f})

\* The free list holds the usable frames whose count is zero, once each,
\* and the count of a frame is the number of pointers to it.
Sound ==
    /\ IsInjective(page_free_list)
    /\ ToSet(page_free_list) = {f \in Usable : pp_ref[f] = 0}
    /\ \A f \in Usable : pp_ref[f] = pointers(f)

NoLocals == [x \in Pointers |-> NULL] @@ [fl |-> <<>>, nfree |-> 0]

\* mem_init calls a check.
Call ==
    /\ test = NULL /\ mode = "boot" /\ Sound
    /\ test' \in Tests
    /\ pc' = 1 /\ loc' = NoLocals
    /\ UNCHANGED <<vars, fill>>

\* After a panic, and after a check that left the allocator in a state
\* this module does not follow further.
TestHalt == (mode # "boot" \/ (test = NULL /\ ~Sound)) /\ UNCHANGED tvars

\* page_init has put the usable frames on the free list, in an order the
\* specification leaves open; nothing is mapped below kern_pml4[0].
TestInit ==
    /\ pp_ref = [f \in Frame |-> 0]
    /\ page_free_list \in SetToSeqs(Usable)
    /\ envs = [e \in Env |-> [env_status |-> "ENV_FREE", env_parent_id |-> NULL,
                              env_pml4e |-> NULL]]
    /\ pgtab = [e \in Env |-> NoTables]
    /\ pte = [e \in Env |-> NoPages]
    /\ mode = "boot"
    /\ test = NULL /\ pc = 1 /\ loc = NoLocals
    /\ fill = [f \in Frame |-> -1]

TestNext == Call \/ Statement \/ TestHalt

TestSpec == TestInit /\ [][TestNext]_tvars

-----------------------------------------------------------------------------
(* Properties *)

TestTypeOK ==
    /\ pp_ref \in [Frame -> 0 .. 2 ^ REFBITS - 1]
    /\ page_free_list \in Seq(Frame)
    /\ pgtab \in [Env -> [Table -> Frame \cup {NULL}]]
    /\ pte \in [Env -> [VA -> Pte \cup {NULL}]]
    /\ mode \in {"boot", "assert", "page_free", "pa2page"}
    /\ test \in Tests \cup {NULL}
    /\ test # NULL => pc \in 1 .. Len(Script[test])
    /\ \A x \in Pointers : loc[x] \in Frame \cup {NULL}
    /\ loc.fl \in Seq(Frame) /\ loc.nfree \in 0 .. Cardinality(Usable)
    /\ fill \in [Frame -> {-1, 0, 1, 2, 3, 151, 255}]

\* The checks pass on the page allocator of the specification: a check
\* that mem_init calls with a sound allocator meets no assert that fails
\* and no panic of page_free, whatever the order of the free list, through
\* the walks that find no frame, the re-insertion of a page and the
\* replacement of one page by another.
ChecksPass == mode = "boot"

\* "No free-list frame has refcount > 0", and a frame that is counted is
\* pointed to: when a check returns, the allocator is as sound as the
\* check found it, so that mem_init and the environments go on with every
\* frame either free or in use.
ChecksLeaveAllocatorSound == (test = NULL /\ mode = "boot") => Sound

=============================================================================
