---------------------------- MODULE MCPmapTests -----------------------------
(***************************************************************************)
(* PmapTests for TLC: nine frames, of which the zero page and one of the   *)
(* hole below EXTPHYSMEM are reserved; the pages 0, PGSIZE and 100 *       *)
(* PGSIZE share their tables, PTSIZE has a page table of its own.          *)
(***************************************************************************)
EXTENDS PmapTests

Kernel     == {0}
ZeroAndHole == {0, 3}
BaseMem    == {1, 2}
BelowPtsize == {1, 2, 4}

TestPages  == {0, PGSIZE, 100 * PGSIZE, PTSIZE}
LeafTable  == (0 :> 13) @@ (PGSIZE :> 13) @@ (100 * PGSIZE :> 13) @@ (PTSIZE :> 14)
FourLevels == [va \in TestPages |-> <<11, 12, LeafTable[va]>>]
NoPerms    == {}

AllChecks  == {"check_page_free_list_low", "check_page_free_list",
               "check_page_alloc", "check_page", "check_page_installed_pml4e"}
OnlyCheckPage == {"check_page"}
=============================================================================
