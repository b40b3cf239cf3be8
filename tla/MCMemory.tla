------------------------------ MODULE MCMemory ------------------------------
(* Memory for TLC: two slots, two user pages in two page tables. *)
EXTENDS Memory

TwoEnvs == {0, 1}

OnePage    == {0}
OneEntry   == (0 :> 11)
TwoPages   == {0, 1}
OwnTables  == (0 :> 11) @@ (1 :> 12)
OneTable   == (0 :> 11) @@ (1 :> 11)
FirstPage  == {0}

\* What programs pass as perm: read-only, writable without PTE_P | PTE_U
\* (which sys_page_alloc adds and sys_page_map refuses), writable, and a
\* bit outside PTE_SYSCALL.
LegalPerms == {{"PTE_P", "PTE_U"}, {"PTE_W"}, {"PTE_P", "PTE_U", "PTE_W"},
               {"PTE_P", "PTE_U", "PTE_PCD"}}
\* Read-only and writable, for the run about sharing between environments.
MapPerms   == {{"PTE_P", "PTE_U"}, {"PTE_P", "PTE_U", "PTE_W"}}
HighPerms  == LegalPerms \cup {{"PTE_P", "PTE_U", "PTE_W", "BIT12"}}
=============================================================================
