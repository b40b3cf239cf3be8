------------------------------- MODULE MCFork -------------------------------
(* Fork for TLC: a parent and a child with a page of data, the stack, the *)
(* exception stack and PFTEMP, in two page tables.                        *)
EXTENDS Fork

ParentAndChild == {0, 1}

FourPages   == 0 .. 3
TwoTables   == (0 :> 11) @@ (1 :> 11) @@ (2 :> 12) @@ (3 :> 12)
DataAndStack == {1, 2}

NoPerms == {}
=============================================================================
