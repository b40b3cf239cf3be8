----------------------------- MODULE MCSpinlock -----------------------------
(* Spinlock for TLC: three CPUs. *)
EXTENDS Spinlock

CONSTANTS cpu0, cpu1, cpu2

ThreeCPU == {cpu0, cpu1, cpu2}
=============================================================================
