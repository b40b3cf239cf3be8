------------------------------ MODULE Spinlock ------------------------------
(***************************************************************************)
(* kern/spinlock.c: spin_lock and spin_unlock of one struct spinlock, one  *)
(* memory access per step, called by several CPUs.  With DEBUG_SPINLOCK    *)
(* the lock records its owner in lk->cpu and both functions call           *)
(* holding(), which reads lk->locked and lk->cpu in two accesses while the *)
(* other CPUs go on.                                                       *)
(***************************************************************************)
EXTENDS Integers, FiniteSets

CONSTANTS
    CPU,
    DEBUG_SPINLOCK,   \* the build has the owner checks
    Misuse,           \* callers may lock what they hold, unlock what they do not
    NULL

ASSUME DEBUG_SPINLOCK \in BOOLEAN /\ Misuse \in BOOLEAN

VARIABLES
    locked,    \* lk->locked
    cpu,       \* lk->cpu
    pc,        \* where every CPU is in spin_lock or spin_unlock
    holds      \* history: the xchg of this CPU took the lock, and the CPU
               \* has not given it back

vars == <<locked, cpu, pc, holds>>

goto(c, label) == pc' = [pc EXCEPT ![c] = label]

\* A caller enters spin_lock.
call_spin_lock(c) ==
    /\ pc[c] = "out"
    /\ Misuse \/ ~holds[c]
    /\ goto(c, IF DEBUG_SPINLOCK THEN "lock_locked" ELSE "xchg")
    /\ UNCHANGED <<locked, cpu, holds>>

\* holding(lk) in spin_lock: lk->locked, and if it is set lk->cpu.
lock_holding(c) ==
    /\ \/ pc[c] = "lock_locked" /\ goto(c, IF locked = 1 THEN "lock_cpu" ELSE "xchg")
       \/ pc[c] = "lock_cpu"    /\ goto(c, IF cpu = c THEN "panic_lock" ELSE "xchg")
    /\ UNCHANGED <<locked, cpu, holds>>

\* A lock taken by counting: 'lock; incl' in place of xchg.
xchg_add(c) ==
    /\ pc[c] = "xchg"
    /\ locked' = locked + 1
    /\ holds' = [holds EXCEPT ![c] = TRUE]
    /\ goto(c, IF DEBUG_SPINLOCK THEN "record" ELSE "out")
    /\ UNCHANGED cpu

\* xchg that stores 1 whatever it reads.
xchg_blind(c) ==
    /\ pc[c] = "xchg"
    /\ locked' = 1
    /\ holds' = [holds EXCEPT ![c] = TRUE]
    /\ goto(c, IF DEBUG_SPINLOCK THEN "record" ELSE "out")
    /\ UNCHANGED cpu

\* while (xchg(&lk->locked, 1) != 0): the xchg that reads 0 ends the loop,
\* one that reads 1 changes nothing.
xchg(c) ==
    /\ pc[c] = "xchg"
    /\ locked = 0
    /\ locked' = 1
    /\ holds' = [holds EXCEPT ![c] = TRUE]
    /\ goto(c, IF DEBUG_SPINLOCK THEN "record" ELSE "out")
    /\ UNCHANGED cpu

\* lk->cpu = thiscpu.
record(c) ==
    /\ pc[c] = "record"
    /\ cpu' = c
    /\ goto(c, "out")
    /\ UNCHANGED <<locked, holds>>

\* A caller enters spin_unlock.
call_spin_unlock(c) ==
    /\ pc[c] = "out"
    /\ Misuse \/ holds[c]
    /\ goto(c, IF DEBUG_SPINLOCK THEN "unlock_locked" ELSE "release")
    /\ UNCHANGED <<locked, cpu, holds>>

\* !holding(lk) in spin_unlock.
unlock_holding(c) ==
    /\ \/ pc[c] = "unlock_locked" /\ goto(c, IF locked = 1 THEN "unlock_cpu" ELSE "panic_unlock")
       \/ pc[c] = "unlock_cpu"    /\ goto(c, IF cpu = c THEN "clear" ELSE "panic_unlock")
    /\ UNCHANGED <<locked, cpu, holds>>

\* spin_unlock that leaves lk->cpu as it is.
clear_nothing(c) ==
    /\ pc[c] = "clear"
    /\ goto(c, "release")
    /\ UNCHANGED <<locked, cpu, holds>>

\* lk->pcs[0] = 0; lk->cpu = 0.
clear(c) ==
    /\ pc[c] = "clear"
    /\ cpu' = NULL
    /\ goto(c, "release")
    /\ UNCHANGED <<locked, holds>>

\* xchg(&lk->locked, 0).
release(c) ==
    /\ pc[c] = "release"
    /\ locked' = 0
    /\ holds' = [holds EXCEPT ![c] = FALSE]
    /\ goto(c, "out")
    /\ UNCHANGED cpu

Panicked == \E c \in CPU : pc[c] \in {"panic_lock", "panic_unlock"}

\* panic() stops the machine.
Halt == Panicked /\ UNCHANGED vars

\* __spin_initlock, and no CPU in either function.
Init ==
    /\ locked = 0
    /\ cpu = NULL
    /\ pc = [c \in CPU |-> "out"]
    /\ holds = [c \in CPU |-> FALSE]

spin_lock(c) == call_spin_lock(c) \/ lock_holding(c) \/ xchg(c) \/ record(c)

spin_unlock(c) == call_spin_unlock(c) \/ unlock_holding(c) \/ clear(c) \/ release(c)

Next == (~Panicked /\ \E c \in CPU : spin_lock(c) \/ spin_unlock(c)) \/ Halt

Spec == Init /\ [][Next]_vars

-----------------------------------------------------------------------------
(* Properties *)

TypeOK ==
    /\ locked \in {0, 1}
    /\ cpu \in CPU \cup {NULL}
    /\ pc \in [CPU -> {"out", "lock_locked", "lock_cpu", "xchg", "record",
                       "unlock_locked", "unlock_cpu", "clear", "release",
                       "panic_lock", "panic_unlock"}]
    /\ holds \in [CPU -> BOOLEAN]

\* No CPU holds the lock unless lk->locked is set, and no two CPUs do.
MutualExclusion ==
    Cardinality({c \in CPU : holds[c]}) = locked

\* The checks of DEBUG_SPINLOCK stop every wrong call and no right one:
\* spin_lock panics only on a CPU that holds the lock and never goes on to
\* spin on such a CPU, spin_unlock panics only on a CPU that does not hold
\* it and never releases for such a CPU, although holding() reads lk->locked
\* and lk->cpu in two steps while other CPUs take and release the lock.
DebugChecksExact ==
    \A c \in CPU :
        /\ pc[c] \in {"panic_lock", "clear", "release"} => holds[c]
        /\ pc[c] \in {"panic_unlock", "xchg"} => ~holds[c]

=============================================================================
