---------------------------- MODULE SharedStack ----------------------------
(***************************************************************************)
(* The operations of shared_stack/stack.c on a stack that every process    *)
(* has attached.  The memory is a SysV segment of Size slots; a SysV       *)
(* semaphore set holds the mutex, the number of elements and the number of *)
(* free slots.  One step is one system call or one access to the segment;  *)
(* a label of pc names the call about to be made.  The three wait values   *)
(* of set_wait give three variants of push and pop, told apart by the      *)
(* letters w (wait_val 0) and t (wait_val 1) in the labels.                *)
(*                                                                         *)
(* A killed process stops where it is.  Its semaphore operations are not   *)
(* undone: sem_flg is 0, not SEM_UNDO.                                     *)
(***************************************************************************)
EXTENDS Integers, Sequences, FiniteSets

CONSTANTS Procs,       \* the attached handles, one per process
          Size,        \* the capacity given to attach_stack
          Vals,        \* the pointers that are pushed
          POISON,      \* the mark of a free slot
          WaitArgs,    \* the arguments set_wait is called with
          MaxCrashes   \* how many processes may be killed

ASSUME ProcsAssumption  == IsFiniteSet(Procs)
ASSUME SizeAssumption   == Size \in Nat \ {0}
ASSUME PoisonAssumption == POISON \notin Vals
ASSUME WaitAssumption   == WaitArgs \subseteq [val : Int, timeout : BOOLEAN]
ASSUME CrashAssumption  == MaxCrashes \in Nat

VARIABLES sem,        \* semaphores 0, 1 and 2 of the set
          shm,        \* the segment
          pc,         \* pc[p]: the call p is about to make
          wait_val,   \* wait_val[p]: the wait value of p's handle
          at,         \* at[p]: the index p computed from get_count, until it is used
          arg,        \* arg[p]: the value p pushes
          val,        \* val[p]: the memory p pops into
          dead        \* the processes that were killed

vars == <<sem, shm, pc, wait_val, at, arg, val, dead>>
-----------------------------------------------------------------------------
(* Labels, by the kind of call that is made there and the label after it. *)

AfterLock == [push_lock   |-> "push_check",   pop_lock   |-> "pop_check",
              pushw_lock  |-> "pushw_index",  popw_lock  |-> "popw_add",
              pusht_lock  |-> "pusht_check",  popt_lock  |-> "popt_check",
              pusht_again |-> "pusht_index",  popt_again |-> "pop_take",
              set_lock    |-> "set_body",     dump_lock  |-> "dump_read"]

\* faulty: the waiting push does not take a free slot
AfterUnlockNoTake == [pushw_unlock |-> "pushw_lock", popw_unlock |-> "popw_take",
                      pusht_unlock |-> "pusht_lock", popt_unlock |-> "popt_lock"]

AfterUnlock == [pushw_unlock |-> "pushw_take", popw_unlock |-> "popw_take",
                pusht_unlock |-> "pusht_lock", popt_unlock |-> "popt_lock"]

\* faulty: the push that fails does not release the mutex
ReturningNotFull == {"push_unlock", "pop_unlock", "pop_fail", "set_unlock", "dump_unlock"}

Returning == {"push_unlock", "push_fail", "pop_unlock", "pop_fail",
              "set_unlock", "dump_unlock"}

AfterIndex == [push_index  |-> "push_store",   pushw_index  |-> "pushw_store",
               pusht_index |-> "pusht_store",  pop_index    |-> "pop_read",
               poison_index |-> "pop_poison"]

AfterStore == [push_store  |-> "push_add",     pushw_store |-> "pushw_add",
               pusht_store |-> "pusht_take"]

\* faulty: the waiting push takes a second free slot
AfterAddCountTwice == [push_add  |-> "push_take", pushw_add |-> "push_take",
                       pusht_add |-> "push_unlock"]

AfterAddCount == [push_add  |-> "push_take",   pushw_add |-> "push_unlock",
                  pusht_add |-> "push_unlock"]

AfterTakeEmpty == [push_take  |-> "push_unlock", pushw_take |-> "pushw_lock",
                   pusht_take |-> "pusht_add"]

AfterTakeCount == [pop_take |-> "pop_add",     popw_take |-> "popw_lock"]

AfterAddEmpty == [pop_add |-> "pop_index",     popw_add |-> "pop_index"]

Outside == {"idle", "push_lock", "pop_lock", "set_lock", "dump_lock",
            "pushw_take", "pushw_lock", "popw_take", "popw_lock",
            "pusht_lock", "popt_lock"}

Inside == {"push_check", "push_fail", "push_index", "push_store", "push_add",
           "push_take", "push_unlock",
           "pushw_unlock", "pushw_index", "pushw_store", "pushw_add",
           "pusht_unlock", "pusht_check", "pusht_again", "pusht_index",
           "pusht_store", "pusht_take", "pusht_add",
           "pop_check", "pop_fail", "pop_take", "pop_add", "pop_index",
           "pop_read", "poison_index", "pop_poison", "pop_unlock",
           "popw_unlock", "popw_add", "popt_unlock", "popt_check", "popt_again",
           "set_body", "set_unlock", "dump_read", "dump_unlock"}

Labels == Outside \cup Inside
-----------------------------------------------------------------------------
MUTEX == 0   \* the semaphores' numbers in the set
COUNT == 1
EMPTY == 2

count == sem[COUNT]    \* get_count
empty == sem[EMPTY]    \* get_empty

Init == /\ sem      = [s \in 0 .. 2 |-> IF s = MUTEX THEN 1
                                      ELSE IF s = COUNT THEN 0 ELSE Size]
        /\ shm      = [i \in 0 .. Size - 1 |-> POISON]
        /\ pc       = [p \in Procs |-> "idle"]
        /\ wait_val = [p \in Procs |-> -1]
        /\ at       = [p \in Procs |-> 0]
        /\ arg      = [p \in Procs |-> POISON]
        /\ val      = [p \in Procs |-> POISON]
        /\ dead     = {}

Goto(p, label) == pc' = [pc EXCEPT ![p] = label]

At(p, labels) == p \notin dead /\ pc[p] \in labels

Decrement(s) == /\ sem[s] > 0
                /\ sem' = [sem EXCEPT ![s] = @ - 1]

Increment(s) == sem' = [sem EXCEPT ![s] = @ + 1]

(* The calls of the library. *)

CallPush(p) == /\ At(p, {"idle"})
               /\ \E v \in Vals : arg' = [arg EXCEPT ![p] = v]
               /\ Goto(p, "push_lock")
               /\ UNCHANGED <<sem, shm, wait_val, at, val, dead>>

CallPop(p) == /\ At(p, {"idle"})
              /\ Goto(p, "pop_lock")
              /\ UNCHANGED <<sem, shm, wait_val, at, arg, val, dead>>

\* faulty: the dump does not take the mutex
CallOtherNoLock(p) == /\ At(p, {"idle"})
                      /\ \E l \in {"set_lock", "dump_read"} : Goto(p, l)
                      /\ UNCHANGED <<sem, shm, wait_val, at, arg, val, dead>>

CallOther(p) == /\ At(p, {"idle"})
                /\ \E l \in {"set_lock", "dump_lock"} : Goto(p, l)
                /\ UNCHANGED <<sem, shm, wait_val, at, arg, val, dead>>

(* The semaphore operations. *)

Lock(p) == /\ At(p, DOMAIN AfterLock)
           /\ Decrement(MUTEX)
           /\ Goto(p, AfterLock[pc[p]])
           /\ UNCHANGED <<shm, wait_val, at, arg, val, dead>>

Unlock(p) == /\ At(p, DOMAIN AfterUnlock)
             /\ Increment(MUTEX)
             /\ Goto(p, AfterUnlock[pc[p]])
             /\ UNCHANGED <<shm, wait_val, at, arg, val, dead>>

(* The last call of an operation.  What it was given and what it popped are *)
(* the caller's from here on.                                               *)
Return(p) == /\ At(p, Returning)
             /\ Increment(MUTEX)
             /\ Goto(p, "idle")
             /\ arg' = [arg EXCEPT ![p] = POISON]
             /\ val' = [val EXCEPT ![p] = POISON]
             /\ UNCHANGED <<shm, wait_val, at, dead>>

TakeEmpty(p) == /\ At(p, DOMAIN AfterTakeEmpty)
                /\ Decrement(EMPTY)
                /\ Goto(p, AfterTakeEmpty[pc[p]])
                /\ UNCHANGED <<shm, wait_val, at, arg, val, dead>>

AddEmpty(p) == /\ At(p, DOMAIN AfterAddEmpty)
               /\ Increment(EMPTY)
               /\ Goto(p, AfterAddEmpty[pc[p]])
               /\ UNCHANGED <<shm, wait_val, at, arg, val, dead>>

TakeCount(p) == /\ At(p, DOMAIN AfterTakeCount)
                /\ Decrement(COUNT)
                /\ Goto(p, AfterTakeCount[pc[p]])
                /\ UNCHANGED <<shm, wait_val, at, arg, val, dead>>

AddCount(p) == /\ At(p, DOMAIN AfterAddCount)
               /\ Increment(COUNT)
               /\ Goto(p, AfterAddCount[pc[p]])
               /\ UNCHANGED <<shm, wait_val, at, arg, val, dead>>

(* The tests at the head of push and pop, and those after nanosleep. *)

WhenFull(p) == CASE wait_val[p] = -1 -> "push_fail"
                 [] wait_val[p] =  0 -> "pushw_unlock"
                 [] wait_val[p] =  1 -> "pusht_unlock"

WhenEmpty(p) == CASE wait_val[p] = -1 -> "pop_fail"
                  [] wait_val[p] =  0 -> "popw_unlock"
                  [] wait_val[p] =  1 -> "popt_unlock"

Branch(p) ==
  CASE pc[p] = "push_check"  -> IF empty = 0 THEN WhenFull(p)  ELSE "push_index"
    [] pc[p] = "pusht_check" -> IF empty = 0 THEN "push_fail"  ELSE "pusht_again"
    [] pc[p] = "pop_check"   -> IF count = 0 THEN WhenEmpty(p) ELSE "pop_take"
    [] pc[p] = "popt_check"  -> IF count = 0 THEN "pop_fail"   ELSE "popt_again"

Check(p) == /\ At(p, {"push_check", "pusht_check", "pop_check", "popt_check"})
            /\ Goto(p, Branch(p))
            /\ UNCHANGED <<sem, shm, wait_val, at, arg, val, dead>>

(* The accesses to the segment: the index is computed first, then used. *)

Index(p) == /\ At(p, DOMAIN AfterIndex)
            /\ at' = [at EXCEPT ![p] = count]
            /\ Goto(p, AfterIndex[pc[p]])
            /\ UNCHANGED <<sem, shm, wait_val, arg, val, dead>>

Store(p) == /\ At(p, DOMAIN AfterStore)
            /\ shm' = [shm EXCEPT ![at[p]] = arg[p]]
            /\ at'  = [at EXCEPT ![p] = 0]
            /\ Goto(p, AfterStore[pc[p]])
            /\ UNCHANGED <<sem, wait_val, arg, val, dead>>

\* faulty: the pop reads the oldest element
ReadOldest(p) == /\ At(p, {"pop_read"})
                 /\ val' = [val EXCEPT ![p] = shm[0]]
                 /\ at'  = [at EXCEPT ![p] = 0]
                 /\ Goto(p, "poison_index")
                 /\ UNCHANGED <<sem, shm, wait_val, arg, dead>>

Read(p) == /\ At(p, {"pop_read"})
           /\ val' = [val EXCEPT ![p] = shm[at[p]]]
           /\ at'  = [at EXCEPT ![p] = 0]
           /\ Goto(p, "poison_index")
           /\ UNCHANGED <<sem, shm, wait_val, arg, dead>>

\* faulty: the popped slot is not poisoned
PoisonForgotten(p) == /\ At(p, {"pop_poison"})
                      /\ at'  = [at EXCEPT ![p] = 0]
                      /\ Goto(p, "pop_unlock")
                      /\ UNCHANGED <<sem, shm, wait_val, arg, val, dead>>

Poison(p) == /\ At(p, {"pop_poison"})
             /\ shm' = [shm EXCEPT ![at[p]] = POISON]
             /\ at'  = [at EXCEPT ![p] = 0]
             /\ Goto(p, "pop_unlock")
             /\ UNCHANGED <<sem, wait_val, arg, val, dead>>

(* set_wait: the error returns leave without releasing the mutex. *)

\* faulty: the value is stored before it is validated
SetWaitUnchecked(p) ==
  /\ At(p, {"set_body"})
  /\ \E a \in WaitArgs : wait_val' = [wait_val EXCEPT ![p] = a.val]
  /\ Goto(p, "set_unlock")
  /\ UNCHANGED <<sem, shm, at, arg, val, dead>>

SetWait(p) ==
  /\ At(p, {"set_body"})
  /\ \E a \in WaitArgs :
        /\ wait_val' = IF a.val \in -1 .. 1 THEN [wait_val EXCEPT ![p] = a.val]
                                            ELSE wait_val
        /\ Goto(p, IF a.val \in -1 .. 1 /\ (a.val = 1 => a.timeout)
                   THEN "set_unlock" ELSE "idle")
  /\ UNCHANGED <<sem, shm, at, arg, val, dead>>

Dump(p) == /\ At(p, {"dump_read"})
           /\ Goto(p, "dump_unlock")
           /\ UNCHANGED <<sem, shm, wait_val, at, arg, val, dead>>

Crash(p) == /\ p \notin dead
            /\ Cardinality(dead) < MaxCrashes
            /\ dead' = dead \cup {p}
            /\ UNCHANGED <<sem, shm, pc, wait_val, at, arg, val>>

Call(p) == CallPush(p) \/ CallPop(p) \/ CallOther(p)

Step(p) == \/ Unlock(p) \/ Return(p) \/ Check(p) \/ Index(p) \/ Store(p)
           \/ TakeEmpty(p) \/ AddEmpty(p) \/ TakeCount(p) \/ AddCount(p)
           \/ Read(p) \/ Poison(p) \/ SetWait(p) \/ Dump(p)

Next == \E p \in Procs : Call(p) \/ Lock(p) \/ Step(p) \/ Crash(p)

Spec == Init /\ [][Next]_vars

(* A sleeping semop is queued and the kernel completes the oldest request    *)
(* first, so a process is not passed over for ever at the mutex; every other *)
(* step goes on by itself.                                                   *)
Fairness == \A p \in Procs : WF_vars(Step(p)) /\ SF_vars(Lock(p))

FairSpec == Spec /\ Fairness
-----------------------------------------------------------------------------
(* The variables hold values of their types. *)
TypeOK == /\ sem \in [0 .. 2 -> Nat]
          /\ shm \in [0 .. Size - 1 -> Vals \cup {POISON}]
          /\ pc \in [Procs -> Labels]
          /\ wait_val \in [Procs -> -1 .. 1]
          /\ at \in [Procs -> Nat]
          /\ arg \in [Procs -> Vals \cup {POISON}]
          /\ val \in [Procs -> Vals \cup {POISON}]
          /\ dead \subseteq Procs

(* Semaphore 0 is a mutex in every mode of push, pop, set_wait and dump: one *)
(* process at most is between a semop(-1) and its semop(+1), and the         *)
(* semaphore then is 0.                                                      *)
MutualExclusion ==
  /\ sem[MUTEX] \in {0, 1}
  /\ \A p \in Procs : pc[p] \in Inside => sem[MUTEX] = 0
  /\ \A p, q \in Procs : pc[p] \in Inside /\ pc[q] \in Inside => p = q

(* Between the two semaphore operations of a push or a pop a slot is counted *)
(* by neither semaphore 1 nor 2, or by both.                                 *)
UncountedLabels == {"pushw_lock", "pushw_index", "pushw_store", "pushw_add",
                    "pusht_add", "popw_lock", "popw_add", "pop_add"}
Uncounted    == {p \in Procs : pc[p] \in UncountedLabels}
CountedTwice == {p \in Procs : pc[p] = "push_take"}

(* No mode of push and pop loses or invents a slot: the elements, the free   *)
(* slots and the slots an unfinished operation holds add up to the size.     *)
Accounting == count + empty + Cardinality(Uncounted)
                = Size + Cardinality(CountedTwice)

(* push and pop compute the slot from get_count and use it later; in every   *)
(* mode, whatever other processes did in between, it lies in the segment.    *)
InBounds == \A p \in Procs :
              pc[p] \in {"push_store", "pushw_store", "pusht_store",
                        "pop_read", "pop_poison"} => at[p] < Size

(* When nobody is in the critical section, the slots below the count hold    *)
(* pushed values, the others are poisoned, and the counters agree.           *)
ConsistentWhenFree ==
  sem[MUTEX] = 1 => /\ count + empty = Size
                   /\ \A i \in 0 .. Size - 1 : shm[i] \in Vals <=> i < count

(* A pop that is about to return 0 has put a pushed value into the caller's  *)
(* memory.                                                                   *)
PopDelivers == \A p \in Procs : pc[p] = "pop_unlock" => val[p] \in Vals

(* Every call returns, however the others interleave, unless its process is  *)
(* killed or a process was killed inside the critical section.               *)
CallsReturn ==
  \A p \in Procs : pc[p] # "idle" ~> \/ pc[p] = "idle"
                                     \/ p \in dead
                                     \/ \E q \in dead : pc[q] \in Inside

(* A push or pop that had to sleep for the timeout returns afterwards.  The  *)
(* code does not keep this: it locks the mutex twice (stack.c:250, 358).     *)
TimedReturns ==
  \A p \in Procs : pc[p] \in {"pusht_unlock", "popt_unlock"} ~> pc[p] = "idle"
-----------------------------------------------------------------------------
(* The abstract stack.  A push takes effect when it increments semaphore 1,  *)
(* a pop when it decrements it; a failing call when it reads the counter.    *)

Phase(l) ==
  CASE l \in {"push_lock", "push_check", "push_index", "push_store", "push_add",
              "pushw_unlock", "pushw_take", "pushw_lock", "pushw_index",
              "pushw_store", "pushw_add", "pusht_unlock", "pusht_lock",
              "pusht_check", "pusht_again", "pusht_index", "pusht_store",
              "pusht_take", "pusht_add"}                         -> "push"
    [] l \in {"push_take", "push_unlock"}                        -> "pushed"
    [] l = "push_fail"                                           -> "full"
    [] l \in {"pop_lock", "pop_check", "pop_take", "popw_unlock", "popw_take",
              "popt_unlock", "popt_lock", "popt_check", "popt_again"} -> "pop"
    [] l \in {"popw_lock", "popw_add", "pop_add", "pop_index", "pop_read",
              "poison_index", "pop_poison", "pop_unlock"}        -> "popped"
    [] l = "pop_fail"                                            -> "empty"
    [] OTHER                                                     -> "idle"

Popped(p) == IF pc[p] \in {"popw_lock", "popw_add", "pop_add", "pop_index", "pop_read"}
             THEN shm[count] ELSE val[p]

Abstract == INSTANCE AtomicStack
              WITH stack <- [i \in 1 .. count |-> shm[i - 1]],
                   phase <- [p \in Procs |-> Phase(pc[p])],
                   val   <- [p \in Procs |-> Popped(p)]

(* Without set_wait(0), push and pop are the operations of the atomic        *)
(* stack: last in, first out, full and empty reported truly.                 *)
AtomicSpec == Abstract!Spec
=============================================================================
