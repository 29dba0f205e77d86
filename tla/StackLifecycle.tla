--------------------------- MODULE StackLifecycle ---------------------------
(***************************************************************************)
(* attach_stack, mark_destruct and detach_stack of shared_stack/stack.c.   *)
(* A stack is a segment and a semaphore set that the same key names.  The  *)
(* two are created, looked up and removed by separate system calls, which  *)
(* are the steps here.  Semaphore 4 of the set is held during the tail of  *)
(* an attach and the head of a detach.                                     *)
(*                                                                         *)
(* A semop on a set that was removed fails; the code prints the error and  *)
(* goes on as if it had succeeded.                                         *)
(***************************************************************************)
EXTENDS Integers, FiniteSets

CONSTANTS Procs,        \* the processes, each with one handle at a time
          Sizes,        \* the sizes attach_stack is called with
          MaxAttaches,  \* how often attach_stack is called, by all together
          Marks         \* whether the processes call mark_destruct

ASSUME ProcsAssumption    == IsFiniteSet(Procs)
ASSUME SizesAssumption    == Sizes \subseteq Nat \ {0}
ASSUME AttachesAssumption == MaxAttaches \in Nat /\ Marks \in BOOLEAN

VARIABLES shm_key,   \* the segment the key names, 0 if none
          sem_key,   \* the set the key names, 0 if none
          seg,       \* the segments made so far
          set,       \* the semaphore sets made so far
          pc,        \* pc[p]: the system call p is about to make
          shmid,     \* shmid[p]: p's segment, 0 while it has none
          semid,     \* semid[p]: p's set, 0 while it has none
          size,      \* size[p]: the argument of attach_stack, until it is used
          attaches   \* the calls of attach_stack so far

vars == <<shm_key, sem_key, seg, set, pc, shmid, semid, size, attaches>>

Ids == 1 .. MaxAttaches     \* an attach makes one segment and one set at most

Attaching == {"shmget_new", "shmget_old", "shmat_new", "shmat_old", "poison",
              "semget_new", "semget_old", "setval", "attach_lock", "attach_unlock"}
Detaching == {"detach_lock", "stat", "rm_sem", "detach_unlock", "shmdt"}

NoSegment == [alive |-> FALSE, marked |-> FALSE, poisoned |-> FALSE,
              size |-> 0, nattch |-> 0]
NoSet     == [alive |-> FALSE, setvals |-> 0, lock |-> 0, size |-> 0]

Init == /\ shm_key = 0 /\ sem_key = 0
        /\ seg = [i \in Ids |-> NoSegment]
        /\ set = [i \in Ids |-> NoSet]
        /\ pc = [p \in Procs |-> "detached"]
        /\ shmid = [p \in Procs |-> 0] /\ semid = [p \in Procs |-> 0]
        /\ size = [p \in Procs |-> 0]
        /\ attaches = 0

Move(p, from, to) == pc[p] = from /\ pc' = [pc EXCEPT ![p] = to]

CallAttach(p) == /\ attaches < MaxAttaches
                 /\ attaches' = attaches + 1
                 /\ Move(p, "detached", "shmget_new")
                 /\ \E n \in Sizes : size' = [size EXCEPT ![p] = n]
                 /\ UNCHANGED <<shm_key, sem_key, seg, set, shmid, semid>>
-----------------------------------------------------------------------------
(* stack_get_shm *)

Fresh(f) == CHOOSE i \in Ids : /\ ~f[i].alive /\ f[i].size = 0
                               /\ \A j \in Ids : j < i => f[j].size # 0

ShmgetNew(p) ==
  /\ \/ /\ Move(p, "shmget_new", "shmat_new")
        /\ shm_key = 0
        /\ shm_key' = Fresh(seg)
        /\ seg' = [seg EXCEPT ![Fresh(seg)] =
                     [NoSegment EXCEPT !.alive = TRUE, !.size = size[p]]]
        /\ shmid' = [shmid EXCEPT ![p] = Fresh(seg)]
     \/ /\ Move(p, "shmget_new", "shmget_old")
        /\ shm_key # 0
        /\ UNCHANGED <<shm_key, seg, shmid>>
  /\ UNCHANGED <<sem_key, set, semid, size, attaches>>

\* The segment may have been unbound meanwhile, or may be too small.
LargeEnough(p) == shm_key # 0 /\ size[p] <= seg[shm_key].size

ShmgetOld(p) ==
  /\ \/ /\ Move(p, "shmget_old", "shmat_old")
        /\ LargeEnough(p)
        /\ shmid' = [shmid EXCEPT ![p] = shm_key]
     \/ /\ Move(p, "shmget_old", "semget_new")
        /\ ~LargeEnough(p)
        /\ UNCHANGED shmid
  /\ UNCHANGED <<shm_key, sem_key, seg, set, semid, size, attaches>>

\* shmat fails on a segment that was destroyed since shmget returned it.
Shmat(p) ==
  /\ pc[p] \in {"shmat_new", "shmat_old"}
  /\ IF seg[shmid[p]].alive
     THEN /\ seg' = [seg EXCEPT ![shmid[p]].nattch = @ + 1]
          /\ UNCHANGED shmid
     ELSE /\ shmid' = [shmid EXCEPT ![p] = 0]
          /\ UNCHANGED seg
  /\ Move(p, pc[p], IF pc[p] = "shmat_new" /\ seg[shmid[p]].alive
                    THEN "poison" ELSE "semget_new")
  /\ UNCHANGED <<shm_key, sem_key, set, semid, size, attaches>>

Poison(p) == /\ Move(p, "poison", "semget_new")
             /\ seg' = [seg EXCEPT ![shmid[p]].poisoned = TRUE]
             /\ UNCHANGED <<shm_key, sem_key, set, shmid, semid, size, attaches>>
-----------------------------------------------------------------------------
(* stack_get_sem *)

\* The creator asks for the set once more; nobody can have removed it.
SemgetNew(p) ==
  /\ \/ /\ Move(p, "semget_new", "setval")
        /\ sem_key = 0
        /\ sem_key' = Fresh(set)
        /\ set' = [set EXCEPT ![Fresh(set)] =
                     [NoSet EXCEPT !.alive = TRUE, !.size = size[p]]]
        /\ semid' = [semid EXCEPT ![p] = Fresh(set)]
     \/ /\ Move(p, "semget_new", "semget_old")
        /\ sem_key # 0
        /\ UNCHANGED <<sem_key, set, semid>>
  /\ size' = [size EXCEPT ![p] = 0]
  /\ UNCHANGED <<shm_key, seg, shmid, attaches>>

\* When the set was removed meanwhile attach returns NULL; a segment that
\* was attached stays attached.
SemgetOld(p) ==
  /\ \/ /\ sem_key # 0
        /\ semid' = [semid EXCEPT ![p] = sem_key]
        /\ Move(p, "semget_old", "attach_lock")
        /\ UNCHANGED shmid
     \/ /\ sem_key = 0
        /\ Move(p, "semget_old", "detached")
        /\ shmid' = [shmid EXCEPT ![p] = 0]
        /\ UNCHANGED semid
  /\ UNCHANGED <<shm_key, sem_key, seg, set, size, attaches>>

\* faulty: semaphore 4 is set to 1 first
SetvalLockFirst(p) ==
  /\ Move(p, "setval", IF set[semid[p]].setvals = 4 THEN "attach_lock" ELSE "setval")
  /\ set' = [set EXCEPT ![semid[p]].setvals = @ + 1,
                        ![semid[p]].lock = IF set[semid[p]].setvals = 0 THEN 1 ELSE @]
  /\ UNCHANGED <<shm_key, sem_key, seg, shmid, semid, size, attaches>>

\* faulty: one SETVAL too many
SetvalOneMore(p) ==
  /\ Move(p, "setval", IF set[semid[p]].setvals = 5 THEN "attach_lock" ELSE "setval")
  /\ set' = [set EXCEPT ![semid[p]].setvals = @ + 1,
                        ![semid[p]].lock = IF set[semid[p]].setvals = 4 THEN 1 ELSE @]
  /\ UNCHANGED <<shm_key, sem_key, seg, shmid, semid, size, attaches>>

\* Semaphores 0 to 4 in turn; the last one admits the attaches that wait.
Setval(p) ==
  /\ Move(p, "setval", IF set[semid[p]].setvals = 4 THEN "attach_lock" ELSE "setval")
  /\ set' = [set EXCEPT ![semid[p]].setvals = @ + 1,
                        ![semid[p]].lock = IF set[semid[p]].setvals = 4 THEN 1 ELSE @]
  /\ UNCHANGED <<shm_key, sem_key, seg, shmid, semid, size, attaches>>
-----------------------------------------------------------------------------
(* semop on semaphore 4, and what it does when the set was removed. *)

P4(p) == IF set[semid[p]].alive
         THEN /\ set[semid[p]].lock > 0
              /\ set' = [set EXCEPT ![semid[p]].lock = @ - 1]
         ELSE UNCHANGED set

V4(p) == set' = IF set[semid[p]].alive THEN [set EXCEPT ![semid[p]].lock = @ + 1] ELSE set

AttachLock(p) == /\ Move(p, "attach_lock", "attach_unlock")
                 /\ P4(p)
                 /\ UNCHANGED <<shm_key, sem_key, seg, shmid, semid, size, attaches>>

\* faulty: the attach that got no segment returns with semaphore 4 at 0
AttachUnlockLeak(p) ==
  /\ Move(p, "attach_unlock", IF shmid[p] = 0 THEN "detached" ELSE "attached")
  /\ IF shmid[p] = 0 THEN UNCHANGED set ELSE V4(p)
  /\ semid' = IF shmid[p] = 0 THEN [semid EXCEPT ![p] = 0] ELSE semid
  /\ UNCHANGED <<shm_key, sem_key, seg, shmid, size, attaches>>

\* attach_stack returns: NULL when there is no segment.
AttachUnlock(p) ==
  /\ Move(p, "attach_unlock", IF shmid[p] = 0 THEN "detached" ELSE "attached")
  /\ V4(p)
  /\ semid' = IF shmid[p] = 0 THEN [semid EXCEPT ![p] = 0] ELSE semid
  /\ UNCHANGED <<shm_key, sem_key, seg, shmid, size, attaches>>
-----------------------------------------------------------------------------
(* mark_destruct unbinds the key at once; the memory stays until shmdt. *)

MarkDestruct(p) ==
  /\ Marks /\ pc[p] = "attached"
  /\ ~seg[shmid[p]].marked
  /\ seg' = [seg EXCEPT ![shmid[p]].marked = TRUE]
  /\ shm_key' = IF shm_key = shmid[p] THEN 0 ELSE shm_key
  /\ UNCHANGED <<sem_key, set, pc, shmid, semid, size, attaches>>

(* detach_stack *)

CallDetach(p) == /\ Move(p, "attached", "detach_lock")
                 /\ UNCHANGED <<shm_key, sem_key, seg, set, shmid, semid, size, attaches>>

\* faulty: the detach does not take semaphore 4, but releases it
DetachLockSkipped(p) ==
  /\ Move(p, "detach_lock", "stat")
  /\ UNCHANGED <<shm_key, sem_key, seg, set, shmid, semid, size, attaches>>

DetachLock(p) == /\ Move(p, "detach_lock", "stat")
                 /\ P4(p)
                 /\ UNCHANGED <<shm_key, sem_key, seg, shmid, semid, size, attaches>>

\* faulty: a detach that shares the segment with one other removes the set
StatOffByOne(p) ==
  /\ Move(p, "stat", IF seg[shmid[p]].nattch <= 2 THEN "rm_sem" ELSE "detach_unlock")
  /\ UNCHANGED <<shm_key, sem_key, seg, set, shmid, semid, size, attaches>>

Stat(p) ==
  /\ Move(p, "stat", IF seg[shmid[p]].nattch = 1 THEN "rm_sem" ELSE "detach_unlock")
  /\ UNCHANGED <<shm_key, sem_key, seg, set, shmid, semid, size, attaches>>

RmSem(p) == /\ Move(p, "rm_sem", "shmdt")
            /\ set' = [set EXCEPT ![semid[p]].alive = FALSE]
            /\ sem_key' = IF sem_key = semid[p] THEN 0 ELSE sem_key
            /\ UNCHANGED <<shm_key, seg, shmid, semid, size, attaches>>

DetachUnlock(p) == /\ Move(p, "detach_unlock", "shmdt")
                   /\ V4(p)
                   /\ UNCHANGED <<shm_key, sem_key, seg, shmid, semid, size, attaches>>

Shmdt(p) ==
  /\ Move(p, "shmdt", "detached")
  /\ seg' = [seg EXCEPT ![shmid[p]].nattch = @ - 1,
                        ![shmid[p]].alive = ~(seg[shmid[p]].marked /\ seg[shmid[p]].nattch = 1)]
  /\ shmid' = [shmid EXCEPT ![p] = 0]
  /\ semid' = [semid EXCEPT ![p] = 0]
  /\ UNCHANGED <<shm_key, sem_key, set, size, attaches>>
-----------------------------------------------------------------------------
Work(p) == \/ ShmgetNew(p) \/ ShmgetOld(p) \/ Shmat(p) \/ Poison(p)
           \/ SemgetNew(p) \/ SemgetOld(p) \/ Setval(p)
           \/ AttachUnlock(p) \/ Stat(p) \/ RmSem(p) \/ DetachUnlock(p) \/ Shmdt(p)

Wait(p) == AttachLock(p) \/ DetachLock(p)

Next == \E p \in Procs : \/ CallAttach(p) \/ CallDetach(p) \/ MarkDestruct(p)
                         \/ Work(p) \/ Wait(p)

Spec == Init /\ [][Next]_vars

(* Waiting for semaphore 4 is first come, first served; the rest goes on.  *)
FairSpec == Spec /\ \A p \in Procs : WF_vars(Work(p)) /\ SF_vars(Wait(p))
-----------------------------------------------------------------------------
TypeOK ==
  /\ shm_key \in 0 .. MaxAttaches /\ sem_key \in 0 .. MaxAttaches
  /\ seg \in [Ids -> [alive : BOOLEAN, marked : BOOLEAN, poisoned : BOOLEAN,
                      size : Nat, nattch : Nat]]
  /\ set \in [Ids -> [alive : BOOLEAN, setvals : 0 .. 5, lock : Nat, size : Nat]]
  /\ pc \in [Procs -> Attaching \cup Detaching \cup {"detached", "attached"}]
  /\ shmid \in [Procs -> 0 .. MaxAttaches] /\ semid \in [Procs -> 0 .. MaxAttaches]
  /\ size \in [Procs -> Sizes \cup {0}]
  /\ attaches \in 0 .. MaxAttaches

Using(p)  == pc[p] \in {"attached", "detach_lock"}
HasSet(p) == set[semid[p]].alive
Marked    == \E i \in Ids : seg[i].marked

(* No attach returns a set whose five semaphores are not all initialised:  *)
(* SETVAL of semaphore 4 comes last, and attach waits for it.              *)
SetupBeforeUse == \A p \in Procs : Using(p) /\ HasSet(p) => set[semid[p]].setvals = 5

(* Semaphore 4 of a live set is held by one attach or detach, or is free,  *)
(* or one attach has yet to set it to 1: whoever waits for it waits for    *)
(* somebody who does not wait.                                             *)
Holders(i) == {p \in Procs : semid[p] = i /\ pc[p] \in {"attach_unlock", "stat", "rm_sem",
                                                       "detach_unlock"}}
LockConserved ==
  \A i \in Ids : set[i].alive =>
    \/ set[i].setvals = 5 /\ set[i].lock + Cardinality(Holders(i)) = 1
    \/ set[i].setvals < 5 /\ set[i].lock = 0 /\ \E p \in Procs : pc[p] = "setval" /\ semid[p] = i

(* As long as nobody called mark_destruct, the semaphores of a handle whose *)
(* attach returned them alive are not removed before its own detach: the    *)
(* detach that sees shm_nattch 1 under semaphore 4 is the last user.        *)
KeepsSet ==
  [][\A p \in Procs : Using(p) /\ HasSet(p) /\ Using(p)' /\ ~Marked => HasSet(p)']_vars

(* attach_stack and detach_stack return, whatever the others do.           *)
CallsComplete ==
  \A p \in Procs : pc[p] \in Attaching \cup Detaching ~> pc[p] \in {"detached", "attached"}

(* "Marks stack to be destroyed. Destruction are done after all detaches"  *)
(* (stack.h): an attached process still has its semaphores.  The code does *)
(* not keep this: shm_nattch may be out of date at the removal.            *)
DestroyedLast == \A p \in Procs : Using(p) => HasSet(p)

(* "When all processes are detached, the stack destructs" (README.md).     *)
(* The code does not keep this: it releases semaphore 4 before shmdt.      *)
DetachedIsDestroyed == (\A p \in Procs : pc[p] = "detached") => sem_key = 0
=============================================================================
