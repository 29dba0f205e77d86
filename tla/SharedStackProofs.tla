------------------------- MODULE SharedStackProofs -------------------------
(***************************************************************************)
(* Proofs about SharedStack, for every set of processes, size, set of      *)
(* values and set of set_wait arguments: every mode of push and pop.       *)
(***************************************************************************)
EXTENDS SharedStack, FiniteSetTheorems, SequenceTheorems, TLAPS

\* The slots that semaphore 2 counts and those an unfinished operation holds.
Free == empty + Cardinality(Uncounted)

\* A process about to compute an index has a slot to use: the one it saw
\* free, or the one it gave back and that only a waiting push can take.
SlotAhead ==
  \A p \in Procs :
    pc[p] \in {"push_index", "pop_index", "pop_read", "poison_index"} => Free > 0

\* The timed push never gets past its second semop on the mutex (push 250).
NeverAgain ==
  \A p \in Procs : pc[p] \notin {"pusht_index", "pusht_store", "pusht_take", "pusht_add"}

IInv == TypeOK /\ MutualExclusion /\ Accounting /\ InBounds /\ SlotAhead /\ NeverAgain

One(b) == IF b THEN 1 ELSE 0
-----------------------------------------------------------------------------
(* The sets of unfinished operations are finite.                           *)
LEMMA Finite ==
  /\ IsFiniteSet(Uncounted)    /\ Cardinality(Uncounted) \in Nat
  /\ IsFiniteSet(CountedTwice) /\ Cardinality(CountedTwice) \in Nat
<1>1. Uncounted \in SUBSET Procs /\ CountedTwice \in SUBSET Procs
  BY DEF Uncounted, CountedTwice
<1>2. IsFiniteSet(Uncounted) /\ IsFiniteSet(CountedTwice)
  BY <1>1, FS_Subset, ProcsAssumption
<1> QED
  BY <1>2, FS_CardinalityType

(* How the number of unfinished operations changes when p goes to label l. *)
LEMMA Moves ==
  ASSUME pc \in [Procs -> Labels], NEW p \in Procs, NEW l, Goto(p, l)
  PROVE  /\ Cardinality(Uncounted') = Cardinality(Uncounted)
              + One(l \in UncountedLabels) - One(pc[p] \in UncountedLabels)
         /\ Cardinality(CountedTwice') = Cardinality(CountedTwice)
              + One(l = "push_take") - One(pc[p] = "push_take")
         /\ \A q \in Procs : pc'[q] = IF q = p THEN l ELSE pc[q]
<1>1. \A q \in Procs : pc'[q] = IF q = p THEN l ELSE pc[q]
  BY DEF Goto
<1>2. Cardinality(Uncounted') = Cardinality(Uncounted)
        + One(l \in UncountedLabels) - One(pc[p] \in UncountedLabels)
  <2>1. CASE l \in UncountedLabels
    <3>1. Uncounted' = Uncounted \cup {p}
      BY <1>1, <2>1 DEF Uncounted
    <3>2. p \in Uncounted <=> pc[p] \in UncountedLabels
      BY DEF Uncounted
    <3>3. Cardinality(Uncounted \cup {p})
            = IF p \in Uncounted THEN Cardinality(Uncounted) ELSE Cardinality(Uncounted) + 1
      BY Finite, FS_AddElement
    <3> QED
      BY <2>1, <3>1, <3>2, <3>3, Finite DEF One
  <2>2. CASE l \notin UncountedLabels
    <3>1. Uncounted' = Uncounted \ {p}
      BY <1>1, <2>2 DEF Uncounted
    <3>2. p \in Uncounted <=> pc[p] \in UncountedLabels
      BY DEF Uncounted
    <3>3. Cardinality(Uncounted \ {p})
            = IF p \in Uncounted THEN Cardinality(Uncounted) - 1 ELSE Cardinality(Uncounted)
      BY Finite, FS_RemoveElement
    <3> QED
      BY <2>2, <3>1, <3>2, <3>3, Finite DEF One
  <2> QED
    BY <2>1, <2>2
<1>3. Cardinality(CountedTwice') = Cardinality(CountedTwice)
        + One(l = "push_take") - One(pc[p] = "push_take")
  <2>1. CASE l = "push_take"
    <3>1. CountedTwice' = CountedTwice \cup {p}
      BY <1>1, <2>1 DEF CountedTwice
    <3>2. p \in CountedTwice <=> pc[p] = "push_take"
      BY DEF CountedTwice
    <3>3. Cardinality(CountedTwice \cup {p})
            = IF p \in CountedTwice THEN Cardinality(CountedTwice)
                                    ELSE Cardinality(CountedTwice) + 1
      BY Finite, FS_AddElement
    <3> QED
      BY <2>1, <3>1, <3>2, <3>3, Finite DEF One
  <2>2. CASE l # "push_take"
    <3>1. CountedTwice' = CountedTwice \ {p}
      BY <1>1, <2>2 DEF CountedTwice
    <3>2. p \in CountedTwice <=> pc[p] = "push_take"
      BY DEF CountedTwice
    <3>3. Cardinality(CountedTwice \ {p})
            = IF p \in CountedTwice THEN Cardinality(CountedTwice) - 1
                                    ELSE Cardinality(CountedTwice)
      BY Finite, FS_RemoveElement
    <3> QED
      BY <2>2, <3>1, <3>2, <3>3, Finite DEF One
  <2> QED
    BY <2>1, <2>2
<1> QED
  BY <1>1, <1>2, <1>3

(* Nobody is inside together with p, so a slot is counted twice only by p. *)
LEMMA AloneInside ==
  ASSUME MutualExclusion, NEW p \in Procs, pc[p] \in Inside
  PROVE  /\ \A q \in Procs : pc[q] \in Inside => q = p
         /\ pc[p] # "push_take" => Cardinality(CountedTwice) = 0
<1>1. \A q \in Procs : pc[q] \in Inside => q = p
  BY DEF MutualExclusion
<1>2. ASSUME pc[p] # "push_take"
      PROVE  CountedTwice = {}
  BY <1>1, <1>2 DEF CountedTwice, Inside
<1> QED
  BY <1>1, <1>2, FS_EmptySet
-----------------------------------------------------------------------------
(* What the label tables do to the quantities of the invariant.            *)
LEMMA LockTable ==
  ASSUME NEW l \in DOMAIN AfterLock, l # "pusht_again", l # "popt_again"
  PROVE  /\ l \in Outside /\ AfterLock[l] \in Inside
         /\ l \in UncountedLabels <=> AfterLock[l] \in UncountedLabels
         /\ AfterLock[l] \in {"push_check", "pop_check", "pushw_index", "popw_add",
                             "pusht_check", "popt_check", "set_body", "dump_read"}
BY DEF AfterLock, Outside, Inside, UncountedLabels

LEMMA UnlockTable ==
  ASSUME NEW l \in DOMAIN AfterUnlock
  PROVE  /\ l \in Inside /\ l \notin UncountedLabels /\ l # "push_take"
         /\ AfterUnlock[l] \in {"pushw_take", "popw_take", "pusht_lock", "popt_lock"}
BY DEF AfterUnlock, Inside, UncountedLabels

LEMMA InitIInv == Init => IInv
<1> SUFFICES ASSUME Init PROVE IInv
  OBVIOUS
<1>1. Uncounted = {} /\ CountedTwice = {}
  BY DEF Init, Uncounted, CountedTwice, UncountedLabels
<1>2. Cardinality(Uncounted) = 0 /\ Cardinality(CountedTwice) = 0
  BY <1>1, FS_EmptySet
<1>3. TypeOK
  BY SizeAssumption DEF Init, TypeOK, Labels, Outside
<1>4. MutualExclusion
  BY DEF Init, MutualExclusion, Inside, MUTEX
<1>5. Accounting
  BY <1>2, SizeAssumption DEF Init, Accounting, count, empty, MUTEX, COUNT, EMPTY
<1>6. InBounds /\ SlotAhead /\ NeverAgain
  BY DEF Init, InBounds, SlotAhead, NeverAgain
<1> QED
  BY <1>3, <1>4, <1>5, <1>6 DEF IInv

LEMMA LockIInv ==
  ASSUME IInv, NEW p \in Procs, Lock(p)
  PROVE  IInv'
<1> USE DEF IInv
<1>a. pc[p] \in DOMAIN AfterLock /\ Goto(p, AfterLock[pc[p]])
  BY DEF Lock, At
<1>b. UNCHANGED <<shm, wait_val, at, arg, val, dead>>
  BY DEF Lock
<1>c. /\ sem \in [0 .. 2 -> Nat] /\ sem[MUTEX] = 1
      /\ sem' = [sem EXCEPT ![MUTEX] = sem[MUTEX] - 1]
  BY DEF Lock, Decrement, TypeOK, MutualExclusion
<1>d. sem' \in [0 .. 2 -> Nat] /\ sem'[MUTEX] = 0
  BY <1>c DEF MUTEX
<1>e. sem'[COUNT] = sem[COUNT] /\ sem'[EMPTY] = sem[EMPTY]
  BY <1>c DEF MUTEX, COUNT, EMPTY
<1>1. pc[p] \in DOMAIN AfterLock
  BY <1>a
<1>2. \A q \in Procs : pc[q] \notin Inside
  BY <1>c DEF MutualExclusion
<1>3. pc[p] # "pusht_again" /\ pc[p] # "popt_again"
  BY <1>2 DEF Inside
<1>4. /\ AfterLock[pc[p]] \in Inside
      /\ pc[p] \in UncountedLabels <=> AfterLock[pc[p]] \in UncountedLabels
      /\ AfterLock[pc[p]] \in {"push_check", "pop_check", "pushw_index", "popw_add",
                              "pusht_check", "popt_check", "set_body", "dump_read"}
  BY <1>1, <1>3, LockTable
<1>5. /\ Cardinality(Uncounted') = Cardinality(Uncounted)
      /\ Cardinality(CountedTwice') = Cardinality(CountedTwice)
      /\ \A q \in Procs : pc'[q] = IF q = p THEN AfterLock[pc[p]] ELSE pc[q]
  <2>1. pc[p] # "push_take"
    BY <1>2 DEF Inside
  <2> QED
    BY <1>a, <1>4, <2>1, Moves, Finite DEF One, TypeOK
<1>6. TypeOK'
  BY <1>a, <1>b, <1>d, <1>4 DEF TypeOK, Goto, Labels
<1>7. MutualExclusion'
  BY <1>d, <1>2, <1>5 DEF MutualExclusion
<1>8. Accounting'
  BY <1>e, <1>5 DEF Accounting, count, empty
<1>9. InBounds'
  BY <1>b, <1>4, <1>5 DEF InBounds
<1>10. SlotAhead'
  BY <1>1, <1>2, <1>4, <1>5 DEF SlotAhead, Inside
<1>11. NeverAgain'
  BY <1>1, <1>4, <1>5 DEF NeverAgain
<1> QED
  BY <1>6, <1>7, <1>8, <1>9, <1>10, <1>11

(* p releases the mutex and goes to a label outside of it.                 *)
LEMMA LeaveIInv ==
  ASSUME IInv, NEW p \in Procs,
         NEW l \in {"idle", "pushw_take", "popw_take", "pusht_lock", "popt_lock"},
         pc[p] \in Inside \ (UncountedLabels \cup {"push_take"}),
         Goto(p, l), Increment(MUTEX), UNCHANGED <<shm, wait_val, at, dead>>,
         arg' \in [Procs -> Vals \cup {POISON}], val' \in [Procs -> Vals \cup {POISON}]
  PROVE  IInv'
<1> USE DEF IInv
<1>1. \A q \in Procs : pc[q] \in Inside => q = p
  BY DEF MutualExclusion
<1>2. sem[MUTEX] = 0 /\ sem \in [0 .. 2 -> Nat] /\ sem' = [sem EXCEPT ![MUTEX] = sem[MUTEX] + 1]
  BY DEF MutualExclusion, TypeOK, Increment
<1>3. sem' \in [0 .. 2 -> Nat] /\ sem'[MUTEX] = 1
  BY <1>2 DEF MUTEX
<1>4. sem'[COUNT] = sem[COUNT] /\ sem'[EMPTY] = sem[EMPTY]
  BY <1>2 DEF MUTEX, COUNT, EMPTY
<1>5. /\ l \notin Inside /\ l \notin UncountedLabels /\ l # "push_take" /\ l \in Labels
      /\ pc[p] \notin UncountedLabels /\ pc[p] # "push_take"
  BY DEF Inside, UncountedLabels, Labels, Outside
<1>6. /\ Cardinality(Uncounted') = Cardinality(Uncounted)
      /\ Cardinality(CountedTwice') = Cardinality(CountedTwice)
      /\ \A q \in Procs : pc'[q] = IF q = p THEN l ELSE pc[q]
  <2>1. /\ Cardinality(Uncounted') = Cardinality(Uncounted)
              + One(l \in UncountedLabels) - One(pc[p] \in UncountedLabels)
        /\ Cardinality(CountedTwice') = Cardinality(CountedTwice)
              + One(l = "push_take") - One(pc[p] = "push_take")
        /\ \A q \in Procs : pc'[q] = IF q = p THEN l ELSE pc[q]
    BY Moves DEF TypeOK
  <2> QED
    BY <1>5, <2>1, Finite DEF One
<1>7. TypeOK'
  BY <1>3, <1>5 DEF TypeOK, Goto
<1>8. MutualExclusion'
  BY <1>1, <1>3, <1>5, <1>6 DEF MutualExclusion
<1>9. Accounting'
  BY <1>4, <1>6 DEF Accounting, count, empty
<1>10. InBounds' /\ SlotAhead' /\ NeverAgain'
  BY <1>1, <1>5, <1>6 DEF InBounds, SlotAhead, NeverAgain, Inside
<1> QED
  BY <1>7, <1>8, <1>9, <1>10

(* p goes on inside the mutex without a semaphore operation.               *)
SlotLabels  == {"push_index", "pop_index", "pop_read", "poison_index"}
IndexLabels == {"push_store", "pushw_store", "pusht_store", "pop_read", "pop_poison"}
AgainLabels == {"pusht_index", "pusht_store", "pusht_take", "pusht_add"}

LEMMA QuietIInv ==
  ASSUME IInv, NEW p \in Procs, NEW l \in Inside,
         pc[p] \in Inside, pc[p] # "push_take", l # "push_take", l \notin AgainLabels,
         pc[p] \in UncountedLabels <=> l \in UncountedLabels,
         l \in SlotLabels => Free > 0,
         l \in IndexLabels => at'[p] < Size,
         \A q \in Procs : q # p => at'[q] = at[q],
         Goto(p, l), UNCHANGED sem, TypeOK'
  PROVE  IInv'
<1> USE DEF IInv
<1>1. \A q \in Procs : pc[q] \in Inside => q = p
  BY DEF MutualExclusion
<1>2. /\ Cardinality(Uncounted') = Cardinality(Uncounted)
      /\ Cardinality(CountedTwice') = Cardinality(CountedTwice)
      /\ \A q \in Procs : pc'[q] = IF q = p THEN l ELSE pc[q]
  BY Moves, Finite DEF One, TypeOK
<1>3. MutualExclusion'
  BY <1>1, <1>2 DEF MutualExclusion
<1>4. Accounting'
  BY <1>2 DEF Accounting, count, empty
<1>5. InBounds'
  BY <1>2 DEF InBounds, IndexLabels
<1>6. SlotAhead'
  BY <1>2 DEF SlotAhead, SlotLabels, Free, empty
<1>7. NeverAgain'
  BY <1>2 DEF NeverAgain, AgainLabels
<1> QED
  BY <1>3, <1>4, <1>5, <1>6, <1>7

LEMMA UnlockIInv ==
  ASSUME IInv, NEW p \in Procs, Unlock(p)
  PROVE  IInv'
<1>1. pc[p] \in DOMAIN AfterUnlock /\ Goto(p, AfterUnlock[pc[p]]) /\ Increment(MUTEX)
  BY DEF Unlock, At
<1>2. UNCHANGED <<shm, wait_val, at, arg, val, dead>>
  BY DEF Unlock
<1>3. AfterUnlock[pc[p]] \in {"pushw_take", "popw_take", "pusht_lock", "popt_lock"}
  BY <1>1, UnlockTable
<1>4. pc[p] \in Inside \ (UncountedLabels \cup {"push_take"})
  BY <1>1, UnlockTable
<1> QED
  BY <1>1, <1>2, <1>3, <1>4, LeaveIInv DEF IInv, TypeOK

LEMMA ReturnIInv ==
  ASSUME IInv, NEW p \in Procs, Return(p)
  PROVE  IInv'
<1>1. pc[p] \in Returning /\ Goto(p, "idle") /\ Increment(MUTEX)
  BY DEF Return, At
<1>2. pc[p] \in Inside \ (UncountedLabels \cup {"push_take"})
  BY <1>1 DEF Returning, Inside, UncountedLabels
<1>3. /\ arg' \in [Procs -> Vals \cup {POISON}]
      /\ val' \in [Procs -> Vals \cup {POISON}]
  BY DEF Return, IInv, TypeOK
<1>4. UNCHANGED <<shm, wait_val, at, dead>>
  BY DEF Return
<1> QED
  BY <1>1, <1>2, <1>3, <1>4, LeaveIInv

LEMMA CheckIInv ==
  ASSUME IInv, NEW p \in Procs, Check(p)
  PROVE  IInv'
<1> USE DEF IInv
<1>1. /\ pc[p] \in {"push_check", "pusht_check", "pop_check", "popt_check"}
      /\ Goto(p, Branch(p))
      /\ UNCHANGED sem /\ UNCHANGED at
  BY DEF Check, At
<1>2. wait_val[p] \in -1 .. 1
  BY DEF TypeOK
<1>3. /\ WhenFull(p) \in {"push_fail", "pushw_unlock", "pusht_unlock"}
      /\ WhenEmpty(p) \in {"pop_fail", "popw_unlock", "popt_unlock"}
  BY <1>2 DEF WhenFull, WhenEmpty
<1>4. Branch(p) \in {"push_fail", "pushw_unlock", "pusht_unlock", "pusht_again", "pop_fail",
                    "popw_unlock", "popt_unlock", "popt_again", "pop_take", "push_index"}
  BY <1>1, <1>3 DEF Branch
<1>5. Branch(p) = "push_index" => Free > 0
  <2>1. ASSUME Branch(p) = "push_index" PROVE empty # 0
    BY <1>1, <1>3, <2>1 DEF Branch
  <2>2. empty \in Nat
    BY DEF TypeOK, empty, EMPTY
  <2> QED
    BY <2>1, <2>2, Finite DEF Free
<1>6. TypeOK'
  <2>1. Branch(p) \in Labels
    BY <1>4 DEF Labels, Inside
  <2> QED
    BY <1>1, <2>1 DEF TypeOK, Goto, Check
<1>7. /\ pc[p] \in Inside /\ pc[p] # "push_take" /\ pc[p] \notin UncountedLabels
      /\ Branch(p) \in Inside /\ Branch(p) # "push_take" /\ Branch(p) \notin UncountedLabels
      /\ Branch(p) \notin AgainLabels /\ Branch(p) \notin IndexLabels
      /\ Branch(p) \in SlotLabels => Branch(p) = "push_index"
  BY <1>1, <1>4 DEF Inside, UncountedLabels, AgainLabels, IndexLabels, SlotLabels
<1> QED
  BY <1>1, <1>5, <1>6, <1>7, QuietIInv

(* The heart of the bounds: a process about to compute an index finds the  *)
(* count below the size.                                                   *)
LEMMA CountBelowSize ==
  ASSUME IInv, NEW p \in Procs, pc[p] \in DOMAIN AfterIndex
  PROVE  count \in Nat /\ count < Size
<1> USE DEF IInv
<1>1. pc[p] \in {"push_index", "pushw_index", "pop_index", "poison_index"}
  BY DEF AfterIndex, NeverAgain
<1>2. Cardinality(CountedTwice) = 0
  BY <1>1, AloneInside DEF Inside
<1>3. Free > 0
  <2>1. CASE pc[p] = "pushw_index"
    <3>1. p \in Uncounted
      BY <2>1 DEF Uncounted, UncountedLabels
    <3>2. Cardinality(Uncounted) # 0
      BY <3>1, Finite, FS_EmptySet
    <3>3. empty \in Nat
      BY DEF TypeOK, empty, EMPTY
    <3> QED
      BY <3>2, <3>3, Finite DEF Free
  <2>2. CASE pc[p] # "pushw_index"
    BY <1>1, <2>2 DEF SlotAhead
  <2> QED
    BY <2>1, <2>2
<1>4. count \in Nat /\ empty \in Nat
  BY DEF TypeOK, count, empty, COUNT, EMPTY
<1> QED
  BY <1>2, <1>3, <1>4, Finite, SizeAssumption DEF Accounting, Free

LEMMA IndexIInv ==
  ASSUME IInv, NEW p \in Procs, Index(p)
  PROVE  IInv'
<1> USE DEF IInv
<1>1. pc[p] \in DOMAIN AfterIndex /\ Goto(p, AfterIndex[pc[p]]) /\ UNCHANGED sem
  BY DEF Index, At
<1>2. at' = [at EXCEPT ![p] = count]
  BY DEF Index
<1>3. count \in Nat /\ count < Size
  BY <1>1, CountBelowSize
<1>4. /\ pc[p] \in {"push_index", "pushw_index", "pop_index", "poison_index"}
      /\ AfterIndex[pc[p]] \in {"push_store", "pushw_store", "pop_read", "pop_poison"}
      /\ pc[p] \in UncountedLabels <=> AfterIndex[pc[p]] \in UncountedLabels
      /\ AfterIndex[pc[p]] = "pop_read" => pc[p] = "pop_index"
  BY <1>1 DEF AfterIndex, NeverAgain, UncountedLabels
<1>5. AfterIndex[pc[p]] \in SlotLabels => Free > 0
  BY <1>4 DEF SlotLabels, SlotAhead
<1>6. TypeOK'
  <2>1. AfterIndex[pc[p]] \in Labels
    BY <1>4 DEF Labels, Inside
  <2> QED
    BY <1>1, <1>2, <1>3, <2>1 DEF TypeOK, Goto, Index
<1>7. at'[p] < Size /\ \A q \in Procs : q # p => at'[q] = at[q]
  BY <1>2, <1>3 DEF TypeOK
<1>8. /\ pc[p] \in Inside /\ pc[p] # "push_take"
      /\ AfterIndex[pc[p]] \in Inside /\ AfterIndex[pc[p]] # "push_take"
      /\ AfterIndex[pc[p]] \notin AgainLabels
  BY <1>4 DEF Inside, AgainLabels
<1> QED
  BY <1>1, <1>4, <1>5, <1>6, <1>7, <1>8, QuietIInv

LEMMA StoreIInv ==
  ASSUME IInv, NEW p \in Procs, Store(p)
  PROVE  IInv'
<1> USE DEF IInv
<1>1. /\ pc[p] \in DOMAIN AfterStore /\ Goto(p, AfterStore[pc[p]]) /\ UNCHANGED sem
      /\ shm' = [shm EXCEPT ![at[p]] = arg[p]] /\ at' = [at EXCEPT ![p] = 0]
      /\ UNCHANGED <<wait_val, arg, val, dead>>
  BY DEF Store, At
<1>2. /\ pc[p] \in {"push_store", "pushw_store"}
      /\ AfterStore[pc[p]] \in {"push_add", "pushw_add"}
      /\ pc[p] \in UncountedLabels <=> AfterStore[pc[p]] \in UncountedLabels
  BY <1>1 DEF AfterStore, NeverAgain, UncountedLabels
<1>3. TypeOK'
  <2>1. AfterStore[pc[p]] \in Labels
    BY <1>2 DEF Labels, Inside
  <2> QED
    BY <1>1, <2>1 DEF TypeOK, Goto
<1>4. \A q \in Procs : q # p => at'[q] = at[q]
  BY <1>1 DEF TypeOK
<1>5. /\ pc[p] \in Inside /\ pc[p] # "push_take"
      /\ AfterStore[pc[p]] \in Inside /\ AfterStore[pc[p]] # "push_take"
      /\ AfterStore[pc[p]] \notin AgainLabels \cup SlotLabels \cup IndexLabels
  BY <1>2 DEF Inside, AgainLabels, SlotLabels, IndexLabels
<1> QED
  BY <1>1, <1>2, <1>3, <1>4, <1>5, QuietIInv

LEMMA ReadIInv ==
  ASSUME IInv, NEW p \in Procs, Read(p)
  PROVE  IInv'
<1> USE DEF IInv
<1>1. /\ pc[p] = "pop_read" /\ Goto(p, "poison_index") /\ UNCHANGED sem
      /\ val' = [val EXCEPT ![p] = shm[at[p]]] /\ at' = [at EXCEPT ![p] = 0]
      /\ UNCHANGED <<shm, wait_val, arg, dead>>
  BY DEF Read, At
<1>2. at[p] \in 0 .. Size - 1
  BY <1>1, SizeAssumption DEF InBounds, TypeOK
<1>3. TypeOK'
  BY <1>1, <1>2 DEF TypeOK, Goto, Labels, Inside
<1>4. \A q \in Procs : q # p => at'[q] = at[q]
  BY <1>1 DEF TypeOK
<1>5. Free > 0
  BY <1>1 DEF SlotAhead
<1> QED
  BY <1>1, <1>3, <1>4, <1>5, QuietIInv
     DEF Inside, AgainLabels, IndexLabels, UncountedLabels

LEMMA PoisonIInv ==
  ASSUME IInv, NEW p \in Procs, Poison(p)
  PROVE  IInv'
<1> USE DEF IInv
<1>1. /\ pc[p] = "pop_poison" /\ Goto(p, "pop_unlock") /\ UNCHANGED sem
      /\ shm' = [shm EXCEPT ![at[p]] = POISON] /\ at' = [at EXCEPT ![p] = 0]
      /\ UNCHANGED <<wait_val, arg, val, dead>>
  BY DEF Poison, At
<1>2. TypeOK'
  BY <1>1 DEF TypeOK, Goto, Labels, Inside
<1>3. \A q \in Procs : q # p => at'[q] = at[q]
  BY <1>1 DEF TypeOK
<1> QED
  BY <1>1, <1>2, <1>3, QuietIInv
     DEF Inside, AgainLabels, IndexLabels, SlotLabels, UncountedLabels

LEMMA DumpIInv ==
  ASSUME IInv, NEW p \in Procs, Dump(p)
  PROVE  IInv'
<1> USE DEF IInv
<1>1. /\ pc[p] = "dump_read" /\ Goto(p, "dump_unlock")
      /\ UNCHANGED <<sem, shm, wait_val, at, arg, val, dead>>
  BY DEF Dump, At
<1>2. TypeOK'
  BY <1>1 DEF TypeOK, Goto, Labels, Inside
<1> QED
  BY <1>1, <1>2, QuietIInv
     DEF Inside, AgainLabels, IndexLabels, SlotLabels, UncountedLabels

(* The four operations on semaphores 1 and 2.                              *)
LEMMA TakeEmptyIInv ==
  ASSUME IInv, NEW p \in Procs, TakeEmpty(p)
  PROVE  IInv'
<1> USE DEF IInv
<1>1. /\ pc[p] \in DOMAIN AfterTakeEmpty /\ Goto(p, AfterTakeEmpty[pc[p]])
      /\ UNCHANGED <<shm, wait_val, at, arg, val, dead>>
  BY DEF TakeEmpty, At
<1>2. /\ sem \in [0 .. 2 -> Nat] /\ sem[EMPTY] > 0
      /\ sem' = [sem EXCEPT ![EMPTY] = sem[EMPTY] - 1]
  BY DEF TakeEmpty, Decrement, TypeOK
<1>3. sem' \in [0 .. 2 -> Nat] /\ sem'[EMPTY] = sem[EMPTY] - 1
  BY <1>2 DEF EMPTY
<1>4. sem'[COUNT] = sem[COUNT] /\ sem'[MUTEX] = sem[MUTEX]
  BY <1>2 DEF MUTEX, COUNT, EMPTY
<1>5. \/ pc[p] = "push_take"  /\ AfterTakeEmpty[pc[p]] = "push_unlock"
      \/ pc[p] = "pushw_take" /\ AfterTakeEmpty[pc[p]] = "pushw_lock"
  BY <1>1 DEF AfterTakeEmpty, NeverAgain
<1>6. /\ Cardinality(Uncounted') = Cardinality(Uncounted) + One(pc[p] = "pushw_take")
      /\ Cardinality(CountedTwice') = Cardinality(CountedTwice) - One(pc[p] = "push_take")
      /\ \A q \in Procs : pc'[q] = IF q = p THEN AfterTakeEmpty[pc[p]] ELSE pc[q]
  <2>1. /\ Cardinality(Uncounted') = Cardinality(Uncounted)
              + One(AfterTakeEmpty[pc[p]] \in UncountedLabels) - One(pc[p] \in UncountedLabels)
        /\ Cardinality(CountedTwice') = Cardinality(CountedTwice)
              + One(AfterTakeEmpty[pc[p]] = "push_take") - One(pc[p] = "push_take")
        /\ \A q \in Procs : pc'[q] = IF q = p THEN AfterTakeEmpty[pc[p]] ELSE pc[q]
    BY <1>1, <1>5, Moves DEF TypeOK
  <2> QED
    BY <1>5, <2>1, Finite DEF One, UncountedLabels
<1>7. TypeOK'
  <2>1. AfterTakeEmpty[pc[p]] \in Labels
    BY <1>5 DEF Labels, Inside, Outside
  <2> QED
    BY <1>1, <1>3, <2>1 DEF TypeOK, Goto
<1>8. MutualExclusion'
  BY <1>4, <1>5, <1>6 DEF MutualExclusion, Inside
<1>9. Accounting'
  BY <1>2, <1>3, <1>4, <1>5, <1>6, Finite, SizeAssumption
     DEF Accounting, count, empty, One, COUNT, EMPTY
<1>10. InBounds' /\ NeverAgain'
  BY <1>1, <1>5, <1>6 DEF InBounds, NeverAgain
<1>11. SlotAhead'
  <2>1. CASE pc[p] = "push_take"
    BY <1>5, <1>6, <2>1, AloneInside DEF SlotAhead, Inside
  <2>2. CASE pc[p] = "pushw_take"
    <3>1. Free' = Free
      BY <1>2, <1>3, <1>6, <2>2, Finite DEF Free, empty, One, EMPTY
    <3> QED
      BY <1>5, <1>6, <2>2, <3>1 DEF SlotAhead
  <2> QED
    BY <1>5, <2>1, <2>2
<1> QED
  BY <1>7, <1>8, <1>9, <1>10, <1>11

LEMMA TakeCountIInv ==
  ASSUME IInv, NEW p \in Procs, TakeCount(p)
  PROVE  IInv'
<1> USE DEF IInv
<1>1. /\ pc[p] \in DOMAIN AfterTakeCount /\ Goto(p, AfterTakeCount[pc[p]])
      /\ UNCHANGED <<shm, wait_val, at, arg, val, dead>>
  BY DEF TakeCount, At
<1>2. /\ sem \in [0 .. 2 -> Nat] /\ sem[COUNT] > 0
      /\ sem' = [sem EXCEPT ![COUNT] = sem[COUNT] - 1]
  BY DEF TakeCount, Decrement, TypeOK
<1>3. sem' \in [0 .. 2 -> Nat] /\ sem'[COUNT] = sem[COUNT] - 1
  BY <1>2 DEF COUNT
<1>4. sem'[EMPTY] = sem[EMPTY] /\ sem'[MUTEX] = sem[MUTEX]
  BY <1>2 DEF MUTEX, COUNT, EMPTY
<1>5. \/ pc[p] = "pop_take"  /\ AfterTakeCount[pc[p]] = "pop_add"
      \/ pc[p] = "popw_take" /\ AfterTakeCount[pc[p]] = "popw_lock"
  BY <1>1 DEF AfterTakeCount
<1>6. /\ Cardinality(Uncounted') = Cardinality(Uncounted) + 1
      /\ Cardinality(CountedTwice') = Cardinality(CountedTwice)
      /\ \A q \in Procs : pc'[q] = IF q = p THEN AfterTakeCount[pc[p]] ELSE pc[q]
  <2>1. /\ Cardinality(Uncounted') = Cardinality(Uncounted)
              + One(AfterTakeCount[pc[p]] \in UncountedLabels) - One(pc[p] \in UncountedLabels)
        /\ Cardinality(CountedTwice') = Cardinality(CountedTwice)
              + One(AfterTakeCount[pc[p]] = "push_take") - One(pc[p] = "push_take")
        /\ \A q \in Procs : pc'[q] = IF q = p THEN AfterTakeCount[pc[p]] ELSE pc[q]
    BY <1>1, <1>5, Moves DEF TypeOK
  <2> QED
    BY <1>5, <2>1, Finite DEF One, UncountedLabels
<1>7. TypeOK'
  <2>1. AfterTakeCount[pc[p]] \in Labels
    BY <1>5 DEF Labels, Inside, Outside
  <2> QED
    BY <1>1, <1>3, <2>1 DEF TypeOK, Goto
<1>8. MutualExclusion'
  BY <1>4, <1>5, <1>6 DEF MutualExclusion, Inside
<1>9. Accounting'
  BY <1>2, <1>3, <1>4, <1>6, Finite, SizeAssumption
     DEF Accounting, count, empty, COUNT, EMPTY
<1>10. InBounds' /\ NeverAgain'
  BY <1>1, <1>5, <1>6 DEF InBounds, NeverAgain
<1>11. SlotAhead'
  <2>1. Free' = Free + 1 /\ Free \in Nat
    BY <1>2, <1>4, <1>6, Finite DEF Free, empty, EMPTY
  <2> QED
    BY <1>5, <1>6, <2>1 DEF SlotAhead
<1> QED
  BY <1>7, <1>8, <1>9, <1>10, <1>11

LEMMA AddEmptyIInv ==
  ASSUME IInv, NEW p \in Procs, AddEmpty(p)
  PROVE  IInv'
<1> USE DEF IInv
<1>1. /\ pc[p] \in DOMAIN AfterAddEmpty /\ Goto(p, AfterAddEmpty[pc[p]])
      /\ UNCHANGED <<shm, wait_val, at, arg, val, dead>>
  BY DEF AddEmpty, At
<1>2. /\ sem \in [0 .. 2 -> Nat]
      /\ sem' = [sem EXCEPT ![EMPTY] = sem[EMPTY] + 1]
  BY DEF AddEmpty, Increment, TypeOK
<1>3. sem' \in [0 .. 2 -> Nat] /\ sem'[EMPTY] = sem[EMPTY] + 1
  BY <1>2 DEF EMPTY
<1>4. sem'[COUNT] = sem[COUNT] /\ sem'[MUTEX] = sem[MUTEX]
  BY <1>2 DEF MUTEX, COUNT, EMPTY
<1>5. pc[p] \in {"pop_add", "popw_add"} /\ AfterAddEmpty[pc[p]] = "pop_index"
  BY <1>1 DEF AfterAddEmpty
<1>6. /\ Cardinality(Uncounted') = Cardinality(Uncounted) - 1
      /\ Cardinality(CountedTwice') = Cardinality(CountedTwice)
      /\ \A q \in Procs : pc'[q] = IF q = p THEN "pop_index" ELSE pc[q]
  <2>1. /\ Cardinality(Uncounted') = Cardinality(Uncounted)
              + One("pop_index" \in UncountedLabels) - One(pc[p] \in UncountedLabels)
        /\ Cardinality(CountedTwice') = Cardinality(CountedTwice)
              + One("pop_index" = "push_take") - One(pc[p] = "push_take")
        /\ \A q \in Procs : pc'[q] = IF q = p THEN "pop_index" ELSE pc[q]
    BY <1>1, <1>5, Moves DEF TypeOK
  <2> QED
    BY <1>5, <2>1, Finite DEF One, UncountedLabels
<1>7. TypeOK'
  BY <1>1, <1>3, <1>5 DEF TypeOK, Goto, Labels, Inside
<1>8. MutualExclusion'
  BY <1>4, <1>5, <1>6 DEF MutualExclusion, Inside
<1>9. Accounting'
  BY <1>2, <1>3, <1>4, <1>6, Finite, SizeAssumption
     DEF Accounting, count, empty, COUNT, EMPTY
<1>10. InBounds' /\ NeverAgain'
  BY <1>1, <1>6 DEF InBounds, NeverAgain
<1>11. SlotAhead'
  <2>1. Free' = Free
    BY <1>2, <1>3, <1>6, Finite DEF Free, empty, EMPTY
  <2>2. Cardinality(Uncounted) # 0
    <3>1. p \in Uncounted
      BY <1>5 DEF Uncounted, UncountedLabels
    <3> QED
      BY <3>1, Finite, FS_EmptySet
  <2>3. Free' > 0
    BY <1>2, <2>1, <2>2, Finite DEF Free, empty, EMPTY
  <2> QED
    BY <2>3 DEF SlotAhead
<1> QED
  BY <1>7, <1>8, <1>9, <1>10, <1>11

LEMMA AddCountIInv ==
  ASSUME IInv, NEW p \in Procs, AddCount(p)
  PROVE  IInv'
<1> USE DEF IInv
<1>1. /\ pc[p] \in DOMAIN AfterAddCount /\ Goto(p, AfterAddCount[pc[p]])
      /\ UNCHANGED <<shm, wait_val, at, arg, val, dead>>
  BY DEF AddCount, At
<1>2. /\ sem \in [0 .. 2 -> Nat]
      /\ sem' = [sem EXCEPT ![COUNT] = sem[COUNT] + 1]
  BY DEF AddCount, Increment, TypeOK
<1>3. sem' \in [0 .. 2 -> Nat] /\ sem'[COUNT] = sem[COUNT] + 1
  BY <1>2 DEF COUNT
<1>4. sem'[EMPTY] = sem[EMPTY] /\ sem'[MUTEX] = sem[MUTEX]
  BY <1>2 DEF MUTEX, COUNT, EMPTY
<1>5. \/ pc[p] = "push_add"  /\ AfterAddCount[pc[p]] = "push_take"
      \/ pc[p] = "pushw_add" /\ AfterAddCount[pc[p]] = "push_unlock"
  BY <1>1 DEF AfterAddCount, NeverAgain
<1>6. /\ Cardinality(Uncounted') = Cardinality(Uncounted) - One(pc[p] = "pushw_add")
      /\ Cardinality(CountedTwice') = Cardinality(CountedTwice) + One(pc[p] = "push_add")
      /\ \A q \in Procs : pc'[q] = IF q = p THEN AfterAddCount[pc[p]] ELSE pc[q]
  <2>1. /\ Cardinality(Uncounted') = Cardinality(Uncounted)
              + One(AfterAddCount[pc[p]] \in UncountedLabels) - One(pc[p] \in UncountedLabels)
        /\ Cardinality(CountedTwice') = Cardinality(CountedTwice)
              + One(AfterAddCount[pc[p]] = "push_take") - One(pc[p] = "push_take")
        /\ \A q \in Procs : pc'[q] = IF q = p THEN AfterAddCount[pc[p]] ELSE pc[q]
    BY <1>1, <1>5, Moves DEF TypeOK
  <2> QED
    BY <1>5, <2>1, Finite DEF One, UncountedLabels
<1>7. TypeOK'
  <2>1. AfterAddCount[pc[p]] \in Labels
    BY <1>5 DEF Labels, Inside
  <2> QED
    BY <1>1, <1>3, <2>1 DEF TypeOK, Goto
<1>8. MutualExclusion'
  BY <1>4, <1>5, <1>6 DEF MutualExclusion, Inside
<1>9. Accounting'
  BY <1>2, <1>3, <1>4, <1>5, <1>6, Finite, SizeAssumption
     DEF Accounting, count, empty, One, COUNT, EMPTY
<1>10. InBounds' /\ NeverAgain'
  BY <1>1, <1>5, <1>6 DEF InBounds, NeverAgain
<1>11. SlotAhead'
  BY <1>5, <1>6, AloneInside DEF SlotAhead, Inside
<1> QED
  BY <1>7, <1>8, <1>9, <1>10, <1>11

(* Going from one place outside the mutex to another, or from set_wait's   *)
(* body to its error return, without a semaphore operation.                *)
LEMMA OutIInv ==
  ASSUME IInv, NEW p \in Procs,
         NEW l \in {"idle", "push_lock", "pop_lock", "set_lock", "dump_lock"},
         pc[p] \notin UncountedLabels, pc[p] # "push_take",
         Goto(p, l), UNCHANGED <<sem, at>>, TypeOK'
  PROVE  IInv'
<1> USE DEF IInv
<1>1. l \notin Inside \cup UncountedLabels /\ l # "push_take"
  BY DEF Inside, UncountedLabels
<1>2. /\ Cardinality(Uncounted') = Cardinality(Uncounted)
      /\ Cardinality(CountedTwice') = Cardinality(CountedTwice)
      /\ \A q \in Procs : pc'[q] = IF q = p THEN l ELSE pc[q]
  <2>1. /\ Cardinality(Uncounted') = Cardinality(Uncounted)
              + One(l \in UncountedLabels) - One(pc[p] \in UncountedLabels)
        /\ Cardinality(CountedTwice') = Cardinality(CountedTwice)
              + One(l = "push_take") - One(pc[p] = "push_take")
        /\ \A q \in Procs : pc'[q] = IF q = p THEN l ELSE pc[q]
    BY Moves DEF TypeOK
  <2> QED
    BY <1>1, <2>1, Finite DEF One
<1>3. MutualExclusion'
  BY <1>1, <1>2 DEF MutualExclusion
<1>4. Accounting'
  BY <1>2 DEF Accounting, count, empty
<1>5. InBounds' /\ NeverAgain'
  BY <1>2 DEF InBounds, NeverAgain
<1>6. SlotAhead'
  BY <1>2 DEF SlotAhead, Free, empty
<1> QED
  BY <1>3, <1>4, <1>5, <1>6

LEMMA CallIInv ==
  ASSUME IInv, NEW p \in Procs, Call(p)
  PROVE  IInv'
<1>1. pc[p] = "idle"
  BY DEF Call, CallPush, CallPop, CallOther, At
<1>2. pc[p] \notin UncountedLabels /\ pc[p] # "push_take"
  BY <1>1 DEF UncountedLabels
<1>3. \E l \in {"push_lock", "pop_lock", "set_lock", "dump_lock"} : Goto(p, l)
  BY DEF Call, CallPush, CallPop, CallOther
<1>4. arg' \in [Procs -> Vals \cup {POISON}]
  BY DEF Call, CallPush, CallPop, CallOther, IInv, TypeOK
<1>5. UNCHANGED <<sem, shm, wait_val, at, val, dead>>
  BY DEF Call, CallPush, CallPop, CallOther
<1>6. PICK l \in {"push_lock", "pop_lock", "set_lock", "dump_lock"} : Goto(p, l)
  BY <1>3
<1>7. TypeOK'
  BY <1>4, <1>5, <1>6 DEF IInv, TypeOK, Goto, Labels, Outside
<1> QED
  BY <1>2, <1>5, <1>6, <1>7, OutIInv

LEMMA SetWaitIInv ==
  ASSUME IInv, NEW p \in Procs, SetWait(p)
  PROVE  IInv'
<1> USE DEF IInv
<1>1. pc[p] = "set_body" /\ UNCHANGED <<sem, shm, at, arg, val, dead>>
  BY DEF SetWait, At
<1>2. wait_val' \in [Procs -> -1 .. 1]
  BY DEF SetWait, TypeOK
<1>3. Goto(p, "set_unlock") \/ Goto(p, "idle")
  BY DEF SetWait
<1>4. TypeOK'
  BY <1>1, <1>2, <1>3 DEF TypeOK, Goto, Labels, Inside, Outside
<1>5. CASE Goto(p, "set_unlock")
  BY <1>1, <1>4, <1>5, QuietIInv
     DEF Inside, AgainLabels, IndexLabels, SlotLabels, UncountedLabels
<1>6. CASE Goto(p, "idle")
  BY <1>1, <1>4, <1>6, OutIInv DEF UncountedLabels
<1> QED
  BY <1>3, <1>5, <1>6

LEMMA CrashIInv ==
  ASSUME IInv, NEW p \in Procs, Crash(p)
  PROVE  IInv'
<1>1. dead' = dead \cup {p} /\ UNCHANGED <<sem, shm, pc, wait_val, at, arg, val>>
  BY DEF Crash
<1> QED
  BY <1>1 DEF IInv, TypeOK, MutualExclusion, Accounting, InBounds, SlotAhead, NeverAgain,
              Free, count, empty, Uncounted, CountedTwice
-----------------------------------------------------------------------------
(* The invariant holds in every reachable state: no step of push, pop,     *)
(* set_wait or dump, in any mode and any interleaving, breaks it.          *)
THEOREM InductiveInvariant == Spec => []IInv
<1>1. IInv /\ [Next]_vars => IInv'
  <2> SUFFICES ASSUME IInv, [Next]_vars PROVE IInv'
    OBVIOUS
  <2>1. ASSUME NEW p \in Procs, Call(p) PROVE IInv'
    BY <2>1, CallIInv
  <2>2. ASSUME NEW p \in Procs, Lock(p) PROVE IInv'
    BY <2>2, LockIInv
  <2>3. ASSUME NEW p \in Procs, Step(p) PROVE IInv'
    BY <2>3, UnlockIInv, ReturnIInv, CheckIInv, IndexIInv, StoreIInv, TakeEmptyIInv,
       AddEmptyIInv, TakeCountIInv, AddCountIInv, ReadIInv, PoisonIInv, SetWaitIInv,
       DumpIInv DEF Step
  <2>4. ASSUME NEW p \in Procs, Crash(p) PROVE IInv'
    BY <2>4, CrashIInv
  <2>5. ASSUME UNCHANGED vars PROVE IInv'
    BY <2>5 DEF vars, IInv, TypeOK, MutualExclusion, Accounting, InBounds, SlotAhead,
                NeverAgain, Free, count, empty, Uncounted, CountedTwice
  <2> QED
    BY <2>1, <2>2, <2>3, <2>4, <2>5 DEF Next
<1> QED
  BY InitIInv, <1>1, PTL DEF Spec

(* Every variable keeps its type, in every mode of push and pop.           *)
THEOREM TypeCorrect == Spec => []TypeOK
BY InductiveInvariant, PTL DEF IInv

(* Semaphore 0 admits one process at a time to the segment and the counters *)
(* in every mode, whatever set_wait was given.                             *)
THEOREM Exclusion == Spec => []MutualExclusion
BY InductiveInvariant, PTL DEF IInv

(* Elements, free slots and the slots of unfinished operations always add  *)
(* up to the size: no interleaving of the three modes loses a slot.        *)
THEOREM SlotsAddUp == Spec => []Accounting
BY InductiveInvariant, PTL DEF IInv

(* push and pop never touch memory outside of the segment: not even with   *)
(* set_wait(0), whose pops go wrong in other ways.                         *)
THEOREM NeverOutOfBounds == Spec => []InBounds
BY InductiveInvariant, PTL DEF IInv
-----------------------------------------------------------------------------
(* The atomic stack.  As long as set_wait is not called with 0, the stack  *)
(* in shared memory implements AtomicStack, for any processes, size and    *)
(* values.  Timed operations and invalid arguments are included: they may  *)
(* lose the mutex, but what they do with the stack is right.               *)

\* What the callers of set_wait have to keep to.
NeverZero == \A a \in WaitArgs : a.val # 0

WaitZero == {"pushw_unlock", "pushw_take", "pushw_lock", "pushw_index", "pushw_store", "pushw_add",
             "popw_unlock", "popw_take", "popw_lock", "popw_add"}

\* Where the slot above the count is filled: an element on its way in or out.
Loose == {"push_add", "pop_add", "pop_index", "pop_read", "poison_index", "pop_poison"}

NoWaitZero == \A p \in Procs : wait_val[p] # 0 /\ pc[p] \notin WaitZero

GivenTo(p) == /\ Phase(pc[p]) \in {"push", "pushed", "full"} => arg[p] \in Vals
              /\ Phase(pc[p]) = "idle" => arg[p] = POISON /\ val[p] = POISON

Content == /\ count <= Size
           /\ \A i \in 0 .. Size - 1 :
                /\ i < count => shm[i] \in Vals
                /\ i > count => shm[i] = POISON
                /\ i = count /\ (\A p \in Procs : pc[p] \notin Loose) => shm[i] = POISON

OnTop(p) ==
  /\ pc[p] \in {"push_index", "push_store"} \cup Loose => count < Size
  /\ pc[p] \in {"push_store", "pop_read", "pop_poison"} => at[p] = count
  /\ pc[p] \in Loose => shm[count] \in Vals
  /\ pc[p] = "push_add" => shm[count] = arg[p]

SInv == /\ NoWaitZero /\ Content
        /\ \A p \in Procs : GivenTo(p) /\ OnTop(p)
-----------------------------------------------------------------------------
LEMMA Basics ==
  ASSUME IInv
  PROVE  /\ count \in Nat /\ empty \in Nat /\ Size \in Nat \ {0} /\ POISON \notin Vals
         /\ shm \in [0 .. Size - 1 -> Vals \cup {POISON}] /\ pc \in [Procs -> Labels]
         /\ at \in [Procs -> Nat] /\ wait_val \in [Procs -> -1 .. 1]
         /\ arg \in [Procs -> Vals \cup {POISON}] /\ val \in [Procs -> Vals \cup {POISON}]
         /\ sem \in [0 .. 2 -> Nat] /\ MUTEX # COUNT /\ MUTEX # EMPTY /\ COUNT # EMPTY
BY SizeAssumption, PoisonAssumption DEF IInv, TypeOK, count, empty, MUTEX, COUNT, EMPTY

(* Nobody is inside together with p, and then every slot is counted once.  *)
LEMMA Alone ==
  ASSUME IInv, NoWaitZero, NEW p \in Procs, pc[p] \in Inside
  PROVE  /\ \A q \in Procs : q # p => pc[q] \notin Inside
         /\ pc[p] \notin {"push_take", "pop_add"} => count + empty = Size
<1>1. \A q \in Procs : q # p => pc[q] \notin Inside
  BY AloneInside DEF IInv
<1>2. ASSUME pc[p] \notin {"push_take", "pop_add"} PROVE count + empty = Size
  <2>1. Cardinality(CountedTwice) = 0
    BY <1>2, AloneInside DEF IInv
  <2>2. Uncounted = {}
    BY <1>1, <1>2 DEF Uncounted, UncountedLabels, NoWaitZero, WaitZero, IInv, NeverAgain, Inside
  <2>3. Cardinality(Uncounted) = 0
    BY <2>2, FS_EmptySet
  <2> QED BY <2>1, <2>3, Basics DEF IInv, Accounting
<1> QED BY <1>1, <1>2

LEMMA SInvInit == Init => SInv
<1> SUFFICES ASSUME Init PROVE SInv
  OBVIOUS
<1>1. count = 0 /\ Size \in Nat \ {0}
  BY SizeAssumption DEF Init, count, MUTEX, COUNT
<1>2. Content
  BY <1>1 DEF Init, Content
<1>3. \A p \in Procs : GivenTo(p) /\ OnTop(p)
  BY <1>1 DEF Init, GivenTo, OnTop, Phase, Loose
<1> QED BY <1>2, <1>3 DEF SInv, NoWaitZero, WaitZero, Init

(* p goes to l and neither the count nor the slots change.                 *)
LEMMA SInvQuiet ==
  ASSUME IInv, SInv, NEW p \in Procs, NEW l \in Labels \ WaitZero, Goto(p, l),
         count' = count, shm' = shm, \A q \in Procs : wait_val'[q] # 0,
         \A q \in Procs : q # p => at'[q] = at[q] /\ arg'[q] = arg[q] /\ val'[q] = val[q],
         pc[p] \in Loose => l \in Loose, GivenTo(p)', OnTop(p)'
  PROVE  SInv'
<1>1. \A q \in Procs : pc'[q] = IF q = p THEN l ELSE pc[q]
  BY Basics DEF Goto
<1>2. NoWaitZero'
  BY <1>1 DEF SInv, NoWaitZero
<1>3. Content'
  BY <1>1 DEF SInv, Content
<1>4. ASSUME NEW q \in Procs, q # p PROVE GivenTo(q)' /\ OnTop(q)'
  BY <1>1, <1>4 DEF SInv, GivenTo, OnTop
<1> QED BY <1>2, <1>3, <1>4 DEF SInv

LEMMA CallSInv ==
  ASSUME IInv, SInv, NEW p \in Procs, Call(p) PROVE SInv'
<1> USE Basics
<1>1. /\ pc[p] = "idle" /\ UNCHANGED <<sem, shm, wait_val, at, val, dead>>
      /\ \A q \in Procs : q # p => arg'[q] = arg[q]
  BY DEF Call, CallPush, CallPop, CallOther, At
<1>2. arg[p] = POISON /\ val[p] = POISON
  BY <1>1 DEF SInv, GivenTo, Phase
<1>3. PICK l \in {"push_lock", "pop_lock", "set_lock", "dump_lock"} :
         Goto(p, l) /\ IF l = "push_lock" THEN arg'[p] \in Vals ELSE arg' = arg
  BY DEF Call, CallPush, CallPop, CallOther
<1>4. pc'[p] = l /\ l \in Labels \ WaitZero /\ l \notin Loose
  BY <1>3 DEF Goto, Labels, Outside, WaitZero, Loose
<1>5. GivenTo(p)' /\ OnTop(p)'
  BY <1>1, <1>2, <1>3, <1>4 DEF GivenTo, OnTop, Phase
<1>6. count' = count /\ \A q \in Procs : wait_val'[q] # 0
  BY <1>1 DEF count, SInv, NoWaitZero
<1>7. pc[p] \notin Loose
  BY <1>1 DEF Loose
<1> QED BY <1>1, <1>3, <1>4, <1>5, <1>6, <1>7, SInvQuiet

(* The steps that only change the label.                                   *)
OnlyLabel(from, to) ==
  /\ to \in Labels \ WaitZero /\ from \notin Loose /\ to \notin Loose \cup {"push_index", "push_store"}
  /\ \/ Phase(to) = Phase(from)
     \/ Phase(from) = "push" /\ Phase(to) = "full"
     \/ Phase(from) = "pop" /\ Phase(to) = "empty"

LEMMA LabelSInv ==
  ASSUME IInv, SInv, NEW p \in Procs, NEW l, Goto(p, l), OnlyLabel(pc[p], l),
         count' = count, UNCHANGED <<shm, wait_val, at, arg, val, dead>>
  PROVE  SInv'
<1> USE Basics
<1>1. pc'[p] = l /\ l \in Labels \ WaitZero
  BY DEF Goto, OnlyLabel
<1>2. GivenTo(p)'
  BY <1>1 DEF SInv, GivenTo, OnlyLabel
<1>3. OnTop(p)'
  BY <1>1 DEF OnTop, Loose, OnlyLabel
<1>4. \A q \in Procs : wait_val'[q] # 0
  BY DEF SInv, NoWaitZero
<1>5. pc[p] \notin Loose
  BY DEF OnlyLabel
<1> QED BY <1>1, <1>2, <1>3, <1>4, <1>5, SInvQuiet

LEMMA LockSInv ==
  ASSUME IInv, SInv, NEW p \in Procs, Lock(p) PROVE SInv'
<1> USE Basics
<1>1. /\ pc[p] \in DOMAIN AfterLock /\ Goto(p, AfterLock[pc[p]])
      /\ UNCHANGED <<shm, wait_val, at, arg, val, dead>>
  BY DEF Lock, At
<1>2. count' = count
  BY DEF Lock, Decrement, count
<1>3. sem[MUTEX] > 0
  BY DEF Lock, Decrement
<1>4. pc[p] \notin Inside
  BY <1>3 DEF IInv, MutualExclusion
<1>5. PICK l : l = AfterLock[pc[p]]
  OBVIOUS
<1>6. OnlyLabel(pc[p], l)
  BY <1>1, <1>4, <1>5 DEF OnlyLabel, AfterLock, Labels, Inside, WaitZero, Phase, Loose, SInv, NoWaitZero
<1> QED BY <1>1, <1>2, <1>5, <1>6, LabelSInv

LEMMA UnlockSInv ==
  ASSUME IInv, SInv, NEW p \in Procs, Unlock(p) PROVE SInv'
<1> USE Basics
<1>1. /\ pc[p] \in DOMAIN AfterUnlock /\ Goto(p, AfterUnlock[pc[p]])
      /\ UNCHANGED <<shm, wait_val, at, arg, val, dead>>
  BY DEF Unlock, At
<1>2. count' = count
  BY DEF Unlock, Increment, count
<1>3. PICK l : l = AfterUnlock[pc[p]]
  OBVIOUS
<1>4. OnlyLabel(pc[p], l)
  BY <1>1, <1>3 DEF OnlyLabel, AfterUnlock, Labels, Outside, WaitZero, Phase, Loose, SInv, NoWaitZero
<1> QED BY <1>1, <1>2, <1>3, <1>4, LabelSInv

LEMMA ReturnSInv ==
  ASSUME IInv, SInv, NEW p \in Procs, Return(p) PROVE SInv'
<1> USE Basics
<1>1. /\ pc[p] \in Returning /\ Goto(p, "idle") /\ UNCHANGED <<shm, wait_val, at, dead>>
      /\ arg' = [arg EXCEPT ![p] = POISON] /\ val' = [val EXCEPT ![p] = POISON]
  BY DEF Return, At
<1>2. count' = count
  BY DEF Return, Increment, count
<1>3. pc'[p] = "idle" /\ arg'[p] = POISON /\ val'[p] = POISON
  BY <1>1 DEF Goto
<1>4. GivenTo(p)' /\ OnTop(p)'
  BY <1>3 DEF GivenTo, OnTop, Phase, Loose
<1>5. pc[p] \notin Loose /\ "idle" \in Labels \ WaitZero
  BY <1>1 DEF Returning, Loose, Labels, Outside, WaitZero
<1>6. \A q \in Procs : wait_val'[q] # 0
  BY <1>1 DEF SInv, NoWaitZero
<1> QED BY <1>1, <1>2, <1>4, <1>5, <1>6, SInvQuiet

LEMMA CheckSInv ==
  ASSUME IInv, SInv, NEW p \in Procs, Check(p) PROVE SInv'
<1> USE Basics
<1>1. /\ pc[p] \in {"push_check", "pusht_check", "pop_check", "popt_check"} /\ Goto(p, Branch(p))
      /\ UNCHANGED <<sem, shm, wait_val, at, arg, val, dead>>
  BY DEF Check, At
<1>2. /\ WhenFull(p) \in {"push_fail", "pusht_unlock"} /\ WhenEmpty(p) \in {"pop_fail", "popt_unlock"}
  <2>1. wait_val[p] \in {-1, 1}
    BY DEF SInv, NoWaitZero
  <2> QED BY <2>1 DEF WhenFull, WhenEmpty
<1>3. count' = count /\ \A q \in Procs : wait_val'[q] # 0
  BY <1>1 DEF count, SInv, NoWaitZero
<1>4. CASE Branch(p) = "push_index"
  <2>1. pc[p] = "push_check" /\ empty # 0
    BY <1>1, <1>2, <1>4 DEF Branch
  <2>2. count + empty = Size
    BY <2>1, Alone DEF Inside, SInv
  <2>3. count < Size
    BY <2>1, <2>2
  <2>4. pc'[p] = "push_index"
    BY <1>1, <1>4 DEF Goto
  <2>5. GivenTo(p)' /\ OnTop(p)'
    BY <1>1, <1>3, <2>1, <2>3, <2>4 DEF GivenTo, OnTop, Phase, Loose, SInv
  <2>6. pc[p] \notin Loose /\ "push_index" \in Labels \ WaitZero
    BY <2>1 DEF Loose, Labels, Inside, WaitZero
  <2> QED BY <1>1, <1>3, <1>4, <2>5, <2>6, SInvQuiet
<1>5. CASE Branch(p) # "push_index"
  <2>1. PICK l : l = Branch(p)
    OBVIOUS
  <2>2. \/ pc[p] \in {"push_check", "pusht_check"} /\ l \in {"push_fail", "pusht_unlock", "pusht_again"}
        \/ pc[p] \in {"pop_check", "popt_check"} /\ l \in {"pop_fail", "popt_unlock", "pop_take", "popt_again"}
    BY <1>1, <1>2, <1>5, <2>1 DEF Branch
  <2>3. OnlyLabel(pc[p], l)
    BY <2>2 DEF OnlyLabel, Labels, Inside, WaitZero, Loose, Phase
  <2> QED BY <1>1, <1>3, <2>1, <2>3, LabelSInv
<1> QED BY <1>4, <1>5

LEMMA IndexSInv ==
  ASSUME IInv, SInv, NEW p \in Procs, Index(p) PROVE SInv'
<1> USE Basics
<1>1. /\ pc[p] \in DOMAIN AfterIndex /\ Goto(p, AfterIndex[pc[p]]) /\ at' = [at EXCEPT ![p] = count]
      /\ UNCHANGED <<sem, shm, wait_val, arg, val, dead>>
  BY DEF Index, At
<1>2. PICK l : l = AfterIndex[pc[p]]
  OBVIOUS
<1>3. \/ pc[p] = "push_index"   /\ l = "push_store"
      \/ pc[p] = "pop_index"    /\ l = "pop_read"
      \/ pc[p] = "poison_index" /\ l = "pop_poison"
  BY <1>1, <1>2 DEF AfterIndex, SInv, NoWaitZero, WaitZero, IInv, NeverAgain
<1>4. pc'[p] = l /\ at'[p] = count /\ count' = count
  BY <1>1, <1>2 DEF Goto, count
<1>5. GivenTo(p)' /\ OnTop(p)'
  BY <1>1, <1>3, <1>4 DEF SInv, GivenTo, OnTop, Phase, Loose
<1>6. l \in Labels \ WaitZero /\ (pc[p] \in Loose => l \in Loose)
  BY <1>3 DEF Labels, Inside, WaitZero, Loose
<1>7. \A q \in Procs : q # p => at'[q] = at[q]
  BY <1>1
<1>8. \A q \in Procs : wait_val'[q] # 0
  BY <1>1 DEF SInv, NoWaitZero
<1> QED BY <1>1, <1>2, <1>4, <1>5, <1>6, <1>7, <1>8, SInvQuiet

LEMMA StoreSInv ==
  ASSUME IInv, SInv, NEW p \in Procs, Store(p) PROVE SInv'
<1> USE Basics
<1>1. /\ pc[p] = "push_store" /\ Goto(p, "push_add")
      /\ shm' = [shm EXCEPT ![at[p]] = arg[p]] /\ at' = [at EXCEPT ![p] = 0]
      /\ UNCHANGED <<sem, wait_val, arg, val, dead>>
  BY DEF Store, At, AfterStore, SInv, NoWaitZero, WaitZero, IInv, NeverAgain
<1>2. /\ at[p] = count /\ count < Size /\ arg[p] \in Vals /\ count' = count
      /\ \A q \in Procs : pc'[q] = IF q = p THEN "push_add" ELSE pc[q]
  BY <1>1 DEF SInv, OnTop, GivenTo, Phase, count, Goto
<1>3. \A i \in 0 .. Size - 1 : shm'[i] = IF i = count THEN arg[p] ELSE shm[i]
  BY <1>1, <1>2
<1>4. \A q \in Procs : q # p => pc[q] \notin Inside
  BY <1>1, Alone DEF Inside, SInv
<1>5. NoWaitZero'
  BY <1>1, <1>2 DEF SInv, NoWaitZero, WaitZero
<1>6. Content'
  <2>1. pc'[p] \in Loose
    BY <1>2 DEF Loose
  <2> QED BY <1>2, <1>3, <2>1 DEF SInv, Content
<1>7. OnTop(p)'
  BY <1>1, <1>2, <1>3 DEF OnTop, Loose
<1>8. \A q \in Procs : GivenTo(q)'
  BY <1>1, <1>2 DEF SInv, GivenTo, Phase
<1>9. ASSUME NEW q \in Procs, q # p PROVE OnTop(q)'
  BY <1>2, <1>4, <1>9 DEF OnTop, Loose, Inside
<1> QED BY <1>5, <1>6, <1>7, <1>8, <1>9 DEF SInv

LEMMA TakeEmptySInv ==
  ASSUME IInv, SInv, NEW p \in Procs, TakeEmpty(p) PROVE SInv'
<1> USE Basics
<1>1. /\ pc[p] = "push_take" /\ Goto(p, "push_unlock") /\ count' = count
      /\ UNCHANGED <<shm, wait_val, at, arg, val, dead>>
  BY DEF TakeEmpty, At, AfterTakeEmpty, Decrement, count, SInv, NoWaitZero, WaitZero, IInv, NeverAgain
<1>2. OnlyLabel(pc[p], "push_unlock")
  BY <1>1 DEF OnlyLabel, Labels, Inside, WaitZero, Loose, Phase
<1> QED BY <1>1, <1>2, LabelSInv

LEMMA AddEmptySInv ==
  ASSUME IInv, SInv, NEW p \in Procs, AddEmpty(p) PROVE SInv'
<1> USE Basics
<1>1. /\ pc[p] = "pop_add" /\ Goto(p, "pop_index") /\ count' = count
      /\ UNCHANGED <<shm, wait_val, at, arg, val, dead>>
  BY DEF AddEmpty, At, AfterAddEmpty, Increment, count, SInv, NoWaitZero, WaitZero
<1>2. pc'[p] = "pop_index"
  BY <1>1 DEF Goto
<1>3. GivenTo(p)' /\ OnTop(p)'
  BY <1>1, <1>2 DEF SInv, GivenTo, OnTop, Phase, Loose
<1>4. "pop_index" \in Labels \ WaitZero /\ "pop_index" \in Loose
  BY DEF Labels, Inside, WaitZero, Loose
<1>5. \A q \in Procs : wait_val'[q] # 0
  BY <1>1 DEF SInv, NoWaitZero
<1> QED BY <1>1, <1>3, <1>4, <1>5, SInvQuiet

LEMMA TakeCountSInv ==
  ASSUME IInv, SInv, NEW p \in Procs, TakeCount(p) PROVE SInv'
<1> USE Basics
<1>1. /\ pc[p] = "pop_take" /\ Goto(p, "pop_add") /\ count > 0 /\ count' = count - 1
      /\ UNCHANGED <<shm, wait_val, at, arg, val, dead>>
  BY DEF TakeCount, At, AfterTakeCount, Decrement, count, COUNT, SInv, NoWaitZero, WaitZero
<1>2. \A q \in Procs : q # p => pc[q] \notin Inside
  BY <1>1, Alone DEF Inside, SInv
<1>3. \A q \in Procs : pc'[q] = IF q = p THEN "pop_add" ELSE pc[q]
  BY <1>1 DEF Goto
<1>4. \A q \in Procs : pc[q] \notin Loose
  BY <1>1, <1>2 DEF Loose, Inside
<1>5. count <= Size /\ \A i \in 0 .. Size - 1 : IF i < count THEN shm[i] \in Vals ELSE shm[i] = POISON
  BY <1>4 DEF SInv, Content
<1>6. NoWaitZero'
  BY <1>1, <1>3 DEF SInv, NoWaitZero, WaitZero
<1>7. Content'
  <2>1. pc'[p] \in Loose
    BY <1>3 DEF Loose
  <2> QED BY <1>1, <1>5, <2>1 DEF Content
<1>8. OnTop(p)'
  BY <1>1, <1>3, <1>5 DEF OnTop, Loose
<1>9. \A q \in Procs : GivenTo(q)'
  BY <1>1, <1>3 DEF SInv, GivenTo, Phase
<1>10. ASSUME NEW q \in Procs, q # p PROVE OnTop(q)'
  BY <1>2, <1>3, <1>10 DEF OnTop, Loose, Inside
<1> QED BY <1>6, <1>7, <1>8, <1>9, <1>10 DEF SInv

LEMMA AddCountSInv ==
  ASSUME IInv, SInv, NEW p \in Procs, AddCount(p) PROVE SInv'
<1> USE Basics
<1>1. /\ pc[p] = "push_add" /\ Goto(p, "push_take") /\ count' = count + 1
      /\ UNCHANGED <<shm, wait_val, at, arg, val, dead>>
  BY DEF AddCount, At, AfterAddCount, Increment, count, COUNT, SInv, NoWaitZero, WaitZero, IInv, NeverAgain
<1>2. \A q \in Procs : q # p => pc[q] \notin Inside
  BY <1>1, Alone DEF Inside, SInv
<1>3. \A q \in Procs : pc'[q] = IF q = p THEN "push_take" ELSE pc[q]
  BY <1>1 DEF Goto
<1>4. count < Size /\ shm[count] \in Vals
  BY <1>1 DEF SInv, OnTop, Loose
<1>5. NoWaitZero'
  BY <1>1, <1>3 DEF SInv, NoWaitZero, WaitZero
<1>6. Content'
  BY <1>1, <1>4 DEF SInv, Content
<1>7. OnTop(p)'
  BY <1>3 DEF OnTop, Loose
<1>8. \A q \in Procs : GivenTo(q)'
  BY <1>1, <1>3 DEF SInv, GivenTo, Phase
<1>9. ASSUME NEW q \in Procs, q # p PROVE OnTop(q)'
  BY <1>2, <1>3, <1>9 DEF OnTop, Loose, Inside
<1> QED BY <1>5, <1>6, <1>7, <1>8, <1>9 DEF SInv

LEMMA ReadSInv ==
  ASSUME IInv, SInv, NEW p \in Procs, Read(p) PROVE SInv'
<1> USE Basics
<1>1. /\ pc[p] = "pop_read" /\ Goto(p, "poison_index") /\ at' = [at EXCEPT ![p] = 0]
      /\ val' = [val EXCEPT ![p] = shm[at[p]]] /\ UNCHANGED <<sem, shm, wait_val, arg, dead>>
  BY DEF Read, At
<1>2. pc'[p] = "poison_index" /\ count' = count
  BY <1>1 DEF Goto, count
<1>3. GivenTo(p)' /\ OnTop(p)'
  BY <1>1, <1>2 DEF SInv, GivenTo, OnTop, Phase, Loose
<1>4. "poison_index" \in Labels \ WaitZero /\ "poison_index" \in Loose
  BY DEF Labels, Inside, WaitZero, Loose
<1>5. \A q \in Procs : wait_val'[q] # 0
  BY <1>1 DEF SInv, NoWaitZero
<1>6. \A q \in Procs : q # p => at'[q] = at[q] /\ arg'[q] = arg[q] /\ val'[q] = val[q]
  BY <1>1
<1> QED BY <1>1, <1>2, <1>3, <1>4, <1>5, <1>6, SInvQuiet

LEMMA PoisonSInv ==
  ASSUME IInv, SInv, NEW p \in Procs, Poison(p) PROVE SInv'
<1> USE Basics
<1>1. /\ pc[p] = "pop_poison" /\ Goto(p, "pop_unlock")
      /\ shm' = [shm EXCEPT ![at[p]] = POISON] /\ at' = [at EXCEPT ![p] = 0]
      /\ UNCHANGED <<sem, wait_val, arg, val, dead>>
  BY DEF Poison, At
<1>2. /\ at[p] = count /\ count < Size /\ count' = count
      /\ \A q \in Procs : pc'[q] = IF q = p THEN "pop_unlock" ELSE pc[q]
  BY <1>1 DEF SInv, OnTop, count, Goto, Loose
<1>3. \A i \in 0 .. Size - 1 : shm'[i] = IF i = count THEN POISON ELSE shm[i]
  BY <1>1, <1>2
<1>4. \A q \in Procs : q # p => pc[q] \notin Inside
  BY <1>1, Alone DEF Inside, SInv
<1>5. NoWaitZero'
  BY <1>1, <1>2 DEF SInv, NoWaitZero, WaitZero
<1>6. Content'
  BY <1>2, <1>3 DEF SInv, Content
<1>7. OnTop(p)'
  BY <1>2 DEF OnTop, Loose
<1>8. \A q \in Procs : GivenTo(q)'
  BY <1>1, <1>2 DEF SInv, GivenTo, Phase
<1>9. ASSUME NEW q \in Procs, q # p PROVE OnTop(q)'
  BY <1>2, <1>4, <1>9 DEF OnTop, Loose, Inside
<1> QED BY <1>5, <1>6, <1>7, <1>8, <1>9 DEF SInv

LEMMA SetWaitSInv ==
  ASSUME NeverZero, IInv, SInv, NEW p \in Procs, SetWait(p) PROVE SInv'
<1> USE Basics
<1>1. pc[p] = "set_body" /\ UNCHANGED <<sem, shm, at, arg, val, dead>>
  BY DEF SetWait, At
<1>2. PICK l \in {"set_unlock", "idle"} : Goto(p, l)
  BY DEF SetWait
<1>3. \A q \in Procs : wait_val'[q] # 0
  BY DEF SetWait, NeverZero, SInv, NoWaitZero
<1>4. pc'[p] = l /\ count' = count
  BY <1>1, <1>2 DEF Goto, count
<1>5. GivenTo(p)' /\ OnTop(p)'
  BY <1>1, <1>4 DEF SInv, GivenTo, OnTop, Phase, Loose
<1>6. l \in Labels \ WaitZero /\ pc[p] \notin Loose
  BY <1>1 DEF Labels, Inside, Outside, WaitZero, Loose
<1> QED BY <1>1, <1>2, <1>3, <1>4, <1>5, <1>6, SInvQuiet

LEMMA DumpSInv ==
  ASSUME IInv, SInv, NEW p \in Procs, Dump(p) PROVE SInv'
<1>1. /\ pc[p] = "dump_read" /\ Goto(p, "dump_unlock") /\ count' = count
      /\ UNCHANGED <<shm, wait_val, at, arg, val, dead>>
  BY DEF Dump, At, count
<1>2. OnlyLabel(pc[p], "dump_unlock")
  BY <1>1 DEF OnlyLabel, Labels, Inside, WaitZero, Loose, Phase
<1> QED BY <1>1, <1>2, LabelSInv

LEMMA StillSInv ==
  ASSUME SInv, UNCHANGED <<sem, shm, pc, wait_val, at, arg, val>> PROVE SInv'
BY DEF SInv, NoWaitZero, Content, GivenTo, OnTop, count
-----------------------------------------------------------------------------
LEMMA SInvStep ==
  ASSUME NeverZero, IInv, SInv, [Next]_vars PROVE SInv'
<1>1. ASSUME NEW p \in Procs, Call(p) PROVE SInv'
  BY <1>1, CallSInv
<1>2. ASSUME NEW p \in Procs, Lock(p) PROVE SInv'
  BY <1>2, LockSInv
<1>3. ASSUME NEW p \in Procs, Step(p) PROVE SInv'
  BY <1>3, UnlockSInv, ReturnSInv, CheckSInv, IndexSInv, StoreSInv, TakeEmptySInv, AddEmptySInv,
     TakeCountSInv, AddCountSInv, ReadSInv, PoisonSInv, SetWaitSInv, DumpSInv DEF Step
<1>4. ASSUME NEW p \in Procs, Crash(p) PROVE SInv'
  BY <1>4, StillSInv DEF Crash
<1>5. ASSUME UNCHANGED vars PROVE SInv'
  BY <1>5, StillSInv DEF vars
<1> QED BY <1>1, <1>2, <1>3, <1>4, <1>5 DEF Next

LEMMA SInvariance ==
  ASSUME NeverZero PROVE Spec => [](IInv /\ SInv)
<1>1. IInv /\ SInv /\ [Next]_vars => SInv'
  BY SInvStep
<1> QED BY InductiveInvariant, SInvInit, <1>1, PTL DEF Spec

(* Whenever the mutex is free, the slots below the count hold elements, all *)
(* others are poisoned and the two counters add up: without set_wait(0) a  *)
(* dump or another process never sees a half-done operation.               *)
THEOREM FreeIsConsistent ==
  ASSUME NeverZero PROVE Spec => []ConsistentWhenFree
<1>1. IInv /\ SInv => ConsistentWhenFree
  <2> SUFFICES ASSUME IInv, SInv, sem[MUTEX] = 1
               PROVE  /\ count + empty = Size
                      /\ \A i \in 0 .. Size - 1 : shm[i] \in Vals <=> i < count
    BY DEF ConsistentWhenFree
  <2> USE Basics
  <2>1. \A p \in Procs : pc[p] \notin Inside
    BY DEF IInv, MutualExclusion
  <2>2. Uncounted = {} /\ CountedTwice = {}
    BY <2>1 DEF Uncounted, UncountedLabels, CountedTwice, SInv, NoWaitZero, WaitZero, Inside
  <2>3. Cardinality(Uncounted) = 0 /\ Cardinality(CountedTwice) = 0
    BY <2>2, FS_EmptySet
  <2>4. count + empty = Size
    BY <2>3 DEF IInv, Accounting
  <2>5. \A p \in Procs : pc[p] \notin Loose
    BY <2>1 DEF Inside, Loose
  <2>6. \A i \in 0 .. Size - 1 : shm[i] \in Vals <=> i < count
    BY <2>5 DEF SInv, Content
  <2> QED BY <2>4, <2>6
<1> QED BY SInvariance, <1>1, PTL
-----------------------------------------------------------------------------
(* The first c slots of m, as a sequence.                                  *)
Elements(m, c) == [i \in 1 .. c |-> m[i - 1]]

LEMMA ElementsSeq ==
  ASSUME NEW m, NEW c \in Nat, \A i \in 0 .. c - 1 : m[i] \in Vals
  PROVE  /\ Elements(m, c) \in Seq(Vals) /\ Len(Elements(m, c)) = c
         /\ \A i \in 1 .. c : Elements(m, c)[i] = m[i - 1]
<1>1. \A i \in 1 .. c : m[i - 1] \in Vals
  <2>1. \A i \in 1 .. c : i - 1 \in 0 .. c - 1
    OBVIOUS
  <2> QED BY <2>1
<1>2. PICK s \in [1 .. c -> Vals] : s = Elements(m, c)
  BY <1>1 DEF Elements
<1>3. s \in Seq(Vals)
  BY SeqDef
<1>4. Len(s) = c
  BY <1>3, LenProperties
<1> QED BY <1>2, <1>3, <1>4 DEF Elements

LEMMA ElementsSame ==
  ASSUME NEW m, NEW n, NEW c \in Nat, \A i \in 0 .. c - 1 : n[i] = m[i]
  PROVE  Elements(n, c) = Elements(m, c)
<1>1. \A i \in 1 .. c : i - 1 \in 0 .. c - 1
  OBVIOUS
<1>2. \A i \in 1 .. c : n[i - 1] = m[i - 1]
  BY <1>1
<1> QED BY <1>2 DEF Elements

LEMMA ElementsPushed ==
  ASSUME NEW m, NEW c \in Nat, \A i \in 0 .. c - 1 : m[i] \in Vals, m[c] \in Vals
  PROVE  Elements(m, c + 1) = Append(Elements(m, c), m[c])
<1>1. PICK s \in Seq(Vals) : s = Elements(m, c) /\ Len(s) = c /\ \A i \in 1 .. c : s[i] = m[i - 1]
  BY ElementsSeq
<1>2. PICK d \in Nat : d = c + 1
  OBVIOUS
<1>3. \A i \in 0 .. d - 1 : m[i] \in Vals
  BY <1>2
<1>4. PICK t \in Seq(Vals) : t = Elements(m, d) /\ Len(t) = d /\ \A i \in 1 .. d : t[i] = m[i - 1]
  BY <1>3, ElementsSeq
<1>5. PICK u \in Seq(Vals) : u = Append(s, m[c]) /\ Len(u) = Len(s) + 1
                             /\ (\A i \in 1 .. Len(s) : u[i] = s[i]) /\ u[Len(s) + 1] = m[c]
  <2>1. PICK v \in Vals : v = m[c]
    OBVIOUS
  <2>2. /\ Append(s, v) \in Seq(Vals) /\ Len(Append(s, v)) = Len(s) + 1
        /\ (\A i \in 1 .. Len(s) : Append(s, v)[i] = s[i]) /\ Append(s, v)[Len(s) + 1] = v
    BY <1>1, AppendProperties
  <2> QED BY <2>1, <2>2
<1>6. ASSUME NEW i \in 1 .. d PROVE t[i] = u[i]
  <2>1. CASE i \in 1 .. c
    BY <1>1, <1>4, <1>5, <2>1
  <2>2. CASE i = d
    BY <1>1, <1>2, <1>4, <1>5, <2>2
  <2> QED BY <1>2, <2>1, <2>2
<1>7. Len(u) = d
  BY <1>1, <1>2, <1>5
<1>8. t = u
  BY <1>4, <1>6, <1>7, SeqEqual
<1> QED BY <1>1, <1>2, <1>4, <1>5, <1>8

LEMMA ElementsPopped ==
  ASSUME NEW m, NEW c \in Nat, c > 0, \A i \in 0 .. c - 1 : m[i] \in Vals
  PROVE  /\ Elements(m, c) # <<>> /\ Elements(m, c)[c] = m[c - 1]
         /\ Elements(m, c - 1) = SubSeq(Elements(m, c), 1, c - 1)
<1>1. PICK s \in Seq(Vals) : s = Elements(m, c) /\ Len(s) = c /\ \A i \in 1 .. c : s[i] = m[i - 1]
  BY ElementsSeq
<1>2. PICK d \in Nat : d = c - 1
  <2>1. c - 1 \in Nat
    OBVIOUS
  <2> QED BY <2>1
<1>3. \A i \in 0 .. d - 1 : m[i] \in Vals
  BY <1>2
<1>4. PICK t \in Seq(Vals) : t = Elements(m, d) /\ Len(t) = d /\ \A i \in 1 .. d : t[i] = m[i - 1]
  BY <1>3, ElementsSeq
<1>5. \A i \in 1 .. d : s[i] \in Vals
  BY <1>1, <1>2
<1>6. 1 \in Int /\ d \in Int
  OBVIOUS
<1>7. PICK u \in Seq(Vals) : u = SubSeq(s, 1, d)
  BY <1>5, <1>6, SubSeqProperties
<1>8. Len(u) = d /\ \A i \in 1 .. d : u[i] = s[i]
  <2>1. /\ Len(u) = IF 1 <= d THEN d - 1 + 1 ELSE 0
        /\ \A i \in 1 .. d - 1 + 1 : u[i] = s[1 + i - 1]
    BY <1>5, <1>6, <1>7, SubSeqProperties
  <2>2. \A i \in 1 .. d : i \in 1 .. d - 1 + 1 /\ 1 + i - 1 = i
    OBVIOUS
  <2> QED BY <2>1, <2>2
<1>9. ASSUME NEW i \in 1 .. d PROVE t[i] = u[i]
  <2>1. i \in 1 .. c
    BY <1>2
  <2> QED BY <1>1, <1>4, <1>8, <2>1
<1>10. t = u
  BY <1>4, <1>8, <1>9, SeqEqual
<1>11. s # <<>> /\ s[c] = m[c - 1]
  BY <1>1
<1>12. Elements(m, c - 1) = SubSeq(Elements(m, c), 1, c - 1)
  BY <1>1, <1>2, <1>4, <1>7, <1>10, Zenon
<1> QED BY <1>1, <1>11, <1>12
-----------------------------------------------------------------------------
(* The abstract variables, as the instance of AtomicStack maps them.       *)
Stack  == Elements(shm, count)
Phases == [q \in Procs |-> Phase(pc[q])]
Memory == [q \in Procs |-> Popped(q)]

LEMMA PhasesMove ==
  ASSUME IInv, NEW p \in Procs, NEW l, Goto(p, l)
  PROVE  Phases' = [Phases EXCEPT ![p] = Phase(l)] /\ Phases[p] = Phase(pc[p])
<1>1. \A q \in Procs : pc'[q] = IF q = p THEN l ELSE pc[q]
  BY Basics DEF Goto
<1> QED BY <1>1 DEF Phases

(* p's step is one of the critical section, or leaves the stack alone: what *)
(* the others have popped stays.                                           *)
LEMMA MemoryMoves ==
  ASSUME IInv, SInv, NEW p \in Procs, NEW l, Goto(p, l),
         \A q \in Procs : q # p => val'[q] = val[q],
         pc[p] \in Inside \/ (count' = count /\ shm' = shm)
  PROVE  Memory' = [Memory EXCEPT ![p] = Popped(p)'] /\ Memory[p] = Popped(p)
<1>1. \A q \in Procs : q # p => pc'[q] = pc[q]
  BY Basics DEF Goto
<1>2. ASSUME NEW q \in Procs, q # p PROVE Popped(q)' = Popped(q)
  <2>1. CASE pc[p] \in Inside
    <3>1. pc[q] \notin Inside /\ pc[q] \notin WaitZero
      BY <1>2, <2>1, Alone DEF SInv, NoWaitZero
    <3> QED BY <1>1, <1>2, <3>1 DEF Popped, Inside, WaitZero
  <2>2. CASE count' = count /\ shm' = shm
    BY <1>1, <1>2, <2>2 DEF Popped
  <2> QED BY <2>1, <2>2
<1> QED BY <1>2 DEF Memory

LEMMA Stutters ==
  ASSUME Stack' = Stack, Phases' = Phases, arg' = arg, Memory' = Memory
  PROVE  UNCHANGED Abstract!vars
BY DEF Abstract!vars, Stack, Phases, Memory, Elements

(* A step that changes no slot below the count, no phase and not p's memory *)
(* is a stuttering step of the atomic stack.                               *)
LEMMA QuietStutters ==
  ASSUME IInv, SInv, NEW p \in Procs, NEW l, Goto(p, l), Phase(l) = Phase(pc[p]),
         \A q \in Procs : q # p => val'[q] = val[q],
         pc[p] \in Inside \/ shm' = shm, count' = count,
         \A i \in 0 .. count - 1 : shm'[i] = shm[i],
         arg' = arg, Popped(p)' = Popped(p)
  PROVE  UNCHANGED Abstract!vars
<1>1. Stack' = Stack
  BY Basics, ElementsSame DEF Stack
<1>2. Phases' = Phases
  <2>1. Phases' = [Phases EXCEPT ![p] = Phases[p]]
    BY PhasesMove
  <2> QED BY <2>1 DEF Phases
<1>3. Memory' = Memory
  BY MemoryMoves DEF Memory
<1> QED BY <1>1, <1>2, <1>3, Stutters

LEMMA CallRefines ==
  ASSUME IInv, SInv, NEW p \in Procs, Call(p)
  PROVE  [Abstract!Next]_(Abstract!vars)
<1> USE Basics
<1>1. pc[p] = "idle" /\ UNCHANGED <<sem, shm, wait_val, at, val, dead>> /\ count' = count
  BY DEF Call, CallPush, CallPop, CallOther, At, count
<1>2. Stack' = Stack /\ Phases[p] = "idle"
  BY <1>1 DEF Stack, Elements, Phases, Phase
<1>3. ASSUME NEW l \in {"push_lock", "pop_lock", "set_lock", "dump_lock"}, Goto(p, l)
      PROVE  Phases' = [Phases EXCEPT ![p] = Phase(l)] /\ Popped(p)' = Popped(p) /\ Memory' = Memory
  <2>1. Popped(p)' = Popped(p)
    BY <1>1, <1>3 DEF Popped, Goto
  <2>2. Memory' = [Memory EXCEPT ![p] = Popped(p)'] /\ Memory[p] = Popped(p)
    BY <1>1, <1>3, MemoryMoves
  <2> QED BY <1>3, <2>1, <2>2, PhasesMove DEF Memory
<1>4. CASE CallPush(p)
  <2>1. Phases' = [Phases EXCEPT ![p] = "push"] /\ Memory' = Memory
    BY <1>3, <1>4 DEF CallPush, Phase
  <2>2. \E v \in Vals : arg' = [arg EXCEPT ![p] = v]
    BY <1>4 DEF CallPush
  <2>3. Abstract!CallPush(p)
    BY <1>2, <2>1, <2>2 DEF Abstract!CallPush, Abstract!Enter, Stack, Elements, Phases, Memory
  <2> QED BY <2>3 DEF Abstract!Next
<1>5. CASE CallPop(p)
  <2>1. Phases' = [Phases EXCEPT ![p] = "pop"] /\ Memory' = Memory /\ arg' = arg
    BY <1>3, <1>5 DEF CallPop, Phase
  <2>2. Abstract!CallPop(p)
    BY <1>2, <2>1 DEF Abstract!CallPop, Abstract!Enter, Stack, Elements, Phases, Memory
  <2> QED BY <2>2 DEF Abstract!Next
<1>6. CASE CallOther(p)
  <2>1. PICK l \in {"set_lock", "dump_lock"} : Goto(p, l)
    BY <1>6 DEF CallOther
  <2>2. Phase(l) = Phase(pc[p]) /\ arg' = arg
    BY <1>1, <1>6, <2>1 DEF CallOther, Phase
  <2>3. Popped(p)' = Popped(p)
    BY <1>3, <2>1
  <2> QED BY <1>1, <2>1, <2>2, <2>3, QuietStutters
<1> QED BY <1>4, <1>5, <1>6 DEF Call

LEMMA LockRefines ==
  ASSUME IInv, SInv, NEW p \in Procs, Lock(p) PROVE UNCHANGED Abstract!vars
<1> USE Basics
<1>1. /\ pc[p] \in DOMAIN AfterLock /\ Goto(p, AfterLock[pc[p]]) /\ count' = count
      /\ UNCHANGED <<shm, wait_val, at, arg, val, dead>>
  BY DEF Lock, At, Decrement, count
<1>2. PICK l : l = AfterLock[pc[p]]
  OBVIOUS
<1>3. /\ Phase(l) = Phase(pc[p])
      /\ {l, pc[p]} \cap {"popw_lock", "popw_add", "pop_add", "pop_index", "pop_read"} = {}
  BY <1>1, <1>2 DEF AfterLock, Phase, SInv, NoWaitZero, WaitZero
<1>4. Popped(p)' = Popped(p)
  BY <1>1, <1>2, <1>3 DEF Popped, Goto
<1> QED BY <1>1, <1>2, <1>3, <1>4, QuietStutters

LEMMA UnlockRefines ==
  ASSUME IInv, SInv, NEW p \in Procs, Unlock(p) PROVE UNCHANGED Abstract!vars
<1> USE Basics
<1>1. /\ pc[p] \in DOMAIN AfterUnlock /\ Goto(p, AfterUnlock[pc[p]]) /\ count' = count
      /\ UNCHANGED <<shm, wait_val, at, arg, val, dead>>
  BY DEF Unlock, At, Increment, count
<1>2. PICK l : l = AfterUnlock[pc[p]]
  OBVIOUS
<1>3. /\ Phase(l) = Phase(pc[p])
      /\ {l, pc[p]} \cap {"popw_lock", "popw_add", "pop_add", "pop_index", "pop_read"} = {}
  BY <1>1, <1>2 DEF AfterUnlock, Phase, SInv, NoWaitZero, WaitZero
<1>4. Popped(p)' = Popped(p)
  BY <1>1, <1>2, <1>3 DEF Popped, Goto
<1> QED BY <1>1, <1>2, <1>3, <1>4, QuietStutters

LEMMA ReturnRefines ==
  ASSUME IInv, SInv, NEW p \in Procs, Return(p) PROVE [Abstract!Next]_(Abstract!vars)
<1> USE Basics
<1>1. /\ pc[p] \in Returning /\ Goto(p, "idle") /\ count' = count
      /\ UNCHANGED <<shm, wait_val, at, dead>>
      /\ arg' = [arg EXCEPT ![p] = POISON] /\ val' = [val EXCEPT ![p] = POISON]
  BY DEF Return, At, Increment, count
<1>2. Stack' = Stack
  BY <1>1 DEF Stack, Elements
<1>3. Popped(p) = val[p] /\ Popped(p)' = POISON
  BY <1>1 DEF Popped, Goto, Returning
<1>4. Memory' = [Memory EXCEPT ![p] = POISON] /\ Memory[p] = val[p]
  BY <1>1, <1>3, MemoryMoves
<1>5. Phases' = [Phases EXCEPT ![p] = "idle"] /\ Phases[p] = Phase(pc[p])
  <2>1. Phase("idle") = "idle"
    BY DEF Phase
  <2> QED BY <1>1, <2>1, PhasesMove
<1>6. CASE pc[p] \in {"push_unlock", "push_fail", "pop_unlock", "pop_fail"}
  <2>1. Phases[p] \in {"pushed", "full", "popped", "empty"}
    BY <1>5, <1>6 DEF Phase
  <2>2. Abstract!Return(p)
    BY <1>1, <1>2, <1>4, <1>5, <2>1 DEF Abstract!Return, Stack, Elements, Phases, Memory
  <2> QED BY <2>2 DEF Abstract!Next
<1>7. CASE pc[p] \in {"set_unlock", "dump_unlock"}
  <2>1. Phase(pc[p]) = "idle"
    BY <1>7 DEF Phase
  <2>2. arg[p] = POISON /\ val[p] = POISON
    BY <2>1 DEF SInv, GivenTo
  <2>3. arg' = arg /\ Memory' = Memory /\ Phases' = Phases
    BY <1>1, <1>4, <1>5, <2>1, <2>2 DEF Phases, Memory
  <2> QED BY <1>2, <2>3, Stutters
<1> QED BY <1>1, <1>6, <1>7 DEF Returning

LEMMA CheckRefines ==
  ASSUME IInv, SInv, NEW p \in Procs, Check(p) PROVE [Abstract!Next]_(Abstract!vars)
<1> USE Basics
<1>1. /\ pc[p] \in {"push_check", "pusht_check", "pop_check", "popt_check"} /\ Goto(p, Branch(p))
      /\ count' = count /\ UNCHANGED <<sem, shm, wait_val, at, arg, val, dead>>
  BY DEF Check, At, count
<1>2. PICK l : l = Branch(p)
  OBVIOUS
<1>3. count + empty = Size
  BY <1>1, Alone DEF Inside, SInv
<1>4. /\ WhenFull(p) \in {"push_fail", "pusht_unlock"} /\ WhenEmpty(p) \in {"pop_fail", "popt_unlock"}
  <2>1. wait_val[p] \in {-1, 1}
    BY DEF SInv, NoWaitZero
  <2> QED BY <2>1 DEF WhenFull, WhenEmpty
<1>5. l \notin {"popw_lock", "popw_add", "pop_add", "pop_index", "pop_read"}
  BY <1>1, <1>2, <1>4 DEF Branch
<1>6. Popped(p)' = Popped(p)
  BY <1>1, <1>2, <1>5 DEF Popped, Goto
<1>7. Stack' = Stack /\ Len(Stack) = count
  <2>1. \A i \in 0 .. count - 1 : shm[i] \in Vals
    BY DEF SInv, Content
  <2> QED BY <1>1, <2>1, ElementsSeq DEF Stack, Elements
<1>8. Memory' = Memory
  <2>1. Memory' = [Memory EXCEPT ![p] = Memory[p]]
    BY <1>1, <1>6, MemoryMoves
  <2> QED BY <2>1 DEF Memory
<1>9. Phases' = [Phases EXCEPT ![p] = Phase(l)] /\ Phases[p] = Phase(pc[p])
  BY <1>1, <1>2, PhasesMove
<1>10. CASE l = "push_fail"
  <2>1. pc[p] \in {"push_check", "pusht_check"} /\ empty = 0
    BY <1>1, <1>2, <1>4, <1>10 DEF Branch
  <2>2. Phase(pc[p]) = "push" /\ Phase(l) = "full"
    BY <1>10, <2>1 DEF Phase
  <2>3. Len(Stack) = Size
    BY <1>3, <1>7, <2>1
  <2>4. Abstract!PushFull(p)
    BY <1>1, <1>7, <1>8, <1>9, <2>2, <2>3 DEF Abstract!PushFull, Abstract!Enter, Stack, Elements, Phases, Memory
  <2> QED BY <2>4 DEF Abstract!Next
<1>11. CASE l = "pop_fail"
  <2>1. pc[p] \in {"pop_check", "popt_check"} /\ count = 0
    BY <1>1, <1>2, <1>4, <1>11 DEF Branch
  <2>2. Phase(pc[p]) = "pop" /\ Phase(l) = "empty"
    BY <1>11, <2>1 DEF Phase
  <2>3. Stack = <<>>
    BY <2>1 DEF Stack, Elements
  <2>4. Abstract!PopEmpty(p)
    BY <1>1, <1>7, <1>8, <1>9, <2>2, <2>3 DEF Abstract!PopEmpty, Abstract!Enter, Stack, Elements, Phases, Memory
  <2> QED BY <2>4 DEF Abstract!Next
<1>12. CASE l \notin {"push_fail", "pop_fail"}
  <2>1. Phase(l) = Phase(pc[p])
    BY <1>1, <1>2, <1>4, <1>12 DEF Branch, Phase
  <2> QED BY <1>1, <1>2, <1>6, <2>1, QuietStutters
<1> QED BY <1>10, <1>11, <1>12

(* The push takes effect. *)
LEMMA AddCountRefines ==
  ASSUME IInv, SInv, NEW p \in Procs, AddCount(p) PROVE Abstract!Push(p)
<1> USE Basics
<1>1. /\ pc[p] = "push_add" /\ Goto(p, "push_take") /\ count' = count + 1
      /\ UNCHANGED <<shm, wait_val, at, arg, val, dead>>
  BY DEF AddCount, At, AfterAddCount, Increment, count, COUNT, SInv, NoWaitZero, WaitZero, IInv, NeverAgain
<1>2. count < Size /\ shm[count] \in Vals /\ shm[count] = arg[p]
  BY <1>1 DEF SInv, OnTop, Loose
<1>3. \A i \in 0 .. count - 1 : shm[i] \in Vals
  BY DEF SInv, Content
<1>4. Stack' = Append(Stack, arg[p])
  <2>1. Elements(shm, count + 1) = Append(Elements(shm, count), shm[count])
    BY <1>2, <1>3, ElementsPushed
  <2> QED BY <1>1, <1>2, <2>1 DEF Stack, Elements
<1>5. Len(Stack) < Size
  BY <1>2, <1>3, ElementsSeq DEF Stack
<1>6. Popped(p)' = Popped(p)
  BY <1>1 DEF Popped, Goto
<1>7. Memory' = Memory
  <2>1. Memory' = [Memory EXCEPT ![p] = Memory[p]]
    BY <1>1, <1>6, MemoryMoves DEF Inside
  <2> QED BY <2>1 DEF Memory
<1>8. Phases' = [Phases EXCEPT ![p] = "pushed"] /\ Phases[p] = "push"
  <2>1. Phase("push_take") = "pushed" /\ Phase("push_add") = "push"
    BY DEF Phase
  <2> QED BY <1>1, <2>1, PhasesMove
<1> QED BY <1>1, <1>4, <1>5, <1>7, <1>8 DEF Abstract!Push, Abstract!Enter, Stack, Elements, Phases, Memory

(* The pop takes effect. *)
LEMMA TakeCountRefines ==
  ASSUME IInv, SInv, NEW p \in Procs, TakeCount(p) PROVE Abstract!Pop(p)
<1> USE Basics
<1>1. /\ pc[p] = "pop_take" /\ Goto(p, "pop_add") /\ count > 0 /\ count' = count - 1
      /\ UNCHANGED <<shm, wait_val, at, arg, val, dead>>
  BY DEF TakeCount, At, AfterTakeCount, Decrement, count, COUNT, SInv, NoWaitZero, WaitZero
<1>2. \A i \in 0 .. count - 1 : shm[i] \in Vals
  BY DEF SInv, Content
<1>3. /\ Stack # <<>> /\ Len(Stack) = count /\ Stack[count] = shm[count - 1]
      /\ Elements(shm, count - 1) = SubSeq(Stack, 1, count - 1)
  BY <1>1, <1>2, ElementsPopped, ElementsSeq DEF Stack
<1>4. Stack' = SubSeq(Stack, 1, Len(Stack) - 1)
  <2>1. Stack' = Elements(shm, count - 1)
    BY <1>1 DEF Stack, Elements
  <2> QED BY <1>3, <2>1
<1>5. Popped(p)' = Stack[Len(Stack)]
  <2>1. Popped(p)' = shm[count - 1]
    BY <1>1 DEF Popped, Goto
  <2> QED BY <1>3, <2>1
<1>6. Memory' = [Memory EXCEPT ![p] = Stack[Len(Stack)]]
  <2>1. Memory' = [Memory EXCEPT ![p] = Popped(p)']
    BY <1>1, MemoryMoves DEF Inside
  <2> QED BY <1>5, <2>1
<1>7. Phases' = [Phases EXCEPT ![p] = "popped"] /\ Phases[p] = "pop"
  <2>1. Phase("pop_add") = "popped" /\ Phase("pop_take") = "pop"
    BY DEF Phase
  <2> QED BY <1>1, <2>1, PhasesMove
<1> QED BY <1>1, <1>3, <1>4, <1>6, <1>7 DEF Abstract!Pop, Abstract!Enter, Stack, Elements, Phases, Memory

(* The other steps inside a push or a pop are not seen by the caller.      *)
LEMMA IndexRefines ==
  ASSUME IInv, SInv, NEW p \in Procs, Index(p) PROVE UNCHANGED Abstract!vars
<1> USE Basics
<1>1. /\ pc[p] \in DOMAIN AfterIndex /\ Goto(p, AfterIndex[pc[p]]) /\ count' = count
      /\ UNCHANGED <<sem, shm, wait_val, arg, val, dead>>
  BY DEF Index, At, count
<1>2. PICK l : l = AfterIndex[pc[p]]
  OBVIOUS
<1>3. \/ pc[p] = "push_index"   /\ l = "push_store"
      \/ pc[p] = "pop_index"    /\ l = "pop_read"
      \/ pc[p] = "poison_index" /\ l = "pop_poison"
  BY <1>1, <1>2 DEF AfterIndex, SInv, NoWaitZero, WaitZero, IInv, NeverAgain
<1>4. Phase(l) = Phase(pc[p])
  BY <1>3 DEF Phase
<1>5. Popped(p)' = Popped(p)
  BY <1>1, <1>2, <1>3 DEF Popped, Goto
<1> QED BY <1>1, <1>2, <1>4, <1>5, QuietStutters

LEMMA StoreRefines ==
  ASSUME IInv, SInv, NEW p \in Procs, Store(p) PROVE UNCHANGED Abstract!vars
<1> USE Basics
<1>1. /\ pc[p] = "push_store" /\ Goto(p, "push_add") /\ count' = count
      /\ shm' = [shm EXCEPT ![at[p]] = arg[p]] /\ UNCHANGED <<sem, wait_val, arg, val, dead>>
  BY DEF Store, At, AfterStore, count, SInv, NoWaitZero, WaitZero, IInv, NeverAgain
<1>2. at[p] = count
  BY <1>1 DEF SInv, OnTop
<1>3. \A i \in 0 .. count - 1 : shm'[i] = shm[i]
  BY <1>1, <1>2 DEF SInv, Content
<1>4. Phase("push_add") = Phase(pc[p])
  BY <1>1 DEF Phase
<1>5. Popped(p)' = Popped(p) /\ pc[p] \in Inside
  BY <1>1 DEF Popped, Goto, Inside
<1> QED BY <1>1, <1>3, <1>4, <1>5, QuietStutters

LEMMA PoisonRefines ==
  ASSUME IInv, SInv, NEW p \in Procs, Poison(p) PROVE UNCHANGED Abstract!vars
<1> USE Basics
<1>1. /\ pc[p] = "pop_poison" /\ Goto(p, "pop_unlock") /\ count' = count
      /\ shm' = [shm EXCEPT ![at[p]] = POISON] /\ UNCHANGED <<sem, wait_val, arg, val, dead>>
  BY DEF Poison, At, count
<1>2. at[p] = count
  BY <1>1 DEF SInv, OnTop
<1>3. \A i \in 0 .. count - 1 : shm'[i] = shm[i]
  BY <1>1, <1>2 DEF SInv, Content
<1>4. Phase("pop_unlock") = Phase(pc[p])
  BY <1>1 DEF Phase
<1>5. Popped(p)' = Popped(p) /\ pc[p] \in Inside
  BY <1>1 DEF Popped, Goto, Inside
<1> QED BY <1>1, <1>3, <1>4, <1>5, QuietStutters

LEMMA ReadRefines ==
  ASSUME IInv, SInv, NEW p \in Procs, Read(p) PROVE UNCHANGED Abstract!vars
<1> USE Basics
<1>1. /\ pc[p] = "pop_read" /\ Goto(p, "poison_index") /\ count' = count
      /\ val' = [val EXCEPT ![p] = shm[at[p]]] /\ UNCHANGED <<sem, shm, wait_val, arg, dead>>
  BY DEF Read, At, count
<1>2. at[p] = count
  BY <1>1 DEF SInv, OnTop
<1>3. Phase("poison_index") = Phase(pc[p])
  BY <1>1 DEF Phase
<1>4. Popped(p)' = Popped(p)
  BY <1>1, <1>2 DEF Popped, Goto
<1>5. \A q \in Procs : q # p => val'[q] = val[q]
  BY <1>1
<1> QED BY <1>1, <1>3, <1>4, <1>5, QuietStutters

LEMMA CounterRefines ==
  ASSUME IInv, SInv, NEW p \in Procs, TakeEmpty(p) \/ AddEmpty(p) PROVE UNCHANGED Abstract!vars
<1> USE Basics
<1>1. /\ count' = count /\ UNCHANGED <<shm, wait_val, at, arg, val, dead>>
      /\ \/ pc[p] = "push_take" /\ Goto(p, "push_unlock")
         \/ pc[p] = "pop_add" /\ Goto(p, "pop_index")
  <2>1. CASE TakeEmpty(p)
    BY <2>1 DEF TakeEmpty, At, AfterTakeEmpty, Decrement, count, SInv, NoWaitZero, WaitZero, IInv, NeverAgain
  <2>2. CASE AddEmpty(p)
    BY <2>2 DEF AddEmpty, At, AfterAddEmpty, Increment, count, SInv, NoWaitZero, WaitZero
  <2> QED BY <2>1, <2>2
<1>2. Phase("push_take") = Phase("push_unlock") /\ Phase("pop_add") = Phase("pop_index")
  BY DEF Phase
<1>3. Popped(p)' = Popped(p)
  BY <1>1 DEF Popped, Goto
<1> QED BY <1>1, <1>2, <1>3, QuietStutters

LEMMA OtherRefines ==
  ASSUME IInv, SInv, NEW p \in Procs, SetWait(p) \/ Dump(p) PROVE UNCHANGED Abstract!vars
<1> USE Basics
<1>1. pc[p] \in {"set_body", "dump_read"} /\ UNCHANGED <<sem, shm, at, arg, val, dead>> /\ count' = count
  BY DEF SetWait, Dump, At, count
<1>2. PICK l \in {"set_unlock", "idle", "dump_unlock"} : Goto(p, l)
  BY DEF SetWait, Dump
<1>3. Phase(l) = Phase(pc[p])
  BY <1>1 DEF Phase
<1>4. Popped(p)' = Popped(p)
  BY <1>1, <1>2 DEF Popped, Goto
<1> QED BY <1>1, <1>2, <1>3, <1>4, QuietStutters

LEMMA StillRefines ==
  ASSUME UNCHANGED <<sem, shm, pc, arg, val>> PROVE UNCHANGED Abstract!vars
<1>1. count' = count /\ Stack' = Stack /\ Phases' = Phases
  BY DEF count, Stack, Elements, Phases
<1>2. Memory' = Memory
  BY <1>1 DEF Memory, Popped
<1> QED BY <1>1, <1>2, Stutters
-----------------------------------------------------------------------------
LEMMA NextRefines ==
  ASSUME IInv, SInv, [Next]_vars PROVE [Abstract!Next]_(Abstract!vars)
<1>1. ASSUME NEW p \in Procs, Call(p) PROVE [Abstract!Next]_(Abstract!vars)
  BY <1>1, CallRefines
<1>2. ASSUME NEW p \in Procs, Lock(p) PROVE [Abstract!Next]_(Abstract!vars)
  BY <1>2, LockRefines
<1>3. ASSUME NEW p \in Procs, Step(p) PROVE [Abstract!Next]_(Abstract!vars)
  <2>1. CASE AddCount(p)
    BY <2>1, AddCountRefines DEF Abstract!Next
  <2>2. CASE TakeCount(p)
    BY <2>2, TakeCountRefines DEF Abstract!Next
  <2> QED BY <1>3, <2>1, <2>2, UnlockRefines, ReturnRefines, CheckRefines, IndexRefines,
             StoreRefines, CounterRefines, ReadRefines, PoisonRefines, OtherRefines DEF Step
<1>4. ASSUME NEW p \in Procs, Crash(p) PROVE [Abstract!Next]_(Abstract!vars)
  BY <1>4, StillRefines DEF Crash
<1>5. ASSUME UNCHANGED vars PROVE [Abstract!Next]_(Abstract!vars)
  BY <1>5, StillRefines DEF vars
<1> QED BY <1>1, <1>2, <1>3, <1>4, <1>5 DEF Next

LEMMA InitRefines == Init => Abstract!Init
<1> SUFFICES ASSUME Init PROVE Abstract!Init
  OBVIOUS
<1>1. count = 0
  BY DEF Init, count, MUTEX, COUNT
<1>2. Stack = <<>>
  BY <1>1 DEF Stack, Elements
<1>3. Phases = [q \in Procs |-> "idle"]
  BY DEF Init, Phases, Phase
<1>4. Memory = [q \in Procs |-> POISON]
  BY DEF Init, Memory, Popped
<1> QED BY <1>2, <1>3, <1>4 DEF Init, Abstract!Init, Stack, Elements, Phases, Memory

(* As long as set_wait is not called with 0, push and pop are the operations *)
(* of the atomic stack, for any number of processes, any size and any values, *)
(* also when processes are killed: a push takes effect when it increments  *)
(* semaphore 1, a pop when it decrements it, and a call that returns -1 has *)
(* seen a stack that is full, or empty, at that moment.                    *)
THEOREM Atomic ==
  ASSUME NeverZero PROVE Spec => AtomicSpec
<1>1. IInv /\ SInv /\ [Next]_vars => [Abstract!Next]_(Abstract!vars)
  BY NextRefines
<1> QED BY InitRefines, SInvariance, <1>1, PTL DEF AtomicSpec, Abstract!Spec, Spec
=============================================================================
