------------------------ MODULE StackLifecycleProofs ------------------------
(***************************************************************************)
(* Safety of attach and detach for any finite set of processes, any sizes  *)
(* and any number of attaches, with and without mark_destruct.             *)
(***************************************************************************)
EXTENDS StackLifecycle, FiniteSetTheorems, WellFoundedInduction, TLAPS

Labels == Attaching \cup Detaching \cup {"detached", "attached"}

\* Before an attach has its segment and its set, in the order of the calls;
\* with a set; and behind semaphore 4.
BeforeSeg == {"shmget_new"}
BeforeSet == {"shmget_new", "shmget_old", "shmat_new", "shmat_old", "poison", "semget_new"}
Behind    == {"attach_unlock", "attached"} \cup Detaching
WithSet   == {"setval", "attach_lock"} \cup Behind
Holding   == {"attach_unlock", "stat", "rm_sem", "detach_unlock"}
Unmapped  == {"shmat_new", "shmat_old"}          \* shmid is known, but not attached
-----------------------------------------------------------------------------
(* The processes *)

At(L)   == {p \in Procs : pc[p] \in L}
BaseInv == /\ pc \in [Procs -> Labels]
           /\ size \in [Procs -> Sizes \cup {0}]
           /\ attaches \in 0 .. MaxAttaches
           /\ \A p \in Procs : pc[p] \in BeforeSet => size[p] \in Sizes

(* The segments.  There is an identity for each attach that may still make *)
(* one, and shm_nattch counts at least those that use a segment.           *)
Used(f)       == {i \in Ids : f[i].size # 0}
AttachedTo(i) == {p \in Procs : shmid[p] = i /\ pc[p] \notin Unmapped}

SegTypes == /\ shm_key \in 0 .. MaxAttaches
            /\ seg \in [Ids -> [alive : BOOLEAN, marked : BOOLEAN, poisoned : BOOLEAN,
                                size : Nat, nattch : Nat]]
            /\ shmid \in [Procs -> 0 .. MaxAttaches]
SegOf(p) == /\ pc[p] \in {"detached", "shmget_new", "shmget_old"} => shmid[p] = 0
            /\ pc[p] \in {"shmat_new", "shmat_old", "poison", "attached"} \cup Detaching => shmid[p] # 0
            /\ shmid[p] # 0 => seg[shmid[p]].size # 0
            /\ shmid[p] # 0 /\ ~Marked => shmid[p] = shm_key
SegInv   == /\ SegTypes
            /\ shm_key # 0 => seg[shm_key].size # 0
            /\ \A i \in Ids : seg[i].size = 0 => ~seg[i].alive /\ ~seg[i].marked
            /\ \A p \in Procs : SegOf(p)
            /\ \A i \in Ids : seg[i].nattch >= Cardinality(AttachedTo(i))
            /\ Cardinality(Used(seg)) + Cardinality(At(BeforeSeg)) <= attaches

(* The sets.  Nobody is behind semaphore 4 of a live set before it is set  *)
(* up, and the one that sets it up is alone.                               *)
SetTypes == /\ sem_key \in 0 .. MaxAttaches
            /\ set \in [Ids -> [alive : BOOLEAN, setvals : 0 .. 5, lock : Nat, size : Nat]]
            /\ semid \in [Procs -> 0 .. MaxAttaches]
SetOf(p) == /\ pc[p] \in WithSet => semid[p] # 0
            /\ semid[p] # 0 => set[semid[p]].size # 0
            /\ pc[p] = "setval" => set[semid[p]].setvals < 5
            /\ pc[p] \in Behind /\ set[semid[p]].alive => set[semid[p]].setvals = 5
LockAdds == \A i \in Ids :
              set[i].alive /\ set[i].setvals = 5 => set[i].lock + Cardinality(Holders(i)) = 1
SetInv   == /\ SetTypes
            /\ sem_key # 0 => set[sem_key].size # 0
            /\ \A i \in Ids : set[i].alive => set[i].size # 0
            /\ \A i \in Ids : set[i].alive /\ set[i].setvals < 5 => set[i].lock = 0
            /\ LockAdds
            /\ \A p \in Procs : SetOf(p)
            /\ \A p, q \in Procs : pc[p] = "setval" /\ pc[q] = "setval" /\ semid[p] = semid[q] => p = q
            /\ Cardinality(Used(set)) + Cardinality(At(BeforeSet)) <= attaches

(* A detach that is about to remove a live set is its last user.           *)
Last == ~Marked => \A p, q \in Procs :
                     pc[q] = "rm_sem" /\ HasSet(q) /\ Using(p) => semid[p] # semid[q]

IInv == BaseInv /\ SegInv /\ SetInv /\ Last

\* A live set that is not set up has a process that goes on with it.
SetterThere == \A i \in Ids : set[i].alive /\ set[i].setvals < 5 =>
                 \E p \in Procs : pc[p] = "setval" /\ semid[p] = i
-----------------------------------------------------------------------------
(* Two finite sets that differ in one element at most.                     *)
LEMMA DifferInOne ==
  ASSUME NEW S, NEW T, IsFiniteSet(S), NEW x, T \ {x} = S \ {x}
  PROVE  /\ IsFiniteSet(T) /\ Cardinality(S) \in Nat /\ Cardinality(T) \in Nat
         /\ (x \in S <=> x \in T) => Cardinality(T) = Cardinality(S)
         /\ x \notin S /\ x \in T => Cardinality(T) = Cardinality(S) + 1
         /\ x \in S /\ x \notin T => Cardinality(T) = Cardinality(S) - 1
<1>1. CASE x \in T
  <2>1. T = S \cup {x}
    BY <1>1
  <2> QED BY <1>1, <2>1, FS_AddElement, FS_CardinalityType
<1>2. CASE x \notin T
  <2>1. T = S \ {x}
    BY <1>2
  <2> QED BY <1>2, <2>1, FS_RemoveElement, FS_CardinalityType
<1> QED BY <1>1, <1>2

LEMMA FiniteIds == IsFiniteSet(Ids) /\ Cardinality(Ids) = MaxAttaches
<1>1. IsFiniteSet(1 .. MaxAttaches) /\ Cardinality(1 .. MaxAttaches) = MaxAttaches
  BY FS_Interval, AttachesAssumption
<1> QED BY <1>1 DEF Ids

LEMMA FiniteCounts ==
  /\ \A f : IsFiniteSet(Used(f)) /\ Cardinality(Used(f)) \in Nat
  /\ \A L : IsFiniteSet(At(L)) /\ Cardinality(At(L)) \in Nat
  /\ \A i : IsFiniteSet(AttachedTo(i)) /\ Cardinality(AttachedTo(i)) \in Nat
<1>1. ASSUME NEW f PROVE IsFiniteSet(Used(f)) /\ Cardinality(Used(f)) \in Nat
  <2>1. Used(f) \in SUBSET Ids
    BY DEF Used
  <2> QED BY <2>1, FiniteIds, FS_Subset, FS_CardinalityType
<1>2. ASSUME NEW L PROVE IsFiniteSet(At(L)) /\ Cardinality(At(L)) \in Nat
  <2>1. At(L) \in SUBSET Procs
    BY DEF At
  <2> QED BY <2>1, ProcsAssumption, FS_Subset, FS_CardinalityType
<1>3. ASSUME NEW i PROVE IsFiniteSet(AttachedTo(i)) /\ Cardinality(AttachedTo(i)) \in Nat
  <2>1. AttachedTo(i) \in SUBSET Procs
    BY DEF AttachedTo
  <2> QED BY <2>1, ProcsAssumption, FS_Subset, FS_CardinalityType
<1> QED BY <1>1, <1>2, <1>3

(* As long as an attach p is on its way there is an identity left, and     *)
(* Fresh finds it.                                                         *)
LEMMA FreshExists ==
  ASSUME NEW f, NEW L, NEW p \in At(L), attaches \in 0 .. MaxAttaches,
         Cardinality(Used(f)) + Cardinality(At(L)) <= attaches,
         \A i \in Ids : f[i].size = 0 => ~f[i].alive
  PROVE  Fresh(f) \in Ids /\ f[Fresh(f)].size = 0
<1> DEFINE Free == {i \in Ids : f[i].size = 0}
<1>1. Free # {}
  <2> SUFFICES ASSUME Free = {} PROVE FALSE OBVIOUS
  <2>1. Used(f) = Ids
    BY DEF Used
  <2>2. Cardinality(At(L)) # 0 /\ Cardinality(At(L)) \in Nat
    BY FiniteCounts, FS_EmptySet
  <2> QED BY <2>1, <2>2, FiniteIds, AttachesAssumption
<1>2. Free \subseteq Nat
  BY AttachesAssumption DEF Ids
<1>3. PICK i \in Free : \A j \in Free : <<j, i>> \notin OpToRel(<, Nat)
  BY <1>1, <1>2, NatLessThanWellFounded, WFMin, Zenon
<1>4. \A j \in Ids : j < i => f[j].size # 0
  BY <1>2, <1>3 DEF OpToRel
<1>5. \E k \in Ids : ~f[k].alive /\ f[k].size = 0 /\ \A j \in Ids : j < k => f[j].size # 0
  BY <1>4
<1> QED BY <1>5 DEF Fresh
-----------------------------------------------------------------------------
(* How the label of p changes the counts.                                  *)
LEMMA AtMoves ==
  ASSUME pc \in [Procs -> Labels], NEW p \in Procs, NEW to, pc' = [pc EXCEPT ![p] = to], NEW L
  PROVE  /\ Cardinality(At(L)) \in Nat /\ Cardinality(At(L)') \in Nat
         /\ (pc[p] \in L <=> to \in L) => Cardinality(At(L)') = Cardinality(At(L))
         /\ pc[p] \notin L /\ to \in L => Cardinality(At(L)') = Cardinality(At(L)) + 1
         /\ pc[p] \in L /\ to \notin L => Cardinality(At(L)') = Cardinality(At(L)) - 1
         /\ pc'[p] = to /\ \A q \in Procs \ {p} : pc'[q] = pc[q]
<1>1. pc'[p] = to /\ \A q \in Procs \ {p} : pc'[q] = pc[q]
  OBVIOUS
<1>2. At(L)' \ {p} = At(L) \ {p} /\ (p \in At(L) <=> pc[p] \in L) /\ (p \in At(L)' <=> to \in L)
  BY <1>1 DEF At
<1>3. IsFiniteSet(At(L))
  BY FiniteCounts
<1> QED BY <1>1, <1>2, <1>3, DifferInOne
-----------------------------------------------------------------------------
LEMMA InitIInv == Init => IInv
<1> SUFFICES ASSUME Init PROVE IInv OBVIOUS
<1> USE SizesAssumption, AttachesAssumption DEF Init
<1>1. BaseInv
  BY DEF BaseInv, Labels, BeforeSet
<1>2. /\ Used(seg) = {} /\ Used(set) = {} /\ At(BeforeSeg) = {} /\ At(BeforeSet) = {}
      /\ \A i \in Ids : AttachedTo(i) = {} /\ Holders(i) = {}
  BY DEF Used, At, AttachedTo, Holders, Ids, NoSegment, NoSet, BeforeSeg, BeforeSet
<1>3. Cardinality({}) = 0
  BY FS_EmptySet
<1>4. SegTypes /\ SetTypes
  BY DEF SegTypes, SetTypes, NoSegment, NoSet
<1>5. SegInv
  <2>1. \A p \in Procs : SegOf(p)
    BY DEF SegOf, Detaching
  <2>2. \A i \in Ids : seg[i].size = 0 /\ ~seg[i].alive /\ ~seg[i].marked /\ seg[i].nattch = 0
    BY DEF NoSegment
  <2>3. \A i \in Ids : seg[i].nattch >= Cardinality(AttachedTo(i))
    BY <1>2, <1>3, <2>2
  <2>4. Cardinality(Used(seg)) + Cardinality(At(BeforeSeg)) <= attaches
    BY <1>2, <1>3
  <2> QED BY <1>4, <2>1, <2>2, <2>3, <2>4 DEF SegInv
<1>6. SetInv
  <2>1. \A p \in Procs : SetOf(p) /\ pc[p] # "setval"
    BY DEF SetOf, WithSet, Behind, Detaching
  <2>2. \A i \in Ids : ~set[i].alive
    BY DEF NoSet
  <2>3. LockAdds
    BY <2>2 DEF LockAdds
  <2>4. Cardinality(Used(set)) + Cardinality(At(BeforeSet)) <= attaches
    BY <1>2, <1>3
  <2> QED BY <1>4, <2>1, <2>2, <2>3, <2>4 DEF SetInv
<1>7. Last
  BY DEF Last
<1> QED BY <1>1, <1>5, <1>6, <1>7 DEF IInv

LEMMA BaseStep == ASSUME BaseInv, [Next]_vars PROVE BaseInv'
<1> USE DEF BaseInv, BeforeSet
<1>1. CASE UNCHANGED vars
  BY <1>1 DEF vars
<1>2. ASSUME NEW p \in Procs,
             \/ CallAttach(p) \/ CallDetach(p) \/ MarkDestruct(p) \/ Work(p) \/ Wait(p)
      PROVE  BaseInv'
  <2> USE DEF Labels, Attaching, Detaching, Move
  <2>1. CASE CallAttach(p)
    BY <2>1, SizesAssumption, AttachesAssumption DEF CallAttach
  <2>2. CASE MarkDestruct(p)
    BY <2>2 DEF MarkDestruct
  <2>3. CASE ShmgetNew(p)
    BY <2>3 DEF ShmgetNew
  <2>4. CASE ShmgetOld(p)
    BY <2>4 DEF ShmgetOld
  <2>5. CASE Shmat(p)
    BY <2>5 DEF Shmat
  <2>6. CASE Poison(p)
    BY <2>6 DEF Poison
  <2>7. CASE SemgetNew(p)
    BY <2>7 DEF SemgetNew
  <2>8. CASE SemgetOld(p)
    BY <2>8 DEF SemgetOld
  <2>9. CASE Setval(p)
    BY <2>9 DEF Setval
  <2>10. CASE AttachUnlock(p)
    BY <2>10 DEF AttachUnlock
  <2>11. CASE CallDetach(p) \/ AttachLock(p) \/ DetachLock(p)
    BY <2>11 DEF CallDetach, AttachLock, DetachLock
  <2>12. CASE Stat(p) \/ RmSem(p) \/ DetachUnlock(p) \/ Shmdt(p)
    BY <2>12 DEF Stat, RmSem, DetachUnlock, Shmdt
  <2> QED BY <1>2, <2>1, <2>2, <2>3, <2>4, <2>5, <2>6, <2>7, <2>8, <2>9, <2>10, <2>11, <2>12
          DEF Work, Wait
<1> QED BY <1>1, <1>2 DEF Next
-----------------------------------------------------------------------------
(* A step of p that makes no segment: p moves to the label to, and v is    *)
(* the segment it has then.                                                *)
SegStep(p, to, v) ==
  /\ p \in Procs /\ to \in Labels /\ v \in 0 .. MaxAttaches
  /\ pc' = [pc EXCEPT ![p] = to] /\ shmid' = [shmid EXCEPT ![p] = v]
  /\ shm_key' = shm_key \/ (shm_key' = 0 /\ Marked')
  /\ Marked => Marked'
  /\ \A i \in Ids : seg'[i].size = seg[i].size
  /\ \A i \in Ids : seg[i].size = 0 => ~seg'[i].alive /\ ~seg'[i].marked
  /\ \A i \in Ids : seg'[i].nattch >= Cardinality(AttachedTo(i)')
  /\ attaches' \in Nat /\ attaches' >= attaches
  /\ to \in BeforeSeg => attaches' = attaches + 1
  /\ v = shmid[p] \/ v = 0 \/ v = shm_key
  /\ to \in {"detached", "shmget_new", "shmget_old"} => v = 0
  /\ to \in {"shmat_new", "shmat_old", "poison", "attached"} \cup Detaching => v # 0

LEMMA SegChange ==
  ASSUME BaseInv, SegInv, SegTypes', NEW p, NEW to, NEW v, SegStep(p, to, v)
  PROVE  SegInv'
<1> USE DEF SegStep
<1>1. /\ pc'[p] = to /\ shmid'[p] = v
      /\ \A q \in Procs \ {p} : pc'[q] = pc[q] /\ shmid'[q] = shmid[q]
  BY DEF BaseInv, SegInv, SegTypes
<1>2. \A k \in 1 .. MaxAttaches : k \in Ids
  BY DEF Ids
<1>3. shm_key \in 0 .. MaxAttaches /\ shmid \in [Procs -> 0 .. MaxAttaches]
  BY DEF SegInv, SegTypes
<1>4. v # 0 => seg[v].size # 0 /\ (~Marked => v = shm_key)
  BY DEF SegInv, SegOf
<1>5. \A q \in Procs : SegOf(q)'
  <2>1. SegOf(p)'
    BY <1>1, <1>2, <1>4 DEF SegOf
  <2>2. ASSUME NEW q \in Procs \ {p} PROVE SegOf(q)'
    <3>1. SegOf(q) /\ pc'[q] = pc[q] /\ shmid'[q] = shmid[q]
      BY <1>1 DEF SegInv
    <3>2. shmid[q] # 0 => seg'[shmid[q]].size = seg[shmid[q]].size
      BY <1>2, <1>3, AttachesAssumption
    <3> QED BY <3>1, <3>2 DEF SegOf
  <2> QED BY <2>1, <2>2
<1>6. Cardinality(Used(seg)') + Cardinality(At(BeforeSeg)') <= attaches'
  <2>1. Used(seg)' = Used(seg)
    BY DEF Used
  <2>2. pc \in [Procs -> Labels]
    BY DEF BaseInv
  <2>3. /\ Cardinality(At(BeforeSeg)) \in Nat /\ Cardinality(At(BeforeSeg)') \in Nat
        /\ (pc[p] \in BeforeSeg <=> to \in BeforeSeg)
             => Cardinality(At(BeforeSeg)') = Cardinality(At(BeforeSeg))
        /\ pc[p] \notin BeforeSeg /\ to \in BeforeSeg
             => Cardinality(At(BeforeSeg)') = Cardinality(At(BeforeSeg)) + 1
        /\ pc[p] \in BeforeSeg /\ to \notin BeforeSeg
             => Cardinality(At(BeforeSeg)') = Cardinality(At(BeforeSeg)) - 1
    BY <2>2, AtMoves, Zenon
  <2>4. attaches \in Nat
    BY AttachesAssumption DEF BaseInv
  <2> QED BY <2>1, <2>3, <2>4, FiniteCounts DEF SegInv
<1>7. shm_key' # 0 => seg'[shm_key'].size # 0
  BY <1>2, <1>3, AttachesAssumption DEF SegInv
<1> QED BY <1>5, <1>6, <1>7 DEF SegInv

(* One that maps, marks or destroys none either.                           *)
SegStill(p, to, v) ==
  /\ p \in Procs /\ to \in Labels /\ v \in 0 .. MaxAttaches
  /\ pc' = [pc EXCEPT ![p] = to] /\ shmid' = [shmid EXCEPT ![p] = v] /\ shm_key' = shm_key
  /\ \A i \in Ids : /\ seg'[i].size = seg[i].size /\ seg'[i].alive = seg[i].alive
                    /\ seg'[i].marked = seg[i].marked /\ seg'[i].nattch = seg[i].nattch
  /\ attaches' \in Nat /\ attaches' >= attaches
  /\ to \in BeforeSeg => attaches' = attaches + 1
  /\ v = shmid[p] \/ v = 0 \/ v = shm_key
  /\ to \in Unmapped \/ v = 0 \/ (v = shmid[p] /\ pc[p] \notin Unmapped)
  /\ to \in {"detached", "shmget_new", "shmget_old"} => v = 0
  /\ to \in {"shmat_new", "shmat_old", "poison", "attached"} \cup Detaching => v # 0

LEMMA SegQuiet ==
  ASSUME BaseInv, SegInv, SegTypes', NEW p, NEW to, NEW v, SegStill(p, to, v)
  PROVE  SegInv'
<1> USE DEF SegStill
<1>1. /\ pc'[p] = to /\ shmid'[p] = v
      /\ \A q \in Procs \ {p} : pc'[q] = pc[q] /\ shmid'[q] = shmid[q]
  BY DEF BaseInv, SegInv, SegTypes
<1>2. Marked' <=> Marked
  BY DEF Marked
<1>3. \A i \in Ids : seg'[i].nattch >= Cardinality(AttachedTo(i)')
  <2> SUFFICES ASSUME NEW i \in Ids PROVE seg'[i].nattch >= Cardinality(AttachedTo(i)')
    OBVIOUS
  <2>1. AttachedTo(i)' \subseteq AttachedTo(i)
    BY <1>1, AttachesAssumption DEF AttachedTo, Ids
  <2>2. Cardinality(AttachedTo(i)') <= Cardinality(AttachedTo(i))
    BY <2>1, FiniteCounts, FS_Subset
  <2>3. Cardinality(AttachedTo(i)') \in Nat
    BY <2>1, FiniteCounts, FS_Subset, FS_CardinalityType
  <2>4. seg[i].nattch \in Nat /\ seg'[i].nattch = seg[i].nattch
    BY DEF SegInv, SegTypes
  <2> QED BY <2>2, <2>3, <2>4, FiniteCounts DEF SegInv
<1>4. \A i \in Ids : seg[i].size = 0 => ~seg'[i].alive /\ ~seg'[i].marked
  BY DEF SegInv
<1>5. SegStep(p, to, v)
  BY <1>2, <1>3, <1>4 DEF SegStep
<1> QED BY <1>5, SegChange

(* The steps of p that do change a segment.                                *)
LEMMA SegMade ==
  ASSUME BaseInv, SegInv, NEW p \in Procs, ShmgetNew(p), shm_key = 0 PROVE SegInv'
<1> DEFINE i == Fresh(seg)
<1>1. /\ pc[p] = "shmget_new" /\ pc' = [pc EXCEPT ![p] = "shmat_new"] /\ attaches' = attaches
      /\ shm_key' = i /\ shmid' = [shmid EXCEPT ![p] = i]
      /\ seg' = [seg EXCEPT ![i] = [NoSegment EXCEPT !.alive = TRUE, !.size = size[p]]]
  BY DEF ShmgetNew, Move
<1>2. /\ pc \in [Procs -> Labels] /\ attaches \in 0 .. MaxAttaches
      /\ SegTypes /\ size[p] \in Sizes /\ size[p] \in Nat \ {0}
  BY <1>1, SizesAssumption DEF BaseInv, SegInv, BeforeSet
<1>3. i \in Ids /\ seg[i].size = 0 /\ ~seg[i].marked
  <2>1. p \in At(BeforeSeg)
    BY <1>1 DEF At, BeforeSeg
  <2>2. Fresh(seg) \in Ids /\ seg[Fresh(seg)].size = 0
    BY <1>2, <2>1, FreshExists DEF SegInv
  <2> QED BY <2>2 DEF SegInv
<1>4. /\ seg'[i] = [alive |-> TRUE, marked |-> FALSE, poisoned |-> FALSE, size |-> size[p], nattch |-> 0]
      /\ \A j \in Ids \ {i} : seg'[j] = seg[j]
      /\ pc'[p] = "shmat_new" /\ shmid'[p] = i
      /\ \A q \in Procs \ {p} : pc'[q] = pc[q] /\ shmid'[q] = shmid[q] /\ shmid[q] # i
  <2>1. \A q \in Procs : shmid[q] # i
    BY <1>3, AttachesAssumption DEF SegInv, SegOf, Ids
  <2> HIDE DEF i
  <2> QED BY <1>1, <1>2, <1>3, <2>1 DEF SegTypes, NoSegment
<1> HIDE DEF i
<1>5. i \in 0 .. MaxAttaches /\ i # 0 /\ \A k \in 1 .. MaxAttaches : k \in Ids
  BY <1>3, AttachesAssumption DEF Ids
<1>6. SegTypes'
  <2> DEFINE R == [alive : BOOLEAN, marked : BOOLEAN, poisoned : BOOLEAN, size : Nat, nattch : Nat]
  <2>1. [NoSegment EXCEPT !.alive = TRUE, !.size = size[p]] \in R
    BY <1>2 DEF NoSegment
  <2>2. seg \in [Ids -> R]
    BY <1>2 DEF SegTypes
  <2> HIDE DEF R
  <2>3. seg' \in [Ids -> R]
    BY <1>1, <2>1, <2>2
  <2>4. shm_key' \in 0 .. MaxAttaches /\ shmid' \in [Procs -> 0 .. MaxAttaches]
    BY <1>1, <1>2, <1>5 DEF SegTypes
  <2> QED BY <2>3, <2>4 DEF SegTypes, R
<1>7. \A q \in Procs : shmid[q] # 0 => Marked /\ Marked'
  <2>1. \A q \in Procs : shmid[q] # 0 => Marked
    BY <1>1, <1>2 DEF SegInv, SegOf, ShmgetNew
  <2> QED BY <2>1, <1>3, <1>4 DEF Marked
<1>8. \A q \in Procs : SegOf(q)'
  <2>1. SegOf(p)'
    BY <1>1, <1>2, <1>4, <1>5 DEF SegOf, Detaching
  <2>2. ASSUME NEW q \in Procs \ {p} PROVE SegOf(q)'
    <3>1. SegOf(q) /\ shmid[q] \in 0 .. MaxAttaches
      BY <1>2 DEF SegInv, SegTypes
    <3>2. shmid[q] # 0 => shmid[q] \in Ids \ {i}
      BY <3>1, <1>4, <1>5, AttachesAssumption
    <3> QED BY <3>1, <3>2, <1>4, <1>7 DEF SegOf
  <2> QED BY <2>1, <2>2
<1>9. \A j \in Ids : seg'[j].nattch >= Cardinality(AttachedTo(j)')
  <2> SUFFICES ASSUME NEW j \in Ids PROVE seg'[j].nattch >= Cardinality(AttachedTo(j)')
    OBVIOUS
  <2>1. CASE j = i
    <3>1. AttachedTo(j)' = {}
      BY <1>4, <2>1 DEF AttachedTo, Unmapped
    <3> QED BY <3>1, <1>4, <2>1, FS_EmptySet
  <2>2. CASE j # i
    <3>1. shmid[p] = 0 /\ j # 0
      BY <1>1, AttachesAssumption DEF SegInv, SegOf, Ids
    <3>2. AttachedTo(j)' = AttachedTo(j)
      BY <1>4, <2>2, <3>1 DEF AttachedTo, Unmapped
    <3> QED BY <3>2, <2>2, <1>4 DEF SegInv
  <2> QED BY <2>1, <2>2
<1>10. Cardinality(Used(seg)') + Cardinality(At(BeforeSeg)') <= attaches'
  <2>1. Used(seg)' = Used(seg) \cup {i} /\ i \notin Used(seg)
    BY <1>2, <1>3, <1>4 DEF Used
  <2>2. Cardinality(Used(seg)') = Cardinality(Used(seg)) + 1 /\ Cardinality(Used(seg)) \in Nat
    BY <2>1, FiniteCounts, FS_AddElement
  <2>3. /\ Cardinality(At(BeforeSeg)) \in Nat /\ Cardinality(At(BeforeSeg)') \in Nat
        /\ Cardinality(At(BeforeSeg)') = Cardinality(At(BeforeSeg)) - 1
    <3>1. "shmat_new" \in Labels /\ pc[p] \in BeforeSeg /\ "shmat_new" \notin BeforeSeg
      BY <1>1 DEF Labels, Attaching, BeforeSeg
    <3> QED BY <1>1, <1>2, <3>1, AtMoves, Zenon
  <2> QED BY <1>1, <1>2, <2>2, <2>3, AttachesAssumption DEF SegInv
<1>11. \A j \in Ids : seg'[j].size = 0 => ~seg'[j].alive /\ ~seg'[j].marked
  BY <1>2, <1>4 DEF SegInv
<1> QED BY <1>1, <1>2, <1>4, <1>6, <1>8, <1>9, <1>10, <1>11 DEF SegInv

LEMMA SegMapped ==
  ASSUME BaseInv, SegInv, NEW p \in Procs, Shmat(p), seg[shmid[p]].alive PROVE SegInv'
<1> DEFINE i == shmid[p]
           to == IF pc[p] = "shmat_new" THEN "poison" ELSE "semget_new"
<1>1. /\ pc[p] \in Unmapped /\ pc' = [pc EXCEPT ![p] = to] /\ to \in {"poison", "semget_new"}
      /\ seg' = [seg EXCEPT ![i].nattch = @ + 1]
      /\ shm_key' = shm_key /\ shmid' = shmid /\ attaches' = attaches
  BY DEF Shmat, Move, Unmapped
<1>2. pc \in [Procs -> Labels] /\ attaches \in Nat /\ SegTypes
  BY AttachesAssumption DEF BaseInv, SegInv
<1>3. i \in Ids /\ i # 0
  BY <1>1, <1>2 DEF SegInv, SegOf, SegTypes, Unmapped, Ids
<1>4. \A j \in Ids : /\ seg'[j].size = seg[j].size /\ seg'[j].alive = seg[j].alive
                     /\ seg'[j].marked = seg[j].marked /\ seg[j].nattch \in Nat
                     /\ seg'[j].nattch = IF j = i THEN seg[j].nattch + 1 ELSE seg[j].nattch
  BY <1>1, <1>2, <1>3 DEF SegTypes
<1>5. SegTypes'
  BY <1>1, <1>2, <1>3 DEF SegTypes
<1> HIDE DEF i, to
<1>6. \A j \in Ids : seg'[j].nattch >= Cardinality(AttachedTo(j)')
  <2> SUFFICES ASSUME NEW j \in Ids PROVE seg'[j].nattch >= Cardinality(AttachedTo(j)')
    OBVIOUS
  <2>1. /\ AttachedTo(j)' \ {p} = AttachedTo(j) \ {p} /\ p \notin AttachedTo(j)
        /\ p \in AttachedTo(j)' <=> i = j
    BY <1>1, <1>2 DEF AttachedTo, Unmapped, i, SegTypes
  <2>2. /\ Cardinality(AttachedTo(j)) \in Nat /\ Cardinality(AttachedTo(j)') \in Nat
        /\ Cardinality(AttachedTo(j)') = Cardinality(AttachedTo(j)) + (IF i = j THEN 1 ELSE 0)
    BY <2>1, FiniteCounts, DifferInOne
  <2> QED BY <1>4, <2>2 DEF SegInv
<1>7. \A j \in Ids : seg[j].size = 0 => ~seg'[j].alive /\ ~seg'[j].marked
  BY <1>4 DEF SegInv
<1>8. Marked' <=> Marked
  BY <1>4 DEF Marked
<1>9. to \in Labels /\ shmid' = [shmid EXCEPT ![p] = i] /\ i \in 0 .. MaxAttaches
  BY <1>1, <1>2, <1>3 DEF Labels, Attaching, i, SegTypes, Ids
<1>10. SegStep(p, to, i)
  <2>1. pc' = [pc EXCEPT ![p] = to] /\ shm_key' = shm_key /\ i = shmid[p]
    BY <1>1 DEF i
  <2>2. \A j \in Ids : seg'[j].size = seg[j].size
    BY <1>4
  <2>3. attaches' \in Nat /\ attaches' >= attaches
    BY <1>1, <1>2
  <2>4. to \in {"poison", "semget_new"} /\ i # 0
    BY <1>1, <1>3
  <2> QED BY <2>1, <2>2, <2>3, <2>4, <1>6, <1>7, <1>8, <1>9 DEF SegStep, BeforeSeg, Detaching
<1> QED BY <1>5, <1>10, SegChange

LEMMA SegMarked ==
  ASSUME BaseInv, SegInv, NEW p \in Procs, MarkDestruct(p) PROVE SegInv'
<1> DEFINE i == shmid[p]
<1>1. /\ pc[p] = "attached" /\ pc' = pc /\ shmid' = shmid /\ attaches' = attaches
      /\ seg' = [seg EXCEPT ![i].marked = TRUE]
      /\ shm_key' = IF shm_key = i THEN 0 ELSE shm_key
  BY DEF MarkDestruct
<1>2. pc \in [Procs -> Labels] /\ attaches \in Nat /\ SegTypes
  BY AttachesAssumption DEF BaseInv, SegInv
<1>3. i \in Ids /\ i # 0 /\ seg[i].size # 0
  BY <1>1, <1>2 DEF SegInv, SegOf, SegTypes, Ids
<1>4. \A j \in Ids : /\ seg'[j].size = seg[j].size /\ seg'[j].alive = seg[j].alive
                     /\ seg'[j].nattch = seg[j].nattch /\ (j # i => seg'[j].marked = seg[j].marked)
  BY <1>1, <1>2, <1>3 DEF SegTypes
<1>5. Marked' /\ SegTypes'
  <2>1. Marked'
    BY <1>1, <1>2, <1>3 DEF SegTypes, Marked
  <2>2. seg' \in [Ids -> [alive : BOOLEAN, marked : BOOLEAN, poisoned : BOOLEAN,
                          size : Nat, nattch : Nat]]
    BY <1>1, <1>2, <1>3 DEF SegTypes
  <2>3. shm_key' \in 0 .. MaxAttaches /\ shmid' \in [Procs -> 0 .. MaxAttaches]
    BY <1>1, <1>2, AttachesAssumption DEF SegTypes
  <2> QED BY <2>1, <2>2, <2>3 DEF SegTypes
<1> HIDE DEF i
<1>6. \A j \in Ids : seg'[j].nattch >= Cardinality(AttachedTo(j)')
  <2>1. \A j \in Ids : AttachedTo(j)' = AttachedTo(j)
    BY <1>1 DEF AttachedTo
  <2> QED BY <1>4, <2>1 DEF SegInv
<1>7. \A j \in Ids : seg[j].size = 0 => ~seg'[j].alive /\ ~seg'[j].marked
  BY <1>3, <1>4 DEF SegInv
<1>8. /\ "attached" \in Labels /\ pc' = [pc EXCEPT ![p] = "attached"]
      /\ shmid' = [shmid EXCEPT ![p] = i] /\ i \in 0 .. MaxAttaches
  BY <1>1, <1>2, <1>3 DEF Labels, i, SegTypes, Ids
<1>9. SegStep(p, "attached", i)
  <2>1. (shm_key' = shm_key \/ shm_key' = 0) /\ i = shmid[p] /\ i # 0
    BY <1>1, <1>3 DEF i
  <2>2. \A j \in Ids : seg'[j].size = seg[j].size
    BY <1>4
  <2>3. attaches' \in Nat /\ attaches' >= attaches
    BY <1>1, <1>2
  <2> QED BY <2>1, <2>2, <2>3, <1>5, <1>6, <1>7, <1>8 DEF SegStep, BeforeSeg
<1> QED BY <1>5, <1>9, SegChange

LEMMA SegUnmapped ==
  ASSUME BaseInv, SegInv, NEW p \in Procs, Shmdt(p) PROVE SegInv'
<1> DEFINE i == shmid[p]
<1>1. /\ pc[p] = "shmdt" /\ pc' = [pc EXCEPT ![p] = "detached"]
      /\ shmid' = [shmid EXCEPT ![p] = 0] /\ attaches' = attaches /\ shm_key' = shm_key
      /\ seg' = [seg EXCEPT ![i].nattch = @ - 1,
                            ![i].alive = ~(seg[i].marked /\ seg[i].nattch = 1)]
  BY DEF Shmdt, Move
<1>2. pc \in [Procs -> Labels] /\ attaches \in Nat /\ SegTypes
  BY AttachesAssumption DEF BaseInv, SegInv
<1>3. i \in Ids /\ i # 0 /\ seg[i].size # 0
  BY <1>1, <1>2 DEF SegInv, SegOf, SegTypes, Ids, Detaching
<1>4. \A j \in Ids : /\ seg'[j].size = seg[j].size /\ seg'[j].marked = seg[j].marked
                     /\ seg[j].nattch \in Nat
                     /\ seg'[j].nattch = IF j = i THEN seg[j].nattch - 1 ELSE seg[j].nattch
                     /\ j # i => seg'[j] = seg[j]
  BY <1>1, <1>2, <1>3 DEF SegTypes
<1>5. \A j \in Ids : seg'[j].nattch >= Cardinality(AttachedTo(j)')
                     /\ (j = i => seg[j].nattch >= 1)
  <2> SUFFICES ASSUME NEW j \in Ids
               PROVE  seg'[j].nattch >= Cardinality(AttachedTo(j)') /\ (j = i => seg[j].nattch >= 1)
    OBVIOUS
  <2>1. /\ AttachedTo(j)' \ {p} = AttachedTo(j) \ {p}
        /\ p \notin AttachedTo(j)' /\ (p \in AttachedTo(j) <=> i = j)
    BY <1>1, <1>2, <1>3, AttachesAssumption DEF AttachedTo, Unmapped, SegTypes, Ids
  <2>2. /\ Cardinality(AttachedTo(j)) \in Nat /\ Cardinality(AttachedTo(j)') \in Nat
        /\ Cardinality(AttachedTo(j)') = Cardinality(AttachedTo(j)) - (IF i = j THEN 1 ELSE 0)
    BY <2>1, FiniteCounts, DifferInOne
  <2>3. seg[j].nattch >= Cardinality(AttachedTo(j))
    BY DEF SegInv
  <2> HIDE DEF i
  <2> QED BY <1>4, <2>2, <2>3
<1>6. SegTypes'
  <2>1. seg[i].nattch - 1 \in Nat
    BY <1>3, <1>4, <1>5
  <2>2. seg' \in [Ids -> [alive : BOOLEAN, marked : BOOLEAN, poisoned : BOOLEAN,
                          size : Nat, nattch : Nat]]
    BY <1>1, <1>2, <1>3, <2>1 DEF SegTypes
  <2>3. shm_key' \in 0 .. MaxAttaches /\ shmid' \in [Procs -> 0 .. MaxAttaches]
    BY <1>1, <1>2, AttachesAssumption DEF SegTypes
  <2> QED BY <2>2, <2>3 DEF SegTypes
<1> HIDE DEF i
<1>7. \A j \in Ids : seg[j].size = 0 => ~seg'[j].alive /\ ~seg'[j].marked
  BY <1>3, <1>4 DEF SegInv
<1>8. Marked' <=> Marked
  BY <1>4 DEF Marked
<1>9. "detached" \in Labels /\ 0 \in 0 .. MaxAttaches
  BY AttachesAssumption DEF Labels
<1>10. SegStep(p, "detached", 0)
  <2>1. pc' = [pc EXCEPT ![p] = "detached"] /\ shmid' = [shmid EXCEPT ![p] = 0] /\ shm_key' = shm_key
    BY <1>1
  <2>2. \A j \in Ids : seg'[j].nattch >= Cardinality(AttachedTo(j)')
    BY <1>5
  <2>3. \A j \in Ids : seg'[j].size = seg[j].size
    BY <1>4
  <2>4. attaches' \in Nat /\ attaches' >= attaches
    BY <1>1, <1>2
  <2> QED BY <2>1, <2>2, <2>3, <2>4, <1>7, <1>8, <1>9 DEF SegStep, BeforeSeg, Detaching
<1> QED BY <1>6, <1>10, SegChange

LEMMA SegInvStep == ASSUME BaseInv, SegInv, [Next]_vars PROVE SegInv'
<1>1. CASE UNCHANGED vars
  BY <1>1 DEF vars, SegInv, SegTypes, SegOf, Marked, AttachedTo, At, Used
<1>2. ASSUME NEW p \in Procs,
             \/ CallAttach(p) \/ CallDetach(p) \/ MarkDestruct(p) \/ Work(p) \/ Wait(p)
      PROVE  SegInv'
  <2> DEFINE v == shmid[p]
  <2>1. /\ attaches \in Nat /\ SegTypes /\ SegOf(p) /\ pc \in [Procs -> Labels]
        /\ v \in 0 .. MaxAttaches /\ shmid = [shmid EXCEPT ![p] = v] /\ shm_key \in 0 .. MaxAttaches
    BY AttachesAssumption DEF BaseInv, SegInv, SegTypes
  <2> USE DEF Move, Labels, Attaching, Detaching, BeforeSeg, Unmapped
  <2>2. CASE CallAttach(p)
    <3>1. SegStill(p, "shmget_new", v)
      BY <2>1, <2>2 DEF CallAttach, SegStill, SegOf
    <3>2. SegTypes'
      BY <2>1, <2>2 DEF CallAttach, SegTypes
    <3> QED BY <3>1, <3>2, SegQuiet
  <2>3. CASE ShmgetNew(p)
    <3>1. CASE shm_key = 0
      BY <2>3, <3>1, SegMade
    <3>2. CASE shm_key # 0
      <4>1. SegStill(p, "shmget_old", v)
        BY <2>1, <2>3, <3>2 DEF ShmgetNew, SegStill, SegOf
      <4>2. SegTypes'
        BY <2>1, <2>3, <3>2 DEF ShmgetNew, SegTypes
      <4> QED BY <4>1, <4>2, SegQuiet
    <3> QED BY <3>1, <3>2
  <2>4. CASE ShmgetOld(p)
    <3>1. CASE LargeEnough(p)
      <4>1. SegStill(p, "shmat_old", shm_key)
        BY <2>1, <2>4, <3>1 DEF ShmgetOld, SegStill, SegOf, LargeEnough
      <4>2. SegTypes'
        BY <2>1, <2>4, <3>1 DEF ShmgetOld, SegTypes
      <4> QED BY <4>1, <4>2, SegQuiet
    <3>2. CASE ~LargeEnough(p)
      <4>1. SegStill(p, "semget_new", v)
        BY <2>1, <2>4, <3>2 DEF ShmgetOld, SegStill, SegOf
      <4>2. SegTypes'
        BY <2>1, <2>4, <3>2 DEF ShmgetOld, SegTypes
      <4> QED BY <4>1, <4>2, SegQuiet
    <3> QED BY <3>1, <3>2
  <2>5. CASE Shmat(p)
    <3>1. CASE seg[shmid[p]].alive
      BY <2>5, <3>1, SegMapped
    <3>2. CASE ~seg[shmid[p]].alive
      <4>1. SegStill(p, "semget_new", 0)
        BY <2>1, <2>5, <3>2, AttachesAssumption DEF Shmat, SegStill, SegOf
      <4>2. SegTypes'
        BY <2>1, <2>5, <3>2, AttachesAssumption DEF Shmat, SegTypes
      <4> QED BY <4>1, <4>2, SegQuiet
    <3> QED BY <3>1, <3>2
  <2>6. CASE Poison(p)
    <3>1. v \in Ids /\ v # 0
      BY <2>1, <2>6 DEF Poison, SegOf, Ids
    <3>2. SegTypes'
      BY <2>1, <2>6, <3>1 DEF Poison, SegTypes
    <3>3. \A i \in Ids : /\ seg'[i].size = seg[i].size /\ seg'[i].alive = seg[i].alive
                         /\ seg'[i].marked = seg[i].marked /\ seg'[i].nattch = seg[i].nattch
      BY <2>1, <2>6, <3>1 DEF Poison, SegTypes
    <3>4. SegStill(p, "semget_new", v)
      BY <2>1, <2>6, <3>3 DEF Poison, SegStill
    <3> QED BY <3>2, <3>4, SegQuiet
  <2>7. CASE SemgetNew(p)
    <3>1. SegStill(p, "setval", v) \/ SegStill(p, "semget_old", v)
      BY <2>1, <2>7 DEF SemgetNew, SegStill
    <3>2. SegTypes'
      BY <2>1, <2>7 DEF SemgetNew, SegTypes
    <3> QED BY <3>1, <3>2, SegQuiet
  <2>8. CASE SemgetOld(p)
    <3>1. SegStill(p, "attach_lock", v) \/ SegStill(p, "detached", 0)
      BY <2>1, <2>8, AttachesAssumption DEF SemgetOld, SegStill
    <3>2. SegTypes'
      BY <2>1, <2>8, AttachesAssumption DEF SemgetOld, SegTypes
    <3> QED BY <3>1, <3>2, SegQuiet
  <2>9. CASE Setval(p) \/ AttachLock(p)
    <3>1. \E to \in {"setval", "attach_lock", "attach_unlock"} : SegStill(p, to, v)
      BY <2>1, <2>9 DEF Setval, AttachLock, SegStill
    <3>2. SegTypes'
      BY <2>1, <2>9 DEF Setval, AttachLock, SegTypes
    <3> QED BY <3>1, <3>2, SegQuiet
  <2>10. CASE AttachUnlock(p)
    <3>1. SegStill(p, IF v = 0 THEN "detached" ELSE "attached", v)
      BY <2>1, <2>10 DEF AttachUnlock, SegStill
    <3>2. SegTypes'
      BY <2>1, <2>10 DEF AttachUnlock, SegTypes
    <3> QED BY <3>1, <3>2, SegQuiet
  <2>11. CASE CallDetach(p) \/ DetachLock(p) \/ Stat(p) \/ RmSem(p) \/ DetachUnlock(p)
    <3>1. v # 0
      BY <2>1, <2>11 DEF CallDetach, DetachLock, Stat, RmSem, DetachUnlock, SegOf
    <3>2. \E to \in Detaching : SegStill(p, to, v)
      BY <2>1, <2>11, <3>1 DEF CallDetach, DetachLock, Stat, RmSem, DetachUnlock, SegStill
    <3>3. SegTypes'
      BY <2>1, <2>11 DEF CallDetach, DetachLock, Stat, RmSem, DetachUnlock, SegTypes
    <3> QED BY <3>2, <3>3, SegQuiet
  <2>12. CASE MarkDestruct(p)
    BY <2>12, SegMarked
  <2>13. CASE Shmdt(p)
    BY <2>13, SegUnmapped
  <2> QED BY <1>2, <2>2, <2>3, <2>4, <2>5, <2>6, <2>7, <2>8, <2>9, <2>10, <2>11, <2>12, <2>13
          DEF Work, Wait
<1> QED BY <1>1, <1>2 DEF Next
-----------------------------------------------------------------------------
(* A step of p that makes no set: p moves to the label to, and v is the    *)
(* set it has then.                                                        *)
SetStep(p, to, v) ==
  /\ p \in Procs /\ to \in Labels /\ v \in 0 .. MaxAttaches
  /\ pc' = [pc EXCEPT ![p] = to] /\ semid' = [semid EXCEPT ![p] = v]
  /\ sem_key' \in {0, sem_key}
  /\ \A i \in Ids : set'[i].size = set[i].size /\ (set'[i].alive => set[i].alive)
  /\ \A i \in Ids : set'[i].setvals = set[i].setvals \/ (pc[p] = "setval" /\ i = semid[p])
  /\ \A i \in Ids : set'[i].alive /\ set'[i].setvals < 5 => set'[i].lock = 0
  /\ LockAdds'
  /\ to = "setval" => pc[p] = "setval" /\ v = semid[p] /\ set'[v].setvals < 5
  /\ to \in Behind /\ set'[v].alive => set'[v].setvals = 5
  /\ to \in WithSet => v # 0
  /\ v = semid[p] \/ v = 0 \/ v = sem_key
  /\ attaches' \in Nat /\ attaches' >= attaches
  /\ to \in BeforeSet => pc[p] \in BeforeSet \/ attaches' = attaches + 1

LEMMA SetChange ==
  ASSUME BaseInv, SetInv, SetTypes', NEW p, NEW to, NEW v, SetStep(p, to, v)
  PROVE  SetInv'
<1> USE DEF SetStep
<1>1. /\ pc'[p] = to /\ semid'[p] = v
      /\ \A q \in Procs \ {p} : pc'[q] = pc[q] /\ semid'[q] = semid[q]
  BY DEF BaseInv, SetInv, SetTypes
<1>2. \A k \in 1 .. MaxAttaches : k \in Ids
  BY DEF Ids
<1>3. /\ sem_key \in 0 .. MaxAttaches /\ semid \in [Procs -> 0 .. MaxAttaches]
      /\ \A q \in Procs : SetOf(q) /\ (semid[q] # 0 => semid[q] \in Ids)
  BY <1>2, AttachesAssumption DEF SetInv, SetTypes
<1>4. v # 0 => v \in Ids /\ set[v].size # 0
  BY <1>2, <1>3, AttachesAssumption DEF SetInv, SetOf
<1>5. \A q \in Procs : SetOf(q)'
  <2>1. SetOf(p)'
    BY <1>1, <1>4 DEF SetOf
  <2>2. ASSUME NEW q \in Procs \ {p} PROVE SetOf(q)'
    <3>1. SetOf(q) /\ SetOf(p) /\ pc'[q] = pc[q] /\ semid'[q] = semid[q]
      BY <1>1, <1>3
    <3>2. CASE semid[q] = 0
      BY <3>1, <3>2 DEF SetOf, WithSet
    <3>3. CASE semid[q] # 0
      <4>1. semid[q] \in Ids
        BY <1>3, <3>3
      <4>2. pc[p] = "setval" /\ semid[q] = semid[p] => pc[q] # "setval"
        BY DEF SetInv
      <4> QED BY <3>1, <4>1, <4>2 DEF SetOf
    <3> QED BY <3>2, <3>3
  <2> QED BY <2>1, <2>2
<1>6. \A q, r \in Procs : pc'[q] = "setval" /\ pc'[r] = "setval" /\ semid'[q] = semid'[r] => q = r
  <2>1. \A q \in Procs : pc'[q] = "setval" => pc[q] = "setval" /\ semid'[q] = semid[q]
    BY <1>1
  <2> QED BY <2>1 DEF SetInv
<1>7. Cardinality(Used(set)') + Cardinality(At(BeforeSet)') <= attaches'
  <2>1. Used(set)' = Used(set)
    BY DEF Used
  <2>2. pc \in [Procs -> Labels]
    BY DEF BaseInv
  <2>3. /\ Cardinality(At(BeforeSet)) \in Nat /\ Cardinality(At(BeforeSet)') \in Nat
        /\ (pc[p] \in BeforeSet <=> to \in BeforeSet)
             => Cardinality(At(BeforeSet)') = Cardinality(At(BeforeSet))
        /\ pc[p] \notin BeforeSet /\ to \in BeforeSet
             => Cardinality(At(BeforeSet)') = Cardinality(At(BeforeSet)) + 1
        /\ pc[p] \in BeforeSet /\ to \notin BeforeSet
             => Cardinality(At(BeforeSet)') = Cardinality(At(BeforeSet)) - 1
    BY <2>2, AtMoves, Zenon
  <2>4. attaches \in Nat
    BY AttachesAssumption DEF BaseInv
  <2> QED BY <2>1, <2>3, <2>4, FiniteCounts DEF SetInv
<1>8. sem_key' # 0 => set'[sem_key'].size # 0
  BY <1>2, <1>3, AttachesAssumption DEF SetInv
<1>9. \A i \in Ids : set'[i].alive => set'[i].size # 0
  BY DEF SetInv
<1> QED BY <1>5, <1>6, <1>7, <1>8, <1>9 DEF SetInv

(* How the step changes who holds semaphore 4 of the set j.                *)
LEMMA HoldersMove ==
  ASSUME pc \in [Procs -> Labels], semid \in [Procs -> 0 .. MaxAttaches],
         NEW p \in Procs, NEW to, NEW v,
         pc' = [pc EXCEPT ![p] = to], semid' = [semid EXCEPT ![p] = v], NEW j
  PROVE  /\ Cardinality(Holders(j)) \in Nat /\ Cardinality(Holders(j)') \in Nat
         /\ (semid[p] = j /\ pc[p] \in Holding <=> v = j /\ to \in Holding)
              => Cardinality(Holders(j)') = Cardinality(Holders(j))
         /\ ~(semid[p] = j /\ pc[p] \in Holding) /\ v = j /\ to \in Holding
              => Cardinality(Holders(j)') = Cardinality(Holders(j)) + 1
         /\ semid[p] = j /\ pc[p] \in Holding /\ ~(v = j /\ to \in Holding)
              => Cardinality(Holders(j)') = Cardinality(Holders(j)) - 1
<1>1. /\ pc'[p] = to /\ semid'[p] = v
      /\ \A q \in Procs \ {p} : pc'[q] = pc[q] /\ semid'[q] = semid[q]
  OBVIOUS
<1>2. /\ Holders(j)' \ {p} = Holders(j) \ {p}
      /\ p \in Holders(j) <=> semid[p] = j /\ pc[p] \in Holding
      /\ p \in Holders(j)' <=> v = j /\ to \in Holding
  BY <1>1 DEF Holders, Holding
<1>3. IsFiniteSet(Holders(j))
  <2>1. Holders(j) \in SUBSET Procs
    BY DEF Holders
  <2> QED BY <2>1, ProcsAssumption, FS_Subset
<1> QED BY <1>2, <1>3, DifferInOne

(* One that leaves the sets alone, outside semaphore 4.                    *)
SetStill(p, to, v) ==
  /\ p \in Procs /\ to \in Labels /\ v \in 0 .. MaxAttaches
  /\ pc' = [pc EXCEPT ![p] = to] /\ semid' = [semid EXCEPT ![p] = v]
  /\ sem_key' = sem_key /\ set' = set
  /\ pc[p] \notin Holding /\ to \notin Holding \cup {"setval"}
  /\ to \in Behind => pc[p] \in Behind /\ v = semid[p]
  /\ to \in WithSet => v # 0
  /\ v = semid[p] \/ v = 0 \/ v = sem_key
  /\ attaches' \in Nat /\ attaches' >= attaches
  /\ to \in BeforeSet => pc[p] \in BeforeSet \/ attaches' = attaches + 1

LEMMA SetQuiet ==
  ASSUME BaseInv, SetInv, NEW p, NEW to, NEW v, SetStill(p, to, v)
  PROVE  SetInv'
<1> USE DEF SetStill
<1>1. SetTypes /\ pc \in [Procs -> Labels] /\ semid \in [Procs -> 0 .. MaxAttaches]
  BY DEF BaseInv, SetInv, SetTypes
<1>2. SetTypes'
  BY <1>1 DEF SetTypes
<1>3. LockAdds'
  <2>1. \A j \in Ids : Holders(j)' = Holders(j)
    BY <1>1 DEF Holders, Holding
  <2> QED BY <2>1 DEF LockAdds, SetInv
<1>4. to \in Behind /\ set'[v].alive => set'[v].setvals = 5
  BY DEF SetInv, SetOf
<1>5. \A i \in Ids : set'[i].alive /\ set'[i].setvals < 5 => set'[i].lock = 0
  BY DEF SetInv
<1>6. SetStep(p, to, v)
  BY <1>3, <1>4, <1>5 DEF SetStep
<1> QED BY <1>2, <1>6, SetChange

LEMMA SetMade ==
  ASSUME BaseInv, SetInv, NEW p \in Procs, SemgetNew(p), sem_key = 0 PROVE SetInv'
<1> DEFINE i == Fresh(set)
<1>1. /\ pc[p] = "semget_new" /\ pc' = [pc EXCEPT ![p] = "setval"] /\ attaches' = attaches
      /\ sem_key' = i /\ semid' = [semid EXCEPT ![p] = i]
      /\ set' = [set EXCEPT ![i] = [NoSet EXCEPT !.alive = TRUE, !.size = size[p]]]
  BY DEF SemgetNew, Move
<1>2. /\ pc \in [Procs -> Labels] /\ attaches \in 0 .. MaxAttaches
      /\ SetTypes /\ size[p] \in Sizes /\ size[p] \in Nat \ {0}
      /\ semid \in [Procs -> 0 .. MaxAttaches]
  BY <1>1, SizesAssumption DEF BaseInv, SetInv, SetTypes, BeforeSet
<1>3. i \in Ids /\ set[i].size = 0 /\ ~set[i].alive
  <2>1. p \in At(BeforeSet)
    BY <1>1 DEF At, BeforeSet
  <2>2. \A j \in Ids : set[j].size = 0 => ~set[j].alive
    BY DEF SetInv
  <2>3. Fresh(set) \in Ids /\ set[Fresh(set)].size = 0
    BY <1>2, <2>1, <2>2, FreshExists DEF SetInv
  <2> QED BY <2>2, <2>3
<1>4. \A q \in Procs : semid[q] # i
  BY <1>3, AttachesAssumption DEF SetInv, SetOf, Ids
<1> HIDE DEF i
<1>5. /\ set'[i] = [alive |-> TRUE, setvals |-> 0, lock |-> 0, size |-> size[p]]
      /\ \A j \in Ids \ {i} : set'[j] = set[j]
      /\ pc'[p] = "setval" /\ semid'[p] = i
      /\ \A q \in Procs \ {p} : pc'[q] = pc[q] /\ semid'[q] = semid[q]
  BY <1>1, <1>2, <1>3 DEF SetTypes, NoSet
<1>6. i \in 0 .. MaxAttaches /\ i # 0 /\ \A k \in 1 .. MaxAttaches : k \in Ids
  BY <1>3, AttachesAssumption DEF Ids
<1>7. SetTypes'
  <2>1. 0 \in 0 .. 5
    OBVIOUS
  <2>2. set'[i] \in [alive : BOOLEAN, setvals : 0 .. 5, lock : Nat, size : Nat]
    BY <1>2, <1>5, <2>1
  <2>3. set' \in [Ids -> [alive : BOOLEAN, setvals : 0 .. 5, lock : Nat, size : Nat]]
    <3> DEFINE R == [alive : BOOLEAN, setvals : 0 .. 5, lock : Nat, size : Nat]
    <3>1. set \in [Ids -> R] /\ set'[i] \in R
      BY <1>2, <2>2 DEF SetTypes
    <3> HIDE DEF R
    <3>2. set' \in [Ids -> R]
      BY <1>1, <1>3, <1>5, <3>1
    <3> QED BY <3>2 DEF R
  <2>4. sem_key' \in 0 .. MaxAttaches /\ semid' \in [Procs -> 0 .. MaxAttaches]
    BY <1>1, <1>2, <1>6
  <2> QED BY <2>3, <2>4 DEF SetTypes
<1>8. \A q \in Procs : SetOf(q)'
  <2>1. SetOf(p)'
    BY <1>2, <1>5, <1>6 DEF SetOf, Behind, Detaching
  <2>2. ASSUME NEW q \in Procs \ {p} PROVE SetOf(q)'
    <3>1. SetOf(q) /\ semid[q] \in 0 .. MaxAttaches
      BY <1>2 DEF SetInv
    <3>2. semid[q] # 0 => semid[q] \in Ids \ {i}
      BY <3>1, <1>4, <1>6, AttachesAssumption
    <3>3. CASE semid[q] = 0
      BY <3>1, <3>3, <1>5 DEF SetOf, WithSet
    <3>4. CASE semid[q] # 0
      BY <3>1, <3>2, <3>4, <1>5 DEF SetOf
    <3> QED BY <3>3, <3>4
  <2> QED BY <2>1, <2>2
<1>9. \A q, r \in Procs : pc'[q] = "setval" /\ pc'[r] = "setval" /\ semid'[q] = semid'[r] => q = r
  BY <1>4, <1>5 DEF SetInv
<1>10. LockAdds'
  <2> SUFFICES ASSUME NEW j \in Ids, set'[j].alive, set'[j].setvals = 5
               PROVE  set'[j].lock + Cardinality(Holders(j)') = 1
    BY DEF LockAdds
  <2>1. j # i /\ set'[j] = set[j]
    BY <1>5
  <2>2. Holders(j)' = Holders(j)
    BY <1>1, <1>5, <2>1 DEF Holders
  <2> QED BY <2>1, <2>2 DEF SetInv, LockAdds
<1>11. Cardinality(Used(set)') + Cardinality(At(BeforeSet)') <= attaches'
  <2>1. Used(set)' = Used(set) \cup {i} /\ i \notin Used(set)
    BY <1>2, <1>3, <1>5 DEF Used
  <2>2. Cardinality(Used(set)') = Cardinality(Used(set)) + 1 /\ Cardinality(Used(set)) \in Nat
    BY <2>1, FiniteCounts, FS_AddElement
  <2>3. /\ Cardinality(At(BeforeSet)) \in Nat /\ Cardinality(At(BeforeSet)') \in Nat
        /\ Cardinality(At(BeforeSet)') = Cardinality(At(BeforeSet)) - 1
    <3>1. "setval" \in Labels /\ pc[p] \in BeforeSet /\ "setval" \notin BeforeSet
      BY <1>1 DEF Labels, Attaching, BeforeSet
    <3> QED BY <1>1, <1>2, <3>1, AtMoves, Zenon
  <2> QED BY <1>1, <1>2, <2>2, <2>3, AttachesAssumption DEF SetInv
<1>12. \A j \in Ids : /\ set'[j].alive => set'[j].size # 0
                      /\ set'[j].alive /\ set'[j].setvals < 5 => set'[j].lock = 0
  BY <1>2, <1>5 DEF SetInv
<1>13. sem_key' # 0 => set'[sem_key'].size # 0
  BY <1>1, <1>2, <1>5
<1> QED BY <1>7, <1>8, <1>9, <1>10, <1>11, <1>12, <1>13 DEF SetInv

(* Semaphore 4 is taken, released, and initialised.                        *)
LEMMA SetLocked ==
  ASSUME BaseInv, SetInv, NEW p \in Procs, AttachLock(p) \/ DetachLock(p) PROVE SetInv'
<1> DEFINE i == semid[p]
<1>1. PICK to \in {"attach_unlock", "stat"} :
        /\ pc[p] \in {"attach_lock", "detach_lock"} /\ (to = "stat" <=> pc[p] = "detach_lock")
        /\ pc' = [pc EXCEPT ![p] = to] /\ semid' = semid /\ sem_key' = sem_key /\ attaches' = attaches
        /\ IF set[i].alive THEN set[i].lock > 0 /\ set' = [set EXCEPT ![i].lock = @ - 1]
                           ELSE set' = set
  BY DEF AttachLock, DetachLock, Move, P4
<1>2. /\ pc \in [Procs -> Labels] /\ attaches \in Nat /\ SetTypes
      /\ semid \in [Procs -> 0 .. MaxAttaches] /\ semid' = [semid EXCEPT ![p] = i]
  BY <1>1, AttachesAssumption DEF BaseInv, SetInv, SetTypes
<1>3. i \in Ids /\ i # 0 /\ i \in 0 .. MaxAttaches
  BY <1>1, <1>2 DEF SetInv, SetOf, WithSet, Behind, Detaching, Ids
<1>4. set[i].alive => set[i].setvals = 5 /\ set[i].lock > 0
  BY <1>1, <1>2, <1>3 DEF SetInv, SetTypes
<1>5. \A j \in Ids : /\ set'[j].size = set[j].size /\ set'[j].alive = set[j].alive
                     /\ set'[j].setvals = set[j].setvals
                     /\ set'[j].lock = IF j = i /\ set[i].alive THEN set[j].lock - 1 ELSE set[j].lock
                     /\ set[j].lock \in Nat
  BY <1>1, <1>2, <1>3 DEF SetTypes
<1>6. SetTypes'
  <2>1. set[i].alive => set[i].lock - 1 \in Nat
    BY <1>3, <1>4, <1>5
  <2>2. set \in [Ids -> [alive : BOOLEAN, setvals : 0 .. 5, lock : Nat, size : Nat]]
    BY <1>2 DEF SetTypes
  <2>3. set' \in [Ids -> [alive : BOOLEAN, setvals : 0 .. 5, lock : Nat, size : Nat]]
    BY <1>1, <1>3, <2>1, <2>2
  <2> QED BY <1>1, <1>2, <2>3 DEF SetTypes
<1>7. LockAdds'
  <2> SUFFICES ASSUME NEW j \in Ids, set'[j].alive, set'[j].setvals = 5
               PROVE  set'[j].lock + Cardinality(Holders(j)') = 1
    BY DEF LockAdds
  <2>1. set[j].lock + Cardinality(Holders(j)) = 1
    BY <1>5 DEF SetInv, LockAdds
  <2>2. pc[p] \notin Holding /\ to \in Holding
    BY <1>1 DEF Holding
  <2>3. /\ Cardinality(Holders(j)) \in Nat /\ Cardinality(Holders(j)') \in Nat
        /\ Cardinality(Holders(j)') = Cardinality(Holders(j)) + (IF j = i THEN 1 ELSE 0)
    <3>1. PICK v : v = semid[p]
      OBVIOUS
    <3>2. /\ pc \in [Procs -> Labels] /\ semid \in [Procs -> 0 .. MaxAttaches]
          /\ pc' = [pc EXCEPT ![p] = to] /\ semid' = [semid EXCEPT ![p] = v]
      BY <1>1, <1>2, <3>1
    <3>3. /\ Cardinality(Holders(j)) \in Nat /\ Cardinality(Holders(j)') \in Nat
          /\ (semid[p] = j /\ pc[p] \in Holding <=> v = j /\ to \in Holding)
               => Cardinality(Holders(j)') = Cardinality(Holders(j))
          /\ ~(semid[p] = j /\ pc[p] \in Holding) /\ v = j /\ to \in Holding
               => Cardinality(Holders(j)') = Cardinality(Holders(j)) + 1
          /\ semid[p] = j /\ pc[p] \in Holding /\ ~(v = j /\ to \in Holding)
               => Cardinality(Holders(j)') = Cardinality(Holders(j)) - 1
      BY <3>2, HoldersMove, Zenon
    <3> QED BY <2>2, <3>1, <3>3
  <2> QED BY <1>5, <2>1, <2>3
<1>8. SetStep(p, to, i)
  <2>1. to \in Labels /\ to \in Behind /\ to # "setval" /\ to \notin BeforeSet
    BY <1>1 DEF Labels, Attaching, Detaching, Behind, BeforeSet
  <2>2. \A j \in Ids : set'[j].alive /\ set'[j].setvals < 5 => set'[j].lock = 0
    BY <1>3, <1>4, <1>5 DEF SetInv
  <2>3. set'[i].alive => set'[i].setvals = 5
    BY <1>3, <1>4, <1>5
  <2>4. attaches' \in Nat /\ attaches' >= attaches /\ sem_key' \in {0, sem_key}
    BY <1>1, <1>2
  <2>5. \A j \in Ids : /\ set'[j].size = set[j].size /\ (set'[j].alive => set[j].alive)
                       /\ set'[j].setvals = set[j].setvals
    BY <1>5
  <2> HIDE DEF i
  <2> QED BY <1>1, <1>2, <1>3, <1>7, <2>1, <2>2, <2>3, <2>4, <2>5 DEF SetStep, i
<1> QED BY <1>6, <1>8, SetChange

LEMMA SetReleased ==
  ASSUME BaseInv, SetInv, NEW p \in Procs, AttachUnlock(p) \/ DetachUnlock(p) PROVE SetInv'
<1> DEFINE i == semid[p]
<1>1. PICK to \in {"detached", "attached", "shmdt"}, v \in {0, i} :
        /\ pc[p] \in {"attach_unlock", "detach_unlock"}
        /\ pc' = [pc EXCEPT ![p] = to] /\ semid' = [semid EXCEPT ![p] = v]
        /\ v = 0 => to = "detached"
        /\ sem_key' = sem_key /\ attaches' = attaches
        /\ set' = IF set[i].alive THEN [set EXCEPT ![i].lock = @ + 1] ELSE set
  <2>1. semid \in [Procs -> 0 .. MaxAttaches]
    BY DEF SetInv, SetTypes
  <2>2. CASE AttachUnlock(p)
    <3>1. CASE shmid[p] = 0
      BY <2>2, <3>1 DEF AttachUnlock, Move, V4
    <3>2. CASE shmid[p] # 0
      <4>1. semid' = [semid EXCEPT ![p] = i]
        BY <2>1, <2>2, <3>2 DEF AttachUnlock
      <4>2. i # 0
        BY <2>2 DEF AttachUnlock, Move, SetInv, SetOf, WithSet, Behind
      <4> QED BY <2>2, <3>2, <4>1, <4>2 DEF AttachUnlock, Move, V4
    <3> QED BY <3>1, <3>2
  <2>3. CASE DetachUnlock(p)
    <3>1. semid' = [semid EXCEPT ![p] = i]
      BY <2>1, <2>3 DEF DetachUnlock
    <3>2. i # 0
      BY <2>3 DEF DetachUnlock, Move, SetInv, SetOf, WithSet, Behind, Detaching
    <3> QED BY <2>3, <3>1, <3>2 DEF DetachUnlock, Move, V4
  <2> QED BY <2>2, <2>3
<1>2. /\ pc \in [Procs -> Labels] /\ attaches \in Nat /\ SetTypes
      /\ semid \in [Procs -> 0 .. MaxAttaches]
  BY AttachesAssumption DEF BaseInv, SetInv, SetTypes
<1>3. i \in Ids /\ i # 0 /\ v \in 0 .. MaxAttaches /\ (set[i].alive => set[i].setvals = 5)
  BY <1>1, <1>2, AttachesAssumption DEF SetInv, SetOf, WithSet, Behind, Detaching, Ids
<1>4. \A j \in Ids : /\ set'[j].size = set[j].size /\ set'[j].alive = set[j].alive
                     /\ set'[j].setvals = set[j].setvals
                     /\ set'[j].lock = IF j = i /\ set[i].alive THEN set[j].lock + 1 ELSE set[j].lock
                     /\ set[j].lock \in Nat
  BY <1>1, <1>2, <1>3 DEF SetTypes
<1>5. SetTypes'
  <2>1. set \in [Ids -> [alive : BOOLEAN, setvals : 0 .. 5, lock : Nat, size : Nat]]
    BY <1>2 DEF SetTypes
  <2>2. set' \in [Ids -> [alive : BOOLEAN, setvals : 0 .. 5, lock : Nat, size : Nat]]
    BY <1>1, <1>3, <1>4, <2>1
  <2>3. sem_key' \in 0 .. MaxAttaches /\ semid' \in [Procs -> 0 .. MaxAttaches]
    BY <1>1, <1>2, <1>3 DEF SetTypes
  <2> QED BY <2>2, <2>3 DEF SetTypes
<1>6. LockAdds'
  <2> SUFFICES ASSUME NEW j \in Ids, set'[j].alive, set'[j].setvals = 5
               PROVE  set'[j].lock + Cardinality(Holders(j)') = 1
    BY DEF LockAdds
  <2>1. set[j].lock + Cardinality(Holders(j)) = 1
    BY <1>4 DEF SetInv, LockAdds
  <2>2. pc[p] \in Holding /\ to \notin Holding
    BY <1>1 DEF Holding
  <2>3. /\ Cardinality(Holders(j)) \in Nat /\ Cardinality(Holders(j)') \in Nat
        /\ Cardinality(Holders(j)') = Cardinality(Holders(j)) - (IF j = i THEN 1 ELSE 0)
    <3>1. /\ Cardinality(Holders(j)) \in Nat /\ Cardinality(Holders(j)') \in Nat
          /\ (semid[p] = j /\ pc[p] \in Holding <=> v = j /\ to \in Holding)
               => Cardinality(Holders(j)') = Cardinality(Holders(j))
          /\ ~(semid[p] = j /\ pc[p] \in Holding) /\ v = j /\ to \in Holding
               => Cardinality(Holders(j)') = Cardinality(Holders(j)) + 1
          /\ semid[p] = j /\ pc[p] \in Holding /\ ~(v = j /\ to \in Holding)
               => Cardinality(Holders(j)') = Cardinality(Holders(j)) - 1
      BY <1>1, <1>2, HoldersMove, Zenon
    <3> QED BY <2>2, <3>1
  <2>4. set'[j].lock = (IF j = i THEN set[j].lock + 1 ELSE set[j].lock) /\ set[j].lock \in Nat
    BY <1>4
  <2> HIDE DEF i
  <2> QED BY <2>1, <2>3, <2>4
<1>7. SetStep(p, to, v)
  <2>1. to \in Labels /\ to # "setval" /\ to \notin BeforeSet /\ (to \in WithSet => v # 0)
    BY <1>1 DEF Labels, Attaching, Detaching, Behind, BeforeSet, WithSet
  <2>2. \A j \in Ids : set'[j].alive /\ set'[j].setvals < 5 => set'[j].lock = 0
    BY <1>3, <1>4 DEF SetInv
  <2>3. to \in Behind /\ set'[v].alive => set'[v].setvals = 5
    BY <1>1, <1>3, <1>4 DEF Behind, Detaching
  <2>4. attaches' \in Nat /\ attaches' >= attaches /\ sem_key' \in {0, sem_key}
    BY <1>1, <1>2
  <2>5. \A j \in Ids : /\ set'[j].size = set[j].size /\ (set'[j].alive => set[j].alive)
                       /\ set'[j].setvals = set[j].setvals
    BY <1>4
  <2> HIDE DEF i
  <2> QED BY <1>1, <1>3, <1>6, <2>1, <2>2, <2>3, <2>4, <2>5 DEF SetStep, i
<1> QED BY <1>5, <1>7, SetChange

LEMMA SetInitialised ==
  ASSUME BaseInv, SetInv, NEW p \in Procs, Setval(p) PROVE SetInv'
<1> DEFINE i == semid[p]
<1>1. PICK to \in {"setval", "attach_lock"} :
        /\ pc[p] = "setval" /\ (to = "attach_lock" <=> set[i].setvals = 4)
        /\ pc' = [pc EXCEPT ![p] = to] /\ semid' = semid /\ sem_key' = sem_key /\ attaches' = attaches
        /\ set' = [set EXCEPT ![i].setvals = @ + 1,
                              ![i].lock = IF set[i].setvals = 4 THEN 1 ELSE @]
  BY DEF Setval, Move
<1>2. /\ pc \in [Procs -> Labels] /\ attaches \in Nat /\ SetTypes
      /\ semid \in [Procs -> 0 .. MaxAttaches] /\ semid' = [semid EXCEPT ![p] = i]
      /\ set \in [Ids -> [alive : BOOLEAN, setvals : 0 .. 5, lock : Nat, size : Nat]]
  BY <1>1, AttachesAssumption DEF BaseInv, SetInv, SetTypes
<1>3. i \in Ids /\ i # 0 /\ i \in 0 .. MaxAttaches /\ set[i].setvals \in 0 .. 4
  <2>1. i # 0 /\ set[i].setvals < 5
    BY <1>1 DEF SetInv, SetOf, WithSet
  <2>2. i \in Ids /\ i \in 0 .. MaxAttaches
    BY <1>2, <2>1 DEF Ids
  <2> QED BY <1>2, <2>1, <2>2
<1>4. \A j \in Ids : /\ set'[j].size = set[j].size /\ set'[j].alive = set[j].alive
                     /\ set'[j].setvals = IF j = i THEN set[j].setvals + 1 ELSE set[j].setvals
                     /\ set'[j].lock = IF j = i /\ set[i].setvals = 4 THEN 1 ELSE set[j].lock
  BY <1>1, <1>2, <1>3
<1>5. SetTypes'
  <2> DEFINE R == [alive : BOOLEAN, setvals : 0 .. 5, lock : Nat, size : Nat]
             s == [set[i] EXCEPT !.setvals = @ + 1, !.lock = IF set[i].setvals = 4 THEN 1 ELSE @]
  <2>1. s \in R
    <3>1. set[i].setvals + 1 \in 0 .. 5 /\ (IF set[i].setvals = 4 THEN 1 ELSE set[i].lock) \in Nat
      BY <1>2, <1>3
    <3> QED BY <1>2, <1>3, <3>1
  <2>2. set' \in [Ids -> R]
    <3>1. set' = [set EXCEPT ![i] = s]
      BY <1>1, <1>2, <1>3
    <3> HIDE DEF s, R
    <3> QED BY <1>2, <1>3, <2>1, <3>1 DEF R
  <2> QED BY <1>1, <1>2, <2>2 DEF SetTypes
<1>6. LockAdds'
  <2> SUFFICES ASSUME NEW j \in Ids, set'[j].alive, set'[j].setvals = 5
               PROVE  set'[j].lock + Cardinality(Holders(j)') = 1
    BY DEF LockAdds
  <2>1. Holders(j)' = Holders(j)
    BY <1>1, <1>2 DEF Holders
  <2>2. CASE j = i
    <3>1. set[i].alive /\ set[i].setvals = 4 /\ set'[j].lock = 1
      BY <1>3, <1>4, <2>2
    <3>2. Holders(j) = {}
      <4> SUFFICES ASSUME NEW q \in Procs, semid[q] = i, pc[q] \in Holding PROVE FALSE
        BY <2>2 DEF Holders, Holding
      <4>1. pc[q] \in Behind
        BY DEF Holding, Behind, Detaching
      <4> QED BY <3>1, <4>1 DEF SetInv, SetOf
    <3> QED BY <2>1, <3>1, <3>2, FS_EmptySet
  <2>3. CASE j # i
    BY <1>4, <2>1, <2>3 DEF SetInv, LockAdds
  <2> QED BY <2>2, <2>3
<1>7. SetStep(p, to, i)
  <2>1. to \in Labels /\ to \notin Behind /\ to \notin BeforeSet
    BY <1>1 DEF Labels, Attaching, Detaching, Behind, BeforeSet
  <2>2. \A j \in Ids : set'[j].alive /\ set'[j].setvals < 5 => set'[j].lock = 0
    BY <1>3, <1>4 DEF SetInv
  <2>3. to = "setval" => set'[i].setvals < 5
    <3>1. set'[i].setvals = set[i].setvals + 1 /\ (to = "setval" => set[i].setvals # 4)
      BY <1>1, <1>3, <1>4
    <3> HIDE DEF i
    <3> QED BY <1>3, <3>1
  <2>4. attaches' \in Nat /\ attaches' >= attaches /\ sem_key' \in {0, sem_key}
    BY <1>1, <1>2
  <2>5. \A j \in Ids : /\ set'[j].size = set[j].size /\ (set'[j].alive => set[j].alive)
                       /\ set'[j].setvals = set[j].setvals \/ j = i
    BY <1>4
  <2> HIDE DEF i
  <2> QED BY <1>1, <1>2, <1>3, <1>6, <2>1, <2>2, <2>3, <2>4, <2>5 DEF SetStep, i
<1> QED BY <1>5, <1>7, SetChange

LEMMA SetRemoved ==
  ASSUME BaseInv, SetInv, NEW p \in Procs, Stat(p) \/ RmSem(p) PROVE SetInv'
<1> DEFINE i == semid[p]
<1>1. PICK to \in {"rm_sem", "detach_unlock", "shmdt"} :
        /\ pc[p] \in {"stat", "rm_sem"} /\ (to = "shmdt" <=> pc[p] = "rm_sem")
        /\ pc' = [pc EXCEPT ![p] = to] /\ semid' = semid /\ sem_key' \in {0, sem_key}
        /\ attaches' = attaches
        /\ set' = IF to = "shmdt" THEN [set EXCEPT ![i].alive = FALSE] ELSE set
  BY DEF Stat, RmSem, Move
<1>2. /\ pc \in [Procs -> Labels] /\ attaches \in Nat /\ SetTypes
      /\ semid \in [Procs -> 0 .. MaxAttaches] /\ semid' = [semid EXCEPT ![p] = i]
      /\ set \in [Ids -> [alive : BOOLEAN, setvals : 0 .. 5, lock : Nat, size : Nat]]
  BY <1>1, AttachesAssumption DEF BaseInv, SetInv, SetTypes
<1>3. i \in Ids /\ i # 0 /\ i \in 0 .. MaxAttaches /\ (set[i].alive => set[i].setvals = 5)
  BY <1>1, <1>2 DEF SetInv, SetOf, WithSet, Behind, Detaching, Ids
<1>4. \A j \in Ids : /\ set'[j].size = set[j].size /\ set'[j].setvals = set[j].setvals
                     /\ set'[j].lock = set[j].lock
                     /\ set'[j].alive = IF j = i /\ to = "shmdt" THEN FALSE ELSE set[j].alive
  BY <1>1, <1>2, <1>3
<1>5. SetTypes'
  <2>1. set' \in [Ids -> [alive : BOOLEAN, setvals : 0 .. 5, lock : Nat, size : Nat]]
    BY <1>1, <1>2, <1>3
  <2>2. sem_key' \in 0 .. MaxAttaches /\ semid' \in [Procs -> 0 .. MaxAttaches]
    BY <1>1, <1>2, AttachesAssumption DEF SetTypes
  <2> QED BY <2>1, <2>2 DEF SetTypes
<1>6. LockAdds'
  <2> SUFFICES ASSUME NEW j \in Ids, set'[j].alive, set'[j].setvals = 5
               PROVE  set'[j].lock + Cardinality(Holders(j)') = 1
    BY DEF LockAdds
  <2>1. j = i => to \in Holding
    BY <1>1, <1>4 DEF Holding
  <2>2. Holders(j)' = Holders(j)
    <3>1. \A q \in Procs : semid[q] = j => (pc'[q] \in Holding <=> pc[q] \in Holding)
      BY <1>1, <1>2, <2>1 DEF Holding
    <3> QED BY <1>1, <3>1 DEF Holders, Holding
  <2>3. set[j].alive /\ set[j].setvals = 5 /\ set'[j].lock = set[j].lock
    BY <1>4
  <2> QED BY <2>2, <2>3 DEF SetInv, LockAdds
<1>7. SetStep(p, to, i)
  <2>1. to \in Labels /\ to # "setval" /\ to \notin BeforeSet
    BY <1>1 DEF Labels, Detaching, BeforeSet
  <2>2. \A j \in Ids : set'[j].alive /\ set'[j].setvals < 5 => set'[j].lock = 0
    BY <1>4 DEF SetInv
  <2>3. set'[i].alive => set'[i].setvals = 5
    BY <1>3, <1>4
  <2>4. attaches' \in Nat /\ attaches' >= attaches /\ sem_key' \in {0, sem_key}
    BY <1>1, <1>2
  <2>5. \A j \in Ids : /\ set'[j].size = set[j].size /\ (set'[j].alive => set[j].alive)
                       /\ set'[j].setvals = set[j].setvals
    BY <1>4
  <2> HIDE DEF i
  <2> QED BY <1>1, <1>2, <1>3, <1>6, <2>1, <2>2, <2>3, <2>4, <2>5 DEF SetStep, i
<1> QED BY <1>5, <1>7, SetChange

LEMMA SetInvStep == ASSUME BaseInv, SegInv, SetInv, [Next]_vars PROVE SetInv'
<1>1. CASE UNCHANGED vars
  BY <1>1 DEF vars, SetInv, SetTypes, SetOf, LockAdds, Holders, At, Used
<1>2. ASSUME NEW p \in Procs,
             \/ CallAttach(p) \/ CallDetach(p) \/ MarkDestruct(p) \/ Work(p) \/ Wait(p)
      PROVE  SetInv'
  <2> DEFINE v == semid[p]
  <2>1. /\ attaches \in Nat /\ SetTypes /\ SetOf(p) /\ pc \in [Procs -> Labels]
        /\ v \in 0 .. MaxAttaches /\ semid = [semid EXCEPT ![p] = v] /\ sem_key \in 0 .. MaxAttaches
    BY AttachesAssumption DEF BaseInv, SetInv, SetTypes
  <2> USE DEF Move, Labels, Attaching, Detaching, Behind, WithSet, BeforeSet, Holding
  <2>2. CASE CallAttach(p)
    <3>1. SetStill(p, "shmget_new", v)
      BY <2>1, <2>2 DEF CallAttach, SetStill
    <3> QED BY <3>1, SetQuiet
  <2>3. CASE ShmgetNew(p) \/ ShmgetOld(p) \/ Shmat(p) \/ Poison(p)
    <3>1. \E to \in {"shmat_new", "shmget_old", "shmat_old", "semget_new", "poison"} : SetStill(p, to, v)
      BY <2>1, <2>3 DEF ShmgetNew, ShmgetOld, Shmat, Poison, SetStill
    <3> QED BY <3>1, SetQuiet
  <2>4. CASE SemgetNew(p)
    <3>1. CASE sem_key = 0
      BY <2>4, <3>1, SetMade
    <3>2. CASE sem_key # 0
      <4>1. SetStill(p, "semget_old", v)
        BY <2>1, <2>4, <3>2 DEF SemgetNew, SetStill
      <4> QED BY <4>1, SetQuiet
    <3> QED BY <3>1, <3>2
  <2>5. CASE SemgetOld(p)
    <3>1. SetStill(p, "attach_lock", sem_key) \/ SetStill(p, "detached", v)
      BY <2>1, <2>5 DEF SemgetOld, SetStill
    <3> QED BY <3>1, SetQuiet
  <2>6. CASE Setval(p)
    BY <2>6, SetInitialised
  <2>7. CASE AttachUnlock(p) \/ DetachUnlock(p)
    BY <2>7, SetReleased
  <2>8. CASE AttachLock(p) \/ DetachLock(p)
    BY <2>8, SetLocked
  <2>9. CASE Stat(p) \/ RmSem(p)
    BY <2>9, SetRemoved
  <2>10. CASE CallDetach(p)
    <3>1. SetStill(p, "detach_lock", v)
      BY <2>1, <2>10 DEF CallDetach, SetStill, SetOf
    <3> QED BY <3>1, SetQuiet
  <2>11. CASE MarkDestruct(p)
    BY <2>11 DEF MarkDestruct, SetInv, SetTypes, SetOf, LockAdds, Holders, At, Used
  <2>12. CASE Shmdt(p)
    <3>1. SetStill(p, "detached", 0)
      BY <2>1, <2>12, AttachesAssumption DEF Shmdt, SetStill
    <3> QED BY <3>1, SetQuiet
  <2> QED BY <1>2, <2>2, <2>3, <2>4, <2>5, <2>6, <2>7, <2>8, <2>9, <2>10, <2>11, <2>12 DEF Work, Wait
<1> QED BY <1>1, <1>2 DEF Next
-----------------------------------------------------------------------------
LEMMA TwoElements ==
  ASSUME NEW S, IsFiniteSet(S), NEW a \in S, NEW b \in S, a # b
  PROVE  Cardinality(S) \in Nat /\ Cardinality(S) >= 2
<1>1. IsFiniteSet({a}) /\ Cardinality({a}) = 1
  BY FS_Singleton
<1>2. IsFiniteSet({a} \cup {b}) /\ Cardinality({a} \cup {b}) = 2
  <2>1. b \notin {a}
    OBVIOUS
  <2>2. IsFiniteSet({a} \cup {b}) /\ Cardinality({a} \cup {b}) = Cardinality({a}) + 1
    BY <1>1, <2>1, FS_AddElement, Zenon
  <2> QED BY <1>1, <2>2
<1>3. ({a} \cup {b}) \in SUBSET S
  OBVIOUS
<1> QED BY <1>2, <1>3, FS_Subset, FS_CardinalityType

(* What one step can do to the label, the handle and the set of q.         *)
LEMMA OneStep ==
  ASSUME IInv, [Next]_vars, NEW q \in Procs
  PROVE  /\ Marked => Marked'
         /\ pc'[q] = "rm_sem" => semid'[q] = semid[q] /\ (pc[q] = "rm_sem" \/ Stat(q))
         /\ Using(q)' => semid'[q] = semid[q] /\ (Using(q) \/ AttachUnlock(q))
         /\ semid[q] # 0 /\ set'[semid[q]].alive => set[semid[q]].alive
         /\ \/ semid[q] # 0 /\ set[semid[q]].alive => set'[semid[q]].alive
            \/ \E p \in Procs : RmSem(p) /\ semid[p] = semid[q]
<1>1. /\ pc \in [Procs -> Labels] /\ SegTypes /\ SetTypes
      /\ semid \in [Procs -> 0 .. MaxAttaches] /\ (semid[q] # 0 => semid[q] \in Ids)
  BY DEF IInv, BaseInv, SegInv, SetInv, SetTypes, Ids
<1>2. CASE UNCHANGED vars
  BY <1>2 DEF vars, Marked, Using
<1>3. ASSUME NEW p \in Procs,
             \/ CallAttach(p) \/ CallDetach(p) \/ MarkDestruct(p) \/ Work(p) \/ Wait(p)
      PROVE  /\ Marked => Marked'
             /\ pc'[q] = "rm_sem" => semid'[q] = semid[q] /\ (pc[q] = "rm_sem" \/ Stat(q))
             /\ Using(q)' => semid'[q] = semid[q] /\ (Using(q) \/ AttachUnlock(q))
             /\ semid[q] # 0 /\ set'[semid[q]].alive => set[semid[q]].alive
             /\ \/ semid[q] # 0 /\ set[semid[q]].alive => set'[semid[q]].alive
                \/ \E r \in Procs : RmSem(r) /\ semid[r] = semid[q]
  <2> USE DEF Move, Using
  <2>1. CASE CallAttach(p) \/ CallDetach(p) \/ ShmgetOld(p)
    BY <1>1, <2>1 DEF CallAttach, CallDetach, ShmgetOld, Marked
  <2>2. CASE MarkDestruct(p)
    <3>1. shmid[p] \in Ids
      BY <1>1, <2>2 DEF IInv, SegInv, SegOf, SegTypes, MarkDestruct, Ids
    <3>2. Marked'
      BY <1>1, <2>2, <3>1 DEF MarkDestruct, SegTypes, Marked
    <3> QED BY <2>2, <3>2 DEF MarkDestruct
  <2>3. CASE ShmgetNew(p)
    <3>1. CASE shm_key = 0
      <4>1. Fresh(seg) \in Ids /\ seg[Fresh(seg)].size = 0
        <5>1. p \in At(BeforeSeg)
          BY <2>3 DEF ShmgetNew, At, BeforeSeg
        <5> QED BY <5>1, FreshExists DEF IInv, BaseInv, SegInv
      <4>2. ~seg[Fresh(seg)].marked
        BY <4>1 DEF IInv, SegInv
      <4>3. \A j \in Ids : j # Fresh(seg) => seg'[j] = seg[j]
        BY <1>1, <2>3, <3>1 DEF ShmgetNew, SegTypes
      <4>4. Marked => Marked'
        BY <4>2, <4>3 DEF Marked
      <4> QED BY <1>1, <2>3, <3>1, <4>4 DEF ShmgetNew
    <3>2. CASE shm_key # 0
      BY <1>1, <2>3, <3>2 DEF ShmgetNew, Marked
    <3> QED BY <3>1, <3>2
  <2>4. CASE Shmat(p) \/ Poison(p) \/ Shmdt(p)
    <3>1. \A j \in Ids : seg'[j].marked = seg[j].marked
      BY <1>1, <2>4 DEF Shmat, Poison, Shmdt, SegTypes
    <3>2. Marked => Marked'
      BY <3>1 DEF Marked
    <3> QED BY <1>1, <2>4, <3>2 DEF Shmat, Poison, Shmdt
  <2>5. CASE SemgetNew(p)
    <3>1. CASE sem_key = 0
      <4>1. Fresh(set) \in Ids /\ set[Fresh(set)].size = 0
        <5>1. p \in At(BeforeSet)
          BY <2>5 DEF SemgetNew, At, BeforeSet
        <5>2. \A j \in Ids : set[j].size = 0 => ~set[j].alive
          BY DEF IInv, SetInv
        <5> QED BY <5>1, <5>2, FreshExists DEF IInv, BaseInv, SetInv
      <4>2. semid[q] # 0 => semid[q] # Fresh(set)
        BY <4>1 DEF IInv, SetInv, SetOf
      <4>3. \A j \in Ids : j # Fresh(set) => set'[j] = set[j]
        BY <1>1, <2>5, <3>1 DEF SemgetNew, SetTypes
      <4> QED BY <1>1, <2>5, <3>1, <4>2, <4>3 DEF SemgetNew, Marked
    <3>2. CASE sem_key # 0
      BY <1>1, <2>5, <3>2 DEF SemgetNew, Marked
    <3> QED BY <3>1, <3>2
  <2>6. CASE SemgetOld(p) \/ Stat(p)
    BY <1>1, <2>6 DEF SemgetOld, Stat, Marked
  <2>7. CASE Setval(p) \/ AttachLock(p) \/ DetachLock(p) \/ AttachUnlock(p) \/ DetachUnlock(p)
    <3>1. \A j \in Ids : set'[j].alive = set[j].alive
      BY <1>1, <2>7 DEF Setval, AttachLock, DetachLock, AttachUnlock, DetachUnlock, P4, V4, SetTypes
    <3> QED BY <1>1, <2>7, <3>1
            DEF Setval, AttachLock, DetachLock, AttachUnlock, DetachUnlock, Marked
  <2>8. CASE RmSem(p)
    <3>1. \A j \in Ids : /\ set'[j].alive => set[j].alive
                         /\ j # semid[p] => set'[j] = set[j]
      BY <1>1, <2>8 DEF RmSem, SetTypes
    <3> QED BY <1>1, <2>8, <3>1 DEF RmSem, Marked
  <2> QED BY <1>3, <2>1, <2>2, <2>3, <2>4, <2>5, <2>6, <2>7, <2>8 DEF Work, Wait
<1> QED BY <1>2, <1>3 DEF Next

(* A set that is made has a setter, which stays until all five are set.    *)
LEMMA SetterStep == ASSUME IInv, SetterThere, [Next]_vars PROVE SetterThere'
<1>1. pc \in [Procs -> Labels] /\ SetTypes /\ semid \in [Procs -> 0 .. MaxAttaches]
  BY DEF IInv, BaseInv, SetInv, SetTypes
<1>2. CASE UNCHANGED vars
  BY <1>2 DEF vars, SetterThere
<1>3. ASSUME NEW p \in Procs,
             \/ CallAttach(p) \/ CallDetach(p) \/ MarkDestruct(p) \/ Work(p) \/ Wait(p),
             NEW i \in Ids, set'[i].alive, set'[i].setvals < 5
      PROVE  \E q \in Procs : pc'[q] = "setval" /\ semid'[q] = i
  <2>1. CASE SemgetNew(p) /\ sem_key = 0
    <3>1. Fresh(set) \in Ids
      <4>1. p \in At(BeforeSet)
        BY <2>1 DEF SemgetNew, Move, At, BeforeSet
      <4>2. \A j \in Ids : set[j].size = 0 => ~set[j].alive
        BY DEF IInv, SetInv
      <4> QED BY <4>1, <4>2, FreshExists DEF IInv, BaseInv, SetInv
    <3>2. /\ pc'[p] = "setval" /\ semid'[p] = Fresh(set) /\ pc[p] # "setval"
          /\ \A q \in Procs : q # p => pc'[q] = pc[q] /\ semid'[q] = semid[q]
          /\ \A j \in Ids : j # Fresh(set) => set'[j] = set[j]
      BY <1>1, <2>1 DEF SemgetNew, Move, SetTypes
    <3> QED BY <1>3, <3>1, <3>2 DEF SetterThere
  <2>2. CASE Setval(p)
    <3>1. /\ pc[p] = "setval" /\ semid' = semid
          /\ pc'[p] = IF set[semid[p]].setvals = 4 THEN "attach_lock" ELSE "setval"
          /\ \A q \in Procs : q # p => pc'[q] = pc[q]
          /\ \A j \in Ids : j # semid[p] => set'[j] = set[j]
          /\ \A j \in Ids : j = semid[p] => set'[j].setvals = set[j].setvals + 1
      BY <1>1, <2>2 DEF Setval, Move, SetTypes
    <3>2. CASE i = semid[p]
      <4>1. set[i].setvals # 4
        BY <1>3, <3>1, <3>2
      <4> QED BY <3>1, <3>2, <4>1
    <3>3. CASE i # semid[p]
      BY <1>3, <3>1, <3>3 DEF SetterThere
    <3> QED BY <3>2, <3>3
  <2>3. CASE ~Setval(p) /\ ~(SemgetNew(p) /\ sem_key = 0)
    <3>1. pc[p] # "setval" /\ \A q \in Procs : q # p => pc'[q] = pc[q] /\ semid'[q] = semid[q]
      BY <1>1, <1>3, <2>3
         DEF CallAttach, CallDetach, MarkDestruct, Work, Wait, ShmgetNew, ShmgetOld, Shmat, Poison, SemgetNew,
             SemgetOld, AttachLock, DetachLock, AttachUnlock, Stat, RmSem, DetachUnlock, Shmdt, Move
    <3>2. set[i].alive /\ set[i].setvals < 5
      BY <1>1, <1>3, <2>3
         DEF CallAttach, CallDetach, MarkDestruct, Work, Wait, ShmgetNew, ShmgetOld, Shmat, Poison, SemgetNew,
             SemgetOld, AttachLock, DetachLock, AttachUnlock, Stat, RmSem, DetachUnlock, Shmdt, P4, V4, SetTypes
    <3> QED BY <3>1, <3>2 DEF SetterThere
  <2> QED BY <2>1, <2>2, <2>3
<1> QED BY <1>2, <1>3 DEF Next, SetterThere

LEMMA LastStep == ASSUME IInv, [Next]_vars PROVE Last'
<1> SUFFICES ASSUME ~Marked', NEW r \in Procs, NEW q \in Procs,
                    pc'[q] = "rm_sem", set'[semid'[q]].alive, Using(r)', semid'[r] = semid'[q]
             PROVE  FALSE
  BY DEF Last, HasSet
<1>1. SegInv /\ SetInv /\ Last /\ SetOf(q) /\ SegOf(q) /\ SegOf(r)
  BY DEF IInv, SegInv, SetInv
<1>2. /\ ~Marked /\ semid'[q] = semid[q] /\ semid'[r] = semid[r]
      /\ pc[q] = "rm_sem" \/ Stat(q)
      /\ Using(r) \/ AttachUnlock(r)
  BY OneStep
<1>3. /\ pc[q] \in {"rm_sem", "stat"} /\ semid[q] # 0 /\ semid[r] = semid[q]
      /\ semid[q] \in Ids /\ set[semid[q]].alive /\ set[semid[q]].setvals = 5
  <2>1. pc[q] \in {"rm_sem", "stat"}
    BY <1>2 DEF Stat, Move
  <2>2. semid[q] # 0
    BY <1>1, <2>1 DEF SetOf, WithSet, Behind, Detaching
  <2>3. set[semid[q]].alive
    BY <1>2, <2>2, OneStep
  <2> QED BY <1>1, <1>2, <2>1, <2>2, <2>3 DEF SetOf, Behind, Detaching, SetInv, SetTypes, Ids
<1>4. CASE Using(r) /\ pc[q] = "rm_sem"
  BY <1>1, <1>2, <1>3, <1>4 DEF Last, HasSet
<1>5. CASE Using(r) /\ Stat(q)       \* the two are attached, so shm_nattch is not 1
  <2>1. pc[q] = "stat" /\ seg[shmid[q]].nattch = 1
    BY <1>5 DEF Stat, Move, IInv, BaseInv
  <2>2. shmid[q] # 0 /\ shmid[r] = shmid[q] /\ shmid[q] \in Ids /\ q # r
    BY <1>1, <1>2, <1>5, <2>1 DEF SegOf, Detaching, Using, SegInv, SegTypes, Ids
  <2>3. q \in AttachedTo(shmid[q]) /\ r \in AttachedTo(shmid[q])
    BY <1>5, <2>1, <2>2 DEF AttachedTo, Using, Unmapped
  <2>4. Cardinality(AttachedTo(shmid[q])) \in Nat /\ Cardinality(AttachedTo(shmid[q])) >= 2
    BY <2>2, <2>3, FiniteCounts, TwoElements
  <2> QED BY <1>1, <2>1, <2>2, <2>4 DEF SegInv
<1>6. CASE AttachUnlock(r)           \* the two would both hold semaphore 4
  <2>1. pc[r] = "attach_unlock" /\ q # r
    BY <1>3, <1>6 DEF AttachUnlock, Move
  <2>2. q \in Holders(semid[q]) /\ r \in Holders(semid[q])
    BY <1>3, <2>1 DEF Holders
  <2>3. IsFiniteSet(Holders(semid[q]))
    <3>1. Holders(semid[q]) \in SUBSET Procs
      BY DEF Holders
    <3> QED BY <3>1, ProcsAssumption, FS_Subset
  <2>4. Cardinality(Holders(semid[q])) \in Nat /\ Cardinality(Holders(semid[q])) >= 2
    BY <2>1, <2>2, <2>3, TwoElements
  <2>5. set[semid[q]].lock + Cardinality(Holders(semid[q])) = 1 /\ set[semid[q]].lock \in Nat
    BY <1>1, <1>3 DEF SetInv, SetTypes, LockAdds
  <2> QED BY <2>4, <2>5
<1> QED BY <1>2, <1>4, <1>5, <1>6

LEMMA Invariance == Spec => []IInv
<1>1. IInv /\ [Next]_vars => IInv'
  <2> SUFFICES ASSUME IInv, [Next]_vars PROVE IInv' OBVIOUS
  <2>1. BaseInv /\ SegInv /\ SetInv
    BY DEF IInv
  <2>2. BaseInv'
    BY <2>1, BaseStep
  <2>3. SegInv'
    BY <2>1, SegInvStep
  <2>4. SetInv'
    BY <2>1, SetInvStep
  <2>5. Last'
    BY LastStep
  <2> QED BY <2>2, <2>3, <2>4, <2>5 DEF IInv
<1> QED BY <1>1, InitIInv, PTL DEF Spec
-----------------------------------------------------------------------------
(* Every variable keeps its type: no semaphore is ever set up more than    *)
(* five times, and neither shm_nattch nor semaphore 4 becomes negative.    *)
THEOREM TypeCorrect == Spec => []TypeOK
<1>1. IInv => TypeOK
  BY DEF IInv, BaseInv, SegInv, SegTypes, SetInv, SetTypes, TypeOK, Labels
<1> QED BY <1>1, Invariance, PTL

(* Whichever process of any number creates the set, a handle attach_stack  *)
(* returned has five initialised semaphores as long as the set exists.     *)
THEOREM SetUp == Spec => []SetupBeforeUse
<1>1. IInv => SetupBeforeUse
  BY DEF IInv, SetInv, SetOf, SetupBeforeUse, Using, HasSet, Behind, Detaching
<1> QED BY <1>1, Invariance, PTL

(* No attach and no detach loses or duplicates semaphore 4 of a live set,  *)
(* also when a set was removed under it and its semop failed; and whoever  *)
(* waits for it waits for one that holds it or still sets the set up.      *)
THEOREM LockKept == Spec => []LockConserved
<1>1. IInv /\ SetterThere => LockConserved
  BY DEF IInv, SetInv, SetTypes, LockAdds, SetterThere, LockConserved
<1>2. Init => SetterThere
  BY DEF Init, NoSet, SetterThere
<1>3. IInv /\ SetterThere /\ [Next]_vars => SetterThere'
  BY SetterStep
<1> QED BY <1>1, <1>2, <1>3, Invariance, PTL DEF Spec

(* Without mark_destruct no detach removes the semaphores of a handle that *)
(* another process still uses.                                             *)
THEOREM SetKept == Spec => KeepsSet
<1>1. IInv /\ [Next]_vars
        => [\A p \in Procs : Using(p) /\ HasSet(p) /\ Using(p)' /\ ~Marked => HasSet(p)']_vars
  <2> SUFFICES ASSUME IInv, [Next]_vars, NEW p \in Procs,
                      Using(p), HasSet(p), Using(p)', ~Marked, ~HasSet(p)'
               PROVE  FALSE
    BY Zenon
  <2>1. semid'[p] = semid[p] /\ semid[p] # 0
    BY OneStep DEF IInv, SetInv, SetOf, Using, WithSet, Behind, Detaching
  <2>2. set[semid[p]].alive /\ ~set'[semid[p]].alive
    BY <2>1 DEF HasSet
  <2>3. PICK q \in Procs : RmSem(q) /\ semid[q] = semid[p]
    BY <2>1, <2>2, OneStep
  <2>4. pc[q] = "rm_sem" /\ HasSet(q)
    BY <2>2, <2>3 DEF RmSem, Move, HasSet
  <2> QED BY <2>3, <2>4 DEF IInv, Last
<1> QED BY <1>1, Invariance, PTL DEF Spec, KeepsSet
=============================================================================
