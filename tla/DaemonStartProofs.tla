-------------------------- MODULE DaemonStartProofs --------------------------
(***************************************************************************)
(* Safety of starting and stopping daemons, for any number of them, any    *)
(* table of descriptors with room for five files, and whatever descriptors *)
(* they are started with.                                                  *)
(***************************************************************************)
EXTENDS DaemonStart, WellFoundedInduction, TLAPS

Tables == [Fds -> {None} \cup Kinds \cup Daemons]

(* open finds the lowest free descriptor if there is one.                  *)
LEMMA LowestFree ==
  ASSUME NEW t, NEW m \in Fds, t[m] = None
  PROVE  /\ Lowest(t) \in Fds /\ t[Lowest(t)] = None
         /\ \A k \in Fds : t[k] = None => Lowest(t) <= k
<1> DEFINE Free == {n \in Fds : t[n] = None}
<1>1. Free \subseteq Nat /\ Free # {}
  BY FdAssumption DEF Fds
<1>2. PICK x \in Free : \A y \in Free : <<y, x>> \notin OpToRel(<, Nat)
  BY <1>1, NatLessThanWellFounded, WFMin, Zenon
<1>3. \A y \in Free : x <= y
  <2> SUFFICES ASSUME NEW y \in Free PROVE x <= y OBVIOUS
  <2>1. x \in Nat /\ y \in Nat
    BY <1>1
  <2>2. ~ (y < x)
    BY <1>2, <2>1 DEF OpToRel
  <2> QED BY <2>1, <2>2
<1>4. \E n \in Fds : t[n] = None /\ \A k \in Fds : t[k] = None => n <= k
  BY <1>3
<1> QED BY <1>4 DEF Lowest

(* open changes that descriptor, and leaves one free number less at the    *)
(* top of the table.                                                       *)
LEMMA OpenTable ==
  ASSUME NEW t \in Tables, NEW k \in 1 .. 5, \A n \in Fds : n > MaxFd - k => t[n] = None,
         NEW what \in Kinds \cup Daemons
  PROVE  /\ Lowest(t) \in Fds /\ Lowest(t) <= MaxFd - k + 1 /\ t[Lowest(t)] = None
         /\ \A n \in Fds : t[n] = None => Lowest(t) <= n
         /\ Open(t, what) \in Tables /\ Open(t, what)[Lowest(t)] = what
         /\ \A n \in Fds : n # Lowest(t) => Open(t, what)[n] = t[n]
         /\ \A n \in Fds : n > MaxFd - k + 1 => Open(t, what)[n] = None
<1> DEFINE m == MaxFd - k + 1
<1>1. m \in Fds /\ m > MaxFd - k
  BY FdAssumption DEF Fds
<1>2. t[m] = None
  BY <1>1
<1>3. /\ Lowest(t) \in Fds /\ t[Lowest(t)] = None
      /\ \A n \in Fds : t[n] = None => Lowest(t) <= n
  BY <1>1, <1>2, LowestFree
<1>4. Lowest(t) <= m
  BY <1>1, <1>2, <1>3
<1>5. /\ Open(t, what) \in Tables /\ Open(t, what)[Lowest(t)] = what
      /\ \A n \in Fds : n # Lowest(t) => Open(t, what)[n] = t[n]
  BY <1>3 DEF Open, Tables
<1>6. \A n \in Fds : n > MaxFd - k + 1 => Open(t, what)[n] = None
  <2> SUFFICES ASSUME NEW n \in Fds, n > MaxFd - k + 1 PROVE Open(t, what)[n] = None OBVIOUS
  <2>1. n # Lowest(t) /\ n > MaxFd - k
    BY <1>4, <1>3, FdAssumption DEF Fds
  <2> QED BY <2>1, <1>5
<1> HIDE DEF m
<1> QED BY <1>3, <1>4, <1>5, <1>6 DEF m

LEMMA DupTable ==
  ASSUME NEW t \in Tables, NEW old \in Fds, NEW new \in Fds
  PROVE  /\ Dup2(t, old, new) \in Tables /\ Dup2(t, old, new)[new] = t[old]
         /\ \A n \in Fds : n # new => Dup2(t, old, new)[n] = t[n]
BY DEF Dup2, Tables

(* open_in_out_err puts the three files where they belong if 0 is taken    *)
(* and 1 and 2 are free, and closes nothing else.                          *)
LEMMA StdTable ==
  ASSUME NEW t \in Tables, \A n \in Fds : n > MaxFd - 3 => t[n] = None
  PROVE  /\ Std(t) \in Tables
         /\ t[0] # None /\ t[1] = None /\ t[2] = None =>
              /\ Std(t)[0] = "in" /\ Std(t)[1] = "out" /\ Std(t)[2] = "err"
              /\ \A n \in Fds : n > 2 /\ t[n] # None => Std(t)[n] = t[n]
              /\ \A n \in Fds : Std(t)[n] = "pid" => n > 2 /\ t[n] = "pid"
<1> DEFINE t1 == Open(t, "in")   l1 == Lowest(t)
           t2 == Open(t1, "out") l2 == Lowest(t1)
           t3 == Open(t2, "err") l3 == Lowest(t2)
           d1 == Dup2(t3, l1, 0)
           d2 == Dup2(d1, l2, 1)
           d3 == Dup2(d2, l3, 2)
<1>1. /\ l1 \in Fds /\ t[l1] = None /\ (\A n \in Fds : t[n] = None => l1 <= n)
      /\ t1 \in Tables /\ t1[l1] = "in" /\ (\A n \in Fds : n # l1 => t1[n] = t[n])
      /\ (\A n \in Fds : n > MaxFd - 2 => t1[n] = None)
  <2>1. "in" \in Kinds \cup Daemons /\ 3 \in 1 .. 5 /\ MaxFd - 3 + 1 = MaxFd - 2
    BY FdAssumption DEF Kinds
  <2> QED BY <2>1, OpenTable
<1>2. /\ l2 \in Fds /\ t1[l2] = None /\ (\A n \in Fds : t1[n] = None => l2 <= n)
      /\ t2 \in Tables /\ t2[l2] = "out" /\ (\A n \in Fds : n # l2 => t2[n] = t1[n])
      /\ (\A n \in Fds : n > MaxFd - 1 => t2[n] = None)
  <2> HIDE DEF t1
  <2>1. "out" \in Kinds \cup Daemons /\ 2 \in 1 .. 5 /\ MaxFd - 2 + 1 = MaxFd - 1
    BY FdAssumption DEF Kinds
  <2> QED BY <1>1, <2>1, OpenTable
<1>3. /\ l3 \in Fds /\ t2[l3] = None /\ (\A n \in Fds : t2[n] = None => l3 <= n)
      /\ t3 \in Tables /\ t3[l3] = "err" /\ (\A n \in Fds : n # l3 => t3[n] = t2[n])
  <2> HIDE DEF t2
  <2>1. "err" \in Kinds \cup Daemons /\ 1 \in 1 .. 5
    BY DEF Kinds
  <2> QED BY <1>2, <2>1, OpenTable
<1>4. {0, 1, 2} \subseteq Fds
  BY FdAssumption DEF Fds
<1>5. d1 \in Tables /\ d1[0] = t3[l1] /\ (\A n \in Fds : n # 0 => d1[n] = t3[n])
  <2> HIDE DEF t3, l1
  <2> QED BY <1>1, <1>3, <1>4, DupTable
<1>6. d2 \in Tables /\ d2[1] = d1[l2] /\ (\A n \in Fds : n # 1 => d2[n] = d1[n])
  <2> HIDE DEF d1, l2
  <2> QED BY <1>5, <1>2, <1>4, DupTable
<1>7. d3 \in Tables /\ d3[2] = d2[l3] /\ (\A n \in Fds : n # 2 => d3[n] = d2[n])
  <2> HIDE DEF d2, l3
  <2> QED BY <1>6, <1>3, <1>4, DupTable
<1>8. Std(t) = d3
  BY DEF Std
<1> HIDE DEF t1, t2, t3, l1, l2, l3, d1, d2, d3
<1>9. ASSUME t[0] # None, t[1] = None, t[2] = None
      PROVE  /\ d3[0] = "in" /\ d3[1] = "out" /\ d3[2] = "err"
             /\ \A n \in Fds : n > 2 /\ t[n] # None => d3[n] = t[n]
             /\ \A n \in Fds : d3[n] = "pid" => n > 2 /\ t[n] = "pid"
  <2>1. l1 = 1
    BY <1>1, <1>4, <1>9 DEF Fds
  <2>2. l2 = 2
    <3>1. t1[0] # None /\ t1[1] # None /\ t1[2] = None
      BY <1>1, <1>4, <1>9, <2>1, NoneAssumption DEF Kinds
    <3> QED BY <1>2, <1>4, <3>1 DEF Fds
  <2>3. l3 > 2
    <3>1. t2[0] # None /\ t2[1] # None /\ t2[2] # None
      BY <1>1, <1>2, <1>4, <1>9, <2>1, <2>2, NoneAssumption DEF Kinds
    <3> QED BY <1>3, <3>1 DEF Fds
  <2>4. t3[1] = "in" /\ t3[2] = "out" /\ t3[l3] = "err"
    BY <1>1, <1>2, <1>3, <1>4, <2>1, <2>2, <2>3
  <2>5. d1[0] = "in" /\ d1[1] = "in" /\ d1[2] = "out" /\ d1[l3] = "err"
    BY <1>3, <1>4, <1>5, <2>1, <2>3, <2>4
  <2>6. d2[0] = "in" /\ d2[1] = "out" /\ d2[2] = "out" /\ d2[l3] = "err"
    BY <1>3, <1>4, <1>6, <2>2, <2>3, <2>5
  <2>7. d3[0] = "in" /\ d3[1] = "out" /\ d3[2] = "err" /\ d3[l3] = "err"
    BY <1>3, <1>4, <1>7, <2>3, <2>6
  <2>8. ASSUME NEW n \in Fds, n > 2, n # l3 PROVE d3[n] = t[n]
    BY <1>1, <1>2, <1>3, <1>5, <1>6, <1>7, <2>1, <2>2, <2>8
  <2>9. \A n \in Fds : n > 2 /\ t[n] # None => d3[n] = t[n]
    <3>1. t[l3] = None
      BY <1>1, <1>2, <1>3, <2>1, <2>2, <2>3
    <3> QED BY <2>8, <3>1
  <2>10. \A n \in Fds : d3[n] = "pid" => n > 2 /\ t[n] = "pid"
    <3> SUFFICES ASSUME NEW n \in Fds, d3[n] = "pid" PROVE n > 2 /\ t[n] = "pid" OBVIOUS
    <3>1. n # 0 /\ n # 1 /\ n # 2 /\ n # l3
      BY <2>7
    <3>2. n > 2
      BY <3>1, FdAssumption DEF Fds
    <3> QED BY <2>8, <3>1, <3>2
  <2> QED BY <2>7, <2>9, <2>10
<1> QED BY <1>7, <1>8, <1>9
-----------------------------------------------------------------------------
(* The inductive invariant: what a process knows of its own table, from    *)
(* its label on, and of the files, which rests on the lock.                *)

Opening    == {"lock", "write", "unlink", "mkfifo", "open_fifo"}
Complete   == {"close_all", "open_std", "serving"}       \* both files are open
WholeAt(p)  == {0, 1, 2} \subseteq started[p]
Owns(p)    == pc[p] = "lock" \/ Has(p)

\* There is room for the files that p still opens.
Room(p) ==
  /\ pc[p] = "open_pid" => \A n \in Fds : n > MaxFd - 5 => fd[p][n] = None
  /\ pc[p] \in Opening => \A n \in Fds : n > MaxFd - 4 => fd[p][n] = None
  /\ pc[p] \in {"close_all", "open_std"} => \A n \in Fds : n > MaxFd - 3 => fd[p][n] = None

\* The descriptors that the process remembers are its files, and stay out
\* of the way of the streams.
Remembers(p) ==
  /\ pc[p] = "off" => started[p] = {0, 1, 2}
  /\ pc[p] = "lock" => fd[p][fd_pid[p]] = "pid"
  /\ pc[p] = "open_pid" => \A n \in Fds : fd[p][n] # "pid"
  /\ WholeAt(p) =>
       /\ pc[p] \in Opening \cup {"open_pid", "close_all"} => \A n \in 0 .. 2 : fd[p][n] # None
       /\ Owns(p) => /\ fd_pid[p] > 2 /\ fd[p][fd_pid[p]] = "pid"
                     /\ \A n \in Fds : fd[p][n] = "pid" => n = fd_pid[p]
       /\ pc[p] \in Complete => /\ fd_fifo[p] > 2 /\ fd_fifo[p] # fd_pid[p]
                                 /\ fd[p][fd_fifo[p]] \in Daemons
       /\ pc[p] = "open_std" => fd[p][0] # None /\ fd[p][1] = None /\ fd[p][2] = None
       /\ pc[p] = "serving" => fd[p][0] = "in" /\ fd[p][1] = "out" /\ fd[p][2] = "err"

\* Whoever has taken the lock still has it.
Locked(p) == WholeAt(p) /\ Has(p) => lock = p

\* Nobody else has touched the files.
FilesAre(p) ==
  /\ Owns(p) => exists
  /\ Has(p) /\ pc[p] # "write" => pid = p
  /\ pc[p] = "mkfifo" => fifo = None
  /\ pc[p] \in Complete \cup {"open_fifo", "closing"} => fifo = p
  /\ pc[p] \in Complete => fd[p][fd_fifo[p]] = p

Own(p) == Room(p) /\ Remembers(p)
IInv   == /\ TypeOK
          /\ \A p \in Daemons : Own(p) /\ Locked(p)
          /\ Whole => \A p \in Daemons : FilesAre(p)

LEMMA InitIInv == Init => IInv
<1> SUFFICES ASSUME Init PROVE IInv OBVIOUS
<1>1. TypeOK
  <2>1. 0 \in Fds
    BY FdAssumption DEF Fds
  <2>2. pc \in [Daemons -> Labels]
    BY DEF Init, Labels
  <2>3. fd \in [Daemons -> [Fds -> {None} \cup Kinds \cup Daemons]]
    BY DEF Init
  <2>4. {0, 1, 2} \subseteq Fds
    BY FdAssumption DEF Fds
  <2> QED BY <2>1, <2>2, <2>3, <2>4 DEF Init, TypeOK
<1>2. ASSUME NEW p \in Daemons PROVE Own(p) /\ Locked(p) /\ FilesAre(p)
  BY DEF Init, Own, Room, Remembers, Locked, FilesAre, Owns, Has, Opening, Complete
<1> QED BY <1>1, <1>2 DEF IInv
-----------------------------------------------------------------------------
(* A step of p leaves everything else of the others alone.                 *)

Alone(p) ==
  /\ lock' \in {lock, p, None}
  /\ \A q \in Daemons \ {p} :
       /\ pc'[q] = pc[q] /\ fd'[q] = fd[q]
       /\ fd_pid'[q] = fd_pid[q] /\ fd_fifo'[q] = fd_fifo[q] /\ started'[q] = started[q]
       /\ lock = q => lock' = q

Types ==
  /\ pc \in [Daemons -> Labels] /\ fd \in [Daemons -> Tables]
  /\ fd_pid \in [Daemons -> Fds] /\ fd_fifo \in [Daemons -> Fds]
  /\ started \in [Daemons -> SUBSET Fds]
  /\ exists \in BOOLEAN /\ {pid, lock, fifo} \subseteq Daemons \cup {None}

Holds(p) == lock = p => Has(p) /\ fd[p][fd_pid[p]] = "pid"

\* What a step of p has to establish.
Result(p) == Types' /\ Holds(p)' /\ Own(p)' /\ Locked(p)' /\ (Whole => FilesAre(p)')

LEMMA TypeParts == TypeOK <=> Types /\ \A p \in Daemons : Holds(p)
<1>1. TypeOK => Types /\ \A p \in Daemons : Holds(p)
  BY NoneAssumption DEF TypeOK, Types, Holds, Tables
<1>2. Types /\ (\A p \in Daemons : Holds(p)) => TypeOK
  BY DEF TypeOK, Types, Holds, Tables
<1> QED BY <1>1, <1>2

LEMMA OthersKeep ==
  ASSUME NEW p \in Daemons, NEW q \in Daemons \ {p}, Alone(p), Own(q), Locked(q), Holds(q)
  PROVE  Own(q)' /\ Locked(q)' /\ Holds(q)'
<1>1. Room(q)'
  BY DEF Own, Room, Alone
<1>2. Remembers(q)'
  BY DEF Own, Remembers, Alone, WholeAt, Owns, Has
<1>3. Locked(q)'
  BY DEF Locked, Alone, WholeAt, Has
<1>4. Holds(q)'
  BY NoneAssumption DEF Holds, Alone, Has
<1> QED BY <1>1, <1>2, <1>3, <1>4 DEF Own

(* The effect of a step on the table and the lock.                         *)
LEMMA NewTable ==
  ASSUME Types, NEW p \in Daemons, NEW t \in Tables, Descriptors(p, t)
  PROVE  /\ fd' \in [Daemons -> Tables] /\ fd'[p] = t
         /\ \A q \in Daemons \ {p} : fd'[q] = fd[q] /\ (lock = q => lock' = q)
         /\ lock' \in {lock, None} /\ lock' \in Daemons \cup {None}
         /\ lock' = p => lock = p /\ \A n \in Fds : fd[p][n] = "pid" => t[n] = "pid"
         /\ (\A n \in Fds : fd[p][n] = "pid" => t[n] = "pid") => lock' = lock
BY NoneAssumption DEF Types, Descriptors

LEMMA NewLabel ==
  ASSUME Types, NEW p \in Daemons, NEW l \in Labels, Goto(p, l)
  PROVE  pc' \in [Daemons -> Labels] /\ pc'[p] = l /\ \A q \in Daemons \ {p} : pc'[q] = pc[q]
BY DEF Types, Goto

LEMMA NothingOpen == [n \in Fds |-> None] \in Tables
BY DEF Tables

(* Every process may end, in whatever state it is.                         *)
LEMMA EndStep ==
  ASSUME NEW p \in Daemons, IInv, NEW how \in Ended, End(p, how), UNCHANGED <<names, files>>
  PROVE  Alone(p) /\ Result(p)
<1> DEFINE none == [n \in Fds |-> None]
<1>1. Types /\ Holds(p)
  BY TypeParts DEF IInv
<1>2. none \in Tables /\ Goto(p, how) /\ Descriptors(p, none)
  BY NothingOpen DEF End
<1>3. pc' \in [Daemons -> Labels] /\ pc'[p] = how /\ \A q \in Daemons \ {p} : pc'[q] = pc[q]
  BY <1>1, <1>2, NewLabel DEF Labels
<1>4. /\ fd' \in [Daemons -> Tables] /\ fd'[p] = none
      /\ \A q \in Daemons \ {p} : fd'[q] = fd[q] /\ (lock = q => lock' = q)
      /\ lock' \in {lock, None} /\ lock' \in Daemons \cup {None}
      /\ lock' = p => lock = p /\ \A n \in Fds : fd[p][n] = "pid" => none[n] = "pid"
  <2> HIDE DEF none
  <2> QED BY <1>1, <1>2, NewTable
<1>5. Alone(p)
  BY <1>3, <1>4 DEF Alone, names
<1>6. Types'
  BY <1>1, <1>3, <1>4 DEF Types, names, files
<1>7. lock' # p
  <2> SUFFICES ASSUME lock' = p PROVE FALSE OBVIOUS
  <2>1. fd[p][fd_pid[p]] = "pid" /\ fd_pid[p] \in Fds
    BY <1>1, <1>4 DEF Holds, Types
  <2>2. none[fd_pid[p]] = None
    BY <2>1
  <2> QED BY <2>1, <2>2, <1>4, NoneAssumption DEF Kinds
<1>8. Own(p)' /\ Locked(p)' /\ FilesAre(p)'
  BY <1>3 DEF Own, Room, Remembers, Locked, FilesAre, Owns, Has, Opening, Complete, Ended
<1> QED BY <1>5, <1>6, <1>7, <1>8 DEF Result, Holds
-----------------------------------------------------------------------------
(* One lemma for each action                                               *)

LEMMA LaunchStep ==
  ASSUME NEW p \in Daemons, IInv, Launch(p) PROVE Alone(p) /\ Result(p)
<1>1. Types /\ Holds(p)
  BY TypeParts DEF IInv
<1>2. PICK S \in Starts : /\ started' = [started EXCEPT ![p] = S]
                          /\ Descriptors(p, [n \in Fds |-> IF n \in S THEN "other" ELSE None])
  BY DEF Launch
<1> DEFINE t == [n \in Fds |-> IF n \in S THEN "other" ELSE None]
<1>3. t \in Tables
  BY DEF Tables, Kinds
<1>4. \A n \in Fds : t[n] # "pid" /\ (n \in S => t[n] # None) /\ (n > MaxFd - 5 => t[n] = None)
  <2> SUFFICES ASSUME NEW n \in Fds
               PROVE t[n] # "pid" /\ (n \in S => t[n] # None) /\ (n > MaxFd - 5 => t[n] = None)
    OBVIOUS
  <2>1. n > MaxFd - 5 => n \notin S
    BY FdAssumption DEF Fds
  <2> QED BY <2>1, NoneAssumption DEF Kinds
<1>5. pc' \in [Daemons -> Labels] /\ pc'[p] = "open_pid" /\ \A q \in Daemons \ {p} : pc'[q] = pc[q]
  BY <1>1, NewLabel DEF Launch, Labels
<1>6. /\ fd' \in [Daemons -> Tables] /\ fd'[p] = t
      /\ \A q \in Daemons \ {p} : fd'[q] = fd[q] /\ (lock = q => lock' = q)
      /\ lock' \in {lock, None} /\ lock' \in Daemons \cup {None}
      /\ lock' = p => lock = p
  <2> HIDE DEF t
  <2> QED BY <1>1, <1>2, <1>3, NewTable DEF t
<1> HIDE DEF t
<1>7. Alone(p)
  <2>1. \A q \in Daemons \ {p} : started'[q] = started[q]
    BY <1>1, <1>2 DEF Types
  <2> QED BY <1>5, <1>6, <2>1 DEF Alone, Launch
<1>8. Types'
  <2>1. S \in SUBSET Fds
    BY FdAssumption DEF Fds
  <2>2. started' \in [Daemons -> SUBSET Fds]
    BY <1>1, <1>2, <2>1 DEF Types
  <2> QED BY <1>1, <1>5, <1>6, <2>2 DEF Types, Launch, files
<1>9. Holds(p)'
  <2>1. lock # p
    BY <1>1 DEF Holds, Launch, Has
  <2> QED BY <2>1, <1>6 DEF Holds
<1>10. started'[p] = S
  BY <1>1, <1>2 DEF Types
<1>11. Own(p)' /\ Locked(p)' /\ FilesAre(p)'
  <2>1. {0, 1, 2} \subseteq S => \A n \in 0 .. 2 : t[n] # None
    BY <1>4, FdAssumption DEF Fds
  <2>2. Room(p)'
    BY <1>4, <1>5, <1>6 DEF Room, Opening
  <2>3. Remembers(p)'
    BY <1>4, <1>5, <1>6, <1>10, <2>1 DEF Remembers, WholeAt, Owns, Has, Opening, Complete
  <2> QED BY <1>5, <2>2, <2>3 DEF Own, Locked, FilesAre, Owns, Has, Complete
<1> QED BY <1>7, <1>8, <1>9, <1>11 DEF Result

LEMMA OpenPidStep ==
  ASSUME NEW p \in Daemons, IInv, OpenPid(p) PROVE Alone(p) /\ Result(p)
<1> DEFINE t == fd[p]
           l == Lowest(t)
           u == Open(t, "pid")
<1>1. Types /\ Holds(p) /\ Room(p) /\ Remembers(p) /\ pc[p] = "open_pid"
  BY TypeParts DEF IInv, Own, OpenPid
<1>2. t \in Tables /\ "pid" \in Kinds /\ 5 \in 1 .. 5 /\ \A n \in Fds : n > MaxFd - 5 => t[n] = None
  BY <1>1 DEF Types, Room, Kinds
<1>3. /\ l \in Fds /\ t[l] = None /\ u \in Tables /\ u[l] = "pid"
      /\ \A n \in Fds : n # l => u[n] = t[n]
      /\ \A n \in Fds : n > MaxFd - 4 => u[n] = None
  <2>1. MaxFd - 5 + 1 = MaxFd - 4
    BY FdAssumption
  <2> HIDE DEF t
  <2> QED BY <1>2, <2>1, OpenTable
<1>4. pc' \in [Daemons -> Labels] /\ pc'[p] = "lock" /\ \A q \in Daemons \ {p} : pc'[q] = pc[q]
  BY <1>1, NewLabel DEF OpenPid, Labels
<1>5. /\ fd' \in [Daemons -> Tables] /\ fd'[p] = u
      /\ \A q \in Daemons \ {p} : fd'[q] = fd[q] /\ (lock = q => lock' = q)
      /\ lock' \in {lock, None} /\ lock' \in Daemons \cup {None}
      /\ lock' = p => lock = p
  <2>1. Descriptors(p, u)
    BY DEF OpenPid
  <2> HIDE DEF u
  <2> QED BY <1>1, <1>3, <2>1, NewTable
<1>6. /\ fd_pid' = [fd_pid EXCEPT ![p] = l]
      /\ UNCHANGED <<fd_fifo, started, pid, fifo>> /\ exists' = TRUE
  BY DEF OpenPid
<1> HIDE DEF t, l, u
<1>7. fd_pid' \in [Daemons -> Fds] /\ fd_pid'[p] = l /\ \A q \in Daemons \ {p} : fd_pid'[q] = fd_pid[q]
  BY <1>1, <1>3, <1>6 DEF Types
<1>8. Alone(p)
  BY <1>4, <1>5, <1>6, <1>7 DEF Alone
<1>9. Types'
  BY <1>1, <1>4, <1>5, <1>6, <1>7 DEF Types
<1>10. Holds(p)'
  BY <1>1, <1>5 DEF Holds, Has
<1>11. Room(p)'
  BY <1>3, <1>4, <1>5 DEF Room, Opening
<1>12. Remembers(p)'
  <2>1. ASSUME WholeAt(p) PROVE l > 2 /\ \A n \in 0 .. 2 : u[n] # None
    <3>1. \A n \in 0 .. 2 : t[n] # None
      BY <1>1, <2>1 DEF Remembers, t
    <3>2. l > 2
      BY <1>3, <3>1, FdAssumption DEF Fds
    <3> QED BY <1>3, <3>1, <3>2, FdAssumption DEF Fds
  <2>2. \A n \in Fds : u[n] = "pid" => n = l
    BY <1>1, <1>3 DEF Remembers, t
  <2>3. WholeAt(p)' <=> WholeAt(p)
    BY <1>6 DEF WholeAt
  <2> QED BY <1>3, <1>4, <1>5, <1>7, <2>1, <2>2, <2>3 DEF Remembers, Owns, Has, Opening, Complete
<1>13. Locked(p)' /\ FilesAre(p)'
  BY <1>4, <1>6 DEF Locked, FilesAre, Owns, Has, Complete
<1> QED BY <1>8, <1>9, <1>10, <1>11, <1>12, <1>13 DEF Result, Own

LEMMA LockStep ==
  ASSUME NEW p \in Daemons, IInv, Lock(p) PROVE Alone(p) /\ Result(p)
<1>1. Types /\ Holds(p) /\ Room(p) /\ Remembers(p) /\ pc[p] = "lock"
  BY TypeParts DEF IInv, Own, Lock
<1>2. CASE lock # None /\ End(p, "refused")
  BY <1>2, EndStep DEF Lock, Ended
<1>3. CASE lock = None /\ lock' = p /\ Goto(p, "write") /\ UNCHANGED fd
  <2>1. pc' \in [Daemons -> Labels] /\ pc'[p] = "write" /\ \A q \in Daemons \ {p} : pc'[q] = pc[q]
    BY <1>1, <1>3, NewLabel DEF Labels
  <2>2. UNCHANGED <<fd, fd_pid, fd_fifo, started, exists, pid, fifo>>
    BY <1>3 DEF Lock, names, files
  <2>3. Alone(p)
    BY <1>3, <2>1, <2>2, NoneAssumption DEF Alone
  <2>4. Types'
    BY <1>1, <1>3, <2>1, <2>2 DEF Types
  <2>5. Holds(p)'
    BY <1>1, <2>1, <2>2 DEF Holds, Has, Remembers
  <2>6. Own(p)'
    BY <1>1, <2>1, <2>2 DEF Own, Room, Remembers, WholeAt, Owns, Has, Opening, Complete
  <2>7. Locked(p)' /\ (Whole => FilesAre(p)')
    BY <1>1, <1>3, <2>1, <2>2 DEF Locked, FilesAre, Owns, Has, Complete, IInv
  <2> QED BY <2>3, <2>4, <2>5, <2>6, <2>7 DEF Result
<1> QED BY <1>2, <1>3 DEF Lock

(* The steps that write the pid file and make the FIFO, but for its        *)
(* opening, leave the table and the lock as they are.                      *)
LEMMA FileStep ==
  ASSUME NEW p \in Daemons, IInv, pc[p] \in {"write", "unlink", "mkfifo"},
         NEW l \in {"unlink", "mkfifo", "open_fifo"}, Goto(p, l),
         UNCHANGED <<fd, names, exists, lock>>, {pid', fifo'} \subseteq Daemons \cup {None}
  PROVE  /\ Alone(p) /\ Types' /\ Holds(p)' /\ Own(p)' /\ Locked(p)'
         /\ pc'[p] = l /\ (Whole => FilesAre(p))
<1>1. Types /\ Holds(p) /\ Room(p) /\ Remembers(p) /\ Locked(p) /\ (Whole => FilesAre(p))
  BY TypeParts DEF IInv, Own
<1>2. pc' \in [Daemons -> Labels] /\ pc'[p] = l /\ \A q \in Daemons \ {p} : pc'[q] = pc[q]
  BY <1>1, NewLabel DEF Labels
<1>3. UNCHANGED <<fd, fd_pid, fd_fifo, started, exists, lock>>
  BY DEF names
<1>4. Alone(p)
  BY <1>2, <1>3 DEF Alone
<1>5. Types'
  BY <1>1, <1>2, <1>3 DEF Types
<1>6. Has(p) /\ Has(p)'
  BY <1>2 DEF Has
<1>7. Holds(p)' /\ Locked(p)'
  BY <1>1, <1>3, <1>6 DEF Holds, Locked, WholeAt
<1>8. Own(p)'
  BY <1>1, <1>2, <1>3, <1>6 DEF Own, Room, Remembers, WholeAt, Owns, Opening, Complete
<1> QED BY <1>1, <1>2, <1>4, <1>5, <1>7, <1>8

LEMMA WriteStep ==
  ASSUME NEW p \in Daemons, IInv, Write(p) PROVE Alone(p) /\ Result(p)
<1>1. /\ pc[p] = "write" /\ Goto(p, "unlink") /\ pid' = p
      /\ UNCHANGED <<fd, names, exists, lock>> /\ fifo' = fifo /\ UNCHANGED exists
  BY DEF Write
<1>2. {pid', fifo'} \subseteq Daemons \cup {None}
  BY <1>1, TypeParts DEF IInv, Types
<1>3. /\ Alone(p) /\ Types' /\ Holds(p)' /\ Own(p)' /\ Locked(p)'
      /\ pc'[p] = "unlink" /\ (Whole => FilesAre(p))
  BY <1>1, <1>2, FileStep
<1>4. Whole => FilesAre(p)'
  BY <1>1, <1>3 DEF FilesAre, Owns, Has, Complete
<1> QED BY <1>3, <1>4 DEF Result

LEMMA UnlinkStep ==
  ASSUME NEW p \in Daemons, IInv, Unlink(p) PROVE Alone(p) /\ Result(p)
<1>1. /\ pc[p] = "unlink" /\ Goto(p, "mkfifo") /\ fifo' = None
      /\ UNCHANGED <<fd, names, exists, lock>> /\ pid' = pid /\ UNCHANGED exists
  BY DEF Unlink
<1>2. {pid', fifo'} \subseteq Daemons \cup {None}
  BY <1>1, TypeParts DEF IInv, Types
<1>3. /\ Alone(p) /\ Types' /\ Holds(p)' /\ Own(p)' /\ Locked(p)'
      /\ pc'[p] = "mkfifo" /\ (Whole => FilesAre(p))
  BY <1>1, <1>2, FileStep
<1>4. Whole => FilesAre(p)'
  BY <1>1, <1>3 DEF FilesAre, Owns, Has, Complete
<1> QED BY <1>3, <1>4 DEF Result

LEMMA MkfifoStep ==
  ASSUME NEW p \in Daemons, IInv, Mkfifo(p) PROVE Alone(p) /\ Result(p)
<1>1. CASE fifo # None /\ End(p, "refused") /\ UNCHANGED fifo
  BY <1>1, EndStep DEF Mkfifo, files, Ended
<1>2. CASE fifo = None /\ fifo' = p /\ Goto(p, "open_fifo") /\ UNCHANGED <<fd, lock>>
  <2>1. pc[p] = "mkfifo" /\ UNCHANGED <<fd, names, exists, lock>> /\ pid' = pid /\ UNCHANGED exists
    BY <1>2 DEF Mkfifo
  <2>2. {pid', fifo'} \subseteq Daemons \cup {None}
    BY <1>2, <2>1, TypeParts DEF IInv, Types
  <2>3. /\ Alone(p) /\ Types' /\ Holds(p)' /\ Own(p)' /\ Locked(p)'
        /\ pc'[p] = "open_fifo" /\ (Whole => FilesAre(p))
    BY <1>2, <2>1, <2>2, FileStep
  <2>4. Whole => FilesAre(p)'
    BY <1>2, <2>1, <2>3 DEF FilesAre, Owns, Has, Complete
  <2> QED BY <2>3, <2>4 DEF Result
<1> QED BY <1>1, <1>2 DEF Mkfifo

(* A step that changes the table but keeps the pid file where it is.       *)
LEMMA TableStep ==
  ASSUME NEW p \in Daemons, IInv, Has(p), NEW t \in Tables, Descriptors(p, t),
         NEW l \in Labels \ (Ended \cup {"exiting"}), Goto(p, l), Has(p)',
         UNCHANGED <<fd_pid, started, files>>,
         NEW f \in Fds, fd_fifo' = [fd_fifo EXCEPT ![p] = f],
         WholeAt(p) => t[fd_pid[p]] = "pid"
  PROVE  /\ Alone(p) /\ Types' /\ Holds(p)' /\ Locked(p)'
         /\ pc'[p] = l /\ fd'[p] = t /\ fd_fifo'[p] = f /\ fd_pid' = fd_pid
         /\ (WholeAt(p)' <=> WholeAt(p)) /\ UNCHANGED <<exists, pid, fifo>>
<1>1. Types /\ Holds(p) /\ Remembers(p) /\ Locked(p)
  BY TypeParts DEF IInv, Own
<1>2. pc' \in [Daemons -> Labels] /\ pc'[p] = l /\ \A q \in Daemons \ {p} : pc'[q] = pc[q]
  BY <1>1, NewLabel
<1>3. /\ fd' \in [Daemons -> Tables] /\ fd'[p] = t
      /\ \A q \in Daemons \ {p} : fd'[q] = fd[q] /\ (lock = q => lock' = q)
      /\ lock' \in {lock, None} /\ lock' \in Daemons \cup {None}
      /\ lock' = p => lock = p /\ \A n \in Fds : fd[p][n] = "pid" => t[n] = "pid"
      /\ (\A n \in Fds : fd[p][n] = "pid" => t[n] = "pid") => lock' = lock
  BY <1>1, NewTable
<1>4. fd_fifo' \in [Daemons -> Fds] /\ fd_fifo'[p] = f /\ \A q \in Daemons \ {p} : fd_fifo'[q] = fd_fifo[q]
  BY <1>1 DEF Types
<1>5. UNCHANGED <<fd_pid, started, exists, pid, fifo>>
  BY DEF files
<1>6. Alone(p)
  BY <1>2, <1>3, <1>4, <1>5 DEF Alone
<1>7. Types'
  BY <1>1, <1>2, <1>3, <1>4, <1>5 DEF Types
<1>8. Holds(p)'
  <2> SUFFICES ASSUME lock' = p PROVE fd'[p][fd_pid'[p]] = "pid"
    BY DEF Holds
  <2>1. fd[p][fd_pid[p]] = "pid" /\ fd_pid[p] \in Fds
    BY <1>1, <1>3 DEF Holds, Types
  <2> QED BY <1>3, <1>5, <2>1
<1>9. WholeAt(p)' <=> WholeAt(p)
  BY <1>5 DEF WholeAt
<1>10. Locked(p)'
  <2> SUFFICES ASSUME WholeAt(p) PROVE lock' = p
    BY <1>9 DEF Locked
  <2>1. \A n \in Fds : fd[p][n] = "pid" => n = fd_pid[p]
    BY <1>1 DEF Remembers, Owns
  <2>2. \A n \in Fds : fd[p][n] = "pid" => t[n] = "pid"
    BY <2>1
  <2> QED BY <1>1, <1>3, <2>2 DEF Locked
<1> QED BY <1>2, <1>3, <1>4, <1>5, <1>6, <1>7, <1>8, <1>9, <1>10

LEMMA OpenFifoStep ==
  ASSUME NEW p \in Daemons, IInv, OpenFifo(p) PROVE Alone(p) /\ Result(p)
<1>1. CASE fifo = None /\ End(p, "refused") /\ UNCHANGED fd_fifo
  BY <1>1, EndStep DEF OpenFifo, names, Ended
<1>2. CASE /\ fifo # None /\ Goto(p, "close_all") /\ Descriptors(p, Open(fd[p], fifo))
           /\ fd_fifo' = [fd_fifo EXCEPT ![p] = Lowest(fd[p])]
  <2> DEFINE t == fd[p]
             l == Lowest(t)
             u == Open(t, fifo)
  <2>1. /\ Types /\ Room(p) /\ Remembers(p) /\ pc[p] = "open_fifo" /\ (Whole => FilesAre(p))
        /\ UNCHANGED <<fd_pid, started, files>>
    BY TypeParts DEF IInv, Own, OpenFifo
  <2>2. /\ t \in Tables /\ fifo \in Kinds \cup Daemons /\ fifo \in Daemons /\ 4 \in 1 .. 5
        /\ \A n \in Fds : n > MaxFd - 4 => t[n] = None
    BY <1>2, <2>1 DEF Types, Room, Opening
  <2>3. /\ l \in Fds /\ t[l] = None /\ u \in Tables /\ u[l] = fifo
        /\ \A n \in Fds : n # l => u[n] = t[n]
        /\ \A n \in Fds : n > MaxFd - 3 => u[n] = None
    <3>1. MaxFd - 4 + 1 = MaxFd - 3
      BY FdAssumption
    <3> HIDE DEF t
    <3> QED BY <2>2, <3>1, OpenTable
  <2>4. ASSUME WholeAt(p)
        PROVE  /\ fd_pid[p] > 2 /\ fd_pid[p] # l /\ u[fd_pid[p]] = "pid" /\ l > 2
               /\ \A n \in 0 .. 2 : u[n] # None
               /\ \A n \in Fds : u[n] = "pid" => n = fd_pid[p]
    <3>1. /\ fd_pid[p] \in Fds /\ fd_pid[p] > 2 /\ t[fd_pid[p]] = "pid"
          /\ \A n \in 0 .. 2 : t[n] # None
          /\ \A n \in Fds : t[n] = "pid" => n = fd_pid[p]
      BY <2>1, <2>4 DEF Remembers, Owns, Has, Opening, Types
    <3>2. fd_pid[p] # l
      BY <2>3, <3>1, NoneAssumption DEF Kinds
    <3>3. l > 2
      BY <2>3, <3>1, FdAssumption DEF Fds
    <3>4. \A n \in 0 .. 2 : u[n] # None
      BY <2>3, <3>1, <3>3, FdAssumption DEF Fds
    <3>5. \A n \in Fds : u[n] = "pid" => n = fd_pid[p]
      BY <2>2, <2>3, <3>1, NoneAssumption DEF Kinds
    <3> QED BY <2>3, <3>1, <3>2, <3>3, <3>4, <3>5
  <2> HIDE DEF t, l, u
  <2>5. /\ Alone(p) /\ Types' /\ Holds(p)' /\ Locked(p)'
        /\ pc'[p] = "close_all" /\ fd'[p] = u /\ fd_fifo'[p] = l /\ fd_pid' = fd_pid
        /\ (WholeAt(p)' <=> WholeAt(p)) /\ UNCHANGED <<exists, pid, fifo>>
    <3>1. Has(p) /\ "close_all" \in Labels \ (Ended \cup {"exiting"})
      BY <2>1 DEF Has, Labels, Ended
    <3>2. Has(p)'
      BY <1>2, <2>1, NewLabel, <3>1 DEF Has
    <3>3. Goto(p, "close_all") /\ Descriptors(p, u) /\ fd_fifo' = [fd_fifo EXCEPT ![p] = l]
      BY <1>2 DEF t, l, u
    <3>4. WholeAt(p) => u[fd_pid[p]] = "pid"
      BY <2>4
    <3> QED BY <2>1, <2>3, <3>1, <3>2, <3>3, <3>4, TableStep
  <2>6. Room(p)'
    BY <2>3, <2>5 DEF Room, Opening
  <2>7. Remembers(p)'
    BY <2>2, <2>3, <2>4, <2>5 DEF Remembers, Owns, Has, Opening, Complete
  <2>8. Whole => FilesAre(p)'
    BY <2>1, <2>3, <2>5 DEF FilesAre, Owns, Has, Complete
  <2> QED BY <2>5, <2>6, <2>7, <2>8 DEF Result, Own
<1> QED BY <1>1, <1>2 DEF OpenFifo

LEMMA CloseAllStep ==
  ASSUME NEW p \in Daemons, IInv, CloseAll(p) PROVE Alone(p) /\ Result(p)
<1> DEFINE u == [n \in Fds |-> IF n \in {0, fd_pid[p], fd_fifo[p]} THEN fd[p][n] ELSE None]
<1>1. /\ Types /\ Room(p) /\ Remembers(p) /\ pc[p] = "close_all" /\ (Whole => FilesAre(p))
      /\ UNCHANGED <<fd_pid, fd_fifo, started, files>> /\ Goto(p, "open_std") /\ Descriptors(p, u)
  BY TypeParts DEF IInv, Own, CloseAll, names
<1>2. /\ fd[p] \in Tables /\ fd_pid[p] \in Fds /\ fd_fifo[p] \in Fds
      /\ fd_fifo' = [fd_fifo EXCEPT ![p] = fd_fifo[p]]
  BY <1>1 DEF Types
<1>3. {0, 1, 2} \subseteq Fds
  BY FdAssumption DEF Fds
<1>4. /\ u \in Tables /\ u[0] = fd[p][0]
      /\ u[fd_pid[p]] = fd[p][fd_pid[p]] /\ u[fd_fifo[p]] = fd[p][fd_fifo[p]]
      /\ \A n \in Fds : u[n] # fd[p][n] => u[n] = None
      /\ \A n \in Fds : n \notin {0, fd_pid[p], fd_fifo[p]} => u[n] = None
  BY <1>2, <1>3 DEF Tables
<1> HIDE DEF u
<1>5. ASSUME WholeAt(p)
      PROVE  /\ fd_pid[p] > 2 /\ u[fd_pid[p]] = "pid" /\ fd_fifo[p] > 2 /\ fd_fifo[p] # fd_pid[p]
             /\ u[fd_fifo[p]] \in Daemons /\ u[0] # None /\ u[1] = None /\ u[2] = None
             /\ \A n \in Fds : u[n] = "pid" => n = fd_pid[p]
  <2>1. /\ fd_pid[p] > 2 /\ fd[p][fd_pid[p]] = "pid" /\ fd_fifo[p] > 2 /\ fd_fifo[p] # fd_pid[p]
        /\ fd[p][fd_fifo[p]] \in Daemons /\ fd[p][0] # None
        /\ \A n \in Fds : fd[p][n] = "pid" => n = fd_pid[p]
    BY <1>1, <1>5 DEF Remembers, Owns, Has, Complete
  <2>2. u[1] = None /\ u[2] = None
    BY <1>3, <1>4, <2>1
  <2>3. \A n \in Fds : u[n] = "pid" => n = fd_pid[p]
    BY <1>4, <2>1, NoneAssumption DEF Kinds
  <2> QED BY <1>4, <2>1, <2>2, <2>3
<1>6. /\ Alone(p) /\ Types' /\ Holds(p)' /\ Locked(p)'
      /\ pc'[p] = "open_std" /\ fd'[p] = u /\ fd_fifo'[p] = fd_fifo[p] /\ fd_pid' = fd_pid
      /\ (WholeAt(p)' <=> WholeAt(p)) /\ UNCHANGED <<exists, pid, fifo>>
  <2>1. Has(p) /\ "open_std" \in Labels \ (Ended \cup {"exiting"})
    BY <1>1 DEF Has, Labels, Ended
  <2>2. Has(p)'
    BY <1>1, NewLabel, <2>1 DEF Has
  <2>3. WholeAt(p) => u[fd_pid[p]] = "pid"
    BY <1>5
  <2> QED BY <1>1, <1>2, <1>4, <2>1, <2>2, <2>3, TableStep
<1>7. Room(p)'
  <2>1. \A n \in Fds : n > MaxFd - 3 => u[n] = None
    BY <1>1, <1>4 DEF Room
  <2> QED BY <2>1, <1>6 DEF Room, Opening
<1>8. Remembers(p)'
  BY <1>5, <1>6 DEF Remembers, Owns, Has, Opening, Complete
<1>9. Whole => FilesAre(p)'
  BY <1>1, <1>4, <1>6 DEF FilesAre, Owns, Has, Complete
<1> QED BY <1>6, <1>7, <1>8, <1>9 DEF Result, Own

LEMMA OpenStdStep ==
  ASSUME NEW p \in Daemons, IInv, OpenStd(p) PROVE Alone(p) /\ Result(p)
<1> DEFINE t == fd[p]
           u == Std(t)
<1>1. /\ Types /\ Room(p) /\ Remembers(p) /\ pc[p] = "open_std" /\ (Whole => FilesAre(p))
      /\ UNCHANGED <<fd_pid, fd_fifo, started, files>> /\ Goto(p, "serving") /\ Descriptors(p, u)
  BY TypeParts DEF IInv, Own, OpenStd, names
<1>2. /\ t \in Tables /\ fd_pid[p] \in Fds /\ fd_fifo[p] \in Fds
      /\ fd_fifo' = [fd_fifo EXCEPT ![p] = fd_fifo[p]]
      /\ \A n \in Fds : n > MaxFd - 3 => t[n] = None
  BY <1>1 DEF Types, Room
<1>3. /\ u \in Tables
      /\ t[0] # None /\ t[1] = None /\ t[2] = None =>
           /\ u[0] = "in" /\ u[1] = "out" /\ u[2] = "err"
           /\ \A n \in Fds : n > 2 /\ t[n] # None => u[n] = t[n]
           /\ \A n \in Fds : u[n] = "pid" => n > 2 /\ t[n] = "pid"
  <2> HIDE DEF t
  <2> QED BY <1>2, StdTable
<1> HIDE DEF u
<1>4. ASSUME WholeAt(p)
      PROVE  /\ fd_pid[p] > 2 /\ u[fd_pid[p]] = "pid" /\ fd_fifo[p] > 2 /\ fd_fifo[p] # fd_pid[p]
             /\ u[fd_fifo[p]] = t[fd_fifo[p]] /\ t[fd_fifo[p]] \in Daemons
             /\ u[0] = "in" /\ u[1] = "out" /\ u[2] = "err"
             /\ \A n \in Fds : u[n] = "pid" => n = fd_pid[p]
  <2>1. /\ fd_pid[p] > 2 /\ t[fd_pid[p]] = "pid" /\ fd_fifo[p] > 2 /\ fd_fifo[p] # fd_pid[p]
        /\ t[fd_fifo[p]] \in Daemons /\ t[0] # None /\ t[1] = None /\ t[2] = None
        /\ \A n \in Fds : t[n] = "pid" => n = fd_pid[p]
    BY <1>1, <1>4 DEF Remembers, Owns, Has, Complete
  <2>2. u[fd_pid[p]] = "pid"
    BY <1>2, <1>3, <2>1, NoneAssumption DEF Kinds
  <2>3. u[fd_fifo[p]] = t[fd_fifo[p]]
    BY <1>2, <1>3, <2>1, NoneAssumption
  <2> QED BY <1>3, <2>1, <2>2, <2>3
<1>5. /\ Alone(p) /\ Types' /\ Holds(p)' /\ Locked(p)'
      /\ pc'[p] = "serving" /\ fd'[p] = u /\ fd_fifo'[p] = fd_fifo[p] /\ fd_pid' = fd_pid
      /\ (WholeAt(p)' <=> WholeAt(p)) /\ UNCHANGED <<exists, pid, fifo>>
  <2>1. Has(p) /\ "serving" \in Labels \ (Ended \cup {"exiting"})
    BY <1>1 DEF Has, Labels, Ended
  <2>2. Has(p)'
    BY <1>1, NewLabel, <2>1 DEF Has
  <2>3. WholeAt(p) => u[fd_pid[p]] = "pid"
    BY <1>4
  <2> QED BY <1>1, <1>2, <1>3, <2>1, <2>2, <2>3, TableStep
<1>6. Room(p)'
  BY <1>5 DEF Room, Opening
<1>7. Remembers(p)'
  BY <1>4, <1>5 DEF Remembers, Owns, Has, Opening, Complete
<1>8. Whole => FilesAre(p)'
  <2>1. Whole => WholeAt(p)
    BY DEF Whole, WholeAt
  <2> QED BY <1>1, <1>4, <1>5, <2>1 DEF FilesAre, Owns, Has, Complete
<1> QED BY <1>5, <1>6, <1>7, <1>8 DEF Result, Own

LEMMA ShutdownStep ==
  ASSUME NEW p \in Daemons, IInv, Shutdown(p) PROVE Alone(p) /\ Result(p)
<1> DEFINE u == [fd[p] EXCEPT ![fd_fifo[p]] = None]
<1>1. /\ Types /\ Remembers(p) /\ pc[p] = "serving" /\ (Whole => FilesAre(p))
      /\ UNCHANGED <<fd_pid, fd_fifo, started, files>> /\ Goto(p, "closing") /\ Descriptors(p, u)
  BY TypeParts DEF IInv, Own, Shutdown, names
<1>2. /\ fd[p] \in Tables /\ fd_pid[p] \in Fds /\ fd_fifo[p] \in Fds
      /\ fd_fifo' = [fd_fifo EXCEPT ![p] = fd_fifo[p]]
  BY <1>1 DEF Types
<1>3. /\ u \in Tables /\ u[fd_fifo[p]] = None
      /\ \A n \in Fds : n # fd_fifo[p] => u[n] = fd[p][n]
  BY <1>2 DEF Tables
<1> HIDE DEF u
<1>4. ASSUME WholeAt(p)
      PROVE  /\ fd_pid[p] > 2 /\ u[fd_pid[p]] = "pid"
             /\ \A n \in Fds : u[n] = "pid" => n = fd_pid[p]
  <2>1. /\ fd_pid[p] > 2 /\ fd[p][fd_pid[p]] = "pid" /\ fd_fifo[p] # fd_pid[p]
        /\ \A n \in Fds : fd[p][n] = "pid" => n = fd_pid[p]
    BY <1>1, <1>4 DEF Remembers, Owns, Has, Complete
  <2> QED BY <1>2, <1>3, <2>1, NoneAssumption DEF Kinds
<1>5. /\ Alone(p) /\ Types' /\ Holds(p)' /\ Locked(p)'
      /\ pc'[p] = "closing" /\ fd'[p] = u /\ fd_fifo'[p] = fd_fifo[p] /\ fd_pid' = fd_pid
      /\ (WholeAt(p)' <=> WholeAt(p)) /\ UNCHANGED <<exists, pid, fifo>>
  <2>1. Has(p) /\ "closing" \in Labels \ (Ended \cup {"exiting"})
    BY <1>1 DEF Has, Labels, Ended
  <2>2. Has(p)'
    BY <1>1, NewLabel, <2>1 DEF Has
  <2>3. WholeAt(p) => u[fd_pid[p]] = "pid"
    BY <1>4
  <2> QED BY <1>1, <1>2, <1>3, <2>1, <2>2, <2>3, TableStep
<1>6. Own(p)'
  BY <1>4, <1>5 DEF Own, Room, Remembers, Owns, Has, Opening, Complete
<1>7. Whole => FilesAre(p)'
  BY <1>1, <1>5 DEF FilesAre, Owns, Has, Complete
<1> QED BY <1>5, <1>6, <1>7 DEF Result

LEMMA ClosePidStep ==
  ASSUME NEW p \in Daemons, IInv, ClosePid(p) PROVE Alone(p) /\ Result(p)
<1> DEFINE u == [fd[p] EXCEPT ![fd_pid[p]] = None]
<1>1. /\ Types /\ Holds(p) /\ Descriptors(p, u) /\ Goto(p, "exiting")
      /\ UNCHANGED <<fd_pid, fd_fifo, started, exists, pid, fifo>>
  BY TypeParts DEF IInv, ClosePid, names, files
<1>2. u \in Tables /\ fd_pid[p] \in Fds /\ u[fd_pid[p]] = None
  BY <1>1 DEF Types, Tables
<1> HIDE DEF u
<1>3. pc' \in [Daemons -> Labels] /\ pc'[p] = "exiting" /\ \A q \in Daemons \ {p} : pc'[q] = pc[q]
  BY <1>1, NewLabel DEF Labels
<1>4. /\ fd' \in [Daemons -> Tables] /\ fd'[p] = u
      /\ \A q \in Daemons \ {p} : fd'[q] = fd[q] /\ (lock = q => lock' = q)
      /\ lock' \in {lock, None} /\ lock' \in Daemons \cup {None}
      /\ lock' = p => lock = p /\ \A n \in Fds : fd[p][n] = "pid" => u[n] = "pid"
  BY <1>1, <1>2, NewTable
<1>5. Alone(p)
  BY <1>1, <1>3, <1>4 DEF Alone
<1>6. Types'
  BY <1>1, <1>3, <1>4 DEF Types
<1>7. lock' # p
  BY <1>1, <1>2, <1>4, NoneAssumption DEF Holds, Kinds
<1>8. Own(p)' /\ Locked(p)' /\ FilesAre(p)'
  BY <1>3 DEF Own, Room, Remembers, Locked, FilesAre, Owns, Has, Opening, Complete
<1> QED BY <1>5, <1>6, <1>7, <1>8 DEF Result, Holds

LEMMA StepResult ==
  ASSUME NEW p \in Daemons, IInv, Step(p) PROVE Alone(p) /\ Result(p)
<1>1. CASE Exit(p)
  BY <1>1, EndStep DEF Exit, Ended
<1>2. CASE Kill(p)
  BY <1>2, EndStep DEF Kill, Ended
<1> QED BY <1>1, <1>2, LaunchStep, OpenPidStep, LockStep, WriteStep, UnlinkStep, MkfifoStep,
           OpenFifoStep, CloseAllStep, OpenStdStep, ShutdownStep, ClosePidStep DEF Step

(* A process that was not whole at its start does not become whole.        *)
LEMMA WholeStays ==
  ASSUME NEW p \in Daemons, IInv, Step(p), Alone(p), Whole' PROVE Whole
<1>1. CASE started' = started
  BY <1>1 DEF Whole
<1>2. CASE Launch(p)
  <2>1. started[p] = {0, 1, 2}
    BY <1>2 DEF IInv, Own, Remembers, Launch
  <2> QED BY <2>1 DEF Whole, Alone
<1> QED BY <1>1, <1>2 DEF Step, OpenPid, Lock, Write, Unlink, Mkfifo, OpenFifo, CloseAll,
           OpenStd, Shutdown, ClosePid, Exit, Kill, names

(* Whoever writes one of the files has the lock, so the others have not.   *)
LEMMA FilesKeep ==
  ASSUME NEW p \in Daemons, NEW q \in Daemons \ {p}, IInv, Whole, Step(p), Alone(p)
  PROVE  FilesAre(q)'
<1>1. FilesAre(q) /\ Locked(p) /\ Locked(q) /\ WholeAt(p) /\ WholeAt(q)
  BY DEF IInv, Whole, WholeAt
<1>2. exists => exists'
  BY DEF Step, Launch, OpenPid, Lock, Write, Unlink, Mkfifo, OpenFifo, CloseAll,
         OpenStd, Shutdown, ClosePid, Exit, Kill, files
<1>3. UNCHANGED <<pid, fifo>> \/ Has(p)
  BY DEF Step, Launch, OpenPid, Lock, Write, Unlink, Mkfifo, OpenFifo, CloseAll,
         OpenStd, Shutdown, ClosePid, Exit, Kill, files, Has
<1>4. pc'[q] = pc[q] /\ fd'[q] = fd[q] /\ fd_fifo'[q] = fd_fifo[q]
  BY DEF Alone
<1>5. CASE UNCHANGED <<pid, fifo>>
  BY <1>1, <1>2, <1>4, <1>5 DEF FilesAre, Owns, Has
<1>6. CASE Has(p)
  <2>1. ~ Has(q)
    BY <1>1, <1>6 DEF Locked
  <2> QED BY <1>1, <1>2, <1>4, <2>1 DEF FilesAre, Owns, Has, Complete
<1> QED BY <1>3, <1>5, <1>6

LEMMA StepIInv == IInv /\ [Next]_vars => IInv'
<1> SUFFICES ASSUME IInv, [Next]_vars PROVE IInv' OBVIOUS
<1>1. CASE UNCHANGED vars
  <2>1. UNCHANGED <<pc, fd, fd_pid, fd_fifo, started, exists, pid, fifo, lock>>
    BY <1>1 DEF vars, names, files
  <2>2. TypeOK' /\ (Whole' => Whole)
    BY <2>1 DEF IInv, TypeOK, Has, Whole
  <2>3. ASSUME NEW p \in Daemons PROVE Own(p)' /\ Locked(p)' /\ (FilesAre(p) => FilesAre(p)')
    <3>1. Own(p) /\ Locked(p)
      BY DEF IInv
    <3> QED BY <2>1, <3>1 DEF Own, Room, Remembers, Locked, FilesAre, Owns, Has, WholeAt
  <2> QED BY <2>2, <2>3 DEF IInv
<1>2. CASE Next
  <2>1. PICK p \in Daemons : Step(p)
    BY <1>2 DEF Next
  <2>2. Alone(p) /\ Result(p)
    BY <2>1, StepResult
  <2>3. ASSUME NEW q \in Daemons PROVE Own(q)' /\ Locked(q)' /\ Holds(q)'
    <3>1. CASE q = p
      BY <2>2, <3>1 DEF Result
    <3>2. CASE q # p
      <4>1. Own(q) /\ Locked(q) /\ Holds(q)
        BY TypeParts DEF IInv
      <4> QED BY <2>2, <3>2, <4>1, OthersKeep
    <3> QED BY <3>1, <3>2
  <2>4. TypeOK'
    <3>1. Types' /\ \A q \in Daemons : Holds(q)'
      BY <2>2, <2>3 DEF Result
    <3>2. (Types /\ \A q \in Daemons : Holds(q))' => TypeOK'
      BY NoneAssumption DEF TypeOK, Types, Holds, Tables
    <3> QED BY <3>1, <3>2
  <2>5. Whole' => \A q \in Daemons : FilesAre(q)'
    <3> SUFFICES ASSUME Whole', NEW q \in Daemons PROVE FilesAre(q)' OBVIOUS
    <3>1. Whole
      BY <2>1, <2>2, WholeStays
    <3>2. CASE q = p
      BY <2>2, <3>1, <3>2 DEF Result
    <3>3. CASE q # p
      BY <2>1, <2>2, <3>1, <3>3, FilesKeep
    <3> QED BY <3>2, <3>3
  <2> QED BY <2>3, <2>4, <2>5 DEF IInv
<1> QED BY <1>1, <1>2
-----------------------------------------------------------------------------
(* Every state has the types of the code's variables, and whoever has the  *)
(* lock on the pid file has the file open under the number it remembers.   *)
THEOREM TypeCorrect == Spec => []TypeOK
<1>1. IInv => TypeOK
  BY DEF IInv
<1> QED BY <1>1, InitIInv, StepIInv, PTL DEF Spec

(* lock_pid_file keeps a second daemon out: from the lock to the close of  *)
(* the pid file in shutdown there is one daemon at most.                   *)
THEOREM OnlyOne == Spec => []OneDaemon
<1>1. IInv => OneDaemon
  <2> SUFFICES ASSUME IInv, Whole, NEW p \in Daemons, NEW q \in Daemons, Has(p), Has(q)
               PROVE p = q
    BY DEF OneDaemon
  <2> QED BY DEF IInv, Locked, Whole, WholeAt
<1> QED BY <1>1, InitIInv, StepIInv, PTL DEF Spec

(* A daemon that serves is the one that the pid file names, reads the FIFO *)
(* at the path, and has the streams where open_in_out_err should put them. *)
THEOREM Reached == Spec => []ServerReached
<1>1. IInv => ServerReached
  <2> SUFFICES ASSUME IInv, Whole, NEW p \in Daemons, pc[p] = "serving"
               PROVE /\ exists /\ pid = p /\ fifo = p
                     /\ fd[p][fd_fifo[p]] = p
                     /\ fd[p][0] = "in" /\ fd[p][1] = "out" /\ fd[p][2] = "err"
    BY DEF ServerReached
  <2>1. FilesAre(p) /\ Remembers(p) /\ WholeAt(p)
    BY DEF IInv, Own, Whole, WholeAt
  <2> QED BY <2>1 DEF FilesAre, Remembers, Owns, Has, Complete
<1> QED BY <1>1, InitIInv, StepIInv, PTL DEF Spec

(* create_and_lock_pid_file and create_and_open_fifo turn a start away     *)
(* only while somebody else has the lock.                                  *)
THEOREM Refused == Spec => RefusedOnlyIfTaken
<1> DEFINE A == Whole' => \A p \in Daemons :
                  pc'[p] = "refused" /\ pc[p] # "refused" => \E q \in Daemons \ {p} : Has(q)
<1>1. ASSUME IInv, [Next]_vars PROVE [A]_vars
  <2> SUFFICES ASSUME Next, Whole', NEW p \in Daemons, pc'[p] = "refused", pc[p] # "refused"
               PROVE \E q \in Daemons \ {p} : Has(q)
    BY <1>1
  <2>1. PICK r \in Daemons : Step(r)
    BY DEF Next
  <2>2. Alone(r) /\ Whole
    BY <1>1, <2>1, StepResult, WholeStays
  <2>3. p = r
    BY <2>2 DEF Alone
  <2>4. FilesAre(p) /\ Types /\ (lock \in Daemons => Holds(lock))
    BY <1>1, <2>2, TypeParts DEF IInv
  <2>5. \/ Lock(p) /\ lock # None
        \/ Mkfifo(p) /\ fifo # None
        \/ OpenFifo(p) /\ fifo = None
    BY <2>1, <2>3, <2>4 DEF Step, Launch, OpenPid, Lock, Write, Unlink, Mkfifo, OpenFifo, CloseAll,
       OpenStd, Shutdown, ClosePid, Exit, Kill, End, Goto, Types
  <2>6. CASE Lock(p) /\ lock # None
    <3>1. lock \in Daemons /\ Has(lock)
      BY <2>4, <2>6 DEF Types, Holds
    <3>2. lock # p
      BY <2>6, <3>1 DEF Lock, Has
    <3> QED BY <3>1, <3>2
  <2>7. CASE Mkfifo(p) /\ fifo # None
    BY <2>4, <2>7 DEF FilesAre, Mkfifo
  <2>8. CASE OpenFifo(p) /\ fifo = None
    BY <2>4, <2>8, NoneAssumption DEF FilesAre, OpenFifo
  <2> QED BY <2>5, <2>6, <2>7, <2>8
<1>2. Spec => [][A]_vars
  BY <1>1, InitIInv, StepIInv, PTL DEF Spec
<1> QED BY <1>2 DEF RefusedOnlyIfTaken
=============================================================================
