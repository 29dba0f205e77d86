---------------------------- MODULE BackupProofs ----------------------------
(***************************************************************************)
(* The table of inotify instances and the backups, for any tree of paths,  *)
(* any number of instances and any changes by the users.                   *)
(***************************************************************************)
EXTENDS Backup, FiniteSetTheorems, SequenceTheorems, WellFoundedInduction, TLAPS

Links == Elements \cup {Null}

(* The types of the table.  Every open descriptor is the value of one live *)
(* element, which is InstancesMatch.                                       *)
TableTypes ==
  /\ hash \in [Keys -> Lists]
  /\ list \in [Lists -> [head : Links, tail : Links, size : Nat]]
  /\ elem \in [Elements -> [key : Keys \cup {Null}, value : Nat, next : Links, prev : Links]]
  /\ live \subseteq Elements /\ fds \subseteq Instances
  /\ \A e \in live : elem[e].key \in Keys
  /\ fds = {elem[e].value : e \in live}
  /\ \A e, f \in live : elem[e].value = elem[f].value => e = f

(* The elements of list b are those of the sequence s, in this order.      *)
Chain(b, s) ==
  /\ list[b].size = Len(s)
  /\ list[b].head = IF Len(s) = 0 THEN Null ELSE s[1]
  /\ list[b].tail = IF Len(s) = 0 THEN Null ELSE s[Len(s)]
  /\ \A i \in 1 .. Len(s) : /\ s[i] \in live /\ hash[elem[s[i]].key] = b
                            /\ elem[s[i]].next = IF i = Len(s) THEN Null ELSE s[i + 1]
                            /\ elem[s[i]].prev = IF i = 1 THEN Null ELSE s[i - 1]
  /\ \A i, j \in 1 .. Len(s) : s[i] = s[j] => i = j

Member(e, s) == \E i \in 1 .. Len(s) : s[i] = e

Chains(c) ==
  /\ \A b \in Lists : Chain(b, c[b])
  /\ \A e \in live : Member(e, c[hash[elem[e].key]])

\* x comes before y in a list.
Precedes(c, x, y) == \E b \in Lists : \E i, j \in 1 .. Len(c[b]) : i < j /\ c[b][i] = x /\ c[b][j] = y
-----------------------------------------------------------------------------
LEMMA Constants ==
  /\ Lists = 0 .. TableSize - 1 /\ TableSize \in Nat \ {0} /\ 0 \in Lists
  /\ Null \notin Elements /\ Null \notin Keys
  /\ MaxWatches \in Nat /\ Elements = 1 .. MaxWatches /\ Instances = 1 .. MaxWatches
  /\ IsFiniteSet(Elements) /\ Cardinality(Elements) = MaxWatches
<1>1. /\ Lists = 0 .. TableSize - 1 /\ TableSize \in Nat \ {0}
      /\ Null \notin Elements /\ Null \notin Keys
      /\ MaxWatches \in Nat /\ Elements = 1 .. MaxWatches /\ Instances = 1 .. MaxWatches
  BY TableAssumption, BoundsAssumption DEF Lists, Instances
<1>2. IsFiniteSet(1 .. MaxWatches) /\ Cardinality(1 .. MaxWatches) = MaxWatches
  BY <1>1, FS_Interval
<1> QED BY <1>1, <1>2

LEMMA Smallest ==
  ASSUME NEW S, S \subseteq Nat, S # {}
  PROVE  \E x \in S : \A y \in S : x <= y
<1>1. PICK x \in S : \A y \in S : <<y, x>> \notin OpToRel(<, Nat)
  BY NatLessThanWellFounded, WFMin, Zenon
<1>2. \A y \in S : x <= y
  <2> SUFFICES ASSUME NEW y \in S PROVE x <= y
    OBVIOUS
  <2>1. x \in Nat /\ y \in Nat
    OBVIOUS
  <2>2. ~ (y < x)
    BY <1>1, <2>1 DEF OpToRel
  <2> QED BY <2>1, <2>2
<1> QED BY <1>2

(* A walk along step that starts at the first element of s and meets the   *)
(* next one after each is s.                                               *)
LEMMA WalkIs ==
  ASSUME NEW b, NEW start, NEW step, NEW s \in Seq(Elements), list[b].size = Len(s),
         Len(s) > 0 => s[1] = start,
         \A i \in 2 .. Len(s) : s[i] = step[s[i - 1]]
  PROVE  Walk(b, start, step) = s
<1> DEFINE n == Len(s)
           at == CHOOSE at : at = [i \in 1 .. n |-> IF i = 1 THEN start ELSE IF at[i - 1] = Null THEN Null ELSE step[at[i - 1]]]
<1>1. n \in Nat /\ s \in [1 .. n -> Elements] /\ s = [i \in 1 .. n |-> s[i]]
  BY LenProperties
<1>2. \A i \in 1 .. n : s[i] # Null
  BY <1>1, Constants
<1>3. ASSUME NEW i \in 1 .. n
      PROVE  s[i] = IF i = 1 THEN start ELSE IF s[i - 1] = Null THEN Null ELSE step[s[i - 1]]
  <2>1. CASE i = 1
    BY <1>1, <2>1
  <2>2. CASE i # 1
    <3>1. i \in 2 .. n /\ i - 1 \in 1 .. n
      BY <1>1, <2>2
    <3> QED BY <1>2, <2>2, <3>1
  <2> QED BY <2>1, <2>2
<1>4. s = [i \in 1 .. n |-> IF i = 1 THEN start ELSE IF s[i - 1] = Null THEN Null ELSE step[s[i - 1]]]
  BY <1>1, <1>3, Zenon
<1>5. at = [i \in 1 .. n |-> IF i = 1 THEN start ELSE IF at[i - 1] = Null THEN Null ELSE step[at[i - 1]]]
  BY <1>4, Zenon
<1>6. Walk(b, start, step) = [i \in 1 .. n |-> at[i]]
  BY DEF Walk
<1> HIDE DEF at, n
<1>7. ASSUME NEW i \in 1 .. n, at[i] # s[i] PROVE FALSE
  <2> DEFINE D == {k \in 1 .. n : at[k] # s[k]}
  <2>1. D \subseteq Nat /\ D # {}
    BY <1>1, <1>7
  <2>2. PICK k \in D : \A j \in D : k <= j
    <3> HIDE DEF D
    <3> QED BY <2>1, Smallest
  <2>3. at[k] = IF k = 1 THEN start ELSE IF at[k - 1] = Null THEN Null ELSE step[at[k - 1]]
    BY <1>5, <2>2, Zenon
  <2>4. s[k] = IF k = 1 THEN start ELSE IF s[k - 1] = Null THEN Null ELSE step[s[k - 1]]
    BY <1>3, <2>2
  <2>5. k # 1 => at[k - 1] = s[k - 1]
    BY <1>1, <2>2
  <2> QED BY <2>2, <2>3, <2>4, <2>5
<1>8. [i \in 1 .. n |-> at[i]] = [i \in 1 .. n |-> s[i]]
  BY <1>7
<1> QED BY <1>1, <1>6, <1>8

LEMMA Directions ==
  ASSUME TableTypes, NEW b \in Lists, NEW s \in Seq(Elements), Chain(b, s)
  PROVE  /\ Forward(b) = s
         /\ Backward(b) = Sx!Reverse(s)
<1> DEFINE n == Len(s)
<1>1. n \in Nat /\ s \in [1 .. n -> Elements] /\ list[b].size = n
  BY LenProperties DEF Chain
<1>2. \A i \in 1 .. n : NextOf[s[i]] = elem[s[i]].next /\ PrevOf[s[i]] = elem[s[i]].prev
  BY <1>1 DEF NextOf, PrevOf
<1>3. Forward(b) = s
  <2>1. n > 0 => s[1] = list[b].head
    <3>1. list[b].head = IF n = 0 THEN Null ELSE s[1]
      BY Zenon DEF Chain
    <3> QED BY <3>1
  <2>2. ASSUME NEW i \in 2 .. n PROVE s[i] = NextOf[s[i - 1]]
    <3>1. i - 1 \in 1 .. n /\ i - 1 # n /\ (i - 1) + 1 = i
      BY <1>1
    <3> QED BY <1>2, <3>1 DEF Chain
  <2> QED BY <1>1, <2>1, <2>2, WalkIs DEF Forward
<1>4. Backward(b) = Sx!Reverse(s)
  <2> DEFINE r == [i \in 1 .. n |-> s[(n - i) + 1]]
  <2>1. r \in Seq(Elements) /\ Len(r) = n
    <3>1. \A i \in 1 .. n : s[(n - i) + 1] \in Elements
      BY <1>1
    <3>2. r \in [1 .. n -> Elements]
      BY <3>1
    <3> QED BY <1>1, <3>2, SeqDef, LenProperties
  <2>2. n > 0 => r[1] = list[b].tail
    <3>1. list[b].tail = IF n = 0 THEN Null ELSE s[n]
      BY Zenon DEF Chain
    <3>2. n > 0 => n # 0 /\ 1 \in 1 .. n /\ (n - 1) + 1 = n
      BY <1>1
    <3> QED BY <3>1, <3>2
  <2>3. ASSUME NEW i \in 2 .. n PROVE r[i] = PrevOf[r[i - 1]]
    <3> DEFINE j == (n - (i - 1)) + 1
    <3>1. j \in 1 .. n /\ j # 1 /\ j - 1 = (n - i) + 1 /\ i \in 1 .. n /\ i - 1 \in 1 .. n
      BY <1>1
    <3>2. r[i] = s[j - 1] /\ r[i - 1] = s[j]
      BY <3>1
    <3> QED BY <1>2, <3>1, <3>2 DEF Chain
  <2>4. r = Sx!Reverse(s)
    BY DEF Sx!Reverse
  <2> HIDE DEF r
  <2> QED BY <1>1, <2>1, <2>2, <2>3, <2>4, WalkIs DEF Backward
<1> QED BY <1>3, <1>4
-----------------------------------------------------------------------------
(* The inductive invariant                                                 *)

Kinds  == {"create", "modify", "delete_self"}
Events == Kinds \X Paths
Calls  == [dir : Dirs, todo : SUBSET Paths, gone : BOOLEAN]

Linked == \E c \in [Lists -> Seq(Elements)] : Chains(c)

(* The source is a tree.                                                   *)
Source ==
  /\ exists \subseteq Paths \cup {Root} /\ Root \in exists
  /\ \A p \in exists \ {Root} : Parent[p] \in exists
  /\ stale \subseteq exists \cap Regular
  /\ watch \in [Instances -> {"live", "dead", "none"}]
  /\ queue \in [Instances -> Seq(Events)]

Control ==
  /\ pc \in {"idle", "open", "watch", "list", "scan", "copy", "inc", "handle", "handled"}
  /\ mode \in {CLASSIC, INOTIFY} /\ config \in BOOLEAN /\ endless \in BOOLEAN
  /\ failed \in BOOLEAN /\ merged \in BOOLEAN
  /\ copying \in Regular \cup {Null}

(* The place in the walk over the table, and what is known of the event.   *)
Walking ==
  /\ list_no \in Lists
  /\ cur # Null => cur \in live /\ hash[elem[cur].key] = list_no
  /\ pc = "idle" => cur = Null
  /\ pc \in {"handle", "handled"} => cur # Null /\ event \in Events
  /\ pc = "handled" => Above(event[2]) \ {Root} \subseteq made

(* The calls are in different directories, which the version has.          *)
Stack ==
  /\ stack \in Seq(Calls)
  /\ pc \in {"idle", "inc", "handle", "handled"} => stack = <<>>
  /\ pc \in {"open", "watch", "list", "scan"} => stack # <<>>
  /\ pc = "copy" /\ stack = <<>> => cur # Null
  /\ \A i \in 1 .. Len(stack) : /\ stack[i].dir \in made \cup {Root}
                                /\ stack[i].todo \subseteq Entries(stack[i].dir)
  /\ \A i, j \in 1 .. Len(stack) : stack[i].dir = stack[j].dir => i = j

Version == made \subseteq Paths /\ VersionClosed

(* What was there all the time and is missing in a directory that the      *)
(* version has is still to be met by the call in this directory.           *)
Owed(k) ==
  \E i \in 1 .. Len(stack) :
     /\ stack[i].dir = Parent[k]
     /\ k \in stack[i].todo \/ (i = Len(stack) /\ pc \in {"open", "watch", "list"})

Complete ==
  /\ kept \subseteq exists \ {Root}
  /\ \A k \in kept : Parent[k] \in kept \cup {Root}
  /\ pc \in {"inc", "handle", "handled"} \/ cur # Null => kept = {}
  /\ \A i \in 1 .. Len(stack) : stack[i].gone => Entries(stack[i].dir) \cap kept = {}
  /\ \A k \in kept \ made : Parent[k] \in made \cup {Root} => Owed(k)

IInv == TableTypes /\ Linked /\ Source /\ Control /\ Walking /\ Stack /\ Version /\ Complete
-----------------------------------------------------------------------------
(* The table                                                               *)

LEMMA Entry1 ==
  ASSUME TableTypes, NEW c \in [Lists -> Seq(Elements)], Chains(c), NEW b \in Lists
  PROVE  /\ Len(c[b]) \in Nat /\ c[b] \in [1 .. Len(c[b]) -> Elements]
         /\ \A i \in 1 .. Len(c[b]) : c[b][i] \in live
<1>1. c[b] \in Seq(Elements) /\ Chain(b, c[b])
  BY DEF Chains
<1> QED BY <1>1, LenProperties DEF Chain

(* What the links say of the lists follows from their sequences.           *)
LEMMA LinksFollow ==
  ASSUME TableTypes, Linked
  PROVE  LinksAgree
<1>1. PICK c \in [Lists -> Seq(Elements)] : Chains(c)
  BY DEF Linked
<1>2. ASSUME NEW b \in Lists
      PROVE  /\ Forward(b) = c[b] /\ Backward(b) = Sx!Reverse(c[b]) /\ Chain(b, c[b])
             /\ Len(c[b]) \in Nat /\ c[b] \in [1 .. Len(c[b]) -> Elements]
  <2>1. c[b] \in Seq(Elements) /\ Chain(b, c[b])
    BY <1>1 DEF Chains
  <2> QED BY <1>1, <2>1, Directions, Entry1
<1>3. ASSUME NEW b \in Lists
      PROVE  /\ Sx!IsInjective(Forward(b)) /\ Sx!ToSet(Forward(b)) \subseteq live
             /\ Backward(b) = Sx!Reverse(Forward(b))
             /\ list[b].size > 0 => elem[list[b].tail].next = Null /\ elem[list[b].head].prev = Null
             /\ list[b].size = 0 => list[b] = Empty
  <2> DEFINE s == c[b]
  <2>1. Forward(b) = s /\ Backward(b) = Sx!Reverse(s) /\ DOMAIN s = 1 .. Len(s) /\ Len(s) \in Nat
    BY <1>2
  <2>2. /\ list[b].size = Len(s)
        /\ list[b].head = IF Len(s) = 0 THEN Null ELSE s[1]
        /\ list[b].tail = IF Len(s) = 0 THEN Null ELSE s[Len(s)]
        /\ \A i \in 1 .. Len(s) : /\ s[i] \in live
                                  /\ elem[s[i]].next = IF i = Len(s) THEN Null ELSE s[i + 1]
                                  /\ elem[s[i]].prev = IF i = 1 THEN Null ELSE s[i - 1]
        /\ \A i, j \in 1 .. Len(s) : s[i] = s[j] => i = j
    BY <1>2 DEF Chain
  <2> HIDE DEF s
  <2>3. Sx!IsInjective(Forward(b)) /\ Sx!ToSet(Forward(b)) \subseteq live
    <3> DEFINE t == Forward(b)
    <3>1. DOMAIN t = 1 .. Len(s) /\ t = s
      BY <2>1
    <3> HIDE DEF t
    <3>2. Sx!IsInjective(t)
      BY <2>2, <3>1 DEF Sx!IsInjective
    <3>3. Sx!ToSet(t) \subseteq live
      <4>1. \A i \in DOMAIN t : t[i] \in live
        BY <2>2, <3>1
      <4> QED BY <4>1 DEF Sx!ToSet
    <3> QED BY <3>2, <3>3 DEF t
  <2>4. list[b].size > 0 => elem[list[b].tail].next = Null /\ elem[list[b].head].prev = Null
    <3> SUFFICES ASSUME Len(s) > 0
                 PROVE  elem[list[b].tail].next = Null /\ elem[list[b].head].prev = Null
      BY <2>2
    <3>1. Len(s) # 0 /\ 1 \in 1 .. Len(s) /\ Len(s) \in 1 .. Len(s)
      BY <2>1
    <3> QED BY <2>2, <3>1
  <2>5. list[b].size = 0 => list[b] = Empty
    <3>1. list[b] \in [head : Links, tail : Links, size : Nat]
      BY DEF TableTypes
    <3>2. list[b] = [head |-> list[b].head, tail |-> list[b].tail, size |-> list[b].size]
      BY <3>1
    <3> QED BY <2>2, <3>2 DEF Empty
  <2> QED BY <2>1, <2>3, <2>4, <2>5
<1>4. ASSUME NEW e \in live PROVE e \in Sx!ToSet(Forward(hash[elem[e].key]))
  <2>1. hash[elem[e].key] \in Lists /\ Member(e, c[hash[elem[e].key]])
    BY <1>1 DEF TableTypes, Chains
  <2>2. /\ Forward(hash[elem[e].key]) = c[hash[elem[e].key]]
        /\ DOMAIN c[hash[elem[e].key]] = 1 .. Len(c[hash[elem[e].key]])
    BY <1>2, <2>1
  <2> QED BY <2>1, <2>2 DEF Member, Sx!ToSet
<1> QED BY <1>3, <1>4 DEF LinksAgree

LEMMA InstancesFollow ==
  ASSUME TableTypes
  PROVE  InstancesMatch
<1> DEFINE f == [e \in live |-> elem[e].value]
<1>1. IsFiniteSet(live)
  BY Constants, FS_Subset DEF TableTypes
<1>2. f \in Bijection(live, fds)
  <2>1. f \in [live -> fds] /\ \A v \in fds : \E e \in live : f[e] = v
    BY DEF TableTypes
  <2>2. \A d, e \in DOMAIN f : f[d] = f[e] => d = e
    BY DEF TableTypes
  <2> HIDE DEF f
  <2> QED BY <2>1, <2>2 DEF Bijection, Injection, Surjection, IsInjective
<1>3. Cardinality(fds) = Cardinality(live)
  BY <1>1, <1>2, FS_Bijection DEF ExistsBijection
<1> QED BY <1>3 DEF TableTypes, InstancesMatch

LEMMA ListFits ==
  ASSUME TableTypes, Linked, NEW b \in Lists
  PROVE  list[b].size \in 0 .. Cardinality(live)
<1>1. PICK c \in [Lists -> Seq(Elements)] : Chains(c)
  BY DEF Linked
<1>2. IsFiniteSet(live) /\ Cardinality(live) \in Nat
  BY Constants, FS_Subset, FS_CardinalityType DEF TableTypes
<1> DEFINE n == Len(c[b])
<1>3. list[b].size = n /\ n \in Nat
  BY <1>1, Entry1 DEF Chains, Chain
<1>4. c[b] \in Injection(1 .. n, live)
  <2>1. \A i, j \in 1 .. n : c[b][i] = c[b][j] => i = j
    BY <1>1 DEF Chains, Chain
  <2>2. c[b] \in [1 .. n -> live]
    BY <1>1, Entry1
  <2> QED BY <2>1, <2>2 DEF Injection, IsInjective
<1>5. Cardinality(1 .. n) <= Cardinality(live)
  BY <1>2, <1>4, FS_Injection
<1>6. Cardinality(1 .. n) = n
  <2>1. n \in Int /\ 1 \in Int
    BY <1>3
  <2>2. Cardinality(1 .. n) = IF 1 > n THEN 0 ELSE n - 1 + 1
    BY <2>1, FS_Interval
  <2> QED BY <1>3, <2>2
<1> QED BY <1>2, <1>3, <1>5, <1>6

(* As many instances are open as there are elements.                       *)
LEMMA ElementLeft ==
  ASSUME TableTypes, fds # Instances
  PROVE  Elements \ live # {}
<1> SUFFICES ASSUME live = Elements PROVE FALSE
  BY DEF TableTypes
<1>1. Cardinality(fds) = Cardinality(live)
  BY InstancesFollow DEF InstancesMatch
<1>2. Cardinality(fds) = Cardinality(Instances) /\ IsFiniteSet(Instances) /\ fds \subseteq Instances
  BY <1>1, Constants DEF TableTypes
<1> QED BY <1>2, FS_Subset

(* An element is put at the end of its list.                               *)
LEMMA SetValueStep ==
  ASSUME TableTypes, NEW c \in [Lists -> Seq(Elements)], Chains(c),
         NEW e \in Elements \ live, NEW k \in Keys, NEW v \in Instances \ fds, SetValue(e, k, v)
  PROVE  /\ TableTypes'
         /\ \E d \in [Lists -> Seq(Elements)] :
              Chains(d)' /\ \A x, y : Precedes(d, x, y) => Precedes(c, x, y) \/ y = e
<1>1. PICK b \in Lists : b = hash[k]
  BY DEF TableTypes
<1> DEFINE s == c[b]
           n == Len(s)
           t == Append(s, e)
           d == [c EXCEPT ![b] = t]
           new == [key |-> k, value |-> v, next |-> Null, prev |-> list[b].tail]
           LT == [head : Links, tail : Links, size : Nat]
           ET == [key : Keys \cup {Null}, value : Nat, next : Links, prev : Links]
<1>2. /\ hash' = hash /\ live' = live \cup {e} /\ fds' = fds \cup {v}
      /\ s \in Seq(Elements) /\ n \in Nat /\ s \in [1 .. n -> Elements] /\ Chain(b, s)
  BY <1>1, Entry1 DEF SetValue, Chains
<1>3. /\ t \in Seq(Elements) /\ Len(t) = n + 1 /\ t[n + 1] = e
      /\ \A i \in 1 .. n : t[i] = s[i]
  BY <1>2, AppendProperties
<1>4. d \in [Lists -> Seq(Elements)] /\ d[b] = t /\ \A a \in Lists \ {b} : d[a] = c[a]
  BY <1>2, <1>3
<1>5. /\ list[b].size = n
      /\ list[b].head = IF n = 0 THEN Null ELSE s[1]
      /\ list[b].tail = IF n = 0 THEN Null ELSE s[n]
      /\ \A i \in 1 .. n : /\ s[i] \in live /\ hash[elem[s[i]].key] = b
                           /\ elem[s[i]].next = IF i = n THEN Null ELSE s[i + 1]
                           /\ elem[s[i]].prev = IF i = 1 THEN Null ELSE s[i - 1]
      /\ \A i, j \in 1 .. n : s[i] = s[j] => i = j
  BY <1>2 DEF Chain
<1>6. /\ list[b].tail \in Links /\ v \in Nat /\ e \in Elements /\ e # Null
      /\ n > 0 => n \in 1 .. n /\ list[b].tail = s[n] /\ s[n] \in live /\ s[n] # e
  <2>1. n > 0 => n # 0 /\ n \in 1 .. n
    BY <1>2
  <2>2. list[b].tail \in Links
    BY DEF TableTypes
  <2>3. v \in Nat /\ e \in Elements /\ e # Null
    BY Constants
  <2> QED BY <1>5, <2>1, <2>2, <2>3
<1> HIDE DEF s, n, t, d, new, LT, ET
<1>7. /\ list \in [Lists -> LT] /\ elem \in [Elements -> ET] /\ hash \in [Keys -> Lists]
      /\ live \subseteq Elements /\ fds \subseteq Instances
      /\ \A x \in live : elem[x].key \in Keys
      /\ fds = {elem[x].value : x \in live}
      /\ \A x, y \in live : elem[x].value = elem[y].value => x = y
  <2>1. list \in [Lists -> LT] /\ elem \in [Elements -> ET]
    BY DEF TableTypes, LT, ET
  <2> QED BY <2>1, Zenon DEF TableTypes
<1>8. /\ list'[b].head = IF n = 0 THEN e ELSE s[1]
      /\ list'[b].tail = e /\ list'[b].size = n + 1
      /\ \A a \in Lists \ {b} : list'[a] = list[a]
      /\ list' \in [Lists -> LT]
  <2>1. [head |-> e, tail |-> e, size |-> 1] \in LT /\ list[b] \in LT
    BY <1>6, <1>7 DEF LT, Links
  <2>2. CASE n = 0
    <3>1. list' = [list EXCEPT ![b] = [head |-> e, tail |-> e, size |-> 1]]
      BY <1>1, <1>5, <2>2 DEF SetValue
    <3> QED BY <1>7, <2>1, <2>2, <3>1
  <2>3. CASE n # 0
    <3>1. list' = [list EXCEPT ![b].tail = e, ![b].size = @ + 1]
      BY <1>1, <1>5, <2>3 DEF SetValue
    <3>2. list'[b] = [list[b] EXCEPT !.tail = e, !.size = n + 1] /\ \A a \in Lists \ {b} : list'[a] = list[a]
      BY <1>5, <1>7, <3>1
    <3>3. list'[b].head = s[1] /\ list'[b].tail = e /\ list'[b].size = n + 1
      <4>1. list[b].head = s[1]
        BY <1>5, <2>3
      <4> QED BY <2>1, <3>2, <4>1 DEF LT
    <3>4. list'[b] \in LT
      <4>1. n + 1 \in Nat /\ e \in Links /\ list[b] \in LT
        BY <1>2, <1>6, <2>1 DEF Links
      <4>2. [list[b] EXCEPT !.tail = e, !.size = n + 1] \in LT
        BY <4>1 DEF LT
      <4> QED BY <3>2, <4>2
    <3>5. list' \in [Lists -> LT]
      BY <1>7, <3>1, <3>2, <3>4
    <3> QED BY <2>3, <3>2, <3>3, <3>5
  <2> QED BY <2>2, <2>3
<1>9. /\ elem' \in [Elements -> ET] /\ elem'[e] = new
      /\ n > 0 => elem'[s[n]] = [elem[s[n]] EXCEPT !.next = e]
      /\ \A x \in Elements \ {e} : (n > 0 => x # s[n]) => elem'[x] = elem[x]
  <2>1. new \in ET
    BY <1>6 DEF new, ET, Links
  <2>2. CASE n = 0
    <3>1. elem' = [elem EXCEPT ![e] = new]
      BY <1>1, <1>5, <2>2 DEF SetValue, new
    <3> QED BY <1>6, <1>7, <2>1, <2>2, <3>1
  <2>3. CASE n # 0
    <3>1. elem' = [elem EXCEPT ![e] = new, ![s[n]].next = e]
      <4>1. elem' = [elem EXCEPT ![e] = new, ![list[b].tail].next = e]
        BY <1>1, <1>5, <2>3 DEF SetValue, new
      <4> QED BY <1>5, <2>3, <4>1
    <3>2. s[n] \in Elements /\ s[n] # e /\ e \in Elements /\ n > 0
      BY <1>2, <1>6, <1>7, <2>3
    <3>3. [elem[s[n]] EXCEPT !.next = e] \in ET
      <4>1. elem[s[n]] \in ET /\ e \in Links
        BY <1>7, <3>2 DEF Links
      <4> QED BY <4>1 DEF ET
    <3> QED BY <1>7, <2>1, <3>1, <3>2, <3>3
  <2> QED BY <2>2, <2>3
<1>10. \A x \in live : /\ elem'[x].key = elem[x].key /\ elem'[x].value = elem[x].value
                       /\ elem'[x].prev = elem[x].prev
                       /\ (n > 0 => x # s[n]) => elem'[x].next = elem[x].next
  <2> SUFFICES ASSUME NEW x \in live
               PROVE  /\ elem'[x].key = elem[x].key /\ elem'[x].value = elem[x].value
                      /\ elem'[x].prev = elem[x].prev
                      /\ (n > 0 => x # s[n]) => elem'[x].next = elem[x].next
    OBVIOUS
  <2>1. x \in Elements /\ x # e /\ elem[x] \in ET
    BY <1>7
  <2> QED BY <1>9, <2>1 DEF ET
<1>11. elem'[e].key = k /\ elem'[e].value = v /\ elem'[e].next = Null /\ elem'[e].prev = list[b].tail
  BY <1>9 DEF new
<1>12. n > 0 => elem'[s[n]].next = e
  BY <1>6, <1>7, <1>9 DEF ET
<1>13. TableTypes'
  <2>1. live' \subseteq Elements /\ fds' \subseteq Instances
    BY <1>2, <1>7
  <2>2. \A x \in live' : elem'[x].key \in Keys
    BY <1>2, <1>7, <1>10, <1>11
  <2>3. fds' = {elem'[x].value : x \in live'}
    <3>1. {elem'[x].value : x \in live} = fds
      <4>1. \A x \in live : elem'[x].value = elem[x].value
        BY <1>10
      <4>2. {elem'[x].value : x \in live} = {elem[x].value : x \in live}
        BY <4>1
      <4> QED BY <1>7, <4>2
    <3>2. {elem'[x].value : x \in live \cup {e}} = {elem'[x].value : x \in live} \cup {elem'[e].value}
      OBVIOUS
    <3> QED BY <1>2, <1>11, <3>1, <3>2
  <2>4. \A x, y \in live' : elem'[x].value = elem'[y].value => x = y
    <3>1. \A x \in live : elem'[x].value = elem[x].value /\ elem[x].value \in fds
      BY <1>7, <1>10
    <3>2. \A x \in live : elem'[x].value # elem'[e].value
      BY <1>11, <3>1
    <3> QED BY <1>2, <1>7, <3>1, <3>2
  <2> QED BY <1>2, <1>7, <1>8, <1>9, <2>1, <2>2, <2>3, <2>4 DEF TableTypes, LT, ET
<1>14. ASSUME NEW a \in Lists, a # b PROVE Chain(a, d[a])'
  <2> DEFINE r == c[a]
             m == Len(r)
  <2>1. d[a] = r /\ m \in Nat /\ list'[a] = list[a] /\ \A i \in 1 .. m : r[i] \in live
    BY <1>4, <1>8, <1>14, Entry1
  <2>2. /\ list[a].size = m
        /\ list[a].head = IF m = 0 THEN Null ELSE r[1]
        /\ list[a].tail = IF m = 0 THEN Null ELSE r[m]
        /\ \A i \in 1 .. m : /\ r[i] \in live /\ hash[elem[r[i]].key] = a
                             /\ elem[r[i]].next = IF i = m THEN Null ELSE r[i + 1]
                             /\ elem[r[i]].prev = IF i = 1 THEN Null ELSE r[i - 1]
        /\ \A i, j \in 1 .. m : r[i] = r[j] => i = j
    BY DEF Chains, Chain
  <2> HIDE DEF r
  <2>3. \A i \in 1 .. m : n > 0 => r[i] # s[n]
    <3>1. n > 0 => hash[elem[s[n]].key] = b
      BY <1>5, <1>6
    <3>2. \A i \in 1 .. m : hash[elem[r[i]].key] = a
      BY <2>2
    <3> QED BY <1>14, <3>1, <3>2
  <2>4. ASSUME NEW i \in 1 .. m
        PROVE  /\ r[i] \in live' /\ hash'[elem'[r[i]].key] = a
               /\ elem'[r[i]].next = IF i = m THEN Null ELSE r[i + 1]
               /\ elem'[r[i]].prev = IF i = 1 THEN Null ELSE r[i - 1]
    <3>1. r[i] \in live /\ r[i] \in live'
      BY <1>2, <2>1
    <3>2. /\ elem'[r[i]].key = elem[r[i]].key /\ elem'[r[i]].prev = elem[r[i]].prev
          /\ elem'[r[i]].next = elem[r[i]].next
      BY <1>10, <2>3, <3>1
    <3> QED BY <1>2, <2>2, <3>1, <3>2
  <2> QED BY <2>1, <2>2, <2>4 DEF Chain
<1>15. Chain(b, d[b])'
  <2>1. ASSUME NEW i \in 1 .. n + 1
        PROVE  /\ t[i] \in live' /\ hash'[elem'[t[i]].key] = b
               /\ elem'[t[i]].next = IF i = n + 1 THEN Null ELSE t[i + 1]
               /\ elem'[t[i]].prev = IF i = 1 THEN Null ELSE t[i - 1]
    <3>1. CASE i = n + 1
      <4>1. n > 0 => i # 1 /\ i - 1 = n /\ n \in 1 .. n
        BY <1>2, <3>1
      <4>2. n = 0 => i = 1
        BY <3>1
      <4>3. n > 0 \/ n = 0
        BY <1>2
      <4>4. t[i] = e /\ e \in live'
        BY <1>2, <1>3, <3>1
      <4>5. hash'[elem'[t[i]].key] = b
        BY <1>1, <1>2, <1>11, <4>4
      <4>6. elem'[t[i]].prev = IF i = 1 THEN Null ELSE t[i - 1]
        BY <1>3, <1>5, <1>6, <1>11, <4>1, <4>2, <4>3, <4>4
      <4> QED BY <1>11, <3>1, <4>4, <4>5, <4>6
    <3>2. CASE i # n + 1
      <4>1. i \in 1 .. n /\ n > 0 /\ (i # 1 => i - 1 \in 1 .. n) /\ (i # n => i + 1 \in 1 .. n)
        BY <1>2, <3>2
      <4>2. t[i] = s[i] /\ s[i] \in live /\ (i = n => t[i + 1] = e)
        BY <1>3, <1>5, <4>1
      <4>3. i # n => s[i] # s[n] /\ t[i + 1] = s[i + 1]
        BY <1>3, <1>5, <1>6, <4>1
      <4>4. i # 1 => t[i - 1] = s[i - 1]
        BY <1>3, <4>1
      <4>5. elem'[t[i]].next = t[i + 1]
        BY <1>5, <1>10, <1>12, <4>1, <4>2, <4>3
      <4> QED BY <1>2, <1>5, <1>10, <3>2, <4>1, <4>2, <4>4, <4>5
    <3> QED BY <3>1, <3>2
  <2>2. \A i, j \in 1 .. n + 1 : t[i] = t[j] => i = j
    <3>1. \A i \in 1 .. n : t[i] # e /\ i # n + 1
      BY <1>2, <1>3, <1>5
    <3>2. \A i \in 1 .. n + 1 : i \in 1 .. n \/ i = n + 1
      BY <1>2
    <3> QED BY <1>3, <1>5, <3>1, <3>2
  <2>3. /\ list'[b].size = n + 1 /\ n + 1 # 0
        /\ list'[b].head = t[1] /\ list'[b].tail = t[n + 1]
    <3>1. n = 0 \/ 1 \in 1 .. n
      BY <1>2
    <3>2. t[1] = IF n = 0 THEN e ELSE s[1]
      BY <1>2, <1>3, <3>1
    <3> QED BY <1>2, <1>3, <1>8, <3>2
  <2> QED BY <1>3, <1>4, <2>1, <2>2, <2>3 DEF Chain
<1>16. ASSUME NEW x \in live' PROVE Member(x, d[hash'[elem'[x].key]])
  <2>1. CASE x = e
    <3>1. hash'[elem'[x].key] = b
      BY <1>1, <1>2, <1>11, <2>1
    <3>2. n + 1 \in 1 .. n + 1
      BY <1>2
    <3> QED BY <1>3, <1>4, <2>1, <3>1, <3>2 DEF Member
  <2>2. CASE x # e
    <3>1. x \in live /\ hash'[elem'[x].key] = hash[elem[x].key] /\ hash[elem[x].key] \in Lists
      BY <1>2, <1>7, <1>10, <2>2
    <3>2. Member(x, c[hash[elem[x].key]])
      BY <3>1 DEF Chains
    <3>3. CASE hash[elem[x].key] = b
      <4>1. PICK i \in 1 .. n : s[i] = x
        BY <3>2, <3>3 DEF Member, s, n
      <4>2. i \in 1 .. n + 1
        BY <1>2
      <4> QED BY <1>3, <1>4, <3>1, <3>3, <4>1, <4>2 DEF Member
    <3>4. CASE hash[elem[x].key] # b
      BY <1>4, <3>1, <3>2, <3>4
    <3> QED BY <3>3, <3>4
  <2> QED BY <2>1, <2>2
<1>17. Chains(d)'
  BY <1>14, <1>15, <1>16 DEF Chains, Member
<1>18. ASSUME NEW x, NEW y, Precedes(d, x, y) PROVE Precedes(c, x, y) \/ y = e
  <2>1. PICK a \in Lists : \E j, l \in 1 .. Len(d[a]) : j < l /\ d[a][j] = x /\ d[a][l] = y
    BY <1>18 DEF Precedes
  <2>2. PICK j \in 1 .. Len(d[a]), l \in 1 .. Len(d[a]) : j < l /\ d[a][j] = x /\ d[a][l] = y
    BY <2>1
  <2>3. CASE a # b
    <3>1. d[a] = c[a]
      BY <1>4, <2>3
    <3> QED BY <2>2, <3>1 DEF Precedes
  <2>4. CASE a = b
    <3>1. j \in 1 .. n + 1 /\ l \in 1 .. n + 1 /\ j < l /\ t[j] = x /\ t[l] = y
      BY <1>3, <1>4, <2>2, <2>4
    <3>2. l = n + 1 \/ (l \in 1 .. n /\ j \in 1 .. n)
      BY <1>2, <3>1
    <3>3. l \in 1 .. n /\ j \in 1 .. n => s[j] = x /\ s[l] = y
      BY <1>3, <3>1
    <3> QED BY <1>3, <3>1, <3>2, <3>3 DEF Precedes, s, n
  <2> QED BY <2>3, <2>4
<1> QED BY <1>4, <1>13, <1>17, <1>18

(* No other element changes but in its links.                              *)
LEMMA SetValueKeeps ==
  ASSUME TableTypes, NEW e \in Elements \ live, NEW k \in Keys, NEW v \in Instances \ fds, SetValue(e, k, v)
  PROVE  /\ hash' = hash /\ live' = live \cup {e} /\ fds' = fds \cup {v}
         /\ elem'[e].key = k /\ elem'[e].value = v
         /\ \A y \in live : elem'[y].key = elem[y].key /\ elem'[y].value = elem[y].value
<1> DEFINE l == list[hash[k]].tail
           new == [key |-> k, value |-> v, next |-> Null, prev |-> l]
           ET == [key : Keys \cup {Null}, value : Nat, next : Links, prev : Links]
<1>1. elem' = [elem EXCEPT ![e] = new] \/ elem' = [elem EXCEPT ![e] = new, ![l].next = e]
  BY DEF SetValue
<1>2. elem \in [Elements -> ET] /\ new.key = k /\ new.value = v /\ l \in Links
  BY DEF TableTypes
<1>3. new \in ET
  BY Constants, <1>2 DEF Links
<1>4. elem'[e].key = k /\ elem'[e].value = v
  <2> HIDE DEF new, l
  <2>1. elem'[e] = new \/ elem'[e] = [new EXCEPT !.next = e]
    BY <1>1, <1>2
  <2> QED BY <1>2, <1>3, <2>1
<1>5. ASSUME NEW y \in live PROVE elem'[y].key = elem[y].key /\ elem'[y].value = elem[y].value
  <2>1. y \in Elements /\ y # e /\ elem[y] \in ET
    BY <1>2 DEF TableTypes
  <2> HIDE DEF new, l
  <2>2. elem'[y] = elem[y] \/ elem'[y] = [elem[y] EXCEPT !.next = e]
    BY <1>1, <1>2, <2>1
  <2> QED BY <2>1, <2>2
<1> QED BY <1>4, <1>5 DEF SetValue

(* An element leaves its list, and its neighbours become each other's.     *)
LEMMA DeleteStep ==
  ASSUME TableTypes, NEW c \in [Lists -> Seq(Elements)], Chains(c),
         NEW b \in Lists, NEW i \in 1 .. Len(c[b]), Delete(b, c[b][i])
  PROVE  /\ TableTypes'
         /\ \E d \in [Lists -> Seq(Elements)] :
              Chains(d)' /\ \A x, y : Precedes(d, x, y) => Precedes(c, x, y)
<1> DEFINE s == c[b]
           n == Len(s)
           e == s[i]
           t == [j \in 1 .. n - 1 |-> IF j < i THEN s[j] ELSE s[j + 1]]
           d == [c EXCEPT ![b] = t]
           LT == [head : Links, tail : Links, size : Nat]
           ET == [key : Keys \cup {Null}, value : Nat, next : Links, prev : Links]
<1>1. /\ s \in Seq(Elements) /\ n \in Nat /\ s \in [1 .. n -> Elements] /\ Chain(b, s)
      /\ i \in 1 .. n /\ n - 1 \in Nat
  BY Entry1 DEF Chains
<1>2. /\ list[b].size = n
      /\ list[b].head = s[1]
      /\ list[b].tail = s[n]
      /\ \A j \in 1 .. n : /\ s[j] \in live /\ hash[elem[s[j]].key] = b
                           /\ elem[s[j]].next = IF j = n THEN Null ELSE s[j + 1]
                           /\ elem[s[j]].prev = IF j = 1 THEN Null ELSE s[j - 1]
      /\ \A j, k \in 1 .. n : s[j] = s[k] => j = k
  <2>1. n # 0
    BY <1>1
  <2> QED BY <1>1, <2>1 DEF Chain
<1>3. /\ t \in Seq(Elements) /\ Len(t) = n - 1 /\ DOMAIN t = 1 .. n - 1
      /\ \A j \in 1 .. n - 1 : t[j] = IF j < i THEN s[j] ELSE s[j + 1]
  <2>1. \A j \in 1 .. n - 1 : j \in 1 .. n /\ j + 1 \in 1 .. n
    BY <1>1
  <2>2. t \in [1 .. n - 1 -> Elements]
    BY <1>1, <2>1
  <2> QED BY <1>1, <2>2, SeqDef, LenProperties
<1>4. d \in [Lists -> Seq(Elements)] /\ d[b] = t /\ \A a \in Lists \ {b} : d[a] = c[a]
  BY <1>1, <1>3
<1>5. /\ list \in [Lists -> LT] /\ elem \in [Elements -> ET] /\ hash \in [Keys -> Lists]
      /\ live \subseteq Elements /\ fds \subseteq Instances
      /\ \A x \in live : elem[x].key \in Keys
      /\ fds = {elem[x].value : x \in live}
      /\ \A x, y \in live : elem[x].value = elem[y].value => x = y
  <2>1. list \in [Lists -> LT] /\ elem \in [Elements -> ET]
    BY DEF TableTypes, LT, ET
  <2> QED BY <2>1, Zenon DEF TableTypes
<1>6. /\ list' = [list EXCEPT ![b].size = @ - 1,
                              ![b].head = IF e = @ THEN elem[e].next ELSE @,
                              ![b].tail = IF e = @ THEN elem[e].prev ELSE @]
      /\ elem' = [x \in Elements |->
                   IF x = e THEN Blank
                   ELSE [elem[x] EXCEPT !.prev = IF x = elem[e].next THEN elem[e].prev ELSE @,
                                        !.next = IF x = elem[e].prev THEN elem[e].next ELSE @]]
      /\ live' = live \ {e} /\ fds' = fds \ {elem[e].value} /\ hash' = hash
  BY Zenon DEF Delete
<1>7. /\ e \in live /\ e \in Elements /\ e # Null
      /\ elem[e].next = IF i = n THEN Null ELSE s[i + 1]
      /\ elem[e].prev = IF i = 1 THEN Null ELSE s[i - 1]
      /\ elem[e].next \in Links /\ elem[e].prev \in Links
  <2>1. e \in live /\ e \in Elements /\ e # Null
    BY <1>1, <1>2, Constants
  <2>2. elem[e] \in ET
    BY <1>5, <2>1
  <2>3. elem[e].next \in Links /\ elem[e].prev \in Links
    BY <2>2 DEF ET
  <2> QED BY <1>1, <1>2, <2>1, <2>3
<1> HIDE DEF s, n, t, d, e, LT, ET
<1>8. /\ list'[b].size = n - 1
      /\ list'[b].head = IF e = s[1] THEN elem[e].next ELSE s[1]
      /\ list'[b].tail = IF e = s[n] THEN elem[e].prev ELSE s[n]
      /\ \A a \in Lists \ {b} : list'[a] = list[a]
      /\ list' \in [Lists -> LT]
  <2> DEFINE h == IF e = s[1] THEN elem[e].next ELSE s[1]
             l == IF e = s[n] THEN elem[e].prev ELSE s[n]
  <2>1. list[b] \in LT /\ n - 1 \in Nat
    BY <1>1, <1>5
  <2>2. s[1] \in Links /\ s[n] \in Links
    BY <1>2, <2>1 DEF LT
  <2>3. h \in Links /\ l \in Links
    BY <1>7, <2>2
  <2>4. list' = [list EXCEPT ![b] = [list[b] EXCEPT !.size = n - 1, !.head = h, !.tail = l]]
    <3>1. list[b].size = n /\ list[b].head = s[1] /\ list[b].tail = s[n]
      BY <1>2
    <3>2. list' = [list EXCEPT ![b] = [list[b] EXCEPT !.size = list[b].size - 1,
                                   !.head = IF e = list[b].head THEN elem[e].next ELSE list[b].head,
                                   !.tail = IF e = list[b].tail THEN elem[e].prev ELSE list[b].tail]]
      BY <1>5, <1>6, <2>1 DEF LT
    <3> QED BY <3>1, <3>2
  <2> HIDE DEF h, l
  <2>5. [list[b] EXCEPT !.size = n - 1, !.head = h, !.tail = l] \in LT
    BY <2>1, <2>3 DEF LT
  <2>6. list'[b] = [list[b] EXCEPT !.size = n - 1, !.head = h, !.tail = l]
        /\ \A a \in Lists \ {b} : list'[a] = list[a]
    BY <1>5, <2>4
  <2>7. list'[b].size = n - 1 /\ list'[b].head = h /\ list'[b].tail = l
    BY <2>1, <2>6 DEF LT
  <2>8. list' \in [Lists -> LT]
    BY <1>5, <2>4, <2>5
  <2> QED BY <2>6, <2>7, <2>8 DEF h, l
<1>9. ASSUME NEW x \in Elements, x # e
      PROVE  /\ elem'[x].key = elem[x].key /\ elem'[x].value = elem[x].value
             /\ elem'[x].prev = IF x = elem[e].next THEN elem[e].prev ELSE elem[x].prev
             /\ elem'[x].next = IF x = elem[e].prev THEN elem[e].next ELSE elem[x].next
             /\ elem'[x] \in ET
  <2> DEFINE p == IF x = elem[e].next THEN elem[e].prev ELSE elem[x].prev
             q == IF x = elem[e].prev THEN elem[e].next ELSE elem[x].next
  <2>1. elem[x] \in ET
    BY <1>5
  <2>2. elem[x].prev \in Links /\ elem[x].next \in Links
    BY <2>1 DEF ET
  <2>3. p \in Links /\ q \in Links
    BY <1>7, <2>2
  <2>4. elem'[x] = [elem[x] EXCEPT !.prev = IF x = elem[e].next THEN elem[e].prev ELSE @,
                                   !.next = IF x = elem[e].prev THEN elem[e].next ELSE @]
    BY <1>6, <1>9, Zenon
  <2>5. elem'[x] = [elem[x] EXCEPT !.prev = p, !.next = q]
    BY <2>1, <2>4 DEF ET
  <2> HIDE DEF p, q
  <2>6. elem'[x].key = elem[x].key /\ elem'[x].value = elem[x].value
        /\ elem'[x].prev = p /\ elem'[x].next = q /\ elem'[x] \in ET
    BY <2>1, <2>3, <2>5 DEF ET
  <2> QED BY <2>6 DEF p, q
<1>10. elem' \in [Elements -> ET]
  <2>1. elem'[e] \in ET
    <3>1. elem'[e] = Blank
      BY <1>6, <1>7
    <3> QED BY <3>1 DEF Blank, ET, Links
  <2> QED BY <1>6, <1>9, <2>1
<1>11. \A x \in live' : x \in live /\ x \in Elements /\ x # e
  BY <1>5, <1>6
<1>12. TableTypes'
  <2>1. live' \subseteq Elements /\ fds' \subseteq Instances
    BY <1>5, <1>6
  <2>2. \A x \in live' : elem'[x].key \in Keys
    BY <1>5, <1>9, <1>11
  <2>3. \A x \in live' : elem'[x].value = elem[x].value
    BY <1>9, <1>11
  <2>4. fds' = {elem'[x].value : x \in live'}
    <3>1. {elem'[x].value : x \in live'} = {elem[x].value : x \in live'}
      BY <2>3
    <3>2. {elem[x].value : x \in live \ {e}} = {elem[x].value : x \in live} \ {elem[e].value}
      BY <1>5, <1>7
    <3> QED BY <1>5, <1>6, <3>1, <3>2
  <2>5. \A x, y \in live' : elem'[x].value = elem'[y].value => x = y
    BY <1>5, <1>11, <2>3
  <2> QED BY <1>5, <1>6, <1>8, <1>10, <2>1, <2>2, <2>4, <2>5 DEF TableTypes, LT, ET
<1>13. ASSUME NEW a \in Lists, a # b PROVE Chain(a, d[a])'
  <2> DEFINE r == c[a]
             m == Len(r)
  <2>1. d[a] = r /\ m \in Nat /\ list'[a] = list[a] /\ \A j \in 1 .. m : r[j] \in live
    BY <1>4, <1>8, <1>13, Entry1
  <2>2. /\ list[a].size = m
        /\ list[a].head = IF m = 0 THEN Null ELSE r[1]
        /\ list[a].tail = IF m = 0 THEN Null ELSE r[m]
        /\ \A j \in 1 .. m : /\ r[j] \in live /\ hash[elem[r[j]].key] = a
                             /\ elem[r[j]].next = IF j = m THEN Null ELSE r[j + 1]
                             /\ elem[r[j]].prev = IF j = 1 THEN Null ELSE r[j - 1]
        /\ \A j, k \in 1 .. m : r[j] = r[k] => j = k
    BY DEF Chains, Chain
  <2> HIDE DEF r
  <2>3. ASSUME NEW j \in 1 .. m
        PROVE  r[j] # e /\ r[j] # elem[e].next /\ r[j] # elem[e].prev
    <3>1. hash[elem[r[j]].key] = a /\ r[j] \in Elements /\ r[j] # Null
      <4>1. hash[elem[r[j]].key] = a /\ r[j] \in live
        BY <2>2
      <4>2. live \subseteq Elements /\ Null \notin Elements
        BY <1>5, Constants
      <4> QED BY <4>1, <4>2
    <3>2. \A k \in 1 .. n : r[j] # s[k]
      BY <1>2, <1>13, <3>1
    <3>3. i \in 1 .. n /\ (i # n => i + 1 \in 1 .. n) /\ (i # 1 => i - 1 \in 1 .. n)
      BY <1>1
    <3> QED BY <1>7, <3>1, <3>2, <3>3 DEF e
  <2>4. ASSUME NEW j \in 1 .. m
        PROVE  /\ r[j] \in live' /\ hash'[elem'[r[j]].key] = a
               /\ elem'[r[j]].next = IF j = m THEN Null ELSE r[j + 1]
               /\ elem'[r[j]].prev = IF j = 1 THEN Null ELSE r[j - 1]
    <3>1. r[j] \in live' /\ r[j] \in Elements
      BY <1>5, <1>6, <2>1, <2>3
    <3>2. /\ elem'[r[j]].key = elem[r[j]].key /\ elem'[r[j]].prev = elem[r[j]].prev
          /\ elem'[r[j]].next = elem[r[j]].next
      BY <1>9, <2>3, <3>1
    <3> QED BY <1>6, <2>2, <3>1, <3>2
  <2>5. /\ list'[a].size = Len(r)
        /\ list'[a].head = IF Len(r) = 0 THEN Null ELSE r[1]
        /\ list'[a].tail = IF Len(r) = 0 THEN Null ELSE r[Len(r)]
    BY <2>1, <2>2
  <2>6. \A j \in 1 .. Len(r) :
          /\ r[j] \in live' /\ hash'[elem'[r[j]].key] = a
          /\ elem'[r[j]].next = IF j = Len(r) THEN Null ELSE r[j + 1]
          /\ elem'[r[j]].prev = IF j = 1 THEN Null ELSE r[j - 1]
    BY <2>4, Zenon
  <2>7. (\A j, k \in 1 .. Len(r) : r[j] = r[k] => j = k) /\ d[a] = r
    BY <2>1, <2>2
  <2>8. Chain(a, r)'
    BY <2>5, <2>6, <2>7 DEF Chain
  <2> QED BY <2>7, <2>8
<1>14. ASSUME NEW j \in 1 .. n - 1
       PROVE  /\ t[j] \in live' /\ hash'[elem'[t[j]].key] = b
              /\ elem'[t[j]].next = IF j = n - 1 THEN Null ELSE t[j + 1]
              /\ elem'[t[j]].prev = IF j = 1 THEN Null ELSE t[j - 1]
  <2> DEFINE q == IF j < i THEN j ELSE j + 1
  <2>1. q \in 1 .. n /\ q # i
    BY <1>1
  <2>2. t[j] = s[q]
    BY <1>3
  <2> HIDE DEF q
  <2>3. s[q] \in live /\ s[q] # e /\ s[q] \in Elements /\ s[q] # Null /\ hash[elem[s[q]].key] = b
    <3>1. s[q] \in live /\ hash[elem[s[q]].key] = b /\ (s[q] = s[i] => q = i)
      BY <1>1, <1>2, <2>1
    <3>2. s[q] \in Elements /\ Null \notin Elements
      BY <1>5, <3>1, Constants
    <3> QED BY <2>1, <3>1, <3>2 DEF e
  <2>4. elem'[s[q]].next = IF q = i - 1 THEN IF i = n THEN Null ELSE s[i + 1]
                           ELSE IF q = n THEN Null ELSE s[q + 1]
    <3>1. (s[q] = elem[e].prev) <=> q = i - 1
      <4>1. i # 1 => i - 1 \in 1 .. n
        BY <1>1
      <4>2. i = 1 => q # i - 1
        BY <2>1
      <4> QED BY <1>2, <1>7, <2>1, <2>3, <4>1, <4>2
    <3> QED BY <1>2, <1>7, <1>9, <2>1, <2>3, <3>1
  <2>5. elem'[s[q]].prev = IF q = i + 1 THEN IF i = 1 THEN Null ELSE s[i - 1]
                           ELSE IF q = 1 THEN Null ELSE s[q - 1]
    <3>1. (s[q] = elem[e].next) <=> q = i + 1
      <4>1. i # n => i + 1 \in 1 .. n
        BY <1>1
      <4>2. i = n => q # i + 1
        BY <1>1, <2>1
      <4> QED BY <1>2, <1>7, <2>1, <2>3, <4>1, <4>2
    <3> QED BY <1>2, <1>7, <1>9, <2>1, <2>3, <3>1
  <2>6. elem'[s[q]].next = IF j = n - 1 THEN Null ELSE t[j + 1]
    <3>1. CASE j = n - 1
      <4>1. q = i - 1 => i = n
        BY <1>1, <3>1 DEF q
      <4>2. q # i - 1 => q = n
        BY <1>1, <3>1 DEF q
      <4> QED BY <2>4, <3>1, <4>1, <4>2
    <3>2. CASE j # n - 1
      <4>1. j + 1 \in 1 .. n - 1 /\ j + 1 \in Int
        BY <1>1, <3>2
      <4>2. t[j + 1] = IF j + 1 < i THEN s[j + 1] ELSE s[(j + 1) + 1]
        BY <1>3, <4>1
      <4>3. CASE q = i - 1
        <5>1. i # n /\ ~(j + 1 < i) /\ (j + 1) + 1 = i + 1
          BY <1>1, <3>2, <4>3 DEF q
        <5> QED BY <2>4, <3>2, <4>2, <4>3, <5>1
      <4>4. CASE q # i - 1
        <5>1. q # n /\ (j + 1 < i => q + 1 = j + 1) /\ (~(j + 1 < i) => q + 1 = (j + 1) + 1)
          BY <1>1, <3>2, <4>4 DEF q
        <5> QED BY <2>4, <3>2, <4>2, <4>4, <5>1
      <4> QED BY <4>3, <4>4
    <3> QED BY <3>1, <3>2
  <2>7. elem'[s[q]].prev = IF j = 1 THEN Null ELSE t[j - 1]
    <3>1. CASE j = 1
      <4>1. (q = i + 1 => i = 1) /\ (q # i + 1 => q = 1)
        BY <1>1, <3>1 DEF q
      <4> QED BY <2>5, <3>1, <4>1
    <3>2. CASE j # 1
      <4>1. j - 1 \in 1 .. n - 1
        BY <1>1, <3>2
      <4>2. t[j - 1] = IF j - 1 < i THEN s[j - 1] ELSE s[(j - 1) + 1]
        BY <1>3, <4>1
      <4>3. CASE q = i + 1
        <5>1. i # 1 /\ j - 1 < i /\ j - 1 = i - 1
          BY <1>1, <3>2, <4>3 DEF q
        <5> QED BY <2>5, <3>2, <4>2, <4>3, <5>1
      <4>4. CASE q # i + 1
        <5>1. q # 1 /\ (j - 1 < i => q - 1 = j - 1) /\ (~(j - 1 < i) => q - 1 = (j - 1) + 1)
          BY <1>1, <3>2, <4>4 DEF q
        <5> QED BY <2>5, <3>2, <4>2, <4>4, <5>1
      <4> QED BY <4>3, <4>4
    <3> QED BY <3>1, <3>2
  <2>8. t[j] \in live' /\ hash'[elem'[t[j]].key] = b
    <3>1. s[q] \in live' /\ hash' = hash
      BY <1>6, <2>3
    <3>2. elem'[s[q]].key = elem[s[q]].key
      BY <1>9, <2>3
    <3> QED BY <2>2, <2>3, <3>1, <3>2
  <2> QED BY <2>2, <2>6, <2>7, <2>8
<1>15. \A j, k \in 1 .. n - 1 : t[j] = t[k] => j = k
  <2> SUFFICES ASSUME NEW j \in 1 .. n - 1, NEW k \in 1 .. n - 1, t[j] = t[k] PROVE j = k
    OBVIOUS
  <2> DEFINE q == IF j < i THEN j ELSE j + 1
             r == IF k < i THEN k ELSE k + 1
  <2>1. q \in 1 .. n /\ r \in 1 .. n /\ (q = r => j = k)
    BY <1>1
  <2>2. t[j] = s[q] /\ t[k] = s[r]
    BY <1>3
  <2> HIDE DEF q, r
  <2>3. s[q] = s[r] => q = r
    BY <1>2, <2>1
  <2> QED BY <2>1, <2>2, <2>3
<1>16. /\ list'[b].head = IF n - 1 = 0 THEN Null ELSE t[1]
       /\ list'[b].tail = IF n - 1 = 0 THEN Null ELSE t[n - 1]
  <2>1. (e = s[1] <=> i = 1) /\ (e = s[n] <=> i = n)
    <3>1. 1 \in 1 .. n /\ n \in 1 .. n
      BY <1>1
    <3> QED BY <1>1, <1>2, <3>1 DEF e
  <2>2. CASE n - 1 = 0
    <3>1. i = 1 /\ i = n
      BY <1>1, <2>2
    <3> QED BY <1>7, <1>8, <2>1, <2>2, <3>1
  <2>3. CASE n - 1 # 0
    <3>1. 1 \in 1 .. n - 1 /\ n - 1 \in 1 .. n - 1 /\ (n - 1) + 1 = n /\ 1 + 1 = 2
      BY <1>1, <2>3
    <3>2. t[1] = IF i = 1 THEN s[2] ELSE s[1]
      <4>1. 1 < i <=> i # 1
        BY <1>1
      <4> QED BY <1>3, <3>1, <4>1
    <3>3. t[n - 1] = IF i = n THEN s[n - 1] ELSE s[n]
      <4>1. n - 1 < i <=> i = n
        BY <1>1
      <4> QED BY <1>3, <3>1, <4>1
    <3>4. (i = 1 => i # n /\ i + 1 = 2) /\ (i = n => i # 1 /\ i - 1 = n - 1)
      BY <1>1, <2>3
    <3> QED BY <1>7, <1>8, <2>1, <2>3, <3>2, <3>3, <3>4
  <2> QED BY <2>2, <2>3
<1>17. Chain(b, d[b])'
  <2>1. /\ list'[b].size = Len(t)
        /\ list'[b].head = IF Len(t) = 0 THEN Null ELSE t[1]
        /\ list'[b].tail = IF Len(t) = 0 THEN Null ELSE t[Len(t)]
    BY <1>3, <1>8, <1>16
  <2>2. \A j \in 1 .. Len(t) :
          /\ t[j] \in live' /\ hash'[elem'[t[j]].key] = b
          /\ elem'[t[j]].next = IF j = Len(t) THEN Null ELSE t[j + 1]
          /\ elem'[t[j]].prev = IF j = 1 THEN Null ELSE t[j - 1]
    BY <1>3, <1>14, Zenon
  <2>3. \A j, k \in 1 .. Len(t) : t[j] = t[k] => j = k
    BY <1>3, <1>15
  <2>4. Chain(b, t)'
    BY <2>1, <2>2, <2>3 DEF Chain
  <2> QED BY <1>4, <2>4
<1>18. ASSUME NEW x \in live' PROVE Member(x, d[hash'[elem'[x].key]])
  <2>1. x \in live /\ x # e /\ hash'[elem'[x].key] = hash[elem[x].key] /\ hash[elem[x].key] \in Lists
    BY <1>5, <1>6, <1>9, <1>11
  <2>2. Member(x, c[hash[elem[x].key]])
    BY <2>1 DEF Chains
  <2>3. CASE hash[elem[x].key] = b
    <3>1. PICK k \in 1 .. n : s[k] = x
      BY <2>2, <2>3 DEF Member, s, n
    <3>2. k # i
      BY <2>1, <3>1 DEF e
    <3> DEFINE j == IF k < i THEN k ELSE k - 1
    <3>3. j \in 1 .. n - 1 /\ (IF j < i THEN j ELSE j + 1) = k
      BY <1>1, <3>2
    <3> HIDE DEF j
    <3>4. t[j] = x
      BY <1>3, <3>1, <3>3
    <3> QED BY <1>3, <1>4, <2>1, <2>3, <3>3, <3>4 DEF Member
  <2>4. CASE hash[elem[x].key] # b
    BY <1>4, <2>1, <2>2, <2>4
  <2> QED BY <2>3, <2>4
<1>19. Chains(d)'
  BY <1>13, <1>17, <1>18 DEF Chains, Member
<1>20. ASSUME NEW x, NEW y, Precedes(d, x, y) PROVE Precedes(c, x, y)
  <2>1. PICK a \in Lists : \E j, l \in 1 .. Len(d[a]) : j < l /\ d[a][j] = x /\ d[a][l] = y
    BY <1>20 DEF Precedes
  <2>2. PICK j \in 1 .. Len(d[a]), l \in 1 .. Len(d[a]) : j < l /\ d[a][j] = x /\ d[a][l] = y
    BY <2>1
  <2>3. CASE a # b
    <3>1. d[a] = c[a]
      BY <1>4, <2>3
    <3> QED BY <2>2, <3>1 DEF Precedes
  <2>4. CASE a = b
    <3> DEFINE J == IF j < i THEN j ELSE j + 1
               L == IF l < i THEN l ELSE l + 1
    <3>1. j \in 1 .. n - 1 /\ l \in 1 .. n - 1 /\ j < l /\ t[j] = x /\ t[l] = y
      BY <1>3, <1>4, <2>2, <2>4
    <3>2. J \in 1 .. n /\ L \in 1 .. n /\ J < L
      BY <1>1, <3>1
    <3>3. s[J] = x /\ s[L] = y
      BY <1>3, <3>1
    <3> HIDE DEF J, L
    <3> QED BY <3>2, <3>3 DEF Precedes, s, n
  <2> QED BY <2>3, <2>4
<1> QED BY <1>4, <1>12, <1>19, <1>20

(* hashtable_remove finds the first element with the path.                 *)
LEMMA FoundFirst ==
  ASSUME TableTypes, NEW c \in [Lists -> Seq(Elements)], Chains(c), NEW x \in live,
         NEW b \in Lists, b = hash[elem[x].key]
  PROVE  \E i \in 1 .. Len(c[b]) : /\ FindValue(b, elem[x].key) = c[b][i]
                                   /\ elem[c[b][i]].key = elem[x].key
                                   /\ \A j \in 1 .. Len(c[b]) : elem[c[b][j]].key = elem[x].key => i <= j
<1> DEFINE s == c[b]
           n == Len(s)
           k == elem[x].key
           at == {i \in 1 .. n : elem[s[i]].key = k}
<1>1. Forward(b) = s /\ list[b].size = n /\ n \in Nat
  <2>1. s \in Seq(Elements) /\ Chain(b, s)
    BY DEF Chains
  <2>2. Forward(b) = s
    BY <2>1, Directions
  <2> QED BY <2>1, <2>2, Entry1 DEF Chain
<1>2. PICK j \in 1 .. n : s[j] = x
  BY DEF Chains, Member
<1>3. at # {} /\ at \subseteq Nat
  <2>1. j \in at
    BY <1>2
  <2>2. 1 .. n \subseteq Nat
    BY <1>1
  <2>3. at \subseteq 1 .. n
    OBVIOUS
  <2> HIDE DEF at
  <2> QED BY <2>1, <2>2, <2>3
<1>4. FindValue(b, k) = s[CHOOSE i \in at : \A l \in at : i <= l]
  <2>1. FindValue(b, k) = IF at = {} THEN Null ELSE s[CHOOSE i \in at : \A l \in at : i <= l]
    BY <1>1 DEF FindValue
  <2> QED BY <1>3, <2>1
<1> DEFINE i == CHOOSE i \in at : \A l \in at : i <= l
<1>5. i \in at /\ \A l \in at : i <= l
  <2> HIDE DEF at
  <2>1. \E m \in at : \A l \in at : m <= l
    BY <1>3, Smallest
  <2> QED BY <2>1
<1> HIDE DEF i
<1>6. i \in 1 .. n /\ elem[s[i]].key = k /\ \A l \in 1 .. n : elem[s[l]].key = k => i <= l
  BY <1>5
<1> QED BY <1>4, <1>6 DEF i

(* The element after x, as long as there is one, is in the same list.      *)
LEMMA NextInList ==
  ASSUME TableTypes, Linked, NEW x \in live, elem[x].next # Null
  PROVE  elem[x].next \in live /\ hash[elem[elem[x].next].key] = hash[elem[x].key]
<1>1. PICK c \in [Lists -> Seq(Elements)] : Chains(c)
  BY DEF Linked
<1>2. PICK b \in Lists : b = hash[elem[x].key]
  BY DEF TableTypes
<1>3. PICK i \in 1 .. Len(c[b]) : c[b][i] = x
  BY <1>1, <1>2 DEF Chains, Member
<1>4. /\ elem[x].next = IF i = Len(c[b]) THEN Null ELSE c[b][i + 1]
      /\ \A j \in 1 .. Len(c[b]) : c[b][j] \in live /\ hash[elem[c[b][j]].key] = b
  BY <1>1, <1>3 DEF Chains, Chain
<1>5. i # Len(c[b]) => i + 1 \in 1 .. Len(c[b])
  BY <1>1, <1>3, Entry1
<1> QED BY <1>2, <1>4, <1>5

LEMMA HeadInList ==
  ASSUME TableTypes, Linked, NEW b \in Lists, list[b].head # Null
  PROVE  list[b].head \in live /\ hash[elem[list[b].head].key] = b
<1>1. PICK c \in [Lists -> Seq(Elements)] : Chains(c)
  BY DEF Linked
<1>2. /\ list[b].head = IF Len(c[b]) = 0 THEN Null ELSE c[b][1]
      /\ \A j \in 1 .. Len(c[b]) : c[b][j] \in live /\ hash[elem[c[b][j]].key] = b
  BY <1>1 DEF Chains, Chain
<1>3. Len(c[b]) # 0 => 1 \in 1 .. Len(c[b])
  BY <1>1, Entry1
<1> QED BY <1>2, <1>3

(* The first element e with x's path is freed.  The element after x is     *)
(* another one.                                                            *)
LEMMA RemoveStep ==
  ASSUME TableTypes, NEW c \in [Lists -> Seq(Elements)], Chains(c), NEW x \in live, Remove(elem[x].key)
  PROVE  \E e \in live :
           /\ elem[e].key = elem[x].key /\ (e = x \/ Precedes(c, e, x))
           /\ hash' = hash /\ live' = live \ {e} /\ fds' = fds \ {elem[e].value}
           /\ \A y \in live' : elem'[y].key = elem[y].key /\ elem'[y].value = elem[y].value
           /\ elem[x].next # Null => elem[x].next \in live'
           /\ TableTypes'
           /\ \E d \in [Lists -> Seq(Elements)] :
                Chains(d)' /\ \A y, z : Precedes(d, y, z) => Precedes(c, y, z)
<1>1. PICK b \in Lists : b = hash[elem[x].key]
  BY DEF TableTypes
<1>2. PICK i \in 1 .. Len(c[b]) :
        /\ FindValue(b, elem[x].key) = c[b][i]
        /\ elem[c[b][i]].key = elem[x].key
        /\ \A j \in 1 .. Len(c[b]) : elem[c[b][j]].key = elem[x].key => i <= j
  BY <1>1, FoundFirst
<1>3. Delete(b, c[b][i])
  BY <1>1, <1>2 DEF Remove
<1>4. /\ TableTypes'
      /\ \E d \in [Lists -> Seq(Elements)] :
           Chains(d)' /\ \A y, z : Precedes(d, y, z) => Precedes(c, y, z)
  BY <1>3, DeleteStep
<1>5. hash' = hash /\ live' = live \ {c[b][i]} /\ fds' = fds \ {elem[c[b][i]].value}
  BY <1>3 DEF Delete
<1>6. \A y \in live' : elem'[y].key = elem[y].key /\ elem'[y].value = elem[y].value
  <2> SUFFICES ASSUME NEW y \in live'
               PROVE  elem'[y].key = elem[y].key /\ elem'[y].value = elem[y].value
    OBVIOUS
  <2> DEFINE e == c[b][i]
  <2>1. y \in Elements /\ y # e
    BY <1>5 DEF TableTypes
  <2>2. elem'[y] = [elem[y] EXCEPT !.prev = IF y = elem[e].next THEN elem[e].prev ELSE @,
                                   !.next = IF y = elem[e].prev THEN elem[e].next ELSE @]
    BY <1>3, <2>1, Zenon DEF Delete
  <2>3. elem[y] \in [key : Keys \cup {Null}, value : Nat, next : Links, prev : Links]
    BY <2>1 DEF TableTypes
  <2> HIDE DEF e
  <2> QED BY <2>2, <2>3
<1>7. PICK j \in 1 .. Len(c[b]) : c[b][j] = x
  BY <1>1 DEF Chains, Member
<1>8. i <= j
  BY <1>2, <1>7
<1>9. ASSUME elem[x].next # Null PROVE elem[x].next \in live'
  <2>1. /\ elem[x].next = IF j = Len(c[b]) THEN Null ELSE c[b][j + 1]
        /\ \A l, m \in 1 .. Len(c[b]) : c[b][l] = c[b][m] => l = m
        /\ \A l \in 1 .. Len(c[b]) : c[b][l] \in live
    BY <1>7 DEF Chains, Chain
  <2>2. j # Len(c[b]) /\ j + 1 \in 1 .. Len(c[b]) /\ j + 1 # i
    <3>1. Len(c[b]) \in Nat
      BY Entry1
    <3> QED BY <1>8, <1>9, <2>1, <3>1
  <2>3. elem[x].next # c[b][i] /\ elem[x].next \in live
    BY <2>1, <2>2
  <2> QED BY <1>5, <2>3
<1>10. c[b][i] = x \/ Precedes(c, c[b][i], x)
  <2>1. CASE i = j
    BY <1>7, <2>1
  <2>2. CASE i # j
    <3>1. i < j
      <4>1. Len(c[b]) \in Nat
        BY Entry1
      <4> QED BY <1>8, <2>2, <4>1
    <3> QED BY <1>7, <3>1 DEF Precedes
  <2> QED BY <2>1, <2>2
<1>11. c[b][i] \in live
  BY Entry1
<1> QED BY <1>2, <1>4, <1>5, <1>6, <1>9, <1>10, <1>11

(* To clear the table frees every element and closes every instance.       *)
LEMMA ClearStep ==
  ASSUME TableTypes, Linked, Clear
  PROVE  TableTypes' /\ Linked' /\ live' = {} /\ fds' = {} /\ hash' = hash
<1>1. PICK c \in [Lists -> Seq(Elements)] : Chains(c)
  BY DEF Linked
<1> DEFINE freed == UNION {Sx!ToSet(Backward(b)) : b \in Lists}
<1>2. ASSUME NEW b \in Lists, NEW i \in 1 .. Len(c[b]) PROVE c[b][i] \in Sx!ToSet(Backward(b))
  <2> DEFINE s == c[b]
             n == Len(s)
  <2>1. s \in Seq(Elements) /\ Chain(b, s) /\ n \in Nat
    BY <1>1, Entry1 DEF Chains
  <2>2. Backward(b) = Sx!Reverse(s)
    BY <2>1, Directions
  <2>3. Sx!Reverse(s) = [j \in 1 .. n |-> s[(n - j) + 1]]
    BY DEF Sx!Reverse
  <2>4. (n - i) + 1 \in 1 .. n /\ (n - ((n - i) + 1)) + 1 = i
    BY <2>1
  <2> HIDE DEF s, n
  <2>5. [j \in 1 .. n |-> s[(n - j) + 1]][(n - i) + 1] = s[i]
    BY <2>4
  <2>6. s[i] \in Sx!ToSet([j \in 1 .. n |-> s[(n - j) + 1]])
    BY <2>4, <2>5 DEF Sx!ToSet
  <2> QED BY <2>2, <2>3, <2>6 DEF s
<1>3. live \subseteq freed
  <2> SUFFICES ASSUME NEW e \in live PROVE e \in freed
    OBVIOUS
  <2>1. hash[elem[e].key] \in Lists /\ Member(e, c[hash[elem[e].key]])
    BY <1>1 DEF Chains, TableTypes
  <2> QED BY <1>2, <2>1 DEF Member
<1>4. /\ list' = [b \in Lists |-> Empty]
      /\ elem' = [e \in Elements |-> IF e \in freed THEN Blank ELSE elem[e]]
      /\ live' = live \ freed
      /\ fds' = fds \ {elem[e].value : e \in freed}
      /\ hash' = hash
  BY DEF Clear
<1> HIDE DEF freed
<1>5. live' = {} /\ fds' = {}
  <2>1. fds = {elem[e].value : e \in live}
    BY DEF TableTypes
  <2>2. {elem[e].value : e \in live} \subseteq {elem[e].value : e \in freed}
    BY <1>3
  <2> QED BY <1>3, <1>4, <2>1, <2>2
<1>6. TableTypes'
  <2>1. Blank \in [key : Keys \cup {Null}, value : Nat, next : Links, prev : Links]
    BY DEF Blank, Links
  <2>2. elem' \in [Elements -> [key : Keys \cup {Null}, value : Nat, next : Links, prev : Links]]
    BY <1>4, <2>1 DEF TableTypes
  <2>3. list' \in [Lists -> [head : Links, tail : Links, size : Nat]]
    BY <1>4 DEF Empty, Links
  <2>4. hash' \in [Keys -> Lists]
    BY <1>4 DEF TableTypes
  <2> QED BY <1>5, <2>2, <2>3, <2>4 DEF TableTypes
<1>7. Linked'
  <2> DEFINE d == [b \in Lists |-> <<>>]
  <2>1. d \in [Lists -> Seq(Elements)]
    BY EmptySeq
  <2>2. ASSUME NEW b \in Lists PROVE Chain(b, d[b])'
    <3>1. d[b] = <<>> /\ Len(<<>>) = 0 /\ list'[b] = Empty
      BY <1>4
    <3> QED BY <3>1 DEF Chain, Empty
  <2>3. Chains(d)'
    BY <1>5, <2>2 DEF Chains
  <2> QED BY <2>1, <2>3 DEF Linked
<1> QED BY <1>4, <1>5, <1>6, <1>7

(* What leaves the table alone leaves it in order.                         *)
LEMMA TableStays ==
  ASSUME TableTypes, Linked, UNCHANGED table
  PROVE  TableTypes' /\ Linked'
<1>1. TableTypes'
  BY DEF TableTypes, table
<1>2. PICK c \in [Lists -> Seq(Elements)] : Chains(c)
  BY DEF Linked
<1>3. Chains(c)'
  <2>1. ASSUME NEW b \in Lists PROVE Chain(b, c[b])'
    <3>1. Chain(b, c[b])
      BY <1>2 DEF Chains
    <3> QED BY <3>1 DEF Chain, table
  <2>2. \A e \in live' : Member(e, c[hash'[elem'[e].key]])
    BY <1>2 DEF Chains, table
  <2> QED BY <2>1, <2>2 DEF Chains, Member
<1> QED BY <1>1, <1>3 DEF Linked
-----------------------------------------------------------------------------
(* Paths, events and calls                                                 *)

LEMMA Tree ==
  /\ Root \in Dirs /\ Dirs \cap Files = {} /\ Regular \cap Dirs = {} /\ Root \notin Paths
  /\ \A p \in Paths : Parent[p] \in Dirs
  /\ \A d \in Dirs \ {Root} : d \in Paths
  /\ \A p \in Paths : p \in Dirs => p # Root
<1>1. /\ Root \in Dirs /\ Dirs \cap Files = {}
      /\ \A p \in Paths : Parent[p] \in Dirs
  BY TreeAssumption
<1> QED BY <1>1 DEF Paths, Files

LEMMA AboveIs ==
  ASSUME NEW p \in Paths
  PROVE  /\ Above(p) \subseteq Dirs /\ Root \in Above(p) /\ Parent[p] \in Above(p)
         /\ \A q \in Above(p) \ {Root} : Parent[q] \in Above(p)
         /\ \A S \in SUBSET Dirs : Parent[p] \in S /\ (\A q \in S \ {Root} : Parent[q] \in S)
                                     => Above(p) \subseteq S
<1>1. Above(p) \subseteq Dirs /\ Root \in Above(p)
  BY PathAssumption DEF Above
<1>2. Parent[p] \in Above(p)
  BY Tree DEF Above
<1>3. \A q \in Above(p) \ {Root} : Parent[q] \in Above(p)
  BY Tree DEF Above
<1>4. \A S \in SUBSET Dirs : Parent[p] \in S /\ (\A q \in S \ {Root} : Parent[q] \in S)
                               => Above(p) \subseteq S
  BY DEF Above
<1> QED BY <1>1, <1>2, <1>3, <1>4

LEMMA Told ==
  ASSUME queue \in [Instances -> Seq(Events)], NEW kind \in Kinds, NEW p \in Paths,
         NEW V, Notify(V, kind, p)
  PROVE  queue' \in [Instances -> Seq(Events)]
<1>1. <<kind, p>> \in Events
  BY DEF Events
<1>2. ASSUME NEW v \in Instances PROVE queue[v] \in Seq(Events) /\ Append(queue[v], <<kind, p>>) \in Seq(Events)
  BY <1>1, AppendProperties
<1> QED BY <1>2 DEF Notify

LEMMA Top ==
  ASSUME NEW T, NEW s \in Seq(T), s # <<>>
  PROVE  /\ Len(s) \in Nat \ {0} /\ Len(s) \in 1 .. Len(s) /\ Sx!Last(s) = s[Len(s)] /\ s[Len(s)] \in T
         /\ Sx!Front(s) \in Seq(T) /\ Len(Sx!Front(s)) = Len(s) - 1
         /\ \A i \in 1 .. Len(s) - 1 : Sx!Front(s)[i] = s[i]
<1>1. Len(s) \in Nat \ {0}
  BY EmptySeq
<1>2. Len(s) \in 1 .. Len(s) /\ s[Len(s)] \in T
  BY <1>1, ElementOfSeq
<1>3. \A i \in 1 .. Len(s) - 1 : s[i] \in T
  <2>1. \A i \in 1 .. Len(s) - 1 : i \in 1 .. Len(s)
    BY <1>1
  <2> QED BY <2>1, ElementOfSeq
<1> DEFINE n == Len(s) - 1
<1>4. n \in Int /\ 1 \in Int
  BY <1>1
<1>5. /\ SubSeq(s, 1, n) \in Seq(T)
      /\ Len(SubSeq(s, 1, n)) = IF 1 <= n THEN n - 1 + 1 ELSE 0
      /\ \A i \in 1 .. n - 1 + 1 : SubSeq(s, 1, n)[i] = s[1 + i - 1]
  <2> HIDE DEF n
  <2>1. \A i \in 1 .. n : s[i] \in T
    BY <1>3 DEF n
  <2> QED BY <1>4, <2>1, SubSeqProperties
<1>6. ASSUME NEW i \in 1 .. n PROVE SubSeq(s, 1, n)[i] = s[i]
  <2>1. i \in 1 .. n - 1 + 1 /\ 1 + i - 1 = i
    BY <1>4
  <2> QED BY <1>5, <2>1
<1>7. Len(SubSeq(s, 1, n)) = n
  <2>1. n \in Nat
    BY <1>1
  <2> HIDE DEF n
  <2>2. (IF 1 <= n THEN n - 1 + 1 ELSE 0) = n
    BY <2>1
  <2> QED BY <1>5, <2>2
<1> QED BY <1>1, <1>2, <1>5, <1>6, <1>7 DEF Sx!Last, Sx!Front

LEMMA SetTop ==
  ASSUME NEW T, NEW s \in Seq(T), s # <<>>, NEW f \in T
  PROVE  LET t == [s EXCEPT ![Len(s)] = f]
         IN  /\ t \in Seq(T) /\ Len(t) = Len(s) /\ t[Len(s)] = f /\ t # <<>>
             /\ \A i \in 1 .. Len(s) : i # Len(s) => t[i] = s[i]
<1>1. Len(s) \in 1 .. Len(s) /\ Len(s) # 0
  BY Top
<1> DEFINE t == [s EXCEPT ![Len(s)] = f]
<1>2. t \in Seq(T) /\ Len(t) = Len(s) /\ \A i \in 1 .. Len(s) : t[i] = IF i = Len(s) THEN f ELSE s[i]
  BY <1>1, ExceptSeq
<1> HIDE DEF t
<1>3. t # <<>>
  BY <1>1, <1>2, EmptySeq
<1> QED BY <1>1, <1>2, <1>3 DEF t

(* A component of the invariant stays true while its variables stay.       *)
LEMMA Same ==
  ASSUME IInv
  PROVE  /\ UNCHANGED table => TableTypes' /\ Linked'
         /\ UNCHANGED source => Source'
         /\ UNCHANGED <<pc, mode, config, endless, failed, merged, copying>> => Control'
         /\ UNCHANGED <<table, pc, inc, made>> => Walking'
         /\ UNCHANGED <<stack, pc, cur, made>> => Stack'
         /\ UNCHANGED made => Version'
         /\ UNCHANGED <<exists, stack, pc, cur, made, kept>> => Complete'
<1>1. UNCHANGED table => TableTypes' /\ Linked'
  BY TableStays DEF IInv
<1>2. UNCHANGED source => Source'
  BY DEF IInv, Source, source
<1>3. UNCHANGED <<pc, mode, config, endless, failed, merged, copying>> => Control'
  BY DEF IInv, Control
<1>4. UNCHANGED <<table, pc, inc, made>> => Walking'
  BY DEF IInv, Walking, table, inc
<1>5. UNCHANGED <<stack, pc, cur, made>> => Stack'
  BY DEF IInv, Stack
<1>6. UNCHANGED made => Version'
  BY DEF IInv, Version, VersionClosed
<1>7. UNCHANGED <<exists, stack, pc, cur, made, kept>> => Complete'
  BY DEF IInv, Complete, Owed
<1> QED BY <1>1, <1>2, <1>3, <1>4, <1>5, <1>6, <1>7
-----------------------------------------------------------------------------
(* The steps                                                               *)

LEMMA Initially ==
  ASSUME Init
  PROVE  IInv
<1>1. TableTypes
  <2>1. Blank \in [key : Keys \cup {Null}, value : Nat, next : Links, prev : Links]
        /\ Empty \in [head : Links, tail : Links, size : Nat]
    BY DEF Blank, Empty, Links
  <2> QED BY <2>1 DEF Init, TableInit, TableTypes
<1>2. Linked
  <2> DEFINE d == [b \in Lists |-> <<>>]
  <2>1. d \in [Lists -> Seq(Elements)]
    BY EmptySeq
  <2>2. ASSUME NEW b \in Lists PROVE Chain(b, d[b])
    <3>1. d[b] = <<>> /\ Len(<<>>) = 0 /\ list[b] = Empty
      BY DEF Init, TableInit
    <3> QED BY <3>1 DEF Chain, Empty
  <2>3. Chains(d)
    BY <2>2 DEF Chains, Init, TableInit
  <2> QED BY <2>1, <2>3 DEF Linked
<1>3. Source
  <2>1. [v \in Instances |-> <<>>] \in [Instances -> Seq(Events)]
    BY EmptySeq
  <2> QED BY <2>1 DEF Init, Source
<1>4. Control
  BY DEF Init, Control, CLASSIC, INOTIFY
<1>5. Walking
  BY Constants DEF Init, Walking
<1>6. stack = <<>> /\ Len(<<>>) = 0 /\ stack \in Seq(Calls)
  BY EmptySeq DEF Init
<1>7. Stack
  BY <1>6 DEF Init, Stack
<1>8. Version
  BY DEF Init, Version, VersionClosed
<1>9. Complete
  BY <1>6 DEF Init, Complete
<1> QED BY <1>1, <1>2, <1>3, <1>4, <1>5, <1>7, <1>8, <1>9 DEF IInv

LEMMA CreateStep ==
  ASSUME IInv, NEW p \in Paths, Create(p)
  PROVE  IInv'
<1>1. /\ p \notin exists /\ Parent[p] \in exists /\ exists' = exists \cup {p}
      /\ stale' = stale \cup ({p} \cap Regular) /\ Notify(WatchesOf(Parent[p]), "create", p)
      /\ UNCHANGED <<table, pc, mode, config, made, inc, past, watch, stack, copy, kept>>
  BY DEF Create, Change
<1>2. queue' \in [Instances -> Seq(Events)]
  BY <1>1, Told DEF IInv, Source, Kinds
<1>3. Source'
  BY <1>1, <1>2 DEF IInv, Source
<1>4. Complete'
  BY <1>1, Tree DEF IInv, Complete, Owed, inc
<1> QED BY <1>1, <1>3, <1>4, Same DEF IInv, copy, inc, past

LEMMA ModifyStep ==
  ASSUME IInv, NEW f \in Regular, Modify(f)
  PROVE  IInv'
<1>1. /\ f \in exists /\ stale' = stale \cup {f} /\ Notify(WatchesOf(Parent[f]), "modify", f)
      /\ endless' \in {endless, endless \/ copying = f}
      /\ UNCHANGED <<table, pc, mode, config, made, inc, past, exists, watch, stack, copying, kept>>
  BY DEF Modify, Change
<1>2. queue' \in [Instances -> Seq(Events)]
  BY <1>1, Told DEF IInv, Source, Kinds, Paths, Files
<1>3. Source'
  BY <1>1, <1>2 DEF IInv, Source
<1>4. Control'
  BY <1>1 DEF IInv, Control, past
<1> QED BY <1>1, <1>3, <1>4, Same DEF IInv, inc

LEMMA UnlinkStep ==
  ASSUME IInv, NEW f \in Files, Unlink(f)
  PROVE  IInv'
<1>1. /\ exists' = exists \ {f} /\ stale' = stale \ {f} /\ kept' = kept \ {f}
      /\ copying' = (IF copying = f THEN Null ELSE copying)
      /\ UNCHANGED <<table, pc, mode, config, made, inc, past, watch, queue, stack, endless>>
  BY DEF Unlink, Change
<1>2. f # Root /\ f \notin Dirs /\ \A p \in Paths : Parent[p] # f
  BY Tree DEF Files
<1>3. Source'
  <2>1. \A p \in exists' \ {Root} : p \in Paths /\ p \in exists \ {Root}
    BY <1>1 DEF IInv, Source
  <2> QED BY <1>1, <1>2, <2>1 DEF IInv, Source
<1>4. Control'
  BY <1>1 DEF IInv, Control, past
<1>5. Complete'
  <2>1. \A k \in kept : k \in Paths
    BY DEF IInv, Complete, Source
  <2>2. kept' \subseteq exists' \ {Root} /\ \A k \in kept' : Parent[k] \in kept' \cup {Root}
    BY <1>1, <1>2, <2>1 DEF IInv, Complete
  <2>3. pc' \in {"inc", "handle", "handled"} \/ cur' # Null => kept' = {}
    BY <1>1 DEF IInv, Complete, inc
  <2>4. \A i \in 1 .. Len(stack') : stack'[i].gone => Entries(stack'[i].dir) \cap kept' = {}
    BY <1>1 DEF IInv, Complete
  <2>5. \A k \in kept' \ made' : Parent[k] \in made' \cup {Root} => Owed(k)'
    BY <1>1 DEF IInv, Complete, Owed
  <2> QED BY <2>2, <2>3, <2>4, <2>5 DEF Complete
<1> QED BY <1>1, <1>3, <1>4, <1>5, Same DEF IInv, inc

(* The calls in the directory find it gone.                                *)
LEMMA RmdirCalls ==
  ASSUME IInv, NEW d \in Dirs \ {Root}, Rmdir(d)
  PROVE  /\ stack' \in Seq(Calls) /\ Len(stack') = Len(stack) /\ (stack' = <<>> <=> stack = <<>>)
         /\ \A i \in 1 .. Len(stack) : /\ stack'[i].dir = stack[i].dir /\ stack'[i].todo = stack[i].todo
                                       /\ stack'[i].gone => stack[i].gone \/ stack[i].dir = d
<1>0. stack' = [i \in DOMAIN stack |->
                  IF stack[i].dir = d THEN [stack[i] EXCEPT !.gone = TRUE] ELSE stack[i]]
  BY DEF Rmdir
<1>1. stack \in Seq(Calls) /\ Len(stack) \in Nat /\ DOMAIN stack = 1 .. Len(stack)
      /\ \A i \in 1 .. Len(stack) : stack[i] \in Calls
  BY LenProperties, ElementOfSeq DEF IInv, Stack
<1>2. ASSUME NEW i \in 1 .. Len(stack)
      PROVE  /\ stack'[i] \in Calls
             /\ stack'[i].dir = stack[i].dir /\ stack'[i].todo = stack[i].todo
             /\ stack'[i].gone => stack[i].gone \/ stack[i].dir = d
  <2>1. stack[i] \in Calls
    BY <1>1
  <2>2. stack'[i] = IF stack[i].dir = d THEN [stack[i] EXCEPT !.gone = TRUE] ELSE stack[i]
    BY <1>0, <1>1
  <2> QED BY <2>1, <2>2 DEF Calls
<1>3. stack' \in [1 .. Len(stack) -> Calls]
  BY <1>0, <1>1, <1>2
<1>4. stack' \in Seq(Calls)
  BY <1>1, <1>3, SeqDef
<1>5. Len(stack') = Len(stack)
  <2>1. DOMAIN stack' = 1 .. Len(stack') /\ Len(stack') \in Nat
    BY <1>4, LenProperties
  <2>2. DOMAIN stack' = 1 .. Len(stack)
    BY <1>0, <1>1
  <2>3. ASSUME NEW m \in Nat, NEW n \in Nat, 1 .. m = 1 .. n, m > n PROVE FALSE
    <3>1. m \in 1 .. m
      BY <2>3
    <3>2. m \in 1 .. n
      BY <2>3, <3>1
    <3> QED BY <2>3, <3>2
  <2>4. Len(stack') \in Nat /\ Len(stack) \in Nat /\ 1 .. Len(stack') = 1 .. Len(stack)
    BY <1>1, <2>1, <2>2
  <2>5. ~(Len(stack') > Len(stack)) /\ ~(Len(stack) > Len(stack'))
    BY <2>3, <2>4
  <2> QED BY <2>4, <2>5
<1>6. stack' = <<>> <=> stack = <<>>
  BY <1>1, <1>4, <1>5, EmptySeq
<1> QED BY <1>2, <1>4, <1>5, <1>6

LEMMA RmdirStep ==
  ASSUME IInv, NEW d \in Dirs \ {Root}, Rmdir(d)
  PROVE  IInv'
<1>1. /\ d \in exists /\ Entries(d) \cap exists = {} /\ exists' = exists \ {d} /\ kept' = kept \ {d}
      /\ watch' = [v \in Instances |-> IF v \in WatchesOf(d) THEN "dead" ELSE watch[v]]
      /\ Notify(WatchesOf(d), "delete_self", d)
      /\ stack' = [i \in DOMAIN stack |->
                     IF stack[i].dir = d THEN [stack[i] EXCEPT !.gone = TRUE] ELSE stack[i]]
      /\ UNCHANGED <<table, pc, mode, config, made, inc, past, stale, copy>>
  BY DEF Rmdir, Change
<1>2. d \in Paths /\ d \notin Regular
  BY Tree
<1>3. queue' \in [Instances -> Seq(Events)]
  BY <1>1, <1>2, Told DEF IInv, Source, Kinds
<1>4. \A p \in exists \ {Root} : p \in Paths /\ Parent[p] # d
  BY <1>1 DEF Entries, IInv, Source
<1>5. Source'
  <2>1. watch' \in [Instances -> {"live", "dead", "none"}]
    BY <1>1 DEF IInv, Source
  <2>2. /\ exists' \subseteq Paths \cup {Root} /\ Root \in exists'
        /\ \A p \in exists' \ {Root} : Parent[p] \in exists'
    BY <1>1, <1>4 DEF IInv, Source
  <2>3. stale' \subseteq exists' \cap Regular
    BY <1>1, <1>2 DEF IInv, Source
  <2> QED BY <1>3, <2>1, <2>2, <2>3 DEF Source
<1>6. /\ stack' \in Seq(Calls) /\ Len(stack') = Len(stack) /\ (stack' = <<>> <=> stack = <<>>)
      /\ \A i \in 1 .. Len(stack) : /\ stack'[i].dir = stack[i].dir /\ stack'[i].todo = stack[i].todo
                                    /\ stack'[i].gone => stack[i].gone \/ stack[i].dir = d
  BY RmdirCalls
<1>7. Stack'
  BY <1>1, <1>6 DEF IInv, Stack, inc
<1>8. Complete'
  <2>1. \A k \in kept : k \in exists \ {Root}
    BY DEF IInv, Complete
  <2>2. kept' \subseteq exists' \ {Root} /\ \A k \in kept' : Parent[k] \in kept' \cup {Root}
    BY <1>1, <1>4, <2>1 DEF IInv, Complete
  <2>3. pc' \in {"inc", "handle", "handled"} \/ cur' # Null => kept' = {}
    BY <1>1 DEF IInv, Complete, inc
  <2>4. \A i \in 1 .. Len(stack') : stack'[i].gone => Entries(stack'[i].dir) \cap kept' = {}
    <3>1. Entries(d) \cap kept' = {}
      BY <1>1, <2>1
    <3> QED BY <1>1, <1>6, <3>1 DEF IInv, Complete
  <2>5. \A k \in kept' \ made' : Parent[k] \in made' \cup {Root} => Owed(k)'
    <3> SUFFICES ASSUME NEW k \in kept' \ made', Parent[k] \in made' \cup {Root} PROVE Owed(k)'
      OBVIOUS
    <3>1. Owed(k)
      BY <1>1 DEF IInv, Complete
    <3> QED BY <1>1, <1>6, <3>1 DEF Owed
  <2> QED BY <2>2, <2>3, <2>4, <2>5 DEF Complete
<1> QED BY <1>1, <1>5, <1>7, <1>8, Same DEF IInv, inc, past, copy

LEMMA ChangeModeStep ==
  ASSUME IInv, ChangeMode
  PROVE  IInv'
<1>1. /\ pc = "idle" /\ mode' = 1 - mode /\ config' = (mode' = INOTIFY)
      /\ UNCHANGED <<table, source, pc, stack, made, copy, inc, past, kept>>
  BY DEF ChangeMode
<1>2. Control'
  BY <1>1 DEF IInv, Control, past, copy, CLASSIC, INOTIFY
<1> QED BY <1>1, <1>2, Same DEF IInv, inc, source

(* A full backup begins in the source directory with nothing copied.       *)
LEMMA Begun ==
  ASSUME Source, cur' = Null, exists' = exists, pc' = "open", stack' = <<Call(Root)>>, made' = {},
         kept' = exists \ {Root}
  PROVE  Stack' /\ Version' /\ Complete'
<1>1. Call(Root) \in Calls /\ Call(Root).dir = Root /\ Call(Root).todo = {} /\ Call(Root).gone = FALSE
  BY Tree DEF Call, Calls
<1>2. /\ stack' \in Seq(Calls) /\ Len(stack') = 1 /\ stack'[1] = Call(Root) /\ stack' # <<>>
  BY <1>1
<1>3. Stack'
  BY <1>1, <1>2 DEF Stack
<1>4. Complete'
  <2>1. kept' \subseteq exists' \ {Root} /\ \A k \in kept' : Parent[k] \in kept' \cup {Root}
    BY DEF Source
  <2>2. \A k \in kept' \ made' : Parent[k] \in made' \cup {Root} => Owed(k)'
    BY <1>1, <1>2 DEF Owed
  <2> QED BY <1>1, <1>2, <2>1, <2>2 DEF Complete
<1> QED BY <1>3, <1>4 DEF Version, VersionClosed

LEMMA BeginClassicStep ==
  ASSUME IInv, BeginClassic
  PROVE  IInv'
<1>1. /\ pc = "idle" /\ mode = CLASSIC /\ pc' = "open" /\ stack' = <<Call(Root)>> /\ made' = {}
      /\ kept' = exists \ {Root} /\ UNCHANGED <<table, source, mode, config, copy, inc, past>>
  BY DEF BeginClassic
<1>2. cur = Null
  BY <1>1 DEF IInv, Walking
<1>3. Stack' /\ Version' /\ Complete'
  BY <1>1, <1>2, Begun DEF IInv, inc, source
<1>4. Control'
  BY <1>1 DEF IInv, Control, copy, past
<1>5. Walking'
  BY <1>1, <1>2 DEF IInv, Walking, inc
<1> QED BY <1>1, <1>3, <1>4, <1>5, Same DEF IInv

LEMMA BeginFullStep ==
  ASSUME IInv, BeginFull
  PROVE  IInv'
<1>1. /\ pc = "idle" /\ Clear
      /\ watch' = [v \in Instances |-> IF v \in fds' THEN watch[v] ELSE "none"]
      /\ queue' = [v \in Instances |-> IF v \in fds' THEN queue[v] ELSE <<>>]
      /\ pc' = "open" /\ stack' = <<Call(Root)>> /\ made' = {} /\ kept' = exists \ {Root}
      /\ failed' = FALSE /\ merged' = FALSE
      /\ UNCHANGED <<exists, stale, mode, config, copy, inc>>
  BY DEF BeginFull
<1>2. cur = Null
  BY <1>1 DEF IInv, Walking
<1>3. TableTypes' /\ Linked'
  BY <1>1, ClearStep DEF IInv
<1>4. Source'
  <2>1. <<>> \in Seq(Events)
    BY EmptySeq
  <2>2. queue' \in [Instances -> Seq(Events)]
    BY <1>1, <2>1 DEF IInv, Source
  <2>3. watch' \in [Instances -> {"live", "dead", "none"}]
    BY <1>1 DEF IInv, Source
  <2> QED BY <1>1, <2>2, <2>3 DEF IInv, Source
<1>5. Stack' /\ Version' /\ Complete'
  BY <1>1, <1>2, Begun DEF IInv, inc
<1>6. Control'
  BY <1>1 DEF IInv, Control, copy
<1>7. Walking'
  BY <1>1, <1>2 DEF IInv, Walking, inc
<1> QED BY <1>3, <1>4, <1>5, <1>6, <1>7 DEF IInv

(* All calls return at once; nothing is claimed of the version.            *)
LEMMA GiveUpStep ==
  ASSUME IInv, GiveUp, UNCHANGED <<table, watch, queue>>
  PROVE  IInv'
<1>1. /\ pc' = "idle" /\ config' = FALSE /\ stack' = <<>>
      /\ cur' = Null /\ event' = <<>> /\ failed' = TRUE /\ kept' = {}
      /\ UNCHANGED <<exists, mode, stale, made, copy, list_no, merged>>
  BY DEF GiveUp
<1>2. stack' \in Seq(Calls) /\ Len(stack') = 0
  BY <1>1, EmptySeq
<1>3. Control'
  BY <1>1 DEF IInv, Control, copy
<1>4. Walking'
  BY <1>1 DEF IInv, Walking
<1>5. Stack' /\ Complete'
  BY <1>1, <1>2 DEF Stack, Complete
<1>6. Source'
  BY <1>1, Same DEF source
<1> QED BY <1>1, <1>3, <1>4, <1>5, <1>6, Same DEF IInv

(* The call on top goes on: in the same directory, with entries of it.     *)
LEMMA TopStep ==
  ASSUME IInv, pc \in {"open", "watch", "list", "scan"}, NEW f \in Calls, SetFrame(f),
         f.dir = Frame.dir, f.todo \subseteq Entries(f.dir),
         f.gone => Frame.gone,
         pc' \in {"watch", "list", "scan"},
         pc' = "scan" => (~f.gone => Entries(f.dir) \cap exists \subseteq f.todo),
         UNCHANGED <<exists, cur, made, kept>>
  PROVE  Stack' /\ Complete'
<1>1. stack \in Seq(Calls) /\ stack # <<>>
  BY DEF IInv, Stack
<1> DEFINE n == Len(stack)
<1>2. /\ n \in Nat \ {0} /\ n \in 1 .. n /\ Frame = stack[n]
      /\ stack' \in Seq(Calls) /\ Len(stack') = n /\ stack'[n] = f /\ stack' # <<>>
      /\ \A i \in 1 .. n : i # n => stack'[i] = stack[i]
  BY <1>1, Top, SetTop DEF SetFrame, Frame
<1> HIDE DEF n
<1>3. \A i \in 1 .. n : /\ stack'[i].dir = stack[i].dir
                        /\ stack'[i].todo \subseteq Entries(stack'[i].dir)
                        /\ stack'[i].gone => stack[i].gone
  BY <1>2 DEF IInv, Stack, n
<1>4. Stack'
  BY <1>2, <1>3 DEF IInv, Stack, n
<1>5. ASSUME NEW k \in kept \ made, Parent[k] \in made \cup {Root} PROVE Owed(k)'
  <2>1. PICK i \in 1 .. n : /\ stack[i].dir = Parent[k]
                            /\ k \in stack[i].todo \/ (i = n /\ pc \in {"open", "watch", "list"})
    BY <1>5 DEF IInv, Complete, Owed, n
  <2>2. k \in exists /\ k \in Paths
    BY DEF IInv, Complete, Source
  <2>3. CASE i # n
    BY <1>2, <2>1, <2>3 DEF Owed
  <2>4. CASE i = n /\ pc' # "scan"
    BY <1>2, <1>3, <2>1, <2>4 DEF Owed
  <2>5. CASE i = n /\ pc' = "scan"
    <3>1. k \in Entries(f.dir) /\ f.dir = stack[n].dir
      BY <1>2, <2>1, <2>2, <2>5 DEF Entries
    <3>2. ~f.gone
      BY <1>2, <3>1 DEF IInv, Complete, n
    <3>3. k \in f.todo
      BY <2>2, <2>5, <3>1, <3>2
    <3> QED BY <1>2, <2>1, <2>5, <3>3 DEF Owed
  <2> QED BY <2>3, <2>4, <2>5
<1>6. Complete'
  <2>1. kept' \subseteq exists' \ {Root} /\ \A k \in kept' : Parent[k] \in kept' \cup {Root}
    BY DEF IInv, Complete
  <2>2. pc' \in {"inc", "handle", "handled"} \/ cur' # Null => kept' = {}
    BY DEF IInv, Complete
  <2>3. \A i \in 1 .. Len(stack') : stack'[i].gone => Entries(stack'[i].dir) \cap kept' = {}
    BY <1>2, <1>3 DEF IInv, Complete, n
  <2> QED BY <1>5, <2>1, <2>2, <2>3 DEF Complete
<1> QED BY <1>4, <1>6

LEMMA FrameIs ==
  ASSUME IInv, stack # <<>>
  PROVE  /\ Frame \in Calls /\ Frame = stack[Len(stack)] /\ Len(stack) \in 1 .. Len(stack)
         /\ Frame.dir \in made \cup {Root} /\ Frame.todo \subseteq Entries(Frame.dir)
<1>1. stack \in Seq(Calls)
  BY DEF IInv, Stack
<1>2. Frame \in Calls /\ Frame = stack[Len(stack)] /\ Len(stack) \in 1 .. Len(stack)
  BY <1>1, Top DEF Frame
<1> QED BY <1>2 DEF IInv, Stack

LEMMA OpenDirStep ==
  ASSUME IInv, OpenDir
  PROVE  IInv'
<1>1. pc = "open" /\ UNCHANGED <<table, watch, queue>>
  BY DEF OpenDir
<1>2. ASSUME GiveUp PROVE IInv'
  BY <1>1, <1>2, GiveUpStep
<1>3. ASSUME ~GiveUp PROVE IInv'
  <2> DEFINE f == [Frame EXCEPT !.gone = FALSE]
  <2>1. /\ pc' = (IF mode = INOTIFY THEN "watch" ELSE "list") /\ SetFrame(f)
        /\ UNCHANGED <<exists, stale, mode, config, made, copy, inc, past, kept>>
    BY <1>3 DEF OpenDir
  <2>2. Frame \in Calls /\ Frame.todo \subseteq Entries(Frame.dir)
    BY <1>1, FrameIs DEF IInv, Stack
  <2>3. f \in Calls /\ f.dir = Frame.dir /\ f.todo = Frame.todo /\ f.gone = FALSE
    BY <2>2 DEF Calls
  <2> HIDE DEF f
  <2>4. Stack' /\ Complete'
    BY <1>1, <2>1, <2>2, <2>3, TopStep DEF inc
  <2>5. Control'
    BY <2>1 DEF IInv, Control, copy, past
  <2>6. Walking'
    BY <1>1, <2>1 DEF IInv, Walking, inc, table
  <2>7. Source'
    BY <1>1, <2>1, Same DEF source
  <2> QED BY <1>1, <2>1, <2>4, <2>5, <2>6, <2>7, Same DEF IInv
<1> QED BY <1>2, <1>3

LEMMA ListStep ==
  ASSUME IInv, List
  PROVE  IInv'
<1> DEFINE f == [Frame EXCEPT !.todo = IF Frame.gone THEN {} ELSE Entries(Frame.dir) \cap exists]
<1>1. /\ pc = "list" /\ pc' = "scan" /\ SetFrame(f)
      /\ UNCHANGED <<table, source, mode, config, made, copy, inc, past, kept>>
  BY DEF List
<1>2. Frame \in Calls
  BY <1>1, FrameIs DEF IInv, Stack
<1>3. /\ f.dir = Frame.dir /\ f.gone = Frame.gone
      /\ f.todo = (IF Frame.gone THEN {} ELSE Entries(Frame.dir) \cap exists)
      /\ f.todo \subseteq Entries(f.dir)
  BY <1>2 DEF Calls
<1>4. f \in Calls
  <2>1. Entries(Frame.dir) \cap exists \in SUBSET Paths
    BY DEF Entries
  <2> HIDE DEF Entries
  <2> QED BY <1>2, <2>1 DEF Calls
<1> HIDE DEF f
<1>5. Stack' /\ Complete'
  BY <1>1, <1>3, <1>4, TopStep DEF source, inc
<1>6. Control'
  BY <1>1 DEF IInv, Control, copy, past
<1>7. Walking'
  BY <1>1 DEF IInv, Walking, inc, table
<1> QED BY <1>1, <1>5, <1>6, <1>7, Same DEF IInv

(* There is an element for every instance that can still be opened.        *)
LEMMA Added ==
  ASSUME IInv, AddWatch, ~(GiveUp /\ UNCHANGED <<table, watch, queue>>)
  PROVE  \E v \in Instances \ fds, e \in Elements \ live :
           /\ Frame.dir \in Keys /\ Frame.dir \in exists
           /\ SetValue(e, Frame.dir, v) /\ watch' = [watch EXCEPT ![v] = "live"] /\ pc' = "list"
           /\ UNCHANGED <<exists, stale, queue, mode, config, stack, made, copy, inc, past, kept>>
<1>1. Frame \in Calls
  BY FrameIs DEF AddWatch, IInv, Stack
<1> DEFINE v == CHOOSE v \in Instances \ fds : \A u \in Instances \ fds : v <= u
           e == CHOOSE e \in Elements \ live : \A u \in Elements \ live : e <= u
<1>2. /\ fds # Instances /\ Frame.dir \in exists
      /\ SetValue(e, Frame.dir, v) /\ watch' = [watch EXCEPT ![v] = "live"] /\ pc' = "list"
      /\ UNCHANGED <<exists, stale, queue, mode, config, stack, made, copy, inc, past, kept>>
  BY DEF AddWatch
<1>3. v \in Instances \ fds
  <2>1. Instances \ fds \subseteq Nat /\ Instances \ fds # {}
    BY <1>2, Constants DEF IInv, TableTypes
  <2>2. \E x \in Instances \ fds : \A u \in Instances \ fds : x <= u
    BY <2>1, Smallest
  <2> QED BY <2>2
<1>4. e \in Elements \ live
  <2>1. Elements \ live \subseteq Nat /\ Elements \ live # {}
    BY <1>2, Constants, ElementLeft DEF IInv
  <2>2. \E x \in Elements \ live : \A u \in Elements \ live : x <= u
    BY <2>1, Smallest
  <2> QED BY <2>2
<1> HIDE DEF e, v
<1> QED BY <1>1, <1>2, <1>3, <1>4 DEF Calls, Dirs

LEMMA AddWatchStep ==
  ASSUME IInv, AddWatch
  PROVE  IInv'
<1>1. pc = "watch" /\ stack # <<>> /\ Frame.todo \subseteq Entries(Frame.dir)
  BY FrameIs DEF AddWatch, IInv, Stack
<1>2. ASSUME GiveUp, UNCHANGED <<table, watch, queue>> PROVE IInv'
  BY <1>2, GiveUpStep
<1>3. ASSUME ~(GiveUp /\ UNCHANGED <<table, watch, queue>>) PROVE IInv'
  <2>1. PICK v \in Instances \ fds, e \in Elements \ live :
          /\ Frame.dir \in Keys
          /\ SetValue(e, Frame.dir, v) /\ watch' = [watch EXCEPT ![v] = "live"] /\ pc' = "list"
          /\ UNCHANGED <<exists, stale, queue, mode, config, stack, made, copy, inc, past, kept>>
    BY <1>3, Added
  <2>2. PICK d \in Keys : d = Frame.dir /\ SetValue(e, d, v)
    BY <2>1
  <2>3. /\ hash' = hash /\ live' = live \cup {e}
        /\ \A y \in live : elem'[y].key = elem[y].key
    BY <2>2, SetValueKeeps DEF IInv
  <2>4. TableTypes' /\ Linked'
    <3>1. PICK c \in [Lists -> Seq(Elements)] : Chains(c)
      BY DEF IInv, Linked
    <3>2. TableTypes' /\ \E t \in [Lists -> Seq(Elements)] : Chains(t)'
      BY <2>2, <3>1, SetValueStep DEF IInv
    <3> QED BY <3>2 DEF Linked
  <2>5. Source'
    BY <2>1 DEF IInv, Source
  <2>6. Control'
    BY <2>1 DEF IInv, Control, copy, past
  <2>7. Walking'
    <3>1. cur # Null => cur \in live' /\ hash'[elem'[cur].key] = list_no
      BY <2>3 DEF IInv, Walking
    <3> QED BY <1>1, <2>1, <3>1 DEF IInv, Walking, inc
  <2>8. Stack' /\ Complete'
    <3>1. Stack'
      BY <1>1, <2>1 DEF IInv, Stack, inc
    <3>2. \A k \in kept' \ made' : Parent[k] \in made' \cup {Root} => Owed(k)'
      BY <1>1, <2>1 DEF IInv, Complete, Owed
    <3>3. Complete'
      BY <1>1, <2>1, <3>2 DEF IInv, Complete, inc
    <3> QED BY <3>1, <3>3
  <2> QED BY <2>1, <2>4, <2>5, <2>6, <2>7, <2>8, Same DEF IInv
<1> QED BY <1>2, <1>3

(* The calls that go on once p is copied.                                  *)
Ready(calls, p) ==
  /\ calls \in Seq(Calls) /\ (calls = <<>> => cur # Null)
  /\ \A i \in 1 .. Len(calls) : /\ calls[i].dir \in made \cup {Root}
                                /\ calls[i].todo \subseteq Entries(calls[i].dir)
                                /\ calls[i].gone => Entries(calls[i].dir) \cap kept = {}
  /\ \A i, j \in 1 .. Len(calls) : calls[i].dir = calls[j].dir => i = j
  /\ \A k \in kept \ (made \cup {p}) : Parent[k] \in made \cup {Root} =>
       \E i \in 1 .. Len(calls) : calls[i].dir = Parent[k] /\ k \in calls[i].todo

\* They are still to meet all that the calls so far are to meet, but p.
Remain(calls, p) ==
  \A i \in 1 .. Len(stack) : \A q \in stack[i].todo : q = p \/ \E j \in 1 .. Len(calls) : q \in calls[j].todo

LEMMA EntryReady ==
  ASSUME IInv, pc = "scan", NEW p \in Frame.todo
  PROVE  LET calls == [stack EXCEPT ![Len(stack)].todo = @ \ {p}]
         IN  Ready(calls, p) /\ Remain(calls, p) /\ Parent[p] \in made \cup {Root}
<1> DEFINE n == Len(stack)
           f == [Frame EXCEPT !.todo = @ \ {p}]
           calls == [stack EXCEPT ![n] = f]
<1>1. stack \in Seq(Calls) /\ stack # <<>>
  BY DEF IInv, Stack
<1>2. Frame \in Calls /\ Frame = stack[n] /\ n \in 1 .. n /\ p \in Entries(Frame.dir)
      /\ Frame.dir \in made \cup {Root} /\ Frame.todo \subseteq Entries(Frame.dir)
  BY <1>1, FrameIs
<1>3. /\ f \in Calls /\ f.dir = Frame.dir /\ f.todo = Frame.todo \ {p} /\ f.gone = Frame.gone
  BY <1>2 DEF Calls
<1>4. [stack EXCEPT ![Len(stack)].todo = @ \ {p}] = calls
  <2>1. stack \in [1 .. n -> Calls]
    BY <1>1, LenProperties
  <2> QED BY <1>2, <2>1 DEF Calls
<1> HIDE DEF f
<1>5. /\ calls \in Seq(Calls) /\ Len(calls) = n /\ calls[n] = f /\ calls # <<>>
      /\ \A i \in 1 .. n : i # n => calls[i] = stack[i]
  BY <1>1, <1>3, SetTop
<1> HIDE DEF calls, n
<1>6. \A i \in 1 .. n : /\ calls[i].dir = stack[i].dir /\ calls[i].todo \subseteq stack[i].todo
                        /\ calls[i].gone = stack[i].gone
                        /\ \A k \in stack[i].todo : k # p => k \in calls[i].todo
  BY <1>2, <1>3, <1>5
<1>7. \A i \in 1 .. n : /\ calls[i].dir \in made \cup {Root}
                        /\ calls[i].todo \subseteq Entries(calls[i].dir)
                        /\ calls[i].gone => Entries(calls[i].dir) \cap kept = {}
  BY <1>6 DEF IInv, Stack, Complete, n
<1>8. \A i, j \in 1 .. n : calls[i].dir = calls[j].dir => i = j
  BY <1>6 DEF IInv, Stack, n
<1>9. ASSUME NEW k \in kept \ (made \cup {p}), Parent[k] \in made \cup {Root}
      PROVE  \E i \in 1 .. n : calls[i].dir = Parent[k] /\ k \in calls[i].todo
  <2>1. Owed(k)
    BY <1>9 DEF IInv, Complete
  <2>2. PICK i \in 1 .. n : stack[i].dir = Parent[k] /\ k \in stack[i].todo
    BY <2>1 DEF Owed, n
  <2> QED BY <1>6, <2>2
<1>10. Parent[p] \in made \cup {Root}
  BY <1>2 DEF Entries
<1>11. Ready(calls, p)
  BY <1>5, <1>7, <1>8, <1>9 DEF Ready
<1>12. Remain(calls, p)
  BY <1>5, <1>6, Zenon DEF Remain, n
<1> QED BY <1>4, <1>10, <1>11, <1>12

LEMMA ChangedReady ==
  ASSUME IInv, pc = "handled"
  PROVE  Ready(<<>>, event[2]) /\ event[2] \in Paths /\ Parent[event[2]] \in made \cup {Root}
<1>1. <<>> \in Seq(Calls) /\ Len(<<>>) = 0
  BY EmptySeq
<1>2. kept = {} /\ cur # Null /\ event[2] \in Paths /\ Above(event[2]) \ {Root} \subseteq made
  BY DEF IInv, Complete, Walking, Events
<1>3. Parent[event[2]] \in made \cup {Root}
  BY <1>2, AboveIs
<1> QED BY <1>1, <1>2, <1>3 DEF Ready

LEMMA CopyStep ==
  ASSUME IInv, NEW p \in Paths \ Dirs, NEW calls, Ready(calls, p), Parent[p] \in made \cup {Root},
         Copy(p, calls), UNCHANGED <<table, watch, queue>>
  PROVE  IInv'
<1>1. ASSUME GiveUp PROVE IInv'
  BY <1>1, GiveUpStep
<1>2. ASSUME ~GiveUp PROVE IInv'
  <2>1. /\ p \in exists /\ (p \in Regular \/ p \notin made)
        /\ made' = made \cup {p} /\ stale' = stale \ {p} /\ stack' = calls
        /\ pc' = (IF p \in Regular THEN "copy" ELSE Caller(calls))
        /\ copying' = (IF p \in Regular THEN p ELSE Null)
        /\ UNCHANGED <<exists, mode, config, endless, inc, past, kept>>
    BY <1>2 DEF Copy
  <2>2. pc' \in {"copy", "inc", "scan"} /\ (pc' = "inc" => calls = <<>>) /\ (pc' = "scan" => calls # <<>>)
    BY <2>1 DEF Caller
  <2>3. Source'
    BY <2>1 DEF IInv, Source
  <2>4. Control'
    BY <2>1, <2>2 DEF IInv, Control, past
  <2>5. Walking'
    BY <2>1, <2>2 DEF IInv, Walking, inc, table
  <2>6. Stack'
    BY <2>1, <2>2 DEF Ready, Stack, inc
  <2>7. Version'
    BY <2>1 DEF IInv, Version, VersionClosed
  <2>8. Complete'
    <3>1. kept' \subseteq exists' \ {Root} /\ \A k \in kept' : Parent[k] \in kept' \cup {Root}
      BY <2>1 DEF IInv, Complete
    <3>2. pc' \in {"inc", "handle", "handled"} \/ cur' # Null => kept' = {}
      BY <2>1, <2>2 DEF IInv, Complete, Ready, inc
    <3>3. \A i \in 1 .. Len(stack') : stack'[i].gone => Entries(stack'[i].dir) \cap kept' = {}
      BY <2>1 DEF Ready
    <3>4. ASSUME NEW k \in kept' \ made', Parent[k] \in made' \cup {Root} PROVE Owed(k)'
      <4>1. Parent[k] # p
        BY <3>1, <2>1, Tree DEF IInv, Complete, Source
      <4>2. \E i \in 1 .. Len(calls) : calls[i].dir = Parent[k] /\ k \in calls[i].todo
        BY <2>1, <3>4, <4>1 DEF Ready
      <4> QED BY <2>1, <4>2 DEF Owed
    <3> QED BY <3>1, <3>2, <3>3, <3>4 DEF Complete
  <2> QED BY <2>3, <2>4, <2>5, <2>6, <2>7, <2>8, Same DEF IInv
<1> QED BY <1>1, <1>2

LEMMA DescendStep ==
  ASSUME IInv, NEW d \in Paths, d \in Dirs, NEW calls, Ready(calls, d), Parent[d] \in made \cup {Root},
         Descend(d, calls), UNCHANGED <<table, watch, queue>>
  PROVE  IInv'
<1>1. ASSUME GiveUp PROVE IInv'
  BY <1>1, GiveUpStep
<1>2. ASSUME ~GiveUp PROVE IInv'
  <2> DEFINE n == Len(calls)
  <2>1. /\ d \in exists \ made /\ made' = made \cup {d}
        /\ stack' = Append(calls, Call(d)) /\ pc' = "open"
        /\ UNCHANGED <<exists, mode, stale, config, copy, inc, past, kept>>
    BY <1>2 DEF Descend
  <2>2. Call(d) \in Calls /\ Call(d).dir = d /\ Call(d).todo = {} /\ Call(d).gone = FALSE
    BY DEF Call, Calls
  <2>3. /\ stack' \in Seq(Calls) /\ Len(stack') = n + 1 /\ stack'[n + 1] = Call(d) /\ n \in Nat
        /\ \A i \in 1 .. n : stack'[i] = calls[i]
    BY <2>1, <2>2, AppendProperties, LenProperties DEF Ready
  <2>4. stack' # <<>>
    BY <2>3, EmptySeq
  <2>5. /\ \A i \in 1 .. n : /\ calls[i].dir \in made \cup {Root}
                             /\ calls[i].todo \subseteq Entries(calls[i].dir)
                             /\ calls[i].gone => Entries(calls[i].dir) \cap kept = {}
        /\ \A i, j \in 1 .. n : calls[i].dir = calls[j].dir => i = j
    BY DEF Ready
  <2> HIDE DEF n
  <2>6. \A i \in 1 .. n + 1 : i \in 1 .. n \/ i = n + 1
    BY <2>3
  <2>7. Source'
    BY <2>1, Same DEF source
  <2>8. Control'
    BY <2>1 DEF IInv, Control, past, copy
  <2>9. Walking'
    BY <2>1 DEF IInv, Walking, inc, table
  <2>10. Stack'
    <3>1. \A i \in 1 .. n : calls[i].dir # d
      BY <2>1, <2>5, Tree
    <3>2. \A i \in 1 .. n + 1 : /\ stack'[i].dir \in made' \cup {Root}
                                /\ stack'[i].todo \subseteq Entries(stack'[i].dir)
      BY <2>1, <2>2, <2>3, <2>5, <2>6
    <3>3. \A i, j \in 1 .. n + 1 : stack'[i].dir = stack'[j].dir => i = j
      BY <2>2, <2>3, <2>5, <2>6, <3>1
    <3> QED BY <2>1, <2>3, <2>4, <3>2, <3>3 DEF Stack
  <2>11. Version'
    BY <2>1 DEF IInv, Version, VersionClosed
  <2>12. Complete'
    <3>1. kept' \subseteq exists' \ {Root} /\ \A k \in kept' : Parent[k] \in kept' \cup {Root}
      BY <2>1 DEF IInv, Complete
    <3>2. pc' \in {"inc", "handle", "handled"} \/ cur' # Null => kept' = {}
      BY <2>1 DEF IInv, Complete, inc
    <3>3. \A i \in 1 .. n + 1 : stack'[i].gone => Entries(stack'[i].dir) \cap kept' = {}
      BY <2>1, <2>2, <2>3, <2>5, <2>6
    <3>4. ASSUME NEW k \in kept' \ made', Parent[k] \in made' \cup {Root} PROVE Owed(k)'
      <4>1. CASE Parent[k] = d
        <5>1. n + 1 \in 1 .. n + 1
          BY <2>3
        <5> QED BY <2>1, <2>2, <2>3, <4>1, <5>1 DEF Owed
      <4>2. CASE Parent[k] # d
        <5>1. PICK i \in 1 .. n : calls[i].dir = Parent[k] /\ k \in calls[i].todo
          BY <2>1, <3>4, <4>2 DEF Ready, n
        <5>2. i \in 1 .. n + 1
          BY <2>3
        <5> QED BY <2>3, <5>1, <5>2 DEF Owed
      <4> QED BY <4>1, <4>2
    <3> QED BY <2>3, <3>1, <3>2, <3>3, <3>4 DEF Complete
  <2> QED BY <2>7, <2>8, <2>9, <2>10, <2>11, <2>12, Same DEF IInv
<1> QED BY <1>1, <1>2

LEMMA EntryStep ==
  ASSUME IInv, NEW p \in Paths, Entry(p)
  PROVE  IInv'
<1> DEFINE calls == [stack EXCEPT ![Len(stack)].todo = @ \ {p}]
<1>1. pc = "scan" /\ p \in Frame.todo /\ UNCHANGED <<table, watch, queue>>
      /\ IF p \in Dirs THEN Descend(p, calls) ELSE Copy(p, calls)
  BY DEF Entry
<1>2. Ready(calls, p) /\ Parent[p] \in made \cup {Root}
  BY <1>1, EntryReady
<1> HIDE DEF calls
<1> QED BY <1>1, <1>2, CopyStep, DescendStep

LEMMA ChangedStep ==
  ASSUME IInv, Changed
  PROVE  IInv'
<1>1. pc = "handled" /\ UNCHANGED <<table, watch, queue>>
      /\ IF event[2] \in Dirs THEN Descend(event[2], <<>>) ELSE Copy(event[2], <<>>)
  BY DEF Changed
<1>2. Ready(<<>>, event[2]) /\ event[2] \in Paths /\ Parent[event[2]] \in made \cup {Root}
  BY <1>1, ChangedReady
<1> QED BY <1>1, <1>2, CopyStep, DescendStep

LEMMA FinishCopyStep ==
  ASSUME IInv, FinishCopy
  PROVE  IInv'
<1>1. /\ pc = "copy" /\ pc' = Caller(stack) /\ copying' = Null
      /\ UNCHANGED <<table, source, mode, config, stack, made, endless, inc, past, kept>>
  BY DEF FinishCopy
<1>2. pc' \in {"inc", "scan"} /\ (pc' = "inc" => stack = <<>>) /\ (pc' = "scan" => stack # <<>>)
  BY <1>1 DEF Caller
<1>3. Control'
  BY <1>1, <1>2 DEF IInv, Control, past
<1>4. Walking'
  BY <1>1, <1>2 DEF IInv, Walking, inc, table
<1>5. Stack'
  BY <1>1, <1>2 DEF IInv, Stack, inc
<1>6. Complete'
  <2>1. \A k \in kept' \ made' : Parent[k] \in made' \cup {Root} => Owed(k)'
    BY <1>1 DEF IInv, Complete, Owed
  <2>2. pc' = "inc" => kept = {}
    BY <1>1, <1>2 DEF IInv, Complete, Stack
  <2> QED BY <1>1, <1>2, <2>1, <2>2 DEF IInv, Complete, inc, source
<1> QED BY <1>1, <1>3, <1>4, <1>5, <1>6, Same DEF IInv

(* The call that returns has met all its entries.                          *)
LEMMA LeaveStep ==
  ASSUME IInv, Leave
  PROVE  IInv'
<1> DEFINE n == Len(stack)
<1>1. /\ pc = "scan" /\ Frame.todo = {} /\ stack' = Sx!Front(stack)
      /\ \/ n = 1 /\ cur = Null /\ pc' = "idle" /\ config' = FALSE
         \/ (n > 1 \/ cur # Null) /\ pc' = Caller(stack') /\ UNCHANGED config
      /\ UNCHANGED <<table, source, mode, made, copy, inc, past, kept>>
  BY DEF Leave
<1>2. stack \in Seq(Calls) /\ stack # <<>>
  BY <1>1 DEF IInv, Stack
<1>3. /\ n \in Nat \ {0} /\ Frame = stack[n]
      /\ stack' \in Seq(Calls) /\ Len(stack') = n - 1
      /\ \A i \in 1 .. n - 1 : stack'[i] = stack[i]
  BY <1>1, <1>2, Top DEF Frame
<1>4. stack' = <<>> <=> n = 1
  BY <1>3, EmptySeq
<1>5. /\ pc' \in {"idle", "inc", "scan"}
      /\ pc' \in {"idle", "inc"} => stack' = <<>>
      /\ pc' = "scan" => stack' # <<>>
      /\ pc' = "idle" => cur = Null
      /\ pc' = "inc" => cur # Null
  BY <1>1, <1>3, <1>4 DEF Caller
<1>6. Control'
  BY <1>1, <1>5 DEF IInv, Control, past, copy
<1>7. Walking'
  BY <1>1, <1>5 DEF IInv, Walking, inc, table
<1> HIDE DEF n
<1>8. \A i \in 1 .. n - 1 : i \in 1 .. n
  BY <1>3
<1>9. Stack'
  <2>1. \A i \in 1 .. n - 1 : /\ stack'[i].dir \in made' \cup {Root}
                              /\ stack'[i].todo \subseteq Entries(stack'[i].dir)
    BY <1>1, <1>3, <1>8 DEF IInv, Stack, n
  <2>2. \A i, j \in 1 .. n - 1 : stack'[i].dir = stack'[j].dir => i = j
    BY <1>3, <1>8 DEF IInv, Stack, n
  <2> QED BY <1>3, <1>5, <2>1, <2>2 DEF Stack
<1>10. Complete'
  <2>1. kept' \subseteq exists' \ {Root} /\ \A k \in kept' : Parent[k] \in kept' \cup {Root}
    BY <1>1 DEF IInv, Complete, source
  <2>2. pc' \in {"inc", "handle", "handled"} \/ cur' # Null => kept' = {}
    BY <1>1, <1>5 DEF IInv, Complete, inc
  <2>3. \A i \in 1 .. n - 1 : stack'[i].gone => Entries(stack'[i].dir) \cap kept' = {}
    BY <1>1, <1>3, <1>8 DEF IInv, Complete, n
  <2>4. ASSUME NEW k \in kept' \ made', Parent[k] \in made' \cup {Root} PROVE Owed(k)'
    <3>1. Owed(k)
      BY <1>1, <2>4 DEF IInv, Complete
    <3>2. PICK i \in 1 .. n : stack[i].dir = Parent[k] /\ k \in stack[i].todo
      BY <1>1, <3>1 DEF Owed, n
    <3>3. i \in 1 .. n - 1
      BY <1>1, <1>3, <3>2
    <3> QED BY <1>3, <3>2, <3>3 DEF Owed
  <2> QED BY <1>3, <2>1, <2>2, <2>3, <2>4 DEF Complete
<1> QED BY <1>1, <1>6, <1>7, <1>9, <1>10, Same DEF IInv

LEMMA BeginIncStep ==
  ASSUME IInv, BeginInc
  PROVE  IInv'
<1>1. /\ pc = "idle" /\ pc' = "inc" /\ list_no' = 0 /\ cur' = list[0].head /\ made' = {} /\ kept' = {}
      /\ UNCHANGED <<table, source, mode, config, stack, event, copy, past>>
  BY DEF BeginInc
<1>2. stack = <<>> /\ Len(stack) = 0 /\ stack \in Seq(Calls)
  BY <1>1, EmptySeq DEF IInv, Stack
<1>3. Control'
  BY <1>1 DEF IInv, Control, copy, past
<1>4. Walking'
  BY <1>1, Constants, HeadInList DEF IInv, Walking, table
<1>5. Stack'
  BY <1>1, <1>2 DEF IInv, Stack
<1>6. Complete'
  BY <1>1, <1>2 DEF IInv, Complete
<1>7. Version'
  BY <1>1 DEF Version, VersionClosed
<1> QED BY <1>1, <1>3, <1>4, <1>5, <1>6, <1>7, Same DEF IInv

LEMMA NextListStep ==
  ASSUME IInv, NextList
  PROVE  IInv'
<1>1. /\ pc = "inc" /\ cur = Null
      /\ \/ /\ list_no + 1 \in Lists
            /\ list_no' = list_no + 1 /\ cur' = list[list_no + 1].head /\ UNCHANGED pc
         \/ pc' = "idle" /\ UNCHANGED <<list_no, cur>>
      /\ UNCHANGED <<table, source, mode, config, stack, made, event, copy, past, kept>>
  BY DEF NextList
<1>2. stack = <<>> /\ Len(stack) = 0 /\ stack \in Seq(Calls) /\ kept = {}
  BY <1>1, EmptySeq DEF IInv, Stack, Complete
<1>3. Control'
  BY <1>1 DEF IInv, Control, copy, past
<1>4. Walking'
  BY <1>1, HeadInList DEF IInv, Walking, table
<1>5. Stack'
  BY <1>1, <1>2 DEF IInv, Stack
<1>6. Complete'
  BY <1>1, <1>2 DEF IInv, Complete
<1> QED BY <1>1, <1>3, <1>4, <1>5, <1>6, Same DEF IInv

LEMMA NoEventStep ==
  ASSUME IInv, NoEvent
  PROVE  IInv'
<1>1. /\ pc = "inc" /\ cur # Null /\ cur' = elem[cur].next
      /\ UNCHANGED <<table, source, pc, mode, config, stack, made, list_no, event, copy, past, kept>>
  BY DEF NoEvent
<1>2. Walking'
  BY <1>1, NextInList DEF IInv, Walking, table
<1>3. Stack'
  BY <1>1 DEF IInv, Stack
<1>4. Complete'
  <2>1. \A k \in kept' \ made' : Parent[k] \in made' \cup {Root} => Owed(k)'
    BY <1>1 DEF IInv, Complete, Owed
  <2> QED BY <1>1, <2>1 DEF IInv, Complete, source
<1> QED BY <1>1, <1>2, <1>3, <1>4, Same DEF IInv, copy, past

LEMMA ReadStep ==
  ASSUME IInv, Read
  PROVE  IInv'
<1> DEFINE v == elem[cur].value
<1>1. /\ pc = "inc" /\ cur # Null /\ queue[v] # <<>> /\ event' = Head(queue[v])
      /\ queue' = [queue EXCEPT ![v] = <<>>] /\ merged' = (merged \/ Len(queue[v]) > 1)
      /\ pc' = "handle"
      /\ UNCHANGED <<table, exists, stale, watch, mode, config, stack, made, list_no, cur, copy, failed, kept>>
  BY DEF Read
<1>2. v \in Instances
  BY <1>1 DEF IInv, Walking, TableTypes
<1>3. event' \in Events
  BY <1>1, <1>2, HeadTailProperties DEF IInv, Source
<1>4. Source'
  <2>1. <<>> \in Seq(Events)
    BY EmptySeq
  <2> QED BY <1>1, <1>2, <2>1 DEF IInv, Source
<1>5. Control'
  BY <1>1 DEF IInv, Control, copy
<1>6. Walking'
  BY <1>1, <1>3 DEF IInv, Walking, table
<1>7. Stack'
  BY <1>1 DEF IInv, Stack
<1>8. Complete'
  <2>1. \A k \in kept' \ made' : Parent[k] \in made' \cup {Root} => Owed(k)'
    BY <1>1 DEF IInv, Complete, Owed
  <2> QED BY <1>1, <2>1 DEF IInv, Complete
<1> QED BY <1>1, <1>4, <1>5, <1>6, <1>7, <1>8, Same DEF IInv

LEMMA DeleteSelfStep ==
  ASSUME IInv, DeleteSelf
  PROVE  IInv'
<1>1. /\ pc = "handle" /\ cur' = elem[cur].next /\ Remove(elem[cur].key)
      /\ watch' = [v \in Instances |-> IF v \in fds' THEN watch[v] ELSE "none"]
      /\ queue' = [v \in Instances |-> IF v \in fds' THEN queue[v] ELSE <<>>]
      /\ pc' = "inc" /\ event' = <<>>
      /\ UNCHANGED <<exists, stale, mode, config, stack, made, list_no, copy, past, kept>>
  BY DEF DeleteSelf
<1>2. cur \in live /\ hash[elem[cur].key] = list_no /\ stack = <<>> /\ kept = {}
      /\ Len(stack) = 0 /\ stack \in Seq(Calls)
  BY <1>1, EmptySeq DEF IInv, Walking, Stack, Complete
<1>3. /\ TableTypes' /\ Linked' /\ hash' = hash /\ live' \subseteq live
      /\ \A y \in live' : elem'[y].key = elem[y].key
      /\ elem[cur].next # Null => elem[cur].next \in live'
  <2>1. PICK x \in live : x = cur
    BY <1>2
  <2>2. Remove(elem[x].key)
    BY <1>1, <2>1
  <2>3. /\ TableTypes' /\ Linked' /\ hash' = hash /\ live' \subseteq live
        /\ \A y \in live' : elem'[y].key = elem[y].key
        /\ elem[x].next # Null => elem[x].next \in live'
    <3>1. PICK c \in [Lists -> Seq(Elements)] : Chains(c)
      BY DEF IInv, Linked
    <3>2. \E e \in live :
            /\ hash' = hash /\ live' = live \ {e}
            /\ \A y \in live' : elem'[y].key = elem[y].key /\ elem'[y].value = elem[y].value
            /\ elem[x].next # Null => elem[x].next \in live'
            /\ TableTypes' /\ \E d \in [Lists -> Seq(Elements)] : Chains(d)'
      BY <2>2, <3>1, RemoveStep DEF IInv
    <3> QED BY <3>2 DEF Linked
  <2> QED BY <2>1, <2>3
<1>4. Source'
  <2>1. <<>> \in Seq(Events)
    BY EmptySeq
  <2>2. queue' \in [Instances -> Seq(Events)]
    BY <1>1, <2>1 DEF IInv, Source
  <2>3. watch' \in [Instances -> {"live", "dead", "none"}]
    BY <1>1 DEF IInv, Source
  <2> QED BY <1>1, <2>2, <2>3 DEF IInv, Source
<1>5. Control'
  BY <1>1 DEF IInv, Control, copy, past
<1>6. Walking'
  <2>1. cur' # Null => hash[elem[cur'].key] = list_no
    BY <1>1, <1>2, NextInList DEF IInv
  <2>2. cur' # Null => cur' \in live' /\ hash'[elem'[cur'].key] = list_no'
    BY <1>1, <1>3, <2>1
  <2> QED BY <1>1, <2>2 DEF IInv, Walking
<1>7. Stack'
  BY <1>1, <1>2 DEF IInv, Stack
<1>8. Complete'
  BY <1>1, <1>2 DEF IInv, Complete
<1> QED BY <1>1, <1>3, <1>4, <1>5, <1>6, <1>7, <1>8, Same DEF IInv

LEMMA CreatedStep ==
  ASSUME IInv, Created
  PROVE  IInv'
<1>1. pc = "handle" /\ UNCHANGED <<table, watch, queue>>
  BY DEF Created
<1>2. ASSUME GiveUp PROVE IInv'
  BY <1>1, <1>2, GiveUpStep
<1>3. ASSUME ~GiveUp PROVE IInv'
  <2> DEFINE above == Above(event[2]) \ {Root}
  <2>1. /\ pc' = "handled" /\ made' = made \cup above
        /\ UNCHANGED <<exists, stale, mode, config, stack, inc, copy, past, kept>>
    BY <1>3 DEF Created, CreateDirectories
  <2>2. event[2] \in Paths /\ stack = <<>> /\ kept = {} /\ cur # Null /\ event \in Events
        /\ Len(stack) = 0 /\ stack \in Seq(Calls)
    BY <1>1, EmptySeq DEF IInv, Walking, Stack, Complete, Events
  <2>3. above \subseteq Paths /\ \A q \in above : Parent[q] \in above \cup {Root}
    BY <2>2, AboveIs, Tree
  <2>4. Control'
    BY <2>1 DEF IInv, Control, copy, past
  <2>5. Walking'
    BY <1>1, <2>1, <2>2 DEF IInv, Walking, inc, table
  <2>6. Stack'
    BY <2>1, <2>2 DEF IInv, Stack
  <2>7. Version'
    <3> HIDE DEF above
    <3> QED BY <2>1, <2>3 DEF IInv, Version, VersionClosed
  <2>8. Complete'
    BY <2>1, <2>2 DEF IInv, Complete
  <2>9. Source'
    BY <1>1, <2>1, Same DEF source
  <2> QED BY <1>1, <2>1, <2>4, <2>5, <2>6, <2>7, <2>8, <2>9, Same DEF IInv
<1> QED BY <1>2, <1>3
-----------------------------------------------------------------------------
LEMMA Invariant == Spec => []IInv
<1>1. Init => IInv
  BY Initially
<1>2. IInv /\ [Next]_vars => IInv'
  <2> SUFFICES ASSUME IInv, [Next]_vars PROVE IInv'
    OBVIOUS
  <2>1. CASE UNCHANGED vars
    BY <2>1, Same DEF vars, source, copy, past, IInv, inc
  <2>2. CASE Next
    <3>1. CASE Users
      BY <3>1, CreateStep, ModifyStep, UnlinkStep, RmdirStep, ChangeModeStep DEF Users
    <3>2. CASE Daemon
      BY <3>2, BeginClassicStep, BeginFullStep, OpenDirStep, AddWatchStep, ListStep, EntryStep,
         FinishCopyStep, LeaveStep, BeginIncStep, NextListStep, NoEventStep, ReadStep,
         DeleteSelfStep, CreatedStep, ChangedStep DEF Daemon
    <3> QED BY <2>2, <3>1, <3>2 DEF Next
  <2> QED BY <2>1, <2>2
<1> QED BY <1>1, <1>2, PTL DEF Spec

(* Nothing that is freed while the table is walked is met again, and the   *)
(* calls of a backup are never deeper than there are directories.          *)
THEOREM TypeCorrect == Spec => []TypeOK
<1>1. IInv => TypeOK
  <2> SUFFICES ASSUME IInv PROVE TypeOK
    OBVIOUS
  <2>1. live \subseteq Elements /\ fds \subseteq Instances
        /\ \A b \in Lists : list[b].size \in 0 .. Cardinality(live)
    BY ListFits DEF IInv, TableTypes
  <2>2. queue \in [Instances -> Seq({"create", "modify", "delete_self"} \X (Paths \cup {Root}))]
    <3>1. \A s \in Seq(Events) : s \in Seq({"create", "modify", "delete_self"} \X (Paths \cup {Root}))
      <4> SUFFICES ASSUME NEW s \in Seq(Events)
                   PROVE  s \in Seq({"create", "modify", "delete_self"} \X (Paths \cup {Root}))
        OBVIOUS
      <4>1. Events \subseteq {"create", "modify", "delete_self"} \X (Paths \cup {Root})
        BY DEF Events, Kinds
      <4> HIDE DEF Events
      <4>2. Len(s) \in Nat /\ s \in [1 .. Len(s) -> Events]
        BY LenProperties
      <4>3. s \in [1 .. Len(s) -> {"create", "modify", "delete_self"} \X (Paths \cup {Root})]
        BY <4>1, <4>2
      <4> QED BY <4>2, <4>3, SeqDef
    <3> QED BY <3>1 DEF IInv, Source
  <2>3. Len(stack) <= Cardinality(Dirs)
    <3> DEFINE n == Len(stack)
               f == [i \in 1 .. n |-> stack[i].dir]
    <3>1. n \in Nat /\ \A i \in 1 .. n : stack[i] \in Calls
      BY LenProperties, ElementOfSeq DEF IInv, Stack
    <3>2. f \in Injection(1 .. n, Dirs)
      <4>1. f \in [1 .. n -> Dirs]
        BY <3>1 DEF Calls
      <4>2. \A i, j \in 1 .. n : f[i] = f[j] => i = j
        BY DEF IInv, Stack
      <4>3. DOMAIN f = 1 .. n
        OBVIOUS
      <4> HIDE DEF f
      <4> QED BY <4>1, <4>2, <4>3 DEF Injection, IsInjective
    <3>3. Cardinality(1 .. n) <= Cardinality(Dirs)
      BY <3>2, FS_Injection, PathAssumption
    <3>4. Cardinality(1 .. n) = n
      <4> HIDE DEF n
      <4>1. Cardinality(1 .. n) = IF 1 > n THEN 0 ELSE n - 1 + 1
        BY <3>1, FS_Interval
      <4> QED BY <3>1, <4>1
    <3> QED BY <3>3, <3>4
  <2>4. cur # Null => cur \in Sx!ToSet(Forward(list_no))
    BY LinksFollow DEF IInv, Walking, LinksAgree
  <2>5. list_no \in Lists /\ made \subseteq Paths /\ kept \subseteq made \cup Paths
    BY DEF IInv, Walking, Version, Complete, Source
  <2>6. exists \subseteq Paths \cup {Root} /\ stale \subseteq exists \cap Regular
        /\ watch \in [Instances -> {"live", "dead", "none"}]
    BY DEF IInv, Source
  <2>7. /\ pc \in {"idle", "open", "watch", "list", "scan", "copy", "inc", "handle", "handled"}
        /\ mode \in {CLASSIC, INOTIFY} /\ {config, endless, failed, merged} \subseteq BOOLEAN
        /\ copying \in Regular \cup {Null}
    BY DEF IInv, Control
  <2> QED BY <2>1, <2>2, <2>3, <2>4, <2>5, <2>6, <2>7 DEF TypeOK
<1> QED BY <1>1, Invariant, PTL

(* Whatever list_pointer.c frees and adds, in the middle of walks too, the *)
(* links of every list agree with each other and no element is lost.       *)
THEOREM ListsLinked == Spec => []LinksAgree
<1>1. IInv => LinksAgree
  BY LinksFollow DEF IInv
<1> QED BY <1>1, Invariant, PTL

(* No inotify instance leaks and none is closed twice, also when a backup  *)
(* is given up half-way.                                                   *)
THEOREM InstancesOwned == Spec => []InstancesMatch
<1>1. IInv => InstancesMatch
  BY InstancesFollow DEF IInv
<1> QED BY <1>1, Invariant, PTL

(* A backup writes only into directories that its version has.             *)
THEOREM VersionIsClosed == Spec => []VersionClosed
<1>1. IInv => VersionClosed
  BY DEF IInv, Version
<1> QED BY <1>1, Invariant, PTL

(* A full backup that is not given up has all that was there from its      *)
(* beginning on: a missing path would have a topmost missing path above    *)
(* it, and the call in the directory of that one is still going on.        *)
THEOREM FullBackup == Spec => []FullComplete
<1>1. IInv => FullComplete
  <2> SUFFICES ASSUME IInv, pc = "idle", NEW p \in kept \ made PROVE FALSE
    BY DEF FullComplete
  <2>1. \A k \in kept \ made : Parent[k] \notin made \cup {Root}
    <3>1. stack = <<>> /\ Len(stack) = 0
      BY EmptySeq DEF IInv, Stack
    <3> QED BY <3>1 DEF IInv, Complete, Owed
  <2> DEFINE S == (kept \ made) \cap Dirs
  <2>2. \A k \in kept \ made : k \in Paths /\ Parent[k] \in S
    <3>1. \A k \in kept : k \in Paths /\ Parent[k] \in kept \cup {Root}
      BY DEF IInv, Complete, Source
    <3> QED BY <2>1, <3>1, Tree
  <2>3. S \in SUBSET Dirs /\ Parent[p] \in S /\ \A q \in S \ {Root} : Parent[q] \in S
    BY <2>2
  <2>4. Above(p) \subseteq S /\ Root \in Above(p)
    <3> HIDE DEF S
    <3> QED BY <2>2, <2>3, AboveIs
  <2> QED BY <2>4 DEF IInv, Complete
<1> QED BY <1>1, Invariant, PTL
-----------------------------------------------------------------------------
(* What the rounds do not miss                                             *)

Watched(e) == watch[elem[e].value] = "live"

(* A later element of the same directory is made when those before it are  *)
(* dead already: hashtable_remove, which takes the first one, never takes  *)
(* one that still watches when the one that it is called for does not.     *)
Ordered ==
  \E c \in [Lists -> Seq(Elements)] :
     /\ Chains(c)
     /\ \A x, y \in live : Precedes(c, x, y) /\ elem[x].key = elem[y].key /\ Watched(x) => Watched(y)

(* Events wait in instances of the directory that they are about.          *)
Addressed ==
  /\ \A v \in Instances \ fds : queue[v] = <<>>
  /\ \A e \in live : \A x \in Sx!ToSet(queue[elem[e].value]) :
       IF x[1] = "delete_self" THEN ~Watched(e) ELSE Parent[x[2]] = elem[e].key

Handling ==
  /\ pc = "handle" /\ event[1] = "delete_self" => ~Watched(cur)
  /\ pc \in {"open", "watch", "list"} => Frame.todo = {}

(* p and what it lies in.                                                  *)
Up(p) == IF p = Root THEN {Root} ELSE Above(p) \cup {p}

(* The daemon is still to back up q and, if it is a directory, to watch it.*)
Announced(q) ==
  \/ Pending("create", q)
  \/ pc \in {"handle", "handled"} /\ event = <<"create", q>>
  \/ \E i \in 1 .. Len(stack) : q \in stack[i].todo
  \/ pc = "open" /\ q = Frame.dir
  \/ pc = "watch" /\ ~Frame.gone /\ q = Frame.dir
  \/ pc = "list" /\ ~Frame.gone /\ q \in Entries(Frame.dir)

Inherits(p) == \E q \in Up(p) : Announced(q)
Changing(f) == Pending("modify", f) \/ (pc \in {"handle", "handled"} /\ event = <<"modify", f>>)

Reached ==
  /\ \A d \in exists \cap Dirs : WatchesOf(d) # {} \/ Inherits(d)
  /\ \A f \in stale : Changing(f) \/ Inherits(f)

Active == mode = INOTIFY /\ ~failed /\ ~merged /\ (config => pc # "idle")

Covered == Active => Reached

JInv == Ordered /\ Addressed /\ Handling /\ Covered
-----------------------------------------------------------------------------
LEMMA UpIs ==
  ASSUME NEW p \in Paths \cup {Root}
  PROVE  /\ p \in Up(p) /\ Root \in Up(p) /\ Up(p) \subseteq Paths \cup {Root} /\ Up(p) \ {p} \subseteq Dirs
         /\ p # Root => Parent[p] \in Paths \cup {Root} /\ Up(Parent[p]) \subseteq Up(p)
         /\ \A t \in Up(p) \ {p} : \E q \in Up(p) : q \in Paths /\ Parent[q] = t
<1>1. CASE p = Root
  BY <1>1 DEF Up
<1>2. CASE p # Root
  <2>1. p \in Paths /\ Up(p) = Above(p) \cup {p}
    BY <1>2 DEF Up
  <2>2. /\ Above(p) \subseteq Dirs /\ Root \in Above(p) /\ Parent[p] \in Above(p)
        /\ \A q \in Above(p) \ {Root} : Parent[q] \in Above(p)
    BY <2>1, AboveIs
  <2>3. Above(p) \subseteq Paths \cup {Root}
    BY <2>2, Tree
  <2>4. Up(Parent[p]) \subseteq Up(p)
    <3>1. CASE Parent[p] = Root
      BY <2>1, <2>2, <3>1 DEF Up
    <3>2. CASE Parent[p] # Root
      <4>1. Parent[p] \in Paths /\ Up(Parent[p]) = Above(Parent[p]) \cup {Parent[p]}
        BY <2>2, <2>3, <3>2 DEF Up
      <4>2. Above(Parent[p]) \subseteq Above(p)
        BY <2>2, <3>2, <4>1, AboveIs
      <4> QED BY <2>1, <2>2, <4>1, <4>2
    <3> QED BY <3>1, <3>2
  <2>5. ASSUME NEW t \in Up(p) \ {p} PROVE \E q \in Up(p) : q \in Paths /\ Parent[q] = t
    <3> DEFINE S == {Parent[q] : q \in Up(p) \cap Paths}
    <3>1. Parent[p] \in S /\ S \subseteq Above(p)
      BY <2>1, <2>2, Tree
    <3>2. \A q \in S \ {Root} : Parent[q] \in S
      <4>1. \A q \in S \ {Root} : q \in Up(p) \cap Paths
        BY <2>1, <2>3, <3>1
      <4> QED BY <4>1
    <3>3. S \in SUBSET Dirs
      BY <2>2, <3>1
    <3> HIDE DEF S
    <3>4. Above(p) \subseteq S
      BY <2>1, <3>1, <3>2, <3>3, AboveIs
    <3>5. t \in S
      BY <2>1, <2>5, <3>4
    <3> QED BY <3>5 DEF S
  <2> QED BY <2>1, <2>2, <2>3, <2>4, <2>5
<1> QED BY <1>1, <1>2

(* What there is lies in directories that there are.                       *)
LEMMA UpExists ==
  ASSUME NEW E, E \subseteq Paths \cup {Root}, Root \in E, \A p \in E \ {Root} : Parent[p] \in E,
         NEW p \in E
  PROVE  Up(p) \subseteq E
<1>1. CASE p = Root
  BY <1>1 DEF Up
<1>2. CASE p # Root
  <2> DEFINE S == E \cap Dirs
  <2>1. p \in Paths /\ Up(p) = Above(p) \cup {p}
    BY <1>2 DEF Up
  <2>2. S \in SUBSET Dirs /\ Parent[p] \in S /\ \A q \in S \ {Root} : Parent[q] \in S
    BY <1>2, Tree
  <2> HIDE DEF S
  <2>3. Above(p) \subseteq S
    BY <2>1, <2>2, AboveIs
  <2> QED BY <2>1, <2>3 DEF S
<1> QED BY <1>1, <1>2

LEMMA PendingPath ==
  ASSUME IInv, NEW kind, NEW q, Pending(kind, q)
  PROVE  q \in Paths
<1>1. PICK v \in fds : <<kind, q>> \in Sx!ToSet(queue[v])
  BY DEF Pending
<1>2. queue[v] \in Seq(Events)
  BY DEF IInv, TableTypes, Source
<1>3. \A i \in DOMAIN queue[v] : queue[v][i] \in Events
  BY <1>2, LenProperties, ElementOfSeq
<1>4. <<kind, q>> \in Events
  BY <1>1, <1>3 DEF Sx!ToSet
<1> QED BY <1>4 DEF Events

(* The instances in V, and no others, get the event.                       *)
LEMMA Tells ==
  ASSUME queue \in [Instances -> Seq(Events)], NEW kind \in Kinds, NEW p \in Paths,
         NEW V, Notify(V, kind, p), NEW v \in Instances
  PROVE  /\ v \notin V => queue'[v] = queue[v]
         /\ Sx!ToSet(queue[v]) \subseteq Sx!ToSet(queue'[v])
         /\ Sx!ToSet(queue'[v]) \subseteq Sx!ToSet(queue[v]) \cup {<<kind, p>>}
         /\ v \in V => <<kind, p>> \in Sx!ToSet(queue'[v])
<1> DEFINE s == queue[v]
           x == <<kind, p>>
<1>1. s \in Seq(Events) /\ x \in Events
  BY DEF Events
<1>2. queue'[v] = IF v \notin V \/ (s # <<>> /\ Sx!Last(s) = x) THEN s ELSE Append(s, x)
  BY DEF Notify, Mask, Kinds
<1> HIDE DEF s, x
<1>3. s # <<>> /\ Sx!Last(s) = x => x \in Sx!ToSet(s)
  <2> SUFFICES ASSUME s # <<>>, Sx!Last(s) = x PROVE x \in Sx!ToSet(s)
    OBVIOUS
  <2>1. Len(s) \in 1 .. Len(s) /\ s[Len(s)] = x /\ DOMAIN s = 1 .. Len(s)
    BY <1>1, Top, LenProperties
  <2> QED BY <2>1 DEF Sx!ToSet
<1>4. Sx!ToSet(Append(s, x)) = Sx!ToSet(s) \cup {x}
  <2> DEFINE t == Append(s, x)
  <2>1. /\ Len(s) \in Nat /\ DOMAIN s = 1 .. Len(s) /\ DOMAIN t = 1 .. Len(s) + 1
        /\ \A i \in 1 .. Len(s) : t[i] = s[i]
        /\ t[Len(s) + 1] = x
    BY <1>1, AppendProperties, LenProperties
  <2>2. \A i : i \in 1 .. Len(s) + 1 <=> i \in 1 .. Len(s) \/ i = Len(s) + 1
    BY <2>1
  <2> HIDE DEF t
  <2>3. Sx!ToSet(s) \cup {x} \subseteq Sx!ToSet(t)
    BY <2>1, <2>2 DEF Sx!ToSet
  <2>4. Sx!ToSet(t) \subseteq Sx!ToSet(s) \cup {x}
    BY <2>1, <2>2 DEF Sx!ToSet
  <2> QED BY <2>3, <2>4 DEF t
<1> QED BY <1>2, <1>3, <1>4 DEF s, x

(* A step keeps what is covered if it answers no announcement, or makes    *)
(* another one of it, or backs up the file, or watches the directory and   *)
(* announces its entries.                                                  *)
LEMMA ReachedOn ==
  ASSUME Source, Source', Reached, exists' \subseteq exists, stale' \subseteq stale,
         \A d \in exists' \cap Dirs : WatchesOf(d) # {} => WatchesOf(d)' # {},
         \A f \in stale' : Changing(f) => Changing(f)',
         \A q \in exists' : Announced(q) =>
           \/ Announced(q)'
           \/ q \in Files \ stale'
           \/ q \in Dirs /\ WatchesOf(q)' # {} /\ \A r \in Entries(q) \cap exists' : Announced(r)'
  PROVE  Reached'
<1>1. \A p \in exists' : p \in Paths \cup {Root} /\ p \in Up(p) /\ Up(p) \ {p} \subseteq Dirs
                         /\ Up(p) \subseteq exists'
                         /\ \A t \in Up(p) \ {p} : \E q \in Up(p) : q \in Paths /\ Parent[q] = t
  BY UpIs, UpExists DEF Source
<1>2. ASSUME NEW p \in exists', Inherits(p), p \notin Files \ stale', ~Inherits(p)'
      PROVE  p \in Dirs /\ WatchesOf(p)' # {}
  <2>1. PICK q \in Up(p) : Announced(q)
    BY <1>2 DEF Inherits
  <2>2. q \in exists' /\ (q = p \/ q \in Dirs) /\ ~Announced(q)'
    BY <1>1, <1>2, <2>1 DEF Inherits
  <2>3. q \notin Files \ stale'
    BY <1>2, <2>2, Tree
  <2>4. q \in Dirs /\ WatchesOf(q)' # {} /\ \A r \in Entries(q) \cap exists' : Announced(r)'
    BY <2>1, <2>2, <2>3
  <2>5. CASE q = p
    BY <2>4, <2>5
  <2>6. CASE q # p
    <3>1. PICK r \in Up(p) : r \in Paths /\ Parent[r] = q
      BY <1>1, <2>6
    <3>2. Announced(r)'
      BY <1>1, <2>4, <3>1 DEF Entries
    <3> QED BY <1>2, <3>1, <3>2 DEF Inherits
  <2> QED BY <2>5, <2>6
<1>3. ASSUME NEW d \in exists' \cap Dirs PROVE WatchesOf(d)' # {} \/ Inherits(d)'
  <2>1. d \in exists /\ d \notin Files
    BY <1>3, Tree
  <2>2. WatchesOf(d) # {} \/ Inherits(d)
    BY <2>1 DEF Reached
  <2> QED BY <1>2, <2>1, <2>2
<1>4. ASSUME NEW f \in stale' PROVE Changing(f)' \/ Inherits(f)'
  <2>1. f \in stale /\ f \in exists' /\ f \notin Dirs
    BY Tree DEF Source
  <2>2. Changing(f) \/ Inherits(f)
    BY <2>1 DEF Reached
  <2> QED BY <1>2, <2>1, <2>2
<1> QED BY <1>3, <1>4 DEF Reached

LEMMA OrderStays ==
  ASSUME Ordered, UNCHANGED <<table, watch>>
  PROVE  Ordered'
<1>1. PICK c \in [Lists -> Seq(Elements)] :
         /\ Chains(c)
         /\ \A x, y \in live : Precedes(c, x, y) /\ elem[x].key = elem[y].key /\ Watched(x) => Watched(y)
  BY DEF Ordered
<1>2. Chains(c)'
  <2>1. ASSUME NEW b \in Lists PROVE Chain(b, c[b])'
    <3>1. Chain(b, c[b])
      BY <1>1 DEF Chains
    <3> QED BY <3>1 DEF Chain, table
  <2>2. \A e \in live' : Member(e, c[hash'[elem'[e].key]])
    BY <1>1 DEF Chains, table
  <2> QED BY <2>1, <2>2 DEF Chains, Member
<1>3. \A x, y \in live' : Precedes(c, x, y) /\ elem'[x].key = elem'[y].key /\ Watched(x)' => Watched(y)'
  BY <1>1 DEF table, Watched
<1> QED BY <1>2, <1>3 DEF Ordered, Precedes

(* What a step that leaves the instances alone does not change.            *)
LEMMA Unheard ==
  ASSUME UNCHANGED <<table, watch, queue>>
  PROVE  /\ \A kind, p : Pending(kind, p)' <=> Pending(kind, p)
         /\ \A d : WatchesOf(d)' = WatchesOf(d)
         /\ \A e : Watched(e)' <=> Watched(e)
         /\ Ordered => Ordered'
         /\ Addressed => Addressed'
<1>1. /\ \A kind, p : Pending(kind, p)' <=> Pending(kind, p)
      /\ \A d : WatchesOf(d)' = WatchesOf(d)
      /\ \A e : Watched(e)' <=> Watched(e)
  BY DEF Pending, WatchesOf, Watched, table
<1>2. Ordered => Ordered'
  BY OrderStays DEF table
<1>3. Addressed => Addressed'
  BY <1>1 DEF Addressed, table, Watched
<1> QED BY <1>1, <1>2, <1>3

LEMMA GiveUpCovered ==
  ASSUME JInv, GiveUp, UNCHANGED <<table, watch, queue>>
  PROVE  JInv'
<1>1. Ordered' /\ Addressed'
  BY Unheard DEF JInv
<1>2. Handling' /\ Covered'
  BY DEF GiveUp, Handling, Covered, Active
<1> QED BY <1>1, <1>2 DEF JInv

LEMMA InitiallyCovered ==
  ASSUME Init
  PROVE  JInv
<1>1. Ordered
  <2>1. IInv
    BY Initially
  <2>2. PICK c \in [Lists -> Seq(Elements)] : Chains(c)
    BY <2>1 DEF IInv, Linked
  <2>3. live = {}
    BY DEF Init, TableInit
  <2> QED BY <2>2, <2>3 DEF Ordered
<1>2. Addressed
  BY DEF Init, TableInit, Addressed
<1>3. Handling /\ Covered
  BY DEF Init, Handling, Covered, Active, CLASSIC, INOTIFY
<1> QED BY <1>1, <1>2, <1>3 DEF JInv

(* A new path or a change is heard of in the directory that it lies in,    *)
(* unless one above that is announced itself.                              *)
LEMMA HeardStep ==
  ASSUME IInv, IInv', JInv, NEW p \in Paths, NEW kind \in {"create", "modify"},
         Parent[p] \in exists, exists' = exists \cup {p}, stale' = stale \cup ({p} \cap Regular),
         kind = "modify" => p \in exists /\ p \in Regular,
         Notify(WatchesOf(Parent[p]), kind, p),
         UNCHANGED <<table, watch, pc, mode, config, stack, inc, past>>
  PROVE  JInv'
<1>1. UNCHANGED <<hash, list, elem, live, fds, event, cur, failed, merged>>
  BY DEF table, inc, past
<1>2. /\ queue \in [Instances -> Seq(Events)] /\ kind \in Kinds
      /\ \A e \in live : elem[e].value \in Instances /\ elem[e].value \in fds
      /\ fds \subseteq Instances /\ WatchesOf(Parent[p]) \subseteq fds
      /\ \A e, f \in live : elem[e].value = elem[f].value => e = f
      /\ \A v \in fds : \E e \in live : v = elem[e].value
  BY DEF IInv, TableTypes, Source, Kinds, WatchesOf
<1>3. ASSUME NEW v \in Instances
      PROVE  /\ v \notin WatchesOf(Parent[p]) => queue'[v] = queue[v]
             /\ Sx!ToSet(queue[v]) \subseteq Sx!ToSet(queue'[v])
             /\ Sx!ToSet(queue'[v]) \subseteq Sx!ToSet(queue[v]) \cup {<<kind, p>>}
             /\ v \in WatchesOf(Parent[p]) => <<kind, p>> \in Sx!ToSet(queue'[v])
  BY <1>2, Tells
<1>4. (\A d : WatchesOf(d)' = WatchesOf(d)) /\ \A e : Watched(e)' <=> Watched(e)
  BY <1>1 DEF WatchesOf, Watched
<1>5. Ordered'
  BY OrderStays DEF JInv
<1>6. Addressed'
  <2>1. ASSUME NEW v \in Instances \ fds PROVE queue'[v] = <<>>
    BY <1>2, <1>3 DEF JInv, Addressed
  <2>2. ASSUME NEW e \in live, NEW x \in Sx!ToSet(queue'[elem[e].value])
        PROVE  IF x[1] = "delete_self" THEN ~Watched(e) ELSE Parent[x[2]] = elem[e].key
    <3>1. CASE x \in Sx!ToSet(queue[elem[e].value])
      BY <3>1 DEF JInv, Addressed
    <3>2. CASE x \notin Sx!ToSet(queue[elem[e].value])
      <4>1. x = <<kind, p>> /\ elem[e].value \in WatchesOf(Parent[p])
        BY <1>2, <1>3, <3>2
      <4>2. elem[e].key = Parent[p]
        BY <1>2, <4>1 DEF WatchesOf
      <4> QED BY <4>1, <4>2
    <3> QED BY <3>1, <3>2
  <2> QED BY <1>1, <1>4, <2>1, <2>2 DEF Addressed
<1>7. Handling'
  BY <1>1, <1>4 DEF JInv, Handling, Frame
<1>8. \A k, q : Pending(k, q) => Pending(k, q)'
  BY <1>1, <1>2, <1>3 DEF Pending
<1>9. (\A q : Announced(q) => Announced(q)') /\ \A q : Changing(q) => Changing(q)'
  BY <1>1, <1>8 DEF Announced, Changing, Frame
<1>10. WatchesOf(Parent[p]) # {} => Pending(kind, p)'
  <2> SUFFICES ASSUME NEW v \in WatchesOf(Parent[p]) PROVE Pending(kind, p)'
    OBVIOUS
  <2>1. v \in fds /\ v \in Instances /\ watch[v] = "live"
    BY <1>2 DEF WatchesOf
  <2> QED BY <1>1, <1>3, <2>1 DEF Pending
<1>11. ASSUME Active' PROVE Reached'
  <2>1. Reached
    BY <1>1, <1>11 DEF JInv, Covered, Active
  <2>2. Parent[p] \in Dirs /\ p \in Up(p) /\ Up(Parent[p]) \subseteq Up(p)
    BY Tree, UpIs
  <2>3. Pending(kind, p)' \/ Inherits(p)'
    <3>1. WatchesOf(Parent[p]) # {} \/ Inherits(Parent[p])
      BY <2>1, <2>2 DEF Reached
    <3> QED BY <1>9, <1>10, <2>2, <3>1 DEF Inherits
  <2>4. \A q : Inherits(q) => Inherits(q)'
    BY <1>9 DEF Inherits
  <2>5. kind = "create" /\ Pending(kind, p)' => Inherits(p)'
    BY <2>2 DEF Inherits, Announced
  <2>6. ASSUME NEW d \in exists' \cap Dirs PROVE WatchesOf(d)' # {} \/ Inherits(d)'
    <3>1. CASE d \in exists
      BY <1>4, <2>1, <2>4, <3>1 DEF Reached
    <3>2. CASE d \notin exists
      BY <2>3, <2>5, <3>2
    <3> QED BY <3>1, <3>2
  <2>7. ASSUME NEW f \in stale' PROVE Changing(f)' \/ Inherits(f)'
    <3>1. CASE f \in stale
      BY <1>9, <2>1, <2>4, <3>1 DEF Reached
    <3>2. CASE f \notin stale
      BY <2>3, <2>5, <3>2 DEF Changing
    <3> QED BY <3>1, <3>2
  <2> QED BY <2>6, <2>7 DEF Reached
<1> QED BY <1>5, <1>6, <1>7, <1>11 DEF JInv, Covered

(* Steps that leave the instances alone.                                   *)
LEMMA Onward ==
  ASSUME IInv, IInv', JInv, UNCHANGED <<table, watch, queue>>, exists' \subseteq exists,
         stale' \subseteq stale, Active' => Active, Handling',
         \A f \in stale' : Changing(f) => Changing(f)',
         Active' => \A q \in exists' : Announced(q) => Announced(q)' \/ q \in Files \ stale'
  PROVE  JInv'
<1>1. Ordered' /\ Addressed' /\ \A d : WatchesOf(d)' = WatchesOf(d)
  BY Unheard DEF JInv
<1>2. ASSUME Active' PROVE Reached'
  <2>1. Reached /\ Source /\ Source'
    BY <1>2 DEF JInv, Covered, IInv
  <2> QED BY <1>1, <1>2, <2>1, ReachedOn
<1> QED BY <1>1, <1>2 DEF JInv, Covered

LEMMA CreateCovered ==
  ASSUME IInv, IInv', JInv, NEW p \in Paths, Create(p)
  PROVE  JInv'
<1>1. /\ Parent[p] \in exists /\ exists' = exists \cup {p} /\ stale' = stale \cup ({p} \cap Regular)
      /\ Notify(WatchesOf(Parent[p]), "create", p)
      /\ UNCHANGED <<table, watch, pc, mode, config, stack, inc, past>>
  BY DEF Create, Change
<1> QED BY <1>1, HeardStep

LEMMA ModifyCovered ==
  ASSUME IInv, IInv', JInv, NEW f \in Regular, Modify(f)
  PROVE  JInv'
<1>1. /\ f \in exists /\ stale' = stale \cup {f} /\ Notify(WatchesOf(Parent[f]), "modify", f)
      /\ UNCHANGED <<exists, table, watch, pc, mode, config, stack, inc, past>>
  BY DEF Modify, Change
<1>2. f \in Paths /\ f # Root /\ Parent[f] \in exists
  BY <1>1, Tree DEF IInv, Source, Paths, Files
<1>3. exists' = exists \cup {f} /\ stale' = stale \cup ({f} \cap Regular)
  BY <1>1
<1> QED BY <1>1, <1>2, <1>3, HeardStep

LEMMA UnlinkCovered ==
  ASSUME IInv, IInv', JInv, NEW f \in Files, Unlink(f)
  PROVE  JInv'
<1>1. /\ exists' = exists \ {f} /\ stale' = stale \ {f}
      /\ UNCHANGED <<table, watch, queue, pc, mode, config, stack, inc, past>>
  BY DEF Unlink, Change
<1>2. Active' <=> Active
  BY <1>1 DEF Active, past
<1>3. Handling'
  BY <1>1, Unheard DEF JInv, Handling, Frame, inc
<1>4. (\A q : Announced(q) => Announced(q)') /\ \A q : Changing(q) => Changing(q)'
  BY <1>1, Unheard DEF Announced, Changing, Frame, inc
<1> QED BY <1>1, <1>2, <1>3, <1>4, Onward

(* What is announced in the directory is gone with it.                     *)
LEMMA RmdirCovered ==
  ASSUME IInv, IInv', JInv, NEW d \in Dirs \ {Root}, Rmdir(d)
  PROVE  JInv'
<1>1. /\ d \in exists /\ Entries(d) \cap exists = {} /\ exists' = exists \ {d}
      /\ watch' = [v \in Instances |-> IF v \in WatchesOf(d) THEN "dead" ELSE watch[v]]
      /\ Notify(WatchesOf(d), "delete_self", d)
      /\ stack' = [i \in DOMAIN stack |->
                     IF stack[i].dir = d THEN [stack[i] EXCEPT !.gone = TRUE] ELSE stack[i]]
      /\ UNCHANGED <<hash, list, elem, live, fds, pc, mode, config, cur, event, failed, merged, stale>>
  BY DEF Rmdir, Change, table, inc, past
<1>2. /\ queue \in [Instances -> Seq(Events)] /\ "delete_self" \in Kinds /\ d \in Paths
      /\ \A e \in live : elem[e].value \in Instances /\ elem[e].value \in fds
      /\ fds \subseteq Instances /\ WatchesOf(d) \subseteq fds
      /\ \A e, f \in live : elem[e].value = elem[f].value => e = f
      /\ \A v \in fds : \E e \in live : v = elem[e].value
  BY Tree DEF IInv, TableTypes, Source, Kinds, WatchesOf
<1>3. ASSUME NEW v \in Instances
      PROVE  /\ v \notin WatchesOf(d) => queue'[v] = queue[v]
             /\ Sx!ToSet(queue[v]) \subseteq Sx!ToSet(queue'[v])
             /\ Sx!ToSet(queue'[v]) \subseteq Sx!ToSet(queue[v]) \cup {<<"delete_self", d>>}
  <2>1. PICK kind \in Kinds, p \in Paths : kind = "delete_self" /\ p = d
    BY <1>2
  <2>2. queue \in [Instances -> Seq(Events)] /\ Notify(WatchesOf(d), kind, p)
    BY <1>1, <1>2, <2>1
  <2>3. /\ v \notin WatchesOf(d) => queue'[v] = queue[v]
        /\ Sx!ToSet(queue[v]) \subseteq Sx!ToSet(queue'[v])
        /\ Sx!ToSet(queue'[v]) \subseteq Sx!ToSet(queue[v]) \cup {<<kind, p>>}
    BY <2>2, Tells
  <2> QED BY <2>1, <2>3
<1>4. ASSUME NEW e \in live PROVE Watched(e)' <=> Watched(e) /\ elem[e].key # d
  <2>1. elem[e].value \in WatchesOf(d) <=> Watched(e) /\ elem[e].key = d
    BY <1>2 DEF WatchesOf, Watched
  <2> QED BY <1>1, <1>2, <2>1 DEF Watched
<1>5. ASSUME NEW b, b # d PROVE WatchesOf(b)' = WatchesOf(b)
  <2>1. \A e \in live : elem[e].key = b => (Watched(e)' <=> Watched(e))
    BY <1>4, <1>5
  <2> QED BY <1>1, <2>1 DEF WatchesOf, Watched
<1>6. Ordered'
  <2>1. PICK c \in [Lists -> Seq(Elements)] :
           /\ Chains(c)
           /\ \A x, y \in live : Precedes(c, x, y) /\ elem[x].key = elem[y].key /\ Watched(x) => Watched(y)
    BY DEF JInv, Ordered
  <2>2. Chains(c)'
    BY <1>1, <2>1 DEF Chains, Chain, Member
  <2> QED BY <1>1, <1>4, <2>1, <2>2 DEF Ordered, Precedes
<1>7. Addressed'
  <2>1. ASSUME NEW v \in Instances \ fds PROVE queue'[v] = <<>>
    BY <1>2, <1>3 DEF JInv, Addressed
  <2>2. ASSUME NEW e \in live, NEW x \in Sx!ToSet(queue'[elem[e].value])
        PROVE  IF x[1] = "delete_self" THEN ~Watched(e)' ELSE Parent[x[2]] = elem[e].key
    <3>1. CASE x \in Sx!ToSet(queue[elem[e].value])
      BY <1>4, <3>1 DEF JInv, Addressed
    <3>2. CASE x \notin Sx!ToSet(queue[elem[e].value])
      <4>1. x = <<"delete_self", d>> /\ elem[e].value \in WatchesOf(d)
        BY <1>2, <1>3, <3>2
      <4>2. elem[e].key = d
        BY <1>2, <4>1 DEF WatchesOf
      <4> QED BY <1>4, <4>1, <4>2
    <3> QED BY <3>1, <3>2
  <2> QED BY <1>1, <2>1, <2>2 DEF Addressed
<1>8. /\ Len(stack') = Len(stack) /\ (stack' = <<>> <=> stack = <<>>)
      /\ \A i \in 1 .. Len(stack) : /\ stack'[i].dir = stack[i].dir /\ stack'[i].todo = stack[i].todo
                                    /\ stack'[i].gone => stack[i].gone \/ stack[i].dir = d
  BY RmdirCalls
<1>9. pc \in {"open", "watch", "list"} =>
        /\ Frame'.dir = Frame.dir /\ Frame'.todo = Frame.todo
        /\ Frame'.gone => Frame.gone \/ Frame.dir = d
  <2> SUFFICES ASSUME pc \in {"open", "watch", "list"}
               PROVE  /\ Frame'.dir = Frame.dir /\ Frame'.todo = Frame.todo
                      /\ Frame'.gone => Frame.gone \/ Frame.dir = d
    OBVIOUS
  <2>1. stack \in Seq(Calls) /\ stack' \in Seq(Calls) /\ stack # <<>> /\ stack' # <<>>
    BY <1>1 DEF IInv, Stack
  <2>2. Frame = stack[Len(stack)] /\ Frame' = stack'[Len(stack')] /\ Len(stack) \in 1 .. Len(stack)
    BY <2>1, Top DEF Frame
  <2> QED BY <1>8, <2>2
<1>10. Handling'
  <2>1. pc = "handle" => cur \in live
    BY DEF IInv, Walking
  <2> QED BY <1>1, <1>4, <1>9, <2>1 DEF JInv, Handling
<1>11. ASSUME NEW kind, NEW q \in exists', q # Root, kind # "delete_self", Pending(kind, q)
       PROVE  Pending(kind, q)'
  <2>1. PICK v \in fds : watch[v] = "live" /\ <<kind, q>> \in Sx!ToSet(queue[v])
    BY <1>11 DEF Pending
  <2>2. PICK e \in live : v = elem[e].value
    BY <1>2
  <2>3. Parent[q] = elem[e].key
    BY <1>11, <2>1, <2>2 DEF JInv, Addressed
  <2>4. elem[e].key # d
    BY <1>1, <1>11, <2>3 DEF Entries, IInv, Source
  <2>5. watch'[v] = "live"
    BY <1>1, <1>4, <2>1, <2>2, <2>4 DEF Watched
  <2> QED BY <1>1, <1>2, <1>3, <2>1, <2>5 DEF Pending
<1>12. \A q \in exists' : Announced(q) => Announced(q)'
  <2> SUFFICES ASSUME NEW q \in exists', Announced(q) PROVE Announced(q)'
    OBVIOUS
  <2>1. CASE Pending("create", q)
    <3>1. q # Root
      BY <2>1, PendingPath, Tree
    <3> QED BY <1>11, <2>1, <3>1 DEF Announced
  <2>2. CASE pc \in {"handle", "handled"} /\ event = <<"create", q>>
    BY <1>1, <2>2 DEF Announced
  <2>3. CASE \E i \in 1 .. Len(stack) : q \in stack[i].todo
    BY <1>8, <2>3 DEF Announced
  <2>4. CASE pc = "open" /\ q = Frame.dir
    BY <1>1, <1>9, <2>4 DEF Announced
  <2>5. CASE pc = "watch" /\ ~Frame.gone /\ q = Frame.dir
    BY <1>1, <1>9, <2>5 DEF Announced
  <2>6. CASE pc = "list" /\ ~Frame.gone /\ q \in Entries(Frame.dir)
    <3>1. Frame.dir # d
      BY <1>1, <2>6
    <3> QED BY <1>1, <1>9, <2>6, <3>1 DEF Announced
  <2> QED BY <2>1, <2>2, <2>3, <2>4, <2>5, <2>6 DEF Announced
<1>13. \A f \in stale' : Changing(f) => Changing(f)'
  <2>1. \A f \in stale' : f \in exists' /\ f # Root
    BY Tree DEF IInv, Source
  <2> QED BY <1>1, <1>11, <2>1 DEF Changing
<1>14. ASSUME Active' PROVE Reached'
  <2>1. Reached /\ Source /\ Source'
    BY <1>1, <1>14 DEF JInv, Covered, Active, IInv
  <2>2. \A b \in exists' \cap Dirs : WatchesOf(b) # {} => WatchesOf(b)' # {}
    BY <1>1, <1>5
  <2> QED BY <1>1, <1>12, <1>13, <2>1, <2>2, ReachedOn
<1> QED BY <1>6, <1>7, <1>10, <1>14 DEF JInv, Covered

LEMMA FrameSet ==
  ASSUME IInv, stack # <<>>, NEW f \in Calls, SetFrame(f)
  PROVE  /\ Frame' = f /\ Len(stack') = Len(stack) /\ Len(stack) \in 1 .. Len(stack)
         /\ stack'[Len(stack)] = f /\ Frame = stack[Len(stack)]
         /\ \A i \in 1 .. Len(stack) : i # Len(stack) => stack'[i] = stack[i]
<1>1. stack \in Seq(Calls)
  BY DEF IInv, Stack
<1>2. /\ stack' \in Seq(Calls) /\ Len(stack') = Len(stack) /\ stack' # <<>>
      /\ stack'[Len(stack)] = f
      /\ \A i \in 1 .. Len(stack) : i # Len(stack) => stack'[i] = stack[i]
  BY <1>1, SetTop DEF SetFrame
<1>3. Frame' = stack'[Len(stack')]
  BY <1>2, Top DEF Frame
<1>4. Len(stack) \in 1 .. Len(stack) /\ Frame = stack[Len(stack)]
  BY <1>1, Top DEF Frame
<1> QED BY <1>2, <1>3, <1>4

LEMMA FirstCall ==
  ASSUME stack' = <<Call(Root)>>
  PROVE  Frame'.dir = Root /\ Frame'.todo = {}
<1>1. Call(Root).dir = Root /\ Call(Root).todo = {} /\ Call(Root) \in Calls
  BY Tree DEF Call, Calls
<1>2. stack' \in Seq(Calls) /\ Len(stack') = 1 /\ stack'[1] = Call(Root) /\ stack' # <<>>
  BY <1>1
<1>3. Frame' = Call(Root)
  BY <1>2, Top DEF Frame
<1> QED BY <1>1, <1>3

LEMMA ChangeModeCovered ==
  ASSUME IInv, IInv', JInv, ChangeMode
  PROVE  JInv'
<1>1. pc = "idle" /\ pc' = "idle" /\ config' = (mode' = INOTIFY) /\ UNCHANGED <<table, watch, queue>>
  BY DEF ChangeMode, source
<1>2. Ordered' /\ Addressed'
  BY <1>1, Unheard DEF JInv
<1>3. Handling' /\ Covered'
  BY <1>1 DEF Handling, Covered, Active
<1> QED BY <1>2, <1>3 DEF JInv

LEMMA BeginClassicCovered ==
  ASSUME IInv, IInv', JInv, BeginClassic
  PROVE  JInv'
<1>1. mode' = CLASSIC /\ pc' = "open" /\ stack' = <<Call(Root)>> /\ UNCHANGED <<table, watch, queue>>
  BY DEF BeginClassic, source
<1>2. Ordered' /\ Addressed'
  BY <1>1, Unheard DEF JInv
<1>3. Handling' /\ Covered'
  BY <1>1, FirstCall DEF Handling, Covered, Active, CLASSIC, INOTIFY
<1> QED BY <1>2, <1>3 DEF JInv

(* The call in the source directory will reach everything.                 *)
LEMMA BeginFullCovered ==
  ASSUME IInv, IInv', JInv, BeginFull
  PROVE  JInv'
<1>1. /\ Clear /\ pc' = "open" /\ stack' = <<Call(Root)>>
      /\ queue' = [v \in Instances |-> IF v \in fds' THEN queue[v] ELSE <<>>]
  BY DEF BeginFull
<1>2. live' = {} /\ fds' = {}
  BY <1>1, ClearStep DEF IInv
<1>3. Ordered'
  <2>1. PICK c \in [Lists -> Seq(Elements)] : Chains(c)'
    BY DEF IInv, Linked
  <2> QED BY <1>2, <2>1 DEF Ordered
<1>4. Addressed'
  BY <1>1, <1>2 DEF Addressed
<1>5. Frame'.dir = Root /\ Frame'.todo = {}
  BY <1>1, FirstCall
<1>6. Handling'
  BY <1>1, <1>5 DEF Handling
<1>7. Announced(Root)'
  BY <1>1, <1>5 DEF Announced
<1>8. \A p \in exists' : Inherits(p)'
  <2>1. \A p \in exists' : Root \in Up(p)
    BY UpIs DEF IInv, Source
  <2> QED BY <1>7, <2>1 DEF Inherits
<1>9. Reached'
  <2>1. stale' \subseteq exists'
    BY DEF IInv, Source
  <2> QED BY <1>8, <2>1 DEF Reached
<1> QED BY <1>3, <1>4, <1>6, <1>9 DEF JInv, Covered

LEMMA OpenDirCovered ==
  ASSUME IInv, IInv', JInv, OpenDir
  PROVE  JInv'
<1>1. pc = "open" /\ UNCHANGED <<table, watch, queue>>
  BY DEF OpenDir
<1>2. ASSUME GiveUp PROVE JInv'
  BY <1>1, <1>2, GiveUpCovered
<1>3. ASSUME ~GiveUp PROVE JInv'
  <2> DEFINE f == [Frame EXCEPT !.gone = FALSE]
  <2>1. /\ pc' = (IF mode = INOTIFY THEN "watch" ELSE "list") /\ SetFrame(f)
        /\ UNCHANGED <<exists, stale, mode, config, inc, past>>
    BY <1>3 DEF OpenDir
  <2>2. stack # <<>> /\ Frame \in Calls
    BY <1>1, FrameIs DEF IInv, Stack
  <2>3. f \in Calls /\ f.dir = Frame.dir /\ f.todo = Frame.todo /\ f.gone = FALSE
    BY <2>2 DEF Calls
  <2> HIDE DEF f
  <2>4. /\ Frame' = f /\ Len(stack') = Len(stack) /\ Len(stack) \in 1 .. Len(stack)
        /\ stack'[Len(stack)] = f /\ Frame = stack[Len(stack)]
        /\ \A i \in 1 .. Len(stack) : i # Len(stack) => stack'[i] = stack[i]
    BY <2>1, <2>2, <2>3, FrameSet
  <2>5. Handling'
    BY <1>1, <2>1, <2>3, <2>4 DEF JInv, Handling
  <2>6. \A i \in 1 .. Len(stack) : stack'[i].todo = stack[i].todo
    BY <2>3, <2>4
  <2>7. ASSUME NEW q, Announced(q), mode = INOTIFY PROVE Announced(q)'
    <3>1. CASE Pending("create", q)
      BY <1>1, <3>1, Unheard DEF Announced
    <3>2. CASE \E i \in 1 .. Len(stack) : q \in stack[i].todo
      BY <2>4, <2>6, <3>2 DEF Announced
    <3>3. CASE q = Frame.dir
      BY <2>1, <2>3, <2>4, <2>7, <3>3 DEF Announced
    <3> QED BY <1>1, <2>7, <3>1, <3>2, <3>3 DEF Announced
  <2>8. \A q : Changing(q) => Changing(q)'
    BY <1>1, Unheard DEF Changing
  <2>9. Active' => Active /\ mode = INOTIFY
    BY <1>1, <2>1 DEF Active, past
  <2> QED BY <1>1, <2>1, <2>5, <2>7, <2>8, <2>9, Onward
<1> QED BY <1>2, <1>3

(* The names that the first readdir fetches are all those of the directory *)
(* that there are, unless it is gone.                                      *)
LEMMA ListCovered ==
  ASSUME IInv, IInv', JInv, List
  PROVE  JInv'
<1> DEFINE f == [Frame EXCEPT !.todo = IF Frame.gone THEN {} ELSE Entries(Frame.dir) \cap exists]
<1>1. /\ pc = "list" /\ pc' = "scan" /\ SetFrame(f)
      /\ UNCHANGED <<table, watch, queue, exists, stale, mode, config, inc, past>>
  BY DEF List, source
<1>2. stack # <<>> /\ Frame \in Calls
  BY <1>1, FrameIs DEF IInv, Stack
<1>3. f.todo = (IF Frame.gone THEN {} ELSE Entries(Frame.dir) \cap exists) /\ f \in Calls
  <2>1. Entries(Frame.dir) \cap exists \in SUBSET Paths
    BY DEF Entries
  <2> HIDE DEF Entries
  <2> QED BY <1>2, <2>1 DEF Calls
<1> HIDE DEF f
<1>4. /\ Frame' = f /\ Len(stack') = Len(stack) /\ Len(stack) \in 1 .. Len(stack)
      /\ stack'[Len(stack)] = f /\ Frame = stack[Len(stack)]
      /\ \A i \in 1 .. Len(stack) : i # Len(stack) => stack'[i] = stack[i]
  BY <1>1, <1>2, <1>3, FrameSet
<1>5. Frame.todo = {}
  BY <1>1 DEF JInv, Handling
<1>6. ASSUME NEW q \in exists, Announced(q) PROVE Announced(q)'
  <2>1. CASE Pending("create", q)
    BY <1>1, <2>1, Unheard DEF Announced
  <2>2. CASE \E i \in 1 .. Len(stack) : q \in stack[i].todo
    BY <1>4, <1>5, <2>2 DEF Announced
  <2>3. CASE ~Frame.gone /\ q \in Entries(Frame.dir)
    BY <1>3, <1>4, <2>3 DEF Announced
  <2> QED BY <1>1, <1>6, <2>1, <2>2, <2>3 DEF Announced
<1>7. \A q : Changing(q) => Changing(q)'
  BY <1>1, Unheard DEF Changing
<1>8. Handling' /\ (Active' => Active)
  BY <1>1 DEF Handling, Active, past
<1> QED BY <1>1, <1>6, <1>7, <1>8, Onward

(* The directory is watched, and its names are fetched next.               *)
LEMMA AddWatchCovered ==
  ASSUME IInv, IInv', JInv, AddWatch
  PROVE  JInv'
<1>1. pc = "watch"
  BY DEF AddWatch
<1>2. ASSUME GiveUp, UNCHANGED <<table, watch, queue>> PROVE JInv'
  BY <1>2, GiveUpCovered
<1>3. ASSUME ~(GiveUp /\ UNCHANGED <<table, watch, queue>>) PROVE JInv'
  <2>1. PICK v \in Instances \ fds, e \in Elements \ live, k \in Keys :
          /\ k = Frame.dir /\ SetValue(e, k, v) /\ watch' = [watch EXCEPT ![v] = "live"] /\ pc' = "list"
          /\ UNCHANGED <<exists, stale, queue, mode, config, stack, inc, past>>
    BY <1>3, Added
  <2>2. /\ hash' = hash /\ live' = live \cup {e} /\ fds' = fds \cup {v}
        /\ elem'[e].key = k /\ elem'[e].value = v
        /\ \A y \in live : elem'[y].key = elem[y].key /\ elem'[y].value = elem[y].value
    BY <2>1, SetValueKeeps DEF IInv
  <2>3. /\ \A y \in live : elem[y].value \in fds /\ elem[y].value # v
        /\ fds \subseteq Instances /\ watch'[v] = "live" /\ queue[v] = <<>>
        /\ \A u : u # v => watch'[u] = watch[u]
    <3>1. \A y \in live : elem[y].value \in fds /\ elem[y].value # v
      BY DEF IInv, TableTypes
    <3>2. fds \subseteq Instances /\ watch \in [Instances -> {"live", "dead", "none"}]
      BY DEF IInv, TableTypes, Source
    <3>3. queue[v] = <<>>
      BY DEF JInv, Addressed
    <3> QED BY <2>1, <3>1, <3>2, <3>3
  <2>4. Watched(e)' /\ \A y \in live : Watched(y)' <=> Watched(y)
    BY <2>2, <2>3 DEF Watched
  <2>5. Ordered'
    <3>1. PICK c \in [Lists -> Seq(Elements)] :
             /\ Chains(c)
             /\ \A x, y \in live : Precedes(c, x, y) /\ elem[x].key = elem[y].key /\ Watched(x) => Watched(y)
      BY DEF JInv, Ordered
    <3>2. PICK d \in [Lists -> Seq(Elements)] :
             Chains(d)' /\ \A x, y : Precedes(d, x, y) => Precedes(c, x, y) \/ y = e
      BY <2>1, <3>1, SetValueStep DEF IInv
    <3>3. \A x, y : Precedes(c, x, y) => x \in live /\ y \in live
      <4> SUFFICES ASSUME NEW x, NEW y, Precedes(c, x, y) PROVE x \in live /\ y \in live
        OBVIOUS
      <4>1. PICK b \in Lists : \E i, j \in 1 .. Len(c[b]) : c[b][i] = x /\ c[b][j] = y
        BY DEF Precedes
      <4>2. \A i \in 1 .. Len(c[b]) : c[b][i] \in live
        BY <3>1, Entry1 DEF IInv
      <4> QED BY <4>1, <4>2
    <3>4. \A x, y \in live' : Precedes(d, x, y) /\ elem'[x].key = elem'[y].key /\ Watched(x)' => Watched(y)'
      BY <2>2, <2>4, <3>1, <3>2, <3>3
    <3> QED BY <3>2, <3>4 DEF Ordered, Precedes
  <2>6. Addressed'
    <3>1. ASSUME NEW y \in live', NEW x \in Sx!ToSet(queue[elem'[y].value])
          PROVE  IF x[1] = "delete_self" THEN ~Watched(y)' ELSE Parent[x[2]] = elem'[y].key
      <4>1. CASE y = e
        BY <2>2, <2>3, <3>1, <4>1 DEF Sx!ToSet
      <4>2. CASE y # e
        BY <2>2, <2>4, <3>1, <4>2 DEF JInv, Addressed
      <4> QED BY <4>1, <4>2
    <3> QED BY <2>1, <2>2, <3>1 DEF JInv, Addressed
  <2>7. Frame' = Frame
    BY <2>1 DEF Frame
  <2>8. Handling'
    BY <1>1, <2>1, <2>7 DEF JInv, Handling
  <2>9. ASSUME NEW d, WatchesOf(d) # {} PROVE WatchesOf(d)' # {}
    <3>1. PICK y \in live : elem[y].key = d /\ Watched(y)
      BY <2>9 DEF WatchesOf, Watched
    <3> QED BY <2>2, <2>4, <3>1 DEF WatchesOf, Watched
  <2>10. WatchesOf(k)' # {}
    BY <2>2, <2>4 DEF WatchesOf, Watched
  <2>11. ASSUME NEW kind, NEW q, Pending(kind, q) PROVE Pending(kind, q)'
    BY <2>1, <2>2, <2>3, <2>11 DEF Pending
  <2>12. ASSUME NEW q \in exists', Announced(q), ~Announced(q)'
         PROVE  q \in Dirs /\ WatchesOf(q)' # {} /\ \A r \in Entries(q) \cap exists' : Announced(r)'
    <3>1. ~Frame.gone /\ q = Frame.dir
      BY <1>1, <2>1, <2>11, <2>12 DEF Announced
    <3>2. \A r \in Entries(q) : Announced(r)'
      BY <2>1, <2>7, <3>1 DEF Announced
    <3> QED BY <2>1, <2>10, <3>1, <3>2 DEF Dirs
  <2>13. \A f : Changing(f) => Changing(f)'
    BY <1>1, <2>11 DEF Changing
  <2>14. ASSUME Active' PROVE Reached'
    <3>1. Reached /\ Source /\ Source' /\ exists' = exists /\ stale' = stale
      BY <1>1, <2>1, <2>14 DEF JInv, Covered, Active, past, IInv
    <3> QED BY <2>9, <2>12, <2>13, <3>1, ReachedOn
  <2> QED BY <2>5, <2>6, <2>8, <2>14 DEF JInv, Covered
<1> QED BY <1>2, <1>3

LEMMA CopyCovered ==
  ASSUME IInv, IInv', JInv, pc \in {"scan", "handled"}, NEW p \in Paths \ Dirs,
         NEW calls, Remain(calls, p), pc = "handled" => event[2] = p,
         Copy(p, calls), UNCHANGED <<table, watch, queue>>
  PROVE  JInv'
<1>1. ASSUME GiveUp PROVE JInv'
  BY <1>1, GiveUpCovered
<1>2. ASSUME ~GiveUp PROVE JInv'
  <2>1. /\ stale' = stale \ {p} /\ stack' = calls /\ pc' \in {"copy", "inc", "scan"}
        /\ UNCHANGED <<exists, mode, config, inc, past>>
    BY <1>2 DEF Copy, Caller
  <2>2. p \in Files \ stale'
    BY <2>1 DEF Paths
  <2>3. ASSUME NEW q, q # p, Announced(q) PROVE Announced(q)'
    <3>1. CASE Pending("create", q)
      BY <3>1, Unheard DEF Announced
    <3>2. CASE \E i \in 1 .. Len(stack) : q \in stack[i].todo
      BY <2>1, <2>3, <3>2 DEF Announced, Remain
    <3> QED BY <2>3, <3>1, <3>2 DEF Announced
  <2>4. \A f \in stale' : Changing(f) => Changing(f)'
    BY <2>1, Unheard DEF Changing
  <2>5. Handling' /\ (Active' => Active)
    BY <2>1 DEF Handling, Active, past
  <2> QED BY <2>1, <2>2, <2>3, <2>4, <2>5, Onward
<1> QED BY <1>1, <1>2

LEMMA DescendCovered ==
  ASSUME IInv, IInv', JInv, pc \in {"scan", "handled"}, NEW d \in Paths, d \in Dirs,
         NEW calls, Ready(calls, d), Remain(calls, d), pc = "handled" => event[2] = d,
         Descend(d, calls), UNCHANGED <<table, watch, queue>>
  PROVE  JInv'
<1>1. ASSUME GiveUp PROVE JInv'
  BY <1>1, GiveUpCovered
<1>2. ASSUME ~GiveUp PROVE JInv'
  <2> DEFINE n == Len(calls)
  <2>1. /\ stack' = Append(calls, Call(d)) /\ pc' = "open"
        /\ UNCHANGED <<exists, stale, mode, config, inc, past>>
    BY <1>2 DEF Descend
  <2>2. Call(d) \in Calls /\ Call(d).dir = d /\ Call(d).todo = {}
    BY DEF Call, Calls
  <2>3. /\ stack' \in Seq(Calls) /\ Len(stack') = n + 1 /\ stack'[n + 1] = Call(d) /\ n \in Nat
        /\ \A i \in 1 .. n : stack'[i] = calls[i]
    BY <2>1, <2>2, AppendProperties, LenProperties DEF Ready
  <2>4. Frame' = Call(d)
    <3>1. stack' # <<>>
      BY <2>3, EmptySeq
    <3> QED BY <2>3, <3>1, Top DEF Frame
  <2>5. \A i \in 1 .. n : i \in 1 .. Len(stack') /\ stack'[i] = calls[i]
    BY <2>3
  <2> HIDE DEF n
  <2>6. ASSUME NEW q, Announced(q) PROVE Announced(q)'
    <3>1. CASE q = d
      BY <2>1, <2>2, <2>4, <3>1 DEF Announced
    <3>2. CASE q # d /\ Pending("create", q)
      BY <3>2, Unheard DEF Announced
    <3>3. CASE q # d /\ \E i \in 1 .. Len(stack) : q \in stack[i].todo
      <4>1. PICK j \in 1 .. n : q \in calls[j].todo
        BY <3>3 DEF Remain, n
      <4> QED BY <2>5, <4>1 DEF Announced
    <3> QED BY <2>6, <3>1, <3>2, <3>3 DEF Announced
  <2>7. ASSUME NEW f \in stale', Changing(f) PROVE Changing(f)'
    <3>1. f # d
      BY <2>1, Tree DEF IInv, Source
    <3> QED BY <2>7, <3>1, Unheard DEF Changing
  <2>8. Handling' /\ (Active' => Active)
    BY <2>1, <2>2, <2>4 DEF Handling, Active, past
  <2> QED BY <2>1, <2>6, <2>7, <2>8, Onward
<1> QED BY <1>1, <1>2

LEMMA EntryCovered ==
  ASSUME IInv, IInv', JInv, NEW p \in Paths, Entry(p)
  PROVE  JInv'
<1> DEFINE calls == [stack EXCEPT ![Len(stack)].todo = @ \ {p}]
<1>1. pc = "scan" /\ p \in Frame.todo /\ UNCHANGED <<table, watch, queue>>
      /\ IF p \in Dirs THEN Descend(p, calls) ELSE Copy(p, calls)
  BY DEF Entry
<1>2. Ready(calls, p) /\ Remain(calls, p)
  BY <1>1, EntryReady
<1> HIDE DEF calls
<1> QED BY <1>1, <1>2, CopyCovered, DescendCovered

LEMMA ChangedCovered ==
  ASSUME IInv, IInv', JInv, Changed
  PROVE  JInv'
<1>1. pc = "handled" /\ UNCHANGED <<table, watch, queue>>
      /\ IF event[2] \in Dirs THEN Descend(event[2], <<>>) ELSE Copy(event[2], <<>>)
  BY DEF Changed
<1>2. Ready(<<>>, event[2]) /\ event[2] \in Paths
  BY <1>1, ChangedReady
<1>3. Remain(<<>>, event[2])
  BY <1>1, EmptySeq DEF Remain, IInv, Stack
<1> QED BY <1>1, <1>2, <1>3, CopyCovered, DescendCovered

LEMMA FinishCopyCovered ==
  ASSUME IInv, IInv', JInv, FinishCopy
  PROVE  JInv'
<1>1. /\ pc = "copy" /\ pc' \in {"inc", "scan"}
      /\ UNCHANGED <<table, watch, queue, exists, stale, mode, config, stack, inc, past>>
  BY DEF FinishCopy, Caller, source
<1>2. (\A q : Announced(q) => Announced(q)') /\ \A f : Changing(f) => Changing(f)'
  BY <1>1, Unheard DEF Announced, Changing
<1>3. Handling' /\ (Active' => Active)
  BY <1>1 DEF Handling, Active, past
<1> QED BY <1>1, <1>2, <1>3, Onward

LEMMA LeaveCovered ==
  ASSUME IInv, IInv', JInv, Leave
  PROVE  JInv'
<1>1. /\ pc = "scan" /\ Frame.todo = {} /\ stack' = Sx!Front(stack) /\ pc' \in {"idle", "inc", "scan"}
      /\ (pc' = "idle" /\ config' = FALSE) \/ UNCHANGED config
      /\ UNCHANGED <<table, watch, queue, exists, stale, mode, inc, past>>
  BY DEF Leave, Caller, source
<1>2. stack \in Seq(Calls) /\ stack # <<>>
  BY <1>1 DEF IInv, Stack
<1> DEFINE n == Len(stack)
<1>3. /\ n \in Nat \ {0} /\ Frame = stack[n] /\ Len(stack') = n - 1
      /\ \A i \in 1 .. n - 1 : stack'[i] = stack[i]
  BY <1>1, <1>2, Top DEF Frame
<1>4. \A i \in 1 .. n : i = n \/ i \in 1 .. n - 1
  BY <1>3
<1> HIDE DEF n
<1>5. ASSUME NEW q, Announced(q) PROVE Announced(q)'
  <2>1. CASE Pending("create", q)
    BY <1>1, <2>1, Unheard DEF Announced
  <2>2. CASE \E i \in 1 .. n : q \in stack[i].todo
    <3>1. PICK i \in 1 .. n : q \in stack[i].todo
      BY <2>2
    <3>2. i \in 1 .. n - 1
      BY <1>1, <1>3, <1>4, <3>1
    <3> QED BY <1>3, <3>1, <3>2 DEF Announced
  <2> QED BY <1>1, <1>5, <2>1, <2>2 DEF Announced, n
<1>6. \A f : Changing(f) => Changing(f)'
  BY <1>1, Unheard DEF Changing
<1>7. Handling' /\ (Active' => Active)
  BY <1>1 DEF Handling, Active, past
<1> QED BY <1>1, <1>5, <1>6, <1>7, Onward

(* Steps of the walk over the table.                                       *)
LEMMA WalkCovered ==
  ASSUME IInv, IInv', JInv, BeginInc \/ NextList \/ NoEvent
  PROVE  JInv'
<1>1. /\ pc \in {"idle", "inc"} /\ pc' \in {"idle", "inc"} /\ (pc = "idle" => ~config)
      /\ UNCHANGED <<table, watch, queue, exists, stale, mode, config, stack, event, past>>
  BY DEF BeginInc, NextList, NoEvent, source
<1>2. (\A q : Announced(q) => Announced(q)') /\ \A f : Changing(f) => Changing(f)'
  BY <1>1, Unheard DEF Announced, Changing
<1>3. Handling' /\ (Active' => Active)
  BY <1>1 DEF Handling, Active, past
<1> QED BY <1>1, <1>2, <1>3, Onward

(* The only event that waited in the instance is the one at hand.          *)
LEMMA ReadCovered ==
  ASSUME IInv, IInv', JInv, Read
  PROVE  JInv'
<1> DEFINE v == elem[cur].value
           s == queue[v]
<1>1. /\ pc = "inc" /\ cur # Null /\ s # <<>> /\ event' = Head(s)
      /\ queue' = [queue EXCEPT ![v] = <<>>] /\ merged' = (merged \/ Len(s) > 1)
      /\ pc' = "handle"
      /\ UNCHANGED <<table, exists, stale, watch, mode, config, stack, cur, failed>>
  BY DEF Read
<1>2. cur \in live /\ v \in fds /\ v \in Instances /\ fds \subseteq Instances
  BY <1>1 DEF IInv, Walking, TableTypes
<1>3. s \in Seq(Events) /\ s # <<>> /\ queue \in [Instances -> Seq(Events)]
  BY <1>1, <1>2 DEF IInv, Source
<1>4. queue'[v] = <<>> /\ \A u \in Instances : u # v => queue'[u] = queue[u]
  BY <1>1, <1>2, <1>3
<1> HIDE DEF s, v
<1>5. /\ Len(s) \in Nat \ {0} /\ DOMAIN s = 1 .. Len(s) /\ event' = s[1]
      /\ event' \in Sx!ToSet(s)
      /\ ~merged' => Sx!ToSet(s) = {event'}
  <2>1. Len(s) \in Nat \ {0} /\ DOMAIN s = 1 .. Len(s) /\ event' = s[1]
    BY <1>1, <1>3, EmptySeq, LenProperties, HeadTailProperties
  <2>2. event' \in Sx!ToSet(s)
    BY <2>1 DEF Sx!ToSet
  <2>3. ASSUME ~merged' PROVE Sx!ToSet(s) = {event'}
    <3>1. ~(Len(s) > 1)
      BY <1>1, <2>3
    <3>2. Len(s) = 1 /\ DOMAIN s = {1}
      BY <2>1, <3>1
    <3> QED BY <2>1, <3>2 DEF Sx!ToSet
  <2> QED BY <2>1, <2>2, <2>3
<1>6. Ordered'
  BY <1>1, OrderStays DEF JInv
<1>7. Addressed'
  <2>1. \A u \in Instances : Sx!ToSet(queue'[u]) \subseteq Sx!ToSet(queue[u])
    <3>1. Sx!ToSet(<<>>) = {}
      BY DEF Sx!ToSet
    <3> QED BY <1>4, <3>1
  <2>2. \A e \in live : elem[e].value \in Instances
    BY DEF IInv, TableTypes
  <2>3. \A u \in Instances \ fds : queue'[u] = <<>>
    BY <1>2, <1>4 DEF JInv, Addressed
  <2>4. \A e \in live : \A x \in Sx!ToSet(queue'[elem[e].value]) :
          IF x[1] = "delete_self" THEN ~Watched(e) ELSE Parent[x[2]] = elem[e].key
    BY <2>1, <2>2 DEF JInv, Addressed
  <2> QED BY <1>1, <2>3, <2>4 DEF Addressed, Watched, table
<1>8. Handling'
  <2>1. event'[1] = "delete_self" => ~Watched(cur)
    BY <1>2, <1>5 DEF JInv, Addressed, s, v
  <2> QED BY <1>1, <2>1 DEF Handling, Watched, table
<1>9. ASSUME ~merged', NEW kind, NEW q, Pending(kind, q), ~Pending(kind, q)'
      PROVE  event' = <<kind, q>>
  <2>1. PICK u \in fds : watch[u] = "live" /\ <<kind, q>> \in Sx!ToSet(queue[u])
    BY <1>9 DEF Pending
  <2>2. u = v
    BY <1>1, <1>2, <1>4, <1>9, <2>1 DEF Pending, table
  <2> QED BY <1>5, <1>9, <2>1, <2>2 DEF s
<1>10. ASSUME Active' PROVE Reached'
  <2>1. ~merged' /\ Reached /\ Source /\ Source'
    BY <1>1, <1>10 DEF JInv, Covered, Active, IInv
  <2>2. \A q : Announced(q) => Announced(q)'
    BY <1>1, <1>9, <2>1 DEF Announced
  <2>3. \A f : Changing(f) => Changing(f)'
    BY <1>1, <1>9, <2>1 DEF Changing
  <2>4. \A d : WatchesOf(d)' = WatchesOf(d)
    BY <1>1 DEF WatchesOf, table
  <2> QED BY <1>1, <2>1, <2>2, <2>3, <2>4, ReachedOn
<1> QED BY <1>6, <1>7, <1>8, <1>10 DEF JInv, Covered

(* The element that is freed does not watch, though it need not be the one *)
(* that the event comes from.                                              *)
LEMMA DeleteSelfCovered ==
  ASSUME IInv, IInv', JInv, DeleteSelf
  PROVE  JInv'
<1>1. /\ pc = "handle" /\ event[1] = "delete_self" /\ Remove(elem[cur].key) /\ pc' = "inc"
      /\ watch' = [v \in Instances |-> IF v \in fds' THEN watch[v] ELSE "none"]
      /\ queue' = [v \in Instances |-> IF v \in fds' THEN queue[v] ELSE <<>>]
      /\ UNCHANGED <<exists, stale, mode, config, stack, past>>
  BY DEF DeleteSelf
<1>2. PICK x \in live : x = cur
  BY <1>1 DEF IInv, Walking
<1>3. ~Watched(x)
  BY <1>1, <1>2 DEF JInv, Handling
<1>4. PICK c \in [Lists -> Seq(Elements)] :
         /\ Chains(c)
         /\ \A y, z \in live : Precedes(c, y, z) /\ elem[y].key = elem[z].key /\ Watched(y) => Watched(z)
  BY DEF JInv, Ordered
<1>5. PICK e \in live :
        /\ elem[e].key = elem[x].key /\ (e = x \/ Precedes(c, e, x))
        /\ hash' = hash /\ live' = live \ {e} /\ fds' = fds \ {elem[e].value}
        /\ \A y \in live' : elem'[y].key = elem[y].key /\ elem'[y].value = elem[y].value
        /\ elem[x].next # Null => elem[x].next \in live'
        /\ TableTypes'
        /\ \E d \in [Lists -> Seq(Elements)] :
             Chains(d)' /\ \A y, z : Precedes(d, y, z) => Precedes(c, y, z)
  <2>1. Remove(elem[x].key)
    BY <1>1, <1>2
  <2>2. TableTypes
    BY DEF IInv
  <2> QED BY <1>4, <2>1, <2>2, RemoveStep
<1>6. ~Watched(e)
  BY <1>3, <1>4, <1>5
<1>7. \A y \in live' : /\ y \in live /\ y # e /\ elem[y].value \in fds' /\ elem[y].value \in Instances
                       /\ watch'[elem[y].value] = watch[elem[y].value]
                       /\ queue'[elem[y].value] = queue[elem[y].value]
  <2>1. \A y \in live : elem[y].value \in Instances /\ elem[y].value \in fds
                        /\ \A z \in live : elem[y].value = elem[z].value => y = z
    BY DEF IInv, TableTypes
  <2> QED BY <1>1, <1>5, <2>1
<1>8. \A y \in live' : Watched(y)' <=> Watched(y)
  BY <1>5, <1>7 DEF Watched
<1>9. Ordered'
  <2>1. PICK d \in [Lists -> Seq(Elements)] :
          Chains(d)' /\ \A y, z : Precedes(d, y, z) => Precedes(c, y, z)
    BY <1>5
  <2>2. \A y, z \in live' : Precedes(d, y, z) /\ elem'[y].key = elem'[z].key /\ Watched(y)' => Watched(z)'
    BY <1>4, <1>5, <1>7, <1>8, <2>1
  <2> QED BY <2>1, <2>2 DEF Ordered, Precedes
<1>10. Addressed'
  <2>1. \A y \in live' : \A z \in Sx!ToSet(queue'[elem'[y].value]) :
          IF z[1] = "delete_self" THEN ~Watched(y)' ELSE Parent[z[2]] = elem'[y].key
    BY <1>5, <1>7, <1>8 DEF JInv, Addressed
  <2> QED BY <1>1, <2>1 DEF Addressed
<1>11. ASSUME NEW d, WatchesOf(d) # {} PROVE WatchesOf(d)' # {}
  <2>1. PICK y \in live : elem[y].key = d /\ Watched(y)
    BY <1>11 DEF WatchesOf, Watched
  <2>2. y \in live'
    BY <1>5, <1>6, <2>1
  <2> QED BY <1>5, <1>8, <2>1, <2>2 DEF WatchesOf, Watched
<1>12. ASSUME NEW kind, NEW q, Pending(kind, q) PROVE Pending(kind, q)'
  <2>1. PICK v \in fds : watch[v] = "live" /\ <<kind, q>> \in Sx!ToSet(queue[v])
    BY <1>12 DEF Pending
  <2>2. PICK y \in live : elem[y].value = v
    BY DEF IInv, TableTypes
  <2>3. y \in live'
    BY <1>5, <1>6, <2>1, <2>2 DEF Watched
  <2> QED BY <1>7, <2>1, <2>2, <2>3 DEF Pending
<1>13. (\A q : Announced(q) => Announced(q)') /\ \A f : Changing(f) => Changing(f)'
  BY <1>1, <1>12 DEF Announced, Changing
<1>14. Handling'
  BY <1>1 DEF Handling
<1>15. ASSUME Active' PROVE Reached'
  <2>1. Reached /\ Source /\ Source'
    BY <1>1, <1>15 DEF JInv, Covered, Active, past, IInv
  <2> QED BY <1>1, <1>11, <1>13, <2>1, ReachedOn
<1> QED BY <1>9, <1>10, <1>14, <1>15 DEF JInv, Covered

LEMMA CreatedCovered ==
  ASSUME IInv, IInv', JInv, Created
  PROVE  JInv'
<1>1. pc = "handle" /\ UNCHANGED <<table, watch, queue>>
  BY DEF Created
<1>2. ASSUME GiveUp PROVE JInv'
  BY <1>1, <1>2, GiveUpCovered
<1>3. ASSUME ~GiveUp PROVE JInv'
  <2>1. pc' = "handled" /\ UNCHANGED <<exists, stale, mode, config, stack, inc, past>>
    BY <1>3 DEF Created, CreateDirectories
  <2>2. (\A q : Announced(q) => Announced(q)') /\ \A f : Changing(f) => Changing(f)'
    BY <1>1, <2>1, Unheard DEF Announced, Changing, inc
  <2>3. Handling' /\ (Active' => Active)
    BY <1>1, <2>1 DEF Handling, Active, past
  <2> QED BY <1>1, <2>1, <2>2, <2>3, Onward
<1> QED BY <1>2, <1>3
-----------------------------------------------------------------------------
LEMMA CoverInvariant == Spec => [](IInv /\ JInv)
<1>1. Init => JInv
  BY InitiallyCovered
<1>2. IInv /\ IInv' /\ JInv /\ [Next]_vars => JInv'
  <2> SUFFICES ASSUME IInv, IInv', JInv, [Next]_vars PROVE JInv'
    OBVIOUS
  <2>1. CASE UNCHANGED vars
    <3>1. UNCHANGED <<table, watch, queue, exists, stale, pc, mode, config, stack, inc, past>>
      BY <2>1 DEF vars, source
    <3>2. (\A q : Announced(q) => Announced(q)') /\ \A f : Changing(f) => Changing(f)'
      BY <3>1, Unheard DEF Announced, Changing, Frame, inc
    <3>3. Handling' /\ (Active' => Active)
      BY <3>1, Unheard DEF JInv, Handling, Active, Frame, inc, past
    <3> QED BY <3>1, <3>2, <3>3, Onward
  <2>2. CASE Users
    BY <2>2, CreateCovered, ModifyCovered, UnlinkCovered, RmdirCovered, ChangeModeCovered DEF Users
  <2>3. CASE Daemon
    BY <2>3, BeginClassicCovered, BeginFullCovered, OpenDirCovered, AddWatchCovered, ListCovered,
       EntryCovered, FinishCopyCovered, LeaveCovered, WalkCovered, ReadCovered, DeleteSelfCovered,
       CreatedCovered, ChangedCovered DEF Daemon
  <2> QED BY <2>1, <2>2, <2>3 DEF Next
<1>3. Spec => []IInv
  BY Invariant
<1> QED BY <1>1, <1>2, <1>3, PTL DEF Spec

(* Between two rounds of the inotify mode the next round can know of all   *)
(* that is not backed up, however the users' changes fall between the      *)
(* steps of the rounds, as long as no backup is given up and no read       *)
(* returns several events.                                                 *)
THEOREM RoundsMissNothing == Spec => []NothingMissed
<1>1. IInv /\ JInv => NothingMissed
  <2> SUFFICES ASSUME IInv, JInv, pc = "idle", mode = INOTIFY, ~config, ~failed, ~merged
               PROVE  Known
    BY DEF NothingMissed
  <2>1. Reached
    BY DEF JInv, Covered, Active
  <2>2. \A f : Changing(f) => Pending("modify", f)
    BY DEF Changing
  <2>3. ASSUME NEW p, Inherits(p) PROVE Remembered(p)
    <3>1. PICK q \in Up(p) : Announced(q)
      BY <2>3 DEF Inherits
    <3>2. Len(stack) = 0
      BY EmptySeq DEF IInv, Stack
    <3>3. Pending("create", q)
      BY <3>1, <3>2 DEF Announced
    <3>4. q # Root
      BY <3>3, PendingPath, Tree
    <3>5. q \in Above(p) \cup {p}
      BY <3>1, <3>4 DEF Up
    <3> QED BY <3>3, <3>4, <3>5 DEF Remembered
  <2> QED BY <2>1, <2>2, <2>3 DEF Known, Reached
<1> QED BY <1>1, CoverInvariant, PTL
=============================================================================
