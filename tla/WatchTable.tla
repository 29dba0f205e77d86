----------------------------- MODULE WatchTable -----------------------------
(***************************************************************************)
(* daemon/src/hashtable: a hash table from paths to inotify instances,     *)
(* with doubly linked lists on the heap.  The state of the lists, the      *)
(* elements they are made of, and the operations that the daemon calls,    *)
(* each as an action on that state; Backup uses them as parts of its own   *)
(* actions.  An element owns the instance in its value: to free the        *)
(* element is to close the instance.                                       *)
(***************************************************************************)
EXTENDS Integers, Sequences, FiniteSets

Sx == INSTANCE SequencesExt

CONSTANTS Keys,      \* the paths
          TableSize, \* the number of lists
          Elements,  \* the addresses calloc hands out
          Null

ASSUME TableAssumption == TableSize \in Nat \ {0} /\ Null \notin Elements \cup Keys

VARIABLES hash,  \* hash[k]: MurmurHash2 of k modulo the size, the same in a whole behaviour
          list,  \* list[b]: head, tail and size
          elem,  \* elem[e]: key, value, next and prev
          live,  \* the elements that are allocated
          fds    \* the descriptors that are open

table == <<hash, list, elem, live, fds>>

Lists == 0 .. TableSize - 1
Empty == [head |-> Null, tail |-> Null, size |-> 0]
Blank == [key |-> Null, value |-> 0, next |-> Null, prev |-> Null]

TableInit == /\ hash \in [Keys -> Lists]
             /\ list = [b \in Lists |-> Empty]
             /\ elem = [e \in Elements |-> Blank]
             /\ live = {} /\ fds = {}

\* The elements of list b from the start along step, as many as its size.
Walk(b, start, step) ==
  LET at[i \in 1 .. list[b].size] ==
        IF i = 1 THEN start ELSE IF at[i - 1] = Null THEN Null ELSE step[at[i - 1]]
  IN  [i \in 1 .. list[b].size |-> at[i]]

NextOf == [e \in Elements |-> elem[e].next]
PrevOf == [e \in Elements |-> elem[e].prev]
Forward(b)  == Walk(b, list[b].head, NextOf)
Backward(b) == Walk(b, list[b].tail, PrevOf)

\* list_pointer_find_value: the first element of list b with key k.
FindValue(b, k) ==
  LET at == {i \in 1 .. list[b].size : elem[Forward(b)[i]].key = k}
  IN  IF at = {} THEN Null ELSE Forward(b)[CHOOSE i \in at : \A j \in at : i <= j]

\* hashtable_set_value: element e with k and v becomes the last of its list.
\* The daemon inserts nowhere else, and descriptor v has just been opened.
SetValue(e, k, v) ==
  LET b == hash[k]
      new == [key |-> k, value |-> v, next |-> Null, prev |-> list[b].tail]
  IN  /\ e \notin live /\ live' = live \cup {e} /\ fds' = fds \cup {v}
      /\ \/ /\ list[b].size = 0
            /\ elem' = [elem EXCEPT ![e] = new]
            /\ list' = [list EXCEPT ![b] = [head |-> e, tail |-> e, size |-> 1]]
         \/ /\ list[b].size # 0
            /\ elem' = [elem EXCEPT ![e] = new, ![list[b].tail].next = e]
            /\ list' = [list EXCEPT ![b].tail = e, ![b].size = @ + 1]
      /\ UNCHANGED hash

\* faulty: the tail is not moved
DeleteKeepsTail(b, e) ==
  /\ list' = [list EXCEPT ![b].size = @ - 1,
                          ![b].head = IF e = @ THEN elem[e].next ELSE @]
  /\ elem' = [x \in Elements |->
               IF x = e THEN Blank
               ELSE [elem[x] EXCEPT !.prev = IF x = elem[e].next THEN elem[e].prev ELSE @,
                                    !.next = IF x = elem[e].prev THEN elem[e].next ELSE @]]
  /\ live' = live \ {e} /\ fds' = fds \ {elem[e].value}
  /\ UNCHANGED hash

\* list_pointer_delete: e leaves list b and is freed.  Its neighbours, of
\* which the first and the last element lack one, are linked to each other.
Delete(b, e) ==
  /\ list' = [list EXCEPT ![b].size = @ - 1,
                          ![b].head = IF e = @ THEN elem[e].next ELSE @,
                          ![b].tail = IF e = @ THEN elem[e].prev ELSE @]
  /\ elem' = [x \in Elements |->
               IF x = e THEN Blank
               ELSE [elem[x] EXCEPT !.prev = IF x = elem[e].next THEN elem[e].prev ELSE @,
                                    !.next = IF x = elem[e].prev THEN elem[e].next ELSE @]]
  /\ live' = live \ {e} /\ fds' = fds \ {elem[e].value}
  /\ UNCHANGED hash

\* hashtable_remove
Remove(k) == Delete(hash[k], FindValue(hash[k], k))

\* faulty: the instances stay open
ClearLeaks ==
  /\ list' = [b \in Lists |-> Empty]
  /\ elem' = [e \in Elements |-> Blank]
  /\ live' = {}
  /\ UNCHANGED <<hash, fds>>

\* hashtable_clear: list_pointer_clear frees what it meets from the tail.
Clear ==
  LET freed == UNION {Sx!ToSet(Backward(b)) : b \in Lists}
  IN  /\ list' = [b \in Lists |-> Empty]
      /\ elem' = [e \in Elements |-> IF e \in freed THEN Blank ELSE elem[e]]
      /\ live' = live \ freed
      /\ fds' = fds \ {elem[e].value : e \in freed}
      /\ UNCHANGED hash
-----------------------------------------------------------------------------
(* The links of every list agree in both directions with its head, tail    *)
(* and size; each element is in the list of its key, and none is lost.     *)
(* The code frees and relinks elements by hand in the middle of walks.     *)
LinksAgree ==
  /\ \A b \in Lists :
       /\ Sx!IsInjective(Forward(b)) /\ Sx!ToSet(Forward(b)) \subseteq live
       /\ Backward(b) = Sx!Reverse(Forward(b))
       /\ list[b].size > 0 => /\ elem[list[b].tail].next = Null
                              /\ elem[list[b].head].prev = Null
       /\ list[b].size = 0 => list[b] = Empty
  /\ \A e \in live : e \in Sx!ToSet(Forward(hash[elem[e].key]))

(* Every open instance belongs to exactly one element and no element holds *)
(* a closed one: nothing leaks and nothing is closed twice, also when a    *)
(* backup is given up half-way.                                            *)
InstancesMatch ==
  /\ fds = {elem[e].value : e \in live}
  /\ Cardinality(fds) = Cardinality(live)
=============================================================================
