---------------------------- MODULE AtomicStack ----------------------------
(***************************************************************************)
(* What shared_stack/stack.h promises of push and pop: a bounded stack     *)
(* that every process operates on atomically.  An operation takes effect   *)
(* once, at some instant between its call and its return; with the default *)
(* wait value -1 a push on a full stack and a pop on an empty one return   *)
(* -1 without effect.                                                      *)
(***************************************************************************)
EXTENDS Integers, Sequences

CONSTANTS Procs,   \* the attached handles, one per process
          Size,    \* the capacity given to attach_stack
          Vals,    \* the pointers that are pushed
          POISON   \* the mark of a free slot, and of memory not yet popped into

VARIABLES stack,   \* the elements, the last one on top
          phase,   \* phase[p]: where p is in its operation, or how it ended
          arg,     \* arg[p]: the value p pushes
          val      \* val[p]: the memory p pops into

vars == <<stack, phase, arg, val>>

Phases == {"idle", "push", "pushed", "full", "pop", "popped", "empty"}

Init == /\ stack = <<>>
        /\ phase = [p \in Procs |-> "idle"]
        /\ arg   = [p \in Procs |-> POISON]
        /\ val   = [p \in Procs |-> POISON]

Enter(p, from, to) == /\ phase[p] = from
                      /\ phase' = [phase EXCEPT ![p] = to]

CallPush(p) == /\ Enter(p, "idle", "push")
               /\ \E v \in Vals : arg' = [arg EXCEPT ![p] = v]
               /\ UNCHANGED <<stack, val>>

CallPop(p) == /\ Enter(p, "idle", "pop")
              /\ UNCHANGED <<stack, arg, val>>

Push(p) == /\ Enter(p, "push", "pushed")
           /\ Len(stack) < Size
           /\ stack' = Append(stack, arg[p])
           /\ UNCHANGED <<arg, val>>

PushFull(p) == /\ Enter(p, "push", "full")
               /\ Len(stack) = Size
               /\ UNCHANGED <<stack, arg, val>>

Pop(p) == /\ Enter(p, "pop", "popped")
          /\ stack # <<>>
          /\ val'   = [val EXCEPT ![p] = stack[Len(stack)]]
          /\ stack' = SubSeq(stack, 1, Len(stack) - 1)
          /\ UNCHANGED arg

PopEmpty(p) == /\ Enter(p, "pop", "empty")
               /\ stack = <<>>
               /\ UNCHANGED <<stack, arg, val>>

Return(p) == /\ phase[p] \in {"pushed", "full", "popped", "empty"}
             /\ phase' = [phase EXCEPT ![p] = "idle"]
             /\ arg'   = [arg EXCEPT ![p] = POISON]
             /\ val'   = [val EXCEPT ![p] = POISON]
             /\ UNCHANGED stack

Next == \E p \in Procs : \/ CallPush(p) \/ Push(p) \/ PushFull(p)
                         \/ CallPop(p)  \/ Pop(p)  \/ PopEmpty(p)
                         \/ Return(p)

Spec == Init /\ [][Next]_vars
=============================================================================
