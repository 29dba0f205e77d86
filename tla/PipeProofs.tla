----------------------------- MODULE PipeProofs -----------------------------
(***************************************************************************)
(* Only the neighbours of a pipe hold an end of it, the commands never     *)
(* wait for each other all at once, the parent ends last, and the commands *)
(* are the ones that the user means: for any texts, any number of commands,*)
(* any capacity and however many forks fail.                               *)
(*                                                                         *)
(* The first half is about the processes, the second about the parser.     *)
(***************************************************************************)
EXTENDS Pipe, FiniteSetTheorems, SequenceTheorems, WellFoundedInduction, TLAPS

Processes == {Parent} \cup Children

Labels == {"none", "dup", "close", "exec", "run", "zombie", "gone"}

Types == /\ pc \in {"parsed", "fork", "wait", "done"} /\ i \in Nat
         /\ N \in 0 .. MaxCommands
         /\ cpc \in [Children -> Labels]
         /\ held \in [Processes -> SUBSET Ends]
         /\ in \in [Children -> Int] /\ out \in [Children -> Int]
         /\ items \in [Pipes -> 0 .. Capacity]

\* What the parent does before the first fork.
Unforked == /\ pc = "parsed" => /\ cmds = Parsed(text) /\ cmds # <<>> /\ text \in Texts
                                /\ \A x \in Children : cpc[x] = "none"
            /\ pc = "fork" => i > 0

\* A child that is going to close its pipes is connected already.
Joined == \A x \in Children : cpc[x] = "close" => (x > 1 => in[x] = x - 1) /\ (x < N => out[x] = x)

IInv == Types /\ Unforked /\ OnlyNeighbours /\ Joined
-----------------------------------------------------------------------------
LEMMA Constants ==
  /\ MaxCommands \in Nat \ {0} /\ Capacity \in Nat \ {0}
  /\ Children = 1 .. MaxCommands /\ 0 \notin Children /\ Parent = 0
  /\ Processes = 0 .. MaxCommands
BY BoundsAssumption DEF Children, Parent, Processes

(* What is cut off between the bars is a sequence of as many commands.     *)
LEMMA SequenceOfLength ==
  ASSUME NEW n \in Nat, NEW f, DOMAIN f = 1 .. n, f = [k \in 1 .. n |-> f[k]]
  PROVE  f \in Seq({f[k] : k \in 1 .. n}) /\ Len(f) = n
<1>1. f \in [1 .. n -> {f[k] : k \in 1 .. n}]
  OBVIOUS
<1>2. f \in Seq({f[k] : k \in 1 .. n})
  BY <1>1, SeqDef
<1> QED BY <1>2, LenProperties

LEMMA TokensBounded ==
  ASSUME NEW t \in Texts PROVE CountTokens(t) \in 0 .. MaxCommands
<1>1. t \in Seq(STRING) /\ CountTokens(t) <= MaxCommands
  BY TextsAssumption
<1>2. IsFiniteSet({k \in DOMAIN t : t[k] = Bar})
  <2>1. Len(t) \in Nat /\ DOMAIN t = 1 .. Len(t)
    BY <1>1, LenProperties
  <2>2. IsFiniteSet(1 .. Len(t))
    BY <2>1, FS_Interval
  <2> QED BY <2>1, <2>2, FS_Subset
<1>3. Cardinality({k \in DOMAIN t : t[k] = Bar}) \in Nat
  BY <1>2, FS_CardinalityType
<1> QED BY <1>1, <1>3, Constants DEF CountTokens

LEMMA ParsedLength ==
  ASSUME NEW t \in Texts
  PROVE  /\ DOMAIN Parsed(t) = 1 .. CountTokens(t) /\ Len(Parsed(t)) = CountTokens(t)
<1>1. CountTokens(t) \in Nat
  BY TokensBounded, Constants
<1>2. CASE CountTokens(t) = 0
  BY <1>2 DEF Parsed
<1>3. CASE CountTokens(t) # 0
  <2>1. Parsed(t) = Commands(t)
    BY <1>3 DEF Parsed
  <2>2. DOMAIN Commands(t) = 1 .. CountTokens(t) /\ Commands(t) = [k \in 1 .. CountTokens(t) |-> Commands(t)[k]]
    BY DEF Commands
  <2> QED BY <1>1, <2>1, <2>2, SequenceOfLength
<1> QED BY <1>2, <1>3
-----------------------------------------------------------------------------
LEMMA InitIInv == Init => IInv
<1> SUFFICES ASSUME Init PROVE IInv
  OBVIOUS
<1> USE Constants
<1>1. Types
  <2>1. N = 0
    BY DEF Init, N
  <2>2. items \in [Pipes -> 0 .. Capacity]
    BY DEF Init
  <2> QED BY <2>1, <2>2 DEF Init, Types, Processes, Labels
<1>2. Unforked
  BY DEF Init, Unforked
<1>3. OnlyNeighbours
  BY DEF Init, OnlyNeighbours
<1>4. Joined
  BY DEF Init, Joined
<1> QED BY <1>1, <1>2, <1>3, <1>4 DEF IInv

LEMMA MakePipesIInv ==
  ASSUME IInv, MakePipes PROVE IInv'
<1> USE Constants
<1> DEFINE n == CountTokens(text)
<1>1. /\ text \in Texts /\ cmds = Parsed(text) /\ n \in 0 .. MaxCommands
      /\ DOMAIN cmds = 1 .. n /\ Len(cmds) = n
  BY TokensBounded, ParsedLength DEF IInv, Unforked, MakePipes
<1>2. N' = n
  <2>1. /\ DOMAIN prog' = 1 .. n /\ prog' = [k \in 1 .. n |-> prog'[k]]
    BY <1>1 DEF MakePipes
  <2>2. Len(prog') = n
    BY <1>1, <2>1, SequenceOfLength
  <2> QED BY <2>2 DEF N
<1>3. held' \in [Processes -> SUBSET Ends]
  <2>1. (1 .. Len(cmds) - 1) \X {"r", "w"} \subseteq Ends
    BY <1>1 DEF Ends, Pipes
  <2> QED BY <2>1 DEF IInv, Types, MakePipes
<1>4. Types'
  BY <1>1, <1>2, <1>3 DEF IInv, Types, MakePipes
<1>5. Unforked'
  BY DEF Unforked, MakePipes
<1>6. OnlyNeighbours'
  BY <1>3, <1>4 DEF IInv, OnlyNeighbours, Unforked, MakePipes, Types, Processes
<1>7. Joined'
  BY DEF IInv, Unforked, MakePipes, Joined
<1> QED BY <1>4, <1>5, <1>6, <1>7 DEF IInv

LEMMA ForkIInv ==
  ASSUME IInv, Fork PROVE IInv'
<1> USE Constants
<1>1. /\ i \in Children /\ i \in Processes /\ Parent \in Processes /\ Parent # i
      /\ i' = i + 1 /\ UNCHANGED <<text, cmds, prog, pc, in, out, items>> /\ pc = "fork" /\ N' = N
  BY DEF IInv, Types, Unforked, Fork, N, Processes
<1>2. CASE cpc' = [cpc EXCEPT ![i] = "dup"] /\ held' = [held EXCEPT ![i] = held[Parent]]
  <2>1. Types'
    BY <1>1, <1>2 DEF IInv, Types, Labels
  <2>2. \A x \in Children : x # i => cpc'[x] = cpc[x] /\ held'[x] = held[x]
    BY <1>1, <1>2 DEF IInv, Types, Processes
  <2>3. cpc'[i] = "dup" /\ held'[i] \subseteq Ends
    BY <1>1, <1>2 DEF IInv, Types
  <2>4. OnlyNeighbours'
    BY <1>1, <2>2, <2>3 DEF IInv, OnlyNeighbours
  <2>5. Joined'
    BY <1>1, <2>2, <2>3 DEF IInv, Joined
  <2> QED BY <1>1, <2>1, <2>4, <2>5 DEF IInv, Types, Unforked
<1>3. CASE UNCHANGED <<cpc, held>>
  <2>1. Types' /\ Unforked'
    BY <1>1, <1>3 DEF IInv, Types, Unforked
  <2> QED BY <1>1, <1>3, <2>1 DEF IInv, OnlyNeighbours, Joined
<1> QED BY <1>2, <1>3 DEF Fork

LEMMA ClosePipesIInv ==
  ASSUME IInv, ClosePipes PROVE IInv'
<1> USE Constants
<1>1. N' = N
  BY DEF ClosePipes, N
<1>2. Types'
  BY <1>1 DEF IInv, Types, ClosePipes, Processes
<1>3. OnlyNeighbours'
  <2>1. held'[Parent] = {} /\ \A x \in Children : held'[x] = held[x]
    BY DEF IInv, Types, ClosePipes, Processes
  <2> QED BY <1>1, <2>1 DEF IInv, OnlyNeighbours, ClosePipes
<1>4. Unforked' /\ Joined'
  BY <1>1 DEF IInv, Unforked, Joined, ClosePipes
<1> QED BY <1>2, <1>3, <1>4 DEF IInv

LEMMA WaitIInv ==
  ASSUME IInv, Wait PROVE IInv'
<1> USE Constants
<1>1. N' = N
  BY DEF Wait, N
<1>2. Types'
  <2>1. PICK x \in Children : cpc' \in {cpc, [cpc EXCEPT ![x] = "gone"]}
    BY DEF Wait
  <2>2. cpc' \in [Children -> Labels]
    BY <2>1 DEF IInv, Types, Labels
  <2>3. pc' \in {"parsed", "fork", "wait", "done"} /\ UNCHANGED <<held, in, out, items>> /\ i' \in Nat
    BY DEF IInv, Types, Wait
  <2> QED BY <1>1, <2>2, <2>3 DEF IInv, Types
<1>3. \A x \in Children : cpc'[x] = cpc[x] \/ cpc'[x] = "gone"
  BY DEF IInv, Types, Wait
<1>4. OnlyNeighbours' /\ Joined'
  BY <1>1, <1>3 DEF IInv, OnlyNeighbours, Joined, Wait
<1> QED BY <1>2, <1>4 DEF IInv, Unforked, Wait
-----------------------------------------------------------------------------
(* A child that has been forked goes on, connected or at its end.          *)
LEMMA ChildIInv ==
  ASSUME IInv, NEW x \in Children, cpc[x] # "none",
         UNCHANGED <<text, cmds, prog, pc, i>>,
         NEW l \in Labels \ {"none"}, cpc' = [cpc EXCEPT ![x] = l],
         held' \in [Processes -> SUBSET Ends],
         held' = [held EXCEPT ![x] = held'[x]],
         in' \in [Children -> Int], in' = [in EXCEPT ![x] = in'[x]],
         out' \in [Children -> Int], out' = [out EXCEPT ![x] = out'[x]],
         in'[x] \in {0, x - 1}, out'[x] \in {0, x},
         l \in {"exec", "run"} => held'[x] = {},
         l \in {"close", "exec", "run"} => (x > 1 => in'[x] = x - 1) /\ (x < N => out'[x] = x),
         items' \in [Pipes -> 0 .. Capacity]
  PROVE  IInv'
<1> USE Constants
<1>1. N' = N
  BY DEF N
<1>2. Types'
  BY <1>1 DEF IInv, Types
<1>3. Unforked'
  BY DEF IInv, Unforked
<1>4. \A y \in Processes : y # x => held'[y] = held[y]
  BY DEF IInv, Types
<1>5. \A y \in Children : y # x => cpc'[y] = cpc[y] /\ in'[y] = in[y] /\ out'[y] = out[y]
  BY DEF IInv, Types
<1>6. Parent \in Processes /\ Parent # x /\ \A y \in Children : y \in Processes
  BY DEF Processes
<1>7. cpc'[x] = l
  BY DEF IInv, Types
<1>8. \A j \in Pipes : items'[j] \in 0 .. Capacity
  OBVIOUS
<1>9. pc' \in {"wait", "done"} => held'[Parent] = {}
  BY <1>4, <1>6 DEF IInv, OnlyNeighbours
<1>10. ASSUME NEW y \in Children
       PROVE  /\ held'[y] \subseteq Ends /\ in'[y] \in {0, y - 1} /\ out'[y] \in {0, y}
              /\ cpc'[y] \in {"exec", "run"} =>
                   held'[y] = {} /\ (y > 1 => in'[y] = y - 1) /\ (y < N' => out'[y] = y)
  <2>1. CASE y = x
    BY <1>1, <1>6, <1>7, <2>1
  <2>2. CASE y # x
    BY <1>1, <1>4, <1>5, <1>6, <2>2 DEF IInv, OnlyNeighbours
  <2> QED BY <2>1, <2>2
<1>11. OnlyNeighbours'
  BY <1>8, <1>9, <1>10 DEF OnlyNeighbours
<1>12. Joined'
  BY <1>1, <1>5, <1>7 DEF IInv, Joined
<1> QED BY <1>2, <1>3, <1>11, <1>12 DEF IInv

LEMMA DupIInv ==
  ASSUME IInv, NEW x \in Children, Dup(x) PROVE IInv'
<1> USE Constants
<1>1. /\ cpc[x] = "dup" /\ cpc' = [cpc EXCEPT ![x] = "close"]
      /\ UNCHANGED <<text, cmds, prog, pc, i, held, items>>
  BY DEF Dup
<1>2. PICK u, v : /\ in' = [in EXCEPT ![x] = u] /\ out' = [out EXCEPT ![x] = v]
                  /\ u = IF x # 1 THEN x - 1 ELSE 0
                  /\ v = IF x # N THEN x ELSE 0
  BY DEF Dup
<1>3. /\ u \in {0, x - 1} /\ (x > 1 => u = x - 1) /\ u \in Int
      /\ v \in {0, x} /\ (x < N => v = x) /\ v \in Int
  BY <1>2 DEF IInv, Types
<1>4. /\ in' \in [Children -> Int] /\ in'[x] = u /\ out' \in [Children -> Int] /\ out'[x] = v
      /\ held' = [held EXCEPT ![x] = held'[x]] /\ held' \in [Processes -> SUBSET Ends]
      /\ items' \in [Pipes -> 0 .. Capacity]
  BY <1>1, <1>2, <1>3 DEF IInv, Types
<1>5. "close" \in Labels \ {"none"} /\ "close" \notin {"exec", "run"}
  BY DEF Labels
<1> QED BY <1>1, <1>2, <1>3, <1>4, <1>5, ChildIInv

LEMMA CloseInChildIInv ==
  ASSUME IInv, NEW x \in Children, CloseInChild(x) PROVE IInv'
<1> USE Constants
<1>1. /\ cpc[x] = "close" /\ cpc' = [cpc EXCEPT ![x] = "exec"]
      /\ held' = [held EXCEPT ![x] = {}]
      /\ UNCHANGED <<text, cmds, prog, pc, i, in, out, items>>
  BY DEF CloseInChild
<1>2. x \in Processes /\ "exec" \in Labels \ {"none"}
  BY DEF Processes, Labels
<1>3. /\ in' \in [Children -> Int] /\ out' \in [Children -> Int]
      /\ in' = [in EXCEPT ![x] = in'[x]] /\ out' = [out EXCEPT ![x] = out'[x]]
      /\ held' = [held EXCEPT ![x] = held'[x]] /\ held' \in [Processes -> SUBSET Ends]
      /\ held'[x] = {} /\ items' \in [Pipes -> 0 .. Capacity]
  BY <1>1, <1>2 DEF IInv, Types
<1>4. /\ in'[x] \in {0, x - 1} /\ out'[x] \in {0, x}
      /\ (x > 1 => in'[x] = x - 1) /\ (x < N => out'[x] = x)
  BY <1>1 DEF IInv, OnlyNeighbours, Joined
<1> QED BY <1>1, <1>2, <1>3, <1>4, ChildIInv

(* What a command does: it becomes the program, goes on or ends.           *)
LEMMA StepIInv ==
  ASSUME IInv, NEW x \in Children, Exec(x) \/ Read(x) \/ Write(x) \/ Finish(x) PROVE IInv'
<1> USE Constants
<1>1. cpc[x] \in {"exec", "run"} /\ UNCHANGED <<text, cmds, prog, pc, i, held>>
  BY DEF Exec, Read, Write, Finish, Wants
<1>2. /\ held' = [held EXCEPT ![x] = held'[x]] /\ held' \in [Processes -> SUBSET Ends]
      /\ held'[x] = {} /\ in[x] \in {0, x - 1} /\ out[x] \in {0, x}
      /\ (x > 1 => in[x] = x - 1) /\ (x < N => out[x] = x)
  BY <1>1 DEF IInv, Types, OnlyNeighbours
<1>3. items' \in [Pipes -> 0 .. Capacity]
  <2>1. CASE Exec(x) \/ Finish(x)
    BY <2>1 DEF Exec, Finish, IInv, Types
  <2>2. CASE Read(x)
    BY <2>2 DEF Read, IInv, Types
  <2>3. CASE Write(x)
    BY <2>3 DEF Write, IInv, Types
  <2> QED BY <2>1, <2>2, <2>3
<1>4. CASE Exit(x)
  <2>1. cpc' = [cpc EXCEPT ![x] = "zombie"] /\ in' = [in EXCEPT ![x] = 0] /\ out' = [out EXCEPT ![x] = 0]
    BY <1>4 DEF Exit
  <2>2. /\ in' \in [Children -> Int] /\ out' \in [Children -> Int] /\ in'[x] = 0 /\ out'[x] = 0
    BY <2>1 DEF IInv, Types
  <2>3. "zombie" \in Labels \ {"none"} /\ "zombie" \notin {"close", "exec", "run"}
    BY DEF Labels
  <2> QED BY <1>1, <1>2, <1>3, <2>1, <2>2, <2>3, ChildIInv
<1>5. CASE ~Exit(x)
  <2>1. UNCHANGED <<in, out>> /\ (cpc' = cpc \/ cpc' = [cpc EXCEPT ![x] = "run"])
    BY <1>5 DEF Exec, Read, Write, Finish
  <2>2. PICK l \in {"exec", "run"} : cpc' = [cpc EXCEPT ![x] = l]
    BY <1>1, <2>1 DEF IInv, Types
  <2>3. /\ in' \in [Children -> Int] /\ out' \in [Children -> Int]
        /\ in' = [in EXCEPT ![x] = in'[x]] /\ out' = [out EXCEPT ![x] = out'[x]]
    BY <2>1 DEF IInv, Types
  <2>4. l \in Labels \ {"none"}
    BY DEF Labels
  <2> QED BY <1>1, <1>2, <1>3, <2>1, <2>2, <2>3, <2>4, ChildIInv
<1> QED BY <1>4, <1>5

LEMMA NextIInv ==
  ASSUME IInv, [Next]_vars PROVE IInv'
<1>1. ASSUME UNCHANGED vars PROVE IInv'
  BY <1>1 DEF vars, IInv, Types, Unforked, OnlyNeighbours, Joined, N
<1>2. ASSUME NEW x \in Children, Child(x) PROVE IInv'
  BY <1>2, DupIInv, CloseInChildIInv, StepIInv DEF Child
<1> QED BY <1>1, <1>2, MakePipesIInv, ForkIInv, ClosePipesIInv, WaitIInv DEF Next, Main

(* In every state of the program only the two commands beside a pipe hold an *)
(* end of it once parent and children have closed theirs, and whoever runs is *)
(* connected to both sides; no pipe holds more than its capacity.          *)
THEOREM Connected == Spec => []OnlyNeighbours
<1>1. IInv /\ [Next]_vars => IInv'
  BY NextIInv
<1>2. IInv => OnlyNeighbours
  BY DEF IInv
<1> QED BY InitIInv, <1>1, <1>2, PTL DEF Spec
-----------------------------------------------------------------------------
(* Nobody waits for ever: what the children that are not connected hold    *)

Alive(x) == cpc[x] \notin {"none", "zombie", "gone"}

\* Who has not been forked, and who has ended, holds nothing; the last
\* command writes to the terminal.
Loose == \A x \in Children :
  /\ ~Alive(x) => held[x] = {} /\ in[x] = 0 /\ out[x] = 0
  /\ out[x] # 0 => x < N
  /\ cpc[x] # "none" => x <= N

\* A command has an item in hand only until it has written its last one.
Counted ==
  /\ has \in [Children -> BOOLEAN] /\ count \in [Children -> Nat]
  /\ \A x \in Children :
       /\ cpc[x] \in {"none", "dup", "close", "exec"} => ~has[x] /\ count[x] = 0
       /\ cpc[x] = "run" => count[x] <= Limit(x) /\ (has[x] => count[x] < Limit(x))

Gone == {x \in Children : cpc[x] = "gone"}

\* What the loops of the parent have done.
Reaped ==
  /\ pc \in {"parsed", "fork"} => Gone = {}
  /\ pc = "fork" => \A x \in Children : x >= i => cpc[x] = "none"
  /\ pc = "wait" => Cardinality(Gone) = i - 1
  /\ ParentEndsLast

JInv == IInv /\ Loose /\ Counted /\ Reaped

LEMMA LimitType == ASSUME NEW x PROVE Limit(x) \in Nat \ {0}
BY BoundsAssumption DEF Limit

LEMMA GoneFinite == IsFiniteSet(Gone) /\ Gone \subseteq Children /\ IsFiniteSet(Children)
<1>1. IsFiniteSet(Children)
  BY Constants, FS_Interval
<1> QED BY <1>1, FS_Subset DEF Gone

LEMMA InitJInv == Init => JInv
<1> SUFFICES ASSUME Init PROVE JInv
  OBVIOUS
<1> USE Constants
<1>1. Loose
  BY DEF Init, Loose, Alive
<1>2. Counted
  BY DEF Init, Counted
<1>3. Reaped
  BY DEF Init, Reaped, Gone, ParentEndsLast
<1> QED BY <1>1, <1>2, <1>3, InitIInv DEF JInv

LEMMA MakePipesJInv ==
  ASSUME JInv, MakePipes PROVE JInv'
<1> USE Constants
<1>1. IInv'
  BY MakePipesIInv DEF JInv
<1>2. /\ \A x \in Children : cpc[x] = "none" /\ out[x] = 0 /\ held'[x] = held[x]
      /\ UNCHANGED <<cpc, in, out, has, count>> /\ pc' = "fork"
  BY DEF JInv, IInv, Types, Processes, Unforked, Loose, Alive, MakePipes
<1>3. Loose'
  BY <1>2 DEF JInv, Loose, Alive
<1>4. Counted'
  BY <1>2 DEF JInv, Counted
<1>5. Reaped'
  BY <1>2 DEF Reaped, Gone, ParentEndsLast
<1> QED BY <1>1, <1>3, <1>4, <1>5 DEF JInv

LEMMA ForkJInv ==
  ASSUME JInv, Fork PROVE JInv'
<1> USE Constants
<1>1. IInv'
  BY ForkIInv DEF JInv
<1>2. /\ i \in Children /\ i <= N /\ i' = i + 1 /\ N' = N /\ pc = "fork"
      /\ UNCHANGED <<prog, pc, in, out, has, count>> /\ cpc[i] = "none"
  BY DEF JInv, IInv, Types, Unforked, Reaped, Fork, N
<1>3. /\ \A x \in Children : x # i => cpc'[x] = cpc[x] /\ held'[x] = held[x]
      /\ cpc'[i] = "dup" \/ (cpc'[i] = cpc[i] /\ held'[i] = held[i])
  BY <1>2 DEF JInv, IInv, Types, Processes, Fork
<1>4. Loose'
  BY <1>2, <1>3 DEF JInv, Loose, Alive
<1>5. Counted'
  BY <1>2, <1>3 DEF JInv, Counted, Limit
<1>6. Reaped'
  BY <1>2, <1>3 DEF JInv, IInv, Types, Reaped, Gone, ParentEndsLast
<1> QED BY <1>1, <1>4, <1>5, <1>6 DEF JInv

LEMMA ClosePipesJInv ==
  ASSUME JInv, ClosePipes PROVE JInv'
<1> USE Constants
<1>1. IInv'
  BY ClosePipesIInv DEF JInv
<1>2. /\ i' = 1 /\ N' = N /\ pc' = "wait" /\ Gone = {}
      /\ UNCHANGED <<prog, cpc, in, out, has, count>>
      /\ \A x \in Children : held'[x] = held[x]
  BY DEF JInv, IInv, Types, Processes, Reaped, ClosePipes, N
<1>3. Loose' /\ Counted'
  BY <1>2 DEF JInv, Loose, Alive, Counted, Limit
<1>4. Reaped'
  <2>1. Gone' = {}
    BY <1>2 DEF Gone
  <2>2. Cardinality(Gone)' = 0
    BY <2>1, FS_EmptySet
  <2> QED BY <1>2, <2>1, <2>2 DEF Reaped, ParentEndsLast
<1> QED BY <1>1, <1>3, <1>4 DEF JInv

LEMMA WaitJInv ==
  ASSUME JInv, Wait PROVE JInv'
<1> USE Constants
<1>1. IInv'
  BY WaitIInv DEF JInv
<1>2. pc = "wait" /\ N' = N /\ UNCHANGED <<prog, held, in, out, has, count>> /\ i \in Nat /\ N \in Nat
  BY DEF JInv, IInv, Types, Wait, N
<1>3. CASE \E x \in Children : cpc[x] = "zombie" /\ cpc' = [cpc EXCEPT ![x] = "gone"] /\ i' = i + 1 /\ pc' = pc
  <2>1. PICK x \in Children : cpc[x] = "zombie" /\ cpc' = [cpc EXCEPT ![x] = "gone"] /\ i' = i + 1 /\ pc' = pc
    BY <1>3
  <2>2. cpc'[x] = "gone" /\ \A y \in Children : y # x => cpc'[y] = cpc[y]
    BY <2>1 DEF JInv, IInv, Types
  <2>3. Loose'
    BY <1>2, <2>1, <2>2 DEF JInv, Loose, Alive
  <2>4. Counted'
    BY <1>2, <2>1, <2>2 DEF JInv, Counted, Limit
  <2>5. Gone' = Gone \cup {x} /\ x \notin Gone
    BY <2>1, <2>2 DEF Gone
  <2>6. Cardinality(Gone \cup {x}) = Cardinality(Gone) + 1
    BY <2>5, GoneFinite, FS_AddElement
  <2>7. Cardinality(Gone)' = i' - 1
    BY <1>2, <2>1, <2>5, <2>6 DEF JInv, Reaped
  <2>8. Reaped'
    BY <1>2, <2>1, <2>7 DEF Reaped, ParentEndsLast
  <2> QED BY <1>1, <2>3, <2>4, <2>8 DEF JInv
<1>4. CASE (i > N \/ \A x \in Children : cpc[x] \in {"none", "gone"}) /\ pc' = "done" /\ UNCHANGED <<i, cpc>>
  <2>1. Loose' /\ Counted'
    BY <1>2, <1>4 DEF JInv, Loose, Alive, Counted, Limit
  <2>2. ASSUME i > N PROVE \A x \in Children : cpc[x] \in {"none", "gone"}
    <3>1. Gone \subseteq 1 .. N
      BY <1>2 DEF Gone, JInv, Loose
    <3>2. IsFiniteSet(1 .. N) /\ Cardinality(1 .. N) = N
      BY <1>2, FS_Interval
    <3>3. Cardinality(Gone) >= N
      BY <1>2, <2>2 DEF JInv, Reaped
    <3>4. Cardinality(Gone) \in Nat /\ Cardinality(Gone) <= N
      BY <3>1, <3>2, FS_Subset, FS_CardinalityType, GoneFinite
    <3>5. Cardinality(Gone) = Cardinality(1 .. N)
      BY <1>2, <3>2, <3>3, <3>4
    <3>6. Gone = 1 .. N
      BY <3>1, <3>2, <3>5, FS_Subset
    <3> QED BY <1>2, <3>6 DEF Gone, JInv, Loose
  <2>3. Reaped'
    BY <1>4, <2>2 DEF Reaped, ParentEndsLast
  <2> QED BY <1>1, <2>1, <2>3 DEF JInv
<1> QED BY <1>3, <1>4 DEF Wait

(* A child that is alive goes on, or ends and holds nothing any more.      *)
LEMMA ChildJInv ==
  ASSUME JInv, IInv', NEW x \in Children, Alive(x), UNCHANGED <<prog, pc, i>>,
         NEW l \in {"close", "exec", "run", "zombie"}, cpc' = [cpc EXCEPT ![x] = l],
         held' = [held EXCEPT ![x] = held'[x]],
         in' = [in EXCEPT ![x] = in'[x]], out' = [out EXCEPT ![x] = out'[x]],
         l = "zombie" => held'[x] = {} /\ in'[x] = 0 /\ out'[x] = 0,
         out'[x] # 0 => x < N,
         NEW h \in BOOLEAN, has' = [has EXCEPT ![x] = h],
         NEW c \in Nat, count' = [count EXCEPT ![x] = c],
         l \in {"close", "exec"} => ~h /\ c = 0,
         l = "run" => c <= Limit(x) /\ (h => c < Limit(x))
  PROVE  JInv'
<1> USE Constants
<1>1. N' = N
  BY DEF N
<1>2. ASSUME NEW y \in Children, y # x
      PROVE  /\ cpc'[y] = cpc[y] /\ in'[y] = in[y] /\ out'[y] = out[y]
             /\ held'[y] = held[y] /\ has'[y] = has[y] /\ count'[y] = count[y]
  <2>1. cpc'[y] = cpc[y] /\ in'[y] = in[y] /\ out'[y] = out[y]
    BY <1>2 DEF JInv, IInv, Types
  <2>2. held'[y] = held[y]
    BY <1>2 DEF JInv, IInv, Types, Processes
  <2>3. has'[y] = has[y]
    BY <1>2, Zenon DEF JInv, Counted
  <2>4. count'[y] = count[y]
    BY <1>2 DEF JInv, Counted
  <2> QED BY <2>1, <2>2, <2>3, <2>4
<1>3. cpc'[x] = l /\ has'[x] = h /\ count'[x] = c
  BY DEF JInv, IInv, Types, Counted
<1>4. Loose'
  BY <1>1, <1>2, <1>3 DEF JInv, Loose, Alive
<1>5. Counted'
  <2>1. has' \in [Children -> BOOLEAN] /\ count' \in [Children -> Nat]
    BY DEF JInv, Counted
  <2>2. \A y \in Children : Limit(y)' = Limit(y)
    BY DEF Limit
  <2>3. ASSUME NEW y \in Children
        PROVE  /\ cpc'[y] \in {"none", "dup", "close", "exec"} => ~has'[y] /\ count'[y] = 0
               /\ cpc'[y] = "run" => count'[y] <= Limit(y) /\ (has'[y] => count'[y] < Limit(y))
    BY <1>2, <1>3 DEF JInv, Counted
  <2> QED BY <2>1, <2>2, <2>3 DEF Counted
<1>6. Reaped'
  <2>1. Gone' = Gone
    BY <1>2, <1>3 DEF Gone, Alive
  <2>2. pc = "fork" => \A y \in Children : y >= i => cpc'[y] = "none"
    BY <1>2, <1>3 DEF JInv, Reaped, Alive
  <2>3. ParentEndsLast'
    BY <1>2, <1>3 DEF JInv, Reaped, ParentEndsLast, Alive
  <2> QED BY <2>1, <2>2, <2>3 DEF JInv, Reaped
<1> QED BY <1>4, <1>5, <1>6 DEF JInv

LEMMA StartJInv ==
  ASSUME JInv, NEW x \in Children, Dup(x) \/ CloseInChild(x) \/ Exec(x) PROVE JInv'
<1> USE Constants
<1>1. IInv'
  BY DupIInv, CloseInChildIInv, StepIInv DEF JInv
<1>2. /\ Alive(x) /\ UNCHANGED <<prog, pc, i, has, count>> /\ ~has[x] /\ count[x] = 0
      /\ has' = [has EXCEPT ![x] = FALSE] /\ count' = [count EXCEPT ![x] = 0]
  BY DEF JInv, Counted, Alive, Dup, CloseInChild, Exec
<1>3. x <= N /\ N \in Nat
  BY <1>2 DEF JInv, IInv, Types, Loose, Alive
<1>4. 0 <= Limit(x) /\ 0 \in Nat /\ FALSE \in BOOLEAN
  BY LimitType
<1>5. CASE Dup(x)
  <2>1. /\ cpc' = [cpc EXCEPT ![x] = "close"] /\ held' = [held EXCEPT ![x] = held'[x]]
        /\ in' = [in EXCEPT ![x] = in'[x]] /\ out' = [out EXCEPT ![x] = out'[x]]
    BY <1>5 DEF Dup, JInv, IInv, Types, Processes
  <2>2. out'[x] # 0 => x < N
    BY <1>3, <1>5 DEF Dup, JInv, IInv, Types
  <2> QED BY <1>1, <1>2, <1>4, <2>1, <2>2, ChildJInv
<1>6. CASE CloseInChild(x)
  <2>1. /\ cpc' = [cpc EXCEPT ![x] = "exec"] /\ held' = [held EXCEPT ![x] = held'[x]]
        /\ in' = [in EXCEPT ![x] = in'[x]] /\ out' = [out EXCEPT ![x] = out'[x]]
    BY <1>6 DEF CloseInChild, JInv, IInv, Types, Processes
  <2>2. out'[x] # 0 => x < N
    BY <1>6 DEF CloseInChild, JInv, Loose
  <2> QED BY <1>1, <1>2, <1>4, <2>1, <2>2, ChildJInv
<1>7. CASE Exec(x)
  <2>1. /\ held' = [held EXCEPT ![x] = held'[x]] /\ held'[x] = {}
        /\ in' = [in EXCEPT ![x] = in'[x]] /\ out' = [out EXCEPT ![x] = out'[x]]
    BY <1>7 DEF Exec, Exit, JInv, IInv, Types, Processes, OnlyNeighbours
  <2>2. out'[x] # 0 => x < N
    BY <1>7 DEF Exec, Exit, JInv, Loose, IInv, Types
  <2>3. CASE cpc' = [cpc EXCEPT ![x] = "run"]
    BY <1>1, <1>2, <1>4, <2>1, <2>2, <2>3, ChildJInv
  <2>4. CASE Exit(x)
    <3>1. cpc' = [cpc EXCEPT ![x] = "zombie"] /\ in'[x] = 0 /\ out'[x] = 0
      BY <2>4 DEF Exit, JInv, IInv, Types
    <3> QED BY <1>1, <1>2, <1>4, <2>1, <3>1, ChildJInv
  <2> QED BY <1>7, <2>3, <2>4 DEF Exec
<1> QED BY <1>5, <1>6, <1>7

LEMMA CommandJInv ==
  ASSUME JInv, NEW x \in Children, Read(x) \/ Write(x) \/ Finish(x) PROVE JInv'
<1> USE Constants
<1>1. IInv'
  BY StepIInv DEF JInv
<1>2. /\ cpc[x] = "run" /\ Alive(x) /\ UNCHANGED <<prog, pc, i, held>> /\ held[x] = {}
      /\ held' = [held EXCEPT ![x] = held'[x]] /\ (out[x] # 0 => x < N)
  BY DEF JInv, IInv, Types, Processes, OnlyNeighbours, Loose, Alive, Read, Write, Finish, Wants
<1>3. PICK h \in BOOLEAN, c \in Nat :
        /\ has' = [has EXCEPT ![x] = h] /\ count' = [count EXCEPT ![x] = c]
        /\ c <= Limit(x) /\ (h => c < Limit(x))
  <2>1. /\ has[x] \in BOOLEAN /\ count[x] \in Nat /\ Limit(x) \in Nat
        /\ count[x] <= Limit(x) /\ (has[x] => count[x] < Limit(x))
        /\ has = [has EXCEPT ![x] = has[x]] /\ count = [count EXCEPT ![x] = count[x]]
    BY <1>2, LimitType DEF JInv, Counted
  <2>2. CASE Read(x)
    BY <2>1, <2>2 DEF Read, Wants
  <2>3. CASE Write(x)
    <3>1. PICK c \in {count[x], count[x] + 1} : count' = [count EXCEPT ![x] = c]
      BY <2>3 DEF Write
    <3>2. c \in Nat /\ c <= Limit(x) /\ has' = [has EXCEPT ![x] = FALSE]
      BY <2>1, <2>3, <3>1 DEF Write
    <3> QED BY <3>1, <3>2
  <2>4. CASE Finish(x)
    BY <2>1, <2>4 DEF Finish
  <2> QED BY <2>2, <2>3, <2>4
<1>4. CASE Exit(x)
  <2>1. /\ cpc' = [cpc EXCEPT ![x] = "zombie"] /\ in'[x] = 0 /\ out'[x] = 0
        /\ in' = [in EXCEPT ![x] = in'[x]] /\ out' = [out EXCEPT ![x] = out'[x]]
    BY <1>4 DEF Exit, JInv, IInv, Types
  <2> QED BY <1>1, <1>2, <1>3, <2>1, ChildJInv
<1>5. CASE ~Exit(x)
  <2>1. UNCHANGED <<cpc, in, out>>
    BY <1>5 DEF Read, Write, Finish
  <2>2. /\ cpc' = [cpc EXCEPT ![x] = "run"]
        /\ in' = [in EXCEPT ![x] = in'[x]] /\ out' = [out EXCEPT ![x] = out'[x]]
    BY <1>2, <2>1 DEF JInv, IInv, Types
  <2> QED BY <1>1, <1>2, <1>3, <2>1, <2>2, ChildJInv
<1> QED BY <1>4, <1>5

LEMMA NextJInv ==
  ASSUME JInv, [Next]_vars PROVE JInv'
<1>1. ASSUME UNCHANGED vars PROVE JInv'
  <2>1. IInv'
    BY <1>1, NextIInv DEF JInv
  <2> QED BY <1>1, <2>1 DEF vars, JInv, Loose, Alive, Counted, Reaped, Gone, ParentEndsLast, Limit, N
<1>2. ASSUME NEW x \in Children, Child(x) PROVE JInv'
  BY <1>2, StartJInv, CommandJInv DEF Child
<1> QED BY <1>1, <1>2, MakePipesJInv, ForkJInv, ClosePipesJInv, WaitJInv DEF Next, Main

LEMMA AlwaysJInv == Spec => []JInv
BY InitJInv, NextJInv, PTL DEF Spec

(* The parent ends after all its children, for any number of commands and  *)
(* however many forks fail: the ends it has seen are as many as commands,  *)
(* or wait has told it that there is no child left.                        *)
THEOREM ParentLast == Spec => []ParentEndsLast
BY AlwaysJInv, PTL DEF JInv, Reaped
-----------------------------------------------------------------------------
(* Who is alive and cannot go on waits for its neighbour.                  *)
LEMMA WaitsForNeighbour ==
  ASSUME JInv, pc = "wait", \A y \in Children : ~Goes(y), NEW x \in Children, Alive(x)
  PROVE  /\ cpc[x] = "run"
         /\ has[x]  => x + 1 \in Children /\ Alive(x + 1) /\ has[x + 1]
         /\ ~has[x] => x - 1 \in Children /\ Alive(x - 1)
<1> USE Constants
<1>1. \A y \in Children : Alive(y) => cpc[y] = "run" /\ held[y] = {}
  BY DEF JInv, IInv, Types, Labels, OnlyNeighbours, Alive, Goes
<1>2. /\ \A y \in Processes : held[y] = {}
      /\ \A y \in Children : in[y] \in {0, y - 1} /\ out[y] \in {0, y} /\ (out[y] # 0 => y < N)
      /\ \A y \in Children : in[y] # 0 \/ out[y] # 0 => Alive(y)
      /\ N \in 0 .. MaxCommands
  BY <1>1 DEF JInv, IInv, Types, OnlyNeighbours, Loose, Processes
<1>3. /\ \A y \in Children : Alive(y) /\ ~has[y] => Wants(y) /\ prog[y] # "gen" /\ y \notin EndOfInput
                                                     /\ ~(items[in[y]] > 0)
  <2> SUFFICES ASSUME NEW y \in Children, Alive(y), ~has[y]
               PROVE  Wants(y) /\ prog[y] # "gen" /\ y \notin EndOfInput /\ ~(items[in[y]] > 0)
    OBVIOUS
  <2>1. cpc[y] = "run" /\ ~Goes(y)
    BY <1>1
  <2>2. count[y] \in Nat /\ Limit(y) \in Nat /\ count[y] <= Limit(y) /\ count[y] # Limit(y)
    BY <2>1, LimitType DEF JInv, Counted, Goes
  <2>3. Wants(y)
    BY <2>1, <2>2 DEF Wants
  <2> QED BY <2>1, <2>3 DEF Goes
<1>4. ASSUME has[x] PROVE x + 1 \in Children /\ Alive(x + 1) /\ has[x + 1]
  <2>1. out[x] # 0 /\ Readers(out[x]) # {} /\ ~(items[out[x]] < Capacity)
    BY <1>1, <1>4 DEF Goes
  <2>2. out[x] = x /\ x < N /\ x \in Pipes
    BY <1>2, <2>1 DEF Pipes
  <2>3. PICK y \in Children : in[y] = x
    BY <1>2, <2>1, <2>2 DEF Readers, Processes
  <2>4. y = x + 1 /\ in[x + 1] = x /\ x + 1 \in Children /\ Alive(x + 1)
    BY <1>2, <2>3
  <2>5. items[x] > 0
    BY <2>1, <2>2 DEF JInv, IInv, Types
  <2> QED BY <1>3, <2>4, <2>5
<1>5. ASSUME ~has[x] PROVE x - 1 \in Children /\ Alive(x - 1)
  <2>1. in[x] # 0 /\ ~(items[in[x]] = 0 /\ Writers(in[x]) = {}) /\ ~(items[in[x]] > 0)
    BY <1>3, <1>5 DEF EndOfInput
  <2>2. in[x] = x - 1 /\ x - 1 \in Pipes
    BY <1>2, <2>1 DEF Pipes
  <2>3. items[x - 1] = 0
    BY <2>1, <2>2 DEF JInv, IInv, Types
  <2>4. PICK y \in Children : out[y] = x - 1
    BY <1>2, <2>1, <2>2, <2>3 DEF Writers, Processes
  <2>5. y = x - 1
    BY <1>2, <2>2, <2>4 DEF Pipes
  <2> QED BY <1>2, <2>2, <2>4, <2>5 DEF Pipes
<1> QED BY <1>1, <1>4, <1>5

(* A set of natural numbers that is not empty has a smallest one.          *)
LEMMA Smallest ==
  ASSUME NEW S, S \subseteq Nat, S # {}
  PROVE  \E x \in S : \A y \in S : x <= y
<1>1. PICK x \in S : \A y \in S : <<y, x>> \notin OpToRel(<, Nat)
  BY NatLessThanWellFounded, WFMin, Zenon
<1>2. \A y \in S : x <= y
  <2> SUFFICES ASSUME NEW y \in S PROVE x <= y
    OBVIOUS
  <2>1. x \in Nat /\ y \in Nat
    OBVIOUS
  <2>2. ~ (y < x)
    BY <1>1, <2>1 DEF OpToRel
  <2> QED BY <2>1, <2>2
<1> QED BY <1>2

LEMMA SomebodyGoes == JInv => NobodyStuck
<1> SUFFICES ASSUME JInv, pc = "wait", NEW x0 \in Children, Alive(x0), \A y \in Children : ~Goes(y)
             PROVE  FALSE
  BY DEF NobodyStuck, Alive
<1> USE Constants
<1>1. ASSUME NEW x \in Children, Alive(x) PROVE ~has[x]
  <2> SUFFICES ASSUME has[x] PROVE FALSE
    OBVIOUS
  <2> DEFINE S == {k \in Nat : \E y \in Children : k = MaxCommands - y /\ Alive(y) /\ has[y]}
  <2>1. S \subseteq Nat /\ S # {}
    <3>1. MaxCommands - x \in S
      BY <1>1
    <3> QED BY <3>1
  <2>2. PICK k \in S : \A m \in S : k <= m
    BY <2>1, Smallest
  <2>3. PICK y \in Children : k = MaxCommands - y /\ Alive(y) /\ has[y]
    BY <2>2
  <2>4. y + 1 \in Children /\ Alive(y + 1) /\ has[y + 1]
    BY <2>3, WaitsForNeighbour
  <2>5. k - 1 \in S
    BY <2>3, <2>4
  <2> HIDE DEF S
  <2> QED BY <2>1, <2>2, <2>5
<1> DEFINE A == {y \in Children : Alive(y)}
<1>2. A \subseteq Nat /\ A # {}
  OBVIOUS
<1>3. PICK x \in A : \A y \in A : x <= y
  BY <1>2, Smallest
<1>4. x - 1 \in A
  BY <1>1, <1>3, WaitsForNeighbour
<1> HIDE DEF A
<1> QED BY <1>2, <1>3, <1>4

(* Children that have not ended never wait for each other all at once,     *)
(* however many commands there are and however little a pipe holds: the    *)
(* last of those that wait for room writes to the terminal, and the first  *)
(* of those that wait for input reads from it.                             *)
THEOREM NoneStuck == Spec => []NobodyStuck
BY AlwaysJInv, SomebodyGoes, PTL
-----------------------------------------------------------------------------
(* The parser: what a text is cut into                                     *)

\* a and b cut a part out of t, possibly an empty one.
Cut(t, a, b) == t \in Seq(STRING) /\ a \in 1 .. Len(t) + 1 /\ b \in 0 .. Len(t) /\ a <= b + 1

Part(t, a, b) == SubSeq(t, a, b)

\* s has the characters of t from a to b.
IsCut(s, t, a, b) ==
  /\ s \in Seq(STRING) /\ Len(s) = b - a + 1 /\ Len(s) \in Nat
  /\ \A m \in 1 .. b - a + 1 : s[m] = t[a + m - 1]

LEMMA CutIs ==
  ASSUME NEW t, NEW a, NEW b, Cut(t, a, b) PROVE IsCut(Part(t, a, b), t, a, b)
<1>1. Len(t) \in Nat /\ a \in Int /\ b \in Int
  BY LenProperties DEF Cut
<1>2. \A m \in a .. b : m \in 1 .. Len(t)
  BY <1>1 DEF Cut
<1> QED BY <1>1, <1>2, SubSeqProperties DEF Cut, Part, IsCut

(* A part of a part is a part of the whole, counted from its beginning.    *)
LEMMA CutOfCut ==
  ASSUME NEW t, NEW a, NEW b, Cut(t, a, b),
         NEW c \in a .. b + 1, NEW d \in a - 1 .. b, c <= d + 1,
         NEW x, NEW y, x = c - a + 1, y = d - a + 1
  PROVE  Cut(t, c, d) /\ Part(Part(t, a, b), x, y) = Part(t, c, d)
<1>1. Len(t) \in Nat /\ a \in Nat /\ b \in Nat /\ c \in Nat /\ d \in Nat /\ x \in Nat /\ y \in Nat
  <2>1. Len(t) \in Nat /\ a \in 1 .. Len(t) + 1 /\ b \in 0 .. Len(t)
    BY LenProperties DEF Cut
  <2>2. a \in Nat /\ b \in Nat /\ a >= 1
    BY <2>1
  <2>3. c \in Nat /\ d \in Nat /\ c - a + 1 \in Nat /\ d - a + 1 \in Nat
    BY <2>2
  <2> QED BY <2>1, <2>2, <2>3
<1>2. Cut(t, c, d)
  <2>1. t \in Seq(STRING) /\ 1 <= a /\ b <= Len(t)
    BY <1>1 DEF Cut
  <2>2. c \in 1 .. Len(t) + 1 /\ d \in 0 .. Len(t)
    BY <1>1, <2>1
  <2> QED BY <2>1, <2>2 DEF Cut
<1> DEFINE s == Part(t, a, b)
<1>3. s \in Seq(STRING) /\ Len(s) = b - a + 1 /\ \A m \in 1 .. b - a + 1 : s[m] = t[a + m - 1]
  <2>1. IsCut(s, t, a, b)
    BY CutIs
  <2> HIDE DEF s
  <2> QED BY <2>1 DEF IsCut
<1> HIDE DEF s
<1> DEFINE u == Part(s, x, y)
           w == Part(t, c, d)
<1>4. Cut(s, x, y)
  BY <1>1, <1>3 DEF Cut
<1>5. /\ u \in Seq(STRING) /\ Len(u) = y - x + 1
      /\ \A m \in 1 .. y - x + 1 : u[m] = s[x + m - 1]
  <2>1. IsCut(u, s, x, y)
    BY <1>4, CutIs
  <2> QED BY <2>1 DEF IsCut
<1>6. /\ w \in Seq(STRING) /\ Len(w) = d - c + 1 /\ \A m \in 1 .. d - c + 1 : w[m] = t[c + m - 1]
  <2>1. IsCut(w, t, c, d)
    BY <1>2, CutIs
  <2> HIDE DEF w
  <2> QED BY <2>1 DEF IsCut
<1>7. y - x + 1 = d - c + 1
  BY <1>1
<1>8. ASSUME NEW m \in 1 .. Len(u) PROVE u[m] = w[m]
  <2>1. m \in 1 .. d - c + 1
    BY <1>5, <1>7, <1>8
  <2>2. /\ x + m - 1 \in 1 .. b - a + 1 /\ a + (x + m - 1) - 1 = c + m - 1
    BY <1>1, <2>1
  <2>3. u[m] = s[x + m - 1]
    BY <1>5, <1>7, <2>1
  <2>4. s[x + m - 1] = t[c + m - 1]
    BY <1>3, <2>2
  <2> QED BY <1>6, <2>1, <2>3, <2>4
<1>9. Len(u) = Len(w)
  BY <1>5, <1>6, <1>7
<1> HIDE DEF u, w
<1>10. u = w
  BY <1>5, <1>6, <1>8, <1>9, SeqEqual
<1> QED BY <1>2, <1>10 DEF s, u, w

LEMMA MinIs ==
  ASSUME NEW I \in SUBSET Int, NEW x \in I, \A y \in I : x <= y
  PROVE  Sx!Min(I) = x
<1>1. \A z \in I : (\A y \in I : z <= y) => z = x
  OBVIOUS
<1> QED BY <1>1 DEF Sx!Min

(* Where the first of a kind of characters is.                              *)
LEMMA CutAtFirst ==
  ASSUME NEW t, NEW a, NEW b, Cut(t, a, b), NEW c, NEW p \in a .. b, t[p] = c,
         \A m \in a .. p - 1 : t[m] # c
  PROVE  /\ Before(Part(t, a, b), c) = Part(t, a, p - 1) /\ Cut(t, a, p - 1)
         /\ After(Part(t, a, b), c) = Part(t, p + 1, b) /\ Cut(t, p + 1, b)
         /\ Has(Part(t, a, b), c)
<1> DEFINE s == Part(t, a, b)
           I == {m \in 1 .. Len(s) : s[m] = c}
           q == p - a + 1
<1>1. Len(t) \in Nat /\ a \in Nat /\ b \in Nat /\ p \in Nat /\ a >= 1
  BY LenProperties DEF Cut
<1>2. s \in Seq(STRING) /\ Len(s) = b - a + 1 /\ \A m \in 1 .. b - a + 1 : s[m] = t[a + m - 1]
  BY CutIs DEF IsCut
<1>3. q \in I
  BY <1>1, <1>2
<1>4. ASSUME NEW m \in I PROVE q <= m
  <2>1. a + m - 1 \in a .. b /\ t[a + m - 1] = c
    BY <1>1, <1>2
  <2>2. a + m - 1 \notin a .. p - 1
    BY <2>1
  <2> QED BY <1>1, <2>1, <2>2
<1>5. I \subseteq Int
  BY <1>1, <1>2
<1>6. Sx!Min(I) = q
  <2> HIDE DEF I, q
  <2> QED BY <1>3, <1>4, <1>5, MinIs
<1>7. Sx!SelectInSeq(s, LAMBDA x : x = c) = q
  BY <1>3, <1>6 DEF Sx!SelectInSeq
<1>8. Has(s, c)
  BY <1>3 DEF Has, Sx!Contains
<1>9. q # 0
  BY <1>1
<1>10. Before(s, c) = Part(s, 1, q - 1)
  BY <1>7, <1>9 DEF Before, Part
<1>11. After(s, c) = Part(s, q + 1, Len(s))
  BY <1>7 DEF After, Part
<1>12. Part(s, 1, q - 1) = Part(t, a, p - 1) /\ Cut(t, a, p - 1)
  <2>1. a \in a .. b + 1 /\ p - 1 \in a - 1 .. b /\ a <= (p - 1) + 1
    BY <1>1
  <2>2. 1 = a - a + 1 /\ q - 1 = (p - 1) - a + 1
    BY <1>1
  <2> HIDE DEF q
  <2> QED BY <2>1, <2>2, CutOfCut
<1>13. Part(s, q + 1, Len(s)) = Part(t, p + 1, b) /\ Cut(t, p + 1, b)
  <2>1. p + 1 \in a .. b + 1 /\ b \in a - 1 .. b /\ p + 1 <= b + 1
    BY <1>1
  <2>2. q + 1 = (p + 1) - a + 1 /\ Len(s) = b - a + 1
    BY <1>1, <1>2
  <2> HIDE DEF q
  <2> QED BY <2>1, <2>2, CutOfCut
<1> QED BY <1>8, <1>10, <1>11, <1>12, <1>13

LEMMA CutNowhere ==
  ASSUME NEW t, NEW a, NEW b, Cut(t, a, b), NEW c, \A m \in a .. b : t[m] # c
  PROVE  /\ Before(Part(t, a, b), c) = Part(t, a, b)
         /\ After(Part(t, a, b), c) = Part(t, a, b)
         /\ ~Has(Part(t, a, b), c)
<1> DEFINE s == Part(t, a, b)
<1>1. Len(t) \in Nat /\ a \in Nat /\ b \in Nat
  BY LenProperties DEF Cut
<1>2. s \in Seq(STRING) /\ Len(s) = b - a + 1 /\ \A m \in 1 .. b - a + 1 : s[m] = t[a + m - 1]
  BY CutIs DEF IsCut
<1>3. ASSUME NEW m \in 1 .. Len(s) PROVE s[m] # c
  <2>1. m \in 1 .. b - a + 1 /\ a + m - 1 \in a .. b
    BY <1>1, <1>2
  <2> QED BY <1>2, <2>1
<1>4. Sx!SelectInSeq(s, LAMBDA x : x = c) = 0
  BY <1>3 DEF Sx!SelectInSeq
<1>5. Part(s, 0 + 1, Len(s)) = s
  BY <1>2, SubSeqFull DEF Part
<1> HIDE DEF s
<1>6. Before(s, c) = s
  BY <1>4 DEF Before, Part
<1>7. After(s, c) = s
  BY <1>4, <1>5 DEF After, Part
<1>8. ~Has(s, c)
  BY <1>3 DEF Has, Sx!Contains
<1> QED BY <1>6, <1>7, <1>8 DEF s

LEMMA SkipToWord ==
  ASSUME NEW t, NEW a, NEW b, Cut(t, a, b), NEW p \in a .. b, t[p] \notin White,
         \A m \in a .. p - 1 : t[m] \in White
  PROVE  SkipWhite(Part(t, a, b)) = Part(t, p, b) /\ Cut(t, p, b)
<1> DEFINE s == Part(t, a, b)
           I == {m \in 1 .. Len(s) : s[m] \notin White}
           q == p - a + 1
<1>1. Len(t) \in Nat /\ a \in Nat /\ b \in Nat /\ p \in Nat /\ a >= 1
  BY LenProperties DEF Cut
<1>2. s \in Seq(STRING) /\ Len(s) = b - a + 1 /\ \A m \in 1 .. b - a + 1 : s[m] = t[a + m - 1]
  BY CutIs DEF IsCut
<1>3. q \in I
  BY <1>1, <1>2
<1>4. ASSUME NEW m \in I PROVE q <= m
  <2>1. a + m - 1 \in a .. b /\ t[a + m - 1] \notin White
    BY <1>1, <1>2
  <2>2. a + m - 1 \notin a .. p - 1
    BY <2>1
  <2> QED BY <1>1, <2>1, <2>2
<1>5. I \subseteq Int
  BY <1>1, <1>2
<1>6. Sx!Min(I) = q
  <2> HIDE DEF I, q
  <2> QED BY <1>3, <1>4, <1>5, MinIs
<1>7. Sx!SelectInSeq(s, LAMBDA x : x \notin White) = q
  BY <1>3, <1>6 DEF Sx!SelectInSeq
<1>8. SkipWhite(s) = Part(s, q, Len(s))
  <2>1. q # 0
    BY <1>1
  <2> HIDE DEF s, q
  <2> QED BY <1>7, <2>1 DEF SkipWhite, Part
<1>9. Part(s, q, Len(s)) = Part(t, p, b) /\ Cut(t, p, b)
  <2>1. p \in a .. b + 1 /\ b \in a - 1 .. b /\ p <= b + 1
    BY <1>1
  <2>2. q = p - a + 1 /\ Len(s) = b - a + 1
    BY <1>1, <1>2
  <2> HIDE DEF q
  <2> QED BY <2>1, <2>2, CutOfCut
<1> QED BY <1>8, <1>9

LEMMA SkipAll ==
  ASSUME NEW t, NEW a, NEW b, Cut(t, a, b), \A m \in a .. b : t[m] \in White
  PROVE  SkipWhite(Part(t, a, b)) = <<>>
<1> DEFINE s == Part(t, a, b)
<1>1. Len(t) \in Nat /\ a \in Nat /\ b \in Nat
  BY LenProperties DEF Cut
<1>2. s \in Seq(STRING) /\ Len(s) = b - a + 1 /\ \A m \in 1 .. b - a + 1 : s[m] = t[a + m - 1]
  BY CutIs DEF IsCut
<1>3. ASSUME NEW m \in 1 .. Len(s) PROVE s[m] \in White
  <2>1. m \in 1 .. b - a + 1 /\ a + m - 1 \in a .. b
    BY <1>1, <1>2
  <2> QED BY <1>2, <2>1
<1>4. Sx!SelectInSeq(s, LAMBDA x : x \notin White) = 0
  BY <1>3 DEF Sx!SelectInSeq
<1> QED BY <1>4 DEF SkipWhite, Part
-----------------------------------------------------------------------------
(* Numbers in order                                                        *)

\* What Ordered counts for m.
Rank(S, m) == Cardinality({n \in S : n <= m})

\* f lists the n elements of S in increasing order.
Enumerates(f, n, S) ==
  /\ f \in [1 .. n -> S]
  /\ \A k, l \in 1 .. n : k < l => f[k] < f[l]
  /\ \A x \in S : \E k \in 1 .. n : f[k] = x

LEMMA Ranks ==
  ASSUME NEW S \in SUBSET Int, IsFiniteSet(S)
  PROVE  /\ Cardinality(S) \in Nat
         /\ \A m \in S : Rank(S, m) \in 1 .. Cardinality(S)
         /\ \A m, n \in S : m < n => Rank(S, m) < Rank(S, n)
<1> DEFINE below(m) == {n \in S : n <= m}
<1>1. Cardinality(S) \in Nat
  BY FS_CardinalityType
<1>2. ASSUME NEW m \in S
      PROVE  IsFiniteSet(below(m)) /\ Cardinality(below(m)) \in Nat /\ Cardinality(below(m)) <= Cardinality(S)
  BY FS_Subset, FS_CardinalityType
<1>3. ASSUME NEW m \in S PROVE Rank(S, m) \in 1 .. Cardinality(S)
  <2>1. below(m) # {}
    OBVIOUS
  <2>2. Cardinality(below(m)) # 0
    BY <1>2, <2>1, FS_EmptySet
  <2> QED BY <1>1, <1>2, <2>2 DEF Rank
<1>4. ASSUME NEW m \in S, NEW n \in S, m < n PROVE Rank(S, m) < Rank(S, n)
  <2>1. below(m) \subseteq below(n) /\ n \in below(n) /\ n \notin below(m)
    <3>1. n <= n /\ ~ (n <= m) /\ \A y \in S : y <= m => y <= n
      BY <1>4
    <3> QED BY <3>1
  <2>2. Cardinality(below(m)) <= Cardinality(below(n)) /\ Cardinality(below(m)) # Cardinality(below(n))
    BY <1>2, <2>1, FS_Subset
  <2> QED BY <1>2, <2>2 DEF Rank
<1> QED BY <1>1, <1>3, <1>4

(* For a finite set, every rank has an element: Ordered lists it.          *)
LEMMA OrderedEnumerates ==
  ASSUME NEW S \in SUBSET Int, IsFiniteSet(S)
  PROVE  Cardinality(S) \in Nat /\ Enumerates(Ordered(S), Cardinality(S), S)
<1> DEFINE c == Cardinality(S)
           r == [m \in S |-> Rank(S, m)]
           o == Ordered(S)
<1>1. /\ c \in Nat /\ r \in [S -> 1 .. c]
      /\ \A m, n \in S : m < n => r[m] < r[n]
  BY Ranks
<1>2. IsFiniteSet(1 .. c) /\ Cardinality(1 .. c) = c
  BY <1>1, FS_Interval
<1>3. r \in Injection(S, 1 .. c)
  <2>1. ASSUME NEW m \in S, NEW n \in S, r[m] = r[n] PROVE m = n
    <3>1. m \in Int /\ n \in Int /\ r[m] \in Int /\ r[n] \in Int
      BY <1>1
    <3>2. ~ (m < n) /\ ~ (n < m)
      BY <1>1, <2>1, <3>1
    <3> QED BY <3>1, <3>2
  <2> HIDE DEF r, c
  <2> QED BY <1>1, <2>1 DEF Injection, IsInjective
<1>4. r \in Surjection(S, 1 .. c)
  <2> HIDE DEF r
  <2> QED BY <1>2, <1>3, FS_Injection
<1>5. \A k \in 1 .. c : \E m \in S : Rank(S, m) = k
  BY <1>4 DEF Surjection
<1>6. o = [k \in 1 .. c |-> CHOOSE m \in S : Rank(S, m) = k]
  BY DEF Ordered, Rank
<1>7. \A k \in 1 .. c : o[k] \in S /\ Rank(S, o[k]) = k
  BY <1>5, <1>6
<1>8. o \in [1 .. c -> S]
  BY <1>6, <1>7
<1>9. ASSUME NEW k \in 1 .. c, NEW l \in 1 .. c, k < l PROVE o[k] < o[l]
  <2>1. o[k] \in Int /\ o[l] \in Int /\ r[o[k]] = k /\ r[o[l]] = l
    BY <1>7
  <2>2. ~ (o[l] < o[k]) /\ o[k] # o[l]
    <3> HIDE DEF r, o, c
    <3> QED BY <1>1, <1>7, <1>9, <2>1
  <2> QED BY <2>1, <2>2
<1>10. ASSUME NEW x \in S PROVE \E k \in 1 .. c : o[k] = x
  <2>1. Rank(S, x) \in 1 .. c
    BY Ranks
  <2>2. PICK k \in 1 .. c : k = Rank(S, x)
    BY <2>1
  <2>3. o[k] \in S /\ Rank(S, o[k]) = Rank(S, x) /\ o[k] \in Int /\ x \in Int
    BY <1>7, <2>2
  <2>4. ~ (o[k] < x) /\ ~ (x < o[k])
    <3>1. Rank(S, x) \in Int
      BY <2>1
    <3> QED BY <2>3, <3>1, Ranks
  <2> QED BY <2>3, <2>4
<1> QED BY <1>1, <1>8, <1>9, <1>10 DEF Enumerates

LEMMA SameEnumeration ==
  ASSUME NEW S \in SUBSET Int, NEW n \in Nat, NEW f, NEW g, Enumerates(f, n, S), Enumerates(g, n, S)
  PROVE  f = g
<1> SUFFICES ASSUME f # g PROVE FALSE
  OBVIOUS
<1> DEFINE D == {k \in 1 .. n : f[k] # g[k]}
<1>1. D # {} /\ D \subseteq Nat
  BY DEF Enumerates
<1>2. PICK k \in D : \A l \in D : k <= l
  BY <1>1, Smallest
<1>3. \A l \in 1 .. n : l < k => f[l] = g[l]
  BY <1>2
<1>4. k \in 1 .. n /\ f[k] \in Int /\ g[k] \in Int /\ f[k] \in S /\ g[k] \in S /\ f[k] # g[k]
  BY <1>2 DEF Enumerates
<1>5. CASE f[k] < g[k]
  <2>1. PICK l \in 1 .. n : g[l] = f[k]
    BY <1>4 DEF Enumerates
  <2>2. g[l] \in Int
    BY <1>4, <2>1
  <2>3. ~ (k < l) /\ k # l
    BY <1>4, <1>5, <2>1, <2>2 DEF Enumerates
  <2>4. l < k
    BY <1>4, <2>3
  <2>5. f[l] = f[k]
    BY <1>3, <2>1, <2>4
  <2> QED BY <1>4, <2>4, <2>5 DEF Enumerates
<1>6. CASE g[k] < f[k]
  <2>1. PICK l \in 1 .. n : f[l] = g[k]
    BY <1>4 DEF Enumerates
  <2>2. f[l] \in Int
    BY <1>4, <2>1
  <2>3. ~ (k < l) /\ k # l
    BY <1>4, <1>6, <2>1, <2>2 DEF Enumerates
  <2>4. l < k
    BY <1>4, <2>3
  <2>5. g[l] = g[k]
    BY <1>3, <2>1, <2>4
  <2> QED BY <1>4, <2>4, <2>5 DEF Enumerates
<1> QED BY <1>4, <1>5, <1>6

(* Whatever lists a set in order is the order of the set.                   *)
LEMMA OrderedIs ==
  ASSUME NEW S \in SUBSET Int, NEW n \in Nat, NEW g, Enumerates(g, n, S)
  PROVE  IsFiniteSet(S) /\ Cardinality(S) = n /\ Ordered(S) = g
<1>1. IsFiniteSet(1 .. n) /\ Cardinality(1 .. n) = n
  BY FS_Interval
<1>2. g \in Bijection(1 .. n, S)
  <2>1. ASSUME NEW k \in 1 .. n, NEW l \in 1 .. n, g[k] = g[l] PROVE k = l
    <3>1. g[k] \in Int /\ g[l] \in Int
      BY DEF Enumerates
    <3>2. ~ (k < l) /\ ~ (l < k)
      BY <2>1, <3>1 DEF Enumerates
    <3> QED BY <3>2
  <2>2. g \in Injection(1 .. n, S)
    BY <2>1 DEF Enumerates, Injection, IsInjective
  <2>3. g \in Surjection(1 .. n, S)
    BY DEF Enumerates, Surjection
  <2> QED BY <2>2, <2>3 DEF Bijection
<1>3. IsFiniteSet(S) /\ Cardinality(S) = n
  BY <1>1, <1>2, FS_Bijection DEF ExistsBijection
<1>4. Enumerates(Ordered(S), n, S)
  BY <1>3, OrderedEnumerates
<1> QED BY <1>3, <1>4, SameEnumeration
-----------------------------------------------------------------------------
(* The commands                                                            *)

\* Where parts begin and end: at the bars and at both ends of the text.
Bars(t)   == {m \in DOMAIN t : t[m] = Bar}
Fences(t) == Bars(t) \cup {0, Len(t) + 1}

(* Nothing between two fences in order is a bar.                           *)
LEMMA Fenced ==
  ASSUME NEW t \in Seq(STRING), CountTokens(t) # 0, NEW p, p = Ordered(Fences(t)), NEW c, c = CountTokens(t)
  PROVE  /\ c \in Nat /\ c >= 2
         /\ p \in [1 .. c + 1 -> 0 .. Len(t) + 1] /\ p[1] = 0 /\ p[c + 1] = Len(t) + 1
         /\ p = [k \in 1 .. c + 1 |-> p[k]]
         /\ \A k \in 2 .. c : t[p[k]] = Bar
         /\ \A k \in 1 .. c : p[k] < p[k + 1] /\ \A m \in p[k] + 1 .. p[k + 1] - 1 : t[m] # Bar
<1> DEFINE n == Len(t)
           B == Bars(t)
           F == Fences(t)
<1>1. n \in Nat /\ DOMAIN t = 1 .. n
  BY LenProperties
<1>2. B \subseteq 1 .. n /\ IsFiniteSet(1 .. n)
  BY <1>1, FS_Interval DEF Bars
<1>3. IsFiniteSet(B) /\ Cardinality(B) \in Nat
  BY <1>2, FS_Subset, FS_CardinalityType
<1>4. Cardinality(B) # 0 /\ c = Cardinality(B) + 1
  BY DEF CountTokens, Bars
<1>5. IsFiniteSet(F) /\ Cardinality(F) = c + 1
  <2>1. 0 \notin B /\ n + 1 \notin B \cup {0}
    BY <1>1, <1>2
  <2>2. F = (B \cup {0}) \cup {n + 1}
    BY DEF Fences
  <2>3. IsFiniteSet(B \cup {0}) /\ Cardinality(B \cup {0}) = Cardinality(B) + 1
    BY <1>3, <2>1, FS_AddElement
  <2>4. IsFiniteSet(F) /\ Cardinality(F) = Cardinality(B \cup {0}) + 1
    <3> DEFINE D == B \cup {0}
    <3>1. n + 1 \notin D /\ F = D \cup {n + 1} /\ IsFiniteSet(D)
      BY <2>1, <2>2, <2>3
    <3> HIDE DEF D
    <3>2. IsFiniteSet(F) /\ Cardinality(F) = Cardinality(D) + 1
      BY <3>1, FS_AddElement
    <3> QED BY <3>2 DEF D
  <2> QED BY <1>3, <1>4, <2>3, <2>4
<1>6. F \subseteq 0 .. n + 1 /\ 0 \in F /\ n + 1 \in F
  BY <1>1, <1>2 DEF Fences
<1>7. c \in Nat /\ c >= 2
  BY <1>3, <1>4
<1>8. Enumerates(p, c + 1, F)
  <2>1. F \in SUBSET Int
    BY <1>1, <1>6
  <2> HIDE DEF F
  <2> QED BY <1>5, <2>1, OrderedEnumerates DEF F
<1>9. p \in [1 .. c + 1 -> 0 .. n + 1] /\ p = [k \in 1 .. c + 1 |-> p[k]]
  BY <1>6, <1>8 DEF Enumerates
<1>10. \A k, l \in 1 .. c + 1 : k < l => p[k] < p[l]
  BY <1>8 DEF Enumerates
<1>11. \A k \in 1 .. c + 1 : p[k] \in F /\ p[k] \in 0 .. n + 1
  BY <1>8, <1>9 DEF Enumerates
<1>12. \A x \in F : \E k \in 1 .. c + 1 : p[k] = x
  BY <1>8 DEF Enumerates
<1> HIDE DEF n, B, F
<1>13. 1 \in 1 .. c + 1 /\ c + 1 \in 1 .. c + 1
  BY <1>7
<1>14. p[1] = 0
  <2>1. PICK k \in 1 .. c + 1 : p[k] = 0
    BY <1>6, <1>12
  <2>2. p[1] \in Nat /\ (1 < k => p[1] < p[k])
    BY <1>1, <1>10, <1>11, <1>13
  <2> QED BY <2>1, <2>2
<1>15. p[c + 1] = n + 1
  <2>1. PICK k \in 1 .. c + 1 : p[k] = n + 1
    BY <1>6, <1>12
  <2>2. p[c + 1] \in 0 .. n + 1 /\ (k < c + 1 => p[k] < p[c + 1])
    BY <1>10, <1>11, <1>13
  <2>3. ~ (k < c + 1)
    BY <1>1, <2>1, <2>2
  <2>4. k = c + 1
    BY <1>7, <2>3
  <2> QED BY <2>1, <2>4
<1>16. ASSUME NEW k \in 2 .. c PROVE t[p[k]] = Bar
  <2>1. k \in 1 .. c + 1 /\ 1 < k /\ k < c + 1
    BY <1>7
  <2>2. p[1] < p[k] /\ p[k] < p[c + 1] /\ p[k] \in F
    BY <1>10, <1>11, <1>13, <2>1
  <2>3. p[k] # 0 /\ p[k] # n + 1
    BY <1>1, <1>14, <1>15, <2>2
  <2> QED BY <2>2, <2>3 DEF F, n, Fences, Bars
<1>17. ASSUME NEW k \in 1 .. c
       PROVE  p[k] < p[k + 1] /\ \A m \in p[k] + 1 .. p[k + 1] - 1 : t[m] # Bar
  <2>1. k \in 1 .. c + 1 /\ k + 1 \in 1 .. c + 1 /\ k < k + 1
    BY <1>7
  <2>2. p[k] < p[k + 1] /\ p[k] \in 0 .. n + 1 /\ p[k + 1] \in 0 .. n + 1
    BY <1>10, <1>11, <2>1
  <2>3. ASSUME NEW m \in p[k] + 1 .. p[k + 1] - 1, t[m] = Bar PROVE FALSE
    <3>1. m \in 1 .. n /\ p[k] < m /\ m < p[k + 1] /\ m \in Int
      BY <1>1, <2>2
    <3>2. m \in F
      BY <1>1, <2>3, <3>1 DEF F, Fences, Bars
    <3>3. PICK l \in 1 .. c + 1 : p[l] = m
      BY <1>12, <3>2
    <3>4. (l < k => p[l] < p[k]) /\ (k + 1 < l => p[k + 1] < p[l])
      BY <1>10, <2>1
    <3>5. l < k \/ l = k \/ l = k + 1 \/ k + 1 < l
      BY <1>7
    <3> QED BY <2>2, <3>1, <3>3, <3>4, <3>5
  <2> QED BY <2>2, <2>3
<1> QED BY <1>7, <1>9, <1>14, <1>15, <1>16, <1>17 DEF n

(* placing_pointers_in_text cuts the text at the bars.                     *)
LEMMA CommandsAre ==
  ASSUME NEW t \in Seq(STRING), CountTokens(t) # 0, NEW p, p = Ordered(Fences(t)), NEW c, c = CountTokens(t)
  PROVE  Commands(t) = [k \in 1 .. c |-> Argv(SkipWhite(Part(t, p[k] + 1, p[k + 1] - 1)))]
<1> DEFINE n == Len(t)
           f == [k \in 0 .. c |-> Part(t, p[IF k = c THEN c ELSE k + 1] + 1, n)]
           r == CHOOSE r : r = [k \in 0 .. c |-> IF k = 0 THEN t ELSE After(r[k - 1], Bar)]
<1>1. /\ c \in Nat /\ c >= 2 /\ n \in Nat
      /\ \A k \in 1 .. c + 1 : p[k] \in 0 .. n + 1
      /\ p[1] = 0 /\ p[c + 1] = n + 1
      /\ \A k \in 2 .. c : t[p[k]] = Bar
      /\ \A k \in 1 .. c : p[k] < p[k + 1] /\ \A m \in p[k] + 1 .. p[k + 1] - 1 : t[m] # Bar
  BY Fenced, LenProperties
<1>2. ASSUME NEW k \in 1 .. c
      PROVE  /\ Cut(t, p[k] + 1, n)
             /\ k < c => /\ Before(Part(t, p[k] + 1, n), Bar) = Part(t, p[k] + 1, p[k + 1] - 1)
                         /\ After(Part(t, p[k] + 1, n), Bar) = Part(t, p[k + 1] + 1, n)
             /\ k = c => /\ Before(Part(t, p[k] + 1, n), Bar) = Part(t, p[k] + 1, p[k + 1] - 1)
                         /\ After(Part(t, p[k] + 1, n), Bar) = Part(t, p[k] + 1, n)
  <2>1. k \in 1 .. c + 1 /\ k + 1 \in 1 .. c + 1
    BY <1>1
  <2>2. /\ p[k] \in 0 .. n + 1 /\ p[k + 1] \in 0 .. n + 1 /\ p[k] < p[k + 1]
        /\ \A m \in p[k] + 1 .. p[k + 1] - 1 : t[m] # Bar
    BY <1>1, <2>1
  <2>3. Cut(t, p[k] + 1, n)
    BY <1>1, <2>2 DEF Cut
  <2>4. CASE k < c
    <3>1. k + 1 \in 2 .. c
      BY <1>1, <2>4
    <3>2. t[p[k + 1]] = Bar /\ p[k + 1] # n + 1
      <4>1. k + 1 \in 1 .. c /\ (k + 1) + 1 \in 1 .. c + 1
        BY <1>1, <3>1
      <4>2. p[k + 1] < p[(k + 1) + 1] /\ p[(k + 1) + 1] \in 0 .. n + 1
        BY <1>1, <4>1
      <4> QED BY <1>1, <2>2, <3>1, <4>2
    <3>3. p[k + 1] \in p[k] + 1 .. n
      <4>1. p[k] \in Nat /\ p[k + 1] \in Int /\ p[k] < p[k + 1] /\ p[k + 1] <= n + 1 /\ n \in Nat
        BY <1>1, <2>2
      <4> HIDE DEF n
      <4> QED BY <3>2, <4>1
    <3> HIDE DEF n
    <3>4. PICK a, q : a = p[k] + 1 /\ q = p[k + 1]
      OBVIOUS
    <3>5. Cut(t, a, n) /\ q \in a .. n /\ t[q] = Bar /\ \A m \in a .. q - 1 : t[m] # Bar
      BY <2>2, <2>3, <3>2, <3>3, <3>4
    <3>6. Before(Part(t, a, n), Bar) = Part(t, a, q - 1) /\ After(Part(t, a, n), Bar) = Part(t, q + 1, n)
      BY <3>5, CutAtFirst
    <3>7. k # c
      BY <1>1, <2>4
    <3> QED BY <2>3, <3>4, <3>6, <3>7
  <2>5. CASE k = c
    <3>1. p[k + 1] - 1 = n
      BY <1>1, <2>5
    <3> HIDE DEF n
    <3> QED BY <1>1, <2>2, <2>3, <2>5, <3>1, CutNowhere
  <2> QED BY <1>1, <2>3, <2>4, <2>5
<1>3. f = [k \in 0 .. c |-> IF k = 0 THEN t ELSE After(f[k - 1], Bar)]
  <2>1. f[0] = t
    <3>1. p[1] + 1 = 1 /\ 0 # c /\ 0 \in 0 .. c
      BY <1>1
    <3>2. Part(t, 1, n) = t
      BY SubSeqFull DEF Part
    <3>3. f[0] = Part(t, p[0 + 1] + 1, n)
      BY <3>1
    <3> HIDE DEF f, n
    <3> QED BY <3>1, <3>2, <3>3
  <2>2. ASSUME NEW k \in 1 .. c PROVE f[k] = After(f[k - 1], Bar)
    <3>1. k - 1 \in 0 .. c /\ k - 1 # c /\ (k - 1) + 1 = k /\ k \in 0 .. c
      BY <1>1
    <3>2. f[k - 1] = Part(t, p[k] + 1, n)
      BY <3>1
    <3>3. f[k] = Part(t, p[IF k = c THEN c ELSE k + 1] + 1, n)
      BY <3>1
    <3> HIDE DEF f, n
    <3>4. CASE k = c
      BY <1>2, <3>2, <3>3, <3>4
    <3>5. CASE k # c
      <4>1. k < c
        BY <1>1, <3>5
      <4> QED BY <1>2, <3>2, <3>3, <3>5, <4>1
    <3> QED BY <3>4, <3>5
  <2>3. \A k \in 0 .. c : k = 0 \/ k \in 1 .. c
    BY <1>1
  <2> DEFINE g == [k \in 0 .. c |-> IF k = 0 THEN t ELSE After(f[k - 1], Bar)]
  <2>4. ASSUME NEW k \in 0 .. c PROVE f[k] = g[k]
    <3>1. CASE k = 0
      BY <2>1, <3>1
    <3>2. CASE k # 0
      BY <2>2, <2>3, <3>2
    <3> QED BY <3>1, <3>2
  <2>5. f = [k \in 0 .. c |-> f[k]] /\ g = [k \in 0 .. c |-> g[k]]
    OBVIOUS
  <2> HIDE DEF f, g
  <2>6. f = g
    BY <2>4, <2>5
  <2> QED BY <2>6 DEF g
<1> HIDE DEF f
<1>4. r = [k \in 0 .. c |-> IF k = 0 THEN t ELSE After(r[k - 1], Bar)]
  BY <1>3
<1>5. Commands(t) = [k \in 1 .. c |-> Argv(SkipWhite(Before(r[k - 1], Bar)))]
  BY DEF Commands
<1> HIDE DEF r
<1>6. \A k \in 0 .. c : r[k] = f[k]
  <2> DEFINE D == {k \in 0 .. c : r[k] # f[k]}
  <2> SUFFICES ASSUME D # {} PROVE FALSE
    OBVIOUS
  <2>1. PICK k \in D : \A l \in D : k <= l
    <3>1. D \subseteq Nat
      BY <1>1
    <3> HIDE DEF D
    <3> QED BY <3>1, Smallest
  <2>2. k \in 0 .. c /\ r[k] # f[k]
    BY <2>1
  <2>3. CASE k = 0
    BY <1>3, <1>4, <2>2, <2>3
  <2>4. CASE k # 0
    <3>1. k - 1 \in 0 .. c /\ ~ (k <= k - 1)
      BY <1>1, <2>2, <2>4
    <3>2. r[k - 1] = f[k - 1]
      BY <2>1, <3>1
    <3>3. r[k] = After(r[k - 1], Bar)
      BY <1>4, <2>2, <2>4
    <3>4. f[k] = After(f[k - 1], Bar)
      BY <1>3, <2>2, <2>4
    <3> QED BY <2>2, <3>2, <3>3, <3>4
  <2> QED BY <2>3, <2>4
<1>7. ASSUME NEW k \in 1 .. c PROVE Before(r[k - 1], Bar) = Part(t, p[k] + 1, p[k + 1] - 1)
  <2>1. k - 1 \in 0 .. c /\ k - 1 # c /\ (k - 1) + 1 = k
    BY <1>1
  <2>2. f[k - 1] = Part(t, p[k] + 1, n)
    BY <2>1 DEF f
  <2>3. Before(Part(t, p[k] + 1, n), Bar) = Part(t, p[k] + 1, p[k + 1] - 1)
    <3>1. k < c \/ k = c
      BY <1>1
    <3> HIDE DEF n
    <3> QED BY <1>2, <3>1
  <2>4. r[k - 1] = f[k - 1]
    BY <1>6, <2>1
  <2> HIDE DEF n
  <2> QED BY <2>2, <2>3, <2>4
<1> QED BY <1>5, <1>7
-----------------------------------------------------------------------------
(* The words of a part                                                     *)

\* Of the part from a to b: the characters of words, and those where a word
\* begins and ends.
InWord(t, a, b, m) == m \in a .. b /\ t[m] \notin White
Firsts(t, a, b)    == {m \in a .. b : InWord(t, a, b, m) /\ ~InWord(t, a, b, m - 1)}
Lasts(t, a, b)     == {m \in a .. b : InWord(t, a, b, m) /\ ~InWord(t, a, b, m + 1)}

\* A part between two bars, without a line that ends directly after a word.
Clean(t, a, b) ==
  /\ Cut(t, a, b) /\ \A m \in a .. b : t[m] # Bar
  /\ \A m \in a + 1 .. b : t[m] = "\n" => t[m - 1] \in White

\* Nothing from x to y is white.
Word(t, x, y) == x <= y /\ \A m \in x .. y : t[m] \notin White

LEMMA CutNumbers ==
  ASSUME NEW t, NEW a, NEW b, Cut(t, a, b)
  PROVE  Len(t) \in Nat /\ a \in Nat /\ b \in Nat /\ a >= 1 /\ a <= b + 1 /\ b <= Len(t)
BY LenProperties DEF Cut

(* Each word has an end and a beginning.                                   *)
LEMMA EndOfWord ==
  ASSUME NEW t, NEW a, NEW b, Cut(t, a, b), NEW x \in Firsts(t, a, b)
  PROVE  \E y \in Lasts(t, a, b) : Word(t, x, y)
<1> DEFINE D == {y \in x .. b : ~InWord(t, a, b, y + 1)}
<1>1. a \in Nat /\ b \in Nat /\ x \in a .. b /\ t[x] \notin White
  BY CutNumbers DEF Firsts, InWord
<1>2. b \in D
  BY <1>1 DEF InWord
<1>3. PICK y \in D : \A z \in D : y <= z
  <2>1. D \subseteq Nat
    BY <1>1
  <2> HIDE DEF D
  <2> QED BY <1>2, <2>1, Smallest
<1>4. y \in x .. b /\ ~InWord(t, a, b, y + 1)
  BY <1>3
<1>5. ASSUME NEW m \in x .. y PROVE InWord(t, a, b, m)
  <2>1. CASE m = x
    BY <1>1, <2>1 DEF InWord
  <2>2. CASE m # x
    <3>1. m - 1 \in x .. b /\ ~ (y <= m - 1) /\ (m - 1) + 1 = m
      BY <1>1, <1>4, <2>2
    <3>2. m - 1 \notin D
      BY <1>3, <3>1
    <3> QED BY <3>1, <3>2
  <2> QED BY <2>1, <2>2
<1>6. y \in Lasts(t, a, b)
  <2>1. y \in x .. y /\ y \in a .. b
    BY <1>1, <1>4
  <2> QED BY <1>4, <1>5, <2>1 DEF Lasts
<1>7. Word(t, x, y)
  BY <1>1, <1>4, <1>5 DEF InWord, Word
<1> QED BY <1>6, <1>7

LEMMA StartOfWord ==
  ASSUME NEW t, NEW a, NEW b, Cut(t, a, b), NEW y \in Lasts(t, a, b)
  PROVE  \E x \in Firsts(t, a, b) : Word(t, x, y)
<1> DEFINE D == {x \in a .. y : Word(t, x, y)}
<1>1. a \in Nat /\ b \in Nat /\ y \in a .. b /\ t[y] \notin White
  BY CutNumbers DEF Lasts, InWord
<1>2. y \in D
  BY <1>1 DEF Word
<1>3. PICK x \in D : \A z \in D : x <= z
  <2>1. D \subseteq Nat
    BY <1>1
  <2> HIDE DEF D
  <2> QED BY <1>2, <2>1, Smallest
<1>4. x \in a .. y /\ Word(t, x, y)
  BY <1>3
<1>5. ~InWord(t, a, b, x - 1)
  <2> SUFFICES ASSUME InWord(t, a, b, x - 1) PROVE FALSE
    OBVIOUS
  <2>1. x - 1 \in a .. y /\ t[x - 1] \notin White /\ ~ (x <= x - 1) /\ x - 1 <= y
    BY <1>1, <1>4 DEF InWord
  <2>2. \A m \in x - 1 .. y : m = x - 1 \/ m \in x .. y
    BY <1>1, <1>4
  <2>3. Word(t, x - 1, y)
    BY <1>4, <2>1, <2>2 DEF Word
  <2> QED BY <1>3, <2>1, <2>3
<1>6. InWord(t, a, b, x) /\ x \in a .. b
  BY <1>1, <1>4 DEF InWord, Word
<1> QED BY <1>4, <1>5, <1>6 DEF Firsts

(* The words are apart: the first and the last characters pair up.         *)
LEMMA WordsApart ==
  ASSUME NEW t, NEW a, NEW b, Cut(t, a, b),
         NEW x \in Firsts(t, a, b), NEW y \in Lasts(t, a, b), Word(t, x, y)
  PROVE  /\ \A z \in Firsts(t, a, b) : x < z => y + 1 < z
         /\ \A z \in Lasts(t, a, b) : Word(t, x, z) => z = y
<1>1. /\ a \in Nat /\ b \in Nat /\ x \in a .. b /\ y \in a .. b /\ x <= y
      /\ ~InWord(t, a, b, y + 1)
  BY CutNumbers DEF Firsts, Lasts, Word
<1>2. ASSUME NEW z \in Firsts(t, a, b), x < z PROVE y + 1 < z
  <2>1. z \in a .. b /\ InWord(t, a, b, z) /\ ~InWord(t, a, b, z - 1)
    BY DEF Firsts
  <2>2. z # y + 1
    BY <1>1, <2>1
  <2>3. ASSUME z <= y PROVE FALSE
    <3>1. z - 1 \in x .. y /\ z - 1 \in a .. b
      BY <1>1, <1>2, <2>1, <2>3
    <3> QED BY <2>1, <3>1 DEF Word, InWord
  <2> QED BY <1>1, <2>1, <2>2, <2>3
<1>3. ASSUME NEW z \in Lasts(t, a, b), Word(t, x, z) PROVE z = y
  <2>1. z \in a .. b /\ ~InWord(t, a, b, z + 1) /\ x <= z
    BY <1>3 DEF Lasts, Word
  <2>2. ASSUME z < y PROVE FALSE
    <3>1. z + 1 \in x .. y /\ z + 1 \in a .. b
      BY <1>1, <2>1, <2>2
    <3> QED BY <2>1, <3>1 DEF Word, InWord
  <2>3. ASSUME y < z PROVE FALSE
    <3>1. y + 1 \in x .. z /\ y + 1 \in a .. b
      BY <1>1, <2>1, <2>3
    <3> QED BY <1>1, <1>3, <3>1 DEF Word, InWord
  <2> QED BY <1>1, <2>1, <2>2, <2>3
<1> QED BY <1>2, <1>3

(* Blanks are skipped up to the next word, if there is one.                *)
LEMMA NextWord ==
  ASSUME NEW t, NEW a, NEW b, Cut(t, a, b), NEW x \in a .. b + 1, ~InWord(t, a, b, x - 1)
  PROVE  \/ \E f \in Firsts(t, a, b) :
              /\ x <= f /\ \A z \in Firsts(t, a, b) : x <= z => f <= z
              /\ SkipWhite(Part(t, x, b)) = Part(t, f, b)
         \/ /\ \A z \in Firsts(t, a, b) : z < x
            /\ SkipWhite(Part(t, x, b)) = <<>>
<1> DEFINE D == {m \in x .. b : t[m] \notin White}
<1>1. a \in Nat /\ b \in Nat /\ x \in Nat /\ a >= 1 /\ a <= x /\ x <= b + 1
  BY CutNumbers
<1>2. Cut(t, x, b)
  BY CutNumbers DEF Cut
<1>3. ASSUME NEW z \in Firsts(t, a, b), x <= z PROVE z \in D /\ z \in Nat
  BY <1>1, <1>3 DEF Firsts, InWord
<1>4. CASE D = {}
  <2>1. \A m \in x .. b : t[m] \in White
    BY <1>4
  <2>2. SkipWhite(Part(t, x, b)) = <<>>
    BY <1>2, <2>1, SkipAll
  <2>3. \A z \in Firsts(t, a, b) : z \in a .. b
    BY DEF Firsts
  <2>4. \A z \in Firsts(t, a, b) : z < x
    <3> HIDE DEF D
    <3> QED BY <1>1, <1>3, <1>4, <2>3
  <2> QED BY <2>2, <2>4
<1>5. CASE D # {}
  <2>1. PICK f \in D : \A z \in D : f <= z
    <3>1. D \subseteq Nat
      BY <1>1
    <3> HIDE DEF D
    <3> QED BY <1>5, <3>1, Smallest
  <2>2. f \in x .. b /\ t[f] \notin White /\ f \in Nat
    BY <1>1, <2>1
  <2>3. ASSUME NEW m \in x .. f - 1 PROVE t[m] \in White
    <3>1. m \in x .. b /\ ~ (f <= m)
      BY <1>1, <2>2
    <3> QED BY <2>1, <3>1
  <2>4. SkipWhite(Part(t, x, b)) = Part(t, f, b)
    BY <1>2, <2>2, <2>3, SkipToWord
  <2>5. ~InWord(t, a, b, f - 1)
    <3>1. CASE f = x
      BY <3>1
    <3>2. CASE f # x
      <4>1. f - 1 \in x .. f - 1
        BY <1>1, <2>2, <3>2
      <4> QED BY <2>3, <4>1 DEF InWord
    <3> QED BY <3>1, <3>2
  <2>6. f \in a .. b
    BY <1>1, <2>2
  <2>7. f \in Firsts(t, a, b)
    BY <2>2, <2>5, <2>6 DEF Firsts, InWord
  <2>8. \A z \in Firsts(t, a, b) : x <= z => f <= z
    <3> HIDE DEF D
    <3> QED BY <1>3, <2>1
  <2>9. x <= f
    BY <2>2
  <2> QED BY <2>4, <2>7, <2>8, <2>9
<1> QED BY <1>4, <1>5

(* The argument at a word is the word, and a blank ends it.                *)
LEMMA WordAt ==
  ASSUME NEW t, NEW a, NEW b, Clean(t, a, b),
         NEW x \in Firsts(t, a, b), NEW y \in Lasts(t, a, b), Word(t, x, y)
  PROVE  /\ Cut(t, x, b) /\ Before(Part(t, x, b), Blank) = Part(t, x, y)
         /\ Has(Part(t, x, b), Blank) <=> y < b
         /\ y < b => /\ After(Part(t, x, b), Blank) = Part(t, y + 2, b)
                     /\ y + 2 \in a .. b + 1 /\ ~InWord(t, a, b, (y + 2) - 1)
<1>1. /\ a \in Nat /\ b \in Nat /\ a >= 1 /\ b <= Len(t) /\ Len(t) \in Nat
      /\ x \in a .. b /\ y \in a .. b /\ x <= y
      /\ ~InWord(t, a, b, y + 1)
  BY CutNumbers DEF Clean, Firsts, Lasts, Word
<1>2. Cut(t, x, b)
  BY <1>1 DEF Clean, Cut
<1>3. \A m \in x .. y : t[m] # Blank
  BY DEF Word, White, Blank
<1>4. CASE y = b
  <2>1. \A m \in x .. b : t[m] # Blank
    BY <1>3, <1>4
  <2> QED BY <1>1, <1>2, <1>4, <2>1, CutNowhere
<1>5. CASE y < b
  <2>1. y + 1 \in x .. b /\ y + 1 \in a + 1 .. b /\ y + 1 \in a .. b /\ (y + 1) - 1 = y /\ y \in x .. y
    BY <1>1, <1>5
  <2>2. t[y + 1] \in White /\ t[y] \notin White
    BY <1>1, <2>1 DEF InWord, Word
  <2>3. t[y + 1] = Blank
    BY <2>1, <2>2 DEF Clean, White, Blank
  <2>4. PICK q : q = y + 1
    OBVIOUS
  <2>5. q \in x .. b /\ t[q] = Blank /\ \A m \in x .. q - 1 : t[m] # Blank
    BY <1>1, <1>3, <2>1, <2>3, <2>4
  <2>6. /\ Before(Part(t, x, b), Blank) = Part(t, x, q - 1)
        /\ After(Part(t, x, b), Blank) = Part(t, q + 1, b) /\ Has(Part(t, x, b), Blank)
    BY <1>2, <2>5, CutAtFirst
  <2>7. q - 1 = y /\ q + 1 = y + 2 /\ y + 2 \in a .. b + 1 /\ (y + 2) - 1 = y + 1
    BY <1>1, <1>5, <2>4
  <2> QED BY <1>1, <1>2, <1>5, <2>6, <2>7
<1>6. y = b \/ y < b
  BY <1>1
<1> QED BY <1>4, <1>5, <1>6

LEMMA FiniteFirsts ==
  ASSUME NEW t, NEW a, NEW b, Cut(t, a, b)
  PROVE  /\ Firsts(t, a, b) \in SUBSET Int /\ IsFiniteSet(Firsts(t, a, b))
         /\ Lasts(t, a, b) \in SUBSET Int
<1>1. a \in Int /\ b \in Int
  BY CutNumbers
<1>2. Firsts(t, a, b) \subseteq a .. b /\ Lasts(t, a, b) \subseteq a .. b
  BY DEF Firsts, Lasts
<1>3. IsFiniteSet(a .. b)
  BY <1>1, FS_Interval
<1>4. IsFiniteSet(Firsts(t, a, b))
  BY <1>2, <1>3, FS_Subset
<1>5. a .. b \subseteq Int
  BY <1>1
<1> QED BY <1>2, <1>4, <1>5

\* p and e list where the words of the part begin and end.
Words(t, a, b, c, p, e) ==
  /\ c \in Nat /\ Enumerates(p, c, Firsts(t, a, b))
  /\ e \in [1 .. c -> Lasts(t, a, b)] /\ \A k \in 1 .. c : Word(t, p[k], e[k])

(* Runs pairs each beginning with the end of the same word.                *)
LEMMA RunsAre ==
  ASSUME NEW t, NEW a, NEW b, Cut(t, a, b)
  PROVE  \E c, p, e : /\ Words(t, a, b, c, p, e) /\ Len(Runs(t, a, b)) = c
                      /\ Runs(t, a, b) = [k \in 1 .. c |-> Part(t, p[k], e[k])]
<1> DEFINE F == Firsts(t, a, b)
           L == Lasts(t, a, b)
           c == Cardinality(F)
           p == Ordered(F)
           e == [k \in 1 .. c |-> CHOOSE y \in L : Word(t, p[k], y)]
<1>1. F \in SUBSET Int /\ IsFiniteSet(F) /\ L \in SUBSET Int
  BY FiniteFirsts
<1>2. c \in Nat /\ Enumerates(p, c, F)
  <2> HIDE DEF F
  <2> QED BY <1>1, OrderedEnumerates
<1>3. p \in [1 .. c -> F] /\ DOMAIN p = 1 .. c
  BY <1>2 DEF Enumerates
<1>4. ASSUME NEW k \in 1 .. c PROVE e[k] \in L /\ Word(t, p[k], e[k])
  <2>1. p[k] \in F
    BY <1>3
  <2>2. \E y \in L : Word(t, p[k], y)
    BY <2>1, EndOfWord
  <2>3. e[k] = CHOOSE y \in L : Word(t, p[k], y)
    OBVIOUS
  <2> HIDE DEF e, L, p
  <2> QED BY <2>2, <2>3
<1>5. e \in [1 .. c -> L]
  BY <1>4
<1> HIDE DEF e
<1>6. Enumerates(e, c, L)
  <2>1. ASSUME NEW k \in 1 .. c, NEW l \in 1 .. c, k < l PROVE e[k] < e[l]
    <3>1. p[k] \in F /\ p[l] \in F /\ p[k] < p[l] /\ e[k] \in L /\ e[l] \in L
      BY <1>2, <1>3, <1>5, <2>1 DEF Enumerates
    <3>2. e[k] + 1 < p[l] /\ p[l] <= e[l]
      <4>1. Word(t, p[k], e[k]) /\ Word(t, p[l], e[l])
        BY <1>4
      <4> HIDE DEF p
      <4> QED BY <3>1, <4>1, WordsApart DEF Word
    <3>3. p[l] \in Int /\ e[k] \in Int /\ e[l] \in Int
      BY <1>1, <3>1
    <3> HIDE DEF p
    <3> QED BY <3>2, <3>3
  <2>2. ASSUME NEW y \in L PROVE \E k \in 1 .. c : e[k] = y
    <3>1. PICK x \in F : Word(t, x, y)
      BY StartOfWord
    <3>2. PICK k \in 1 .. c : p[k] = x
      BY <1>2 DEF Enumerates
    <3>3. e[k] \in L /\ Word(t, x, e[k])
      BY <1>4, <3>2
    <3>4. e[k] = y
      BY <3>1, <3>3, WordsApart
    <3> QED BY <3>4
  <2> QED BY <1>5, <2>1, <2>2 DEF Enumerates
<1>7. Ordered(L) = e
  <2> HIDE DEF L, c
  <2> QED BY <1>1, <1>2, <1>6, OrderedIs
<1>8. Runs(t, a, b) = [k \in DOMAIN p |-> SubSeq(t, p[k], Ordered(L)[k])]
  BY DEF Runs, Firsts, Lasts, InWord
<1>9. Runs(t, a, b) = [k \in 1 .. c |-> Part(t, p[k], e[k])]
  <2> HIDE DEF p, L, c
  <2> QED BY <1>3, <1>7, <1>8 DEF Part
<1>10. Words(t, a, b, c, p, e)
  BY <1>2, <1>4, <1>5 DEF Words
<1>11. Len(Runs(t, a, b)) = c
  <2> DEFINE f == [k \in 1 .. c |-> Part(t, p[k], e[k])]
  <2>1. DOMAIN f = 1 .. c /\ f = [k \in 1 .. c |-> f[k]]
    OBVIOUS
  <2> HIDE DEF f, c
  <2>2. Len(f) = c
    BY <1>2, <2>1, SequenceOfLength
  <2> QED BY <1>9, <2>2 DEF f
<1> HIDE DEF c, p
<1>12. WITNESS c, p, e
<1> QED BY <1>9, <1>10, <1>11

LEMMA WordNumbers ==
  ASSUME NEW t, NEW a, NEW b, Clean(t, a, b), NEW c, NEW p, NEW e, Words(t, a, b, c, p, e),
         NEW k \in 1 .. c
  PROVE  /\ a \in Nat /\ b \in Nat /\ c \in Nat /\ p[k] \in a .. b /\ e[k] \in a .. b
         /\ p[k] \in Firsts(t, a, b) /\ e[k] \in Lasts(t, a, b) /\ Word(t, p[k], e[k]) /\ p[k] <= e[k]
<1>1. p[k] \in Firsts(t, a, b) /\ e[k] \in Lasts(t, a, b) /\ Word(t, p[k], e[k])
  BY DEF Words, Enumerates
<1>2. a \in Nat /\ b \in Nat /\ c \in Nat
  BY CutNumbers DEF Clean, Words
<1> QED BY <1>1, <1>2 DEF Firsts, Lasts, Word

(* One argument after the other: the next one begins at the next word.     *)
LEMMA NextArgumentIs ==
  ASSUME NEW t, NEW a, NEW b, Clean(t, a, b), NEW c, NEW p, NEW e, Words(t, a, b, c, p, e),
         NEW k \in 1 .. c
  PROVE  /\ Cut(t, p[k], b) /\ Before(Part(t, p[k], b), Blank) = Part(t, p[k], e[k])
         /\ k < c => /\ Has(Part(t, p[k], b), Blank)
                     /\ NextArgument(Part(t, p[k], b)) = Part(t, p[k + 1], b)
         /\ k = c /\ Has(Part(t, p[k], b), Blank) => NextArgument(Part(t, p[k], b)) = <<>>
<1> DEFINE F == Firsts(t, a, b)
<1>1. PICK x, y : x = p[k] /\ y = e[k]
  OBVIOUS
<1>2. /\ a \in Nat /\ b \in Nat /\ c \in Nat /\ x \in a .. b /\ y \in a .. b
      /\ x \in F /\ y \in Lasts(t, a, b) /\ Word(t, x, y)
  BY <1>1, WordNumbers
<1>3. /\ \A l, m \in 1 .. c : l < m => p[l] < p[m]
      /\ \A z \in F : \E l \in 1 .. c : p[l] = z
      /\ \A l \in 1 .. c : p[l] \in F /\ p[l] \in Int
  <2>1. F \in SUBSET Int
    BY FiniteFirsts DEF Clean
  <2> QED BY <2>1 DEF Words, Enumerates
<1>4. /\ Cut(t, x, b) /\ Before(Part(t, x, b), Blank) = Part(t, x, y)
      /\ Has(Part(t, x, b), Blank) <=> y < b
      /\ y < b => /\ After(Part(t, x, b), Blank) = Part(t, y + 2, b)
                  /\ y + 2 \in a .. b + 1 /\ ~InWord(t, a, b, (y + 2) - 1)
  BY <1>2, WordAt
<1>5. \A z \in F : x < z => y + 1 < z
  BY <1>2, WordsApart DEF Clean
<1>6. ASSUME y < b
      PROVE  \/ \E f \in F : /\ y + 2 <= f /\ \A z \in F : y + 2 <= z => f <= z
                             /\ NextArgument(Part(t, x, b)) = Part(t, f, b)
             \/ (\A z \in F : z < y + 2) /\ NextArgument(Part(t, x, b)) = <<>>
  <2>1. PICK w : w = y + 2
    OBVIOUS
  <2>2. w \in a .. b + 1 /\ ~InWord(t, a, b, w - 1) /\ After(Part(t, x, b), Blank) = Part(t, w, b)
    BY <1>4, <1>6, <2>1
  <2>3. \/ \E f \in F : /\ w <= f /\ \A z \in F : w <= z => f <= z
                        /\ SkipWhite(Part(t, w, b)) = Part(t, f, b)
        \/ (\A z \in F : z < w) /\ SkipWhite(Part(t, w, b)) = <<>>
    BY <2>2, NextWord DEF Clean
  <2>4. NextArgument(Part(t, x, b)) = SkipWhite(Part(t, w, b))
    BY <2>2 DEF NextArgument
  <2> QED BY <2>1, <2>3, <2>4
<1>7. F \subseteq Int
  BY FiniteFirsts DEF Clean
<1> HIDE DEF F
<1>8. ASSUME k < c
      PROVE  Has(Part(t, x, b), Blank) /\ NextArgument(Part(t, x, b)) = Part(t, p[k + 1], b)
  <2>1. k + 1 \in 1 .. c /\ k < k + 1
    BY <1>2, <1>8
  <2>2. PICK z : z = p[k + 1]
    OBVIOUS
  <2>3. z \in F /\ z \in Int /\ x < z
    BY <1>1, <1>3, <2>1, <2>2
  <2>4. y + 1 < z /\ z <= b
    BY <1>5, <2>3 DEF F, Firsts
  <2>5. y < b /\ y + 2 <= z
    BY <1>2, <2>3, <2>4
  <2>6. PICK f \in F : /\ y + 2 <= f /\ \A u \in F : y + 2 <= u => f <= u
                       /\ NextArgument(Part(t, x, b)) = Part(t, f, b)
    <3>1. ~ (z < y + 2)
      BY <1>2, <2>3, <2>5
    <3> QED BY <1>6, <2>3, <2>5, <3>1
  <2>7. f = z
    <3>1. PICK l \in 1 .. c : p[l] = f
      BY <1>3
    <3>2. f \in Int /\ f <= z /\ x < f
      <4>1. f \in Int /\ f <= z
        BY <1>7, <2>3, <2>5, <2>6
      <4>2. x <= y
        BY <1>2 DEF Word
      <4> QED BY <1>2, <2>6, <4>1, <4>2
    <3>3. ~ (l < k) /\ l # k
      <4>1. l < k => f < x
        BY <1>1, <1>3, <3>1
      <4> QED BY <1>1, <1>2, <3>1, <3>2, <4>1
    <3>4. l = k + 1 \/ k + 1 < l
      BY <1>2, <3>3
    <3>5. k + 1 < l => z < f
      BY <1>3, <2>1, <2>2, <3>1
    <3> QED BY <2>2, <2>3, <3>1, <3>2, <3>4, <3>5
  <2> QED BY <1>4, <2>2, <2>5, <2>6, <2>7
<1>9. ASSUME k = c, Has(Part(t, x, b), Blank) PROVE NextArgument(Part(t, x, b)) = <<>>
  <2>1. y < b
    BY <1>4, <1>9
  <2>2. ASSUME NEW f \in F, y + 2 <= f PROVE FALSE
    <3>1. PICK l \in 1 .. c : p[l] = f
      BY <1>3
    <3>2. l < k => f < x
      BY <1>1, <1>3, <3>1
    <3>3. x <= y /\ f \in Int
      BY <1>2, <1>7 DEF Word
    <3>4. l < k \/ l = k
      BY <1>2, <1>9
    <3> QED BY <1>1, <1>2, <2>2, <3>1, <3>2, <3>3, <3>4
  <2> QED BY <1>6, <2>1, <2>2
<1> QED BY <1>1, <1>4, <1>8, <1>9

(* A function whose values come from smaller arguments exists.             *)
LEMMA Descent ==
  ASSUME NEW n \in Nat, NEW j \in [0 .. n -> Int], \A k \in 0 .. n : j[k] < k
  PROVE  \E f : f = [k \in 0 .. n |-> IF j[k] >= 0 THEN 1 + f[j[k]] ELSE 1]
<1> DEFINE good(m, f) == f = [k \in 0 .. m |-> IF j[k] >= 0 THEN 1 + f[j[k]] ELSE 1]
           D == {m \in 0 .. n : ~ \E f : good(m, f)}
<1> SUFFICES ASSUME ~ \E f : good(n, f) PROVE FALSE
  OBVIOUS
<1>1. n \in D /\ D \subseteq Nat
  OBVIOUS
<1>2. PICK m \in D : \A l \in D : m <= l
  <2> HIDE DEF D
  <2> QED BY <1>1, Smallest
<1>3. m \in 0 .. n /\ ~ \E f : good(m, f)
  BY <1>2
<1>4. CASE m = 0
  <2>1. ~ (j[0] >= 0) /\ \A k \in 0 .. 0 : k = 0
    BY <1>3
  <2> DEFINE f == [k \in 0 .. 0 |-> 1]
  <2>2. \A k \in 0 .. 0 : ~ (j[k] >= 0)
    BY <2>1
  <2>3. f = [k \in 0 .. 0 |-> IF j[k] >= 0 THEN 1 + f[j[k]] ELSE 1]
    BY <2>2
  <2> HIDE DEF f
  <2>4. good(m, f)
    BY <1>4, <2>3
  <2> HIDE DEF good
  <2> QED BY <1>3, <2>4
<1>5. CASE m # 0
  <2>1. m - 1 \in 0 .. n /\ ~ (m <= m - 1) /\ m \in Nat
    BY <1>3, <1>5
  <2>2. PICK f : good(m - 1, f)
    <3>1. m - 1 \notin D
      BY <1>2, <2>1
    <3> HIDE DEF good
    <3> QED BY <2>1, <3>1
  <2> DEFINE v == IF j[m] >= 0 THEN 1 + f[j[m]] ELSE 1
             g == [k \in 0 .. m |-> IF k = m THEN v ELSE f[k]]
  <2>3. \A k \in 0 .. m : k # m => k \in 0 .. m - 1
    BY <2>1
  <2>4. \A k \in 0 .. m - 1 : f[k] = IF j[k] >= 0 THEN 1 + f[j[k]] ELSE 1
    BY <2>2
  <2>5. \A k \in 0 .. m : j[k] >= 0 => j[k] \in 0 .. m /\ j[k] # m
    BY <1>3
  <2>6. ASSUME NEW k \in 0 .. m PROVE g[k] = IF j[k] >= 0 THEN 1 + g[j[k]] ELSE 1
    <3>1. j[k] >= 0 => g[j[k]] = f[j[k]]
      BY <2>5
    <3>2. CASE k = m
      <4>1. g[k] = v
        BY <3>2
      <4> HIDE DEF g
      <4> QED BY <3>1, <3>2, <4>1
    <3>3. CASE k # m
      <4>1. g[k] = f[k] /\ k \in 0 .. m - 1
        BY <2>3, <3>3
      <4> HIDE DEF g
      <4> QED BY <2>4, <3>1, <4>1
    <3> QED BY <3>2, <3>3
  <2> DEFINE h == [k \in 0 .. m |-> IF j[k] >= 0 THEN 1 + g[j[k]] ELSE 1]
  <2>7. DOMAIN g = 0 .. m /\ g = [k \in 0 .. m |-> g[k]]
    OBVIOUS
  <2> HIDE DEF g
  <2>8. good(m, g)
    BY <2>6, <2>7
  <2> HIDE DEF good
  <2> QED BY <1>3, <2>8
<1> QED BY <1>4, <1>5

(* An argument that is cut off leaves less.                                *)
LEMMA NextArgumentShorter ==
  ASSUME NEW t, NEW a, NEW b, Cut(t, a, b), Has(Part(t, a, b), Blank)
  PROVE  Len(NextArgument(Part(t, a, b))) \in 0 .. b - a
<1> DEFINE s == Part(t, a, b)
           D == {m \in a .. b : t[m] = Blank}
<1>1. a \in Nat /\ b \in Nat /\ a >= 1 /\ a <= b + 1
  BY CutNumbers
<1>2. D # {}
  <2>1. Len(s) = b - a + 1 /\ \A m \in 1 .. b - a + 1 : s[m] = t[a + m - 1]
    BY CutIs DEF IsCut
  <2>2. PICK m \in 1 .. Len(s) : s[m] = Blank
    BY DEF Has, Sx!Contains
  <2>3. a + m - 1 \in a .. b
    BY <1>1, <2>1
  <2> QED BY <2>1, <2>2, <2>3
<1>3. PICK q \in D : \A z \in D : q <= z
  <2>1. D \subseteq Nat
    BY <1>1
  <2> HIDE DEF D
  <2> QED BY <1>2, <2>1, Smallest
<1>4. q \in a .. b /\ t[q] = Blank /\ \A m \in a .. q - 1 : t[m] # Blank
  <2>1. ASSUME NEW m \in a .. q - 1 PROVE t[m] # Blank
    <3>1. m \in a .. b /\ ~ (q <= m)
      BY <1>1, <1>3
    <3> QED BY <1>3, <3>1
  <2> QED BY <1>3, <2>1
<1>5. After(s, Blank) = Part(t, q + 1, b) /\ Cut(t, q + 1, b)
  BY <1>4, CutAtFirst
<1>6. PICK x : x = q + 1
  OBVIOUS
<1> DEFINE W == {m \in x .. b : t[m] \notin White}
<1>7. NextArgument(s) = SkipWhite(Part(t, x, b)) /\ Cut(t, x, b)
  BY <1>5, <1>6 DEF NextArgument
<1>8. CASE W = {}
  <2>1. \A m \in x .. b : t[m] \in White
    BY <1>8
  <2>2. NextArgument(s) = <<>>
    BY <1>7, <2>1, SkipAll
  <2>3. Len(<<>>) = 0 /\ 0 \in 0 .. b - a
    BY <1>1, <1>4
  <2> HIDE DEF s
  <2>4. Len(NextArgument(s)) \in 0 .. b - a
    BY <2>2, <2>3
  <2> QED BY <2>4 DEF s
<1>9. CASE W # {}
  <2>1. PICK f \in W : \A z \in W : f <= z
    <3>1. W \subseteq Nat
      BY <1>1, <1>4, <1>6
    <3> HIDE DEF W
    <3> QED BY <1>9, <3>1, Smallest
  <2>2. f \in x .. b /\ t[f] \notin White /\ x \in Nat
    BY <1>1, <1>4, <1>6, <2>1
  <2>3. ASSUME NEW m \in x .. f - 1 PROVE t[m] \in White
    <3>1. m \in x .. b /\ ~ (f <= m)
      BY <1>1, <2>2
    <3> QED BY <2>1, <3>1
  <2>4. NextArgument(s) = Part(t, f, b) /\ Cut(t, f, b)
    BY <1>7, <2>2, <2>3, SkipToWord
  <2>5. Len(NextArgument(s)) = b - f + 1
    <3> HIDE DEF s
    <3> QED BY <2>4, CutIs DEF IsCut
  <2> QED BY <1>1, <1>4, <1>6, <2>2, <2>5
<1> QED BY <1>8, <1>9

(* get_argc_cmd counts the words.                                          *)
LEMMA ArgcIs ==
  ASSUME NEW t, NEW a, NEW b, Clean(t, a, b), NEW c, NEW p, NEW e, Words(t, a, b, c, p, e), c >= 1
  PROVE  Argc(Part(t, p[1], b)) = c
<1> DEFINE s == Part(t, p[1], b)
           n == Len(s)
           u(m) == Part(s, n - m + 1, n)
           more(m) == Has(u(m), Blank) /\ NextArgument(u(m)) # <<>>
           j == [m \in 0 .. n |-> IF more(m) THEN Len(NextArgument(u(m))) ELSE -1]
           g == CHOOSE g : g = [m \in 0 .. n |-> IF more(m) THEN 1 + g[Len(NextArgument(u(m)))] ELSE 1]
<1>1. Argc(s) = g[n]
  BY DEF Argc, Part
<1>2. c \in Nat /\ 1 \in 1 .. c
  BY DEF Words
<1>3. /\ a \in Nat /\ b \in Nat /\ p[1] \in a .. b /\ Cut(t, p[1], b)
      /\ n = b - p[1] + 1 /\ n \in Nat /\ s \in Seq(STRING)
  <2>1. a \in Nat /\ b \in Nat /\ p[1] \in a .. b
    BY <1>2, WordNumbers
  <2>2. Cut(t, p[1], b)
    BY <1>2, NextArgumentIs
  <2>3. IsCut(s, t, p[1], b)
    BY <2>2, CutIs
  <2> HIDE DEF s
  <2> QED BY <2>1, <2>2, <2>3 DEF IsCut
<1> HIDE DEF s
<1>4. ASSUME NEW m \in 0 .. n
      PROVE  Cut(s, n - m + 1, n) /\ (Has(u(m), Blank) => Len(NextArgument(u(m))) \in 0 .. m - 1)
  <2>1. PICK x : x = n - m + 1
    OBVIOUS
  <2>2. Cut(s, x, n) /\ n - x = m - 1
    <3>1. n \in Nat
      BY <1>3
    <3>2. \A v \in Nat : m \in 0 .. v /\ x = v - m + 1 =>
            x \in 1 .. v + 1 /\ v \in 0 .. v /\ x <= v + 1 /\ v - x = m - 1
      OBVIOUS
    <3>3. x \in 1 .. n + 1 /\ n \in 0 .. n /\ x <= n + 1 /\ n - x = m - 1
      <4> HIDE DEF n
      <4> QED BY <2>1, <3>1, <3>2
    <3> QED BY <1>3, <3>3 DEF Cut
  <2>3. Has(Part(s, x, n), Blank) => Len(NextArgument(Part(s, x, n))) \in 0 .. n - x
    BY <2>2, NextArgumentShorter
  <2> HIDE DEF n
  <2> QED BY <2>1, <2>2, <2>3
<1> HIDE DEF n, u
<1>5. ASSUME NEW m \in 0 .. n PROVE j[m] \in Int /\ j[m] < m /\ (j[m] >= 0 <=> more(m))
  <2>1. CASE more(m)
    <3>1. j[m] = Len(NextArgument(u(m)))
      BY <2>1
    <3>2. Len(NextArgument(u(m))) \in 0 .. m - 1
      BY <1>4, <2>1
    <3> HIDE DEF j, more
    <3> QED BY <2>1, <3>1, <3>2
  <2>2. CASE ~more(m)
    <3>1. j[m] = -1
      BY <2>2
    <3> HIDE DEF j, more
    <3> QED BY <2>2, <3>1
  <2> QED BY <2>1, <2>2
<1>6. PICK f : f = [m \in 0 .. n |-> IF j[m] >= 0 THEN 1 + f[j[m]] ELSE 1]
  <2>1. j \in [0 .. n -> Int]
    BY <1>5
  <2>2. \A m \in 0 .. n : j[m] < m
    BY <1>5
  <2> HIDE DEF j
  <2> QED BY <1>3, <2>1, <2>2, Descent
<1>7. f = [m \in 0 .. n |-> IF more(m) THEN 1 + f[Len(NextArgument(u(m)))] ELSE 1]
  <2>1. ASSUME NEW m \in 0 .. n
        PROVE  f[m] = IF more(m) THEN 1 + f[Len(NextArgument(u(m)))] ELSE 1
    <3>1. f[m] = IF j[m] >= 0 THEN 1 + f[j[m]] ELSE 1
      BY <1>6
    <3>2. more(m) => j[m] = Len(NextArgument(u(m)))
      OBVIOUS
    <3> HIDE DEF j, more
    <3> QED BY <1>5, <3>1, <3>2
  <2>2. f = [m \in 0 .. n |-> f[m]]
    BY <1>6
  <2> HIDE DEF more
  <2> QED BY <2>1, <2>2
<1>8. g = [m \in 0 .. n |-> IF more(m) THEN 1 + g[Len(NextArgument(u(m)))] ELSE 1]
  <2> HIDE DEF more
  <2> QED BY <1>7
<1> HIDE DEF g
<1>9. ASSUME NEW k \in 1 .. c
      PROVE  /\ b - p[k] + 1 \in 0 .. n /\ Len(Part(t, p[k], b)) = b - p[k] + 1
             /\ u(b - p[k] + 1) = Part(t, p[k], b)
  <2>1. p[k] \in a .. b /\ Cut(t, p[k], b)
    BY WordNumbers, NextArgumentIs
  <2>2. p[1] <= p[k]
    <3>1. 1 < k => p[1] < p[k]
      BY <1>2 DEF Words, Enumerates
    <3>2. 1 < k \/ 1 = k
      BY <1>2
    <3> QED BY <1>3, <2>1, <3>1, <3>2
  <2>3. PICK x, y : x = p[1] /\ y = p[k]
    OBVIOUS
  <2>4. b - y + 1 \in 0 .. n
    <3>1. a \in Nat /\ b \in Nat /\ x \in a .. b /\ y \in a .. b /\ x <= y /\ n = b - x + 1
      BY <1>3, <2>1, <2>2, <2>3
    <3>2. 0 <= b - y + 1 /\ b - y + 1 <= b - x + 1 /\ b - y + 1 \in Int /\ b - x + 1 \in Int
      BY <3>1
    <3> QED BY <3>1, <3>2
  <2>5. u(b - y + 1) = Part(s, n - (b - y + 1) + 1, n)
    BY DEF u
  <2>6. /\ Cut(t, x, b) /\ y \in x .. b + 1 /\ b \in x - 1 .. b /\ y <= b + 1
        /\ n - (b - y + 1) + 1 = y - x + 1 /\ n = b - x + 1
    <3>1. Cut(t, x, b) /\ x \in a .. b /\ y \in a .. b /\ x <= y /\ n = b - x + 1
      BY <1>3, <2>1, <2>2, <2>3
    <3>2. a \in Nat /\ b \in Nat
      BY <1>3
    <3>3. n - (b - y + 1) + 1 = y - x + 1
      BY <3>1, <3>2
    <3>4. y \in x .. b + 1 /\ b \in x - 1 .. b /\ y <= b + 1
      BY <3>1, <3>2
    <3> QED BY <3>1, <3>3, <3>4
  <2>7. PICK z : z = n - (b - y + 1) + 1
    OBVIOUS
  <2>8. z = y - x + 1
    BY <2>6, <2>7
  <2>9. Part(Part(t, x, b), z, n) = Part(t, y, b)
    BY <2>6, <2>8, CutOfCut
  <2>10. u(b - y + 1) = Part(t, y, b)
    BY <2>3, <2>5, <2>7, <2>9 DEF s
  <2>11. IsCut(Part(t, y, b), t, y, b)
    BY <2>1, <2>3, CutIs
  <2> QED BY <2>3, <2>4, <2>10, <2>11 DEF IsCut
<1> DEFINE D == {d \in 0 .. c - 1 : g[b - p[c - d] + 1] # d + 1}
<1>10. D = {}
  <2> SUFFICES ASSUME D # {} PROVE FALSE
    OBVIOUS
  <2>1. PICK d \in D : \A x \in D : d <= x
    <3>1. D \subseteq Nat
      BY <1>2
    <3> HIDE DEF D
    <3> QED BY <3>1, Smallest
  <2>2. d \in 0 .. c - 1 /\ g[b - p[c - d] + 1] # d + 1
    BY <2>1
  <2>3. PICK k : k = c - d
    OBVIOUS
  <2>4. k \in 1 .. c
    BY <1>2, <2>2, <2>3
  <2>5. PICK m : m = b - p[k] + 1
    OBVIOUS
  <2>6. m \in 0 .. n /\ u(m) = Part(t, p[k], b)
    BY <1>9, <2>4, <2>5
  <2>7. g[m] = IF more(m) THEN 1 + g[Len(NextArgument(u(m)))] ELSE 1
    <3> HIDE DEF more
    <3> QED BY <1>8, <2>6
  <2>8. CASE d = 0
    <3>1. k = c
      BY <1>2, <2>3, <2>8
    <3>2. ~more(m)
      BY <2>4, <2>6, <3>1, NextArgumentIs
    <3>3. g[m] = 1
      BY <2>7, <3>2
    <3> HIDE DEF more
    <3> QED BY <2>2, <2>3, <2>5, <2>8, <3>3
  <2>9. CASE d # 0
    <3>1. k < c /\ k + 1 \in 1 .. c /\ d - 1 \in 0 .. c - 1 /\ c - (d - 1) = k + 1 /\ ~ (d <= d - 1) /\ (d - 1) + 1 = d
      BY <1>2, <2>2, <2>3, <2>9
    <3>2. Has(u(m), Blank) /\ NextArgument(u(m)) = Part(t, p[k + 1], b)
      BY <2>4, <2>6, <3>1, NextArgumentIs
    <3>3. Len(NextArgument(u(m))) = b - p[k + 1] + 1
      BY <1>9, <3>1, <3>2
    <3>4. NextArgument(u(m)) # <<>>
      <4>1. p[k + 1] \in a .. b
        BY <3>1, WordNumbers
      <4>2. b - p[k + 1] + 1 # 0
        BY <1>3, <4>1
      <4>3. Len(<<>>) = 0
        OBVIOUS
      <4> QED BY <3>3, <4>2, <4>3
    <3>5. g[m] = 1 + g[b - p[k + 1] + 1]
      BY <2>7, <3>2, <3>3, <3>4
    <3>6. g[b - p[c - (d - 1)] + 1] = (d - 1) + 1
      <4>1. d - 1 \notin D
        BY <2>1, <3>1
      <4> QED BY <3>1, <4>1
    <3>7. g[m] = 1 + d
      BY <3>1, <3>5, <3>6
    <3> QED BY <2>2, <2>3, <2>5, <3>7
  <2> QED BY <2>8, <2>9
<1>11. g[n] = c
  <2>1. c - 1 \in 0 .. c - 1 /\ c - (c - 1) = 1 /\ (c - 1) + 1 = c
    BY <1>2
  <2>2. g[b - p[c - (c - 1)] + 1] = (c - 1) + 1
    BY <1>10, <2>1
  <2> QED BY <1>3, <2>1, <2>2
<1> QED BY <1>1, <1>11 DEF s

(* get_argv_cmd finds the words.                                           *)
LEMMA ArgvIs ==
  ASSUME NEW t, NEW a, NEW b, Clean(t, a, b), NEW c, NEW p, NEW e, Words(t, a, b, c, p, e), c >= 1
  PROVE  Argv(Part(t, p[1], b)) = [k \in 1 .. c |-> Part(t, p[k], e[k])]
<1> DEFINE s == Part(t, p[1], b)
           f == [k \in 0 .. c |-> IF k = c THEN NextArgument(Part(t, p[c], b)) ELSE Part(t, p[k + 1], b)]
           r == CHOOSE r : r = [k \in 0 .. c |-> IF k = 0 THEN s ELSE NextArgument(r[k - 1])]
<1>1. Argc(s) = c /\ c \in Nat
  BY ArgcIs DEF Words
<1>2. Argv(s) = [k \in 1 .. c |-> Before(r[k - 1], Blank)]
  <2> HIDE DEF s
  <2> QED BY <1>1 DEF Argv
<1>3. f[0] = s
  <2>1. 0 \in 0 .. c /\ 0 # c /\ 0 + 1 = 1
    BY <1>1
  <2> QED BY <2>1
<1>4. ASSUME NEW k \in 1 .. c PROVE f[k - 1] = Part(t, p[k], b) /\ f[k] = NextArgument(f[k - 1])
  <2>1. k - 1 \in 0 .. c /\ k - 1 # c /\ (k - 1) + 1 = k /\ k \in 0 .. c
    BY <1>1
  <2>2. f[k - 1] = Part(t, p[k], b)
    BY <2>1
  <2>3. f[k] = IF k = c THEN NextArgument(Part(t, p[c], b)) ELSE Part(t, p[k + 1], b)
    BY <2>1
  <2> HIDE DEF f
  <2>4. CASE k = c
    BY <2>2, <2>3, <2>4
  <2>5. CASE k # c
    <3>1. k < c
      BY <1>1, <2>5
    <3>2. NextArgument(Part(t, p[k], b)) = Part(t, p[k + 1], b)
      BY <3>1, NextArgumentIs
    <3> QED BY <2>2, <2>3, <2>5, <3>2
  <2> QED BY <2>4, <2>5
<1>5. f = [k \in 0 .. c |-> IF k = 0 THEN s ELSE NextArgument(f[k - 1])]
  <2>1. ASSUME NEW k \in 0 .. c PROVE f[k] = IF k = 0 THEN s ELSE NextArgument(f[k - 1])
    <3>1. CASE k = 0
      BY <1>3, <3>1
    <3>2. CASE k # 0
      <4>1. k \in 1 .. c
        BY <1>1, <3>2
      <4> HIDE DEF f
      <4> QED BY <1>4, <3>2, <4>1
    <3> QED BY <3>1, <3>2
  <2>2. f = [k \in 0 .. c |-> f[k]]
    OBVIOUS
  <2> HIDE DEF f, s
  <2> QED BY <2>1, <2>2
<1> HIDE DEF f, s
<1>6. r = [k \in 0 .. c |-> IF k = 0 THEN s ELSE NextArgument(r[k - 1])]
  BY <1>5
<1> HIDE DEF r
<1>7. \A k \in 0 .. c : r[k] = f[k]
  <2> DEFINE D == {k \in 0 .. c : r[k] # f[k]}
  <2> SUFFICES ASSUME D # {} PROVE FALSE
    OBVIOUS
  <2>1. PICK k \in D : \A l \in D : k <= l
    <3>1. D \subseteq Nat
      BY <1>1
    <3> HIDE DEF D
    <3> QED BY <3>1, Smallest
  <2>2. k \in 0 .. c /\ r[k] # f[k]
    BY <2>1
  <2>3. CASE k = 0
    BY <1>5, <1>6, <2>2, <2>3
  <2>4. CASE k # 0
    <3>1. k - 1 \in 0 .. c /\ ~ (k <= k - 1)
      BY <1>1, <2>2, <2>4
    <3>2. r[k - 1] = f[k - 1]
      BY <2>1, <3>1
    <3>3. r[k] = NextArgument(r[k - 1])
      BY <1>6, <2>2, <2>4
    <3>4. f[k] = NextArgument(f[k - 1])
      BY <1>5, <2>2, <2>4
    <3> QED BY <2>2, <3>2, <3>3, <3>4
  <2> QED BY <2>3, <2>4
<1>8. ASSUME NEW k \in 1 .. c PROVE Before(r[k - 1], Blank) = Part(t, p[k], e[k])
  <2>1. k - 1 \in 0 .. c
    BY <1>1
  <2>2. r[k - 1] = Part(t, p[k], b)
    BY <1>4, <1>7, <2>1
  <2>3. Before(Part(t, p[k], b), Blank) = Part(t, p[k], e[k])
    BY NextArgumentIs
  <2> QED BY <2>2, <2>3
<1> QED BY <1>2, <1>8 DEF s

(* The arguments of a clean part with a word are its words.                *)
LEMMA ArgumentsAreWords ==
  ASSUME NEW t, NEW a, NEW b, Clean(t, a, b), Runs(t, a, b) # <<>>
  PROVE  Argv(SkipWhite(Part(t, a, b))) = Runs(t, a, b)
<1>1. Cut(t, a, b) /\ a \in Nat /\ b \in Nat /\ a <= b + 1
  BY CutNumbers DEF Clean
<1>2. PICK c, p, e : /\ Words(t, a, b, c, p, e)
                     /\ Runs(t, a, b) = [k \in 1 .. c |-> Part(t, p[k], e[k])]
  BY <1>1, RunsAre
<1>3. c \in Nat /\ c >= 1 /\ 1 \in 1 .. c
  <2>1. c \in Nat
    BY <1>2 DEF Words
  <2>2. CASE c = 0
    <3>1. 1 .. c = {}
      BY <2>2
    <3>2. Runs(t, a, b) = <<>>
      BY <1>2, <3>1
    <3> QED BY <3>2
  <2> QED BY <2>1, <2>2
<1>4. p[1] \in Firsts(t, a, b) /\ p[1] \in a .. b
  BY <1>2, <1>3, WordNumbers
<1>5. SkipWhite(Part(t, a, b)) = Part(t, p[1], b)
  <2>1. a \in a .. b + 1 /\ ~InWord(t, a, b, a - 1)
    BY <1>1 DEF InWord
  <2>2. \/ \E f \in Firsts(t, a, b) :
             /\ a <= f /\ \A z \in Firsts(t, a, b) : a <= z => f <= z
             /\ SkipWhite(Part(t, a, b)) = Part(t, f, b)
        \/ \A z \in Firsts(t, a, b) : z < a
    BY <1>1, <2>1, NextWord
  <2>3. PICK f \in Firsts(t, a, b) :
             /\ a <= f /\ \A z \in Firsts(t, a, b) : a <= z => f <= z
             /\ SkipWhite(Part(t, a, b)) = Part(t, f, b)
    <3>1. ~ (p[1] < a)
      BY <1>1, <1>4
    <3> QED BY <1>4, <2>2, <3>1
  <2>4. PICK k \in 1 .. c : p[k] = f
    BY <1>2 DEF Words, Enumerates
  <2>5. 1 < k => p[1] < p[k]
    BY <1>2, <1>3 DEF Words, Enumerates
  <2>6. f <= p[1]
    BY <1>1, <1>4, <2>3
  <2>7. f \in Int
    BY <1>1, FiniteFirsts
  <2>8. k = 1
    BY <1>1, <1>3, <1>4, <2>4, <2>5, <2>6, <2>7
  <2> QED BY <2>3, <2>4, <2>8
<1> QED BY <1>2, <1>3, <1>5, ArgvIs

(* The commands are cut out as the user means them.                        *)
LEMMA CommandsAreMeant ==
  ASSUME NEW t \in Seq(STRING), CountTokens(t) # 0,
         \A k \in DOMAIN Meant(t) : Meant(t)[k] # <<>>,
         \A k \in 2 .. Len(t) : t[k] = "\n" => t[k - 1] \in White \cup {Bar}
  PROVE  Commands(t) = Meant(t)
<1>1. PICK p, c : p = Ordered(Fences(t)) /\ c = CountTokens(t)
  OBVIOUS
<1>2. /\ c \in Nat /\ c >= 2 /\ Len(t) \in Nat
      /\ \A k \in 1 .. c + 1 : p[k] \in 0 .. Len(t) + 1
      /\ p = [k \in 1 .. c + 1 |-> p[k]] /\ DOMAIN p = 1 .. c + 1
      /\ \A k \in 1 .. c : p[k] < p[k + 1] /\ \A m \in p[k] + 1 .. p[k + 1] - 1 : t[m] # Bar
  BY <1>1, Fenced, LenProperties
<1>3. Commands(t) = [k \in 1 .. c |-> Argv(SkipWhite(Part(t, p[k] + 1, p[k + 1] - 1)))]
  BY <1>1, CommandsAre
<1>4. Meant(t) = [k \in 1 .. c |-> Runs(t, p[k] + 1, p[k + 1] - 1)]
  <2>1. Len(p) = c + 1
    <3>1. PICK n : n = c + 1
      OBVIOUS
    <3>2. n \in Nat /\ DOMAIN p = 1 .. n /\ p = [k \in 1 .. n |-> p[k]]
      BY <1>2, <3>1
    <3> QED BY <3>1, <3>2, SequenceOfLength
  <2>2. Len(p) - 1 = c
    BY <1>2, <2>1
  <2>3. Meant(t) = [k \in 1 .. Len(p) - 1 |-> Runs(t, p[k] + 1, p[k + 1] - 1)]
    BY <1>1 DEF Meant, Fences, Bars
  <2> QED BY <2>2, <2>3
<1>5. ASSUME NEW k \in 1 .. c
      PROVE  Argv(SkipWhite(Part(t, p[k] + 1, p[k + 1] - 1))) = Runs(t, p[k] + 1, p[k + 1] - 1)
  <2>1. PICK a, b : a = p[k] + 1 /\ b = p[k + 1] - 1
    OBVIOUS
  <2>2. k \in 1 .. c + 1 /\ k + 1 \in 1 .. c + 1
    BY <1>2
  <2>3. p[k] \in 0 .. Len(t) + 1 /\ p[k + 1] \in 0 .. Len(t) + 1 /\ p[k] < p[k + 1]
    BY <1>2, <2>2
  <2>4. Cut(t, a, b)
    BY <1>2, <2>1, <2>3 DEF Cut
  <2>5. \A m \in a .. b : t[m] # Bar
    BY <1>2, <2>1
  <2>6. ASSUME NEW m \in a + 1 .. b, t[m] = "\n" PROVE t[m - 1] \in White
    <3>1. m \in 2 .. Len(t) /\ m - 1 \in a .. b
      BY <2>4, CutNumbers
    <3> QED BY <2>5, <2>6, <3>1
  <2>7. Runs(t, a, b) # <<>>
    <3>1. k \in DOMAIN Meant(t) /\ Meant(t)[k] = Runs(t, a, b)
      BY <1>4, <2>1
    <3> QED BY <3>1
  <2>8. Clean(t, a, b)
    BY <2>4, <2>5, <2>6 DEF Clean
  <2> QED BY <2>1, <2>7, <2>8, ArgumentsAreWords
<1> QED BY <1>3, <1>4, <1>5

(* In every state of the program the commands that were cut out of the text  *)
(* are, if each has a word and no line ends directly after one, the parts    *)
(* between the bars with their words, for every text: parser.c loses none,   *)
(* splits none and joins none.                                               *)
THEOREM CutAsMeant == Spec => []ParsedAsMeant
<1>1. IInv => ParsedAsMeant
  <2> SUFFICES ASSUME IInv, pc = "parsed",
                      \A k \in DOMAIN Meant(text) : Meant(text)[k] # <<>>,
                      \A k \in 2 .. Len(text) :
                        ~ (text[k] = "\n" /\ text[k - 1] \notin White \cup {Bar})
               PROVE  cmds = Meant(text)
    BY DEF ParsedAsMeant
  <2>1. cmds = Parsed(text) /\ cmds # <<>> /\ text \in Texts
    BY DEF IInv, Unforked
  <2>2. text \in Seq(STRING)
    BY <2>1, TextsAssumption
  <2>3. CountTokens(text) # 0 /\ cmds = Commands(text)
    BY <2>1 DEF Parsed
  <2>4. Commands(text) = Meant(text)
    BY <2>2, <2>3, CommandsAreMeant
  <2> QED BY <2>3, <2>4
<1>2. IInv /\ [Next]_vars => IInv'
  BY NextIInv
<1> QED BY InitIInv, <1>1, <1>2, PTL DEF Spec
=============================================================================
