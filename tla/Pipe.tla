-------------------------------- MODULE Pipe --------------------------------
(***************************************************************************)
(* pipe/main.c and pipe/pipe.c: the program parses a line of commands,     *)
(* makes a pipe between each two of them, forks a child for each and waits *)
(* for them.  A child connects its streams, closes all pipes and becomes   *)
(* the command.  fork may fail, which the code does not see; pipe, dup2    *)
(* and close do not.                                                       *)
(*                                                                         *)
(* The commands are external: "gen" writes items, "cat" copies what it     *)
(* reads until it ends, "head" copies one item; others cannot be executed. *)
(***************************************************************************)
EXTENDS PipeParser

CONSTANTS Texts,       \* the texts that users put into the file
          MaxCommands,
          Capacity,    \* how many items a pipe holds
          MaxItems,    \* how many items "gen" writes
          MaxFails     \* how many forks fail

ASSUME TextsAssumption  == Texts \subseteq Seq(STRING) /\ \A t \in Texts : CountTokens(t) <= MaxCommands
ASSUME BoundsAssumption == {MaxCommands, Capacity, MaxItems} \subseteq Nat \ {0} /\ MaxFails \in Nat

VARIABLES text, cmds,  \* the buffer and what it is cut into, until the commands are known
          prog,        \* the commands
          pc, i,       \* of the parent
          cpc,         \* cpc[x]: what child x does next
          held,        \* held[x]: the ends that process x has in the array pipes
          in, out,     \* the pipes that are the streams of child x; 0 is the terminal
          items,       \* items[j]: how many items are in pipe j
          has, count,  \* of command x: it has an item to write; how many it has written
          fails

vars == <<text, cmds, prog, pc, i, cpc, held, in, out, items, has, count, fails>>

Parent   == 0
Children == 1 .. MaxCommands
Pipes    == 1 .. MaxCommands - 1
Ends     == Pipes \X {"r", "w"}
Programs == {<<"gen">>, <<"cat">>, <<"head">>}
N        == Len(prog)

Readers(j) == {x \in {Parent} \cup Children : <<j, "r">> \in held[x] \/ (x # Parent /\ in[x] = j)}
Writers(j) == {x \in {Parent} \cup Children : <<j, "w">> \in held[x] \/ (x # Parent /\ out[x] = j)}

\* main after text_ctor: without a '|' there is nothing to do.
Parsed(t) == IF CountTokens(t) = 0 THEN <<>> ELSE Commands(t)

Init == /\ text \in Texts /\ cmds = Parsed(text) /\ prog = <<>>
        /\ pc = (IF cmds = <<>> THEN "done" ELSE "parsed") /\ i = 0
        /\ cpc = [x \in Children |-> "none"]
        /\ held = [x \in {Parent} \cup Children |-> {}]
        /\ in = [x \in Children |-> 0] /\ out = [x \in Children |-> 0]
        /\ items = [j \in Pipes |-> 0]
        /\ has = [x \in Children |-> FALSE] /\ count = [x \in Children |-> 0]
        /\ fails = 0
-----------------------------------------------------------------------------
(* The parent *)

\* exec_commands makes all pipes.  From here on only the programs matter.
MakePipes ==
  /\ pc = "parsed" /\ pc' = "fork" /\ i' = 1
  /\ prog' = [k \in DOMAIN cmds |-> IF cmds[k][1] \in Programs THEN cmds[k][1][1] ELSE "bad"]
  /\ text' = <<>> /\ cmds' = <<>>
  /\ held' = [held EXCEPT ![Parent] = (1 .. Len(cmds) - 1) \X {"r", "w"}]
  /\ UNCHANGED <<cpc, in, out, items, has, count, fails>>

Fork ==
  /\ pc = "fork" /\ i <= N /\ i' = i + 1
  /\ \/ /\ cpc' = [cpc EXCEPT ![i] = "dup"] /\ held' = [held EXCEPT ![i] = held[Parent]]
        /\ UNCHANGED fails
     \/ fails < MaxFails /\ fails' = fails + 1 /\ UNCHANGED <<cpc, held>>
  /\ UNCHANGED <<text, cmds, prog, pc, in, out, items, has, count>>

\* faulty: the parent keeps the pipes
ClosePipesNot ==
  /\ pc = "fork" /\ i > N /\ pc' = "wait" /\ i' = 1
  /\ UNCHANGED <<text, cmds, prog, cpc, held, in, out, items, has, count, fails>>

ClosePipes ==
  /\ pc = "fork" /\ i > N /\ pc' = "wait" /\ i' = 1
  /\ held' = [held EXCEPT ![Parent] = {}]
  /\ UNCHANGED <<text, cmds, prog, cpc, in, out, items, has, count, fails>>

\* wait returns -1 when there is no child left.
Wait ==
  /\ pc = "wait"
  /\ \/ /\ i <= N
        /\ \E x \in Children : cpc[x] = "zombie" /\ cpc' = [cpc EXCEPT ![x] = "gone"]
        /\ i' = i + 1 /\ UNCHANGED pc
     \/ /\ i > N \/ \A x \in Children : cpc[x] \in {"none", "gone"}
        /\ pc' = "done" /\ UNCHANGED <<i, cpc>>
  /\ UNCHANGED <<text, cmds, prog, held, in, out, items, has, count, fails>>
-----------------------------------------------------------------------------
(* The children *)

\* faulty: the output of the last but one goes to the terminal
DupShort(x) ==
  /\ cpc[x] = "dup" /\ cpc' = [cpc EXCEPT ![x] = "close"]
  /\ in'  = [in EXCEPT ![x] = IF x # 1 THEN x - 1 ELSE 0]
  /\ out' = [out EXCEPT ![x] = IF x < N - 1 THEN x ELSE 0]
  /\ UNCHANGED <<text, cmds, prog, pc, i, held, items, has, count, fails>>

Dup(x) ==
  /\ cpc[x] = "dup" /\ cpc' = [cpc EXCEPT ![x] = "close"]
  /\ in'  = [in EXCEPT ![x] = IF x # 1 THEN x - 1 ELSE 0]
  /\ out' = [out EXCEPT ![x] = IF x # N THEN x ELSE 0]
  /\ UNCHANGED <<text, cmds, prog, pc, i, held, items, has, count, fails>>

\* faulty: as many descriptors as there are pipes, which is half of them
CloseHalf(x) ==
  /\ cpc[x] = "close" /\ cpc' = [cpc EXCEPT ![x] = "exec"]
  /\ held' = [held EXCEPT ![x] = {e \in @ : 2 * e[1] - (IF e[2] = "r" THEN 1 ELSE 0) > N - 1}]
  /\ UNCHANGED <<text, cmds, prog, pc, i, in, out, items, has, count, fails>>

CloseInChild(x) ==
  /\ cpc[x] = "close" /\ cpc' = [cpc EXCEPT ![x] = "exec"]
  /\ held' = [held EXCEPT ![x] = {}]
  /\ UNCHANGED <<text, cmds, prog, pc, i, in, out, items, has, count, fails>>

Exit(x) == /\ cpc' = [cpc EXCEPT ![x] = "zombie"]
           /\ in' = [in EXCEPT ![x] = 0] /\ out' = [out EXCEPT ![x] = 0]

\* execvp; if it fails, the child returns from main.
Exec(x) ==
  /\ cpc[x] = "exec"
  /\ \/ prog[x] = "bad" /\ Exit(x)
     \/ prog[x] # "bad" /\ cpc' = [cpc EXCEPT ![x] = "run"] /\ UNCHANGED <<in, out>>
  /\ UNCHANGED <<text, cmds, prog, pc, i, held, items, has, count, fails>>

Limit(x) == CASE prog[x] = "gen" -> MaxItems [] prog[x] = "head" -> 1 [] OTHER -> MaxItems + 1
Wants(x) == cpc[x] = "run" /\ ~has[x] /\ count[x] < Limit(x)

EndOfInput == {x \in Children : in[x] = 0 \/ (items[in[x]] = 0 /\ Writers(in[x]) = {})}

\* An item comes from the program itself or out of the pipe, or the input
\* ends: nobody can write any more.
Read(x) ==
  /\ Wants(x)
  /\ \/ prog[x] = "gen" /\ has' = [has EXCEPT ![x] = TRUE] /\ UNCHANGED <<cpc, in, out, items>>
     \/ /\ prog[x] # "gen" /\ in[x] # 0 /\ items[in[x]] > 0
        /\ items' = [items EXCEPT ![in[x]] = @ - 1] /\ has' = [has EXCEPT ![x] = TRUE]
        /\ UNCHANGED <<cpc, in, out>>
     \/ /\ prog[x] # "gen" /\ x \in EndOfInput
        /\ Exit(x) /\ UNCHANGED <<items, has>>
  /\ UNCHANGED <<text, cmds, prog, pc, i, held, count, fails>>

\* Into the pipe if it has room; SIGPIPE if nobody can read any more.
Write(x) ==
  /\ cpc[x] = "run" /\ has[x]
  /\ has' = [has EXCEPT ![x] = FALSE]
  /\ count' = [count EXCEPT ![x] = IF prog[x] = "cat" THEN @ ELSE @ + 1]
  /\ \/ out[x] = 0 /\ UNCHANGED <<items, cpc, in, out>>
     \/ /\ out[x] # 0 /\ Readers(out[x]) # {} /\ items[out[x]] < Capacity
        /\ items' = [items EXCEPT ![out[x]] = @ + 1] /\ UNCHANGED <<cpc, in, out>>
     \/ out[x] # 0 /\ Readers(out[x]) = {} /\ Exit(x) /\ UNCHANGED items
  /\ UNCHANGED <<text, cmds, prog, pc, i, held, fails>>

Finish(x) ==
  /\ cpc[x] = "run" /\ ~has[x] /\ count[x] = Limit(x) /\ Exit(x)
  /\ UNCHANGED <<text, cmds, prog, pc, i, held, items, has, count, fails>>

Main     == MakePipes \/ Fork \/ ClosePipes \/ Wait
Child(x) == Dup(x) \/ CloseInChild(x) \/ Exec(x) \/ Read(x) \/ Write(x) \/ Finish(x)

Ended == pc = "done" /\ \A x \in Children : cpc[x] \in {"none", "gone"}

Next == Main \/ (\E x \in Children : Child(x)) \/ (Ended /\ UNCHANGED vars)

\* The processes run.
Spec == Init /\ [][Next]_vars /\ WF_vars(Main) /\ \A x \in Children : WF_vars(Child(x))
-----------------------------------------------------------------------------
(* Only the two commands beside a pipe hold an end of it, once parent and  *)
(* children have closed theirs; and whoever runs is connected to both      *)
(* sides.  One end too many, and a command never sees the end of its input *)
(* or a writer is never told that nobody reads.                            *)
OnlyNeighbours ==
  /\ \A x \in Children : held[x] \subseteq Ends /\ in[x] \in {0, x - 1} /\ out[x] \in {0, x}
  /\ pc \in {"wait", "done"} => held[Parent] = {}
  /\ \A x \in Children : cpc[x] \in {"exec", "run"} =>
       held[x] = {} /\ (x > 1 => in[x] = x - 1) /\ (x < N => out[x] = x)
  /\ \A j \in Pipes : items[j] \in 0 .. Capacity

\* Child x can go on: its next call does not wait for anybody.
Goes(x) ==
  \/ cpc[x] \in {"dup", "close", "exec"}
  \/ cpc[x] = "run" /\ has[x] /\ (out[x] # 0 /\ Readers(out[x]) # {} => items[out[x]] < Capacity)
  \/ Wants(x) /\ (prog[x] = "gen" \/ x \in EndOfInput \/ items[in[x]] > 0)
  \/ cpc[x] = "run" /\ ~has[x] /\ count[x] = Limit(x)

(* The commands never wait for each other in a ring: while the parent      *)
(* waits and a child has not ended, some child can go on.  A full pipe has *)
(* a reader that is not waiting, or that waits for room itself; an empty   *)
(* pipe has a writer that is not waiting, or that waits for input itself.  *)
NobodyStuck ==
  pc = "wait" /\ (\E x \in Children : cpc[x] \notin {"none", "zombie", "gone"})
    => \E x \in Children : Goes(x)

(* The parent ends last.  It waits as often as there are commands, or      *)
(* until wait fails: forks may have failed, which it has not seen.         *)
ParentEndsLast == pc = "done" => \A x \in Children : cpc[x] \in {"none", "gone"}

(* The program ends, and all its children before it: whatever the commands *)
(* do with their streams, in whatever order they start and end, if one of  *)
(* them cannot be executed or forked, and however full the pipes are.      *)
EveryoneEnds == <>[]Ended

(* The commands are the ones that the user means.  It takes that each has  *)
(* a word, and that a new line comes after a blank or a '|': directly      *)
(* after a word it stays part of the word (parser.c:189), and the last     *)
(* command of a file with a last line end cannot be executed.              *)
ParsedAsMeant ==
  pc = "parsed" =>
    LET meant == Meant(text)
    IN  \/ \E k \in DOMAIN meant : meant[k] = <<>>
        \/ \E k \in 2 .. Len(text) : text[k] = "\n" /\ text[k - 1] \notin White \cup {Bar}
        \/ cmds = meant
=============================================================================
