------------------------------- MODULE Backup -------------------------------
(***************************************************************************)
(* The backups of daemon/daemon/backup.c, which walk the source directory  *)
(* while users change it.  In the classic mode each backup is a full one.  *)
(* In the inotify mode the first one also puts an inotify instance on      *)
(* every directory; the others walk the table of instances and copy what   *)
(* their events name.                                                      *)
(*                                                                         *)
(* The source directory itself stays and the destination lies elsewhere    *)
(* (DaemonLoop has the rest), a path is always of the same type, and no    *)
(* call fails for want of resources but inotify_init1.                     *)
(***************************************************************************)
EXTENDS WatchTable

CONSTANTS Root,        \* the source directory
          Regular,     \* the paths of regular files
          Special,     \* the paths of links and FIFOs
          Parent,      \* the directory that a path lies in
          MaxWatches,  \* how many inotify instances a user may have
          MaxChanges,  \* how often users change the source
          MaxModes     \* how often users change the mode

Dirs  == Keys
Files == Regular \cup Special
Paths == (Dirs \ {Root}) \cup Files

ASSUME TreeAssumption   == /\ Root \in Dirs /\ Dirs \cap Files = {} /\ Regular \cap Special = {}
                           /\ Parent \in [Paths -> Dirs]
ASSUME BoundsAssumption == /\ MaxWatches \in Nat /\ Elements = 1 .. MaxWatches
                           /\ MaxChanges \in Nat /\ MaxModes \in Nat

VARIABLES exists,   \* the paths there are in the source
          stale,    \* the files that have changed since they were last copied
          watch,    \* watch[v]: live, dead once its directory is removed, or none
          queue,    \* queue[v]: the events that wait in instance v
          pc,       \* what the daemon does next
          mode,
          config,   \* inotify_config: the next backup makes all instances anew
          stack,    \* the calls of backup or backup_inotify_full, the innermost last
          made,     \* what the version directory has
          copying,  \* the file that copy_file reads, Null once it has lost its name
          endless,  \* its size changed so that the loop of copy_file does not end
          list_no, cur,  \* i and current_element of backup_inotify_inc
          event,    \* the event that it handles
          failed, merged, \* history: since the instances were made a backup was
                          \* given up; a read returned several events
          kept,     \* history: what has been there since the full backup began
          changes, modes

source == <<exists, stale, watch, queue>>
copy   == <<copying, endless>>
inc    == <<list_no, cur, event>>
past   == <<failed, merged>>
bounds == <<changes, modes>>
vars   == <<table, source, pc, mode, config, stack, made, copy, inc, past, kept, bounds>>

CLASSIC == 0
INOTIFY == 1
Instances  == 1 .. MaxWatches
Entries(d) == {p \in Paths : Parent[p] = d}

\* The directories that p lies in, up to the root: its parent, and with a
\* directory the parent of that.
Above(p) == {d \in Dirs : \A S \in SUBSET Dirs :
               Parent[p] \in S /\ (\A q \in S \ {Root} : Parent[q] \in S) => d \in S}

ASSUME PathAssumption == IsFiniteSet(Dirs) /\ \A p \in Paths : Root \in Above(p)

Init == /\ TableInit
        /\ exists \in {S \in SUBSET (Paths \cup {Root}) :
                         Root \in S /\ \A p \in S \ {Root} : Parent[p] \in S}
        /\ stale = exists \cap Regular
        /\ watch = [v \in Instances |-> "none"] /\ queue = [v \in Instances |-> <<>>]
        /\ pc = "idle" /\ mode = CLASSIC /\ config = FALSE /\ stack = <<>> /\ made = {}
        /\ copying = Null /\ endless = FALSE
        /\ list_no = 0 /\ cur = Null /\ event = <<>>
        /\ failed = FALSE /\ merged = FALSE /\ kept = {}
        /\ changes = 0 /\ modes = 0
-----------------------------------------------------------------------------
(* The users, and what the kernel tells the instances.                     *)

\* faulty: nobody asks for modifications
MaskCreate == {"create", "delete_self"}

\* The events that inotify_add_watch asks for.
Mask == {"create", "modify", "delete_self"}

WatchesOf(d) == {elem[e].value : e \in {e \in live : elem[e].key = d /\ watch[elem[e].value] = "live"}}

\* The event goes to the instances in V; it merges with an equal last one.
Notify(V, kind, p) ==
  queue' = [v \in Instances |->
              IF v \notin V \/ kind \notin Mask \/ (queue[v] # <<>> /\ Sx!Last(queue[v]) = <<kind, p>>)
              THEN queue[v] ELSE Append(queue[v], <<kind, p>>)]

Change == /\ changes < MaxChanges /\ changes' = changes + 1
          /\ UNCHANGED <<table, pc, mode, config, made, inc, past, modes>>

Create(p) ==
  /\ p \notin exists /\ Parent[p] \in exists /\ Change
  /\ exists' = exists \cup {p} /\ stale' = stale \cup ({p} \cap Regular)
  /\ Notify(WatchesOf(Parent[p]), "create", p)
  /\ UNCHANGED <<watch, stack, copy, kept>>

\* A file that changes its size while it is copied can trap copy_file: its
\* loop counts down from the size it had, and reads nothing at the end.
Modify(f) ==
  /\ f \in exists /\ Change
  /\ stale' = stale \cup {f}
  /\ Notify(WatchesOf(Parent[f]), "modify", f)
  /\ endless' \in {endless, endless \/ copying = f}
  /\ UNCHANGED <<exists, watch, stack, copying, kept>>

\* The mask has no IN_DELETE: nobody is told.
Unlink(f) ==
  /\ f \in exists /\ Change
  /\ exists' = exists \ {f} /\ stale' = stale \ {f} /\ kept' = kept \ {f}
  /\ copying' = IF copying = f THEN Null ELSE copying
  /\ UNCHANGED <<watch, queue, stack, endless>>

\* The instances of the directory watch nothing any more, whatever is made
\* in its place, and a listing of it that is under way finds nothing.  The
\* IN_IGNORED after IN_DELETE_SELF is never handled and left out.
Rmdir(d) ==
  /\ d \in exists /\ Entries(d) \cap exists = {} /\ Change
  /\ exists' = exists \ {d} /\ kept' = kept \ {d}
  /\ watch' = [v \in Instances |-> IF v \in WatchesOf(d) THEN "dead" ELSE watch[v]]
  /\ Notify(WatchesOf(d), "delete_self", d)
  /\ stack' = [i \in DOMAIN stack |->
                 IF stack[i].dir = d THEN [stack[i] EXCEPT !.gone = TRUE] ELSE stack[i]]
  /\ UNCHANGED <<stale, copy>>

\* SIGHUP, which the daemon takes between two backups.
ChangeMode == /\ pc = "idle" /\ modes < MaxModes /\ modes' = modes + 1
              /\ mode' = 1 - mode /\ config' = (mode' = INOTIFY)
              /\ UNCHANGED <<table, source, pc, stack, made, copy, inc, past, kept, changes>>
-----------------------------------------------------------------------------
(* Full backups                                                            *)

Call(d)     == [dir |-> d, todo |-> {}, gone |-> FALSE]
Frame       == Sx!Last(stack)
SetFrame(f) == stack' = [stack EXCEPT ![Len(stack)] = f]
Caller(s)   == IF s = <<>> THEN "inc" ELSE "scan"

\* backup, when the alarm goes off.
BeginClassic ==
  /\ pc = "idle" /\ mode = CLASSIC
  /\ pc' = "open" /\ stack' = <<Call(Root)>> /\ made' = {} /\ kept' = exists \ {Root}
  /\ UNCHANGED <<table, source, mode, config, copy, inc, past, bounds>>

\* backup_inotify with inotify_config: to clear the table closes all instances.
BeginFull ==
  /\ pc = "idle" /\ mode = INOTIFY /\ config /\ Clear
  /\ watch' = [v \in Instances |-> IF v \in fds' THEN watch[v] ELSE "none"]
  /\ queue' = [v \in Instances |-> IF v \in fds' THEN queue[v] ELSE <<>>]
  /\ pc' = "open" /\ stack' = <<Call(Root)>> /\ made' = {} /\ kept' = exists \ {Root}
  /\ failed' = FALSE /\ merged' = FALSE
  /\ UNCHANGED <<exists, stale, mode, config, copy, inc, bounds>>

\* The calls return 1, one after the other; main clears inotify_config.
GiveUp == /\ pc' = "idle" /\ config' = FALSE /\ stack' = <<>>
          /\ cur' = Null /\ event' = <<>> /\ failed' = TRUE /\ kept' = {}
          /\ UNCHANGED <<exists, mode, stale, made, copy, list_no, merged, bounds>>

\* stat and opendir
OpenDir ==
  /\ pc = "open" /\ UNCHANGED <<table, watch, queue>>
  /\ \/ Frame.dir \notin exists /\ GiveUp
     \/ /\ Frame.dir \in exists
        /\ pc' = IF mode = INOTIFY THEN "watch" ELSE "list"
        /\ SetFrame([Frame EXCEPT !.gone = FALSE])
        /\ UNCHANGED <<exists, stale, mode, config, made, copy, inc, past, kept, bounds>>

\* inotify_init1, inotify_add_watch and hashtable_set_value.  The watch is
\* on the path: on another directory than the opened one if that is gone.
AddWatch ==
  /\ pc = "watch"
  /\ \/ /\ Frame.dir \notin exists \/ fds = Instances
        /\ GiveUp /\ UNCHANGED <<table, watch, queue>>
     \/ /\ Frame.dir \in exists /\ fds # Instances
        /\ LET v == CHOOSE v \in Instances \ fds : \A u \in Instances \ fds : v <= u
               e == CHOOSE e \in Elements \ live : \A u \in Elements \ live : e <= u
           IN  SetValue(e, Frame.dir, v) /\ watch' = [watch EXCEPT ![v] = "live"]
        /\ pc' = "list"
        /\ UNCHANGED <<exists, stale, queue, mode, config, stack, made, copy, inc, past, kept, bounds>>

\* The first readdir fetches the names that are there now.
List ==
  /\ pc = "list" /\ pc' = "scan"
  /\ SetFrame([Frame EXCEPT !.todo = IF Frame.gone THEN {} ELSE Entries(Frame.dir) \cap exists])
  /\ UNCHANGED <<table, source, mode, config, made, copy, inc, past, kept, bounds>>

\* stat, and copy_file opens the file and takes its size; the rest goes on
\* in FinishCopy.  copy_link and mkfifo are done at once, unless the version
\* has p.  calls are those that go on afterwards.
Copy(p, calls) ==
  \/ (p \notin exists \/ (p \in Special /\ p \in made)) /\ GiveUp
  \/ /\ p \in exists /\ (p \in Regular \/ p \notin made)
     /\ made' = made \cup {p} /\ stale' = stale \ {p} /\ stack' = calls
     /\ pc' = IF p \in Regular THEN "copy" ELSE Caller(calls)
     /\ copying' = IF p \in Regular THEN p ELSE Null
     /\ UNCHANGED <<exists, mode, config, endless, inc, past, kept, bounds>>

\* mkdir in the version, which fails if it is there, and the recursive call.
Descend(d, calls) ==
  \/ (d \notin exists \/ d \in made) /\ GiveUp
  \/ /\ d \in exists \ made /\ made' = made \cup {d}
     /\ stack' = Append(calls, Call(d)) /\ pc' = "open"
     /\ UNCHANGED <<exists, mode, stale, config, copy, inc, past, kept, bounds>>

Entry(p) ==
  /\ pc = "scan" /\ p \in Frame.todo /\ UNCHANGED <<table, watch, queue>>
  /\ LET calls == [stack EXCEPT ![Len(stack)].todo = @ \ {p}]
     IN  IF p \in Dirs THEN Descend(p, calls) ELSE Copy(p, calls)

\* The loop of copy_file ends; how much it copied is not of interest here.
FinishCopy ==
  /\ pc = "copy" /\ ~endless
  /\ pc' = Caller(stack) /\ copying' = Null
  /\ UNCHANGED <<table, source, mode, config, stack, made, endless, inc, past, kept, bounds>>

\* faulty: the loop ends at a directory
LeaveEarly ==
  /\ pc = "scan" /\ Frame.todo \subseteq Dirs /\ stack' = Sx!Front(stack)
  /\ \/ /\ Len(stack) = 1 /\ cur = Null /\ pc' = "idle" /\ config' = FALSE
     \/ /\ Len(stack) > 1 \/ cur # Null
        /\ pc' = Caller(stack') /\ UNCHANGED config
  /\ UNCHANGED <<table, source, mode, made, copy, inc, past, kept, bounds>>

\* closedir and return 0: to the caller or to backup_inotify_inc, or the
\* full backup is complete.
Leave ==
  /\ pc = "scan" /\ Frame.todo = {} /\ stack' = Sx!Front(stack)
  /\ \/ /\ Len(stack) = 1 /\ cur = Null /\ pc' = "idle" /\ config' = FALSE
     \/ /\ Len(stack) > 1 \/ cur # Null
        /\ pc' = Caller(stack') /\ UNCHANGED config
  /\ UNCHANGED <<table, source, mode, made, copy, inc, past, kept, bounds>>
-----------------------------------------------------------------------------
(* Incremental backups                                                     *)

\* A version without changes is removed at the end: that it was empty goes
\* without saying here.
BeginInc ==
  /\ pc = "idle" /\ mode = INOTIFY /\ ~config
  /\ pc' = "inc" /\ list_no' = 0 /\ cur' = list[0].head /\ made' = {} /\ kept' = {}
  /\ UNCHANGED <<table, source, mode, config, stack, event, copy, past, bounds>>

NextList ==
  /\ pc = "inc" /\ cur = Null
  /\ \/ /\ list_no + 1 \in Lists
        /\ list_no' = list_no + 1 /\ cur' = list[list_no + 1].head /\ UNCHANGED pc
     \/ list_no + 1 \notin Lists /\ pc' = "idle" /\ UNCHANGED <<list_no, cur>>
  /\ UNCHANGED <<table, source, mode, config, stack, made, event, copy, past, kept, bounds>>

\* faulty: the element is read again
NoEventAgain ==
  /\ pc = "inc" /\ cur # Null /\ queue[elem[cur].value] = <<>>
  /\ UNCHANGED vars

\* EAGAIN
NoEvent ==
  /\ pc = "inc" /\ cur # Null /\ queue[elem[cur].value] = <<>>
  /\ cur' = elem[cur].next
  /\ UNCHANGED <<table, source, pc, mode, config, stack, made, list_no, event, copy, past, kept, bounds>>

\* read takes all events that fit, and the code looks at the first.
Read ==
  /\ pc = "inc" /\ cur # Null
  /\ LET v == elem[cur].value
     IN  /\ queue[v] # <<>> /\ event' = Head(queue[v])
         /\ queue' = [queue EXCEPT ![v] = <<>>]
         /\ merged' = (merged \/ Len(queue[v]) > 1)
  /\ pc' = "handle"
  /\ UNCHANGED <<table, exists, stale, watch, mode, config, stack, made, list_no, cur, copy, failed, kept, bounds>>

\* faulty: the walk stays at the element that is freed
DeleteSelfStays ==
  /\ pc = "handle" /\ event[1] = "delete_self"
  /\ Remove(elem[cur].key)
  /\ watch' = [v \in Instances |-> IF v \in fds' THEN watch[v] ELSE "none"]
  /\ queue' = [v \in Instances |-> IF v \in fds' THEN queue[v] ELSE <<>>]
  /\ pc' = "inc" /\ event' = <<>>
  /\ UNCHANGED <<exists, stale, mode, config, stack, made, list_no, cur, copy, past, kept, bounds>>

\* hashtable_remove takes the first element with this path.
DeleteSelf ==
  /\ pc = "handle" /\ event[1] = "delete_self"
  /\ cur' = elem[cur].next /\ Remove(elem[cur].key)
  /\ watch' = [v \in Instances |-> IF v \in fds' THEN watch[v] ELSE "none"]
  /\ queue' = [v \in Instances |-> IF v \in fds' THEN queue[v] ELSE <<>>]
  /\ pc' = "inc" /\ event' = <<>>
  /\ UNCHANGED <<exists, stale, mode, config, stack, made, list_no, copy, past, kept, bounds>>

\* faulty: nothing is made
CreateNoDirectories(p) == pc = "handle" /\ pc' = "handled" /\ UNCHANGED made

\* create_directories: stat in the source, mkdir in the version if need be.
CreateDirectories(p) ==
  LET above == Above(p) \ {Root}
  IN  pc = "handle" /\ above \subseteq exists /\ pc' = "handled" /\ made' = made \cup above

\* IN_CREATE and IN_MODIFY.  A FIFO that is written to is not copied again.
Created ==
  /\ pc = "handle" /\ event[1] \in {"create", "modify"} /\ UNCHANGED <<table, watch, queue>>
  /\ \/ ~(Above(event[2]) \subseteq exists \cup {Root}) /\ GiveUp
     \/ /\ CreateDirectories(event[2])
        /\ UNCHANGED <<exists, stale, mode, config, stack, inc, copy, past, kept, bounds>>

Changed ==
  /\ pc = "handled" /\ UNCHANGED <<table, watch, queue>>
  /\ LET p == event[2] IN IF p \in Dirs THEN Descend(p, <<>>) ELSE Copy(p, <<>>)
-----------------------------------------------------------------------------
Daemon == \/ BeginClassic \/ BeginFull \/ OpenDir \/ AddWatch \/ List
          \/ (\E p \in Paths : Entry(p)) \/ FinishCopy \/ Leave
          \/ BeginInc \/ NextList \/ NoEvent \/ Read \/ DeleteSelf \/ Created \/ Changed

Users  == \/ \E p \in Paths : Create(p)
          \/ \E f \in Regular : Modify(f)
          \/ \E f \in Files : Unlink(f)
          \/ \E d \in Dirs \ {Root} : Rmdir(d)
          \/ ChangeMode

Next == Daemon \/ Users

\* The daemon runs whenever it can; users need not do anything.
Spec == Init /\ [][Next]_vars /\ WF_vars(Daemon)
-----------------------------------------------------------------------------
(* The types; also, current_element is always an element of its list: the  *)
(* code frees elements while it walks.                                     *)
TypeOK ==
  /\ live \subseteq Elements /\ fds \subseteq Instances
  /\ \A b \in Lists : list[b].size \in 0 .. Cardinality(live)
  /\ exists \subseteq Paths \cup {Root} /\ stale \subseteq exists \cap Regular
  /\ watch \in [Instances -> {"live", "dead", "none"}]
  /\ queue \in [Instances -> Seq({"create", "modify", "delete_self"} \X (Paths \cup {Root}))]
  /\ pc \in {"idle", "open", "watch", "list", "scan", "copy", "inc", "handle", "handled"}
  /\ mode \in {CLASSIC, INOTIFY} /\ {config, endless, failed, merged} \subseteq BOOLEAN
  /\ Len(stack) <= Cardinality(Dirs) /\ made \subseteq Paths /\ kept \subseteq made \cup Paths
  /\ copying \in Regular \cup {Null}
  /\ list_no \in Lists
  /\ cur # Null => cur \in Sx!ToSet(Forward(list_no))

(* A backup never writes into a directory that its version does not have,  *)
(* in whatever order the events come.                                      *)
VersionClosed == \A p \in made : Parent[p] \in made \cup {Root}

(* A full backup that was not given up has everything that was there from  *)
(* its beginning on, however the users change the rest meanwhile.          *)
FullComplete == pc = "idle" => kept \subseteq made

\* An instance that is read in the next round has the event.
Pending(kind, p) == \E v \in fds : watch[v] = "live" /\ <<kind, p>> \in Sx!ToSet(queue[v])
Remembered(p)    == \E q \in Above(p) \cup {p} : q # Root /\ Pending("create", q)

(* Between two rounds of the inotify mode the next round can know of       *)
(* everything that is not backed up: each directory is watched and each    *)
(* changed file announced, or a new directory above them is.  It takes     *)
(* that since the instances were made no backup was given up, which loses  *)
(* the event it was at, and no read returned several events, of which all  *)
(* but the first are lost (backup.c:591-625).                              *)
Known ==
  /\ \A d \in exists \cap Dirs : WatchesOf(d) # {} \/ Remembered(d)
  /\ \A f \in stale : Pending("modify", f) \/ Remembered(f)
NothingMissed == pc = "idle" /\ mode = INOTIFY /\ ~config /\ ~failed /\ ~merged => Known

(* Every backup comes to its end, whatever is freed and added under its    *)
(* walk, unless a file changes its size while it is copied, in which case  *)
(* the daemon reads it for ever (backup.c:235-260).                        *)
BackupEnds == []<>(pc = "idle" \/ endless)
=============================================================================
