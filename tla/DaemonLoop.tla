----------------------------- MODULE DaemonLoop -----------------------------
(***************************************************************************)
(* The backup daemon (daemon/daemon/main.c) and its controllers            *)
(* (daemon/controller/controller.c).  The daemon blocks its signals and    *)
(* takes them one by one with sigwaitinfo, the lowest number first, from a *)
(* set that its handlers change.  A controller sends signals; a new        *)
(* directory follows its signal through a FIFO.  The alarm clock sends     *)
(* SIGALRM, and in inotify mode the daemon sends SIGCHLD to itself.        *)
(*                                                                         *)
(* A path is the sequence of its components, so that <<>> is the empty     *)
(* string and two paths read at once are one path, their concatenation.    *)
(* No component is a prefix of another, and what is in the FIFO fits into  *)
(* one read.                                                               *)
(***************************************************************************)
EXTENDS Integers, Sequences

Sx == INSTANCE SequencesExt

CONSTANTS Controllers,  \* the processes that run the controller
          Paths,        \* the paths that users type
          Existing,     \* the directories there are in the beginning
          Intervals,    \* the numbers that users type for the interval
          None,         \* no signal, no path
          MaxCommands,  \* how many commands all users give
          MaxRemoves    \* how many directories are removed by others

Names == UNION {{p[i] : i \in DOMAIN p} : p \in Paths}     \* the components

ASSUME PathsAssumption  == /\ Paths \subseteq Seq(Names) \ {<<>>}
                           /\ Existing \subseteq Paths
ASSUME BoundsAssumption == /\ Intervals \subseteq Int /\ None \notin Int \cup (Int \X Paths)
                           /\ MaxCommands \in Nat /\ MaxRemoves \in Nat

VARIABLES pc,        \* what the daemon does next
          set,       \* the set it waits for
          pend,      \* pend[s]: si_int of the pending signal s, or None
          info,      \* the signal taken last and its si_int
          armed,     \* whether the alarm clock runs
          delay, mode, run, config, src, dst,   \* locals of main
          watched,   \* the directory that the table of watches is for, or None
          fifo,      \* what is written and not read
          dirs,      \* the directories there are
          cpc,       \* cpc[c]: what controller c does next
          typed,     \* typed[c]: the directory c is changing, and the path
          asked,     \* asked[w]: the last directory a controller said it has set
          commands, removes

daemon == <<set, info, delay, mode, run, config, src, dst, watched>>
users  == <<cpc, typed, asked, commands>>
vars   == <<pc, daemon, pend, armed, fifo, dirs, users, removes>>

Number  == [HUP |-> 1, INT |-> 2, USR1 |-> 10, USR2 |-> 12, ALRM |-> 14, TERM |-> 15, CHLD |-> 17]
Signals == DOMAIN Number
CLASSIC == 0
INOTIFY == 1
Source  == 0        \* si_int of SIGUSR2
Target  == 1

Init == /\ pc = "starting"
        /\ set = Signals \ {"CHLD"}
        /\ pend = [s \in Signals |-> None] /\ info = <<"ALRM", 0>>
        /\ armed = FALSE /\ delay = 10
        /\ mode = CLASSIC /\ run = TRUE /\ config = FALSE
        /\ \/ src = <<>> /\ dst = <<>>                  \* no arguments
           \/ src \in Existing /\ dst \in Existing
        /\ watched = None /\ fifo = <<>> /\ dirs = Existing
        /\ cpc = [c \in Controllers |-> "start"]
        /\ typed = [c \in Controllers |-> None]
        /\ asked = [w \in {Source, Target} |-> None]
        /\ commands = 0 /\ removes = 0

\* main blocks its signals some time after the pid file tells its pid.
Start == /\ pc = "starting" /\ pc' = "waiting"
         /\ armed' = TRUE
         /\ UNCHANGED <<daemon, pend, fifo, dirs, users, removes>>
-----------------------------------------------------------------------------
(* Directories *)

\* strstr finds the path s in t, and a '/' follows.
Inside(s, t) == \E i \in 0 .. Len(t) - Len(s) - 1 : SubSeq(t, i + 1, i + Len(s)) = s

Included == Inside(src, dst) \/ Inside(dst, src)    \* check_include_directory

CanMake(d) == d # <<>> /\ (Len(d) = 1 \/ Sx!Front(d) \in dirs)

CanHave(d) == d \in dirs \/ CanMake(d)              \* check_dst

\* Both handlers look at the directories in this order before they back up.
Ignored == Included
Broken  == ~Included /\ (~CanHave(dst) \/ src \notin dirs)
Ready   == ~Included /\ CanHave(dst) /\ src \in dirs
MakeDst == dirs' = IF ~Included /\ CanHave(dst) THEN dirs \cup {dst} ELSE dirs
-----------------------------------------------------------------------------
(* The daemon: sigwaitinfo and the switch *)

Alarm == /\ armed /\ pc # "exited"
         /\ armed' = FALSE
         /\ pend' = [pend EXCEPT !["ALRM"] = IF @ = None THEN 0 ELSE @]
         /\ UNCHANGED <<pc, daemon, fifo, dirs, users, removes>>

Waiting == {s \in set : pend[s] # None}

Take == /\ pc = "waiting" /\ pc' = "taken"
        /\ \E s \in Waiting :
             /\ \A t \in Waiting : Number[s] <= Number[t]
             /\ info' = <<s, pend[s]>>
             /\ pend' = [pend EXCEPT ![s] = None]
        /\ UNCHANGED <<set, delay, mode, run, config, src, dst, watched, armed,
                       fifo, dirs, users, removes>>

Taken(s) == pc = "taken" /\ info[1] = s

\* faulty: the alarm is set again only when there is something to back up
HandleAlarmLate ==
  /\ Taken("ALRM")
  /\ armed' = IF Ready THEN delay > 0 ELSE armed
  /\ pc' = IF Ignored THEN "end" ELSE IF Broken THEN "exited" ELSE "copying"
  /\ MakeDst
  /\ UNCHANGED <<daemon, pend, fifo, users, removes>>

\* alarm(0) would stop the clock.
HandleAlarm ==
  /\ Taken("ALRM")
  /\ armed' = (delay > 0)
  /\ \/ Ignored /\ pc' = "end"
     \/ Broken  /\ pc' = "exited"
     \/ Ready   /\ pc' = "copying"
  /\ MakeDst
  /\ UNCHANGED <<daemon, pend, fifo, users, removes>>

Copy == /\ pc = "copying" /\ pc' = "end"
        /\ UNCHANGED <<daemon, pend, armed, fifo, dirs, users, removes>>

\* -1 is the controller asking whether there is a daemon.
NewDelay(n) == IF n > 0 THEN n ELSE delay

HandleInterval ==
  /\ Taken("USR1") /\ pc' = "end"
  /\ delay' = NewDelay(info[2])
  /\ UNCHANGED <<set, info, mode, run, config, src, dst, watched, pend, armed,
                 fifo, dirs, users, removes>>

\* An empty FIFO, or a path that is no directory, leaves the new value.  The
\* watches are renewed when source and destination are the same.
HandleSource ==
  /\ Taken("USR2") /\ info[2] = Source /\ pc' = "end"
  /\ src' = fifo /\ fifo' = <<>>
  /\ config' = (config \/ (fifo \in dirs /\ fifo = dst))
  /\ UNCHANGED <<set, info, delay, mode, run, dst, watched, pend, armed,
                 dirs, users, removes>>

HandleTarget ==
  /\ Taken("USR2") /\ info[2] = Target /\ pc' = "end"
  /\ dst' = fifo /\ fifo' = <<>>
  /\ dirs' = IF CanHave(fifo) THEN dirs \cup {fifo} ELSE dirs
  /\ config' = (config \/ (CanHave(fifo) /\ fifo = src))
  /\ UNCHANGED <<set, info, delay, mode, run, src, watched, pend, armed, users, removes>>

\* faulty: the signal of the new mode is waited for by a stopped daemon too
ModeSetStopped(m) == (set \ {"ALRM", "CHLD"}) \cup {IF m = INOTIFY THEN "CHLD" ELSE "ALRM"}

ModeSet(m) == IF m = INOTIFY
              THEN (set \ {"ALRM"}) \cup (IF run THEN {"CHLD"} ELSE {})
              ELSE (set \ {"CHLD"}) \cup (IF run THEN {"ALRM"} ELSE {})

HandleMode ==
  /\ Taken("HUP") /\ pc' = "end"
  /\ IF mode = info[2]
     THEN UNCHANGED <<mode, config, set>>
     ELSE /\ mode' = IF info[2] = INOTIFY THEN INOTIFY ELSE CLASSIC
          /\ config' = (mode' = INOTIFY)
          /\ set' = ModeSet(mode')
  /\ UNCHANGED <<info, delay, run, src, dst, watched, pend, armed, fifo, dirs, users, removes>>

\* faulty: a stopped daemon waits for SIGTERM no more
StartStopSetDeaf ==
  IF run THEN set \ {"ALRM", "CHLD", "TERM"}
  ELSE set \cup {"TERM", IF mode = CLASSIC THEN "ALRM" ELSE "CHLD"}

StartStopSet ==
  IF run THEN set \ {"ALRM", "CHLD"}
  ELSE set \cup {IF mode = CLASSIC THEN "ALRM" ELSE "CHLD"}

HandleStartStop ==
  /\ Taken("INT") /\ pc' = "end"
  /\ set' = StartStopSet
  /\ run' = ~run
  /\ UNCHANGED <<info, delay, mode, config, src, dst, watched, pend, armed,
                 fifo, dirs, users, removes>>

HandleTick == /\ Taken("CHLD") /\ pc' = "end"
              /\ UNCHANGED <<daemon, pend, armed, fifo, dirs, users, removes>>

HandleTerm == /\ Taken("TERM") /\ pc' = "exited"
              /\ UNCHANGED <<daemon, pend, armed, fifo, dirs, users, removes>>

Post(s, n) == pend' = [pend EXCEPT ![s] = IF @ = None THEN n ELSE @]

\* faulty: the next tick is sent only after a backup that was not ignored
InotifyQuiet ==
  /\ pc = "end" /\ mode = INOTIFY
  /\ \/ Ignored /\ pc' = "waiting" /\ UNCHANGED pend
     \/ Broken  /\ pc' = "exited"  /\ UNCHANGED pend
     \/ Ready   /\ pc' = "waiting" /\ Post("CHLD", 0)
  /\ watched' = IF ~config THEN watched ELSE IF Ready THEN src ELSE None
  /\ config' = FALSE
  /\ MakeDst
  /\ UNCHANGED <<set, info, delay, mode, run, src, dst, armed, fifo, users, removes>>

\* backup_inotify, after any signal: a full backup, which makes the table of
\* watches, or the changes that the table tells.
Inotify ==
  /\ pc = "end" /\ mode = INOTIFY
  /\ \/ Ignored /\ pc' = "waiting" /\ Post("CHLD", 0)
     \/ Broken  /\ pc' = "exited"  /\ UNCHANGED pend
     \/ Ready   /\ pc' = "waiting" /\ Post("CHLD", 0)
  /\ watched' = IF ~config THEN watched ELSE IF Ready THEN src ELSE None
  /\ config' = FALSE
  /\ MakeDst
  /\ UNCHANGED <<set, info, delay, mode, run, src, dst, armed, fifo, users, removes>>

NoInotify == /\ pc = "end" /\ pc' = "waiting"
             /\ mode = CLASSIC
             /\ UNCHANGED <<daemon, pend, armed, fifo, dirs, users, removes>>
-----------------------------------------------------------------------------
(* A controller.  A signal ends a daemon that has not blocked it yet, save *)
(* SIGHUP, which is ignored; it is lost when the same one is pending.      *)

Send(s, n) ==
  IF pc # "starting" THEN Post(s, n) /\ UNCHANGED pc
  ELSE UNCHANGED pend /\ pc' = IF s = "HUP" THEN pc ELSE "exited"

Step(c, from, to) == cpc[c] = from /\ cpc' = [cpc EXCEPT ![c] = to]

\* sigqueue and kill fail when there is no daemon; the controller ends.
NoDaemon(c) == /\ pc = "exited" /\ cpc[c] \in {"start", "menu"}
               /\ cpc' = [cpc EXCEPT ![c] = "done"]
               /\ UNCHANGED <<pc, daemon, pend, armed, fifo, dirs, typed, asked,
                              commands, removes>>

Command(c, s, n, next) == /\ Step(c, "menu", next)
                          /\ pc # "exited"
                          /\ commands < MaxCommands /\ commands' = commands + 1
                          /\ Send(s, n)
                          /\ UNCHANGED <<daemon, armed, fifo, dirs, asked, removes>>

CheckPid(c) == /\ Step(c, "start", "menu")
               /\ pc # "exited"
               /\ Send("USR1", -1)
               /\ UNCHANGED <<daemon, armed, fifo, dirs, typed, asked, commands, removes>>

StartStop(c) == Command(c, "INT", 0, "menu") /\ UNCHANGED typed
ChangeInterval(c) == \E n \in Intervals : Command(c, "USR1", n, "menu") /\ UNCHANGED typed
ChangeMode(c) == \E m \in {CLASSIC, INOTIFY} : Command(c, "HUP", m, "menu") /\ UNCHANGED typed
KillDaemon(c) == Command(c, "TERM", 0, "done") /\ UNCHANGED typed

\* A source that cannot be opened is refused.
ChangeDirectory(c) ==
  \E w \in {Source, Target}, d \in Paths :
    /\ w = Source => d \in dirs
    /\ Command(c, "USR2", w, "write")
    /\ typed' = [typed EXCEPT ![c] = <<w, d>>]

WritePath(c) ==
  /\ Step(c, "write", "menu")
  /\ fifo' = fifo \o typed[c][2]
  /\ asked' = [asked EXCEPT ![typed[c][1]] = typed[c][2]]
  /\ typed' = [typed EXCEPT ![c] = None]
  /\ UNCHANGED <<pc, daemon, pend, armed, dirs, commands, removes>>

(* Somebody else removes a directory and what is in it.                    *)
Remove == /\ removes < MaxRemoves /\ removes' = removes + 1
          /\ \E d \in dirs : dirs' = {e \in dirs : ~Sx!IsPrefix(d, e)}
          /\ UNCHANGED <<pc, daemon, pend, armed, fifo, users>>
-----------------------------------------------------------------------------
Handle == \/ HandleAlarm \/ HandleInterval \/ HandleSource \/ HandleTarget
          \/ HandleMode \/ HandleStartStop \/ HandleTick \/ HandleTerm

Daemon == Start \/ Take \/ Handle \/ Copy \/ Inotify \/ NoInotify

Controller(c) == \/ CheckPid(c) \/ NoDaemon(c) \/ StartStop(c) \/ ChangeInterval(c)
                 \/ ChangeMode(c) \/ KillDaemon(c) \/ ChangeDirectory(c) \/ WritePath(c)

Next == Daemon \/ Alarm \/ Remove \/ \E c \in Controllers : Controller(c)

Spec == Init /\ [][Next]_vars

(* The daemon is scheduled and the clock runs; users need not do anything. *)
FairSpec == Spec /\ WF_vars(Daemon) /\ WF_vars(Alarm)
-----------------------------------------------------------------------------
TypeOK ==
  /\ pc \in {"starting", "waiting", "taken", "copying", "end", "exited"}
  /\ set \subseteq Signals
  /\ pend \in [Signals -> Int \cup {None}] /\ info \in Signals \X Int
  /\ armed \in BOOLEAN /\ run \in BOOLEAN /\ config \in BOOLEAN
  /\ delay \in Nat \ {0} /\ mode \in {CLASSIC, INOTIFY}
  /\ src \in Seq(Names) /\ dst \in Seq(Names) /\ fifo \in Seq(Names)
  /\ watched \in Seq(Names) \cup {None} /\ dirs \subseteq Seq(Names)
  /\ typed \in [Controllers -> ({Source, Target} \X Paths) \cup {None}]
  /\ asked \in [{Source, Target} -> Paths \cup {None}]
  /\ cpc \in [Controllers -> {"start", "menu", "write", "done"}]
  /\ commands \in 0 .. MaxCommands /\ removes \in 0 .. MaxRemoves

(* sigwaitinfo waits for the signal of the mode while the daemon runs, for  *)
(* neither while it is stopped, and for all the others always.             *)
Awaited == (Signals \ {"ALRM", "CHLD"})
             \cup (IF run THEN {IF mode = CLASSIC THEN "ALRM" ELSE "CHLD"} ELSE {})
SetMatches == pc = "waiting" => set = Awaited

(* A daemon that waits has its next backup ahead, also one that is stopped *)
(* and may be started: the clock runs or has rung, and in inotify mode the *)
(* next SIGCHLD is pending, or the loop would sleep for ever.              *)
NextBackupAhead ==
  pc = "waiting" => /\ armed \/ pend["ALRM"] # None
                    /\ mode = INOTIFY => pend["CHLD"] # None

(* A daemon that runs comes to its next backup, in both modes, or finds    *)
(* that it has to ignore it.                                               *)
BacksUp == pc = "copying" \/ (pc = "end" /\ mode = INOTIFY)
KeepsBackingUp == []<>(BacksUp \/ Included \/ ~run \/ pc = "exited")

(* A stopped daemon obeys [5] KILL of the menu, unless it is started.      *)
StoppedObeysKill == (~run /\ pend["TERM"] # None) ~> (run \/ pc = "exited")

(* "A new directory has been set" (controller.c): when the controllers and *)
(* the daemon have come to rest, it has the directories they announced.    *)
Quiet == /\ pc = "waiting" /\ pend["USR2"] = None
         /\ \A c \in Controllers : cpc[c] # "write"
AppliedWhenQuiet ==
  Quiet => /\ asked[Source] \in {None, src}
           /\ asked[Target] \in {None, dst}
=============================================================================
