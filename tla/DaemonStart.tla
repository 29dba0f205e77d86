---------------------------- MODULE DaemonStart ----------------------------
(***************************************************************************)
(* How a backup daemon starts and stops (daemon/daemon/daemon.c): the lock *)
(* on the pid file that keeps a second one out, the FIFO for the           *)
(* controllers, and the table of descriptors, in which the C library's     *)
(* streams have the numbers 0, 1 and 2.  Several are started, at any time, *)
(* and any of them may be killed at any time: by SIGKILL, or by the        *)
(* SIGUSR1 of a controller's check before the signals are blocked.         *)
(*                                                                         *)
(* The two forks and setsid, which come first, change nothing that others  *)
(* see.  The files are in directories where they can be made.              *)
(***************************************************************************)
EXTENDS Integers, FiniteSets

CONSTANTS Daemons,  \* the processes; each is started once
          MaxFd,    \* the largest descriptor
          Starts,   \* which descriptors a process may be started with
          None

Fds   == 0 .. MaxFd
Kinds == {"other", "pid", "in", "out", "err"}  \* of descriptors, besides the FIFOs

\* There is room for the five files that a daemon opens.
ASSUME FdAssumption   == MaxFd \in Nat /\ MaxFd >= 8 /\ Starts \subseteq SUBSET (0 .. MaxFd - 5)
ASSUME NoneAssumption == None \notin Daemons \cup Kinds /\ Daemons \cap Kinds = {}

VARIABLES pc,       \* pc[p]: what process p does next
          fd,       \* fd[p][n]: what descriptor n of p is; a process stands for its FIFO
          started,  \* started[p]: the descriptors p was started with
          fd_pid, fd_fifo,
          exists,   \* there is a pid file
          pid,      \* the process that it names
          lock,     \* the process that has locked it
          fifo      \* the process that made the FIFO at the path, if there is one

names == <<fd_pid, fd_fifo, started>>
files == <<exists, pid, fifo>>
vars  == <<pc, fd, names, files, lock>>

Init == /\ pc = [p \in Daemons |-> "off"]
        /\ fd = [p \in Daemons |-> [n \in Fds |-> None]]
        /\ started = [p \in Daemons |-> {0, 1, 2}]
        /\ fd_pid = [p \in Daemons |-> 0] /\ fd_fifo = [p \in Daemons |-> 0]
        /\ exists = FALSE /\ pid = None /\ lock = None /\ fifo = None
-----------------------------------------------------------------------------
(* Descriptors.  open takes the lowest free number.  Whoever closes any    *)
(* descriptor of a file loses its locks on the file.                       *)

Lowest(t) == CHOOSE n \in Fds : t[n] = None /\ \A k \in Fds : t[k] = None => n <= k

Open(t, what) == [t EXCEPT ![Lowest(t)] = what]

Dup2(t, old, new) == [t EXCEPT ![new] = t[old]]

Descriptors(p, t) ==
  /\ fd' = [fd EXCEPT ![p] = t]
  /\ lock' = IF lock = p /\ \E n \in Fds : fd[p][n] = "pid" /\ t[n] # "pid" THEN None ELSE lock

Goto(p, label) == pc' = [pc EXCEPT ![p] = label]

\* The end of a process closes everything.
End(p, how) == Goto(p, how) /\ Descriptors(p, [n \in Fds |-> None])
-----------------------------------------------------------------------------
Launch(p) ==
  /\ pc[p] = "off" /\ Goto(p, "open_pid")
  /\ \E S \in Starts : /\ started' = [started EXCEPT ![p] = S]
                       /\ Descriptors(p, [n \in Fds |-> IF n \in S THEN "other" ELSE None])
  /\ UNCHANGED <<fd_pid, fd_fifo, files>>

\* faulty: O_EXCL, as if the file were the lock
OpenPidExclusive(p) ==
  /\ pc[p] = "open_pid"
  /\ \/ exists /\ End(p, "refused") /\ UNCHANGED fd_pid
     \/ /\ ~exists /\ Goto(p, "lock") /\ Descriptors(p, Open(fd[p], "pid"))
        /\ fd_pid' = [fd_pid EXCEPT ![p] = Lowest(fd[p])]
  /\ exists' = TRUE
  /\ UNCHANGED <<fd_fifo, started, pid, fifo>>

\* create_and_lock_pid_file: the file may be there, and keeps its content.
OpenPid(p) ==
  /\ pc[p] = "open_pid" /\ Goto(p, "lock")
  /\ Descriptors(p, Open(fd[p], "pid"))
  /\ fd_pid' = [fd_pid EXCEPT ![p] = Lowest(fd[p])]
  /\ exists' = TRUE
  /\ UNCHANGED <<fd_fifo, started, pid, fifo>>

\* faulty: a read lock
LockShared(p) ==
  /\ pc[p] = "lock" /\ Goto(p, "write") /\ lock' = p
  /\ UNCHANGED <<fd, names, files>>

\* lock_pid_file: F_SETLK does not wait.
Lock(p) ==
  /\ pc[p] = "lock"
  /\ \/ lock = None /\ lock' = p /\ Goto(p, "write") /\ UNCHANGED fd
     \/ lock # None /\ End(p, "refused")
  /\ UNCHANGED <<names, files>>

Write(p) ==
  /\ pc[p] = "write" /\ Goto(p, "unlink") /\ pid' = p
  /\ UNCHANGED <<fd, names, exists, fifo, lock>>

\* create_and_open_fifo, one call after the other
Unlink(p) ==
  /\ pc[p] = "unlink" /\ Goto(p, "mkfifo") /\ fifo' = None
  /\ UNCHANGED <<fd, names, exists, pid, lock>>

Mkfifo(p) ==
  /\ pc[p] = "mkfifo"
  /\ \/ fifo = None /\ fifo' = p /\ Goto(p, "open_fifo") /\ UNCHANGED <<fd, lock>>
     \/ fifo # None /\ End(p, "refused") /\ UNCHANGED fifo
  /\ UNCHANGED <<names, exists, pid>>

OpenFifo(p) ==
  /\ pc[p] = "open_fifo"
  /\ \/ /\ fifo # None /\ Goto(p, "close_all") /\ Descriptors(p, Open(fd[p], fifo))
        /\ fd_fifo' = [fd_fifo EXCEPT ![p] = Lowest(fd[p])]
     \/ fifo = None /\ End(p, "refused") /\ UNCHANGED fd_fifo
  /\ UNCHANGED <<fd_pid, started, files>>

\* close_all_fd closes all but the two and, since it stops above it, 0.
CloseAll(p) ==
  /\ pc[p] = "close_all" /\ Goto(p, "open_std")
  /\ Descriptors(p, [n \in Fds |-> IF n \in {0, fd_pid[p], fd_fifo[p]} THEN fd[p][n] ELSE None])
  /\ UNCHANGED <<names, files>>

\* faulty: from the last to the first
StdBackwards(t) ==
  LET t1 == Open(t, "in")  t2 == Open(t1, "out")  t3 == Open(t2, "err")
  IN  Dup2(Dup2(Dup2(t3, Lowest(t2), 2), Lowest(t1), 1), Lowest(t), 0)

\* open_in_out_err: three files, and three dup2 onto numbers that these
\* files may themselves have.
Std(t) ==
  LET t1 == Open(t, "in")  t2 == Open(t1, "out")  t3 == Open(t2, "err")
  IN  Dup2(Dup2(Dup2(t3, Lowest(t), 0), Lowest(t1), 1), Lowest(t2), 2)

OpenStd(p) ==
  /\ pc[p] = "open_std" /\ Goto(p, "serving") /\ Descriptors(p, Std(fd[p]))
  /\ UNCHANGED <<names, files>>

\* shutdown: close(fd_fifo), close(fd_pid), and the rest of the way to exit.
Shutdown(p) ==
  /\ pc[p] = "serving" /\ Goto(p, "closing")
  /\ Descriptors(p, [fd[p] EXCEPT ![fd_fifo[p]] = None])
  /\ UNCHANGED <<names, files>>

\* faulty: the exit is left to close the pid file
ClosePidForgotten(p) ==
  /\ pc[p] = "closing" /\ Goto(p, "exiting")
  /\ UNCHANGED <<fd, lock, names, files>>

ClosePid(p) ==
  /\ pc[p] = "closing" /\ Goto(p, "exiting")
  /\ Descriptors(p, [fd[p] EXCEPT ![fd_pid[p]] = None])
  /\ UNCHANGED <<names, files>>

Exit(p) == pc[p] = "exiting" /\ End(p, "gone") /\ UNCHANGED <<names, files>>

Ended   == {"refused", "gone"}
Kill(p) == pc[p] \notin Ended \cup {"off"} /\ End(p, "gone") /\ UNCHANGED <<names, files>>

Step(p) == \/ Launch(p) \/ OpenPid(p) \/ Lock(p) \/ Write(p) \/ Unlink(p) \/ Mkfifo(p)
           \/ OpenFifo(p) \/ CloseAll(p) \/ OpenStd(p)
           \/ Shutdown(p) \/ ClosePid(p) \/ Exit(p) \/ Kill(p)

Next == \E p \in Daemons : Step(p)
Spec == Init /\ [][Next]_vars
-----------------------------------------------------------------------------
Has(p) == pc[p] \in {"write", "unlink", "mkfifo", "open_fifo", "close_all", "open_std",
                     "serving", "closing"}      \* the lock, as far as p knows

\* Everybody has been started with the three streams open.  Otherwise the
\* pid file gets one of their numbers, and dup2 closes it: the daemon serves
\* on without the lock.
Whole == \A p \in Daemons : {0, 1, 2} \subseteq started[p]

Labels == {"off", "open_pid", "lock", "write", "unlink", "mkfifo", "open_fifo", "close_all",
           "open_std", "serving", "closing", "exiting"} \cup Ended

(* The types; also, whoever has the lock has the file open, and the        *)
(* numbers the process remembers are the ones of its files.                *)
TypeOK ==
  /\ pc \in [Daemons -> Labels]
  /\ fd \in [Daemons -> [Fds -> {None} \cup Kinds \cup Daemons]]
  /\ fd_pid \in [Daemons -> Fds] /\ fd_fifo \in [Daemons -> Fds]
  /\ started \in [Daemons -> SUBSET Fds]
  /\ exists \in BOOLEAN /\ {pid, lock, fifo} \subseteq Daemons \cup {None}
  /\ lock # None => Has(lock) /\ fd[lock][fd_pid[lock]] = "pid"

(* "Protection against the re-creation of the daemon" (README.md): from    *)
(* the lock on there is never a second one, however starts, ends and kills *)
(* interleave, and the first keeps its lock through all its closing.       *)
OneDaemon == Whole => \A p, q \in Daemons : Has(p) /\ Has(q) => p = q

(* Whoever serves is the one that controllers reach: the pid file names    *)
(* it, the FIFO at the path is the one it reads, and its streams are the   *)
(* three files.  Neither a start that is refused nor the shutdown of an    *)
(* earlier daemon takes that away.                                         *)
ServerReached ==
  Whole => \A p \in Daemons : pc[p] = "serving" =>
             /\ exists /\ pid = p /\ fifo = p
             /\ fd[p][fd_fifo[p]] = p
             /\ fd[p][0] = "in" /\ fd[p][1] = "out" /\ fd[p][2] = "err"

(* A start is refused only while another process has the lock: what a      *)
(* killed daemon leaves behind, a pid file and a FIFO, keeps nobody out.   *)
RefusedOnlyIfTaken ==
  [][Whole' => \A p \in Daemons :
       pc'[p] = "refused" /\ pc[p] # "refused" => \E q \in Daemons \ {p} : Has(q)]_vars
=============================================================================
