-------------------------- MODULE DaemonLoopProofs --------------------------
(***************************************************************************)
(* Safety of the daemon's loop for any controllers, paths, intervals and   *)
(* any number of commands.                                                 *)
(***************************************************************************)
EXTENDS DaemonLoop, TLAPS

\* A controller that is about to write knows what.
WriteTyped == \A c \in Controllers : cpc[c] = "write" => typed[c] # None

\* The clock, wherever the loop is.
ClockAhead == pc \notin {"starting", "exited"} =>
                armed \/ pend["ALRM"] # None \/ (pc = "taken" /\ info[1] = "ALRM")

\* The loop reaches sigwaitinfo in inotify mode only past its own SIGCHLD.
TickAhead == /\ pc = "starting" => mode = CLASSIC
             /\ pc = "waiting" /\ mode = INOTIFY => pend["CHLD"] # None

IInv == TypeOK /\ WriteTyped /\ set = Awaited /\ ClockAhead /\ TickAhead

(* The signals are those that Number numbers.                              *)
LEMMA SignalNames ==
  Signals = {"HUP", "INT", "USR1", "USR2", "ALRM", "TERM", "CHLD"}
BY DEF Signals, Number
-----------------------------------------------------------------------------
LEMMA InitIInv == Init => IInv
<1> SUFFICES ASSUME Init PROVE IInv OBVIOUS
<1> USE SignalNames, PathsAssumption, BoundsAssumption
<1>1. TypeOK
  <2>1. src \in Seq(Names) /\ dst \in Seq(Names) /\ fifo \in Seq(Names)
    <3>1. <<>> \in Seq(Names)
      OBVIOUS
    <3>2. \A d \in Existing : d \in Seq(Names)
      OBVIOUS
    <3> QED BY <3>1, <3>2 DEF Init
  <2>2. dirs \subseteq Seq(Names)
    BY DEF Init
  <2>3. pend \in [Signals -> Int \cup {None}] /\ info \in Signals \X Int
    BY DEF Init
  <2>4. set \subseteq Signals
    BY DEF Init
  <2> QED BY <2>1, <2>2, <2>3, <2>4 DEF Init, TypeOK, CLASSIC, INOTIFY, Source, Target
<1>2. WriteTyped
  BY DEF Init, WriteTyped
<1>3. set = Awaited
  BY DEF Init, Awaited
<1>4. ClockAhead /\ TickAhead
  BY DEF Init, ClockAhead, TickAhead
<1> QED BY <1>1, <1>2, <1>3, <1>4 DEF IInv
-----------------------------------------------------------------------------
(* The daemon's steps.                                                     *)

(* The loop starts with the clock running.                                 *)
LEMMA StartIInv == ASSUME IInv, Start PROVE IInv'
<1> USE DEF Start, daemon, users
<1>1. TypeOK'
  BY SignalNames DEF IInv, TypeOK
<1>2. WriteTyped'
  BY DEF IInv, WriteTyped
<1>3. (set = Awaited)'
  BY SignalNames DEF IInv, TypeOK, Awaited
<1>4. ClockAhead' /\ TickAhead'
  BY SignalNames, BoundsAssumption DEF IInv, TypeOK, ClockAhead, TickAhead, CLASSIC, INOTIFY
<1> QED BY <1>1, <1>2, <1>3, <1>4 DEF IInv

(* A clock that stops has rung.                                            *)
LEMMA AlarmIInv == ASSUME IInv, Alarm PROVE IInv'
<1> USE DEF Alarm, daemon, users
<1>1. TypeOK'
  <2>1. pend' \in [Signals -> Int \cup {None}]
    BY SignalNames DEF IInv, TypeOK
  <2> QED BY <2>1 DEF IInv, TypeOK
<1>2. WriteTyped'
  BY DEF IInv, WriteTyped
<1>3. (set = Awaited)'
  BY SignalNames DEF IInv, TypeOK, Awaited
<1>4. ClockAhead' /\ TickAhead'
  BY SignalNames, BoundsAssumption DEF IInv, TypeOK, ClockAhead, TickAhead
<1> QED BY <1>1, <1>2, <1>3, <1>4 DEF IInv

(* Only the signal that is taken stops being pending.                      *)
LEMMA TakeIInv == ASSUME IInv, Take PROVE IInv'
<1> USE DEF Take, Waiting, daemon, users
<1>1. TypeOK'
  BY SignalNames DEF IInv, TypeOK
<1>2. WriteTyped'
  BY DEF IInv, WriteTyped
<1>3. (set = Awaited)'
  BY SignalNames DEF IInv, TypeOK, Awaited
<1>4. ClockAhead' /\ TickAhead'
  BY SignalNames, BoundsAssumption DEF IInv, TypeOK, ClockAhead, TickAhead
<1> QED BY <1>1, <1>2, <1>3, <1>4 DEF IInv

(* The interval is positive, so the clock runs again.                      *)
LEMMA HandleAlarmIInv == ASSUME IInv, HandleAlarm PROVE IInv'
<1> USE DEF HandleAlarm, Taken, MakeDst, daemon, users
<1>1. TypeOK'
  BY SignalNames DEF IInv, TypeOK
<1>2. WriteTyped'
  BY DEF IInv, WriteTyped
<1>3. (set = Awaited)'
  BY SignalNames DEF IInv, TypeOK, Awaited
<1>4. ClockAhead' /\ TickAhead'
  <2>1. delay > 0
    BY DEF IInv, TypeOK
  <2>2. armed'
    BY <2>1
  <2> QED BY <2>2 DEF IInv, ClockAhead, TickAhead
<1> QED BY <1>1, <1>2, <1>3, <1>4 DEF IInv

(* Copy changes nothing the invariant is about.                            *)
LEMMA CopyIInv == ASSUME IInv, Copy PROVE IInv'
<1> USE DEF Copy, daemon, users
<1>1. TypeOK'
  BY SignalNames DEF IInv, TypeOK
<1>2. WriteTyped'
  BY DEF IInv, WriteTyped
<1>3. (set = Awaited)'
  BY SignalNames DEF IInv, TypeOK, Awaited
<1>4. ClockAhead' /\ TickAhead'
  BY SignalNames, BoundsAssumption DEF IInv, TypeOK, ClockAhead, TickAhead
<1> QED BY <1>1, <1>2, <1>3, <1>4 DEF IInv

(* The interval stays positive.                                            *)
LEMMA IntervalIInv == ASSUME IInv, HandleInterval PROVE IInv'
<1> USE DEF HandleInterval, Taken, NewDelay, daemon, users
<1>1. TypeOK'
  BY SignalNames DEF IInv, TypeOK
<1>2. WriteTyped'
  BY DEF IInv, WriteTyped
<1>3. (set = Awaited)'
  BY SignalNames DEF IInv, TypeOK, Awaited
<1>4. ClockAhead' /\ TickAhead'
  BY SignalNames, BoundsAssumption DEF IInv, TypeOK, ClockAhead, TickAhead
<1> QED BY <1>1, <1>2, <1>3, <1>4 DEF IInv

(* HandleSource changes nothing the invariant is about.                    *)
LEMMA SourceIInv == ASSUME IInv, HandleSource PROVE IInv'
<1> USE DEF HandleSource, Taken, daemon, users
<1>1. TypeOK'
  BY SignalNames DEF IInv, TypeOK
<1>2. WriteTyped'
  BY DEF IInv, WriteTyped
<1>3. (set = Awaited)'
  BY SignalNames DEF IInv, TypeOK, Awaited
<1>4. ClockAhead' /\ TickAhead'
  BY SignalNames, BoundsAssumption DEF IInv, TypeOK, ClockAhead, TickAhead
<1> QED BY <1>1, <1>2, <1>3, <1>4 DEF IInv

(* HandleTarget changes nothing the invariant is about.                    *)
LEMMA TargetIInv == ASSUME IInv, HandleTarget PROVE IInv'
<1> USE DEF HandleTarget, Taken, daemon, users
<1>1. TypeOK'
  BY SignalNames DEF IInv, TypeOK
<1>2. WriteTyped'
  BY DEF IInv, WriteTyped
<1>3. (set = Awaited)'
  BY SignalNames DEF IInv, TypeOK, Awaited
<1>4. ClockAhead' /\ TickAhead'
  BY SignalNames, BoundsAssumption DEF IInv, TypeOK, ClockAhead, TickAhead
<1> QED BY <1>1, <1>2, <1>3, <1>4 DEF IInv

(* The set follows the mode.                                               *)
LEMMA ModeIInv == ASSUME IInv, HandleMode PROVE IInv'
<1> USE DEF HandleMode, Taken, ModeSet, CLASSIC, INOTIFY, daemon, users
<1>1. TypeOK'
  <2>1. config' \in BOOLEAN /\ mode' \in {CLASSIC, INOTIFY}
    BY DEF IInv, TypeOK
  <2>2. set' \subseteq Signals
    <3>1. CASE mode = info[2]
      BY <3>1 DEF IInv, TypeOK
    <3>2. CASE mode # info[2] /\ mode' = INOTIFY
      <4>1. set' = ModeSet(INOTIFY)
        BY <3>2
      <4>2. set \subseteq Signals /\ "CHLD" \in Signals
        BY SignalNames DEF IInv, TypeOK
      <4> QED BY ONLY <4>1, <4>2 DEF ModeSet
    <3>3. CASE mode # info[2] /\ mode' # INOTIFY
      BY <3>3, SignalNames DEF IInv, TypeOK
    <3> QED BY <3>1, <3>2, <3>3
  <2> QED BY <2>1, <2>2 DEF IInv, TypeOK
<1>2. WriteTyped'
  BY DEF IInv, WriteTyped
<1>3. (set = Awaited)'
  BY SignalNames DEF IInv, TypeOK, Awaited
<1>4. ClockAhead' /\ TickAhead'
  BY SignalNames, BoundsAssumption DEF IInv, TypeOK, ClockAhead, TickAhead
<1> QED BY <1>1, <1>2, <1>3, <1>4 DEF IInv

(* The set follows run.                                                    *)
LEMMA StartStopIInv == ASSUME IInv, HandleStartStop PROVE IInv'
<1> USE DEF HandleStartStop, Taken, StartStopSet, CLASSIC, INOTIFY, daemon, users
<1>1. TypeOK'
  BY SignalNames DEF IInv, TypeOK
<1>2. WriteTyped'
  BY DEF IInv, WriteTyped
<1>3. (set = Awaited)'
  BY SignalNames DEF IInv, TypeOK, Awaited
<1>4. ClockAhead' /\ TickAhead'
  BY SignalNames, BoundsAssumption DEF IInv, TypeOK, ClockAhead, TickAhead
<1> QED BY <1>1, <1>2, <1>3, <1>4 DEF IInv

(* HandleTick changes nothing the invariant is about.                      *)
LEMMA TickIInv == ASSUME IInv, HandleTick PROVE IInv'
<1> USE DEF HandleTick, Taken, daemon, users
<1>1. TypeOK'
  BY SignalNames DEF IInv, TypeOK
<1>2. WriteTyped'
  BY DEF IInv, WriteTyped
<1>3. (set = Awaited)'
  BY SignalNames DEF IInv, TypeOK, Awaited
<1>4. ClockAhead' /\ TickAhead'
  BY SignalNames, BoundsAssumption DEF IInv, TypeOK, ClockAhead, TickAhead
<1> QED BY <1>1, <1>2, <1>3, <1>4 DEF IInv

(* HandleTerm changes nothing the invariant is about.                      *)
LEMMA TermIInv == ASSUME IInv, HandleTerm PROVE IInv'
<1> USE DEF HandleTerm, Taken, daemon, users
<1>1. TypeOK'
  BY SignalNames DEF IInv, TypeOK
<1>2. WriteTyped'
  BY DEF IInv, WriteTyped
<1>3. (set = Awaited)'
  BY SignalNames DEF IInv, TypeOK, Awaited
<1>4. ClockAhead' /\ TickAhead'
  BY SignalNames, BoundsAssumption DEF IInv, TypeOK, ClockAhead, TickAhead
<1> QED BY <1>1, <1>2, <1>3, <1>4 DEF IInv

(* The loop sleeps again only after it has sent itself SIGCHLD.            *)
LEMMA InotifyIInv == ASSUME IInv, Inotify PROVE IInv'
<1> USE DEF Inotify, Post, MakeDst, daemon, users
<1>1. TypeOK'
  <2>1. pend' \in [Signals -> Int \cup {None}]
    BY SignalNames DEF IInv, TypeOK
  <2>2. watched' \in Seq(Names) \cup {None}
    BY DEF IInv, TypeOK
  <2>3. dirs' \subseteq Seq(Names)
    BY DEF IInv, TypeOK
  <2> QED BY <2>1, <2>2, <2>3 DEF IInv, TypeOK
<1>2. WriteTyped'
  BY DEF IInv, WriteTyped
<1>3. (set = Awaited)'
  BY SignalNames DEF IInv, TypeOK, Awaited
<1>4. ClockAhead' /\ TickAhead'
  BY SignalNames, BoundsAssumption DEF IInv, TypeOK, ClockAhead, TickAhead
<1> QED BY <1>1, <1>2, <1>3, <1>4 DEF IInv

(* NoInotify changes nothing the invariant is about.                       *)
LEMMA NoInotifyIInv == ASSUME IInv, NoInotify PROVE IInv'
<1> USE DEF NoInotify, CLASSIC, INOTIFY, daemon, users
<1>1. TypeOK'
  BY SignalNames DEF IInv, TypeOK
<1>2. WriteTyped'
  BY DEF IInv, WriteTyped
<1>3. (set = Awaited)'
  BY SignalNames DEF IInv, TypeOK, Awaited
<1>4. ClockAhead' /\ TickAhead'
  BY SignalNames, BoundsAssumption DEF IInv, TypeOK, ClockAhead, TickAhead
<1> QED BY <1>1, <1>2, <1>3, <1>4 DEF IInv
-----------------------------------------------------------------------------
(* The controllers and the others.                                         *)

(* A signal that is sent becomes pending, or ends a daemon that starts.    *)
LEMMA SendIInv ==
  ASSUME IInv, NEW s \in Signals, NEW n \in Int, Send(s, n), UNCHANGED <<daemon, armed>>
  PROVE  /\ pend' \in [Signals -> Int \cup {None}]
         /\ pc' = pc \/ (pc = "starting" /\ pc' = "exited")
         /\ (set = Awaited)' /\ ClockAhead' /\ TickAhead'
<1> USE DEF Send, Post, daemon
<1>1. pend' \in [Signals -> Int \cup {None}]
  BY DEF IInv, TypeOK
<1>2. pc' = pc \/ (pc = "starting" /\ pc' = "exited")
  OBVIOUS
<1>3. \A t \in Signals : pend[t] # None => pend'[t] # None
  BY BoundsAssumption DEF IInv, TypeOK
<1>4. (set = Awaited)'
  BY DEF IInv, Awaited
<1>5. ClockAhead' /\ TickAhead'
  BY <1>2, <1>3, SignalNames DEF IInv, ClockAhead, TickAhead
<1> QED BY <1>1, <1>2, <1>4, <1>5

(* A command leaves the controller in the menu, about to write, or done.   *)
LEMMA CommandIInv ==
  ASSUME IInv, NEW c \in Controllers, NEW s \in Signals, NEW n \in Int,
         NEW next \in {"menu", "write", "done"}, Command(c, s, n, next),
         typed' = typed \/ \E w \in {Source, Target}, d \in Paths :
                             typed' = [typed EXCEPT ![c] = <<w, d>>],
         next = "write" => typed'[c] # None
  PROVE  IInv'
<1> USE DEF Command, Step
<1>1. /\ pend' \in [Signals -> Int \cup {None}]
      /\ pc' = pc \/ (pc = "starting" /\ pc' = "exited")
      /\ (set = Awaited)' /\ ClockAhead' /\ TickAhead'
  BY SendIInv
<1>2. cpc' \in [Controllers -> {"start", "menu", "write", "done"}]
  BY DEF IInv, TypeOK
<1>3. typed' \in [Controllers -> ({Source, Target} \X Paths) \cup {None}]
  BY DEF IInv, TypeOK
<1>4. commands' \in 0 .. MaxCommands
  BY BoundsAssumption DEF IInv, TypeOK
<1>5. TypeOK'
  BY <1>1, <1>2, <1>3, <1>4 DEF IInv, TypeOK, daemon
<1>6. WriteTyped'
  <2> SUFFICES ASSUME NEW d \in Controllers, cpc'[d] = "write" PROVE typed'[d] # None
    BY DEF WriteTyped
  <2>1. CASE d = c
    BY <2>1 DEF IInv, TypeOK
  <2>2. CASE d # c
    BY <2>2 DEF IInv, TypeOK, WriteTyped
  <2> QED BY <2>1, <2>2
<1> QED BY <1>1, <1>5, <1>6 DEF IInv

(* The commands of the menu are commands in this sense.                    *)
LEMMA MenuIInv ==
  ASSUME IInv, NEW c \in Controllers,
         StartStop(c) \/ ChangeInterval(c) \/ ChangeMode(c) \/ KillDaemon(c)
  PROVE  IInv'
<1> USE SignalNames, BoundsAssumption
<1>1. CASE StartStop(c)
  BY <1>1, CommandIInv DEF StartStop
<1>2. CASE ChangeInterval(c)
  <2>1. PICK n \in Intervals : Command(c, "USR1", n, "menu") /\ UNCHANGED typed
    BY <1>2 DEF ChangeInterval
  <2>2. n \in Int
    OBVIOUS
  <2> QED BY <2>1, <2>2, CommandIInv
<1>3. CASE ChangeMode(c)
  <2>1. PICK m \in {CLASSIC, INOTIFY} : Command(c, "HUP", m, "menu") /\ UNCHANGED typed
    BY <1>3 DEF ChangeMode
  <2>2. m \in Int
    BY DEF CLASSIC, INOTIFY
  <2> QED BY <2>1, <2>2, CommandIInv
<1>4. CASE KillDaemon(c)
  BY <1>4, CommandIInv DEF KillDaemon
<1> QED BY <1>1, <1>2, <1>3, <1>4

LEMMA ChangeDirectoryIInv ==
  ASSUME IInv, NEW c \in Controllers, ChangeDirectory(c)
  PROVE  IInv'
<1>1. PICK w \in {Source, Target}, d \in Paths :
        /\ Command(c, "USR2", w, "write")
        /\ typed' = [typed EXCEPT ![c] = <<w, d>>]
  BY DEF ChangeDirectory
<1>2. w \in Int /\ "USR2" \in Signals
  BY SignalNames DEF Source, Target
<1>3. typed'[c] = <<w, d>>
  BY <1>1 DEF IInv, TypeOK
<1>4. <<w, d>> # None
  BY <1>2, BoundsAssumption
<1> QED BY <1>1, <1>2, <1>3, <1>4, CommandIInv

(* The other steps of a controller, and the removal of a directory, do not *)
(* touch what the loop depends on.                                         *)
LEMMA CheckPidIInv == ASSUME IInv, NEW c \in Controllers, CheckPid(c) PROVE IInv'
<1>1. /\ pend' \in [Signals -> Int \cup {None}]
      /\ pc' = pc \/ (pc = "starting" /\ pc' = "exited")
      /\ (set = Awaited)' /\ ClockAhead' /\ TickAhead'
  BY SendIInv, SignalNames DEF CheckPid
<1>2. cpc' = [cpc EXCEPT ![c] = "menu"]
  BY DEF CheckPid, Step
<1>3. TypeOK'
  BY <1>1, <1>2 DEF IInv, TypeOK, CheckPid, daemon
<1>4. WriteTyped'
  BY <1>2 DEF IInv, TypeOK, WriteTyped, CheckPid
<1> QED BY <1>1, <1>3, <1>4 DEF IInv

LEMMA NoDaemonIInv == ASSUME IInv, NEW c \in Controllers, NoDaemon(c) PROVE IInv'
<1> USE DEF NoDaemon, daemon
<1>1. TypeOK'
  BY DEF IInv, TypeOK
<1>2. WriteTyped'
  BY DEF IInv, TypeOK, WriteTyped
<1>3. (set = Awaited)' /\ ClockAhead' /\ TickAhead'
  BY DEF IInv, Awaited, ClockAhead, TickAhead
<1> QED BY <1>1, <1>2, <1>3 DEF IInv

LEMMA WritePathIInv == ASSUME IInv, NEW c \in Controllers, WritePath(c) PROVE IInv'
<1> USE DEF WritePath, Step, daemon
<1>1. typed[c] \in {Source, Target} \X Paths
  BY DEF IInv, TypeOK, WriteTyped
<1>2. typed[c][1] \in {Source, Target} /\ typed[c][2] \in Paths
  BY <1>1
<1>3. TypeOK'
  <2>1. typed[c][2] \in Seq(Names)
    BY <1>2, PathsAssumption
  <2>2. fifo' \in Seq(Names)
    BY <2>1 DEF IInv, TypeOK
  <2>3. asked' \in [{Source, Target} -> Paths \cup {None}]
    BY <1>2 DEF IInv, TypeOK
  <2>4. typed' \in [Controllers -> ({Source, Target} \X Paths) \cup {None}]
    BY DEF IInv, TypeOK
  <2>5. cpc' \in [Controllers -> {"start", "menu", "write", "done"}]
    BY DEF IInv, TypeOK
  <2> QED BY <2>2, <2>3, <2>4, <2>5 DEF IInv, TypeOK
<1>4. WriteTyped'
  BY DEF IInv, TypeOK, WriteTyped
<1>5. (set = Awaited)' /\ ClockAhead' /\ TickAhead'
  BY DEF IInv, Awaited, ClockAhead, TickAhead
<1> QED BY <1>3, <1>4, <1>5 DEF IInv

LEMMA RemoveIInv == ASSUME IInv, Remove PROVE IInv'
<1> USE DEF Remove, daemon, users
<1>1. dirs' \subseteq dirs
  OBVIOUS
<1>2. TypeOK'
  BY <1>1, BoundsAssumption DEF IInv, TypeOK
<1>3. WriteTyped'
  BY DEF IInv, WriteTyped
<1>4. (set = Awaited)' /\ ClockAhead' /\ TickAhead'
  BY DEF IInv, Awaited, ClockAhead, TickAhead
<1> QED BY <1>2, <1>3, <1>4 DEF IInv
-----------------------------------------------------------------------------
(* Every step of the daemon, the clock, the controllers and the others     *)
(* keeps the invariant.                                                    *)
THEOREM InductiveInvariant == Spec => []IInv
<1>1. Init => IInv
  BY InitIInv
<1>2. IInv /\ [Next]_vars => IInv'
  <2> SUFFICES ASSUME IInv, [Next]_vars PROVE IInv'
    OBVIOUS
  <2>1. CASE Daemon
    BY <2>1, StartIInv, TakeIInv, HandleAlarmIInv, CopyIInv, IntervalIInv, SourceIInv,
       TargetIInv, ModeIInv, StartStopIInv, TickIInv, TermIInv, InotifyIInv,
       NoInotifyIInv DEF Daemon, Handle
  <2>2. CASE Alarm
    BY <2>2, AlarmIInv
  <2>3. CASE Remove
    BY <2>3, RemoveIInv
  <2>4. ASSUME NEW c \in Controllers, Controller(c) PROVE IInv'
    BY <2>4, CheckPidIInv, NoDaemonIInv, MenuIInv, ChangeDirectoryIInv, WritePathIInv
       DEF Controller
  <2>5. CASE UNCHANGED vars
    BY <2>5 DEF vars, daemon, users, IInv, TypeOK, WriteTyped, Awaited, ClockAhead, TickAhead
  <2> QED BY <2>1, <2>2, <2>3, <2>4, <2>5 DEF Next
<1> QED BY <1>1, <1>2, PTL DEF Spec

(* The variables keep their types; in particular the interval stays        *)
(* positive, so that alarm never stops the clock.                          *)
THEOREM TypeCorrect == Spec => []TypeOK
<1>1. IInv => TypeOK
  BY DEF IInv
<1> QED BY <1>1, InductiveInvariant, PTL

(* sigwaitinfo waits for what mode and run ask for, whatever the order in  *)
(* which controllers changed them.                                         *)
THEOREM SetFollowsMode == Spec => []SetMatches
<1>1. IInv => SetMatches
  BY DEF IInv, SetMatches
<1> QED BY <1>1, InductiveInvariant, PTL

(* The loop never sleeps without a next backup ahead.                      *)
THEOREM BackupStaysAhead == Spec => []NextBackupAhead
<1>1. IInv => NextBackupAhead
  BY DEF IInv, NextBackupAhead, ClockAhead, TickAhead
<1> QED BY <1>1, InductiveInvariant, PTL
=============================================================================
