--------------------------- MODULE SignalTransfer ---------------------------
(***************************************************************************)
(* signals/sender.c and signals/receiver.c: a file is sent as signals.     *)
(* SIGUSR1 carries its size, each SIGUSR2 carries Word bytes, and the      *)
(* receiver answers each with a kill of the same signal.  The signals are  *)
(* blocked and taken with sigwaitinfo; they are standard signals, so one   *)
(* that is sent while the same signal is pending is lost.  SIGINT runs a   *)
(* handler between any two steps.                                          *)
(***************************************************************************)
EXTENDS Integers, Sequences, FiniteSets

CONSTANTS Senders,   \* the processes that run sender.c
          Receiver,  \* the process that runs receiver.c
          None,      \* no signal, no process
          Word,      \* the bytes in a signal's value: sizeof(void*)
          IntWidth,  \* the bits of si_int, from which the size is read
          Sizes,     \* the file sizes
          MaxInts    \* how often a user presses Ctrl-C

ASSUME SendersAssumption == Receiver \notin Senders /\ None \notin Senders \cup {Receiver}
ASSUME WidthAssumption   == Word \in Nat \ {0} /\ IntWidth \in Nat \ {0}
ASSUME PowerAssumption   == /\ 2 ^ (IntWidth - 1) \in Nat \ {0} /\ 2 ^ IntWidth = 2 * 2 ^ (IntWidth - 1)
                            /\ Word <= 2 ^ IntWidth      \* 8 bytes, and an int of 32 bits
ASSUME SizesAssumption   == Sizes \subseteq Nat \ {0}   \* mmap refuses an empty file
ASSUME IntsAssumption    == MaxInts \in Nat

VARIABLES status,    \* status[x]: running, zombie, or gone once it is reaped
          pend,      \* pend[x][sig]: the pending signal, None if there is none
          int,       \* the processes with SIGINT pending
          ints,      \* how often Ctrl-C was pressed
          size,      \* size[s]: the size of the file of s
          pc,        \* pc[x]: what x does next
          index,     \* index[s]: how many bytes s has sent
          info,      \* info[x]: the signal x took last
          result,    \* result[s]: how s exited
          sender,    \* sender_pid of the receiver
          rsize,     \* size of the receiver
          received   \* the bytes in the receiver's file; its length is index

vars == <<status, pend, int, ints, size, pc, index, info, result, sender, rsize, received>>
rvars == <<sender, rsize, received>>        \* the receiver's
svars == <<size, index, result>>            \* the senders'

Procs   == Senders \cup {Receiver}
Signals == {"USR1", "USR2", "TERM"}

File(s) == [k \in 1 .. size[s] |-> <<s, k>>]

\* faulty: the last byte of the file is not sent
ValueShort(s, i) == [k \in 1 .. Word |-> IF i + k < size[s] THEN <<s, i + k>> ELSE None]

\* The signal's value for the bytes after the first i: what lies beyond the
\* end of the file is 0.
Value(s, i) == [k \in 1 .. Word |-> IF i + k <= size[s] THEN <<s, i + k>> ELSE None]

Running(x) == status[x] = "running"
Smaller(a, b) == IF a < b THEN a ELSE b

Init == /\ status = [x \in Procs |-> "running"]
        /\ pend = [x \in Procs |-> [sig \in Signals |-> None]]
        /\ int = {} /\ ints = 0
        /\ size \in [Senders -> Sizes]
        /\ pc = [x \in Procs |-> IF x = Receiver THEN "loop1" ELSE "send_size"]
        /\ index = [s \in Senders |-> 0]
        /\ info = [x \in Procs |-> None]
        /\ result = [s \in Senders |-> None]
        /\ sender = None /\ rsize = 0 /\ received = <<>>
-----------------------------------------------------------------------------
(* Signals.  A standard signal that is pending already is not queued again; *)
(* one sent to a zombie is lost, and the call succeeds.                     *)

Signal(sig, from, code, val) == [sig |-> sig, pid |-> from, code |-> code, val |-> val]

Post(x, i) == pend' = IF Running(x) /\ pend[x][i.sig] = None
                      THEN [pend EXCEPT ![x][i.sig] = i] ELSE pend

Kill(x, sig, from)       == Post(x, Signal(sig, from, "user", None))
Sigqueue(x, sig, from, v) == Post(x, Signal(sig, from, "queue", v))

\* sigwaitinfo takes any of the pending signals.
Take(x, sig) == /\ Running(x)
                /\ pend[x][sig] # None
                /\ pend' = [pend EXCEPT ![x][sig] = None]

Goto(x, label) == pc' = [pc EXCEPT ![x] = label]
At(x, label)   == Running(x) /\ pc[x] = label
Exit(x)        == status' = [status EXCEPT ![x] = "zombie"]
-----------------------------------------------------------------------------
(* The sender. *)

Finish(s, r) == Exit(s) /\ result' = [result EXCEPT ![s] = r]

\* sigqueue fails, and the sender returns, when the receiver was reaped.
SendFails(s) == /\ Running(s) /\ pc[s] \in {"send_size", "send_word", "send_rest"}
                /\ status[Receiver] = "gone"
                /\ Finish(s, "error")
                /\ UNCHANGED <<pend, int, ints, size, pc, index, info, rvars>>

SendSize(s) == /\ At(s, "send_size") /\ status[Receiver] # "gone"
               /\ Sigqueue(Receiver, "USR1", s, size[s])
               /\ Goto(s, "wait_size")
               /\ UNCHANGED <<status, int, ints, svars, info, rvars>>

\* faulty: the last full word is taken for the rest
AfterAckShort(s) == IF index[s] + 2 * Word - 1 < size[s] THEN "send_word" ELSE "send_rest"

AfterAck(s) == IF index[s] + Word - 1 < size[s] THEN "send_word" ELSE "send_rest"

\* faulty: the next full word is sent without waiting for the acknowledgement
SendDataNoWait(s) ==
  /\ Running(s) /\ pc[s] \in {"send_word", "send_rest"} /\ status[Receiver] # "gone"
  /\ Sigqueue(Receiver, "USR2", s, Value(s, index[s]))
  /\ index' = [index EXCEPT ![s] = Smaller(@ + Word, size[s])]
  /\ Goto(s, IF pc[s] = "send_rest" THEN "wait_rest"
             ELSE IF index'[s] + Word - 1 < size[s] THEN "send_word" ELSE "send_rest")
  /\ UNCHANGED <<status, int, ints, size, info, result, rvars>>

\* The next word of the file, or the rest, which is partial or empty.
SendData(s) ==
  /\ Running(s) /\ pc[s] \in {"send_word", "send_rest"} /\ status[Receiver] # "gone"
  /\ Sigqueue(Receiver, "USR2", s, Value(s, index[s]))
  /\ index' = [index EXCEPT ![s] = Smaller(@ + Word, size[s])]
  /\ Goto(s, IF pc[s] = "send_word" THEN "wait_word" ELSE "wait_rest")
  /\ UNCHANGED <<status, int, ints, size, info, result, rvars>>

Ack(s, i) == i.pid = Receiver /\ i.sig = IF pc[s] = "wait_size" THEN "USR1" ELSE "USR2"

\* send_data clears info before each wait; a SIGINT may come in between.
Clear(s) == /\ Running(s) /\ pc[s] \in {"wait_word", "wait_rest"} /\ info[s] # None
            /\ info' = [info EXCEPT ![s] = None]
            /\ UNCHANGED <<status, pend, int, ints, svars, pc, rvars>>

\* sigwaitinfo of send_size, or of send_data once info is cleared
Waiting(s) == \/ pc[s] = "wait_size"
              \/ pc[s] \in {"wait_word", "wait_rest"} /\ info[s] = None

\* What is not the acknowledgement is dropped, and the sender waits again.
TakeAck(s) ==
  /\ Waiting(s)
  /\ \E sig \in {"USR1", "USR2"} :
       LET i == pend[s][sig] IN
       /\ Take(s, sig)
       /\ info' = [info EXCEPT ![s] = i]
       /\ Goto(s, IF ~Ack(s, i) THEN pc[s]
                  ELSE IF pc[s] = "wait_rest" THEN "end" ELSE AfterAck(s))
  /\ UNCHANGED <<status, int, ints, svars, rvars>>

\* The receiver answers a sender it does not want with SIGTERM.
TakeTerm(s) ==
  /\ Waiting(s)
  /\ Take(s, "TERM")
  /\ Finish(s, "error")
  /\ UNCHANGED <<int, ints, size, pc, index, info, rvars>>

\* The last kill fails when the receiver was reaped, and the sender then
\* reports an error although the file is complete.
End(s) == /\ At(s, "end")
          /\ Finish(s, IF status[Receiver] = "gone" THEN "error" ELSE "ok")
          /\ Kill(Receiver, "TERM", s)
          /\ UNCHANGED <<int, ints, size, pc, index, info, rvars>>
-----------------------------------------------------------------------------
(* The receiver. *)

ReceiverTakes(sig, from, to) ==
  /\ At(Receiver, from)
  /\ Take(Receiver, sig)
  /\ info' = [info EXCEPT ![Receiver] = pend[Receiver][sig]]
  /\ Goto(Receiver, to)
  /\ UNCHANGED <<status, int, ints, svars, rvars>>

FromSender(i) == i # None /\ i.pid = sender /\ i.code = "queue"

\* The first loop ends with the first SIGUSR1, the second with the last word.
TakeSize   == ReceiverTakes("USR1", "loop1", "usr1")
TakeOther  == ReceiverTakes("USR1", "loop2", "reject")
TakeWord   == ReceiverTakes("USR2", "loop2", "usr2")
TakeIgnored == \/ \E sig \in {"USR2", "TERM"} : ReceiverTakes(sig, "loop1", "loop1")
               \/ ReceiverTakes("TERM", "loop2", "loop2")

\* size_t size = (int) si_int
Truncated(n) == LET m == n % (2 ^ IntWidth)
                IN  IF m < 2 ^ (IntWidth - 1) THEN m ELSE m - 2 ^ IntWidth

\* handler_USR1: the file is resized and mapped, which may fail, and does
\* when the size is 0 or negative.
Accept ==
  /\ At(Receiver, "usr1")
  /\ sender' = info[Receiver].pid
  /\ rsize'  = Truncated(info[Receiver].val)
  /\ \/ /\ rsize' > 0
        /\ Goto(Receiver, "ack1")
        /\ UNCHANGED <<status, pend>>
     \/ /\ Exit(Receiver)
        /\ Kill(info[Receiver].pid, "TERM", Receiver)
        /\ UNCHANGED pc
  /\ UNCHANGED <<int, ints, svars, info, received>>

\* faulty: the second sender is answered like the first
RejectAcks == /\ At(Receiver, "reject")
              /\ Kill(info[Receiver].pid, "USR1", Receiver)
              /\ Goto(Receiver, "loop2")
              /\ UNCHANGED <<status, int, ints, svars, info, rvars>>

Reject == /\ At(Receiver, "reject")
          /\ Kill(info[Receiver].pid, "TERM", Receiver)
          /\ Goto(Receiver, "loop2")
          /\ UNCHANGED <<status, int, ints, svars, info, rvars>>

\* faulty: the last word is stored whole
StoredWhole(val) == received \o val

Stored(val) == IF Len(received) + Word - 1 < rsize
               THEN received \o val
               ELSE received \o SubSeq(val, 1, rsize - Len(received))

\* handler_USR2
Store == /\ At(Receiver, "usr2")
         /\ received' = IF FromSender(info[Receiver]) THEN Stored(info[Receiver].val)
                                                      ELSE received
         /\ Goto(Receiver, "ack2")
         /\ UNCHANGED <<status, pend, int, ints, svars, info, sender, rsize>>

Acknowledge == /\ Running(Receiver) /\ pc[Receiver] \in {"ack1", "ack2"}
               /\ Kill(sender, IF pc[Receiver] = "ack1" THEN "USR1" ELSE "USR2", Receiver)
               /\ Goto(Receiver, IF Len(received) = rsize THEN "done" ELSE "loop2")
               /\ UNCHANGED <<status, int, ints, svars, info, rvars>>

Done == /\ At(Receiver, "done")
        /\ Exit(Receiver)
        /\ UNCHANGED <<pend, int, ints, svars, pc, info, rvars>>
-----------------------------------------------------------------------------
(* SIGINT, and the end of a process. *)

CtrlC(x) == /\ Running(x) /\ ints < MaxInts
            /\ int' = int \cup {x}
            /\ ints' = ints + 1
            /\ UNCHANGED <<status, pend, svars, pc, info, rvars>>

\* faulty: the sender is not told
ReceiverIntSilent ==
  /\ Running(Receiver) /\ Receiver \in int
  /\ IF sender # None /\ FromSender(info[Receiver]) THEN Exit(Receiver) ELSE UNCHANGED status
  /\ int' = int \ {Receiver}
  /\ UNCHANGED <<pend, ints, svars, pc, info, rvars>>

\* handler_INT.  sigwaitinfo then returns -1 and the info of the last signal
\* is looked at once more, with the same outcome.
\* kill(0, SIGTERM) when there is no sender yet: the receiver's own group.
ReceiverInt ==
  /\ Running(Receiver) /\ Receiver \in int
  /\ Kill(IF sender = None THEN Receiver ELSE sender, "TERM", Receiver)
  /\ IF sender # None /\ FromSender(info[Receiver]) THEN Exit(Receiver) ELSE UNCHANGED status
  /\ int' = int \ {Receiver}
  /\ UNCHANGED <<ints, svars, pc, info, rvars>>

\* The sender passes the SIGINT on, and exits if the last signal it took was
\* the receiver's.
SenderInt(s) ==
  /\ Running(s) /\ s \in int
  /\ int' = (int \ {s}) \cup (IF Running(Receiver) THEN {Receiver} ELSE {})
  /\ IF info[s] # None /\ info[s].pid = Receiver
     THEN Finish(s, "error") ELSE UNCHANGED <<status, result>>
  /\ UNCHANGED <<pend, ints, size, pc, index, info, rvars>>

Reap(x) == /\ status[x] = "zombie"
           /\ status' = [status EXCEPT ![x] = "gone"]
           /\ UNCHANGED <<pend, int, ints, svars, pc, info, rvars>>

SenderStep(s) == SendFails(s) \/ SendSize(s) \/ SendData(s) \/ Clear(s) \/ TakeAck(s)
                 \/ TakeTerm(s) \/ End(s) \/ SenderInt(s)

ReceiverStep == TakeSize \/ TakeOther \/ TakeWord \/ TakeIgnored \/ Accept \/ Reject \/ Store
                \/ Acknowledge \/ Done \/ ReceiverInt

Next == \/ \E s \in Senders : SenderStep(s)
        \/ ReceiverStep
        \/ \E x \in Procs : CtrlC(x) \/ Reap(x)

Spec == Init /\ [][Next]_vars

(* The two programs run; nobody has to press Ctrl-C or to reap a process.  *)
FairSpec == Spec /\ WF_vars(ReceiverStep) /\ \A s \in Senders : WF_vars(SenderStep(s))
-----------------------------------------------------------------------------
Info == [sig : Signals, pid : Procs, code : {"user", "queue"}, val : {None}]
        \cup [sig : {"USR1"}, pid : Senders, code : {"queue"}, val : Sizes]
        \cup [sig : {"USR2"}, pid : Senders, code : {"queue"},
              val : [1 .. Word -> (Senders \X Nat) \cup {None}]]

ASSUME NoneAssumption == None \notin Info \cup {"ok", "error"}

TypeOK ==
  /\ status \in [Procs -> {"running", "zombie", "gone"}]
  /\ \A x \in Procs : DOMAIN pend[x] = Signals
  /\ int \subseteq Procs /\ ints \in 0 .. MaxInts
  /\ size \in [Senders -> Sizes]
  /\ \A s \in Senders : index[s] \in 0 .. size[s]
  /\ pc \in [Procs -> {"loop1", "usr1", "ack1", "loop2", "reject", "usr2", "ack2", "done",
                      "send_size", "wait_size", "send_word", "wait_word", "send_rest",
                      "wait_rest", "end"}]
  /\ result \in [Senders -> {None, "ok", "error"}]
  /\ sender \in Senders \cup {None}
  /\ rsize \in -(2 ^ (IntWidth - 1)) .. 2 ^ (IntWidth - 1) - 1
  /\ \A k \in DOMAIN received : received[k] \in Senders \X Nat

(* What the receiver has written is the beginning of the file of the one   *)
(* sender it accepted, whatever other senders and SIGINTs do meanwhile.    *)
PrefixCorrect ==
  sender = None \/ SubSeq(File(sender), 1, Len(received)) = received

(* A word is pending at the receiver only while its sender waits for the   *)
(* answer and no answer is under way, so no word meets another one pending *)
(* and is lost; until the receiver has all it expects, the sender is never *)
(* more than one word ahead.                                               *)
StopAndWait ==
  /\ pend[Receiver]["USR2"] # None =>
       /\ pend[Receiver]["USR2"].pid = sender
       /\ pc[sender] \in {"wait_word", "wait_rest"}
       /\ pend[sender]["USR2"] = None
       /\ pc[Receiver] \notin {"usr2", "ack2"}
  /\ sender # None /\ Running(Receiver) /\ pc[Receiver] # "done" =>
       index[sender] - Len(received) \in 0 .. Word

(* "Protection against launching several senders" (README.md): only the    *)
(* accepted sender gets past the exchange of the size.                     *)
OneSender ==
  \A s \in Senders : pc[s] \notin {"send_size", "wait_size"} => s = sender

(* A sender that reports success has transferred its whole file, even if   *)
(* the size was truncated to si_int.                                       *)
OkMeansComplete == \A s \in Senders : result[s] = "ok" => received = File(s)

(* "When one of the parties dies, the second also dies" (README.md).       *)
DeathPropagates ==
  /\ \A s \in Senders : (sender = s /\ ~Running(s)) ~> ~Running(Receiver)
  /\ \A s \in Senders : ~Running(Receiver) ~> ~Running(s)
=============================================================================
