------------------------ MODULE SignalTransferProofs ------------------------
(***************************************************************************)
(* Safety of the transfer for any senders, any sizes and widths, and any   *)
(* number of SIGINTs.                                                      *)
(***************************************************************************)
EXTENDS SignalTransfer, SequenceTheorems, TLAPS

RLabels == {"loop1", "usr1", "ack1", "loop2", "reject", "usr2", "ack2", "done"}
SLabels == {"send_size", "wait_size", "send_word", "wait_word", "send_rest", "wait_rest", "end"}

BaseInv ==
  /\ status \in [Procs -> {"running", "zombie", "gone"}]
  /\ pend \in [Procs -> [Signals -> Info \cup {None}]] /\ info \in [Procs -> Info \cup {None}]
  /\ int \subseteq Procs /\ ints \in 0 .. MaxInts
  /\ size \in [Senders -> Sizes]
  /\ index \in [Senders -> Nat] /\ \A s \in Senders : index[s] <= size[s]
  /\ pc \in [Procs -> RLabels \cup SLabels] /\ pc[Receiver] \in RLabels
  /\ \A s \in Senders : pc[s] \in SLabels
  /\ result \in [Senders -> {None, "ok", "error"}]
  /\ sender \in Senders \cup {None}
  /\ rsize \in -(2 ^ (IntWidth - 1)) .. 2 ^ (IntWidth - 1) - 1
  /\ received \in Seq(Senders \X Nat)

N == Len(received)
Asks(i) == i.pid \in Senders /\ i.code = "queue" /\ i.val = size[i.pid] /\ pc[i.pid] = "wait_size"
NextWord(i) == i.pid = sender /\ i.code = "queue" /\ i.val = Value(sender, N)

Strangers == \A s \in Senders : s # sender =>
  /\ pc[s] \in {"send_size", "wait_size"} /\ index[s] = 0 /\ result[s] # "ok"
  /\ pend[s]["USR1"] = None /\ pend[s]["USR2"] = None

Unasked ==
  /\ sender = None => /\ Running(Receiver) /\ pc[Receiver] \in {"loop1", "usr1"} /\ received = <<>>
                      /\ pend[Receiver]["USR2"] = None
                      /\ pend[Receiver]["USR1"] # None => Asks(pend[Receiver]["USR1"])
                      /\ pc[Receiver] = "usr1" => Asks(info[Receiver])
  /\ sender # None => /\ pc[Receiver] # "loop1" /\ (Running(Receiver) => pc[Receiver] # "usr1")

WrittenOf(a) ==
  /\ N <= size[a] /\ \A k \in 1 .. N : received[k] = <<a, k>>
  /\ pc[Receiver] \in {"ack1", "loop2", "reject", "usr2"} => N < rsize
  /\ pc[Receiver] \in {"ack2", "done"} => N <= rsize
  /\ pc[Receiver] # "usr1" => rsize = size[a] \/ rsize + Word <= size[a]

TokenOf(a) ==
  /\ pc[a] # "send_size"
  /\ pc[a] = "wait_size" =>
       /\ index[a] = 0 /\ N = 0 /\ pend[a]["USR2"] = None /\ pend[Receiver]["USR2"] = None
       /\ pc[Receiver] \in {"usr1", "ack1", "loop2", "reject"}
       /\ pc[Receiver] \in {"usr1", "ack1"} => pend[a]["USR1"] = None
  /\ pc[a] # "wait_size" => pend[a]["USR1"] = None /\ pc[Receiver] \notin {"usr1", "ack1"}
  /\ pc[a] \in {"send_word", "send_rest", "end"} =>
       pend[Receiver]["USR2"] = None /\ pend[a]["USR2"] = None /\ pc[Receiver] \notin {"usr2", "ack2"}
  /\ pend[Receiver]["USR2"] # None =>
       /\ pend[a]["USR2"] = None /\ pc[Receiver] \notin {"usr2", "ack2"}
       /\ pend[Receiver]["USR2"].pid = a
       /\ Running(Receiver) /\ pc[Receiver] # "done" => NextWord(pend[Receiver]["USR2"])
  /\ pc[Receiver] = "usr2" => info[Receiver] # None /\ NextWord(info[Receiver])
  /\ pc[Receiver] \in {"usr2", "ack2"} => pend[a]["USR2"] = None

IndexOf(a) ==
  /\ pc[a] = "send_rest" => index[a] + Word > size[a]
  /\ pc[a] = "wait_rest" => index[a] = size[a]
  /\ Running(Receiver) /\ pc[Receiver] \in {"ack1", "loop2", "reject", "usr2"} =>
       index[a] = IF pend[Receiver]["USR2"] # None \/ pc[Receiver] = "usr2"
                  THEN Smaller(N + Word, size[a]) ELSE N
  /\ Running(Receiver) /\ pc[Receiver] = "ack2" =>
       index[a] - N \in 0 .. Word /\ (N < rsize => index[a] = N)
  /\ \/ pc[a] = "end"
     \/ pc[a] = "wait_rest" /\ (pc[Receiver] = "ack2" \/ pend[a]["USR2"] # None)
     => N = size[a]
  /\ result[a] = "ok" => pc[a] = "end"

IInv == /\ BaseInv /\ Strangers /\ Unasked
        /\ sender # None => WrittenOf(sender) /\ TokenOf(sender) /\ IndexOf(sender)
-----------------------------------------------------------------------------
LEMMA InInfo ==
  /\ \A sig \in Signals, x \in Procs : Signal(sig, x, "user", None) \in Info
  /\ \A s \in Senders, n \in Sizes : Signal("USR1", s, "queue", n) \in Info
  /\ \A s \in Senders, i \in Nat : Signal("USR2", s, "queue", Value(s, i)) \in Info
<1>1. \A s \in Senders, i \in Nat : Value(s, i) \in [1 .. Word -> (Senders \X Nat) \cup {None}]
  BY WidthAssumption DEF Value
<1> QED BY <1>1 DEF Info, Signal, Procs, Signals

LEMMA Posted ==
  ASSUME BaseInv, NEW x \in Procs, NEW i \in Info, i.sig \in Signals, Post(x, i)
  PROVE  /\ pend' \in [Procs -> [Signals -> Info \cup {None}]]
         /\ \A y \in Procs, sig \in Signals : y # x \/ sig # i.sig => pend'[y][sig] = pend[y][sig]
         /\ pend'[x][i.sig] = IF Running(x) /\ pend[x][i.sig] = None THEN i ELSE pend[x][i.sig]
BY DEF BaseInv, Post

LEMMA Taken ==
  ASSUME BaseInv, NEW x \in Procs, NEW sig \in Signals, Take(x, sig)
  PROVE  /\ pend' \in [Procs -> [Signals -> Info \cup {None}]]
         /\ \A y \in Procs, z \in Signals : y # x \/ z # sig => pend'[y][z] = pend[y][z]
         /\ pend'[x][sig] = None
BY DEF BaseInv, Take

(* A size that passes through si_int is smaller by multiples of 2^IntWidth. *)
LEMMA Truncation ==
  ASSUME NEW n \in Nat
  PROVE  /\ Truncated(n) \in -(2 ^ (IntWidth - 1)) .. 2 ^ (IntWidth - 1) - 1
         /\ Truncated(n) = n \/ Truncated(n) + Word <= n
<1>1. PICK M \in Nat \ {0}, H \in Nat \ {0} : M = 2 ^ IntWidth /\ H = 2 ^ (IntWidth - 1)
  BY PowerAssumption
<1>2. M = 2 * H /\ Word <= M /\ Word \in Nat
  BY <1>1, PowerAssumption, WidthAssumption
<1>3. n % M \in 0 .. M - 1 /\ (n % M = n \/ n % M <= n - M)
  OBVIOUS
<1>4. Truncated(n) = IF n % M < H THEN n % M ELSE (n % M) - M
  BY <1>1 DEF Truncated
<1>5. Truncated(n) \in -H .. H - 1 /\ (Truncated(n) = n \/ Truncated(n) + Word <= n)
  BY <1>2, <1>3, <1>4
<1> QED BY <1>1, <1>5

LEMMA InitIInv == Init => IInv
<1> SUFFICES ASSUME Init PROVE IInv OBVIOUS
<1> USE SendersAssumption, NoneAssumption DEF Init, Procs
<1>1. 0 \in -(2 ^ (IntWidth - 1)) .. 2 ^ (IntWidth - 1) - 1
  <2>1. PICK H \in Nat \ {0} : H = 2 ^ (IntWidth - 1)
    BY PowerAssumption
  <2>2. 0 \in -H .. H - 1
    OBVIOUS
  <2> QED BY <2>1, <2>2
<1>2. BaseInv
  <2>1. /\ pc \in [Procs -> RLabels \cup SLabels] /\ pc[Receiver] \in RLabels
        /\ \A s \in Senders : pc[s] \in SLabels
    BY DEF RLabels, SLabels
  <2>2. index \in [Senders -> Nat] /\ \A s \in Senders : index[s] <= size[s]
    <3>1. \A s \in Senders : index[s] = 0 /\ size[s] \in Nat
      BY SizesAssumption
    <3> QED BY <3>1
  <2>3. received \in Seq(Senders \X Nat)
    OBVIOUS
  <2> QED BY <1>1, <2>1, <2>2, <2>3, IntsAssumption DEF BaseInv, Signals
<1>3. Strangers
  BY DEF Strangers, Signals
<1>4. Unasked
  BY DEF Unasked, Signals, Running
<1> QED BY <1>2, <1>3, <1>4 DEF IInv
-----------------------------------------------------------------------------
LEMMA SenderBase ==
  ASSUME IInv, NEW s \in Senders, SenderStep(s) PROVE BaseInv'
<1> USE DEF Procs
<1>1. BaseInv /\ Receiver \notin Senders /\ s \in Procs /\ Receiver \in Procs
  BY SendersAssumption DEF IInv
<1>2. /\ size[s] \in Sizes /\ size[s] \in Nat \ {0} /\ index[s] \in Nat /\ index[s] <= size[s]
      /\ Word \in Nat \ {0}
  BY SizesAssumption, WidthAssumption DEF IInv, BaseInv
<1>3. CASE SendFails(s) \/ TakeTerm(s) \/ SenderInt(s)
  <2>1. pend' \in [Procs -> [Signals -> Info \cup {None}]]
    BY <1>1, <1>3, Taken DEF SendFails, TakeTerm, SenderInt, BaseInv, Signals
  <2>2. status' \in [Procs -> {"running", "zombie", "gone"}] /\ result' \in [Senders -> {None, "ok", "error"}]
    BY <1>1, <1>3 DEF SendFails, TakeTerm, SenderInt, BaseInv, Finish, Exit
  <2>3. int' \subseteq Procs
    BY <1>1, <1>3 DEF SendFails, TakeTerm, SenderInt, BaseInv
  <2>4. /\ UNCHANGED <<size, index, info, rvars, ints>>
        /\ pc' = pc
    BY <1>3 DEF SendFails, TakeTerm, SenderInt
  <2> QED BY <1>1, <2>1, <2>2, <2>3, <2>4 DEF BaseInv, rvars
<1>4. CASE SendSize(s)
  <2>1. pend' \in [Procs -> [Signals -> Info \cup {None}]]
    BY <1>1, <1>2, <1>4, InInfo, Posted DEF SendSize, Sigqueue, Signals, Signal
  <2>2. pc' = [pc EXCEPT ![s] = "wait_size"] /\ UNCHANGED <<status, int, ints, svars, info, rvars>>
    BY <1>4 DEF SendSize, Goto
  <2> QED BY <1>1, <2>1, <2>2 DEF BaseInv, svars, rvars, SLabels
<1>5. CASE SendData(s)
  <2>1. pend' \in [Procs -> [Signals -> Info \cup {None}]]
    BY <1>1, <1>2, <1>5, InInfo, Posted DEF SendData, Sigqueue, Signals, Signal
  <2>2. \E l \in SLabels : pc' = [pc EXCEPT ![s] = l]
    BY <1>5 DEF SendData, Goto, SLabels
  <2>3. Smaller(index[s] + Word, size[s]) \in Nat /\ Smaller(index[s] + Word, size[s]) <= size[s]
    BY <1>2 DEF Smaller
  <2>4. index' = [index EXCEPT ![s] = Smaller(index[s] + Word, size[s])]
    BY <1>5 DEF SendData
  <2>5. index' \in [Senders -> Nat] /\ \A q \in Senders : index'[q] <= size[q]
    BY <1>1, <2>3, <2>4 DEF BaseInv
  <2>6. UNCHANGED <<status, int, ints, size, info, result, rvars>>
    BY <1>5 DEF SendData
  <2> QED BY <1>1, <2>1, <2>2, <2>5, <2>6 DEF BaseInv, rvars
<1>6. CASE TakeAck(s)
  <2>1. PICK sig \in {"USR1", "USR2"} :
          LET i == pend[s][sig] IN
          /\ Take(s, sig)
          /\ info' = [info EXCEPT ![s] = i]
          /\ Goto(s, IF ~Ack(s, i) THEN pc[s] ELSE IF pc[s] = "wait_rest" THEN "end" ELSE AfterAck(s))
    BY <1>6 DEF TakeAck
  <2>2. pend' \in [Procs -> [Signals -> Info \cup {None}]] /\ pend[s][sig] \in Info \cup {None}
    BY <1>1, <2>1, Taken DEF Signals, BaseInv
  <2>3. info' \in [Procs -> Info \cup {None}]
    BY <1>1, <2>1, <2>2 DEF BaseInv
  <2>4. \E l \in SLabels : pc' = [pc EXCEPT ![s] = l]
    BY <1>1, <2>1 DEF Goto, SLabels, AfterAck, BaseInv
  <2>5. UNCHANGED <<status, int, ints, svars, rvars>>
    BY <1>6 DEF TakeAck
  <2> QED BY <1>1, <2>2, <2>3, <2>4, <2>5 DEF BaseInv, svars, rvars
<1>7. CASE End(s)
  <2>1. pend' \in [Procs -> [Signals -> Info \cup {None}]]
    BY <1>1, <1>7, InInfo, Posted DEF End, Kill, Signals, Signal
  <2>2. status' \in [Procs -> {"running", "zombie", "gone"}] /\ result' \in [Senders -> {None, "ok", "error"}]
    BY <1>1, <1>7 DEF End, BaseInv, Finish, Exit
  <2>3. UNCHANGED <<int, ints, size, pc, index, info, rvars>>
    BY <1>7 DEF End
  <2> QED BY <1>1, <2>1, <2>2, <2>3 DEF BaseInv, rvars
<1>8. CASE Clear(s)
  BY <1>1, <1>8 DEF Clear, BaseInv, svars, rvars
<1> QED BY <1>3, <1>4, <1>5, <1>6, <1>7, <1>8 DEF SenderStep

(* The sequence r is the first n elements of F; those of t, up to the m-th, *)
(* are the ones that follow.                                               *)
Begins(r, F, n)     == Len(r) = n /\ \A k \in 1 .. n : r[k] = F[k]
Follows(t, F, n, m) == \A k \in 1 .. m : t[k] = F[n + k]
AllIn(t, S, m)      == \A k \in 1 .. m : t[k] \in S

LEMMA Appended ==
  ASSUME NEW S, NEW F, NEW r \in Seq(S), NEW t \in Seq(S), NEW n \in Nat, NEW m \in Nat,
         Begins(r, F, n), Len(t) = m, Follows(t, F, n, m)
  PROVE  r \o t \in Seq(S) /\ Begins(r \o t, F, n + m)
<1>1. /\ r \o t \in Seq(S) /\ Len(r \o t) = n + m
      /\ \A i \in 1 .. n + m : (r \o t)[i] = IF i <= n THEN r[i] ELSE t[i - n]
  BY ConcatProperties DEF Begins
<1>2. ASSUME NEW k \in 1 .. n + m PROVE (r \o t)[k] = F[k]
  <2>1. CASE k <= n
    <3>1. k \in 1 .. n
      BY <2>1
    <3>2. (r \o t)[k] = r[k]
      BY <1>1, <2>1
    <3> QED BY <3>1, <3>2 DEF Begins
  <2>2. CASE ~(k <= n)
    <3>1. PICK j \in 1 .. m : k = n + j
      <4>1. k - n \in 1 .. m /\ k = n + (k - n)
        BY <2>2
      <4> QED BY <4>1
    <3>2. k - n = j
      BY <3>1
    <3>3. (r \o t)[k] = t[k - n]
      BY <1>1, <2>2
    <3>4. (r \o t)[k] = t[j]
      BY <3>2, <3>3
    <3>5. t[j] = F[n + j]
      BY DEF Follows
    <3> QED BY <3>1, <3>4, <3>5
  <2> QED BY <2>1, <2>2
<1> QED BY <1>1, <1>2 DEF Begins

(* The first m elements of v are appended.                                 *)
LEMMA AppendedPart ==
  ASSUME NEW S, NEW F, NEW r \in Seq(S), NEW v, NEW n \in Nat, NEW m \in Nat, m > 0,
         Begins(r, F, n), AllIn(v, S, m), Follows(v, F, n, m)
  PROVE  r \o SubSeq(v, 1, m) \in Seq(S) /\ Begins(r \o SubSeq(v, 1, m), F, n + m)
<1>1. 1 \in Int /\ m \in Int /\ \A k \in 1 .. m : v[k] \in S
  BY DEF AllIn
<1>2. /\ SubSeq(v, 1, m) \in Seq(S)
      /\ Len(SubSeq(v, 1, m)) = IF 1 <= m THEN m - 1 + 1 ELSE 0
      /\ \A k \in 1 .. m - 1 + 1 : SubSeq(v, 1, m)[k] = v[1 + k - 1]
  BY <1>1, SubSeqProperties
<1>3. PICK t \in Seq(S) : t = SubSeq(v, 1, m)
  BY <1>2
<1>4. Len(t) = m
  BY <1>2, <1>3
<1>5. \A k \in 1 .. m : t[k] = v[k]
  <2>1. \A k \in 1 .. m : k \in 1 .. m - 1 + 1 /\ 1 + k - 1 = k
    OBVIOUS
  <2> QED BY <1>2, <1>3, <2>1
<1>6. Follows(t, F, n, m)
  BY <1>5 DEF Follows
<1>7. r \o t \in Seq(S) /\ Begins(r \o t, F, n + m)
  BY <1>4, <1>6, Appended
<1> QED BY <1>3, <1>7

(* The word v, or as much of it as leaves r elements.                      *)
WordOf(v, w, F, n, r) ==
  v = [k \in 1 .. w |-> v[k]] /\ \A k \in 1 .. w : n + k <= r => v[k] = F[n + k]

LEMMA AppendedWord ==
  ASSUME NEW S, NEW F \in [Nat -> S], NEW old \in Seq(S), NEW n \in Nat, Begins(old, F, n),
         NEW r \in Int, n < r, NEW w \in Nat \ {0}, NEW v, WordOf(v, w, F, n, r),
         NEW new, new = IF n + w - 1 < r THEN old \o v ELSE old \o SubSeq(v, 1, r - n)
  PROVE  new \in Seq(S) /\ Begins(new, F, IF n + w - 1 < r THEN n + w ELSE r)
<1>1. \A k \in 1 .. w : n + k <= r => v[k] \in S
  <2>1. \A k \in 1 .. w : n + k \in Nat
    OBVIOUS
  <2> QED BY <2>1 DEF WordOf
<1>2. CASE n + w - 1 < r
  <2>1. \A k \in 1 .. w : n + k <= r
    BY <1>2
  <2>2. \A k \in 1 .. w : v[k] \in S /\ v[k] = F[n + k]
    BY <1>1, <2>1 DEF WordOf
  <2>3. v \in [1 .. w -> S]
    BY <2>2 DEF WordOf
  <2>4. v \in Seq(S)
    BY <2>3, SeqDef
  <2>5. Len(v) = w
    BY <2>3, <2>4, LenProperties
  <2>6. w \in Nat /\ Follows(v, F, n, w)
    BY <2>2 DEF Follows
  <2>7. old \o v \in Seq(S) /\ Begins(old \o v, F, n + w)
    BY <2>4, <2>5, <2>6, Appended
  <2> QED BY <1>2, <2>7
<1>3. CASE ~(n + w - 1 < r)
  <2>1. PICK m \in Nat : m = r - n
    <3>1. r - n \in Nat
      OBVIOUS
    <3> QED BY <3>1
  <2>2. m > 0 /\ m <= w /\ n + m = r
    BY <1>3, <2>1
  <2>3. \A k \in 1 .. m : k \in 1 .. w /\ n + k <= r
    BY <2>2
  <2>4. AllIn(v, S, m) /\ Follows(v, F, n, m)
    BY <1>1, <2>3 DEF AllIn, Follows, WordOf
  <2>5. old \o SubSeq(v, 1, m) \in Seq(S) /\ Begins(old \o SubSeq(v, 1, m), F, n + m)
    BY <2>2, <2>4, AppendedPart
  <2>6. new = old \o SubSeq(v, 1, m)
    BY <1>3, <2>1
  <2> QED BY <1>3, <2>2, <2>5, <2>6
<1> QED BY <1>2, <1>3

(* What Store writes: the next word, or as much of it as the file has.     *)
LEMMA StoredWord ==
  ASSUME IInv, Store
  PROVE  /\ sender \in Senders /\ sender # None /\ N \in Nat /\ N < rsize /\ rsize \in Int
         /\ rsize <= size[sender] /\ size[sender] \in Nat /\ Word \in Nat \ {0}
         /\ received' \in Seq(Senders \X Nat)
         /\ Len(received') = IF N + Word - 1 < rsize THEN N + Word ELSE rsize
         /\ \A k \in 1 .. Len(received') : received'[k] = <<sender, k>>
<1>1. /\ pc[Receiver] = "usr2" /\ Running(Receiver)
      /\ received' = IF FromSender(info[Receiver]) THEN Stored(info[Receiver].val) ELSE received
  BY DEF Store, At
<1>2. sender # None /\ received \in Seq(Senders \X Nat) /\ Word \in Nat \ {0}
  BY <1>1, WidthAssumption DEF IInv, Unasked, BaseInv
<1>3. sender \in Senders /\ size[sender] \in Nat /\ N \in Nat /\ rsize \in Int
  <2>1. PICK H \in Nat : H = 2 ^ (IntWidth - 1)
    BY PowerAssumption
  <2>2. rsize \in -H .. H - 1
    BY <2>1 DEF IInv, BaseInv
  <2>3. sender \in Senders /\ size[sender] \in Sizes
    BY <1>2 DEF IInv, BaseInv
  <2>4. N \in Nat
    BY <1>2, LenProperties DEF N
  <2>5. rsize \in Int
    BY <2>2
  <2>6. size[sender] \in Nat
    BY <2>3, SizesAssumption
  <2> QED BY <2>3, <2>4, <2>5, <2>6
<1>4. N < rsize /\ rsize <= size[sender] /\ \A k \in 1 .. N : received[k] = <<sender, k>>
  BY <1>1, <1>2, <1>3 DEF IInv, WrittenOf
<1>5. received' = Stored(Value(sender, N))
  BY <1>1, <1>2 DEF IInv, TokenOf, NextWord, FromSender
<1>6. PICK a \in Senders, n \in Nat, r \in Int, sz \in Nat :
        a = sender /\ n = N /\ r = rsize /\ sz = size[sender]
  BY <1>3
<1>7. PICK v : v = Value(sender, N)
  OBVIOUS
<1>8. PICK old : old = received
  OBVIOUS
<1>9. PICK new : new = received'
  OBVIOUS
<1>10. n < r /\ Len(old) = n /\ old \in Seq(Senders \X Nat) /\ new = IF n + Word - 1 < r
                                            THEN old \o v ELSE old \o SubSeq(v, 1, r - n)
  BY <1>2, <1>4, <1>5, <1>6, <1>7, <1>8, <1>9 DEF N, Stored
<1>11. v = [k \in 1 .. Word |-> IF n + k <= sz THEN <<a, n + k>> ELSE None] /\ r <= sz
  BY <1>4, <1>6, <1>7 DEF Value
<1>12. PICK F \in [Nat -> Senders \X Nat] : F = [k \in Nat |-> <<a, k>>]
  OBVIOUS
<1>13. \A k \in Nat : F[k] = <<a, k>>
  BY <1>12
<1>14. WordOf(v, Word, F, n, r)
  <2>1. \A k \in 1 .. Word : n + k \in Nat /\ (n + k <= r => n + k <= sz)
    BY <1>2, <1>11
  <2> QED BY <1>11, <1>13, <2>1 DEF WordOf
<1>15. Begins(old, F, n)
  <2>1. \A k \in 1 .. n : k \in Nat /\ received[k] = <<a, k>>
    BY <1>4, <1>6
  <2> QED BY <1>8, <1>10, <1>13, <2>1 DEF Begins
<1>16. new \in Seq(Senders \X Nat) /\ Begins(new, F, IF n + Word - 1 < r THEN n + Word ELSE r)
  <2> DEFINE S == Senders \X Nat
  <2>1. F \in [Nat -> S] /\ old \in Seq(S) /\ n < r /\ Word \in Nat \ {0}
    BY <1>2, <1>10
  <2>2. new = IF n + Word - 1 < r THEN old \o v ELSE old \o SubSeq(v, 1, r - n)
    BY <1>10
  <2> HIDE DEF S
  <2>3. new \in Seq(S) /\ Begins(new, F, IF n + Word - 1 < r THEN n + Word ELSE r)
    BY <1>14, <1>15, <2>1, <2>2, AppendedWord
  <2> QED BY <2>3 DEF S
<1>17. \A k \in 1 .. Len(new) : new[k] = <<a, k>>
  <2>1. Len(new) \in Nat
    BY <1>16, LenProperties
  <2> QED BY <1>13, <1>16, <2>1 DEF Begins
<1> QED BY <1>2, <1>3, <1>4, <1>6, <1>9, <1>16, <1>17 DEF Begins

LEMMA Facts ==
  ASSUME IInv
  PROVE  /\ BaseInv /\ Receiver \in Procs /\ Receiver \notin Senders /\ Senders \subseteq Procs
         /\ None \notin Senders /\ None # Receiver /\ N \in Nat /\ rsize \in Int /\ Word \in Nat \ {0}
         /\ \A s \in Senders : size[s] \in Sizes /\ size[s] \in Nat \ {0} /\ index[s] \in 0 .. size[s]
<1>1. BaseInv
  BY DEF IInv
<1>2. N \in Nat
  BY <1>1, LenProperties DEF BaseInv, N
<1>3. rsize \in Int
  <2>1. PICK H \in Nat : H = 2 ^ (IntWidth - 1)
    BY PowerAssumption
  <2> QED BY <1>1, <2>1 DEF BaseInv
<1>4. \A s \in Senders : size[s] \in Sizes /\ size[s] \in Nat \ {0}
  BY <1>1, SizesAssumption DEF BaseInv
<1>5. \A s \in Senders : index[s] \in 0 .. size[s]
  BY <1>1, <1>4 DEF BaseInv
<1> QED BY <1>1, <1>2, <1>3, <1>4, <1>5, SendersAssumption, WidthAssumption DEF Procs

(* What TakeSize, TakeOther, TakeWord and TakeIgnored do.                  *)
LEMMA ReceiverTook ==
  ASSUME IInv, NEW sig \in Signals, NEW from, NEW to \in RLabels, ReceiverTakes(sig, from, to)
  PROVE  /\ BaseInv'
         /\ Running(Receiver) /\ pc[Receiver] = from /\ pend[Receiver][sig] # None
         /\ info'[Receiver] = pend[Receiver][sig] /\ pc'[Receiver] = to
         /\ \A s \in Senders : pc'[s] = pc[s] /\ pend'[s] = pend[s]
         /\ \A z \in Signals : pend'[Receiver][z] = IF z = sig THEN None ELSE pend[Receiver][z]
         /\ UNCHANGED <<status, int, ints, svars, rvars>>
<1>1. BaseInv /\ Receiver \in Procs /\ Receiver \notin Senders /\ Senders \subseteq Procs
  BY Facts
<1>2. /\ Running(Receiver) /\ pc[Receiver] = from /\ pend[Receiver][sig] # None
      /\ pend' = [pend EXCEPT ![Receiver][sig] = None]
      /\ info' = [info EXCEPT ![Receiver] = pend[Receiver][sig]]
      /\ pc' = [pc EXCEPT ![Receiver] = to] /\ UNCHANGED <<status, int, ints, svars, rvars>>
  BY DEF ReceiverTakes, At, Take, Goto
<1>3. pend' \in [Procs -> [Signals -> Info \cup {None}]]
  BY <1>1, <1>2 DEF BaseInv
<1>4. info' \in [Procs -> Info \cup {None}]
  BY <1>1, <1>2 DEF BaseInv
<1>5. /\ pc' \in [Procs -> RLabels \cup SLabels] /\ pc'[Receiver] = to
      /\ \A s \in Senders : pc'[s] = pc[s]
  BY <1>1, <1>2 DEF BaseInv
<1>6. /\ \A s \in Senders : pend'[s] = pend[s]
      /\ \A z \in Signals : pend'[Receiver][z] = IF z = sig THEN None ELSE pend[Receiver][z]
  BY <1>1, <1>2 DEF BaseInv
<1>7. BaseInv'
  BY <1>1, <1>2, <1>3, <1>4, <1>5 DEF BaseInv, svars, rvars
<1> QED BY <1>1, <1>2, <1>5, <1>6, <1>7 DEF BaseInv

(* A SIGTERM leaves the signals of the protocol alone.                     *)
LEMMA KillsTerm ==
  ASSUME BaseInv, NEW x \in Procs, NEW y \in Procs, Kill(x, "TERM", y)
  PROVE  /\ pend' \in [Procs -> [Signals -> Info \cup {None}]]
         /\ \A z \in Procs : pend'[z]["USR1"] = pend[z]["USR1"] /\ pend'[z]["USR2"] = pend[z]["USR2"]
<1>1. Signal("TERM", y, "user", None) \in Info
  BY InInfo DEF Signals
<1> QED BY <1>1, Posted DEF Kill, Signal, Signals

LEMMA Accepted ==
  ASSUME IInv, Accept
  PROVE  /\ BaseInv' /\ sender = None /\ sender' \in Senders /\ rsize' = Truncated(size[sender'])
         /\ rsize' = size[sender'] \/ rsize' + Word <= size[sender']
         /\ pc[sender'] = "wait_size" /\ received = <<>>
         /\ \/ rsize' > 0 /\ status' = status /\ pc' = [pc EXCEPT ![Receiver] = "ack1"]
            \/ ~Running(Receiver)' /\ pc' = pc /\ pc[Receiver] = "usr1"
         /\ \A x \in Procs : pend'[x]["USR1"] = pend[x]["USR1"] /\ pend'[x]["USR2"] = pend[x]["USR2"]
         /\ UNCHANGED <<size, index, result, info, received>>
<1>1. BaseInv /\ Receiver \in Procs /\ Receiver \notin Senders /\ Senders \subseteq Procs
  BY Facts
<1>2. Running(Receiver) /\ pc[Receiver] = "usr1"
  BY DEF Accept, At
<1>3. sender = None /\ Asks(info[Receiver]) /\ received = <<>>
  BY <1>2 DEF IInv, Unasked
<1>4. sender' \in Senders /\ rsize' = Truncated(size[sender']) /\ pc[sender'] = "wait_size"
  BY <1>3 DEF Accept, Asks
<1>5. size[sender'] \in Nat
  BY <1>4, Facts
<1>6. /\ rsize' \in -(2 ^ (IntWidth - 1)) .. 2 ^ (IntWidth - 1) - 1
      /\ rsize' = size[sender'] \/ rsize' + Word <= size[sender']
  BY <1>4, <1>5, Truncation
<1>7. UNCHANGED <<int, ints, size, index, result, info, received>>
  BY DEF Accept, svars
<1>8. CASE rsize' > 0 /\ Goto(Receiver, "ack1") /\ UNCHANGED <<status, pend>>
  <2>1. pc' = [pc EXCEPT ![Receiver] = "ack1"]
    BY <1>8 DEF Goto
  <2>2. BaseInv'
    BY <1>1, <1>4, <1>6, <1>7, <1>8, <2>1 DEF BaseInv, RLabels
  <2> QED BY <1>3, <1>4, <1>6, <1>7, <1>8, <2>1, <2>2
<1>9. CASE Exit(Receiver) /\ Kill(info[Receiver].pid, "TERM", Receiver) /\ UNCHANGED pc
  <2>1. /\ pend' \in [Procs -> [Signals -> Info \cup {None}]]
        /\ \A z \in Procs : pend'[z]["USR1"] = pend[z]["USR1"] /\ pend'[z]["USR2"] = pend[z]["USR2"]
    BY <1>1, <1>3, <1>9, KillsTerm DEF Asks
  <2>2. status' \in [Procs -> {"running", "zombie", "gone"}] /\ ~Running(Receiver)'
    BY <1>1, <1>9 DEF Exit, BaseInv, Running
  <2>3. BaseInv'
    BY <1>1, <1>4, <1>6, <1>7, <1>9, <2>1, <2>2 DEF BaseInv
  <2> QED BY <1>2, <1>3, <1>4, <1>6, <1>7, <1>9, <2>1, <2>2, <2>3
<1> QED BY <1>8, <1>9 DEF Accept

LEMMA ReceiverBase ==
  ASSUME IInv, ReceiverStep PROVE BaseInv'
<1>1. BaseInv /\ Receiver \in Procs /\ Receiver \notin Senders /\ Senders \subseteq Procs
  BY Facts
<1>2. CASE TakeSize \/ TakeOther \/ TakeWord \/ TakeIgnored
  BY <1>2, ReceiverTook DEF TakeSize, TakeOther, TakeWord, TakeIgnored, Signals, RLabels
<1>3. CASE Accept
  BY <1>3, Accepted
<1>4. CASE Reject
  <2>1. info[Receiver].pid \in Procs \/ pend' = pend
    BY <1>1, <1>4 DEF Reject, Kill, Post, Signal, BaseInv
  <2>2. pend' \in [Procs -> [Signals -> Info \cup {None}]]
    BY <1>1, <1>4, <2>1, KillsTerm DEF Reject, BaseInv
  <2>3. pc' = [pc EXCEPT ![Receiver] = "loop2"] /\ UNCHANGED <<status, int, ints, svars, info, rvars>>
    BY <1>4 DEF Reject, Goto
  <2> QED BY <1>1, <2>2, <2>3 DEF BaseInv, svars, rvars, RLabels
<1>5. CASE Store
  <2>1. received' \in Seq(Senders \X Nat)
    BY <1>5, StoredWord
  <2>2. /\ pc' = [pc EXCEPT ![Receiver] = "ack2"]
        /\ UNCHANGED <<status, pend, int, ints, svars, info, sender, rsize>>
    BY <1>5 DEF Store, Goto
  <2> QED BY <1>1, <2>1, <2>2 DEF BaseInv, svars, RLabels
<1>6. CASE Acknowledge
  <2>1. sender \in Senders
    BY <1>1, <1>6 DEF Acknowledge, IInv, Unasked, BaseInv
  <2>2. \E sig \in Signals : Kill(sender, sig, Receiver)
    BY <1>6 DEF Acknowledge, Signals
  <2>3. pend' \in [Procs -> [Signals -> Info \cup {None}]]
    BY <1>1, <2>1, <2>2, InInfo, Posted DEF Kill, Signal
  <2>4. \E l \in RLabels : pc' = [pc EXCEPT ![Receiver] = l]
    BY <1>6 DEF Acknowledge, Goto, RLabels
  <2>5. UNCHANGED <<status, int, ints, svars, info, rvars>>
    BY <1>6 DEF Acknowledge
  <2> QED BY <1>1, <2>3, <2>4, <2>5 DEF BaseInv, svars, rvars
<1>7. CASE Done \/ ReceiverInt
  <2>1. sender \in Senders \cup {None}
    BY <1>1 DEF BaseInv
  <2>2. pend' \in [Procs -> [Signals -> Info \cup {None}]]
    BY <1>1, <1>7, <2>1, KillsTerm DEF Done, ReceiverInt, BaseInv
  <2>3. status' \in [Procs -> {"running", "zombie", "gone"}]
    BY <1>1, <1>7 DEF Done, ReceiverInt, Exit, BaseInv
  <2>4. int' \subseteq Procs /\ UNCHANGED <<ints, svars, pc, info, rvars>>
    BY <1>1, <1>7 DEF Done, ReceiverInt, BaseInv
  <2> QED BY <1>1, <2>2, <2>3, <2>4 DEF BaseInv, svars, rvars
<1> QED BY <1>2, <1>3, <1>4, <1>5, <1>6, <1>7 DEF ReceiverStep

LEMMA OthersBase ==
  ASSUME IInv, \/ \E x \in Procs : CtrlC(x) \/ Reap(x)
               \/ UNCHANGED vars
  PROVE  BaseInv'
<1>1. BaseInv
  BY Facts
<1>2. CASE \E x \in Procs : CtrlC(x)
  BY <1>1, <1>2, IntsAssumption DEF BaseInv, CtrlC, svars, rvars
<1>3. CASE \E x \in Procs : Reap(x)
  BY <1>1, <1>3 DEF BaseInv, Reap, svars, rvars
<1>4. CASE UNCHANGED vars
  BY <1>1, <1>4 DEF BaseInv, vars
<1> QED BY <1>2, <1>3, <1>4
-----------------------------------------------------------------------------
(* A step that takes no part in the exchange: at most the process ends, the *)
(* receiver turns to another signal, or drops a SIGUSR1 of a stranger.     *)
Quiet ==
  /\ UNCHANGED <<size, index, sender, rsize, received>>
  /\ \A s \in Senders : /\ pc'[s] = pc[s] /\ (result'[s] = "ok" => result[s] = "ok" \/ pc[s] = "end")
                        /\ pend'[s]["USR1"] = pend[s]["USR1"] /\ pend'[s]["USR2"] = pend[s]["USR2"]
  /\ pend'[Receiver]["USR2"] = pend[Receiver]["USR2"]
  /\ pend'[Receiver]["USR1"] \in {pend[Receiver]["USR1"], None}
  /\ \/ pc'[Receiver] = pc[Receiver] /\ info'[Receiver] = info[Receiver]
     \/ pc[Receiver] \in {"loop2", "reject"} /\ pc'[Receiver] \in {"loop2", "reject"}
     \/ pc[Receiver] = "loop1" /\ pc'[Receiver] = "loop1"
  /\ Running(Receiver)' => Running(Receiver)
  /\ sender = None => Running(Receiver)'

LEMMA QuietKeeps == ASSUME IInv, BaseInv', Quiet PROVE IInv'
<1> USE Facts
<1>1. /\ size' = size /\ index' = index /\ sender' = sender /\ rsize' = rsize /\ received' = received
      /\ N' = N /\ \A s \in Senders : pc'[s] = pc[s]
  BY DEF Quiet, N
<1>2. Strangers'
  <2>1. ASSUME NEW s \in Senders, s # sender'
        PROVE /\ pc'[s] \in {"send_size", "wait_size"} /\ index'[s] = 0 /\ result'[s] # "ok"
              /\ pend'[s]["USR1"] = None /\ pend'[s]["USR2"] = None
    BY <1>1, <2>1 DEF IInv, Strangers, Quiet
  <2> QED BY <2>1 DEF Strangers
<1>3. Unasked'
  <2>1. CASE sender = None
    <3>1. \A i : Asks(i) => Asks(i)'
      BY <1>1 DEF Asks
    <3> QED BY <1>1, <2>1, <3>1 DEF IInv, Unasked, Quiet
  <2>2. CASE sender # None
    BY <1>1, <2>2 DEF IInv, Unasked, Quiet
  <2> QED BY <2>1, <2>2
<1>4. ASSUME sender' # None PROVE WrittenOf(sender)' /\ TokenOf(sender)' /\ IndexOf(sender)'
  <2>1. PICK a \in Senders : a = sender /\ a = sender'
    BY <1>1, <1>4 DEF BaseInv
  <2>2. WrittenOf(a) /\ TokenOf(a) /\ IndexOf(a)
    BY <1>1, <1>4, <2>1 DEF IInv
  <2>3. WrittenOf(a)'
    BY <1>1, <2>1, <2>2 DEF WrittenOf, Quiet
  <2>4. TokenOf(a)'
    <3>1. \A i : NextWord(i) => NextWord(i)'
      BY <1>1 DEF NextWord, Value
    <3> QED BY <1>1, <2>1, <2>2, <3>1 DEF TokenOf, Quiet
  <2>5. IndexOf(a)'
    BY <1>1, <2>1, <2>2 DEF IndexOf, Quiet, Smaller
  <2> QED BY <2>1, <2>3, <2>4, <2>5
<1> QED BY <1>2, <1>3, <1>4 DEF IInv

LEMMA QuietSender ==
  ASSUME IInv, NEW s \in Senders,
         SendFails(s) \/ Clear(s) \/ TakeTerm(s) \/ End(s) \/ SenderInt(s)
  PROVE  IInv'
<1> USE Facts
<1>1. BaseInv'
  BY SenderBase DEF SenderStep
<1>2. sender = None => Running(Receiver)
  BY DEF IInv, Unasked
<1>3. Running(Receiver)' <=> Running(Receiver)
  BY DEF SendFails, Clear, TakeTerm, End, SenderInt, Finish, Exit, Running, BaseInv
<1>4. /\ UNCHANGED <<size, index, sender, rsize, received>> /\ pc' = pc
      /\ info'[Receiver] = info[Receiver]
  BY DEF SendFails, Clear, TakeTerm, End, SenderInt, svars, rvars, BaseInv
<1>5. \A z \in Procs : pend'[z]["USR1"] = pend[z]["USR1"] /\ pend'[z]["USR2"] = pend[z]["USR2"]
  BY Taken, KillsTerm DEF SendFails, Clear, TakeTerm, End, SenderInt, Signals
<1>6. \A q \in Senders : result'[q] = "ok" => result[q] = "ok" \/ pc[q] = "end"
  BY DEF SendFails, Clear, TakeTerm, End, SenderInt, Finish, At, BaseInv, svars
<1>7. Quiet
  BY <1>2, <1>3, <1>4, <1>5, <1>6 DEF Quiet
<1> QED BY <1>1, <1>7, QuietKeeps

LEMMA QuietReceiver ==
  ASSUME IInv, TakeOther \/ TakeIgnored \/ Reject \/ Done \/ ReceiverInt
  PROVE  IInv'
<1> USE Facts
<1>1. BaseInv'
  BY ReceiverBase DEF ReceiverStep
<1>2. /\ sender = None => /\ Running(Receiver) /\ pc[Receiver] \in {"loop1", "usr1"}
                          /\ pend[Receiver]["USR2"] = None
      /\ sender # None => pc[Receiver] # "loop1"
  BY DEF IInv, Unasked
<1>3. CASE TakeOther \/ TakeIgnored
  <2>1. ASSUME TakeOther PROVE Quiet
    BY <1>2, <2>1, ReceiverTook DEF TakeOther, Quiet, Signals, RLabels, svars, rvars, Running
  <2>2. ASSUME TakeIgnored PROVE Quiet
    <3>1. PICK sig \in {"USR2", "TERM"}, l \in {"loop1", "loop2"} :
             ReceiverTakes(sig, l, l) /\ (l = "loop2" => sig = "TERM")
      BY <2>2 DEF TakeIgnored
    <3>2. l = "loop1" => sig = "TERM"
      BY <1>2, <3>1 DEF ReceiverTakes, At, Take, BaseInv
    <3> QED BY <1>2, <3>1, <3>2, ReceiverTook DEF Quiet, Signals, RLabels, svars, rvars, Running
  <2>3. Quiet
    BY <1>3, <2>1, <2>2
  <2> QED BY <1>1, <2>3, QuietKeeps
<1>4. CASE Reject
  <2>1. info[Receiver].pid \in Procs \/ pend' = pend
    BY <1>4 DEF Reject, Kill, Post, Signal, BaseInv
  <2>2. \A z \in Procs : pend'[z]["USR1"] = pend[z]["USR1"] /\ pend'[z]["USR2"] = pend[z]["USR2"]
    BY <1>4, <2>1, KillsTerm DEF Reject
  <2>3. pc' = [pc EXCEPT ![Receiver] = "loop2"] /\ UNCHANGED <<status, int, ints, svars, info, rvars>>
    BY <1>4 DEF Reject, Goto
  <2>4. pc[Receiver] = "reject"
    BY <1>4 DEF Reject, At
  <2>5. Quiet
    BY <1>2, <2>2, <2>3, <2>4 DEF Quiet, svars, rvars, BaseInv, Running
  <2> QED BY <1>1, <2>5, QuietKeeps
<1>5. CASE Done
  BY <1>1, <1>2, <1>5, QuietKeeps DEF Done, At, Exit, Quiet, svars, rvars, BaseInv, Running
<1>6. CASE ReceiverInt
  <2>1. sender \in Senders \cup {None}
    BY DEF BaseInv
  <2>2. \A z \in Procs : pend'[z]["USR1"] = pend[z]["USR1"] /\ pend'[z]["USR2"] = pend[z]["USR2"]
    BY <1>6, <2>1, KillsTerm DEF ReceiverInt
  <2>3. (Running(Receiver)' => Running(Receiver)) /\ (sender = None => Running(Receiver)')
    BY <1>6 DEF ReceiverInt, Exit, Running, BaseInv
  <2>4. UNCHANGED <<svars, pc, info, rvars>>
    BY <1>6 DEF ReceiverInt
  <2>5. Quiet
    BY <2>2, <2>3, <2>4 DEF Quiet, svars, rvars
  <2> QED BY <1>1, <2>5, QuietKeeps
<1> QED BY <1>3, <1>4, <1>5, <1>6

LEMMA QuietOthers ==
  ASSUME IInv, \/ \E x \in Procs : CtrlC(x) \/ Reap(x)
               \/ UNCHANGED vars
  PROVE  IInv'
<1> USE Facts
<1>1. BaseInv'
  BY OthersBase
<1>2. UNCHANGED <<pend, size, pc, index, info, result, rvars>>
  BY DEF CtrlC, Reap, vars, svars, rvars
<1>3. (Running(Receiver)' => Running(Receiver)) /\ (Running(Receiver) => Running(Receiver)')
  <2>1. CASE \E x \in Procs : Reap(x)
    BY <2>1 DEF Reap, Running, BaseInv
  <2>2. CASE \E x \in Procs : CtrlC(x)
    BY <2>2 DEF CtrlC, Running
  <2>3. CASE UNCHANGED vars
    BY <2>3 DEF vars, Running
  <2> QED BY <2>1, <2>2, <2>3
<1>4. Quiet
  BY <1>2, <1>3 DEF Quiet, rvars, IInv, Unasked
<1> QED BY <1>1, <1>4, QuietKeeps
-----------------------------------------------------------------------------
(* The steps of the exchange. *)

LEMMA TakeSizeKeeps == ASSUME IInv, TakeSize PROVE IInv'
<1> USE Facts
<1>1. /\ BaseInv' /\ pc[Receiver] = "loop1" /\ pc'[Receiver] = "usr1" /\ Running(Receiver)
      /\ info'[Receiver] = pend[Receiver]["USR1"] /\ pend[Receiver]["USR1"] # None
      /\ \A s \in Senders : pc'[s] = pc[s] /\ pend'[s] = pend[s]
      /\ pend'[Receiver]["USR1"] = None /\ pend'[Receiver]["USR2"] = pend[Receiver]["USR2"]
      /\ UNCHANGED <<status, size, index, result, sender, received>>
  BY ReceiverTook DEF TakeSize, Signals, RLabels, svars, rvars
<1>2. sender = None /\ Asks(pend[Receiver]["USR1"])
  BY <1>1 DEF IInv, Unasked
<1>3. Asks(info[Receiver])'
  BY <1>1, <1>2 DEF Asks
<1>4. Strangers'
  BY <1>1 DEF IInv, Strangers
<1>5. Unasked'
  BY <1>1, <1>2, <1>3 DEF IInv, Unasked, Running
<1> QED BY <1>1, <1>2, <1>4, <1>5 DEF IInv

LEMMA AcceptKeeps == ASSUME IInv, Accept PROVE IInv'
<1> USE Facts
<1>1. /\ BaseInv' /\ sender = None /\ sender' \in Senders /\ received = <<>>
      /\ rsize' = size[sender'] \/ rsize' + Word <= size[sender']
      /\ pc[sender'] = "wait_size" /\ pc'[Receiver] \in {"usr1", "ack1"}
      /\ pc'[Receiver] = "ack1" => rsize' > 0
      /\ pc'[Receiver] = "usr1" => ~Running(Receiver)'
      /\ \A s \in Senders : pc'[s] = pc[s]
      /\ \A x \in Procs : pend'[x]["USR1"] = pend[x]["USR1"] /\ pend'[x]["USR2"] = pend[x]["USR2"]
      /\ UNCHANGED <<size, index, result, info, received>>
  BY Accepted DEF BaseInv
<1>2. PICK a \in Senders : a = sender'
  BY <1>1
<1>3. /\ \A s \in Senders : /\ pc[s] \in {"send_size", "wait_size"} /\ index[s] = 0 /\ result[s] # "ok"
                            /\ pend[s]["USR1"] = None /\ pend[s]["USR2"] = None
      /\ pend[Receiver]["USR2"] = None
  BY <1>1 DEF IInv, Strangers, Unasked
<1>4. N' = 0 /\ N = 0 /\ rsize' \in Int /\ size[a] \in Nat
  <2>1. N = 0 /\ N' = N
    BY <1>1 DEF N
  <2>2. PICK H \in Nat : H = 2 ^ (IntWidth - 1)
    BY PowerAssumption
  <2> QED BY <1>1, <2>1, <2>2 DEF BaseInv
<1>5. Strangers' /\ Unasked'
  BY <1>1, <1>3 DEF Strangers, Unasked
<1>6. WrittenOf(a)'
  BY <1>1, <1>2, <1>4 DEF WrittenOf
<1>7. TokenOf(a)'
  BY <1>1, <1>2, <1>3, <1>4 DEF TokenOf
<1>8. IndexOf(a)'
  BY <1>1, <1>2, <1>3, <1>4 DEF IndexOf
<1> QED BY <1>1, <1>2, <1>5, <1>6, <1>7, <1>8 DEF IInv

LEMMA SendSizeKeeps == ASSUME IInv, NEW s \in Senders, SendSize(s) PROVE IInv'
<1> USE Facts
<1>1. BaseInv'
  BY SenderBase DEF SenderStep
<1>2. /\ pc[s] = "send_size" /\ pc' = [pc EXCEPT ![s] = "wait_size"]
      /\ UNCHANGED <<status, svars, info, rvars>>
      /\ Post(Receiver, Signal("USR1", s, "queue", size[s]))
  BY DEF SendSize, At, Goto, Sigqueue
<1>3. Signal("USR1", s, "queue", size[s]) \in Info
  BY InInfo
<1>4. PICK i \in Info : i = Signal("USR1", s, "queue", size[s])
  BY <1>3
<1>5. i.sig = "USR1" /\ i.pid = s /\ i.code = "queue" /\ i.val = size[s]
  BY <1>4 DEF Signal
<1>6. /\ \A y \in Procs, sig \in Signals : y # Receiver \/ sig # "USR1" => pend'[y][sig] = pend[y][sig]
      /\ pend'[Receiver]["USR1"] \in {i, pend[Receiver]["USR1"]}
  <2>1. i.sig \in Signals /\ Post(Receiver, i)
    BY <1>2, <1>4, <1>5 DEF Signals
  <2> QED BY <1>5, <2>1, Posted
<1>7. /\ \A x \in Senders : pend'[x]["USR1"] = pend[x]["USR1"] /\ pend'[x]["USR2"] = pend[x]["USR2"]
      /\ pend'[Receiver]["USR2"] = pend[Receiver]["USR2"]
  BY <1>6 DEF Signals
<1>8. s # sender
  BY <1>2 DEF IInv, TokenOf
<1>9. /\ \A x \in Procs \ {s} : pc'[x] = pc[x]
      /\ pc'[s] = "wait_size"
  BY <1>2 DEF BaseInv
<1>10. /\ N' = N /\ UNCHANGED <<size, index, result, sender, rsize, received, info>>
       /\ Running(Receiver)' = Running(Receiver)
  BY <1>2 DEF N, svars, rvars, Running
<1>11. Strangers'
  BY <1>7, <1>9, <1>10 DEF IInv, Strangers
<1>12. Unasked'
  <2>1. CASE sender = None
    <3>1. \A j : Asks(j) => Asks(j)'
      BY <1>2, <1>9, <1>10 DEF Asks
    <3>2. Asks(i)'
      BY <1>5, <1>9, <1>10 DEF Asks
    <3> QED BY <1>6, <1>7, <1>9, <1>10, <2>1, <3>1, <3>2 DEF IInv, Unasked
  <2>2. CASE sender # None
    BY <1>9, <1>10, <2>2 DEF IInv, Unasked
  <2> QED BY <2>1, <2>2
<1>13. ASSUME sender' # None PROVE WrittenOf(sender)' /\ TokenOf(sender)' /\ IndexOf(sender)'
  <2>1. PICK a \in Senders : a = sender /\ a = sender' /\ a # s
    BY <1>8, <1>10, <1>13 DEF BaseInv
  <2>2. WrittenOf(a) /\ TokenOf(a) /\ IndexOf(a)
    BY <1>10, <1>13, <2>1 DEF IInv
  <2>3. pc'[a] = pc[a] /\ pc'[Receiver] = pc[Receiver]
    BY <1>9, <2>1
  <2>4. WrittenOf(a)'
    BY <1>10, <2>2, <2>3 DEF WrittenOf
  <2>5. TokenOf(a)'
    <3>1. \A j : NextWord(j) => NextWord(j)'
      BY <1>10 DEF NextWord, Value
    <3> QED BY <1>7, <1>10, <2>2, <2>3, <3>1 DEF TokenOf
  <2>6. IndexOf(a)'
    BY <1>7, <1>10, <2>2, <2>3 DEF IndexOf, Smaller
  <2> QED BY <2>1, <2>4, <2>5, <2>6
<1> QED BY <1>1, <1>11, <1>12, <1>13 DEF IInv

(* What is pending as a signal is that signal.                             *)
Labelled == \A x \in Procs, z \in Signals : pend[x][z] # None => pend[x][z].sig = z

LEMMA PostsLabel ==
  ASSUME IInv, Labelled, NEW x, NEW i \in Info, Post(x, i), i.sig \in Signals
  PROVE  Labelled'
BY Facts, NoneAssumption DEF Labelled, Post, BaseInv

LEMMA KillsLabel ==
  ASSUME IInv, Labelled, NEW x, NEW z \in Signals, NEW y \in Procs, Kill(x, z, y)
  PROVE  Labelled'
<1>1. PICK i \in Info : i = Signal(z, y, "user", None)
  BY InInfo
<1>2. i.sig = z /\ Post(x, i)
  BY <1>1 DEF Signal, Kill
<1> QED BY <1>2, PostsLabel

LEMMA TakesLabel ==
  ASSUME IInv, Labelled, NEW x, NEW z, Take(x, z)
  PROVE  Labelled'
BY Facts DEF Labelled, Take, BaseInv

LEMMA LabelledKept ==
  ASSUME IInv, Labelled, [Next]_vars PROVE Labelled'
<1> USE Facts DEF Signals
<1>1. ASSUME UNCHANGED pend PROVE Labelled'
  BY <1>1 DEF Labelled
<1>2. ASSUME NEW s \in Senders, SenderStep(s) PROVE Labelled'
  <2>1. CASE SendSize(s)
    <3>1. PICK i \in Info : i = Signal("USR1", s, "queue", size[s])
      BY InInfo
    <3>2. i.sig = "USR1" /\ Post(Receiver, i)
      BY <2>1, <3>1 DEF Signal, SendSize, Sigqueue
    <3> QED BY <3>2, PostsLabel
  <2>2. CASE SendData(s)
    <3>1. PICK i \in Info : i = Signal("USR2", s, "queue", Value(s, index[s]))
      BY InInfo
    <3>2. i.sig = "USR2" /\ Post(Receiver, i)
      BY <2>2, <3>1 DEF Signal, SendData, Sigqueue
    <3> QED BY <3>2, PostsLabel
  <2>3. CASE TakeAck(s) \/ TakeTerm(s)
    BY <2>3, TakesLabel DEF TakeAck, TakeTerm
  <2>4. CASE End(s)
    BY <1>2, <2>4, KillsLabel DEF End
  <2>5. CASE SendFails(s) \/ Clear(s) \/ SenderInt(s)
    BY <1>1, <2>5 DEF SendFails, Clear, SenderInt
  <2> QED BY <1>2, <2>1, <2>2, <2>3, <2>4, <2>5 DEF SenderStep
<1>3. ASSUME ReceiverStep PROVE Labelled'
  <2>1. CASE TakeSize \/ TakeOther \/ TakeWord \/ TakeIgnored
    BY <2>1, TakesLabel DEF TakeSize, TakeOther, TakeWord, TakeIgnored, ReceiverTakes
  <2>2. CASE Accept \/ Reject \/ Acknowledge \/ ReceiverInt
    BY <1>1, <2>2, KillsLabel DEF Accept, Reject, Acknowledge, ReceiverInt
  <2>3. CASE Store \/ Done
    BY <1>1, <2>3 DEF Store, Done
  <2> QED BY <1>3, <2>1, <2>2, <2>3 DEF ReceiverStep
<1>4. ASSUME NEW x \in Procs, CtrlC(x) \/ Reap(x) PROVE Labelled'
  BY <1>1, <1>4 DEF CtrlC, Reap
<1>5. ASSUME UNCHANGED vars PROVE Labelled'
  BY <1>1, <1>5 DEF vars
<1> QED BY <1>2, <1>3, <1>4, <1>5 DEF Next

LEMMA TakeAckKeeps == ASSUME IInv, Labelled, NEW s \in Senders, TakeAck(s) PROVE IInv'
<1> USE Facts
<1>1. BaseInv'
  BY SenderBase DEF SenderStep
<1>2. PICK sig \in {"USR1", "USR2"} : \E l \in SLabels :
        /\ pend[s][sig] # None /\ pend' = [pend EXCEPT ![s][sig] = None]
        /\ pc[s] \in {"wait_size", "wait_word", "wait_rest"} /\ pc' = [pc EXCEPT ![s] = l]
        /\ \/ l = pc[s]
           \/ l = "end" /\ pc[s] = "wait_rest" /\ sig = "USR2"
           \/ l = AfterAck(s) /\ pc[s] = "wait_word" /\ sig = "USR2"
           \/ l = AfterAck(s) /\ pc[s] = "wait_size" /\ sig = "USR1"
        /\ info'[Receiver] = info[Receiver]
        /\ UNCHANGED <<status, size, index, result, sender, rsize, received>>
  <2>1. PICK sig \in {"USR1", "USR2"} :
          LET i == pend[s][sig] IN
          /\ Take(s, sig)
          /\ info' = [info EXCEPT ![s] = i]
          /\ Goto(s, IF ~Ack(s, i) THEN pc[s] ELSE IF pc[s] = "wait_rest" THEN "end" ELSE AfterAck(s))
    BY DEF TakeAck
  <2>2. Ack(s, pend[s][sig]) => sig = IF pc[s] = "wait_size" THEN "USR1" ELSE "USR2"
    BY <2>1 DEF Ack, Labelled, Take, Signals
  <2>3. /\ pend[s][sig] # None /\ pend' = [pend EXCEPT ![s][sig] = None]
        /\ pc[s] \in {"wait_size", "wait_word", "wait_rest"} /\ info'[Receiver] = info[Receiver]
        /\ UNCHANGED <<status, size, index, result, sender, rsize, received>>
    BY <2>1 DEF TakeAck, Waiting, Take, BaseInv, svars, rvars
  <2>4. \E l \in SLabels :
          /\ pc' = [pc EXCEPT ![s] = l]
          /\ \/ l = pc[s]
             \/ l = "end" /\ pc[s] = "wait_rest" /\ sig = "USR2"
             \/ l = AfterAck(s) /\ pc[s] = "wait_word" /\ sig = "USR2"
             \/ l = AfterAck(s) /\ pc[s] = "wait_size" /\ sig = "USR1"
    BY <2>1, <2>2, <2>3 DEF Goto, SLabels, AfterAck
  <2> QED BY <2>3, <2>4
<1>3. PICK l \in SLabels :
        /\ pc' = [pc EXCEPT ![s] = l]
        /\ \/ l = pc[s]
           \/ l = "end" /\ pc[s] = "wait_rest" /\ sig = "USR2"
           \/ l = AfterAck(s) /\ pc[s] = "wait_word" /\ sig = "USR2"
           \/ l = AfterAck(s) /\ pc[s] = "wait_size" /\ sig = "USR1"
  BY <1>2
<1>4. /\ \A z \in Signals : pend'[s][z] = IF z = sig THEN None ELSE pend[s][z]
      /\ \A x \in Procs \ {s} : pend'[x] = pend[x] /\ pc'[x] = pc[x]
      /\ pc'[s] = l
  BY <1>2, <1>3 DEF BaseInv
<1>5. s = sender /\ sender' = sender /\ sender # None
  BY <1>2 DEF IInv, Strangers
<1>6. N' = N /\ Running(Receiver)' = Running(Receiver)
  BY <1>2 DEF N, Running
<1>7. WrittenOf(s) /\ TokenOf(s) /\ IndexOf(s)
  BY <1>5 DEF IInv
<1>8. Strangers'
  BY <1>2, <1>4, <1>5 DEF IInv, Strangers
<1>9. Unasked'
  BY <1>2, <1>4, <1>5, <1>6 DEF IInv, Unasked
<1>10. WrittenOf(s)'
  BY <1>2, <1>4, <1>6, <1>7 DEF WrittenOf
<1>11. pend[s]["USR1"] # None => pc[s] = "wait_size"
  BY <1>7 DEF TokenOf
<1>12. AfterAck(s) \in {"send_word", "send_rest"} /\ (AfterAck(s) = "send_rest" => index[s] + Word > size[s])
  BY DEF AfterAck
<1>13. TokenOf(s)'
  <2>1. \A j : NextWord(j) => NextWord(j)'
    BY <1>2, <1>6 DEF NextWord, Value
  <2>2. CASE l = pc[s]
    BY <1>2, <1>4, <1>6, <1>7, <2>1, <2>2 DEF TokenOf, Signals
  <2>3. CASE l # pc[s] /\ sig = "USR1"
    BY <1>2, <1>3, <1>4, <1>6, <1>7, <1>12, <2>1, <2>3 DEF TokenOf, Signals
  <2>4. CASE l # pc[s] /\ sig = "USR2"
    BY <1>2, <1>3, <1>4, <1>6, <1>7, <1>12, <2>1, <2>4 DEF TokenOf, Signals
  <2> QED BY <2>2, <2>3, <2>4
<1>14. IndexOf(s)'
  <2>1. pc'[s] = "send_rest" => index[s] + Word > size[s]
    BY <1>2, <1>3, <1>4, <1>7, <1>12 DEF IndexOf
  <2>2. pc'[s] = "wait_rest" => pc[s] = "wait_rest"
    BY <1>2, <1>3, <1>4, <1>12
  <2>3. pc'[s] = "end" => pc[s] = "wait_rest" /\ pend[s]["USR2"] # None
    BY <1>2, <1>3, <1>4, <1>12
  <2>4. pend'[s]["USR2"] # None => pend[s]["USR2"] # None
    BY <1>4 DEF Signals
  <2> QED BY <1>2, <1>4, <1>6, <1>7, <2>1, <2>2, <2>3, <2>4 DEF IndexOf, Smaller
<1> QED BY <1>1, <1>5, <1>8, <1>9, <1>10, <1>13, <1>14 DEF IInv

LEMMA SendDataKeeps == ASSUME IInv, NEW s \in Senders, SendData(s) PROVE IInv'
<1> USE Facts
<1>1. BaseInv'
  BY SenderBase DEF SenderStep
<1>2. /\ pc[s] \in {"send_word", "send_rest"}
      /\ pc' = [pc EXCEPT ![s] = IF pc[s] = "send_word" THEN "wait_word" ELSE "wait_rest"]
      /\ index' = [index EXCEPT ![s] = Smaller(index[s] + Word, size[s])]
      /\ UNCHANGED <<status, size, info, result, sender, rsize, received>>
      /\ Post(Receiver, Signal("USR2", s, "queue", Value(s, index[s])))
  BY DEF SendData, Goto, Sigqueue, rvars
<1>3. s = sender /\ sender' = sender /\ sender # None
  BY <1>2 DEF IInv, Strangers
<1>4. WrittenOf(s) /\ TokenOf(s) /\ IndexOf(s)
  BY <1>3 DEF IInv
<1>5. PICK i \in Info : i = Signal("USR2", s, "queue", Value(s, index[s]))
  BY InInfo
<1>6. i.sig = "USR2" /\ i.pid = s /\ i.code = "queue" /\ i.val = Value(s, index[s])
  BY <1>5 DEF Signal
<1>7. /\ \A x \in Senders, z \in Signals : pend'[x][z] = pend[x][z]
      /\ pend'[Receiver]["USR1"] = pend[Receiver]["USR1"]
      /\ pend'[Receiver]["USR2"] = IF Running(Receiver) THEN i ELSE None
  <2>1. i.sig \in Signals /\ Post(Receiver, i)
    BY <1>2, <1>5, <1>6 DEF Signals
  <2>2. pend[Receiver]["USR2"] = None
    BY <1>2, <1>4 DEF TokenOf
  <2> QED BY <1>6, <2>1, <2>2, Posted DEF Signals
<1>8. /\ N' = N /\ Running(Receiver)' = Running(Receiver) /\ info'[Receiver] = info[Receiver]
      /\ pc'[Receiver] = pc[Receiver] /\ pc'[s] \in {"wait_word", "wait_rest"}
      /\ index'[s] = Smaller(index[s] + Word, size[s])
      /\ \A q \in Senders \ {s} : pc'[q] = pc[q] /\ index'[q] = index[q]
  BY <1>2 DEF N, Running, BaseInv
<1>9. Strangers'
  BY <1>2, <1>3, <1>7, <1>8 DEF IInv, Strangers, Signals
<1>10. Unasked'
  BY <1>2, <1>3, <1>8 DEF IInv, Unasked
<1>11. WrittenOf(s)'
  BY <1>2, <1>4, <1>8 DEF WrittenOf
<1>12. pc[Receiver] \in {"loop2", "reject", "done"} /\ i # None
  BY <1>2, <1>3, <1>4, NoneAssumption DEF TokenOf, IInv, Unasked, BaseInv, RLabels
<1>13. TokenOf(s)'
  <2>1. Running(Receiver) /\ pc[Receiver] # "done" => index[s] = N
    BY <1>2, <1>4, <1>12 DEF TokenOf, IndexOf
  <2>2. Running(Receiver) /\ pc[Receiver] # "done" => NextWord(i)'
    BY <1>2, <1>3, <1>6, <1>8, <2>1 DEF NextWord, Value
  <2> QED BY <1>2, <1>4, <1>6, <1>7, <1>8, <1>12, <2>2 DEF TokenOf, Signals
<1>14. IndexOf(s)'
  <2>1. pend[s]["USR2"] = None /\ pend[Receiver]["USR2"] = None
    BY <1>2, <1>4 DEF TokenOf
  <2>2. pc'[s] = "wait_rest" => index'[s] = size[s]
    BY <1>2, <1>4, <1>8 DEF IndexOf, Smaller
  <2>3. result[s] # "ok"
    BY <1>2, <1>4 DEF IndexOf
  <2>4. Running(Receiver) /\ pc[Receiver] \in {"loop2", "reject"} => index'[s] = Smaller(N + Word, size[s])
    BY <1>4, <1>8, <2>1 DEF IndexOf
  <2> QED BY <1>2, <1>7, <1>8, <1>12, <2>1, <2>2, <2>3, <2>4 DEF IndexOf, Signals, Smaller
<1> QED BY <1>1, <1>3, <1>9, <1>10, <1>11, <1>13, <1>14 DEF IInv

LEMMA TakeWordKeeps == ASSUME IInv, TakeWord PROVE IInv'
<1> USE Facts
<1>1. /\ BaseInv' /\ pc[Receiver] = "loop2" /\ pc'[Receiver] = "usr2" /\ Running(Receiver)
      /\ info'[Receiver] = pend[Receiver]["USR2"] /\ pend[Receiver]["USR2"] # None
      /\ \A s \in Senders : pc'[s] = pc[s] /\ pend'[s] = pend[s]
      /\ pend'[Receiver]["USR2"] = None /\ pend'[Receiver]["USR1"] = pend[Receiver]["USR1"]
      /\ UNCHANGED <<status, size, index, result, sender, rsize, received>>
  BY ReceiverTook DEF TakeWord, Signals, RLabels, svars, rvars
<1>2. PICK a \in Senders : a = sender /\ a = sender' /\ sender # None
  BY <1>1 DEF IInv, Unasked, BaseInv
<1>3. WrittenOf(a) /\ TokenOf(a) /\ IndexOf(a)
  BY <1>2 DEF IInv
<1>4. N' = N /\ Running(Receiver)' = Running(Receiver)
  BY <1>1 DEF N, Running
<1>5. NextWord(info[Receiver])'
  BY <1>1, <1>3, <1>4 DEF TokenOf, NextWord, Value
<1>6. Strangers' /\ Unasked'
  BY <1>1, <1>2 DEF IInv, Strangers, Unasked
<1>7. WrittenOf(a)'
  BY <1>1, <1>3, <1>4 DEF WrittenOf
<1>8. TokenOf(a)'
  BY <1>1, <1>3, <1>4, <1>5 DEF TokenOf
<1>9. IndexOf(a)'
  BY <1>1, <1>3, <1>4 DEF IndexOf, Smaller
<1> QED BY <1>1, <1>2, <1>6, <1>7, <1>8, <1>9 DEF IInv

LEMMA StoreKeeps == ASSUME IInv, Store PROVE IInv'
<1> USE Facts
<1>1. BaseInv'
  BY ReceiverBase DEF ReceiverStep
<1>2. /\ pc[Receiver] = "usr2" /\ pc'[Receiver] = "ack2" /\ Running(Receiver)
      /\ \A s \in Senders : pc'[s] = pc[s]
      /\ UNCHANGED <<status, pend, size, index, result, info, sender, rsize>>
  BY DEF Store, At, Goto, BaseInv, svars
<1>3. PICK a \in Senders : a = sender /\ a = sender' /\ sender # None
  BY <1>2, StoredWord
<1>4. WrittenOf(a) /\ TokenOf(a) /\ IndexOf(a)
  BY <1>3 DEF IInv
<1>5. /\ N < rsize /\ rsize <= size[a]
      /\ N' = IF N + Word - 1 < rsize THEN N + Word ELSE rsize
      /\ \A k \in 1 .. N' : received'[k] = <<a, k>>
  BY <1>3, StoredWord DEF N
<1>6. N' \in Nat /\ N' <= rsize /\ N' <= size[a]
  BY <1>5
<1>7. rsize = size[a] \/ rsize + Word <= size[a]
  BY <1>2, <1>4 DEF WrittenOf
<1>8. pend[Receiver]["USR2"] = None /\ index[a] = Smaller(N + Word, size[a])
  BY <1>2, <1>4 DEF TokenOf, IndexOf
<1>9. /\ index[a] - N' \in 0 .. Word /\ (N' < rsize => index[a] = N')
      /\ index[a] = size[a] => N' = size[a]
  BY <1>5, <1>7, <1>8 DEF Smaller
<1>10. Strangers' /\ Unasked'
  BY <1>2, <1>3 DEF IInv, Strangers, Unasked
<1>11. WrittenOf(a)'
  BY <1>2, <1>5, <1>6, <1>7 DEF WrittenOf
<1>12. TokenOf(a)'
  BY <1>2, <1>4, <1>8 DEF TokenOf
<1>13. IndexOf(a)'
  <2>1. pc[a] # "end"
    BY <1>2, <1>4 DEF TokenOf
  <2> QED BY <1>2, <1>4, <1>9, <2>1 DEF IndexOf
<1> QED BY <1>1, <1>3, <1>10, <1>11, <1>12, <1>13 DEF IInv

LEMMA AcknowledgeKeeps == ASSUME IInv, Acknowledge PROVE IInv'
<1> USE Facts
<1>1. BaseInv'
  BY ReceiverBase DEF ReceiverStep
<1>2. /\ pc[Receiver] \in {"ack1", "ack2"} /\ Running(Receiver)
      /\ pc' = [pc EXCEPT ![Receiver] = IF N = rsize THEN "done" ELSE "loop2"]
      /\ UNCHANGED <<status, size, index, result, info, sender, rsize, received>>
  BY DEF Acknowledge, Goto, svars, rvars, N
<1>3. PICK a \in Senders : a = sender /\ a = sender' /\ sender # None
  BY <1>2 DEF IInv, Unasked, BaseInv
<1>4. WrittenOf(a) /\ TokenOf(a) /\ IndexOf(a)
  BY <1>3 DEF IInv
<1>5. PICK sig \in Signals : /\ sig = IF pc[Receiver] = "ack1" THEN "USR1" ELSE "USR2"
                             /\ Post(a, Signal(sig, Receiver, "user", None))
  BY <1>3 DEF Acknowledge, Kill, Signals
<1>6. \A x \in Procs, z \in Signals : x # a \/ z # sig => pend'[x][z] = pend[x][z]
  <2>1. PICK i \in Info : i = Signal(sig, Receiver, "user", None)
    BY InInfo
  <2>2. i.sig = sig /\ Post(a, i)
    BY <1>5, <2>1 DEF Signal
  <2> QED BY <2>2, Posted
<1>7. /\ N' = N /\ Running(Receiver)' = Running(Receiver) /\ \A s \in Senders : pc'[s] = pc[s]
      /\ pc'[Receiver] = IF N = rsize THEN "done" ELSE "loop2"
  BY <1>2 DEF N, Running, BaseInv
<1>8. /\ \A s \in Senders \ {a} : pend'[s]["USR1"] = pend[s]["USR1"] /\ pend'[s]["USR2"] = pend[s]["USR2"]
      /\ pend'[Receiver]["USR2"] = pend[Receiver]["USR2"]
      /\ pc[Receiver] = "ack1" => pend'[a]["USR2"] = pend[a]["USR2"]
      /\ pc[Receiver] = "ack2" => pend'[a]["USR1"] = pend[a]["USR1"]
  BY <1>2, <1>5, <1>6 DEF Signals
<1>9. /\ pc[Receiver] = "ack1" => pc[a] = "wait_size" /\ N < rsize
      /\ pc[Receiver] = "ack2" => pc[a] \in {"wait_word", "wait_rest"} /\ pend[Receiver]["USR2"] = None
                                  /\ N <= rsize
  BY <1>4 DEF TokenOf, WrittenOf, BaseInv, SLabels
<1>10. Strangers' /\ Unasked'
  BY <1>2, <1>3, <1>7, <1>8 DEF IInv, Strangers, Unasked
<1>11. WrittenOf(a)'
  BY <1>2, <1>4, <1>7, <1>9 DEF WrittenOf
<1>12. TokenOf(a)'
  BY <1>2, <1>4, <1>7, <1>8, <1>9 DEF TokenOf
<1>13. IndexOf(a)'
  BY <1>2, <1>4, <1>7, <1>8, <1>9 DEF IndexOf, TokenOf, Smaller
<1> QED BY <1>1, <1>3, <1>10, <1>11, <1>12, <1>13 DEF IInv
-----------------------------------------------------------------------------
FullInv == IInv /\ Labelled

LEMMA Invariance == Spec => []FullInv
<1>1. Init => FullInv
  BY InitIInv DEF FullInv, Labelled, Init
<1>2. FullInv /\ [Next]_vars => FullInv'
  <2> SUFFICES ASSUME IInv, Labelled, [Next]_vars PROVE IInv'
    BY LabelledKept DEF FullInv
  <2>1. CASE \E s \in Senders : SenderStep(s)
    BY <2>1, QuietSender, SendSizeKeeps, SendDataKeeps, TakeAckKeeps DEF SenderStep
  <2>2. CASE ReceiverStep
    BY <2>2, QuietReceiver, TakeSizeKeeps, AcceptKeeps, TakeWordKeeps, StoreKeeps, AcknowledgeKeeps
       DEF ReceiverStep
  <2>3. CASE (\E x \in Procs : CtrlC(x) \/ Reap(x)) \/ UNCHANGED vars
    BY <2>3, QuietOthers
  <2> QED BY <2>1, <2>2, <2>3 DEF Next
<1> QED BY <1>1, <1>2, PTL DEF Spec

(* Every variable of the two programs stays in its range: no sender sends  *)
(* past the end of its file, and the size survives its trip through si_int *)
(* as an int.                                                              *)
THEOREM TypeCorrect == Spec => []TypeOK
<1>1. FullInv => TypeOK
  <2> SUFFICES ASSUME IInv PROVE TypeOK
    BY DEF FullInv
  <2>1. \A x \in Procs : DOMAIN pend[x] = Signals
    BY Facts DEF BaseInv
  <2>2. \A k \in DOMAIN received : received[k] \in Senders \X Nat
    BY Facts DEF BaseInv
  <2>3. \A s \in Senders : index[s] \in 0 .. size[s]
    BY Facts
  <2> QED BY <2>1, <2>2, <2>3, Facts DEF BaseInv, TypeOK, RLabels, SLabels
<1> QED BY <1>1, Invariance, PTL

(* What is written is what the accepted sender has in the same place.      *)
LEMMA WrittenIsFile ==
  ASSUME IInv, sender # None
  PROVE  sender \in Senders /\ SubSeq(File(sender), 1, N) = received
<1> USE Facts
<1>1. PICK a \in Senders : a = sender
  BY DEF BaseInv
<1>2. N <= size[a] /\ \A k \in 1 .. N : received[k] = <<a, k>>
  BY <1>1 DEF IInv, WrittenOf
<1>3. \A k \in 1 .. N : File(a)[k] = <<a, k>> /\ File(a)[k] \in Senders \X Nat
  BY <1>2 DEF File
<1>4. PICK f : f = File(a)
  OBVIOUS
<1>5. 1 \in Int /\ N \in Int /\ \A k \in 1 .. N : f[k] \in Senders \X Nat
  BY <1>3, <1>4
<1>6. PICK t \in Seq(Senders \X Nat) : t = SubSeq(f, 1, N)
  BY <1>5, SubSeqProperties
<1>7. Len(t) = N /\ \A k \in 1 .. N : t[k] = f[k]
  <2>1. /\ Len(t) = IF 1 <= N THEN N - 1 + 1 ELSE 0
        /\ \A k \in 1 .. N - 1 + 1 : t[k] = f[1 + k - 1]
    BY <1>5, <1>6, SubSeqProperties
  <2>2. \A k \in 1 .. N : k \in 1 .. N - 1 + 1 /\ 1 + k - 1 = k
    OBVIOUS
  <2> QED BY <2>1, <2>2
<1>8. \A k \in 1 .. N : t[k] = received[k]
  BY <1>2, <1>3, <1>4, <1>7
<1>9. t = received
  BY <1>7, <1>8, SeqEqual DEF BaseInv, N
<1> QED BY <1>1, <1>4, <1>6, <1>9

(* The receiver's file is the beginning of the accepted sender's, whatever *)
(* other senders and whoever presses Ctrl-C do in between.                 *)
THEOREM Prefix == Spec => []PrefixCorrect
<1>1. FullInv => PrefixCorrect
  BY WrittenIsFile DEF FullInv, PrefixCorrect, N
<1> QED BY <1>1, Invariance, PTL

(* The acknowledgements keep one word under way: no SIGUSR2 meets another  *)
(* that is pending, where it would be lost.                                *)
THEOREM OneWord == Spec => []StopAndWait
<1>1. FullInv => StopAndWait
  <2> SUFFICES ASSUME IInv PROVE StopAndWait
    BY DEF FullInv
  <2> USE Facts
  <2>1. CASE sender = None
    BY <2>1 DEF IInv, Unasked, StopAndWait
  <2>2. CASE sender # None
    <3>1. PICK a \in Senders : a = sender
      BY <2>2 DEF BaseInv
    <3>2. WrittenOf(a) /\ TokenOf(a) /\ IndexOf(a)
      BY <2>2, <3>1 DEF IInv
    <3>3. pend[Receiver]["USR2"] # None =>
            /\ pend[Receiver]["USR2"].pid = a /\ pc[a] \in {"wait_word", "wait_rest"}
            /\ pend[a]["USR2"] = None /\ pc[Receiver] \notin {"usr2", "ack2"}
      BY <3>2 DEF TokenOf, BaseInv, SLabels
    <3>4. ASSUME Running(Receiver), pc[Receiver] # "done" PROVE index[a] - N \in 0 .. Word
      <4>1. pc[Receiver] \in {"ack1", "loop2", "reject", "usr2", "ack2"}
        BY <2>2, <3>4 DEF IInv, Unasked, BaseInv, RLabels
      <4>2. CASE pc[Receiver] = "ack2"
        BY <3>2, <3>4, <4>2 DEF IndexOf
      <4>3. CASE pc[Receiver] # "ack2"
        <5>1. index[a] \in {N, Smaller(N + Word, size[a])}
          BY <3>2, <3>4, <4>1, <4>3 DEF IndexOf
        <5>2. N <= size[a]
          BY <3>2 DEF WrittenOf
        <5> QED BY <5>1, <5>2 DEF Smaller
      <4> QED BY <4>2, <4>3
    <3> QED BY <3>1, <3>3, <3>4 DEF StopAndWait, N
  <2> QED BY <2>1, <2>2
<1> QED BY <1>1, Invariance, PTL

(* Of several senders one is accepted, and the others never send a word.   *)
THEOREM SingleSender == Spec => []OneSender
<1>1. FullInv => OneSender
  BY DEF FullInv, IInv, Strangers, OneSender
<1> QED BY <1>1, Invariance, PTL

(* A sender that exits with success has had its whole file written, also   *)
(* when its size did not fit into si_int.                                  *)
THEOREM Complete == Spec => []OkMeansComplete
<1>1. FullInv => OkMeansComplete
  <2> SUFFICES ASSUME IInv, NEW s \in Senders, result[s] = "ok" PROVE received = File(s)
    BY DEF FullInv, OkMeansComplete
  <2> USE Facts
  <2>1. s = sender /\ sender # None
    BY DEF IInv, Strangers
  <2>2. N = size[s]
    BY <2>1 DEF IInv, IndexOf
  <2>3. \A k \in 1 .. N : received[k] = <<s, k>>
    BY <2>1 DEF IInv, WrittenOf
  <2>4. received = [k \in 1 .. N |-> received[k]]
    BY DEF BaseInv, N
  <2> QED BY <2>2, <2>3, <2>4 DEF File
<1> QED BY <1>1, Invariance, PTL
=============================================================================
