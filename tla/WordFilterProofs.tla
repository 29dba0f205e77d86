-------------------------- MODULE WordFilterProofs --------------------------
(***************************************************************************)
(* The output of BIZZBUZZ, for any files and any size of the buffer.       *)
(***************************************************************************)
EXTENDS WordFilter, SequenceTheorems, WellFoundedInduction, TLAPS

(* Numbers                                                                 *)

LEMMA Smallest ==
  ASSUME NEW S, S \subseteq Nat, S # {}
  PROVE  \E x \in S : \A y \in S : x <= y
<1>1. PICK x \in S : \A y \in S : <<y, x>> \notin OpToRel(<, Nat)
  BY NatLessThanWellFounded, WFMin, Zenon
<1>2. \A y \in S : x <= y
  <2> SUFFICES ASSUME NEW y \in S PROVE x <= y
    OBVIOUS
  <2>1. x \in Nat /\ y \in Nat
    OBVIOUS
  <2>2. ~ (y < x)
    BY <1>1, <2>1 DEF OpToRel
  <2> QED BY <2>1, <2>2
<1> QED BY <1>2

LEMMA Induction ==
  ASSUME NEW S, NEW n \in Nat, 0 \in S, \A k \in 1 .. n : k - 1 \in S => k \in S
  PROVE  0 .. n \subseteq S
<1> SUFFICES ASSUME NEW k \in 0 .. n, k \notin S PROVE FALSE
  OBVIOUS
<1>1. PICK m \in (0 .. n) \ S : \A y \in (0 .. n) \ S : m <= y
  <2>1. (0 .. n) \ S \subseteq Nat /\ (0 .. n) \ S # {}
    OBVIOUS
  <2> QED BY <2>1, Smallest
<1>2. m \in 1 .. n /\ m - 1 \in 0 .. n /\ m - 1 < m
  BY <1>1
<1>3. m - 1 \in S
  BY <1>1, <1>2
<1> QED BY <1>1, <1>2, <1>3

(* A function that is defined by recursion on 0 .. n exists.               *)
Steps(n, T) == [(1 .. n) \X T -> T]

Computed(n, T, base, next) ==
  \E f \in [0 .. n -> T] : f[0] = base /\ \A k \in 1 .. n : f[k] = next[<<k, f[k - 1]>>]

LEMMA Recursion ==
  ASSUME NEW n \in Nat, NEW T, NEW base \in T, NEW next \in Steps(n, T)
  PROVE  Computed(n, T, base, next)
<1> USE DEF Steps, Computed
<1> DEFINE upTo(m) == \E f \in [0 .. m -> T] : /\ f[0] = base
                                               /\ \A k \in 1 .. m : f[k] = next[<<k, f[k - 1]>>]
           S == {m \in 0 .. n : upTo(m)}
<1>1. upTo(0)
  <2>1. PICK f \in [0 .. 0 -> T] : f[0] = base
    <3>1. [k \in 0 .. 0 |-> base] \in [0 .. 0 -> T] /\ [k \in 0 .. 0 |-> base][0] = base
      OBVIOUS
    <3> QED BY <3>1
  <2>2. \A k \in 1 .. 0 : f[k] = next[<<k, f[k - 1]>>]
    OBVIOUS
  <2> QED BY <2>1, <2>2
<1>2. ASSUME NEW m \in 1 .. n, upTo(m - 1) PROVE upTo(m)
  <2>1. PICK f \in [0 .. m - 1 -> T] : f[0] = base /\ \A k \in 1 .. m - 1 : f[k] = next[<<k, f[k - 1]>>]
    BY <1>2
  <2> DEFINE g == [k \in 0 .. m |-> IF k = m THEN next[<<m, f[m - 1]>>] ELSE f[k]]
  <2>2. m - 1 \in 0 .. m - 1 /\ \A k \in 0 .. m : k # m => k \in 0 .. m - 1
    OBVIOUS
  <2>3. f[m - 1] \in T
    BY <2>2
  <2>4. next[<<m, f[m - 1]>>] \in T
    BY <2>3
  <2>5. g \in [0 .. m -> T]
    BY <2>2, <2>4
  <2>6. g[0] = base
    BY <2>1
  <2>7. ASSUME NEW k \in 1 .. m PROVE g[k] = next[<<k, g[k - 1]>>]
    <3>1. k - 1 \in 0 .. m /\ k - 1 # m /\ k \in 0 .. m
      OBVIOUS
    <3>2. g[k - 1] = f[k - 1]
      BY <3>1
    <3>3. CASE k = m
      BY <3>1, <3>2, <3>3
    <3>4. CASE k # m
      <4>1. k \in 1 .. m - 1 /\ g[k] = f[k]
        BY <3>1, <3>4
      <4> QED BY <2>1, <3>2, <4>1
    <3> QED BY <3>3, <3>4
  <2> QED BY <2>5, <2>6, <2>7
<1>3. 0 .. n \subseteq S
  <2>1. 0 \in S
    BY <1>1
  <2>2. ASSUME NEW k \in 1 .. n, k - 1 \in S PROVE k \in S
    <3>1. upTo(k - 1)
      BY <2>2
    <3>2. upTo(k)
      BY <1>2, <3>1
    <3> QED BY <3>2
  <2> HIDE DEF S
  <2> QED BY <2>1, <2>2, Induction
<1> QED BY <1>3
-----------------------------------------------------------------------------
(* Words                                                                   *)

(* find_word returns the length of the longest beginning of one kind.      *)
LEMMA LengthOf ==
  ASSUME NEW w \in Seq(Chars), w # <<>>
  PROVE  /\ Length(w) \in 1 .. Len(w)
         /\ \A k \in 1 .. Length(w) : (w[k] = Space) = (w[1] = Space)
         /\ Length(w) < Len(w) => (w[Length(w) + 1] = Space) # (w[1] = Space)
<1> DEFINE I == {k \in 1 .. Len(w) : (w[k] = Space) # (w[1] = Space)}
           other == IF I # {} THEN Sx!Min(I) ELSE 0
<1>1. Length(w) = IF other = 0 THEN Len(w) ELSE other - 1
  BY DEF Length, Sx!SelectInSeq
<1>2. Len(w) \in Nat \ {0}
  BY EmptySeq, LenProperties
<1>3. CASE I = {}
  BY <1>1, <1>2, <1>3
<1>4. CASE I # {}
  <2>1. \E m \in I : \A k \in I : m <= k
    <3>1. I \subseteq Nat
      OBVIOUS
    <3> HIDE DEF I
    <3> QED BY <1>4, <3>1, Smallest
  <2>2. other \in I /\ \A k \in I : other <= k
    BY <1>4, <2>1 DEF Sx!Min
  <2>3. other \in 2 .. Len(w)
    BY <1>2, <2>2
  <2> HIDE DEF other
  <2>4. Length(w) = other - 1
    BY <1>1, <2>3
  <2>5. \A k \in 1 .. other - 1 : k \notin I
    BY <2>2, <2>3
  <2> QED BY <2>2, <2>3, <2>4, <2>5
<1> QED BY <1>3, <1>4

LEMMA DigitsOf ==
  ASSUME NEW w \in Seq(Chars)
  PROVE  /\ Digits(w) \in Seq(Digit)
         /\ Digits(w) = w <=> \A k \in 1 .. Len(w) : w[k] \in Digit
<1> DEFINE I == {k \in 1 .. Len(w) : w[k] \notin Digit}
           other == IF I # {} THEN Sx!Min(I) ELSE 0
<1>1. Digits(w) = IF other = 0 THEN w ELSE SubSeq(w, 1, other - 1)
  BY DEF Digits, Sx!SelectInSeq
<1>2. Len(w) \in Nat /\ \A k \in 1 .. Len(w) : w[k] \in Chars
  BY LenProperties, ElementOfSeq
<1>3. CASE I = {}
  <2>1. Digits(w) = w /\ \A k \in 1 .. Len(w) : w[k] \in Digit
    BY <1>1, <1>3
  <2>2. w \in Seq(Digit)
    <3>1. w = [k \in 1 .. Len(w) |-> w[k]]
      BY LenProperties
    <3>2. w \in [1 .. Len(w) -> Digit]
      BY <2>1, <3>1
    <3> QED BY <1>2, <3>2, SeqDef
  <2> QED BY <2>1, <2>2
<1>4. CASE I # {}
  <2>1. \E m \in I : \A k \in I : m <= k
    <3>1. I \subseteq Nat
      OBVIOUS
    <3> HIDE DEF I
    <3> QED BY <1>4, <3>1, Smallest
  <2>2. other \in I /\ \A k \in I : other <= k
    BY <1>4, <2>1 DEF Sx!Min
  <2>3. other \in 1 .. Len(w)
    BY <2>2
  <2> HIDE DEF other
  <2>4. Digits(w) = SubSeq(w, 1, other - 1)
    BY <1>1, <2>3
  <2>5. \A k \in 1 .. other - 1 : w[k] \in Digit
    BY <2>2, <2>3
  <2>6. Digits(w) \in Seq(Digit) /\ Len(Digits(w)) = other - 1
    <3>1. SubSeq(w, 1, other - 1) \in Seq(Digit)
      BY <2>3, <2>5, SubSeqProperties
    <3>2. Len(SubSeq(w, 1, other - 1)) = other - 1
      BY <1>2, <2>3, SubSeqProperties
    <3> QED BY <2>4, <3>1, <3>2
  <2>7. Digits(w) # w /\ w[other] \notin Digit
    BY <1>2, <2>2, <2>3, <2>6
  <2> QED BY <2>3, <2>6, <2>7
<1> QED BY <1>3, <1>4

LEMMA RemainderOf ==
  ASSUME NEW u \in Seq(Digit), NEW r \in 0 .. 2
  PROVE  \E mod \in [0 .. Len(u) -> 0 .. 2] :
           /\ mod[0] = r /\ \A k \in 1 .. Len(u) : mod[k] = (u[k] + mod[k - 1]) % 3
           /\ Remainder(r, u) = mod[Len(u)]
<1>1. Len(u) \in Nat /\ \A k \in 1 .. Len(u) : u[k] \in Digit
  BY LenProperties, ElementOfSeq
<1> DEFINE next == [x \in (1 .. Len(u)) \X (0 .. 2) |-> (u[x[1]] + x[2]) % 3]
<1>2. next \in Steps(Len(u), 0 .. 2)
  BY <1>1 DEF Digit, Steps
<1>3. PICK f \in [0 .. Len(u) -> 0 .. 2] :
         f[0] = r /\ \A k \in 1 .. Len(u) : f[k] = next[<<k, f[k - 1]>>]
  <2> HIDE DEF next
  <2>1. Computed(Len(u), 0 .. 2, r, next)
    BY <1>1, <1>2, Recursion
  <2> QED BY <2>1 DEF Computed
<1>4. ASSUME NEW k \in 1 .. Len(u) PROVE f[k] = (u[k] + f[k - 1]) % 3
  <2>1. k - 1 \in 0 .. Len(u)
    BY <1>1
  <2>2. <<k, f[k - 1]>> \in (1 .. Len(u)) \X (0 .. 2)
    BY <2>1
  <2>3. next[<<k, f[k - 1]>>] = (u[k] + f[k - 1]) % 3
    BY <2>2
  <2> QED BY <1>3, <2>3
<1> DEFINE mod == CHOOSE mod : mod = [k \in 0 .. Len(u) |-> IF k = 0 THEN r ELSE (u[k] + mod[k - 1]) % 3]
<1>5. f = [k \in 0 .. Len(u) |-> IF k = 0 THEN r ELSE (u[k] + f[k - 1]) % 3]
  BY <1>1, <1>3, <1>4
<1>6. mod = [k \in 0 .. Len(u) |-> IF k = 0 THEN r ELSE (u[k] + mod[k - 1]) % 3]
  BY <1>5
<1>7. Remainder(r, u) = mod[Len(u)]
  BY DEF Remainder
<1> HIDE DEF mod
<1>8. mod[0] = r /\ \A k \in 1 .. Len(u) : mod[k] = (u[k] + mod[k - 1]) % 3
  BY <1>1, <1>6
<1>9. \A k \in 0 .. Len(u) : mod[k] \in 0 .. 2
  <2> DEFINE S == {k \in 0 .. Len(u) : mod[k] \in 0 .. 2}
  <2>1. 0 \in S
    BY <1>1, <1>8
  <2>2. ASSUME NEW k \in 1 .. Len(u), k - 1 \in S PROVE k \in S
    <3>1. mod[k - 1] \in 0 .. 2 /\ u[k] \in 0 .. 9 /\ k \in 0 .. Len(u)
      BY <1>1, <2>2 DEF Digit
    <3>2. (u[k] + mod[k - 1]) % 3 \in 0 .. 2
      BY <3>1
    <3> QED BY <1>8, <3>1, <3>2
  <2>3. 0 .. Len(u) \subseteq S
    <3> HIDE DEF S
    <3> QED BY <1>1, <2>1, <2>2, Induction
  <2> QED BY <2>3
<1>10. mod \in [0 .. Len(u) -> 0 .. 2]
  BY <1>6, <1>9
<1> QED BY <1>7, <1>8, <1>10

LEMMA ValueOf ==
  ASSUME NEW w, Unsigned(w) \in Seq(Digit)
  PROVE  \E value \in [0 .. Len(Unsigned(w)) -> Nat] :
           /\ value[0] = 0
           /\ \A k \in 1 .. Len(Unsigned(w)) : value[k] = 10 * value[k - 1] + Unsigned(w)[k]
           /\ Value(w) = value[Len(Unsigned(w))]
<1> DEFINE u == Unsigned(w)
<1>1. u \in Seq(Digit) /\ Len(u) \in Nat /\ \A k \in 1 .. Len(u) : u[k] \in Digit
  BY LenProperties, ElementOfSeq
<1> HIDE DEF u
<1> DEFINE next == [x \in (1 .. Len(u)) \X Nat |-> 10 * x[2] + u[x[1]]]
<1>2. next \in Steps(Len(u), Nat)
  <2>1. ASSUME NEW x \in (1 .. Len(u)) \X Nat PROVE 10 * x[2] + u[x[1]] \in Nat
    <3>1. x[2] \in Nat /\ u[x[1]] \in 0 .. 9
      BY <1>1 DEF Digit
    <3>2. \A v \in Nat, d \in 0 .. 9 : 10 * v + d \in Nat
      OBVIOUS
    <3> QED BY <3>1, <3>2
  <2> QED BY <2>1 DEF Steps
<1>3. PICK f \in [0 .. Len(u) -> Nat] :
         f[0] = 0 /\ \A k \in 1 .. Len(u) : f[k] = next[<<k, f[k - 1]>>]
  <2> HIDE DEF next
  <2>1. Computed(Len(u), Nat, 0, next)
    BY <1>1, <1>2, Recursion
  <2> QED BY <2>1 DEF Computed
<1>4. ASSUME NEW k \in 1 .. Len(u) PROVE f[k] = 10 * f[k - 1] + u[k]
  <2>1. k - 1 \in 0 .. Len(u)
    BY <1>1
  <2>2. <<k, f[k - 1]>> \in (1 .. Len(u)) \X Nat
    BY <2>1
  <2>3. next[<<k, f[k - 1]>>] = 10 * f[k - 1] + u[k]
    BY <2>2
  <2> QED BY <1>3, <2>3
<1> DEFINE value == CHOOSE value : value = [k \in 0 .. Len(u) |-> IF k = 0 THEN 0 ELSE 10 * value[k - 1] + u[k]]
<1>5. f = [k \in 0 .. Len(u) |-> IF k = 0 THEN 0 ELSE 10 * f[k - 1] + u[k]]
  BY <1>1, <1>3, <1>4
<1>6. value = [k \in 0 .. Len(u) |-> IF k = 0 THEN 0 ELSE 10 * value[k - 1] + u[k]]
  BY <1>5
<1>7. Value(w) = value[Len(u)]
  BY DEF Value, u
<1> HIDE DEF value
<1>8. value[0] = 0 /\ \A k \in 1 .. Len(u) : value[k] = 10 * value[k - 1] + u[k]
  <2>1. value[0] = 0
    BY <1>1, <1>6
  <2>2. ASSUME NEW k \in 1 .. Len(u) PROVE value[k] = 10 * value[k - 1] + u[k]
    <3>1. k \in 0 .. Len(u) /\ k # 0
      BY <1>1
    <3> QED BY <1>6, <3>1, Zenon
  <2> QED BY <2>1, <2>2
<1>9. \A k \in 0 .. Len(u) : value[k] \in Nat
  <2> DEFINE S == {k \in 0 .. Len(u) : value[k] \in Nat}
  <2>1. 0 \in S
    BY <1>1, <1>8
  <2>2. ASSUME NEW k \in 1 .. Len(u), k - 1 \in S PROVE k \in S
    <3>1. value[k - 1] \in Nat /\ u[k] \in 0 .. 9 /\ k \in 0 .. Len(u)
      BY <1>1, <2>2 DEF Digit
    <3>2. \A v \in Nat, d \in 0 .. 9 : 10 * v + d \in Nat
      OBVIOUS
    <3>3. 10 * value[k - 1] + u[k] \in Nat
      BY <3>1, <3>2, Zenon
    <3> QED BY <1>8, <3>1, <3>3
  <2>3. 0 .. Len(u) \subseteq S
    <3> HIDE DEF S
    <3> QED BY <1>1, <2>1, <2>2, Induction
  <2> QED BY <2>3
<1>10. value \in [0 .. Len(u) -> Nat]
  BY <1>6, <1>9
<1> QED BY <1>7, <1>8, <1>10 DEF u

(* What anylise_word keeps of a number decides which of 3 and 5 divide it. *)
LEMMA Divisibility ==
  ASSUME NEW w, Unsigned(w) \in Seq(Digit), Unsigned(w) # <<>>
  PROVE  /\ Value(w) \in Nat
         /\ Remainder(0, Unsigned(w)) = Value(w) % 3
         /\ Sx!Last(Unsigned(w)) \in Digit
         /\ Sx!Last(Unsigned(w)) % 5 = Value(w) % 5
<1> DEFINE u == Unsigned(w)
<1>1. Len(u) \in Nat \ {0} /\ \A k \in 1 .. Len(u) : u[k] \in 0 .. 9
  BY LenProperties, ElementOfSeq, EmptySeq DEF Digit
<1>2. u \in Seq(Digit) /\ 0 \in 0 .. 2
  OBVIOUS
<1>3. PICK value \in [0 .. Len(u) -> Nat] :
         /\ value[0] = 0 /\ \A k \in 1 .. Len(u) : value[k] = 10 * value[k - 1] + u[k]
         /\ Value(w) = value[Len(u)]
  BY ValueOf, Zenon
<1> HIDE DEF u
<1>4. PICK mod \in [0 .. Len(u) -> 0 .. 2] :
         /\ mod[0] = 0 /\ \A k \in 1 .. Len(u) : mod[k] = (u[k] + mod[k - 1]) % 3
         /\ Remainder(0, u) = mod[Len(u)]
  BY <1>2, RemainderOf
<1>5. \A k \in 0 .. Len(u) : mod[k] = value[k] % 3
  <2> DEFINE S == {k \in 0 .. Len(u) : mod[k] = value[k] % 3}
  <2>1. 0 \in S
    BY <1>1, <1>4, <1>3
  <2>2. ASSUME NEW k \in 1 .. Len(u), k - 1 \in S PROVE k \in S
    <3>1. k - 1 \in 0 .. Len(u) /\ k \in 0 .. Len(u)
      BY <1>1
    <3>2. PICK v \in Nat, d \in 0 .. 9 : v = value[k - 1] /\ d = u[k]
      BY <1>1, <3>1
    <3>3. (d + (v % 3)) % 3 = (10 * v + d) % 3
      BY <3>2
    <3> QED BY <1>4, <1>3, <2>2, <3>1, <3>2, <3>3
  <2>3. 0 .. Len(u) \subseteq S
    <3> HIDE DEF S
    <3> QED BY <1>1, <2>1, <2>2, Induction
  <2> QED BY <2>3
<1>6. Remainder(0, u) = Value(w) % 3 /\ Value(w) \in Nat
  BY <1>1, <1>4, <1>3, <1>5
<1>7. Sx!Last(u) = u[Len(u)]
  BY DEF Sx!Last
<1>8. PICK v \in Nat, d \in 0 .. 9 : v = value[Len(u) - 1] /\ d = u[Len(u)] /\ Value(w) = 10 * v + d
  <2>1. Len(u) - 1 \in 0 .. Len(u) /\ Len(u) \in 1 .. Len(u)
    BY <1>1
  <2>2. value[Len(u) - 1] \in Nat /\ u[Len(u)] \in 0 .. 9
    BY <1>1, <2>1
  <2>3. Value(w) = 10 * value[Len(u) - 1] + u[Len(u)]
    BY <1>3, <2>1
  <2> QED BY <2>2, <2>3
<1>9. d % 5 = (10 * v + d) % 5
  OBVIOUS
<1> QED BY <1>6, <1>7, <1>8, <1>9 DEF u, Digit

(* What anylise_word finds of a whole word is what should be found.        *)
LEMMA TypeIsExpected ==
  ASSUME NEW w \in Seq(Chars), w # <<>>, NewStatics("NEXT", w)
  PROVE  TypeOf(w) = Expected(w)
<1> DEFINE u == Unsigned(w)
<1>1. Len(w) \in Nat \ {0} /\ \A k \in 1 .. Len(w) : w[k] \in Chars
  BY LenProperties, ElementOfSeq, EmptySeq
<1>2. u \in Seq(Chars) /\ u # <<>>
  <2>1. CASE w[1] = Minus /\ Len(w) > 1
    <3>1. Tail(w) \in Seq(Chars) /\ Len(Tail(w)) = Len(w) - 1
      BY HeadTailProperties
    <3>2. \A n \in Nat \ {0} : n > 1 => n - 1 # 0
      OBVIOUS
    <3>3. Tail(w) # <<>>
      BY <1>1, <2>1, <3>1, <3>2, EmptySeq, Zenon
    <3> QED BY <2>1, <3>1, <3>3 DEF Unsigned
  <2>2. CASE ~ (w[1] = Minus /\ Len(w) > 1)
    BY <2>2 DEF Unsigned
  <2> QED BY <2>1, <2>2
<1>3. Number(w) <=> \A k \in 1 .. Len(u) : u[k] \in Digit
  <2>1. CASE w[1] = Minus /\ Len(w) > 1
    <3>1. Len(u) = Len(w) - 1 /\ \A k \in 1 .. Len(u) : u[k] = w[k + 1]
      BY <1>1, <2>1, HeadTailProperties DEF Unsigned
    <3>2. w # <<Minus>>
      <4>1. Len(<<Minus>>) = 1 /\ ~ (1 > 1)
        OBVIOUS
      <4> QED BY <2>1, <4>1, Zenon
    <3>3. ASSUME \A k \in 1 .. Len(u) : u[k] \in Digit PROVE Number(w)
      <4>1. ASSUME NEW k \in 1 .. Len(w), k # 1 PROVE w[k] \in Digit
        <5>1. k - 1 \in 1 .. Len(u) /\ u[k - 1] = w[k]
          BY <1>1, <3>1, <4>1
        <5> QED BY <3>3, <5>1
      <4> QED BY <1>1, <2>1, <3>2, <4>1 DEF Number
    <3>4. ASSUME Number(w), NEW k \in 1 .. Len(u) PROVE u[k] \in Digit
      <4>1. k + 1 \in 1 .. Len(w) /\ k + 1 # 1 /\ u[k] = w[k + 1]
        BY <1>1, <3>1
      <4> QED BY <1>1, <3>4, <4>1 DEF Number
    <3> QED BY <3>3, <3>4
  <2>2. CASE ~ (w[1] = Minus /\ Len(w) > 1)
    <3>1. u = w
      BY <2>2 DEF Unsigned
    <3>2. Minus \notin Digit /\ 1 \in 1 .. Len(w) /\ DOMAIN w = 1 .. Len(w)
      BY <1>1 DEF Minus, Digit
    <3>3. ASSUME Number(w) PROVE w[1] # Minus
      <4>1. SUFFICES ASSUME w[1] = Minus PROVE FALSE
        OBVIOUS
      <4>2. Len(w) = 1
        <5>1. ~ (Len(w) > 1)
          BY <2>2, <4>1, Zenon
        <5>2. \A n \in Nat \ {0} : ~ (n > 1) => n = 1
          OBVIOUS
        <5> QED BY <1>1, <5>1, <5>2, Zenon
      <4>3. w = <<Minus>>
        BY <4>1, <4>2
      <4> QED BY <3>3, <4>3 DEF Number
    <3>4. ASSUME \A k \in 1 .. Len(w) : w[k] \in Digit PROVE Number(w)
      <4>1. w # <<Minus>>
        BY <3>2, <3>4
      <4> QED BY <3>2, <3>4, <4>1 DEF Number
    <3>5. Number(w) => \A k \in 1 .. Len(w) : w[k] \in Digit
      BY <3>2, <3>3 DEF Number
    <3> QED BY <3>1, <3>4, <3>5
  <2> QED BY <2>1, <2>2
<1> HIDE DEF u
<1>4. Digits(u) = u <=> Number(w)
  BY <1>2, <1>3, DigitsOf
<1>5. CASE ~ Number(w)
  <2>1. TypeOf(w) = "STR"
    BY <1>4, <1>5 DEF TypeOf, u
  <2> QED BY <1>5, <2>1 DEF Expected
<1>6. CASE Number(w)
  <2>1. Digits(u) = u /\ u \in Seq(Digit)
    BY <1>2, <1>4, <1>6, DigitsOf
  <2>2. num_mod_3' = Remainder(0, u) /\ last_digit' = Sx!Last(u)
    BY <1>2, <2>1 DEF NewStatics, u
  <2>3. /\ Value(w) \in Nat /\ Remainder(0, u) = Value(w) % 3
        /\ Sx!Last(u) % 5 = Value(w) % 5
    BY <1>2, <2>1, Divisibility DEF u
  <2> DEFINE v == Value(w)
  <2>4. TypeOf(w) = CASE v % 3 = 0 /\ v % 5 = 0 -> "BIZZBUZZ"
                      [] v % 3 = 0 /\ v % 5 # 0 -> "BIZZ"
                      [] v % 3 # 0 /\ v % 5 = 0 -> "BUZZ"
                      [] OTHER                  -> "STR"
    BY <2>1, <2>2, <2>3 DEF TypeOf, u
  <2>5. Expected(w) = CASE v % 15 = 0            -> "BIZZBUZZ"
                        [] v % 3 = 0 /\ v % 5 # 0 -> "BIZZ"
                        [] v % 5 = 0 /\ v % 3 # 0 -> "BUZZ"
                        [] OTHER                  -> "STR"
    BY <1>6 DEF Expected
  <2> HIDE DEF v
  <2>6. v % 15 = 0 <=> v % 3 = 0 /\ v % 5 = 0
    <3>1. v \in Nat
      BY <2>3 DEF v
    <3> QED BY <3>1
  <2> QED BY <2>4, <2>5, <2>6
<1> QED BY <1>5, <1>6
-----------------------------------------------------------------------------
(* The invariant                                                           *)

start == offset_read - Len(buffer)  \* where the chunk in the buffer begins
here  == start + offset_buf         \* up to where the pieces have been taken

Words == [type : Types, from : Nat, size : Nat]

(* What is left of the file: the size is brought up to date at the end of  *)
(* a chunk.                                                                *)
Left == size = Len(file) - (IF offset_buf = Len(buffer) THEN offset_read ELSE start)

(* The output and the pieces of an unfinished word are all that was taken. *)
Position ==
  /\ out \in Seq(Words) /\ offset_file \in Nat /\ long_word_size \in Nat
  /\ offset_file = IF out = <<>> THEN 0 ELSE End(out[Len(out)])
  /\ IF size > 0 THEN offset_file + long_word_size = here ELSE offset_file = Len(file)

(* A word that is not finished lies before the end of a chunk, or before   *)
(* the next one whose first character belongs to it.                       *)
Unfinished ==
  size > 0 => /\ long_word_size > 0 <=> mode = "CONTINUE"
              /\ long_word_size > 0 =>
                   /\ type \in Types
                   /\ offset_buf = Len(buffer) \/ (offset_buf = 0 /\ buffer[1] # Space)
                   /\ \A i \in offset_file .. here - 1 : ~SpaceAt(i)

(* What was written does not end within a word.                            *)
Boundary == 0 < offset_file /\ offset_file < Len(file) /\ ~SpaceAt(offset_file - 1)
              => SpaceAt(offset_file)

(* Every chunk begins at a multiple of the size of the buffer.             *)
Multiple(x) == \E q \in Nat : x = MAX_LEN * q
Chunks == /\ buffer \in Seq(Chars) /\ Multiple(start)
          /\ offset_read < Len(file) => Multiple(offset_read)

InOrder(w) ==
  /\ w.size > 0
  /\ \A i \in w.from .. End(w) - 1 : SpaceAt(i) = SpaceAt(w.from)
  /\ ~SpaceAt(w.from) => /\ w.from > 0 => SpaceAt(w.from - 1)
                         /\ End(w) < Len(file) => SpaceAt(End(w))

Replaced(w) ==
  ~SpaceAt(w.from) /\ End(w) < Len(file) /\ w.from \div MAX_LEN = End(w) \div MAX_LEN
    => w.type = Expected(SubSeq(file, w.from + 1, End(w)))

Written == \A k \in DOMAIN out : /\ out[k].from = IF k = 1 THEN 0 ELSE End(out[k - 1])
                                 /\ InOrder(out[k]) /\ Replaced(out[k])

IInv == TypeOK /\ Left /\ Position /\ Unfinished /\ Boundary /\ Chunks /\ Written
-----------------------------------------------------------------------------
(* Arithmetic of the chunks                                                *)
LEMMA Multiples ==
  ASSUME NEW q \in Nat
  PROVE  /\ MAX_LEN * q \in Nat /\ MAX_LEN * q + MAX_LEN = MAX_LEN * (q + 1)
         /\ \A x \in Nat : x < MAX_LEN * q => x \div MAX_LEN < q
         /\ \A x \in Nat : x >= MAX_LEN * q => x \div MAX_LEN >= q
<1>1. MAX_LEN \in Nat /\ MAX_LEN > 0
  BY LengthAssumption
<1>2. MAX_LEN * q \in Nat /\ MAX_LEN * q + MAX_LEN = MAX_LEN * (q + 1)
  BY <1>1
<1>3. ASSUME NEW x \in Nat
      PROVE  /\ x \div MAX_LEN \in Nat /\ x % MAX_LEN \in 0 .. MAX_LEN - 1
             /\ x = MAX_LEN * (x \div MAX_LEN) + (x % MAX_LEN)
  BY <1>1
<1>4. ASSUME NEW a \in Nat, NEW b \in Nat, a <= b PROVE MAX_LEN * a <= MAX_LEN * b
  BY <1>1, <1>4
<1>5. ASSUME NEW x \in Nat, x < MAX_LEN * q, ~ (x \div MAX_LEN < q) PROVE FALSE
  <2>1. MAX_LEN * q <= MAX_LEN * (x \div MAX_LEN)
    BY <1>3, <1>4, <1>5
  <2> QED BY <1>1, <1>2, <1>3, <1>5, <2>1
<1>6. ASSUME NEW x \in Nat, x >= MAX_LEN * q, ~ (x \div MAX_LEN >= q) PROVE FALSE
  <2> DEFINE d == x \div MAX_LEN
  <2>1. MAX_LEN * (d + 1) <= MAX_LEN * q
    BY <1>3, <1>4, <1>6
  <2>2. d \in Nat /\ MAX_LEN * d + MAX_LEN = MAX_LEN * (d + 1)
    BY <1>1, <1>3
  <2> QED BY <1>1, <1>2, <1>3, <1>6, <2>1, <2>2
<1> QED BY <1>2, <1>5, <1>6

(* The chunk that is in the buffer.                                        *)
LEMMA Chunk ==
  ASSUME TypeOK, Chunks
  PROVE  /\ file \in Seq(Chars) /\ Len(file) \in Nat /\ Len(buffer) \in Nat
         /\ start \in Nat /\ here \in start .. offset_read /\ offset_read = start + Len(buffer)
         /\ offset_read \in 0 .. Len(file) /\ offset_buf \in 0 .. Len(buffer)
         /\ \A k \in 1 .. Len(buffer) : buffer[k] = file[start + k]
<1>1. file \in Seq(Chars) /\ Len(file) \in Nat
  BY FilesAssumption, LenProperties DEF TypeOK
<1>2. Len(buffer) \in Nat
  BY LenProperties DEF Chunks
<1>3. start \in Nat
  BY Multiples DEF Chunks, Multiple
<1>4. offset_read \in 0 .. Len(file) /\ offset_buf \in 0 .. Len(buffer)
  BY DEF TypeOK
<1>5. offset_read = start + Len(buffer) /\ here = start + offset_buf
  BY <1>1, <1>2, <1>4 DEF start, here
<1>6. buffer = SubSeq(file, start + 1, offset_read)
  BY DEF TypeOK, start
<1>7. ASSUME NEW k \in 1 .. Len(buffer) PROVE buffer[k] = file[start + k]
  <2>1. k \in 1 .. offset_read - (start + 1) + 1 /\ (start + 1) + k - 1 = start + k
    BY <1>2, <1>3, <1>4, <1>5
  <2>2. \A i \in start + 1 .. offset_read : file[i] \in Chars
    BY <1>1, <1>3, <1>4, ElementOfSeq
  <2>3. SubSeq(file, start + 1, offset_read)[k] = file[(start + 1) + k - 1]
    BY <1>3, <1>4, <2>1, <2>2, SubSeqProperties
  <2> QED BY <1>6, <2>1, <2>3
<1> QED BY <1>1, <1>2, <1>3, <1>4, <1>5, <1>7

(* The piece that the inner loop takes next.                               *)
LEMMA NextPiece ==
  ASSUME TypeOK, Chunks, offset_buf < Len(buffer), NEW n, n = Length(Rest)
  PROVE  /\ n \in 1 .. offset_read - here
         /\ SubSeq(Rest, 1, n) = SubSeq(file, here + 1, here + n)
         /\ SubSeq(Rest, 1, n) \in Seq(Chars) /\ SubSeq(Rest, 1, n) # <<>>
         /\ \A i \in here .. (here + n) - 1 : SpaceAt(i) = SpaceAt(here)
         /\ here + n < offset_read => SpaceAt(here + n) # SpaceAt(here)
         /\ FindMode(Rest) = IF SpaceAt(here) THEN "SPACE"
                             ELSE IF here + n < offset_read THEN "NEXT" ELSE "CONTINUE"
<1>1. /\ file \in Seq(Chars) /\ Len(file) \in Nat /\ Len(buffer) \in Nat
      /\ start \in Nat /\ here \in start .. offset_read /\ offset_read = start + Len(buffer)
      /\ offset_read \in 0 .. Len(file) /\ offset_buf \in 0 .. Len(buffer)
      /\ \A k \in 1 .. Len(buffer) : buffer[k] = file[start + k]
      /\ here = start + offset_buf
  BY Chunk DEF here
<1>2. Rest \in Seq(Chars) /\ Len(Rest) = offset_read - here /\ Len(Rest) > 0
  <2>1. \A i \in offset_buf + 1 .. Len(buffer) : buffer[i] \in Chars
    BY <1>1, ElementOfSeq DEF Chunks
  <2>2. /\ SubSeq(buffer, offset_buf + 1, Len(buffer)) \in Seq(Chars)
        /\ Len(SubSeq(buffer, offset_buf + 1, Len(buffer))) = Len(buffer) - offset_buf
    BY <1>1, <2>1, SubSeqProperties
  <2> QED BY <1>1, <2>2 DEF Rest
<1>3. ASSUME NEW k \in 1 .. Len(Rest) PROVE Rest[k] = file[here + k]
  <2>1. \A i \in offset_buf + 1 .. Len(buffer) : buffer[i] \in Chars
    BY <1>1, ElementOfSeq DEF Chunks
  <2>2. k \in 1 .. Len(buffer) - (offset_buf + 1) + 1 /\ (offset_buf + 1) + k - 1 = offset_buf + k
    BY <1>1, <1>2
  <2>3. SubSeq(buffer, offset_buf + 1, Len(buffer))[k] = buffer[(offset_buf + 1) + k - 1]
    BY <1>1, <2>1, <2>2, SubSeqProperties
  <2>4. offset_buf + k \in 1 .. Len(buffer) /\ start + (offset_buf + k) = here + k
    <3>1. /\ offset_buf \in Nat /\ start \in Nat /\ Len(buffer) \in Nat /\ here = start + offset_buf
          /\ Len(Rest) = Len(buffer) - offset_buf
      BY <1>1, <1>2
    <3> QED BY <2>2, <3>1
  <2> QED BY <1>1, <2>2, <2>3, <2>4 DEF Rest
<1>4. /\ n \in 1 .. Len(Rest)
      /\ \A k \in 1 .. n : (Rest[k] = Space) = (Rest[1] = Space)
      /\ n < Len(Rest) => (Rest[n + 1] = Space) # (Rest[1] = Space)
  <2>1. Rest # <<>>
    BY <1>2, EmptySeq
  <2> QED BY <1>2, <2>1, LengthOf
<1>5. n \in 1 .. offset_read - here
  BY <1>2, <1>4
<1>6. ASSUME NEW k \in 1 .. Len(Rest) PROVE (Rest[k] = Space) = SpaceAt(here + k - 1)
  <2>1. (here + k - 1) + 1 = here + k
    BY <1>1, <1>2
  <2> QED BY <1>3, <2>1 DEF SpaceAt
<1>7. (Rest[1] = Space) = SpaceAt(here)
  <2>1. 1 \in 1 .. Len(Rest) /\ here + 1 - 1 = here
    BY <1>1, <1>2
  <2> QED BY <1>6, <2>1
<1>8. \A i \in here .. (here + n) - 1 : SpaceAt(i) = SpaceAt(here)
  <2> SUFFICES ASSUME NEW i \in here .. (here + n) - 1 PROVE SpaceAt(i) = SpaceAt(here)
    OBVIOUS
  <2>1. i - here + 1 \in 1 .. n /\ i - here + 1 \in 1 .. Len(Rest) /\ here + (i - here + 1) - 1 = i
    BY <1>1, <1>2, <1>5
  <2> QED BY <1>4, <1>6, <1>7, <2>1
<1>9. here + n < offset_read => SpaceAt(here + n) # SpaceAt(here)
  <2> SUFFICES ASSUME here + n < offset_read PROVE SpaceAt(here + n) # SpaceAt(here)
    OBVIOUS
  <2>1. n < Len(Rest) /\ n + 1 \in 1 .. Len(Rest) /\ here + (n + 1) - 1 = here + n
    <3>1. here \in Nat /\ offset_read \in Nat /\ n \in Nat /\ Len(Rest) = offset_read - here
      BY <1>1, <1>2, <1>4
    <3> QED BY <3>1
  <2> QED BY <1>4, <1>6, <1>7, <2>1
<1>10. /\ SubSeq(Rest, 1, n) \in Seq(Chars) /\ Len(SubSeq(Rest, 1, n)) = n
       /\ \A k \in 1 .. n : SubSeq(Rest, 1, n)[k] = file[here + k]
  <2>1. \A k \in 1 .. n : Rest[k] \in Chars
    BY <1>2, <1>4, ElementOfSeq
  <2>2. /\ SubSeq(Rest, 1, n) \in Seq(Chars) /\ Len(SubSeq(Rest, 1, n)) = n
        /\ \A k \in 1 .. n - 1 + 1 : SubSeq(Rest, 1, n)[k] = Rest[1 + k - 1]
    BY <1>2, <1>4, <2>1, SubSeqProperties
  <2>3. ASSUME NEW k \in 1 .. n PROVE SubSeq(Rest, 1, n)[k] = file[here + k]
    <3>1. k \in 1 .. n - 1 + 1 /\ 1 + k - 1 = k /\ k \in 1 .. Len(Rest)
      BY <1>2, <1>4
    <3> QED BY <1>3, <2>2, <3>1
  <2> QED BY <2>2, <2>3
<1>11. /\ SubSeq(file, here + 1, here + n) \in Seq(Chars) /\ Len(SubSeq(file, here + 1, here + n)) = n
       /\ \A k \in 1 .. n : SubSeq(file, here + 1, here + n)[k] = file[here + k]
  <2>1. \A k \in here + 1 .. here + n : file[k] \in Chars
    BY <1>1, <1>5, ElementOfSeq
  <2>2. here \in Nat /\ n \in Nat /\ n > 0 /\ (here + n) - (here + 1) + 1 = n /\ here + 1 <= here + n
    BY <1>1, <1>5
  <2>3. /\ SubSeq(file, here + 1, here + n) \in Seq(Chars)
        /\ Len(SubSeq(file, here + 1, here + n)) = n
        /\ \A k \in 1 .. (here + n) - (here + 1) + 1 :
             SubSeq(file, here + 1, here + n)[k] = file[(here + 1) + k - 1]
    BY <2>1, <2>2, SubSeqProperties
  <2>4. ASSUME NEW k \in 1 .. n PROVE SubSeq(file, here + 1, here + n)[k] = file[here + k]
    <3>1. k \in 1 .. (here + n) - (here + 1) + 1 /\ (here + 1) + k - 1 = here + k
      BY <2>2
    <3> QED BY <2>3, <3>1
  <2> QED BY <2>3, <2>4
<1>12. SubSeq(Rest, 1, n) = SubSeq(file, here + 1, here + n)
  BY <1>10, <1>11, SeqEqual
<1>13. SubSeq(Rest, 1, n) # <<>>
  BY <1>4, <1>10, EmptySeq
<1>14. FindMode(Rest) = IF SpaceAt(here) THEN "SPACE"
                        ELSE IF here + n < offset_read THEN "NEXT" ELSE "CONTINUE"
  <2>1. n < Len(Rest) <=> here + n < offset_read
    <3>1. here \in Nat /\ offset_read \in Nat /\ n \in Nat /\ Len(Rest) = offset_read - here
      BY <1>1, <1>2, <1>4
    <3> QED BY <3>1
  <2> QED BY <1>7, <2>1 DEF FindMode
<1> QED BY <1>5, <1>8, <1>9, <1>10, <1>12, <1>13, <1>14
-----------------------------------------------------------------------------
(* The steps                                                               *)

(* A word that is written is the last of the output.                       *)
LEMMA WordPrinted ==
  ASSUME Position, Written, NEW t \in Types, NEW n \in Nat, PrintWord(t, n), file' = file,
         InOrder([type |-> t, from |-> offset_file, size |-> n]),
         Replaced([type |-> t, from |-> offset_file, size |-> n])
  PROVE  /\ out' \in Seq(Words) /\ offset_file' \in Nat
         /\ offset_file' = IF out' = <<>> THEN 0 ELSE End(out'[Len(out')])
         /\ Written'
<1> DEFINE w == [type |-> t, from |-> offset_file, size |-> n]
<1>1. out' = Append(out, w) /\ offset_file' = offset_file + n
  BY DEF PrintWord
<1>2. out \in Seq(Words) /\ w \in Words /\ Len(out) \in Nat /\ offset_file \in Nat
  BY LenProperties DEF Position, Words
<1>3. w.from = offset_file /\ End(w) = offset_file + n
  BY DEF End
<1>4. InOrder(w) /\ Replaced(w)
  OBVIOUS
<1> HIDE DEF w
<1>5. /\ out' \in Seq(Words) /\ Len(out') = Len(out) + 1 /\ out'[Len(out) + 1] = w
      /\ \A k \in 1 .. Len(out) : out'[k] = out[k]
  BY <1>1, <1>2, AppendProperties
<1>6. out' # <<>>
  BY <1>2, <1>5, EmptySeq
<1>7. offset_file' \in Nat /\ offset_file' = End(out'[Len(out')])
  BY <1>1, <1>2, <1>3, <1>5
<1>8. offset_file = IF Len(out) = 0 THEN 0 ELSE End(out[Len(out)])
  BY <1>2, EmptySeq DEF Position
<1>9. ASSUME NEW k \in DOMAIN out'
      PROVE  /\ out'[k].from = IF k = 1 THEN 0 ELSE End(out'[k - 1])
             /\ InOrder(out'[k]) /\ Replaced(out'[k])
  <2>1. k \in 1 .. Len(out) + 1
    BY <1>5, LenProperties
  <2>2. CASE k = Len(out) + 1
    <3>1. out'[k] = w
      BY <1>5, <2>2
    <3>2. k = 1 <=> Len(out) = 0
      BY <1>2, <2>2
    <3>3. k # 1 => k - 1 = Len(out) /\ k - 1 \in 1 .. Len(out)
      BY <1>2, <2>2
    <3>4. k # 1 => out'[k - 1] = out[Len(out)]
      BY <1>5, <3>3
    <3> QED BY <1>3, <1>4, <1>8, <3>1, <3>2, <3>4
  <2>3. CASE k # Len(out) + 1
    <3>1. k \in 1 .. Len(out) /\ (k # 1 => k - 1 \in 1 .. Len(out))
      BY <1>2, <2>1, <2>3
    <3>2. out'[k] = out[k] /\ (k # 1 => out'[k - 1] = out[k - 1])
      BY <1>5, <3>1
    <3>3. k \in DOMAIN out
      BY <1>2, <3>1, LenProperties
    <3> QED BY <3>2, <3>3 DEF Written
  <2> QED BY <2>2, <2>3
<1>10. Written'
  <2>1. file' = file
    OBVIOUS
  <2> QED BY <1>9, <2>1 DEF Written, InOrder, Replaced, SpaceAt, End
<1> QED BY <1>5, <1>6, <1>7, <1>10

LEMMA Kept ==
  ASSUME Position, Written, UNCHANGED <<out, file, offset_file>>
  PROVE  /\ out' \in Seq(Words) /\ offset_file' \in Nat
         /\ offset_file' = IF out' = <<>> THEN 0 ELSE End(out'[Len(out')])
         /\ Written'
<1>1. out' = out /\ file' = file /\ offset_file' = offset_file
  OBVIOUS
<1>2. Written'
  BY <1>1 DEF Written, InOrder, Replaced, SpaceAt, End
<1> QED BY <1>1, <1>2 DEF Position

LEMMA Initially == ASSUME Init PROVE IInv
<1>1. /\ file \in Files /\ pos = 0 /\ buffer = <<>> /\ offset_buf = 0 /\ offset_read = 0
      /\ size = Len(file) /\ mode = "NEXT" /\ type = "DEFAULT" /\ long_word_size = 0
      /\ offset_file = 0 /\ num_mod_3 = 0 /\ last_digit = 1 /\ out = <<>>
  BY DEF Init
<1>2. file \in Seq(Chars) /\ Len(file) \in Nat /\ Len(<<>>) = 0 /\ MAX_LEN \in Nat \ {0}
  BY <1>1, FilesAssumption, LengthAssumption, LenProperties, EmptySeq
<1>3. Len(buffer) = 0 /\ offset_buf = 0 /\ offset_read = 0 /\ offset_file = 0 /\ long_word_size = 0
  BY <1>1, <1>2
<1>4. start = 0 /\ here = 0
  BY <1>3 DEF start, here
<1>5. TypeOK
  <2>1. <<>> = SubSeq(file, 0 - 0 + 1, 0)
    BY SubSeqEmpty
  <2>2. buffer = SubSeq(file, offset_read - Len(buffer) + 1, offset_read)
    BY <1>1, <1>3, <2>1
  <2>3. offset_buf \in 0 .. Len(buffer) /\ Len(buffer) <= MAX_LEN /\ offset_read \in 0 .. Len(file)
    BY <1>1, <1>2, <1>3
  <2>4. offset_file + long_word_size = offset_read - Len(buffer) + offset_buf
    BY <1>3
  <2> QED BY <1>1, <2>2, <2>3, <2>4 DEF TypeOK, Digit
<1>6. Left
  BY <1>1, <1>2, <1>3 DEF Left
<1>7. Position
  <2>1. out \in Seq(Words)
    BY <1>1, EmptySeq
  <2>2. IF size > 0 THEN offset_file + long_word_size = here ELSE offset_file = Len(file)
    BY <1>1, <1>2, <1>4
  <2> QED BY <1>1, <2>1, <2>2 DEF Position
<1>8. Unfinished
  BY <1>1 DEF Unfinished
<1>9. Boundary
  BY <1>1 DEF Boundary
<1>10. Chunks
  <2>1. MAX_LEN * 0 = 0 /\ 0 \in Nat
    BY <1>2
  <2>2. Multiple(0)
    BY <2>1 DEF Multiple
  <2> QED BY <1>1, <1>4, <2>2, EmptySeq DEF Chunks
<1>11. Written
  BY <1>1 DEF Written
<1> QED BY <1>5, <1>6, <1>7, <1>8, <1>9, <1>10, <1>11 DEF IInv

(* The next chunk begins where the last one ended.                         *)
LEMMA Read ==
  ASSUME IInv, ReadChunk
  PROVE  /\ offset_read < Len(file) /\ here = offset_read
         /\ file' = file /\ buffer' \in Seq(Chars)
         /\ offset_buf' = 0 /\ Len(buffer') \in 1 .. MAX_LEN
         /\ offset_read' = offset_read + Len(buffer') /\ offset_read' \in 0 .. Len(file)
         /\ offset_read' = Len(file) \/ Len(buffer') = MAX_LEN
         /\ buffer' = SubSeq(file, offset_read + 1, offset_read')
         /\ (buffer'[1] = Space) = SpaceAt(offset_read)
<1> DEFINE n == Smaller(MAX_LEN, Len(file) - pos)
<1>1. /\ size > 0 /\ offset_buf = Len(buffer)
      /\ buffer' = SubSeq(file, pos + 1, pos + n) /\ offset_buf' = 0
      /\ offset_read' = offset_read + n /\ file' = file
  BY DEF ReadChunk
<1>2. /\ file \in Seq(Chars) /\ Len(file) \in Nat /\ Len(buffer) \in Nat /\ start \in Nat
      /\ offset_read = start + Len(buffer) /\ offset_read \in 0 .. Len(file)
  BY Chunk DEF IInv
<1>3. pos = offset_read /\ here = offset_read /\ MAX_LEN \in Nat \ {0}
  BY <1>1, <1>2, LengthAssumption DEF IInv, TypeOK, here
<1>4. size = Len(file) - offset_read
  BY <1>1 DEF IInv, Left
<1>5. n \in 1 .. MAX_LEN /\ n <= Len(file) - offset_read /\ (n = MAX_LEN \/ n = Len(file) - offset_read)
  BY <1>1, <1>2, <1>3, <1>4 DEF Smaller
<1> HIDE DEF n
<1>6. /\ buffer' \in Seq(Chars) /\ Len(buffer') = n /\ buffer'[1] = file[offset_read + 1]
  <2>1. \A i \in offset_read + 1 .. offset_read + n : file[i] \in Chars
    BY <1>2, <1>5, ElementOfSeq
  <2>2. offset_read + 1 \in Int /\ offset_read + n \in Int /\ offset_read + 1 <= offset_read + n
    BY <1>2, <1>5
  <2>3. /\ SubSeq(file, offset_read + 1, offset_read + n) \in Seq(Chars)
        /\ Len(SubSeq(file, offset_read + 1, offset_read + n)) = (offset_read + n) - (offset_read + 1) + 1
        /\ \A i \in 1 .. (offset_read + n) - (offset_read + 1) + 1 :
             SubSeq(file, offset_read + 1, offset_read + n)[i] = file[(offset_read + 1) + i - 1]
    BY <2>1, <2>2, SubSeqProperties
  <2>4. /\ (offset_read + n) - (offset_read + 1) + 1 = n /\ 1 \in 1 .. n
        /\ (offset_read + 1) + 1 - 1 = offset_read + 1
    BY <1>2, <1>5
  <2>5. SubSeq(file, offset_read + 1, offset_read + n)[1] = file[offset_read + 1]
    BY <2>3, <2>4
  <2> QED BY <1>1, <1>3, <2>3, <2>4, <2>5
<1>7. offset_read < Len(file) /\ offset_read + n \in 0 .. Len(file)
      /\ (offset_read + n = Len(file) \/ n = MAX_LEN)
  BY <1>2, <1>5
<1> QED BY <1>1, <1>3, <1>5, <1>6, <1>7 DEF SpaceAt

LEMMA ReadChunkStep == ASSUME IInv, ReadChunk PROVE IInv'
<1> DEFINE w == [type |-> type, from |-> offset_file, size |-> long_word_size]
<1>1. /\ offset_read < Len(file) /\ here = offset_read
      /\ file' = file /\ buffer' \in Seq(Chars)
      /\ offset_buf' = 0 /\ Len(buffer') \in 1 .. MAX_LEN
      /\ offset_read' = offset_read + Len(buffer') /\ offset_read' \in 0 .. Len(file)
      /\ offset_read' = Len(file) \/ Len(buffer') = MAX_LEN
      /\ buffer' = SubSeq(file, offset_read + 1, offset_read')
      /\ (buffer'[1] = Space) = SpaceAt(offset_read)
  BY Read
<1>2. /\ file \in Seq(Chars) /\ Len(file) \in Nat /\ offset_read \in Nat
      /\ start \in Nat /\ MAX_LEN \in Nat \ {0}
  BY Chunk, LengthAssumption DEF IInv
<1>3. start' = offset_read /\ here' = offset_read
  <2>1. (offset_read + Len(buffer')) - Len(buffer') = offset_read
    BY <1>1, <1>2
  <2> QED BY <1>1, <1>2, <2>1 DEF start, here
<1>4. /\ size > 0 /\ size' = size /\ size = Len(file) - offset_read
      /\ num_mod_3' = num_mod_3 /\ last_digit' = last_digit
  BY DEF ReadChunk, statics, IInv, Left
<1>5. /\ offset_file \in Nat /\ long_word_size \in Nat
      /\ offset_file + long_word_size = offset_read
  BY <1>1, <1>4 DEF IInv, Position
<1>6. Left'
  <2>1. offset_buf' # Len(buffer')
    BY <1>1
  <2> QED BY <1>1, <1>3, <1>4, <2>1 DEF Left
<1>7. Chunks'
  <2>1. Multiple(offset_read)
    BY <1>1 DEF IInv, Chunks
  <2>2. offset_read' < Len(file) => Multiple(offset_read')
    <3> SUFFICES ASSUME offset_read' < Len(file) PROVE Multiple(offset_read')
      OBVIOUS
    <3>1. Len(buffer') = MAX_LEN
      BY <1>1, <1>2
    <3>2. PICK q \in Nat : offset_read = MAX_LEN * q
      BY <2>1 DEF Multiple
    <3>3. offset_read' = MAX_LEN * (q + 1) /\ q + 1 \in Nat
      BY <1>1, <3>1, <3>2, Multiples
    <3> QED BY <3>3 DEF Multiple
  <2> QED BY <1>1, <1>3, <2>1, <2>2 DEF Chunks, Multiple
<1>8. ASSUME pos' = offset_read', mode' \in {"NEXT", "SPACE", "CONTINUE"}, type' \in Types \cup {"DEFAULT"},
             offset_file' \in Nat, long_word_size' \in Nat, offset_file' + long_word_size' = offset_read
      PROVE  TypeOK'
  <2>1. offset_read' - Len(buffer') = offset_read
    BY <1>1, <1>2
  <2>2. buffer' = SubSeq(file', offset_read' - Len(buffer') + 1, offset_read')
    BY <1>1, <2>1
  <2>3. offset_buf' \in 0 .. Len(buffer') /\ Len(buffer') <= MAX_LEN
    BY <1>1, <1>2
  <2>4. offset_file' + long_word_size' = offset_read' - Len(buffer') + offset_buf'
    <3>1. offset_read + 0 = offset_read
      BY <1>2
    <3> QED BY <1>1, <1>8, <2>1, <3>1, Zenon
  <2>5. file \in Files /\ num_mod_3 \in 0 .. 2 /\ last_digit \in Digit
    BY DEF IInv, TypeOK
  <2> QED BY <1>1, <1>4, <1>8, <2>2, <2>3, <2>4, <2>5 DEF TypeOK
<1>9. CASE mode = "CONTINUE" /\ buffer'[1] = Space
  <2>1. /\ PrintWord(type, long_word_size)
        /\ long_word_size' = 0 /\ type' = "DEFAULT" /\ mode' = "NEXT"
    BY <1>9 DEF ReadChunk
  <2>2. /\ long_word_size > 0 /\ type \in Types
        /\ \A i \in offset_file .. offset_read - 1 : ~SpaceAt(i)
    BY <1>1, <1>4, <1>9 DEF IInv, Unfinished
  <2>3. SpaceAt(offset_read)
    BY <1>1, <1>9
  <2>4. w.from = offset_file /\ w.size = long_word_size /\ End(w) = offset_read
    BY <1>5 DEF End
  <2>5. ~SpaceAt(offset_file) /\ offset_file < offset_read
    BY <1>2, <1>5, <2>2
  <2> HIDE DEF w
  <2>6. InOrder(w)
    <3>1. \A i \in w.from .. End(w) - 1 : SpaceAt(i) = SpaceAt(w.from)
      BY <2>2, <2>4, <2>5 DEF SpaceAt
    <3>2. w.from > 0 => SpaceAt(w.from - 1)
      BY <1>1, <1>2, <1>5, <2>4, <2>5 DEF IInv, Boundary
    <3> QED BY <2>2, <2>3, <2>4, <3>1, <3>2 DEF InOrder
  <2>7. Replaced(w)
    <3>1. PICK q \in Nat : offset_read = MAX_LEN * q
      BY <1>1 DEF IInv, Chunks, Multiple
    <3>2. offset_file \div MAX_LEN < q
      BY <1>2, <1>5, <2>5, <3>1, Multiples
    <3>3. offset_read \div MAX_LEN >= q
      BY <1>2, <3>1, Multiples
    <3>4. offset_file \div MAX_LEN \in Int /\ offset_read \div MAX_LEN \in Int
      BY <1>2, <1>5
    <3>5. offset_file \div MAX_LEN # offset_read \div MAX_LEN
      BY <3>2, <3>3, <3>4
    <3> QED BY <2>4, <3>5 DEF Replaced
  <2>8. /\ out' \in Seq(Words) /\ offset_file' \in Nat
        /\ offset_file' = IF out' = <<>> THEN 0 ELSE End(out'[Len(out')])
        /\ Written'
    BY <1>1, <1>5, <2>1, <2>2, <2>6, <2>7, WordPrinted DEF IInv, w
  <2>9. offset_file' = offset_read /\ pos' = offset_read'
    BY <1>5, <2>1 DEF PrintWord
  <2>10. TypeOK'
    BY <1>2, <1>8, <2>1, <2>9
  <2>11. Position'
    BY <1>2, <1>3, <1>4, <2>1, <2>8, <2>9 DEF Position, End
  <2>12. Unfinished'
    BY <2>1 DEF Unfinished
  <2>13. Boundary'
    BY <1>1, <2>3, <2>9 DEF Boundary, SpaceAt
  <2> QED BY <1>6, <1>7, <2>8, <2>10, <2>11, <2>12, <2>13 DEF IInv
<1>10. CASE ~ (mode = "CONTINUE" /\ buffer'[1] = Space)
  <2>1. /\ pos' = pos + Smaller(MAX_LEN, Len(file) - pos)
        /\ offset_read' = offset_read + Smaller(MAX_LEN, Len(file) - pos)
        /\ UNCHANGED <<out, offset_file, long_word_size, type, mode>>
    BY <1>10 DEF ReadChunk
  <2>2. pos' = offset_read'
    BY <2>1 DEF IInv, TypeOK
  <2>3. /\ out' \in Seq(Words) /\ offset_file' \in Nat
        /\ offset_file' = IF out' = <<>> THEN 0 ELSE End(out'[Len(out')])
        /\ Written'
    BY <1>1, <2>1, Kept DEF IInv
  <2>4. TypeOK'
    BY <1>5, <1>8, <2>1, <2>2 DEF IInv, TypeOK
  <2>5. Position'
    BY <1>3, <1>4, <1>5, <2>1, <2>3 DEF Position, End
  <2>6. Unfinished'
    <3>1. long_word_size > 0 <=> mode = "CONTINUE"
      BY <1>4 DEF IInv, Unfinished
    <3>2. long_word_size > 0 => /\ type \in Types /\ buffer'[1] # Space
                                /\ \A i \in offset_file .. offset_read - 1 : ~SpaceAt(i)
      BY <1>1, <1>4, <1>10, <3>1 DEF IInv, Unfinished
    <3> QED BY <1>1, <1>3, <2>1, <3>1, <3>2 DEF Unfinished, SpaceAt
  <2>7. Boundary'
    BY <1>1, <2>1 DEF IInv, Boundary, SpaceAt
  <2> QED BY <1>6, <1>7, <2>3, <2>4, <2>5, <2>6, <2>7 DEF IInv
<1> QED BY <1>9, <1>10

(* The inner loop takes a piece of n characters, which is of type t: it is *)
(* written with what waits before it, or waits itself.                     *)
Taken(t, n) ==
  /\ mode' = FindMode(Rest) /\ offset_buf' = offset_buf + n
  /\ UNCHANGED <<file, buffer, offset_read>>
  /\ \/ /\ mode' \in {"NEXT", "SPACE"} \/ size = offset_buf'
        /\ PrintWord(t, long_word_size + n) /\ type' = "DEFAULT"
     \/ /\ mode' = "CONTINUE" /\ size # offset_buf' /\ type' = t
        /\ UNCHANGED <<out, offset_file, pos>>
  /\ mode' = "NEXT" => NewStatics("NEXT", SubSeq(Rest, 1, n)) /\ t = TypeOf(SubSeq(Rest, 1, n))
  /\ long_word_size' = LongWord(mode', n)
  /\ size' = IF offset_buf' = Len(buffer) THEN size - Len(buffer) ELSE size

LEMMA StaticsOf ==
  ASSUME NEW m, NEW w \in Seq(Chars), w # <<>>, NewStatics(m, w), num_mod_3 \in 0 .. 2, last_digit \in Digit
  PROVE  num_mod_3' \in 0 .. 2 /\ last_digit' \in Digit
<1> DEFINE d == Digits(Unsigned(w))
<1>1. Unsigned(w) \in Seq(Chars)
  BY HeadTailProperties DEF Unsigned
<1>2. d \in Seq(Digit)
  BY <1>1, DigitsOf
<1>3. d # <<>> => Sx!Last(d) \in Digit
  BY <1>2, ElementOfSeq, LenProperties, EmptySeq DEF Sx!Last
<1> HIDE DEF d
<1>4. \A r \in 0 .. 2 : Remainder(r, d) \in 0 .. 2
  <2> SUFFICES ASSUME NEW r \in 0 .. 2 PROVE Remainder(r, d) \in 0 .. 2
    OBVIOUS
  <2>1. PICK mod \in [0 .. Len(d) -> 0 .. 2] : Remainder(r, d) = mod[Len(d)]
    BY <1>2, RemainderOf
  <2>2. Len(d) \in 0 .. Len(d)
    BY <1>2, LenProperties
  <2> QED BY <2>1, <2>2
<1>5. /\ num_mod_3' = Remainder(IF m = "NEXT" THEN 0 ELSE num_mod_3, d)
      /\ last_digit' = IF d # <<>> THEN Sx!Last(d) ELSE IF m = "NEXT" THEN 1 ELSE last_digit
  BY DEF NewStatics, d
<1>6. num_mod_3' \in 0 .. 2
  <2>1. (IF m = "NEXT" THEN 0 ELSE num_mod_3) \in 0 .. 2
    OBVIOUS
  <2> QED BY <1>4, <1>5, <2>1
<1>7. last_digit' \in Digit
  <2>1. 1 \in Digit
    BY DEF Digit
  <2> QED BY <1>3, <1>5, <2>1
<1> QED BY <1>6, <1>7

LEMMA Take ==
  ASSUME IInv, Piece, NEW n, n = Length(Rest)
  PROVE  /\ offset_buf < Len(buffer) /\ num_mod_3' \in 0 .. 2 /\ last_digit' \in Digit
         /\ \E t \in Types : Taken(t, n)
<1> DEFINE w == SubSeq(Rest, 1, n)
           kind(t) == \/ /\ mode' \in {"NEXT", "SPACE"} \/ size = offset_buf'
                         /\ PrintWord(t, long_word_size + n) /\ type' = "DEFAULT"
                      \/ /\ mode' = "CONTINUE" /\ size # offset_buf' /\ type' = t
                         /\ UNCHANGED <<out, offset_file, pos>>
<1>1. /\ offset_buf < Len(buffer)
      /\ mode' = FindMode(Rest) /\ offset_buf' = offset_buf + n
      /\ UNCHANGED <<file, buffer, offset_read>>
      /\ long_word_size' = LongWord(mode', n)
      /\ size' = IF offset_buf' = Len(buffer) THEN size - Len(buffer) ELSE size
  BY DEF Piece
<1>2. \/ mode' = "SPACE" /\ kind("STR") /\ UNCHANGED statics
      \/ mode' = "CONTINUE" /\ type = "STR" /\ kind("STR") /\ UNCHANGED statics
      \/ /\ mode' = "NEXT" \/ (mode' = "CONTINUE" /\ type # "STR")
         /\ NewStatics(mode', w) /\ kind(TypeOf(w))
  BY DEF Piece
<1> DEFINE written(t) == mode' = "NEXT" => NewStatics("NEXT", w) /\ t = TypeOf(w)
<1>3. w \in Seq(Chars) /\ w # <<>>
  BY <1>1, NextPiece DEF IInv
<1>4. num_mod_3 \in 0 .. 2 /\ last_digit \in Digit
  BY DEF IInv, TypeOK
<1>5. \A t : kind(t) /\ written(t) => Taken(t, n)
  BY <1>1 DEF Taken
<1>6. TypeOf(w) \in Types /\ "STR" \in Types
  BY DEF TypeOf, Types
<1> HIDE DEF w, kind
<1>7. \E t \in Types : kind(t) /\ written(t)
  BY <1>2, <1>6
<1>8. num_mod_3' \in 0 .. 2 /\ last_digit' \in Digit
  BY <1>2, <1>3, <1>4, StaticsOf DEF statics
<1> QED BY <1>1, <1>5, <1>7, <1>8

LEMMA PieceStep == ASSUME IInv, Piece PROVE IInv'
<1>1. PICK n : n = Length(Rest)
  OBVIOUS
<1>2. /\ offset_buf < Len(buffer) /\ num_mod_3' \in 0 .. 2 /\ last_digit' \in Digit
      /\ \E t \in Types : Taken(t, n)
  BY <1>1, Take
<1>3. PICK t \in Types : Taken(t, n)
  BY <1>2
<1>4. /\ file' = file /\ buffer' = buffer /\ offset_read' = offset_read
      /\ offset_buf' = offset_buf + n /\ mode' = FindMode(Rest)
      /\ size' = IF offset_buf' = Len(buffer) THEN size - Len(buffer) ELSE size
      /\ long_word_size' = LongWord(mode', n)
  BY <1>3 DEF Taken
<1>5. /\ file \in Seq(Chars) /\ Len(file) \in Nat /\ Len(buffer) \in Nat
      /\ start \in Nat /\ here \in start .. offset_read /\ offset_read = start + Len(buffer)
      /\ offset_read \in 0 .. Len(file) /\ offset_buf \in 0 .. Len(buffer)
      /\ here = start + offset_buf /\ \A k \in 1 .. Len(buffer) : buffer[k] = file[start + k]
  BY Chunk DEF IInv, here
<1>6. /\ n \in 1 .. offset_read - here
      /\ \A i \in here .. (here + n) - 1 : SpaceAt(i) = SpaceAt(here)
      /\ here + n < offset_read => SpaceAt(here + n) # SpaceAt(here)
      /\ mode' = IF SpaceAt(here) THEN "SPACE"
                 ELSE IF here + n < offset_read THEN "NEXT" ELSE "CONTINUE"
  BY <1>1, <1>2, <1>4, NextPiece DEF IInv
<1>7. size = Len(file) - start /\ size > 0
  BY <1>2, <1>5 DEF IInv, Left
<1>8. /\ start' = start /\ here' = here + n /\ here + n \in 0 .. offset_read
      /\ here \in Nat /\ n \in Nat /\ n > 0
  BY <1>4, <1>5, <1>6 DEF start, here
<1>9. /\ offset_file \in Nat /\ long_word_size \in Nat /\ offset_file + long_word_size = here
  BY <1>7 DEF IInv, Position
<1>10. /\ offset_buf' = Len(buffer) <=> here + n = offset_read
       /\ size = offset_buf' <=> here + n = Len(file)
       /\ size' > 0 <=> here + n < Len(file)
  <2>1. here + n = start + offset_buf' /\ offset_buf' \in Nat
    <3>1. offset_buf' = offset_buf + n /\ here = start + offset_buf
      BY <1>4, <1>5
    <3>2. start \in Nat /\ offset_buf \in Nat /\ n \in Nat
      BY <1>5, <1>8
    <3> QED BY <3>1, <3>2
  <2>2. offset_buf' = Len(buffer) <=> here + n = offset_read
    BY <1>5, <2>1
  <2>3. size = offset_buf' <=> here + n = Len(file)
    <3>1. Len(file) - start = offset_buf' <=> here + n = Len(file)
      BY <1>5, <2>1
    <3> QED BY <1>7, <3>1, Zenon
  <2>4. CASE offset_buf' = Len(buffer)
    <3>1. size' = Len(file) - offset_read
      BY <1>4, <1>5, <1>7, <2>4
    <3> QED BY <1>5, <2>2, <2>3, <2>4, <3>1
  <2>5. CASE offset_buf' # Len(buffer)
    <3>1. size' > 0 /\ here + n < Len(file)
      BY <1>4, <1>5, <1>7, <1>8, <2>2, <2>5
    <3> QED BY <2>2, <2>3, <2>5, <3>1
  <2> QED BY <2>4, <2>5
<1>11. long_word_size > 0 => /\ ~SpaceAt(here) /\ here = start /\ type \in Types
                             /\ \A i \in offset_file .. here - 1 : ~SpaceAt(i)
  <2> SUFFICES ASSUME long_word_size > 0
               PROVE  /\ ~SpaceAt(here) /\ here = start /\ type \in Types
                      /\ \A i \in offset_file .. here - 1 : ~SpaceAt(i)
    OBVIOUS
  <2>1. /\ type \in Types /\ (offset_buf = Len(buffer) \/ (offset_buf = 0 /\ buffer[1] # Space))
        /\ \A i \in offset_file .. here - 1 : ~SpaceAt(i)
    BY <1>7 DEF IInv, Unfinished
  <2>2. offset_buf = 0 /\ buffer[1] # Space /\ here = start /\ 1 \in 1 .. Len(buffer)
    BY <1>2, <1>5, <2>1
  <2>3. buffer[1] = file[here + 1]
    BY <1>5, <2>2
  <2> QED BY <2>1, <2>2, <2>3 DEF SpaceAt
<1>12. ~SpaceAt(here) => \A i \in offset_file .. (here + n) - 1 : ~SpaceAt(i)
  <2> SUFFICES ASSUME ~SpaceAt(here), NEW i \in offset_file .. (here + n) - 1 PROVE ~SpaceAt(i)
    OBVIOUS
  <2>1. CASE i < here
    <3>1. long_word_size > 0 /\ i \in offset_file .. here - 1
      BY <1>5, <1>9, <2>1
    <3> QED BY <1>11, <3>1
  <2>2. CASE i >= here
    <3>1. i \in here .. (here + n) - 1
      BY <1>5, <1>6, <1>9, <2>2
    <3> QED BY <1>6, <3>1 DEF SpaceAt
  <2> QED BY <1>5, <1>9, <2>1, <2>2
<1>13. SpaceAt(here) => long_word_size = 0 /\ offset_file = here
  BY <1>5, <1>9, <1>11
<1>14. Left'
  BY <1>4, <1>5, <1>7, <1>8 DEF Left
<1>15. Chunks'
  BY <1>4, <1>8 DEF IInv, Chunks, Multiple
<1>16. ASSUME pos' = offset_read', mode' \in {"NEXT", "SPACE", "CONTINUE"}, type' \in Types \cup {"DEFAULT"},
              size' > 0 => offset_file' + long_word_size' = here + n
       PROVE  TypeOK'
  <2>1. file \in Files /\ Len(buffer) <= MAX_LEN /\ offset_read \in 0 .. Len(file)
        /\ buffer = SubSeq(file, offset_read - Len(buffer) + 1, offset_read)
    BY DEF IInv, TypeOK
  <2>2. offset_buf' \in 0 .. Len(buffer)
    <3>1. /\ offset_buf' = offset_buf + n /\ offset_buf \in Nat /\ n \in Nat /\ Len(buffer) \in Nat
          /\ start \in Nat /\ here = start + offset_buf /\ offset_read = start + Len(buffer)
          /\ here + n <= offset_read
      BY <1>4, <1>5, <1>8
    <3> QED BY <3>1
  <2>3. offset_read - Len(buffer) + offset_buf' = here + n
    <3>1. /\ offset_buf' = offset_buf + n /\ offset_buf \in Nat /\ n \in Nat /\ Len(buffer) \in Nat
          /\ start \in Nat /\ here = start + offset_buf /\ offset_read = start + Len(buffer)
      BY <1>4, <1>5, <1>8
    <3> QED BY <3>1
  <2> QED BY <1>2, <1>4, <1>16, <2>1, <2>2, <2>3 DEF TypeOK
<1>17. mode' \in {"NEXT", "SPACE", "CONTINUE"}
  BY <1>6
<1>18. CASE mode' \in {"NEXT", "SPACE"} \/ size = offset_buf'
  <2> DEFINE w == [type |-> t, from |-> offset_file, size |-> long_word_size + n]
  <2>1. PrintWord(t, long_word_size + n) /\ type' = "DEFAULT"
    BY <1>3, <1>18 DEF Taken
  <2>2. here + n = Len(file) \/ mode' \in {"NEXT", "SPACE"}
    BY <1>10, <1>18
  <2>3. w.from = offset_file /\ w.size = long_word_size + n /\ End(w) = here + n
    <3>1. offset_file + (long_word_size + n) = here + n
      BY <1>8, <1>9
    <3> QED BY <3>1, Zenon DEF End
  <2>4. w.type = t
    OBVIOUS
  <2>5. SpaceAt(offset_file) = SpaceAt(here) /\ offset_file < here + n
    <3>1. offset_file \in offset_file .. (here + n) - 1
      BY <1>5, <1>6, <1>9
    <3> QED BY <1>5, <1>6, <1>9, <1>12, <1>13, <3>1 DEF SpaceAt
  <2>6. here + n < Len(file) /\ ~SpaceAt(here) => mode' = "NEXT" /\ SpaceAt(here + n)
    <3> SUFFICES ASSUME here + n < Len(file), ~SpaceAt(here)
                 PROVE  mode' = "NEXT" /\ SpaceAt(here + n)
      OBVIOUS
    <3>1. mode' \in {"NEXT", "SPACE"}
      BY <1>5, <1>8, <2>2
    <3>2. here + n < offset_read /\ mode' = "NEXT"
      BY <1>6, <3>1
    <3> QED BY <1>6, <3>2 DEF SpaceAt
  <2> HIDE DEF w
  <2>7. InOrder(w)
    <3>1. ASSUME NEW i \in w.from .. End(w) - 1 PROVE SpaceAt(i) = SpaceAt(w.from)
      <4>0. w.from .. End(w) - 1 = offset_file .. (here + n) - 1
        BY <2>3, Zenon
      <4> i \in offset_file .. (here + n) - 1
        BY <4>0, Zenon
      <4>1. CASE SpaceAt(here)
        <5>1. i \in here .. (here + n) - 1
          BY <1>13, <4>1
        <5> QED BY <1>6, <2>3, <2>5, <5>1
      <4>2. CASE ~SpaceAt(here)
        <5>1. ~SpaceAt(i)
          BY <1>12, <4>2
        <5> QED BY <2>3, <2>5, <4>2, <5>1 DEF SpaceAt
      <4> QED BY <4>1, <4>2
    <3>2. ~SpaceAt(w.from) /\ w.from > 0 => SpaceAt(w.from - 1)
      BY <1>5, <1>8, <1>9, <2>3, <2>5 DEF IInv, Boundary
    <3>3. ~SpaceAt(w.from) /\ End(w) < Len(file) => SpaceAt(End(w))
      BY <2>3, <2>5, <2>6
    <3>4. w.size > 0
      BY <1>6, <1>9, <2>3
    <3> QED BY <3>1, <3>2, <3>3, <3>4 DEF InOrder
  <2>8. Replaced(w)
    <3> SUFFICES ASSUME ~SpaceAt(w.from), End(w) < Len(file), w.from \div MAX_LEN = End(w) \div MAX_LEN
                 PROVE  t = Expected(SubSeq(file, w.from + 1, End(w)))
      BY <2>4 DEF Replaced, w
    <3>1. mode' = "NEXT"
      BY <2>3, <2>5, <2>6
    <3>2. NewStatics("NEXT", SubSeq(Rest, 1, n)) /\ t = TypeOf(SubSeq(Rest, 1, n))
      BY <1>3, <3>1 DEF Taken
    <3>3. long_word_size = 0
      <4> SUFFICES ASSUME long_word_size > 0 PROVE FALSE
        BY <1>9
      <4>1. PICK q \in Nat : start = MAX_LEN * q
        BY DEF IInv, Chunks, Multiple
      <4>2. offset_file < MAX_LEN * q /\ here + n >= MAX_LEN * q /\ here + n \in Nat
        <5>1. here = MAX_LEN * q
          BY <1>11, <4>1
        <5>2. offset_file < here /\ here + n >= here /\ here + n \in Nat
          BY <1>8, <1>9
        <5> QED BY <5>1, <5>2, Zenon
      <4>3. offset_file \div MAX_LEN < q /\ (here + n) \div MAX_LEN >= q
        BY <1>9, <4>2, Multiples
      <4>4. offset_file \div MAX_LEN \in Int /\ (here + n) \div MAX_LEN \in Int
        BY <1>9, <4>2, LengthAssumption
      <4>5. offset_file \div MAX_LEN = (here + n) \div MAX_LEN
        BY <2>3
      <4> QED BY <4>3, <4>4, <4>5
    <3>4. offset_file = here
      BY <1>5, <1>9, <3>3
    <3>5. /\ SubSeq(Rest, 1, n) = SubSeq(file, here + 1, here + n)
          /\ SubSeq(Rest, 1, n) \in Seq(Chars) /\ SubSeq(Rest, 1, n) # <<>>
      BY <1>1, <1>2, NextPiece DEF IInv
    <3>6. t = Expected(SubSeq(Rest, 1, n))
      BY <3>2, <3>5, TypeIsExpected
    <3> QED BY <2>3, <3>4, <3>5, <3>6
  <2>9. /\ out' \in Seq(Words) /\ offset_file' \in Nat
        /\ offset_file' = IF out' = <<>> THEN 0 ELSE End(out'[Len(out')])
        /\ Written'
    <3>1. long_word_size + n \in Nat
      BY <1>6, <1>9
    <3> QED BY <1>4, <2>1, <2>7, <2>8, <3>1, WordPrinted DEF IInv, w
  <2>10. offset_file' = here + n /\ pos' = offset_read'
    BY <1>5, <1>6, <1>9, <2>1 DEF PrintWord
  <2>11. long_word_size' \in Nat /\ (size' > 0 => long_word_size' = 0)
    <3>1. long_word_size' \in Nat
      BY <1>4, <1>6, <1>9, <1>17 DEF LongWord
    <3>2. size' > 0 => mode' \in {"NEXT", "SPACE"}
      BY <1>8, <1>10, <2>2
    <3>3. mode' = "SPACE" => long_word_size' = 0
      BY <1>4, <1>6, <1>13 DEF LongWord
    <3>4. mode' = "NEXT" => long_word_size' = 0
      BY <1>4 DEF LongWord
    <3> QED BY <3>1, <3>2, <3>3, <3>4
  <2>12. TypeOK'
    <3>1. type' \in Types \cup {"DEFAULT"}
      BY <2>1
    <3>2. size' > 0 => offset_file' + long_word_size' = here + n
      <4>1. here + n + 0 = here + n
        BY <1>8
      <4> QED BY <2>10, <2>11, <4>1, Zenon
    <3> QED BY <1>16, <1>17, <2>10, <3>1, <3>2
  <2>13. Position'
    <3>1. ~ (size' > 0) => here + n = Len(file)
      BY <1>5, <1>8, <1>10
    <3> QED BY <1>4, <1>5, <1>8, <2>9, <2>10, <2>11, <3>1 DEF Position, End
  <2>14. Unfinished'
    <3>1. size' > 0 => mode' # "CONTINUE"
      BY <1>8, <1>10, <2>2
    <3> QED BY <2>11, <3>1 DEF Unfinished
  <2>15. Boundary'
    <3>1. (here + n) - 1 \in here .. (here + n) - 1
      BY <1>5, <1>6
    <3>2. ~SpaceAt((here + n) - 1) => ~SpaceAt(here)
      BY <1>6, <3>1
    <3>3. here + n < Len(file) /\ ~SpaceAt((here + n) - 1) => SpaceAt(here + n)
      BY <2>6, <3>2
    <3>4. offset_file' = here + n /\ file' = file
      BY <1>4, <2>10
    <3>5. here + n < Len(file) /\ ~ (file[((here + n) - 1) + 1] = Space) => file[here + n + 1] = Space
      BY <3>3 DEF SpaceAt
    <3>6. offset_file' < Len(file') /\ ~ (file'[(offset_file' - 1) + 1] = Space)
            => file'[offset_file' + 1] = Space
      BY <3>4, <3>5, Zenon
    <3> QED BY <3>6 DEF Boundary, SpaceAt
  <2> QED BY <1>14, <1>15, <2>9, <2>12, <2>13, <2>14, <2>15 DEF IInv
<1>19. CASE ~ (mode' \in {"NEXT", "SPACE"} \/ size = offset_buf')
  <2>1. /\ mode' = "CONTINUE" /\ size # offset_buf' /\ type' = t
        /\ out' = out /\ offset_file' = offset_file /\ pos' = pos
    BY <1>3, <1>19 DEF Taken
  <2>2. ~SpaceAt(here) /\ here + n = offset_read
    <3>1. ~SpaceAt(here) /\ ~ (here + n < offset_read)
      BY <1>6, <2>1, Zenon
    <3> QED BY <1>5, <1>8, <3>1
  <2>3. /\ out' \in Seq(Words) /\ offset_file' \in Nat
        /\ offset_file' = IF out' = <<>> THEN 0 ELSE End(out'[Len(out')])
        /\ Written'
    BY <1>4, <2>1, Kept DEF IInv
  <2>4. /\ long_word_size' = long_word_size + n /\ long_word_size' \in Nat /\ long_word_size' > 0
        /\ offset_file + (long_word_size + n) = here + n
    <3>1. long_word_size' = long_word_size + n
      BY <1>4, <2>1 DEF LongWord
    <3> QED BY <1>5, <1>6, <1>9, <3>1
  <2>5. here + n < Len(file) /\ size' > 0
    BY <1>5, <1>8, <1>10, <2>1
  <2>6. TypeOK'
    <3>1. pos' = offset_read'
      BY <1>4, <2>1 DEF IInv, TypeOK
    <3> QED BY <1>16, <1>17, <2>1, <2>4, <3>1
  <2>7. Position'
    BY <1>8, <2>1, <2>3, <2>4, <2>5 DEF Position, End
  <2>8. Unfinished'
    <3>1. offset_buf' = Len(buffer')
      BY <1>4, <1>10, <2>2
    <3>2. \A i \in offset_file .. (here + n) - 1 : ~SpaceAt(i)
      BY <1>12, <2>2
    <3>3. \A i \in offset_file' .. here' - 1 : file'[i + 1] # Space
      <4>1. \A i \in offset_file .. (here + n) - 1 : file[i + 1] # Space
        BY <3>2 DEF SpaceAt
      <4> QED BY <1>4, <1>8, <2>1, <4>1, Zenon
    <3>4. long_word_size' > 0 /\ mode' = "CONTINUE" /\ type' \in Types
      BY <2>1, <2>4
    <3> HIDE DEF here
    <3> QED BY <3>1, <3>3, <3>4 DEF Unfinished, SpaceAt
  <2>9. Boundary'
    BY <1>4, <2>1 DEF IInv, Boundary, SpaceAt
  <2> QED BY <1>14, <1>15, <2>3, <2>6, <2>7, <2>8, <2>9 DEF IInv
<1> QED BY <1>18, <1>19
-----------------------------------------------------------------------------
LEMMA Invariant == Spec => []IInv
<1>1. Init => IInv
  BY Initially
<1>2. IInv /\ [Next]_vars => IInv'
  <2> SUFFICES ASSUME IInv, [Next]_vars PROVE IInv'
    OBVIOUS
  <2>1. CASE ReadChunk
    BY <2>1, ReadChunkStep
  <2>2. CASE Piece
    BY <2>2, PieceStep
  <2>3. CASE UNCHANGED vars
    BY <2>3 DEF vars, statics, IInv, TypeOK, Left, Position, Unfinished, Boundary, Chunks, Multiple,
                Written, InOrder, Replaced, SpaceAt, End, start, here
  <2> QED BY <2>1, <2>2, <2>3 DEF Next, Done
<1> QED BY <1>1, <1>2, PTL DEF Spec

(* The types, and where the chunk in the buffer lies, of every run.        *)
THEOREM TypeCorrect == Spec => []TypeOK
<1>1. IInv => TypeOK
  BY DEF IInv
<1> QED BY <1>1, Invariant, PTL

(* Whatever the lengths of the words and of the buffer, the output stands  *)
(* for the whole file, in order, and no word is written in two pieces.     *)
THEOREM OutputInOrder == Spec => []WordsInOrder
<1>1. IInv => WordsInOrder
  <2> SUFFICES ASSUME IInv PROVE WordsInOrder
    OBVIOUS
  <2>1. file \in Seq(Chars) /\ Len(file) \in Nat
    BY Chunk DEF IInv
  <2>2. out \in Seq(Words) /\ offset_file = IF out = <<>> THEN 0 ELSE End(out[Len(out)])
    BY DEF IInv, Position
  <2>3. size = 0 => offset_file = Len(file)
    BY DEF IInv, Position
  <2>4. Sx!Last(out) = out[Len(out)]
    BY DEF Sx!Last
  <2>5. size = 0 /\ out # <<>> => End(Sx!Last(out)) = Len(file)
    BY <2>2, <2>3, <2>4
  <2>6. size = 0 /\ file # <<>> => out # <<>>
    BY <2>1, <2>2, <2>3, EmptySeq
  <2>7. \A k \in DOMAIN out : out[k].from = IF k = 1 THEN 0 ELSE End(out[k - 1])
    BY DEF IInv, Written
  <2>8. \A k \in DOMAIN out : InOrder(out[k])
    BY DEF IInv, Written
  <2> QED BY <2>5, <2>6, <2>7, <2>8 DEF WordsInOrder, InOrder
<1> QED BY <1>1, Invariant, PTL

(* A word that lies in one chunk with the space after it is replaced       *)
(* exactly if it is a number that 3 or 5 divides, whatever its length, the *)
(* words before it and the chunks before this one.                         *)
THEOREM NumbersReplaced == Spec => []ReplacedIfDivisible
<1>1. IInv => ReplacedIfDivisible
  BY DEF IInv, Written, Replaced, ReplacedIfDivisible
<1> QED BY <1>1, Invariant, PTL
=============================================================================
