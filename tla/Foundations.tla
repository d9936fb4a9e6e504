----------------------------- MODULE Foundations -----------------------------
(***************************************************************************)
(* What the proofs rest on: induction over the natural numbers, lists put  *)
(* together of lists, powers of two, and remainders.                       *)
(***************************************************************************)
EXTENDS Integers, SequencesExt, FiniteSetTheorems, SequenceTheorems, TLAPS

(* Induction, about a set instead of a predicate: a number outside S would *)
(* make a finite set of those below it, which subtracting one would map    *)
(* into itself, one to one but not onto.                                   *)
LEMMA Induction ==
  ASSUME NEW S, 0 \in S, \A n \in Nat : n \in S => n + 1 \in S
  PROVE  Nat \subseteq S
<1> SUFFICES ASSUME NEW t \in Nat, t \notin S
             PROVE  FALSE
  OBVIOUS
<1> DEFINE A == {x \in 0 .. t : x \notin S}
           f == [x \in A |-> x - 1]
<1>1. IsFiniteSet(A)
  <2>1. IsFiniteSet(0 .. t)
    BY FS_Interval
  <2>2. A \in SUBSET (0 .. t)
    OBVIOUS
  <2> HIDE DEF A
  <2> QED
    BY <2>1, <2>2, FS_Subset
<1>2. f \in Injection(A, A)
  BY DEF Injection, IsInjective
<1>3. \A y \in A : \E x \in A : f[x] = y
  <2> HIDE DEF A, f
  <2>1. f \in Surjection(A, A)
    BY <1>1, <1>2, FS_Injection
  <2> QED
    BY <2>1 DEF Surjection
<1>4. PICK x \in A : f[x] = t
  BY <1>3
<1> QED
  BY <1>4

(* A set of positions that is not empty has a greatest one.                *)
LEMMA GreatestExists ==
  ASSUME NEW len \in Nat, NEW S \in SUBSET (1 .. len), S # {}
  PROVE  \E n \in S : \A m \in S : m <= n
<1> DEFINE K == {k \in Nat : (\A n \in S : n <= len - k) \/ \E n \in S : \A m \in S : m <= n}
<1>1. 0 \in K
  OBVIOUS
<1>2. ASSUME NEW k \in Nat, k \in K
      PROVE  k + 1 \in K
  <2>1. CASE \E n \in S : \A m \in S : m <= n
    BY <2>1
  <2>2. CASE \A n \in S : n <= len - k
    <3>1. CASE len - k \in S
      BY <2>2, <3>1
    <3>2. CASE len - k \notin S
      BY <2>2, <3>2
    <3> QED
      BY <3>1, <3>2
  <2> QED
    BY <1>2, <2>1, <2>2
<1>3. Nat \subseteq K
  <2> HIDE DEF K
  <2> QED
    BY <1>1, <1>2, Induction
<1>4. len \in K
  <2> HIDE DEF K
  <2> QED
    BY <1>3
<1>5. PICK n \in S : TRUE
  OBVIOUS
<1>6. len - len = 0 /\ n > 0 /\ n \in Int
  BY n \in 1 .. len
<1>7. ~ \A m \in S : m <= len - len
  BY <1>5, <1>6
<1> QED
  BY <1>4, <1>7

(* Max (FiniteSetsExt) is the greatest element.                            *)
LEMMA MaxIs ==
  ASSUME NEW S, NEW k \in S, \A n \in S : n \in Nat /\ n <= k
  PROVE  Max(S) = k
<1>1. \A n \in S : (\A m \in S : n >= m) => n = k
  OBVIOUS
<1>2. \A m \in S : k >= m
  OBVIOUS
<1> QED
  BY <1>1, <1>2 DEF Max

-----------------------------------------------------------------------------
(* Sequences. *)

(* A function on 1..len is a sequence of that length.                      *)
LEMMA SeqOfPositions ==
  ASSUME NEW T, NEW len \in Nat, NEW s \in [1 .. len -> T]
  PROVE  s \in Seq(T) /\ Len(s) = len
OBVIOUS

(* A sequence with its last element replaced.                              *)
LEMMA LastReplaced ==
  ASSUME NEW T, NEW c \in Seq(T), NEW len, len = Len(c), len > 0, NEW new \in T, NEW d,
         d = [c EXCEPT ![len] = new]
  PROVE  /\ d \in Seq(T) /\ Len(d) = len /\ d[len] = new
         /\ \A n \in 1 .. len - 1 : d[n] = c[n]
OBVIOUS

-----------------------------------------------------------------------------
(* FlattenSeq. *)

(* The first n beginnings of s put together, one after the other.          *)
Flattens(g, s, n) ==
  \A i \in 1 .. n : g[i] = IF i = 1 THEN s[i] ELSE g[i - 1] \o s[i]

(* There are such functions.                                               *)
LEMMA FlattenExists ==
  ASSUME NEW T, NEW s \in Seq(Seq(T))
  PROVE  \E g \in [1 .. Len(s) -> Seq(T)] : Flattens(g, s, Len(s))
<1> DEFINE S == {n \in Nat : n <= Len(s) => \E g \in [1 .. n -> Seq(T)] : Flattens(g, s, n)}
<1>1. 0 \in S
  <2>1. [i \in 1 .. 0 |-> <<>>] \in [1 .. 0 -> Seq(T)] /\ Flattens([i \in 1 .. 0 |-> <<>>], s, 0)
    BY DEF Flattens
  <2> QED
    BY <2>1
<1>2. ASSUME NEW n \in Nat, n \in S
      PROVE  n + 1 \in S
  <2>1. ASSUME n + 1 <= Len(s)
        PROVE  \E g \in [1 .. n + 1 -> Seq(T)] : Flattens(g, s, n + 1)
    <3>1. n <= Len(s) /\ n + 1 \in 1 .. Len(s) /\ s[n + 1] \in Seq(T)
      BY <2>1
    <3>2. PICK g \in [1 .. n -> Seq(T)] : Flattens(g, s, n)
      BY <1>2, <3>1
    <3> DEFINE more == IF n = 0 THEN s[n + 1] ELSE g[n] \o s[n + 1]
               h == [i \in 1 .. n + 1 |-> IF i <= n THEN g[i] ELSE more]
    <3>3. more \in Seq(T)
      <4>1. CASE n = 0
        BY <3>1, <4>1
      <4>2. CASE n # 0
        <5>1. g[n] \in Seq(T)
          BY <3>2, <4>2
        <5>2. g[n] \o s[n + 1] \in Seq(T)
          BY <3>1, <5>1
        <5> QED
          BY <4>2, <5>2
      <4> QED
        BY <4>1, <4>2
    <3>4. (n = 0 => more = s[n + 1]) /\ (n # 0 => more = g[n] \o s[n + 1])
      OBVIOUS
    <3> HIDE DEF more
    <3>5. h \in [1 .. n + 1 -> Seq(T)]
      <4>1. \A i \in 1 .. n + 1 : (IF i <= n THEN g[i] ELSE more) \in Seq(T)
        BY <3>2, <3>3
      <4> QED
        BY <4>1
    <3>6. h[n + 1] = more /\ \A i \in 1 .. n : h[i] = g[i]
      OBVIOUS
    <3> HIDE DEF h
    <3>7. ASSUME NEW i \in 1 .. n + 1
          PROVE  h[i] = IF i = 1 THEN s[i] ELSE h[i - 1] \o s[i]
      <4>1. CASE i \in 1 .. n
        <5>1. i # 1 => i - 1 \in 1 .. n
          BY <4>1
        <5> QED
          BY <3>2, <3>6, <4>1, <5>1 DEF Flattens
      <4>2. CASE i \notin 1 .. n
        <5>1. i = n + 1 /\ (i = 1 <=> n = 0) /\ (n # 0 => n \in 1 .. n /\ i - 1 = n)
          BY <4>2
        <5> QED
          BY <3>4, <3>6, <5>1
      <4> QED
        BY <4>1, <4>2
    <3> QED
      BY <3>5, <3>7 DEF Flattens
  <2> QED
    BY <2>1
<1>3. Nat \subseteq S
  <2> HIDE DEF S
  <2> QED
    BY <1>1, <1>2, Induction
<1>4. Len(s) \in S
  <2> HIDE DEF S
  <2> QED
    BY <1>3
<1> QED
  BY <1>4

(* There is one only.                                                      *)
LEMMA FlattenUnique ==
  ASSUME NEW s, Len(s) \in Nat, NEW g, NEW h, Flattens(g, s, Len(s)), Flattens(h, s, Len(s)), NEW k \in 1 .. Len(s)
  PROVE  g[k] = h[k]
<1> DEFINE S == {n \in Nat : n + 1 <= Len(s) => g[n + 1] = h[n + 1]}
<1>1. 0 \in S
  BY DEF Flattens
<1>2. ASSUME NEW n \in Nat, n \in S
      PROVE  n + 1 \in S
  BY <1>2 DEF Flattens
<1>3. Nat \subseteq S
  <2> HIDE DEF S
  <2> QED
    BY <1>1, <1>2, Induction
<1>4. k - 1 \in S
  BY <1>3
<1> QED
  BY <1>4

(* FlattenSeq is what any such function has last.                          *)
LEMMA FlattenIs ==
  ASSUME NEW T, NEW s \in Seq(Seq(T)), s # <<>>,
         NEW g \in [1 .. Len(s) -> Seq(T)], Flattens(g, s, Len(s))
  PROVE  FlattenSeq(s) = g[Len(s)]
<1> DEFINE P(f) == f = [i \in 1 .. Len(s) |-> IF i = 1 THEN s[i] ELSE f[i - 1] \o s[i]]
<1>1. FlattenSeq(s) = (CHOOSE f : P(f))[Len(s)]
  BY DEF FlattenSeq
<1>2. P(g)
  BY DEF Flattens
<1>3. P(CHOOSE f : P(f))
  <2> HIDE DEF P
  <2> QED
    BY <1>2
<1>4. Flattens(CHOOSE f : P(f), s, Len(s))
  <2>1. \A f : P(f) => Flattens(f, s, Len(s))
    BY DEF Flattens
  <2> HIDE DEF P
  <2> QED
    BY <1>3, <2>1
<1>5. Len(s) \in Nat /\ Len(s) \in 1 .. Len(s)
  OBVIOUS
<1> HIDE DEF P
<1> QED
  BY <1>1, <1>4, <1>5, FlattenUnique, ZenonT(40)

(* Nothing flattens to nothing.                                            *)
LEMMA FlattenEmpty == FlattenSeq(<<>>) = <<>>
BY DEF FlattenSeq

(* The flattened list is of the elements of the pieces.                    *)
LEMMA FlattenType ==
  ASSUME NEW T, NEW s \in Seq(Seq(T))
  PROVE  FlattenSeq(s) \in Seq(T)
<1>1. CASE s = <<>>
  <2>1. <<>> \in Seq(T)
    OBVIOUS
  <2> QED
    BY <1>1, <2>1, FlattenEmpty
<1>2. CASE s # <<>>
  <2>1. PICK g \in [1 .. Len(s) -> Seq(T)] : Flattens(g, s, Len(s))
    BY FlattenExists
  <2>2. FlattenSeq(s) = g[Len(s)]
    BY <1>2, <2>1, FlattenIs
  <2>3. Len(s) \in 1 .. Len(s)
    BY <1>2
  <2> HIDE DEF Flattens
  <2> QED
    BY <2>1, <2>2, <2>3
<1> QED
  BY <1>1, <1>2

(* One list more. *)
LEMMA FlattenOneMore ==
  ASSUME NEW T, NEW s \in Seq(Seq(T)), NEW t \in Seq(Seq(T)),
         Len(t) = Len(s) + 1, \A i \in 1 .. Len(s) : t[i] = s[i]
  PROVE  FlattenSeq(t) = FlattenSeq(s) \o t[Len(t)]
<1>1. PICK g \in [1 .. Len(t) -> Seq(T)] : Flattens(g, t, Len(t))
  BY FlattenExists
<1>2. t # <<>> /\ Len(t) \in 1 .. Len(t) /\ t[Len(t)] \in Seq(T)
  OBVIOUS
<1>3. FlattenSeq(t) = g[Len(t)]
  BY <1>1, <1>2, FlattenIs
<1>4. CASE s = <<>>
  <2>1. g[Len(t)] = t[Len(t)]
    BY <1>1, <1>2, <1>4 DEF Flattens
  <2> QED
    BY <1>2, <1>3, <1>4, <2>1, FlattenEmpty
<1>5. CASE s # <<>>
  <2> DEFINE h == [i \in 1 .. Len(s) |-> g[i]]
  <2>1. h \in [1 .. Len(s) -> Seq(T)]
    OBVIOUS
  <2>2. Flattens(h, s, Len(s))
    <3> SUFFICES ASSUME NEW i \in 1 .. Len(s)
                 PROVE  h[i] = IF i = 1 THEN s[i] ELSE h[i - 1] \o s[i]
      BY DEF Flattens
    <3>1. Len(s) \in Nat /\ i \in 1 .. Len(t) /\ (i # 1 => i - 1 \in 1 .. Len(s))
      OBVIOUS
    <3>2. g[i] = (IF i = 1 THEN t[i] ELSE g[i - 1] \o t[i]) /\ t[i] = s[i]
      BY <1>1, <3>1 DEF Flattens
    <3> QED
      BY <3>1, <3>2
  <2>3. FlattenSeq(s) = h[Len(s)]
    <3> HIDE DEF h
    <3> QED
      BY <1>5, <2>1, <2>2, FlattenIs
  <2>4. h[Len(s)] = g[Len(s)]
    BY <1>5
  <2>5. g[Len(t)] = g[Len(s)] \o t[Len(t)]
    <3>1. Len(t) \in 1 .. Len(t) /\ Len(t) # 1 /\ Len(t) - 1 = Len(s)
      BY <1>5
    <3> QED
      BY <1>1, <3>1 DEF Flattens
  <2> QED
    BY <1>3, <2>3, <2>4, <2>5
<1> QED
  BY <1>4, <1>5


(* How lists are grouped, and a list of the first element alone.           *)
LEMMA Grouped ==
  ASSUME NEW T, NEW a \in Seq(T), NEW b \in Seq(T), NEW c \in Seq(T),
         NEW f, f = a \o b, NEW g, g = a \o (b \o c)
  PROVE  g = f \o c
<1>1. (a \o b) \o c = a \o (b \o c)
  BY ConcatAssociative
<1> QED
  BY <1>1

(* The first element alone, as a sequence.                                 *)
LEMMA FirstAlone ==
  ASSUME NEW T, NEW c \in Seq(T), c # <<>>
  PROVE  SubSeq(c, 1, 1) = <<c[1]>>
<1>1. 1 \in 1 .. Len(c)
  OBVIOUS
<1> DEFINE p == SubSeq(c, 1, 1)
<1>2. p \in Seq(T) /\ Len(p) = 1 /\ p[1] = c[1]
  BY <1>1
<1> HIDE DEF p
<1>3. p = <<c[1]>>
  BY <1>2
<1> QED
  BY <1>3 DEF p

(* The last list made longer.                                              *)
Longer(s, t, x) ==
  /\ s # <<>>
  /\ Len(t) = Len(s)
  /\ \A i \in 1 .. Len(s) - 1 : t[i] = s[i]
  /\ t[Len(s)] = s[Len(s)] \o x

(* A longer last piece makes the flattened list longer at its end.         *)
LEMMA FlattenLonger ==
  ASSUME NEW T, NEW s \in Seq(Seq(T)), NEW t \in Seq(Seq(T)), NEW x \in Seq(T), Longer(s, t, x)
  PROVE  FlattenSeq(t) = FlattenSeq(s) \o x
<1> DEFINE len == Len(s) - 1
           r == SubSeq(s, 1, len)
<1>1. /\ len \in Nat /\ Len(s) = len + 1 /\ Len(t) = len + 1 /\ Len(s) \in 1 .. Len(s)
      /\ \A i \in 1 .. len : t[i] = s[i]
      /\ t[Len(s)] = s[Len(s)] \o x
  BY DEF Longer
<1>2. r \in Seq(Seq(T)) /\ Len(r) = len /\ \A i \in 1 .. len : r[i] = s[i]
  BY <1>1
<1> HIDE DEF r, len
<1>3. \A i \in 1 .. len : r[i] = t[i]
  BY <1>1, <1>2
<1>4. FlattenSeq(s) = FlattenSeq(r) \o s[Len(s)] /\ FlattenSeq(t) = FlattenSeq(r) \o t[Len(t)]
  BY <1>1, <1>2, <1>3, FlattenOneMore
<1> DEFINE a == FlattenSeq(r)
           b == s[Len(s)]
           f == FlattenSeq(s)
           g == FlattenSeq(t)
<1>5. g = a \o (b \o x) /\ f = a \o b
  BY <1>1, <1>4
<1>6. a \in Seq(T) /\ b \in Seq(T)
  BY <1>1, <1>2, FlattenType
<1> HIDE DEF a, b, f, g
<1>7. g = f \o x
  BY <1>5, <1>6, Grouped
<1> QED
  BY <1>7 DEF f, g

(* Lists of one element each.                                              *)
LEMMA FlattenSingles ==
  ASSUME NEW T, NEW c \in Seq(T), NEW s, s = [i \in 1 .. Len(c) |-> <<c[i]>>]
  PROVE  FlattenSeq(s) = c
<1>1. s \in Seq(Seq(T)) /\ Len(s) = Len(c)
  OBVIOUS
<1>2. CASE c = <<>>
  BY <1>1, <1>2, FlattenEmpty
<1>3. CASE c # <<>>
  <2> DEFINE g == [n \in 1 .. Len(s) |-> SubSeq(c, 1, n)]
  <2>1. g \in [1 .. Len(s) -> Seq(T)]
    BY <1>1
  <2>2. Flattens(g, s, Len(s))
    <3> SUFFICES ASSUME NEW i \in 1 .. Len(s)
                 PROVE  g[i] = IF i = 1 THEN s[i] ELSE g[i - 1] \o s[i]
      BY DEF Flattens
    <3>1. i \in 1 .. Len(c) /\ s[i] = <<c[i]>> /\ g[i] = SubSeq(c, 1, i)
      BY <1>1
    <3>2. CASE i = 1
      <4>1. SubSeq(c, 1, 1) = <<c[1]>>
        BY <1>3, FirstAlone
      <4> QED
        BY <3>1, <3>2, <4>1
    <3>3. CASE i # 1
      <4>1. i - 1 \in 1 .. Len(s) /\ g[i - 1] = SubSeq(c, 1, i - 1)
        BY <1>1, <3>3
      <4>2. SubSeq(c, 1, i) = SubSeq(c, 1, i - 1) \o <<c[i]>>
        BY <3>1, <3>3
      <4> QED
        BY <3>1, <3>3, <4>1, <4>2
    <3> QED
      BY <3>2, <3>3
  <2> HIDE DEF g
  <2>3. s # <<>>
    BY <1>1, <1>3
  <2>4. FlattenSeq(s) = g[Len(s)]
    BY <1>1, <2>1, <2>2, <2>3, FlattenIs
  <2>5. g[Len(s)] = SubSeq(c, 1, Len(c))
    BY <1>1, <1>3 DEF g
  <2>6. SubSeq(c, 1, Len(c)) = c
    OBVIOUS
  <2> QED
    BY <2>4, <2>5, <2>6
<1> QED
  BY <1>2, <1>3

(* Empty lists behind add nothing.                                         *)
LEMMA FlattenEmptyEnd ==
  ASSUME NEW T, NEW t \in Seq(Seq(T)), NEW k \in 0 .. Len(t),
         \A i \in k + 1 .. Len(t) : t[i] = <<>>
  PROVE  FlattenSeq(t) = FlattenSeq(SubSeq(t, 1, k))
<1> DEFINE F(n) == FlattenSeq(SubSeq(t, 1, n))
           S == {d \in Nat : k + d <= Len(t) => F(k + d) = F(k)}
<1>1. 0 \in S
  OBVIOUS
<1>2. ASSUME NEW d \in Nat, d \in S
      PROVE  d + 1 \in S
  <2>1. ASSUME k + (d + 1) <= Len(t)
        PROVE  F(k + (d + 1)) = F(k)
    <3> DEFINE n == k + d
    <3>1. n \in Nat /\ n + 1 \in 1 .. Len(t) /\ n + 1 \in k + 1 .. Len(t) /\ k + (d + 1) = n + 1 /\ n <= Len(t)
      BY <2>1
    <3>2. F(n) = F(k)
      BY <1>2, <3>1
    <3> HIDE DEF n
    <3> DEFINE p == SubSeq(t, 1, n)
               q == SubSeq(t, 1, n + 1)
    <3>3. /\ p \in Seq(Seq(T)) /\ q \in Seq(Seq(T)) /\ Len(p) = n /\ Len(q) = n + 1
          /\ \A i \in 1 .. n : q[i] = p[i]
          /\ q[n + 1] = <<>>
      BY <3>1
    <3> HIDE DEF p, q
    <3>4. FlattenSeq(q) = FlattenSeq(p) \o <<>>
      BY <3>3, FlattenOneMore
    <3>5. FlattenSeq(p) \in Seq(T)
      BY <3>3, FlattenType
    <3>6. FlattenSeq(q) = FlattenSeq(p)
      BY <3>4, <3>5
    <3> QED
      BY <3>1, <3>2, <3>6 DEF p, q
  <2> QED
    BY <2>1
<1>3. Nat \subseteq S
  <2> HIDE DEF S
  <2> QED
    BY <1>1, <1>2, Induction
<1>4. Len(t) - k \in S
  <2> HIDE DEF S
  <2> QED
    BY <1>3
<1>5. F(Len(t)) = F(k)
  BY <1>4
<1>6. SubSeq(t, 1, Len(t)) = t
  OBVIOUS
<1> QED
  BY <1>5, <1>6

(* Two sequences go together if each item and its counterpart do; so do    *)
(* the flattened lists of pieces that go together.                         *)
Together(R, x, y) == Len(x) = Len(y) /\ \A n \in 1 .. Len(x) : <<x[n], y[n]>> \in R

(* Lists that go together, each with a list behind it that does.           *)
LEMMA TogetherJoined ==
  ASSUME NEW T, NEW U, NEW R, NEW a \in Seq(T), NEW b \in Seq(T), NEW c \in Seq(U), NEW d \in Seq(U),
         Together(R, a, c), Together(R, b, d)
  PROVE  Together(R, a \o b, c \o d)
<1>1. /\ Len(a) \in Nat /\ Len(b) \in Nat /\ Len(c) = Len(a) /\ Len(d) = Len(b)
      /\ Len(a \o b) = Len(a) + Len(b) /\ Len(c \o d) = Len(a) + Len(b)
  BY SMTT(40) DEF Together
<1>2. ASSUME NEW n \in 1 .. Len(a) + Len(b)
      PROVE  <<(a \o b)[n], (c \o d)[n]>> \in R
  <2>1. CASE n <= Len(a)
    <3>1. (a \o b)[n] = a[n] /\ (c \o d)[n] = c[n] /\ n \in 1 .. Len(a)
      BY <1>1, <2>1
    <3> QED
      BY <3>1 DEF Together
  <2>2. CASE ~ n <= Len(a)
    <3>1. (a \o b)[n] = b[n - Len(a)] /\ (c \o d)[n] = d[n - Len(a)] /\ n - Len(a) \in 1 .. Len(b)
      BY <1>1, <2>2
    <3> QED
      BY <3>1 DEF Together
  <2> QED
    BY <2>1, <2>2
<1> QED
  BY <1>1, <1>2 DEF Together

(* And the flattened lists.                                                *)
LEMMA FlattenTogether ==
  ASSUME NEW T, NEW U, NEW R, NEW s \in Seq(Seq(T)), NEW t \in Seq(Seq(U)), Len(t) = Len(s),
         \A i \in 1 .. Len(s) : Together(R, s[i], t[i])
  PROVE  Together(R, FlattenSeq(s), FlattenSeq(t))
<1>1. CASE s = <<>>
  <2>1. t = <<>> /\ Together(R, <<>>, <<>>)
    BY <1>1 DEF Together
  <2> QED
    BY <1>1, <2>1, FlattenEmpty
<1>2. CASE s # <<>>
  <2>1. PICK g \in [1 .. Len(s) -> Seq(T)] : Flattens(g, s, Len(s))
    BY FlattenExists
  <2>2. PICK h \in [1 .. Len(t) -> Seq(U)] : Flattens(h, t, Len(t))
    BY FlattenExists
  <2>3. FlattenSeq(s) = g[Len(s)] /\ FlattenSeq(t) = h[Len(s)]
    <3>1. t # <<>>
      BY <1>2
    <3> QED
      BY <1>2, <2>1, <2>2, <3>1, FlattenIs
  <2> DEFINE len == Len(s)
             S == {n \in Nat : n + 1 <= len => Together(R, g[n + 1], h[n + 1])}
  <2>a. len \in Nat /\ len > 0 /\ len = Len(s) /\ Len(t) = len
    BY <1>2
  <2>b. \A i \in 1 .. len : /\ s[i] \in Seq(T) /\ t[i] \in Seq(U)
                            /\ g[i] \in Seq(T) /\ h[i] \in Seq(U)
                            /\ Together(R, s[i], t[i])
    <3>1. \A i \in 1 .. len : s[i] \in Seq(T)
      OBVIOUS
    <3>2. \A i \in 1 .. Len(t) : t[i] \in Seq(U)
      OBVIOUS
    <3>3. g \in [1 .. len -> Seq(T)] /\ h \in [1 .. len -> Seq(U)]
      BY <2>a
    <3> QED
      BY <2>a, <3>1, <3>2, <3>3
  <2>c. /\ \A i \in 1 .. len : g[i] = IF i = 1 THEN s[i] ELSE g[i - 1] \o s[i]
        /\ \A i \in 1 .. len : h[i] = IF i = 1 THEN t[i] ELSE h[i - 1] \o t[i]
    BY <2>1, <2>2 DEF Flattens
  <2> HIDE DEF len
  <2>4. 0 \in S
    <3>1. 1 \in 1 .. len /\ 0 + 1 = 1
      BY <2>a
    <3>2. g[1] = s[1] /\ h[1] = t[1]
      BY <2>c, <3>1
    <3> QED
      BY <2>b, <3>1, <3>2
  <2>5. ASSUME NEW n \in Nat, n \in S
        PROVE  n + 1 \in S
    <3> SUFFICES ASSUME n + 2 <= len
                 PROVE  Together(R, g[n + 2], h[n + 2])
      OBVIOUS
    <3>1. n + 1 \in 1 .. len /\ n + 2 \in 1 .. len /\ n + 2 # 1 /\ (n + 2) - 1 = n + 1
      BY <2>a
    <3>2. g[n + 2] = g[n + 1] \o s[n + 2] /\ h[n + 2] = h[n + 1] \o t[n + 2]
      BY <2>c, <3>1
    <3>3. Together(R, g[n + 1], h[n + 1]) /\ Together(R, s[n + 2], t[n + 2])
      BY <2>5, <2>b, <3>1
    <3>4. /\ g[n + 1] \in Seq(T) /\ h[n + 1] \in Seq(U)
          /\ s[n + 2] \in Seq(T) /\ t[n + 2] \in Seq(U)
      BY <2>b, <3>1
    <3> QED
      BY <3>2, <3>3, <3>4, TogetherJoined
  <2>6. Nat \subseteq S
    <3> HIDE DEF S
    <3> QED
      BY <2>4, <2>5, Induction
  <2>7. Together(R, g[len], h[len])
    <3>1. len - 1 \in Nat /\ (len - 1) + 1 = len /\ len <= len
      BY <2>a
    <3> QED
      BY <2>6, <3>1
  <2> QED
    BY <2>3, <2>7 DEF len
<1> QED
  BY <1>1, <1>2

-----------------------------------------------------------------------------
(* What the items of a list make, put together: F gives a list for each of *)
(* the items.                                                              *)

Mapped(F, s) == [n \in DOMAIN s |-> F[s[n]]]
FlatImage(F, s) == FlattenSeq(Mapped(F, s))

IsMapped(F, s, k, T) ==
  k \in Seq(Seq(T)) /\ Len(k) = Len(s) /\ \A n \in 1 .. Len(s) : k[n] = F[s[n]]

(* The pieces are one for each element.                                    *)
LEMMA MappedType ==
  ASSUME NEW S, NEW T, NEW F \in [S -> Seq(T)], NEW s \in Seq(S)
  PROVE  IsMapped(F, s, Mapped(F, s), T)
<1>1. Len(s) \in Nat /\ DOMAIN s = 1 .. Len(s) /\ \A n \in 1 .. Len(s) : F[s[n]] \in Seq(T)
  OBVIOUS
<1>2. /\ Mapped(F, s) \in [1 .. Len(s) -> Seq(T)]
      /\ \A n \in 1 .. Len(s) : Mapped(F, s)[n] = F[s[n]]
  BY <1>1 DEF Mapped
<1>3. Mapped(F, s) \in Seq(Seq(T)) /\ Len(Mapped(F, s)) = Len(s)
  BY <1>1, <1>2, SeqOfPositions
<1> QED
  BY <1>2, <1>3 DEF IsMapped

(* What they make is a list.                                               *)
LEMMA FlatImageType ==
  ASSUME NEW S, NEW T, NEW F \in [S -> Seq(T)], NEW s \in Seq(S)
  PROVE  FlatImage(F, s) \in Seq(T)
<1>1. Mapped(F, s) \in Seq(Seq(T))
  BY MappedType DEF IsMapped
<1> QED
  BY <1>1, FlattenType DEF FlatImage

(* No element makes nothing.                                               *)
LEMMA FlatImageEmpty ==
  ASSUME NEW F
  PROVE  FlatImage(F, <<>>) = <<>>
<1>1. Mapped(F, <<>>) = <<>>
  BY DEF Mapped
<1> QED
  BY <1>1, FlattenEmpty DEF FlatImage

(* One element more makes its piece more.                                  *)
LEMMA FlatImageAppend ==
  ASSUME NEW S, NEW T, NEW F \in [S -> Seq(T)], NEW s \in Seq(S), NEW e \in S
  PROVE  FlatImage(F, Append(s, e)) = FlatImage(F, s) \o F[e]
<1> DEFINE t == Append(s, e)
           k == Mapped(F, s)
           l == Mapped(F, t)
<1>1. /\ t \in Seq(S) /\ Len(s) \in Nat /\ Len(t) = Len(s) + 1 /\ t[Len(s) + 1] = e
      /\ \A n \in 1 .. Len(s) : t[n] = s[n]
  OBVIOUS
<1> HIDE DEF t
<1>a. t \in Seq(S)
  BY <1>1
<1>2. IsMapped(F, s, k, T)
  BY MappedType
<1>3. IsMapped(F, t, l, T)
  BY <1>a, MappedType
<1>4. F[e] \in Seq(T) /\ FlatImage(F, s) = FlattenSeq(k) /\ FlatImage(F, t) = FlattenSeq(l)
  BY DEF FlatImage
<1> HIDE DEF k, l
<1>5. Len(l) = Len(k) + 1 /\ l[Len(k) + 1] = F[e] /\ \A n \in 1 .. Len(k) : l[n] = k[n]
  BY <1>1, <1>2, <1>3 DEF IsMapped
<1>b. k \in Seq(Seq(T)) /\ l \in Seq(Seq(T)) /\ Len(k) \in Nat
  BY <1>2, <1>3 DEF IsMapped
<1> DEFINE x == F[e]
<1>6. x \in Seq(T) /\ l[Len(k) + 1] = x
  BY <1>4, <1>5
<1> HIDE DEF x
<1>c. l[Len(l)] = x
  BY <1>5, <1>6
<1>7. FlattenSeq(l) = FlattenSeq(k) \o x
  <2>1. FlattenSeq(l) = FlattenSeq(k) \o l[Len(l)]
    BY <1>b, <1>5, FlattenOneMore
  <2> QED
    BY <2>1, <1>c
<1> QED
  BY <1>4, <1>7 DEF x, t

(* What e makes is what d makes and x behind it.                           *)
MakesMore(F, d, e, x) == F[e] = F[d] \o x

(* A last element that makes more makes more at the end.                   *)
LEMMA FlatImageLonger ==
  ASSUME NEW S, NEW T, NEW F \in [S -> Seq(T)], NEW s \in Seq(S), s # <<>>, NEW e \in S,
         NEW x \in Seq(T), MakesMore(F, Last(s), e, x)
  PROVE  FlatImage(F, ReplaceAt(s, Len(s), e)) = FlatImage(F, s) \o x
<1> DEFINE len == Len(s)
           t == [s EXCEPT ![len] = e]
           k == Mapped(F, s)
           l == Mapped(F, t)
<1>0. len \in Nat /\ len > 0 /\ len = Len(s) /\ F[e] = F[s[len]] \o x
  BY DEF MakesMore, Last
<1>1. t \in Seq(S) /\ Len(t) = len /\ t[len] = e /\ \A n \in 1 .. len - 1 : t[n] = s[n]
  <2> HIDE DEF len
  <2> QED
    BY <1>0, LastReplaced
<1> HIDE DEF len, t
<1>a. t \in Seq(S)
  BY <1>1
<1>2. IsMapped(F, s, k, T)
  BY MappedType
<1>3. IsMapped(F, t, l, T)
  BY <1>a, MappedType
<1>4. FlatImage(F, s) = FlattenSeq(k) /\ FlatImage(F, t) = FlattenSeq(l)
  BY DEF FlatImage
<1> HIDE DEF k, l
<1>b. k \in Seq(Seq(T)) /\ l \in Seq(Seq(T)) /\ Len(k) = len /\ Len(l) = len
  BY <1>0, <1>1, <1>2, <1>3 DEF IsMapped
<1>5. k # <<>>
  BY <1>0, <1>b
<1>6. l[len] = k[len] \o x
  <2>1. len \in 1 .. Len(s) /\ len \in 1 .. Len(t)
    BY <1>0, <1>1
  <2>2. k[len] = F[s[len]] /\ l[len] = F[t[len]]
    BY <2>1, <1>2, <1>3 DEF IsMapped
  <2> QED
    BY <1>0, <1>1, <2>2
<1>7. \A n \in 1 .. len - 1 : l[n] = k[n]
  <2>1. ASSUME NEW n \in 1 .. len - 1
        PROVE  l[n] = k[n]
    <3>1. n \in 1 .. Len(s) /\ n \in 1 .. Len(t)
      BY <1>0, <1>1
    <3>2. k[n] = F[s[n]] /\ l[n] = F[t[n]]
      BY <3>1, <1>2, <1>3 DEF IsMapped
    <3> QED
      BY <1>1, <3>2
  <2> QED
    BY <2>1
<1>8. Longer(k, l, x)
  BY <1>b, <1>5, <1>6, <1>7 DEF Longer
<1>9. FlattenSeq(l) = FlattenSeq(k) \o x
  BY <1>b, <1>8, FlattenLonger
<1> QED
  BY <1>4, <1>9 DEF t, len, ReplaceAt

(* Two lists together make what one makes and what the other makes behind  *)
(* it.                                                                     *)
MakesBoth(F, a, b) == FlatImage(F, a \o b) = FlatImage(F, a) \o FlatImage(F, b)

(* Two lists make what the one makes and then the other.                   *)
LEMMA FlatImageConcat ==
  ASSUME NEW S, NEW T, NEW F \in [S -> Seq(T)], NEW a \in Seq(S), NEW b \in Seq(S)
  PROVE  MakesBoth(F, a, b)
<1> DEFINE G(n) == SubSeq(b, 1, n)
           P == {n \in Nat : n <= Len(b) => FlatImage(F, a \o G(n)) = FlatImage(F, a) \o FlatImage(F, G(n))}
<1>0. Len(b) \in Nat /\ FlatImage(F, a) \in Seq(T) /\ \A n \in 0 .. Len(b) : G(n) \in Seq(S) /\ Len(G(n)) = n
  BY FlatImageType
<1>1. 0 \in P
  <2>1. G(0) = <<>>
    OBVIOUS
  <2>2. a \o G(0) = a
    BY <2>1
  <2>3. FlatImage(F, G(0)) = <<>>
    BY <2>1, FlatImageEmpty
  <2>4. FlatImage(F, a) \o <<>> = FlatImage(F, a)
    BY <1>0
  <2> HIDE DEF G
  <2> QED
    BY <2>2, <2>3, <2>4
<1>2. ASSUME NEW n \in Nat, n \in P
      PROVE  n + 1 \in P
  <2> SUFFICES ASSUME n + 1 <= Len(b)
               PROVE  FlatImage(F, a \o G(n + 1)) = FlatImage(F, a) \o FlatImage(F, G(n + 1))
    OBVIOUS
  <2> DEFINE g == G(n)
             e == b[n + 1]
  <2>1. n \in 0 .. Len(b) /\ n + 1 \in 1 .. Len(b) /\ e \in S
    BY <1>0
  <2>2. G(n + 1) = Append(g, e)
    BY <1>0, <2>1
  <2>3. g \in Seq(S) /\ FlatImage(F, a \o g) = FlatImage(F, a) \o FlatImage(F, g)
    BY <1>0, <1>2, <2>1
  <2> HIDE DEF g, e, G
  <2>4. a \o Append(g, e) = Append(a \o g, e) /\ a \o g \in Seq(S)
    BY <2>1, <2>3, SMTT(40)
  <2>5. FlatImage(F, Append(a \o g, e)) = FlatImage(F, a \o g) \o F[e]
    BY <2>1, <2>4, FlatImageAppend
  <2>6. FlatImage(F, Append(g, e)) = FlatImage(F, g) \o F[e]
    BY <2>1, <2>3, FlatImageAppend
  <2>7. FlatImage(F, g) \in Seq(T) /\ F[e] \in Seq(T)
    BY <2>1, <2>3, FlatImageType
  <2> DEFINE p == FlatImage(F, a)
             q == FlatImage(F, g)
             r == F[e]
  <2>8. p \in Seq(T) /\ q \in Seq(T) /\ r \in Seq(T)
    BY <1>0, <2>7
  <2>9. FlatImage(F, a \o G(n + 1)) = (p \o q) \o r /\ FlatImage(F, G(n + 1)) = q \o r
    BY <2>2, <2>3, <2>4, <2>5, <2>6
  <2> HIDE DEF p, q, r
  <2>10. (p \o q) \o r = p \o (q \o r)
    BY <2>8, Grouped
  <2> QED
    BY <2>9, <2>10 DEF p
<1>3. Nat \subseteq P
  <2> HIDE DEF P
  <2> QED
    BY <1>1, <1>2, Induction
<1>4. FlatImage(F, a \o G(Len(b))) = FlatImage(F, a) \o FlatImage(F, G(Len(b)))
  BY <1>0, <1>3
<1>5. G(Len(b)) = b
  OBVIOUS
<1> QED
  BY <1>4, <1>5 DEF MakesBoth

(* One item, items that make nothing, and items that make one element each. *)
LEMMA FlatImageOne ==
  ASSUME NEW S, NEW T, NEW F \in [S -> Seq(T)], NEW e \in S
  PROVE  FlatImage(F, <<e>>) = F[e]
<1>1. <<e>> = Append(<<>>, e) /\ <<>> \in Seq(S) /\ F[e] \in Seq(T)
  OBVIOUS
<1>2. FlatImage(F, Append(<<>>, e)) = FlatImage(F, <<>>) \o F[e]
  BY <1>1, FlatImageAppend
<1>3. <<>> \o F[e] = F[e]
  BY <1>1
<1> QED
  BY <1>1, <1>2, <1>3, FlatImageEmpty

MakesNone(F, s) == \A n \in 1 .. Len(s) : F[s[n]] = <<>>

(* Elements that make nothing.                                             *)
LEMMA FlatImageNone ==
  ASSUME NEW S, NEW T, NEW F \in [S -> Seq(T)], NEW s \in Seq(S), MakesNone(F, s)
  PROVE  FlatImage(F, s) = <<>>
<1> DEFINE k == Mapped(F, s)
<1>1. IsMapped(F, s, k, T)
  BY MappedType
<1>2. FlatImage(F, s) = FlattenSeq(k)
  BY DEF FlatImage
<1> HIDE DEF k
<1>a. k \in Seq(Seq(T)) /\ Len(k) = Len(s) /\ \A n \in 1 .. Len(s) : k[n] = <<>>
  BY <1>1 DEF IsMapped, MakesNone
<1>b. Len(k) \in Nat
  BY <1>a
<1>c. \A n \in 1 .. Len(k) : k[n] = <<>>
  BY <1>a
<1>3. 0 \in 0 .. Len(k) /\ \A i \in 0 + 1 .. Len(k) : k[i] = <<>>
  BY <1>b, <1>c
<1>4. FlattenSeq(k) = FlattenSeq(SubSeq(k, 1, 0))
  BY <1>a, <1>3, FlattenEmptyEnd
<1>5. SubSeq(k, 1, 0) = <<>>
  BY <1>a
<1> QED
  BY <1>2, <1>4, <1>5, FlattenEmpty

MakesEach(F, s, c) == Len(c) = Len(s) /\ \A n \in 1 .. Len(s) : F[s[n]] = <<c[n]>>

(* Elements that make one thing each.                                      *)
LEMMA FlatImageSingles ==
  ASSUME NEW S, NEW T, NEW F \in [S -> Seq(T)], NEW s \in Seq(S), NEW c \in Seq(T), MakesEach(F, s, c)
  PROVE  FlatImage(F, s) = c
<1> DEFINE k == [i \in 1 .. Len(c) |-> <<c[i]>>]
<1>1. Mapped(F, s) = k
  BY DEF Mapped, MakesEach
<1>2. FlattenSeq(k) = c
  BY FlattenSingles
<1> QED
  BY <1>1, <1>2 DEF FlatImage

-----------------------------------------------------------------------------
(* Order. *)

(* Every two of a list, and every two of two lists, stand in a relation.   *)
Ordered(R, s) == \A m, n \in 1 .. Len(s) : m < n => <<s[m], s[n]>> \in R
AllBefore(R, a, b) == \A m \in 1 .. Len(a), n \in 1 .. Len(b) : <<a[m], b[n]>> \in R

(* Two ordered lists, one before the other, make an ordered list.          *)
LEMMA OrderedJoined ==
  ASSUME NEW T, NEW R, NEW a \in Seq(T), NEW b \in Seq(T), Ordered(R, a), Ordered(R, b), AllBefore(R, a, b)
  PROVE  Ordered(R, a \o b)
<1> DEFINE c == a \o b
<1>1. /\ Len(a) \in Nat /\ Len(b) \in Nat /\ Len(c) = Len(a) + Len(b)
      /\ \A m \in 1 .. Len(a) : c[m] = a[m]
      /\ \A m \in Len(a) + 1 .. Len(c) : c[m] = b[m - Len(a)] /\ m - Len(a) \in 1 .. Len(b)
  OBVIOUS
<1>2. ASSUME NEW m \in 1 .. Len(c), NEW n \in 1 .. Len(c), m < n
      PROVE  <<c[m], c[n]>> \in R
  <2> HIDE DEF c
  <2>1. CASE n <= Len(a)
    <3>1. m \in 1 .. Len(a) /\ n \in 1 .. Len(a)
      BY <1>1, <1>2, <2>1
    <3> QED
      BY <1>1, <1>2, <3>1 DEF Ordered
  <2>2. CASE m <= Len(a) /\ n > Len(a)
    <3>1. m \in 1 .. Len(a) /\ n \in Len(a) + 1 .. Len(c)
      BY <1>1, <1>2, <2>2
    <3> QED
      BY <1>1, <3>1 DEF AllBefore
  <2>3. CASE m > Len(a)
    <3>1. m \in Len(a) + 1 .. Len(c) /\ n \in Len(a) + 1 .. Len(c) /\ m - Len(a) < n - Len(a)
      BY <1>1, <1>2, <2>3
    <3> QED
      BY <1>1, <3>1 DEF Ordered
  <2> QED
    BY <1>1, <2>1, <2>2, <2>3
<1> HIDE DEF c
<1> QED
  BY <1>2 DEF Ordered, c

(* So do any number of them.                                               *)
LEMMA FlattenOrdered ==
  ASSUME NEW T, NEW R, NEW s \in Seq(Seq(T)), \A i \in 1 .. Len(s) : Ordered(R, s[i]),
         \A i, j \in 1 .. Len(s) : i < j => AllBefore(R, s[i], s[j])
  PROVE  Ordered(R, FlattenSeq(s))
<1>1. CASE s = <<>>
  <2>1. Len(FlattenSeq(s)) = 0
    BY <1>1, FlattenEmpty
  <2> QED
    BY <2>1 DEF Ordered
<1>2. CASE s # <<>>
  <2>1. PICK g \in [1 .. Len(s) -> Seq(T)] : Flattens(g, s, Len(s))
    BY FlattenExists
  <2>2. FlattenSeq(s) = g[Len(s)] /\ Len(s) \in 1 .. Len(s) /\ Len(s) \in Nat
    BY <1>2, <2>1, FlattenIs
  <2> DEFINE From(t, n) == \A x \in 1 .. Len(t) : \E i \in 1 .. n : \E m \in 1 .. Len(s[i]) : t[x] = s[i][m]
             Good(n) == Ordered(R, g[n]) /\ From(g[n], n)
             S == {n \in Nat : n \in 1 .. Len(s) => Good(n)}
  <2>3. 0 \in S
    OBVIOUS
  <2>4. \A n \in Nat : n \in S => n + 1 \in S
    <3> HIDE DEF Good
    <3> SUFFICES ASSUME NEW n \in Nat, n \in S, n + 1 \in 1 .. Len(s)
                 PROVE  Good(n + 1)
      OBVIOUS
    <3> USE DEF Good
    <3> DEFINE b == s[n + 1]
    <3>1. g[n + 1] = IF n = 0 THEN b ELSE g[n] \o b
      <4>1. (n + 1) - 1 = n /\ (n + 1 = 1 <=> n = 0)
        OBVIOUS
      <4>2. g[n + 1] = IF n + 1 = 1 THEN s[n + 1] ELSE g[(n + 1) - 1] \o s[n + 1]
        BY <2>1 DEF Flattens
      <4> HIDE DEF S, From
      <4> QED
        BY <4>1, <4>2
    <3>2. b \in Seq(T) /\ Ordered(R, b)
      OBVIOUS
    <3>3. CASE n = 0
      <4>1. g[n + 1] = s[1] /\ n + 1 = 1
        BY <3>1, <3>3
      <4> QED
        BY <3>2, <3>3, <4>1
    <3>4. CASE n # 0
      <4>0. n \in 1 .. Len(s) /\ n + 1 \in 1 .. Len(s)
        <5> HIDE DEF S, Good
        <5> QED
          BY <2>2, <3>4
      <4>1. n \in 1 .. Len(s) /\ n + 1 \in 1 .. Len(s) /\ g[n] \in Seq(T)
        <5> HIDE DEF S, Good
        <5> QED
          BY <2>1, <4>0
      <4> DEFINE a == g[n]
      <4>2. Ordered(R, a) /\ From(a, n)
        BY <4>1
      <4> HIDE DEF S, a
      <4>3. AllBefore(R, a, b)
        <5> SUFFICES ASSUME NEW x \in 1 .. Len(a), NEW y \in 1 .. Len(b)
                     PROVE  <<a[x], b[y]>> \in R
          BY DEF AllBefore
        <5>1. PICK i \in 1 .. n : \E m \in 1 .. Len(s[i]) : a[x] = s[i][m]
          BY <4>2
        <5>2. PICK m \in 1 .. Len(s[i]) : a[x] = s[i][m]
          BY <5>1
        <5>3. i \in 1 .. Len(s) /\ i < n + 1
          BY <2>2, <4>1
        <5>4. AllBefore(R, s[i], s[n + 1])
          BY <4>1, <5>3
        <5> QED
          BY <5>2, <5>4 DEF AllBefore
      <4>4. a \in Seq(T)
        BY <4>1 DEF a
      <4>5. Ordered(R, a \o b)
        BY <3>2, <4>2, <4>3, <4>4, OrderedJoined
      <4>6. From(a \o b, n + 1)
        <5> SUFFICES ASSUME NEW x \in 1 .. Len(a \o b)
                     PROVE  \E i \in 1 .. n + 1 : \E m \in 1 .. Len(s[i]) : (a \o b)[x] = s[i][m]
          OBVIOUS
        <5>0. Len(a) \in Nat /\ Len(b) \in Nat /\ Len(a \o b) = Len(a) + Len(b)
          BY <3>2, <4>4
        <5>1. CASE x <= Len(a)
          <6>1. (a \o b)[x] = a[x] /\ x \in 1 .. Len(a)
            BY <3>2, <4>4, <5>0, <5>1
          <6>2. PICK i \in 1 .. n : \E m \in 1 .. Len(s[i]) : a[x] = s[i][m]
            BY <4>2, <6>1
          <6>3. i \in 1 .. n + 1
            OBVIOUS
          <6> QED
            BY <6>1, <6>2, <6>3
        <5>2. CASE x > Len(a)
          <6>1. (a \o b)[x] = b[x - Len(a)] /\ x - Len(a) \in 1 .. Len(b)
            BY <3>2, <4>4, <5>0, <5>2
          <6>2. n + 1 \in 1 .. n + 1
            OBVIOUS
          <6> QED
            BY <6>1, <6>2
        <5>3. x <= Len(a) \/ x > Len(a)
          BY <5>0
        <5> QED
          BY <5>1, <5>2, <5>3
      <4> HIDE DEF From
      <4> QED
        BY <3>1, <3>4, <4>5, <4>6 DEF a
    <3> QED
      BY <3>3, <3>4
  <2> HIDE DEF S
  <2>5. Nat \subseteq S
    BY <2>3, <2>4, Induction
  <2> QED
    BY <2>2, <2>5 DEF S
<1> QED
  BY <1>1, <1>2

-----------------------------------------------------------------------------
(* Machine arithmetic. *)

(* 2^n is the number of subsets of 1..n, hence a positive natural number.  *)
LEMMA PowerType ==
  ASSUME NEW n \in Nat
  PROVE  2^n \in Nat /\ 2^n >= 1
<1>1. IsFiniteSet(1..n) /\ Cardinality(1..n) = n
  BY FS_Interval
<1>2. IsFiniteSet(SUBSET (1..n)) /\ Cardinality(SUBSET (1..n)) = 2^n
  BY <1>1, FS_SUBSET
<1>3. Cardinality(SUBSET (1..n)) \in Nat /\ Cardinality(SUBSET (1..n)) # 0
  BY <1>2, FS_CardinalityType, FS_EmptySet
<1> QED
  BY <1>2, <1>3

(* A remainder is below the modulus, and a number below it is its own.     *)
LEMMA Remainder ==
  ASSUME NEW n \in Nat, NEW w \in Nat, w >= 1
  PROVE  n % w \in 0 .. w - 1 /\ (n < w => n % w = n)
OBVIOUS

==============================================================================
