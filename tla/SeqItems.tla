------------------------------ MODULE SeqItems ------------------------------
(***************************************************************************)
(* What is said of the items of a sequence when one is taken or added: the *)
(* channels, outputs, queues and logs of the components are sequences, and *)
(* their invariants are statements about the items. Then induction on      *)
(* sequences, one item after the other, and with it what the loop of       *)
(* SeqFilter keeps. The library's induction theorems take the predicate as *)
(* an operator; here it is the set of the sequences that have it.          *)
(***************************************************************************)
EXTENDS SeqFilter, Integers, Functions, SequenceTheorems, WellFoundedInduction, TLAPS

\* A function on 1..n is a sequence.
LEMMA FunctionIsSeq ==
  ASSUME NEW S, NEW n \in Nat, NEW f \in [1..n -> S]
  PROVE  f \in Seq(S)
OBVIOUS

\* What is said of the items of a sequence when its first one is taken ...
LEMMA TailItems ==
  ASSUME NEW S, NEW s \in Seq(S), s # <<>>
  PROVE  /\ Tail(s) \in Seq(S) /\ Len(Tail(s)) <= Len(s)
         /\ Head(s) \in S /\ Head(s) = s[1] /\ 1 \in DOMAIN s
         /\ \A i \in DOMAIN s : i = 1 \/ \E j \in DOMAIN Tail(s) : Tail(s)[j] = s[i]
         /\ \A j \in DOMAIN Tail(s) :
              j \in Nat \ {0} /\ j + 1 \in DOMAIN s /\ Tail(s)[j] = s[j + 1]
<1>1. /\ Head(s) \in S /\ Tail(s) \in Seq(S) /\ Len(Tail(s)) = Len(s) - 1
      /\ \A i \in 1..Len(Tail(s)) : Tail(s)[i] = s[i + 1]
  BY HeadTailProperties
<1>2. Len(s) \in Nat \ {0} /\ DOMAIN s = 1..Len(s) /\ DOMAIN Tail(s) = 1..Len(Tail(s))
  BY <1>1, EmptySeq, LenProperties
<1>3. ASSUME NEW i \in DOMAIN s, i # 1 PROVE \E j \in DOMAIN Tail(s) : Tail(s)[j] = s[i]
  <2>1. i - 1 \in DOMAIN Tail(s) /\ Tail(s)[i - 1] = s[i]
    BY <1>1, <1>2, <1>3
  <2>. QED BY <2>1
<1>4. ASSUME NEW j \in DOMAIN Tail(s)
      PROVE  j \in Nat \ {0} /\ j + 1 \in DOMAIN s /\ Tail(s)[j] = s[j + 1]
  BY <1>1, <1>2
<1>5. Head(s) = s[1]
  BY <1>2
<1>. QED BY <1>1, <1>2, <1>3, <1>4, <1>5

\* ... and when one is added.
LEMMA AppendItems ==
  ASSUME NEW S, NEW s \in Seq(S), NEW e \in S
  PROVE  /\ Append(s, e) \in Seq(S) /\ Len(Append(s, e)) = Len(s) + 1
         /\ \A i \in DOMAIN s : i \in DOMAIN Append(s, e) /\ Append(s, e)[i] = s[i]
         /\ \E j \in DOMAIN Append(s, e) : Append(s, e)[j] = e
         /\ \A j \in DOMAIN Append(s, e) :
              /\ j \in Nat
              /\ \/ j \in DOMAIN s /\ Append(s, e)[j] = s[j]
                 \/ Append(s, e)[j] = e /\ \A i \in DOMAIN s : i < j
<1>1. /\ Append(s, e) \in Seq(S) /\ Len(Append(s, e)) = Len(s) + 1
      /\ \A i \in 1..Len(s) : Append(s, e)[i] = s[i]
      /\ Append(s, e)[Len(s) + 1] = e
  BY AppendProperties
<1>2. Len(s) \in Nat /\ DOMAIN s = 1..Len(s) /\ DOMAIN Append(s, e) = 1..Len(Append(s, e))
  BY <1>1, LenProperties
<1>3. \A j \in 1..(Len(s) + 1) : j \in 1..Len(s) \/ j = Len(s) + 1
  BY <1>2
<1>. QED BY <1>1, <1>2, <1>3

\* A prefix.
LEMMA PrefixItems ==
  ASSUME NEW S, NEW s \in Seq(S), NEW n \in 0..Len(s)
  PROVE  /\ SubSeq(s, 1, n) \in Seq(S) /\ DOMAIN SubSeq(s, 1, n) = 1..n
         /\ \A i \in 1..n : i \in DOMAIN s /\ SubSeq(s, 1, n)[i] = s[i]
<1>1. Len(s) \in Nat /\ DOMAIN s = 1..Len(s)
  BY LenProperties
<1>2. SubSeq(s, 1, n) \in Seq(S) /\ Len(SubSeq(s, 1, n)) = n
      /\ \A i \in 1..n : SubSeq(s, 1, n)[i] = s[i]
  BY <1>1, SubSeqProperties
<1>. QED BY <1>1, <1>2, LenProperties

\* Two sequences, one behind the other.
LEMMA ConcatItems ==
  ASSUME NEW S, NEW s \in Seq(S), NEW t \in Seq(S)
  PROVE  /\ s \o t \in Seq(S)
         /\ \A i \in DOMAIN s : i \in DOMAIN (s \o t) /\ (s \o t)[i] = s[i]
         /\ \A i \in DOMAIN t : Len(s) + i \in DOMAIN (s \o t) /\ (s \o t)[Len(s) + i] = t[i]
         /\ \A j \in DOMAIN (s \o t) :
              \/ j \in DOMAIN s /\ (s \o t)[j] = s[j]
              \/ \E i \in DOMAIN t : j = Len(s) + i /\ (s \o t)[j] = t[i]
<1>1. /\ Len(s) \in Nat /\ DOMAIN s = 1..Len(s)
      /\ Len(t) \in Nat /\ DOMAIN t = 1..Len(t)
  BY LenProperties
<1>2. /\ s \o t \in Seq(S) /\ Len(s \o t) = Len(s) + Len(t)
      /\ \A i \in 1..(Len(s) + Len(t)) :
           (s \o t)[i] = IF i <= Len(s) THEN s[i] ELSE t[i - Len(s)]
  BY ConcatProperties
<1>3. DOMAIN (s \o t) = 1..(Len(s) + Len(t))
  BY <1>2, LenProperties
<1>4. ASSUME NEW j \in DOMAIN (s \o t), j \notin DOMAIN s
      PROVE  \E i \in DOMAIN t : j = Len(s) + i /\ (s \o t)[j] = t[i]
  <2>1. j - Len(s) \in DOMAIN t /\ (s \o t)[j] = t[j - Len(s)] /\ j = Len(s) + (j - Len(s))
    BY <1>1, <1>2, <1>3, <1>4
  <2>. QED BY <2>1
<1>5. ASSUME NEW i \in DOMAIN s PROVE i \in DOMAIN (s \o t) /\ (s \o t)[i] = s[i]
  BY <1>1, <1>2, <1>3
<1>6. ASSUME NEW i \in DOMAIN t
      PROVE Len(s) + i \in DOMAIN (s \o t) /\ (s \o t)[Len(s) + i] = t[i]
  BY <1>1, <1>2, <1>3
<1>. QED BY <1>2, <1>4, <1>5, <1>6

-----------------------------------------------------------------------------
(* Induction.                                                              *)

\* Numbers have a least one among them.
LEMMA NatLeast ==
  ASSUME NEW T, T \subseteq Nat, T # {}
  PROVE  \E x \in T : \A y \in T : x <= y
<1>1. \E x \in T : \A y \in T : ~(y < x)
  <2>1. PICK x \in T : \A y \in T : <<y, x>> \notin OpToRel(<, Nat)
    BY WFMin, NatLessThanWellFounded, Zenon
  <2>. QED BY <2>1, Zenon DEF OpToRel
<1>. QED BY <1>1

\* A set with 0, and with each number up to n when it has the one before.
LEMMA UpTo ==
  ASSUME NEW n \in Nat, NEW U, 0 \in U, \A i \in 1..n : i - 1 \in U => i \in U
  PROVE  0..n \subseteq U
<1>. SUFFICES ASSUME (0..n) \ U # {} PROVE FALSE
  OBVIOUS
<1>1. PICK i \in (0..n) \ U : \A j \in (0..n) \ U : i <= j
  <2>. DEFINE T == (0..n) \ U
  <2>1. T \subseteq Nat /\ T # {}
    OBVIOUS
  <2>. HIDE DEF T
  <2>2. \E i \in T : \A j \in T : i <= j
    BY <2>1, NatLeast
  <2>. QED BY <2>2 DEF T
<1>2. i # 0
  OBVIOUS
<1>3. i - 1 \in 0..n /\ i \in 1..n /\ ~(i <= i - 1)
  BY <1>2
<1>4. i - 1 \in U
  BY <1>1, <1>3
<1>. QED BY <1>3, <1>4

\* A set with the empty sequence, and with each one an item longer than one it has.
LEMMA SeqsByAppend ==
  ASSUME NEW T, NEW U, <<>> \in U, \A s \in Seq(T) : s \in U => \A e \in T : Append(s, e) \in U
  PROVE  Seq(T) \subseteq U
<1>. SUFFICES ASSUME NEW s \in Seq(T) PROVE s \in U
  OBVIOUS
<1>1. Len(s) \in Nat /\ DOMAIN s = 1..Len(s)
  BY LenProperties
<1>. DEFINE I == {i \in 0..Len(s) : SubSeq(s, 1, i) \in U}
<1>2. 0 \in I
  <2>1. SubSeq(s, 1, 0) = <<>>
    BY <1>1
  <2>2. SubSeq(s, 1, 0) \in U
    BY <2>1, Zenon
  <2>. QED BY <1>1, <2>2
<1>3. ASSUME NEW i \in 1..Len(s), i - 1 \in I PROVE i \in I
  <2>. DEFINE t == SubSeq(s, 1, i - 1)
  <2>1. /\ t \in Seq(T) /\ Len(t) = i - 1 /\ s[i] \in T /\ t \in U /\ i - 1 \in 0..Len(s)
        /\ \A j \in 1..(i - 1) : t[j] = s[j]
    BY <1>1, <1>3, SubSeqProperties
  <2>2. /\ SubSeq(s, 1, i) \in Seq(T) /\ Len(SubSeq(s, 1, i)) = i
        /\ \A j \in 1..i : SubSeq(s, 1, i)[j] = s[j]
    BY <1>1, <1>3, SubSeqProperties
  <2>3. Append(t, s[i]) \in U
    <3>. HIDE DEF t
    <3>. QED BY <2>1
  <2>4. SubSeq(s, 1, i) = Append(t, s[i])
    <3>. HIDE DEF t
    <3>1. /\ Append(t, s[i]) \in Seq(T) /\ Len(Append(t, s[i])) = i
          /\ \A j \in 1..(i - 1) : Append(t, s[i])[j] = t[j]
          /\ Append(t, s[i])[i] = s[i]
      BY <2>1, AppendProperties
    <3>2. \A j \in 1..i : SubSeq(s, 1, i)[j] = Append(t, s[i])[j]
      BY <2>1, <2>2, <3>1
    <3>. QED BY <2>2, <3>1, <3>2, SeqEqual
  <2>5. SubSeq(s, 1, i) \in U
    BY <2>3, <2>4, Zenon
  <2>. QED BY <1>1, <2>5
<1>4. Len(s) \in I
  <2>. HIDE DEF I
  <2>1. \A i \in 1..Len(s) : i - 1 \in I => i \in I
    BY <1>3
  <2>2. 0..Len(s) \subseteq I
    BY <1>1, <1>2, <2>1, UpTo
  <2>. QED BY <1>1, <2>2
<1>5. SubSeq(s, 1, Len(s)) = s
  BY <1>1
<1>. QED BY <1>4, <1>5

-----------------------------------------------------------------------------
(* The loop of SeqFilter.                                                  *)

\* The function that Filtered defines, and that there is one.
Loop(s, S, g) ==
  g = [i \in 0..Len(s) |-> IF i = 0 THEN <<>>
                           ELSE IF s[i] \in S THEN Append(g[i - 1], s[i]) ELSE g[i - 1]]

LEMMA LoopHasValues ==
  ASSUME NEW T, NEW s \in Seq(T), NEW S
  PROVE  \E g : Loop(s, S, g)
<1>1. Len(s) \in Nat
  BY LenProperties
<1>. DEFINE Part(n, g) == g = [i \in 0..n |-> IF i = 0 THEN <<>>
                           ELSE IF s[i] \in S THEN Append(g[i - 1], s[i]) ELSE g[i - 1]]
            U == {n \in 0..Len(s) : \E g : Part(n, g)}
<1>2. 0 \in U
  <2>1. Part(0, [i \in 0..0 |-> <<>>])
    OBVIOUS
  <2>2. \E g : Part(0, g)
    BY <2>1
  <2>. QED BY <1>1, <2>2
<1>3. ASSUME NEW n \in 1..Len(s), n - 1 \in U PROVE n \in U
  <2>1. PICK g : Part(n - 1, g)
    BY <1>3
  <2>. DEFINE new == IF s[n] \in S THEN Append(g[n - 1], s[n]) ELSE g[n - 1]
              h == [i \in 0..n |-> IF i = n THEN new ELSE g[i]]
  <2>2. h[n] = new /\ h[n - 1] = g[n - 1] /\ \A i \in 0..(n - 1) : h[i] = g[i]
    BY <1>1
  <2>3. \A i \in 0..n : i = n \/ (i \in 0..(n - 1) /\ (i = 0 \/ i - 1 \in 0..(n - 1)))
    BY <1>1
  <2>4. \A i \in 0..(n - 1) : g[i] = IF i = 0 THEN <<>>
                           ELSE IF s[i] \in S THEN Append(g[i - 1], s[i]) ELSE g[i - 1]
    BY <2>1
  <2>5. \A i \in 0..n : h[i] = IF i = 0 THEN <<>>
                           ELSE IF s[i] \in S THEN Append(h[i - 1], s[i]) ELSE h[i - 1]
    BY <1>1, <2>2, <2>3, <2>4
  <2>6. Part(n, h)
    BY <2>5
  <2>7. \E f : Part(n, f)
    BY <2>6
  <2>. QED BY <2>7, <1>1
<1>4. Len(s) \in U
  <2>. HIDE DEF U
  <2>1. \A n \in 1..Len(s) : n - 1 \in U => n \in U
    BY <1>3
  <2>2. 0..Len(s) \subseteq U
    BY <1>1, <1>2, <2>1, UpTo
  <2>. QED BY <1>1, <2>2
<1>. QED BY <1>4 DEF Loop

\* Filtered is its last value.
LEMMA FilteredLoop ==
  ASSUME NEW T, NEW s \in Seq(T), NEW S
  PROVE  \E g : Loop(s, S, g) /\ Filtered(s, S) = g[Len(s)]
<1>. DEFINE f == CHOOSE g : Loop(s, S, g)
<1>1. Loop(s, S, f)
  BY LoopHasValues, Zenon
<1>2. Filtered(s, S) = f[Len(s)]
  BY Zenon DEF Filtered, Loop
<1>. QED BY <1>1, <1>2

\* One item more goes once more round the loop.
LEMMA FilteredAppend ==
  ASSUME NEW T, NEW S
  PROVE  /\ Filtered(<<>>, S) = <<>>
         /\ \A s \in Seq(T), e \in T :
              Filtered(Append(s, e), S) =
                IF e \in S THEN Append(Filtered(s, S), e) ELSE Filtered(s, S)
<1>1. Filtered(<<>>, S) = <<>>
  <2>1. <<>> \in Seq(T) /\ Len(<<>>) = 0
    BY EmptySeq
  <2>2. PICK g : Loop(<<>>, S, g) /\ Filtered(<<>>, S) = g[Len(<<>>)]
    BY <2>1, FilteredLoop
  <2>. QED BY <2>1, <2>2 DEF Loop
<1>2. ASSUME NEW s \in Seq(T), NEW e \in T
      PROVE  Filtered(Append(s, e), S) =
               IF e \in S THEN Append(Filtered(s, S), e) ELSE Filtered(s, S)
  <2>. DEFINE t == Append(s, e)
              n == Len(s)
  <2>1. /\ t \in Seq(T) /\ Len(t) = n + 1 /\ n \in Nat /\ t[n + 1] = e
        /\ \A i \in 1..n : t[i] = s[i]
    BY AppendProperties, LenProperties
  <2>2. PICK g : Loop(s, S, g) /\ Filtered(s, S) = g[n]
    BY FilteredLoop
  <2>. HIDE DEF t
  <2>3. PICK h : Loop(t, S, h) /\ Filtered(t, S) = h[Len(t)]
    BY <2>1, FilteredLoop
  <2>. HIDE DEF n
  <2>4. \A i \in 0..n : g[i] = IF i = 0 THEN <<>>
                                ELSE IF s[i] \in S THEN Append(g[i - 1], s[i]) ELSE g[i - 1]
    BY <2>2 DEF Loop, n
  <2>5. \A i \in 0..(n + 1) : h[i] = IF i = 0 THEN <<>>
                                ELSE IF t[i] \in S THEN Append(h[i - 1], t[i]) ELSE h[i - 1]
    BY <2>1, <2>3 DEF Loop
  <2>. DEFINE U == {i \in 0..n : g[i] = h[i]}
  <2>6. n \in U
    <3>1. 0 \in U
      BY <2>1, <2>4, <2>5
    <3>2. ASSUME NEW i \in 1..n, i - 1 \in U PROVE i \in U
      <4>1. i \in 0..n /\ i \in 0..(n + 1) /\ i # 0 /\ t[i] = s[i] /\ g[i - 1] = h[i - 1]
        BY <2>1, <3>2
      <4>. QED BY <2>4, <2>5, <4>1
    <3>. HIDE DEF U
    <3>3. \A i \in 1..n : i - 1 \in U => i \in U
      BY <3>2
    <3>4. 0..n \subseteq U
      BY <2>1, <3>1, <3>3, UpTo
    <3>. QED BY <2>1, <3>4
  <2>7. h[n + 1] = IF e \in S THEN Append(h[n], e) ELSE h[n]
    BY <2>1, <2>5
  <2>8. h[n] = g[n]
    BY <2>6
  <2>. QED BY <2>1, <2>2, <2>3, <2>7, <2>8 DEF t
<1>. QED BY <1>1, <1>2

\* It keeps the items that are in S, and only them.
Keeps(f, s, S) ==
  /\ \A i \in DOMAIN f : f[i] \in S /\ \E j \in DOMAIN s : f[i] = s[j]
  /\ \A j \in DOMAIN s : s[j] \in S => \E i \in DOMAIN f : f[i] = s[j]

\* t is s with e behind it.
Grown(s, e, t) ==
  /\ \A i \in DOMAIN s : i \in DOMAIN t /\ t[i] = s[i]
  /\ \E j \in DOMAIN t : t[j] = e
  /\ \A j \in DOMAIN t : (j \in DOMAIN s /\ t[j] = s[j]) \/ t[j] = e

\* Append makes such a sequence.
LEMMA GrownByAppend ==
  ASSUME NEW T, NEW s \in Seq(T), NEW e \in T
  PROVE  Grown(s, e, Append(s, e))
BY AppendItems DEF Grown

\* One item more, and it is still so.
LEMMA KeepsAppend ==
  ASSUME NEW T, NEW S, NEW s \in Seq(T), NEW f \in Seq(T), NEW e \in T, Keeps(f, s, S)
  PROVE  Keeps(IF e \in S THEN Append(f, e) ELSE f, Append(s, e), S)
<1>. DEFINE a == Append(s, e)
            b == Append(f, e)
<1>1. Grown(s, e, a)
  BY GrownByAppend
<1>2. Grown(f, e, b)
  BY GrownByAppend
<1>. USE DEF Grown
<1>. HIDE DEF a, b
<1>3. /\ \A i \in DOMAIN f : f[i] \in S /\ \E j \in DOMAIN s : f[i] = s[j]
      /\ \A j \in DOMAIN s : s[j] \in S => \E i \in DOMAIN f : f[i] = s[j]
  BY Zenon DEF Keeps
<1>4. CASE e \in S
  <2>1. ASSUME NEW i \in DOMAIN b PROVE b[i] \in S /\ \E j \in DOMAIN a : b[i] = a[j]
    <3>1. CASE b[i] = e
      BY <1>1, <1>4, <3>1, Zenon
    <3>2. CASE i \in DOMAIN f /\ b[i] = f[i]
      BY <1>1, <1>3, <3>2, Zenon
    <3>. QED BY <1>2, <3>1, <3>2, Zenon
  <2>2. ASSUME NEW j \in DOMAIN a, a[j] \in S PROVE \E i \in DOMAIN b : b[i] = a[j]
    <3>1. CASE a[j] = e
      BY <1>2, <3>1, Zenon
    <3>2. CASE j \in DOMAIN s /\ a[j] = s[j]
      BY <1>2, <1>3, <2>2, <3>2, Zenon
    <3>. QED BY <1>1, <2>2, <3>1, <3>2, Zenon
  <2>3. Keeps(b, a, S)
    BY <2>1, <2>2, Zenon DEF Keeps
  <2>. QED BY <1>4, <2>3 DEF a, b
<1>5. CASE e \notin S
  <2>1. ASSUME NEW i \in DOMAIN f PROVE f[i] \in S /\ \E j \in DOMAIN a : f[i] = a[j]
    <3>1. PICK j \in DOMAIN s : f[i] = s[j]
      BY <1>3, <2>1, Zenon
    <3>. QED BY <1>1, <1>3, <2>1, <3>1, Zenon
  <2>2. ASSUME NEW j \in DOMAIN a, a[j] \in S PROVE \E i \in DOMAIN f : f[i] = a[j]
    BY <1>1, <1>3, <1>5, <2>2, Zenon
  <2>3. Keeps(f, a, S)
    BY <2>1, <2>2, Zenon DEF Keeps
  <2>. QED BY <1>5, <2>3 DEF a
<1>. QED BY <1>4, <1>5

\* So what the loop leaves is what was in S.
LEMMA FilteredItems ==
  ASSUME NEW T, NEW S, NEW s \in Seq(T)
  PROVE  Filtered(s, S) \in Seq(T) /\ Keeps(Filtered(s, S), s, S)
<1>. DEFINE U == {t \in Seq(T) : Filtered(t, S) \in Seq(T) /\ Keeps(Filtered(t, S), t, S)}
<1>1. <<>> \in U
  <2>1. Filtered(<<>>, S) = <<>> /\ <<>> \in Seq(T) /\ DOMAIN <<>> = {}
    BY FilteredAppend, EmptySeq
  <2>2. Keeps(<<>>, <<>>, S)
    BY <2>1, Zenon DEF Keeps
  <2>. QED BY <2>1, <2>2, Zenon
<1>2. ASSUME NEW t \in Seq(T), t \in U, NEW e \in T PROVE Append(t, e) \in U
  <2>1. Filtered(t, S) \in Seq(T) /\ Keeps(Filtered(t, S), t, S)
    BY <1>2, Zenon
  <2>2. Filtered(Append(t, e), S) = IF e \in S THEN Append(Filtered(t, S), e) ELSE Filtered(t, S)
    <3>1. \A x \in Seq(T), y \in T :
            Filtered(Append(x, y), S) = IF y \in S THEN Append(Filtered(x, S), y)
                                                  ELSE Filtered(x, S)
      BY FilteredAppend
    <3>. QED BY <1>2, <3>1
  <2>3. Keeps(Filtered(Append(t, e), S), Append(t, e), S)
    BY <1>2, <2>1, <2>2, KeepsAppend
  <2>4. Append(t, e) \in Seq(T)
    BY <1>2, AppendProperties
  <2>5. Filtered(Append(t, e), S) \in Seq(T)
    BY <1>2, <2>1, <2>2, AppendProperties
  <2>. QED BY <2>3, <2>4, <2>5, Zenon
<1>3. Seq(T) \subseteq U
  <2>. HIDE DEF U
  <2>. QED BY <1>1, <1>2, SeqsByAppend
<1>. QED BY <1>3

\* The loop leaves at most what there was.
LEMMA FilteredLength ==
  ASSUME NEW T, NEW S, NEW s \in Seq(T)
  PROVE  Len(Filtered(s, S)) <= Len(s)
<1>. DEFINE U == {t \in Seq(T) : Len(Filtered(t, S)) <= Len(t)}
<1>1. <<>> \in U
  BY FilteredAppend, EmptySeq
<1>2. ASSUME NEW t \in Seq(T), t \in U, NEW e \in T PROVE Append(t, e) \in U
  <2>1. PICK f \in Seq(T) : f = Filtered(t, S)
    BY FilteredItems
  <2>2. Filtered(Append(t, e), S) = IF e \in S THEN Append(f, e) ELSE f
    <3>1. \A x \in Seq(T), y \in T :
            Filtered(Append(x, y), S) = IF y \in S THEN Append(Filtered(x, S), y)
                                                  ELSE Filtered(x, S)
      BY FilteredAppend
    <3>. QED BY <2>1, <3>1
  <2>3. /\ Append(t, e) \in Seq(T) /\ Len(Append(t, e)) = Len(t) + 1 /\ Len(t) \in Nat
        /\ Len(Append(f, e)) = Len(f) + 1 /\ Len(f) \in Nat
    BY AppendProperties, LenProperties
  <2>4. Len(f) <= Len(t)
    BY <1>2, <2>1
  <2>. QED BY <2>2, <2>3, <2>4
<1>3. Seq(T) \subseteq U
  <2>. HIDE DEF U
  <2>. QED BY <1>1, <1>2, SeqsByAppend
<1>. QED BY <1>3

\* An item that was there once is there once.
LEMMA FilteredOnce ==
  ASSUME NEW T, NEW S, NEW s \in Seq(T), IsInjective(s)
  PROVE  IsInjective(Filtered(s, S))
<1>. DEFINE U == {t \in Seq(T) : IsInjective(t) => IsInjective(Filtered(t, S))}
<1>1. <<>> \in U
  <2>1. Filtered(<<>>, S) = <<>> /\ <<>> \in Seq(T)
    BY FilteredAppend, EmptySeq
  <2>. QED BY <2>1, Zenon
<1>2. ASSUME NEW t \in Seq(T), t \in U, NEW e \in T PROVE Append(t, e) \in U
  <2>. SUFFICES ASSUME IsInjective(Append(t, e))
                PROVE  IsInjective(Filtered(Append(t, e), S))
    BY <1>2, AppendProperties
  <2>. DEFINE a == Append(t, e)
              f == Filtered(t, S)
  <2>0. Filtered(a, S) = IF e \in S THEN Append(f, e) ELSE f
    <3>1. \A x \in Seq(T), y \in T :
            Filtered(Append(x, y), S) = IF y \in S THEN Append(Filtered(x, S), y)
                                                  ELSE Filtered(x, S)
      BY FilteredAppend
    <3>. QED BY <1>2, <3>1
  <2>1. Len(t) \in Nat /\ DOMAIN t = 1..Len(t) /\ DOMAIN a = 1..(Len(t) + 1)
        /\ a[Len(t) + 1] = e /\ \A i \in DOMAIN t : a[i] = t[i]
    BY <1>2, AppendProperties, LenProperties
  <2>2. IsInjective(t)
    BY <2>1 DEF IsInjective
  <2>3. \A i \in DOMAIN t : t[i] # e
    BY <2>1 DEF IsInjective
  <2>4. IsInjective(f) /\ f \in Seq(T) /\ Keeps(f, t, S)
    BY <1>2, <2>2, FilteredItems
  <2>5. \A i \in DOMAIN f : f[i] # e
    BY <2>3, <2>4, Zenon DEF Keeps
  <2>6. CASE e \notin S
    <3>1. Filtered(a, S) = f
      BY <2>0, <2>6
    <3>. QED BY <2>4, <3>1
  <2>7. CASE e \in S
    <3>. DEFINE b == Append(f, e)
    <3>. HIDE DEF f
    <3>1. Len(f) \in Nat /\ DOMAIN f = 1..Len(f) /\ DOMAIN b = 1..(Len(f) + 1)
          /\ b[Len(f) + 1] = e /\ \A i \in DOMAIN f : b[i] = f[i]
      BY <1>2, <2>4, AppendProperties, LenProperties
    <3>2. IsInjective(b)
      BY <2>4, <2>5, <3>1 DEF IsInjective
    <3>3. Filtered(a, S) = b
      BY <2>0, <2>7 DEF f
    <3>. QED BY <3>2, <3>3
  <2>. QED BY <2>6, <2>7
<1>3. Seq(T) \subseteq U
  <2>. HIDE DEF U
  <2>. QED BY <1>1, <1>2, SeqsByAppend
<1>. QED BY <1>3

\* What is in S altogether stays as it is, what has nothing in S is gone, and one loop
\* after another keeps what is in both sets.
LEMMA FilteredAll ==
  ASSUME NEW T, NEW S, NEW s \in Seq(T), \A i \in DOMAIN s : s[i] \in S
  PROVE  Filtered(s, S) = s
<1>. DEFINE U == {t \in Seq(T) : (\A i \in DOMAIN t : t[i] \in S) => Filtered(t, S) = t}
<1>1. <<>> \in U
  <2>1. Filtered(<<>>, S) = <<>> /\ <<>> \in Seq(T)
    BY FilteredAppend, EmptySeq
  <2>. QED BY <2>1, Zenon
<1>2. ASSUME NEW t \in Seq(T), t \in U, NEW e \in T PROVE Append(t, e) \in U
  <2>. DEFINE a == Append(t, e)
  <2>1. a \in Seq(T) /\ Grown(t, e, a)
    BY <1>2, AppendProperties, GrownByAppend
  <2>2. Filtered(a, S) = IF e \in S THEN Append(Filtered(t, S), e) ELSE Filtered(t, S)
    <3>1. \A x \in Seq(T), y \in T :
            Filtered(Append(x, y), S) = IF y \in S THEN Append(Filtered(x, S), y)
                                                  ELSE Filtered(x, S)
      BY FilteredAppend
    <3>. QED BY <1>2, <3>1
  <2>3. ASSUME \A i \in DOMAIN a : a[i] \in S PROVE e \in S /\ \A i \in DOMAIN t : t[i] \in S
    <3>. HIDE DEF a
    <3>. QED BY <2>1, <2>3, Zenon DEF Grown
  <2>4. ASSUME \A i \in DOMAIN a : a[i] \in S PROVE Filtered(a, S) = a
    <3>1. Filtered(t, S) = t
      BY <1>2, <2>3, <2>4, Zenon
    <3>. QED BY <2>2, <2>3, <2>4, <3>1
  <2>. QED BY <2>1, <2>4, Zenon
<1>3. Seq(T) \subseteq U
  <2>. HIDE DEF U
  <2>. QED BY <1>1, <1>2, SeqsByAppend
<1>. QED BY <1>3

LEMMA FilteredNone ==
  ASSUME NEW T, NEW S, NEW s \in Seq(T), \A i \in DOMAIN s : s[i] \notin S
  PROVE  Filtered(s, S) = <<>>
<1>. DEFINE f == Filtered(s, S)
<1>1. f \in Seq(T) /\ Keeps(f, s, S)
  BY FilteredItems
<1>. HIDE DEF f
<1>2. ~\E i \in DOMAIN f : TRUE
  BY <1>1 DEF Keeps
<1>3. Len(f) \in Nat /\ DOMAIN f = 1..Len(f)
  BY <1>1, LenProperties
<1>4. Len(f) = 0
  <2>1. Len(f) # 0 => 1 \in DOMAIN f
    BY <1>3
  <2>. QED BY <1>2, <2>1
<1>5. f = <<>>
  BY <1>1, <1>4, EmptySeq
<1>. QED BY <1>5 DEF f

LEMMA FilteredTwice ==
  ASSUME NEW T, NEW S, NEW R, NEW s \in Seq(T)
  PROVE  Filtered(Filtered(s, S), R) = Filtered(s, S \intersect R)
<1>. DEFINE B == S \intersect R
            U == {t \in Seq(T) : Filtered(Filtered(t, S), R) = Filtered(t, B)}
<1>0. \A V : Filtered(<<>>, V) = <<>>
  BY FilteredAppend
<1>1. \A V : \A x \in Seq(T), y \in T :
        Filtered(Append(x, y), V) = IF y \in V THEN Append(Filtered(x, V), y) ELSE Filtered(x, V)
  BY FilteredAppend
<1>2. <<>> \in U
  <2>1. <<>> \in Seq(T)
    BY EmptySeq
  <2>. QED BY <1>0, <2>1
<1>3. ASSUME NEW t \in Seq(T), t \in U, NEW e \in T PROVE Append(t, e) \in U
  <2>1. Filtered(t, S) \in Seq(T) /\ Append(t, e) \in Seq(T)
    BY <1>3, FilteredItems, AppendProperties
  <2>2. Filtered(Filtered(t, S), R) = Filtered(t, B)
    BY <1>3
  <2>. HIDE DEF B
  <2>3. e \in B <=> e \in S /\ e \in R
    BY DEF B
  <2>4. Filtered(Append(t, e), B) = IF e \in B THEN Append(Filtered(t, B), e) ELSE Filtered(t, B)
    BY <1>1, <1>3
  <2>5. Filtered(Append(t, e), S) = IF e \in S THEN Append(Filtered(t, S), e) ELSE Filtered(t, S)
    BY <1>1, <1>3
  <2>6. Filtered(Append(Filtered(t, S), e), R) =
          IF e \in R THEN Append(Filtered(Filtered(t, S), R), e) ELSE Filtered(Filtered(t, S), R)
    BY <1>1, <1>3, <2>1
  <2>7. Filtered(Filtered(Append(t, e), S), R) = Filtered(Append(t, e), B)
    BY <2>2, <2>3, <2>4, <2>5, <2>6
  <2>. QED BY <2>1, <2>7
<1>4. Seq(T) \subseteq U
  <2>. HIDE DEF U
  <2>. QED BY <1>2, <1>3, SeqsByAppend
<1>. QED BY <1>4
=============================================================================
