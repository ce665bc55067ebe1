--------------------------- MODULE SequenceLemmas ---------------------------
(***************************************************************************)
(* What the proofs share: induction over the natural numbers as a          *)
(* statement about sets, what it proves of the concatenation of a sequence *)
(* of sequences, and the arithmetic of multiples.                          *)
(***************************************************************************)
EXTENDS Multiples, Sequences, TLAPS
LOCAL INSTANCE WellFoundedInduction
Seqs == INSTANCE SequencesExt

(* Every set of natural numbers has a least element. *)
LEMMA LeastNumber ==
  ASSUME NEW T \in SUBSET Nat, T # {}
  PROVE  \E x \in T : \A y \in T : x <= y
<1> DEFINE R == OpToRel(<, Nat)
<1>1. IsWellFoundedOn(R, Nat)
  BY NatLessThanWellFounded
<1>2. \A x, y \in Nat : y < x => <<y, x>> \in R
  BY DEF OpToRel
<1> HIDE DEF R
<1>3. PICK x \in T : \A y \in T : ~(<<y, x>> \in R)
  BY <1>1, WFMin
<1>4. ASSUME NEW y \in T PROVE x <= y
  <2>1. x \in Nat /\ y \in Nat
    OBVIOUS
  <2>2. ~(y < x)
    BY <1>2, <1>3, <2>1, Zenon
  <2> QED
    BY <2>1, <2>2
<1> QED
  BY <1>4

(* A set that has the numbers from m on, one with the other, has them all. *)
LEMMA Induction ==
  ASSUME NEW T, NEW m \in Nat, m \in T,
         \A n \in Nat : n >= m /\ n \in T => n + 1 \in T
  PROVE  \A n \in Nat : n >= m => n \in T
<1> DEFINE U == {n \in Nat : n >= m /\ n \notin T}
<1> SUFFICES ASSUME U # {} PROVE FALSE
  OBVIOUS
<1>1. PICK x \in U : \A y \in U : x <= y
  <2>1. U \in SUBSET Nat
    OBVIOUS
  <2> HIDE DEF U
  <2> QED
    BY <2>1, LeastNumber
<1>2. x \in Nat /\ x >= m /\ x \notin T
  OBVIOUS
<1>3. x - 1 \in Nat /\ x - 1 >= m
  BY <1>2
<1>4. x - 1 \notin U
  <2> HIDE DEF U
  <2> QED
    BY <1>1, <1>2, <1>3
<1>5. x - 1 + 1 \in T
  BY <1>3, <1>4
<1> QED
  BY <1>2, <1>5

(* The functions that begin with "first" at m and go on by step[i] to i.   *)
Solutions(S, m, e, first, step) ==
  {g \in [m .. e -> S] :
     \A i \in m .. e : g[i] = IF i = m THEN first ELSE step[i][g[i - 1]]}

(* There is such a function: recursion over numbers defines something.     *)
LEMMA Recursion ==
  ASSUME NEW S, NEW m \in Nat, NEW e \in Nat, e >= m, NEW first \in S,
         NEW step \in [m .. e -> [S -> S]]
  PROVE  Solutions(S, m, e, first, step) # {}
<1> USE DEF Solutions
<1> DEFINE Upto(n) == Solutions(S, m, n, first, step)
           T == {n \in Nat : n <= e => Upto(n) # {}}
<1>1. m \in T
  <2>1. [i \in m .. m |-> first] \in Upto(m)
    OBVIOUS
  <2> QED
    BY <2>1
<1>2. ASSUME NEW n \in Nat, n >= m, n \in T
      PROVE  n + 1 \in T
  <2> SUFFICES ASSUME n + 1 <= e PROVE Upto(n + 1) # {}
    OBVIOUS
  <2>1. PICK g : g \in Upto(n)
    BY <1>2
  <2>2. g[n] \in S /\ step[n + 1] \in [S -> S]
    BY <1>2, <2>1
  <2> DEFINE next == step[n + 1][g[n]]
             h == [i \in m .. n + 1 |-> IF i = n + 1 THEN next ELSE g[i]]
  <2>3. next \in S
    BY <2>2
  <2>4. /\ h[n + 1] = next
        /\ \A i \in m .. n : h[i] = g[i]
        /\ h \in [m .. n + 1 -> S]
    <3> HIDE DEF next
    <3> QED
      BY <1>2, <2>1, <2>3
  <2>5. \A i \in m .. n : g[i] = IF i = m THEN first ELSE step[i][g[i - 1]]
    BY <2>1
  <2>6. ASSUME NEW i \in m .. n + 1
        PROVE  h[i] = IF i = m THEN first ELSE step[i][h[i - 1]]
    <3> HIDE DEF h
    <3>1. CASE i = n + 1
      BY <1>2, <2>4, <3>1
    <3>2. CASE i # n + 1
      <4>1. i \in m .. n /\ (i # m => i - 1 \in m .. n)
        BY <1>2, <3>2
      <4>2. h[i] = g[i] /\ (i # m => h[i - 1] = g[i - 1])
        BY <2>4, <4>1
      <4> QED
        BY <2>5, <4>1, <4>2
    <3> QED
      BY <3>1, <3>2
  <2>7. h \in Upto(n + 1)
    <3> HIDE DEF h
    <3> QED
      BY <2>4, <2>6
  <2> QED
    BY <2>7
<1>3. e \in T
  <2> HIDE DEF T
  <2> QED
    BY <1>1, <1>2, Induction
<1> QED
  BY <1>3

(* The concatenation of sequences over S, as FlattenSeq computes it.       *)
IsFlattening(seqs, g) ==
  \A i \in 1 .. Len(seqs) :
    g[i] = IF i = 1 THEN seqs[1] ELSE g[i - 1] \o seqs[i]

(* The recursion in FlattenSeq has a solution. *)
LEMMA FlattenDefined ==
  ASSUME NEW S, NEW seqs \in Seq(Seq(S)), seqs # <<>>
  PROVE  \E g \in [1 .. Len(seqs) -> Seq(S)] :
           /\ IsFlattening(seqs, g)
           /\ Seqs!FlattenSeq(seqs) = g[Len(seqs)]
<1> DEFINE n == Len(seqs)
           G(f) == f = [i \in 1 .. n |->
                          IF i = 1 THEN seqs[i] ELSE f[i - 1] \o seqs[i]]
           step == [i \in 1 .. n |-> [s \in Seq(S) |-> s \o seqs[i]]]
<1>1. n \in Nat /\ n >= 1
  OBVIOUS
<1>2. step \in [1 .. n -> [Seq(S) -> Seq(S)]] /\ seqs[1] \in Seq(S)
  BY <1>1
<1>3. \E f : G(f)
  <2>1. PICK f \in [1 .. n -> Seq(S)] :
          \A i \in 1 .. n :
            f[i] = IF i = 1 THEN seqs[1] ELSE step[i][f[i - 1]]
    <3> DEFINE Strings == Seq(S)
               first == seqs[1]
    <3>1. first \in Strings /\ step \in [1 .. n -> [Strings -> Strings]]
      BY <1>2
    <3> HIDE DEF step, n, Strings, first
    <3>2. Solutions(Strings, 1, n, first, step) # {}
      BY <1>1, <3>1, Recursion
    <3> QED
      BY <3>2 DEF Strings, first, Solutions
  <2>2. ASSUME NEW i \in 1 .. n
        PROVE  f[i] = IF i = 1 THEN seqs[i] ELSE f[i - 1] \o seqs[i]
    <3>1. CASE i = 1
      BY <2>1, <3>1
    <3>2. CASE i # 1
      <4>1. i - 1 \in 1 .. n
        BY <1>1, <3>2
      <4>2. f[i - 1] \in Seq(S)
        BY <2>1, <4>1
      <4> QED
        BY <2>1, <3>2, <4>2
    <3> QED
      BY <3>1, <3>2
  <2>3. G(f)
    BY <2>1, <2>2
  <2> QED
    BY <2>3
<1> DEFINE g == CHOOSE f : G(f)
<1>4. G(g)
  <2> HIDE DEF G
  <2> QED
    BY <1>3
<1>5. Seqs!FlattenSeq(seqs) = g[n]
  BY <1>1 DEF Seqs!FlattenSeq
<1> HIDE DEF g
<1>6. \A i \in 1 .. n : g[i] = IF i = 1 THEN seqs[1] ELSE g[i - 1] \o seqs[i]
  BY <1>4
<1>7. \A i \in 1 .. n : g[i] \in Seq(S)
  <2> DEFINE T == {i \in Nat : i <= n => g[i] \in Seq(S)}
  <2>1. 1 \in T
    BY <1>1, <1>2, <1>6
  <2>2. ASSUME NEW i \in Nat, i >= 1, i \in T PROVE i + 1 \in T
    <3> SUFFICES ASSUME i + 1 <= n PROVE g[i + 1] \in Seq(S)
      OBVIOUS
    <3>1. g[i] \in Seq(S) /\ seqs[i + 1] \in Seq(S) /\ i + 1 \in 1 .. n
      BY <1>1, <2>2
    <3>2. i + 1 # 1 /\ (i + 1) - 1 = i
      BY <2>2
    <3>3. g[i + 1] = g[(i + 1) - 1] \o seqs[i + 1]
      BY <1>6, <3>1, <3>2
    <3> QED
      BY <3>1, <3>2, <3>3
  <2>3. \A i \in Nat : i >= 1 => i \in T
    <3> HIDE DEF T
    <3> QED
      BY <2>1, <2>2, Induction
  <2> QED
    BY <2>3
<1>8. g \in [1 .. n -> Seq(S)]
  BY <1>4, <1>7
<1> QED
  BY <1>5, <1>6, <1>8 DEF IsFlattening

(* A concatenation of sequences over S is one. *)
LEMMA FlattenTyped ==
  ASSUME NEW S, NEW seqs \in Seq(Seq(S))
  PROVE  Seqs!FlattenSeq(seqs) \in Seq(S)
<1>1. CASE seqs = <<>>
  BY <1>1 DEF Seqs!FlattenSeq
<1>2. CASE seqs # <<>>
  <2>1. Len(seqs) \in 1 .. Len(seqs)
    BY <1>2
  <2>2. PICK g \in [1 .. Len(seqs) -> Seq(S)] :
          Seqs!FlattenSeq(seqs) = g[Len(seqs)]
    BY <1>2, FlattenDefined
  <2> QED
    BY <2>1, <2>2
<1> QED
  BY <1>1, <1>2

(* What a concatenation is. *)
LEMMA Concatenation ==
  ASSUME NEW S, NEW s \in Seq(S), NEW t \in Seq(S)
  PROVE  /\ s \o t \in Seq(S) /\ Len(s \o t) = Len(s) + Len(t)
         /\ \A i \in 1 .. Len(s) : (s \o t)[i] = s[i]
         /\ \A i \in 1 .. Len(t) : (s \o t)[Len(s) + i] = t[i]
OBVIOUS

(* What is left of a sequence without its first element. *)
LEMMA Shortened ==
  ASSUME NEW S, NEW s \in Seq(S), s # <<>>
  PROVE  /\ Tail(s) \in Seq(S) /\ Head(s) \in S /\ Head(s) = s[1]
         /\ Len(s) \in Nat \ {0} /\ Len(Tail(s)) = Len(s) - 1
         /\ \A i \in 1 .. Len(Tail(s)) : Tail(s)[i] = s[i + 1]
OBVIOUS

IsTail(t, s) ==
  Len(t) <= Len(s) /\ t = SubSeq(s, Len(s) - Len(t) + 1, Len(s))

(* The tail of a sequence is what its elements are. *)
LEMMA TailElements ==
  ASSUME NEW S, NEW s \in Seq(S), NEW t \in Seq(S), Len(t) <= Len(s)
  PROVE  IsTail(t, s)
         <=> \A i \in 1 .. Len(t) : t[i] = s[Len(s) - Len(t) + i]
<1> DEFINE u == SubSeq(s, Len(s) - Len(t) + 1, Len(s))
<1>1. /\ u \in Seq(S) /\ Len(u) = Len(t)
      /\ \A i \in 1 .. Len(t) : u[i] = s[Len(s) - Len(t) + i]
  OBVIOUS
<1> HIDE DEF u
<1>2. t = u <=> \A i \in 1 .. Len(t) : t[i] = u[i]
  BY <1>1
<1> QED
  BY <1>1, <1>2 DEF u, IsTail

(* A tail that grows with its sequence remains its tail. *)
LEMMA TailGrows ==
  ASSUME NEW S, NEW s \in Seq(S), NEW t \in Seq(S), NEW more \in Seq(S),
         IsTail(t, s)
  PROVE  IsTail(t \o more, s \o more)
<1> DEFINE longer == s \o more  tail == t \o more
<1>1. /\ longer \in Seq(S) /\ Len(longer) = Len(s) + Len(more)
      /\ \A i \in 1 .. Len(s) : longer[i] = s[i]
      /\ \A i \in 1 .. Len(more) : longer[Len(s) + i] = more[i]
  BY Concatenation
<1>2. /\ tail \in Seq(S) /\ Len(tail) = Len(t) + Len(more)
      /\ \A i \in 1 .. Len(t) : tail[i] = t[i]
      /\ \A i \in 1 .. Len(more) : tail[Len(t) + i] = more[i]
  BY Concatenation
<1> HIDE DEF longer, tail
<1>3. \A i \in 1 .. Len(t) : t[i] = s[Len(s) - Len(t) + i]
  BY TailElements DEF IsTail
<1>4. /\ Len(s) \in Nat /\ Len(t) \in Nat /\ Len(more) \in Nat
      /\ Len(t) <= Len(s)
  BY DEF IsTail
<1>5. ASSUME NEW i \in 1 .. Len(tail)
      PROVE  tail[i] = longer[Len(longer) - Len(tail) + i]
  <2>1. Len(longer) - Len(tail) + i = Len(s) - Len(t) + i
    BY <1>1, <1>2, <1>4
  <2>2. CASE i <= Len(t)
    <3>1. i \in 1 .. Len(t) /\ Len(s) - Len(t) + i \in 1 .. Len(s)
      BY <1>2, <1>4, <2>2
    <3> QED
      BY <1>1, <1>2, <1>3, <2>1, <3>1
  <2>3. CASE ~(i <= Len(t))
    <3>1. /\ i - Len(t) \in 1 .. Len(more) /\ Len(t) + (i - Len(t)) = i
          /\ Len(s) + (i - Len(t)) = Len(s) - Len(t) + i
      BY <1>2, <1>4, <2>3
    <3>2. tail[i] = more[i - Len(t)]
      BY <1>2, <3>1
    <3>3. longer[Len(s) - Len(t) + i] = more[i - Len(t)]
      BY <1>1, <3>1
    <3> QED
      BY <2>1, <3>2, <3>3
  <2> QED
    BY <2>2, <2>3
<1>6. Len(tail) <= Len(longer)
  BY <1>1, <1>2, <1>4
<1>7. IsTail(tail, longer)
  BY <1>1, <1>2, <1>5, <1>6, TailElements
<1> QED
  BY <1>7 DEF tail, longer

(* Sequences with the same elements are the same. *)
LEMMA SameSequence ==
  ASSUME NEW S, NEW s \in Seq(S), NEW t \in Seq(S), Len(s) = Len(t),
         \A i \in 1 .. Len(s) : s[i] = t[i]
  PROVE  s = t
OBVIOUS

(* It does not matter where three sequences are joined first, ... *)
LEMMA Associative ==
  ASSUME NEW S, NEW r \in Seq(S), NEW s \in Seq(S), NEW t \in Seq(S)
  PROVE  (r \o s) \o t = r \o (s \o t)
<1> DEFINE rs == r \o s  st == s \o t  left == rs \o t  right == r \o st
<1>1. /\ rs \in Seq(S) /\ Len(rs) = Len(r) + Len(s)
      /\ \A i \in 1 .. Len(r) : rs[i] = r[i]
      /\ \A i \in 1 .. Len(s) : rs[Len(r) + i] = s[i]
  BY Concatenation
<1>2. /\ st \in Seq(S) /\ Len(st) = Len(s) + Len(t)
      /\ \A i \in 1 .. Len(s) : st[i] = s[i]
      /\ \A i \in 1 .. Len(t) : st[Len(s) + i] = t[i]
  BY Concatenation
<1>a. /\ rs \in Seq(S) /\ t \in Seq(S) /\ left = rs \o t
      /\ r \in Seq(S) /\ st \in Seq(S) /\ right = r \o st
  BY <1>1, <1>2
<1> HIDE DEF rs, st, left, right
<1>3. /\ left \in Seq(S) /\ Len(left) = Len(rs) + Len(t)
      /\ \A i \in 1 .. Len(rs) : left[i] = rs[i]
      /\ \A i \in 1 .. Len(t) : left[Len(rs) + i] = t[i]
  BY ONLY <1>a, Concatenation
<1>4. /\ right \in Seq(S) /\ Len(right) = Len(r) + Len(st)
      /\ \A i \in 1 .. Len(r) : right[i] = r[i]
      /\ \A i \in 1 .. Len(st) : right[Len(r) + i] = st[i]
  BY ONLY <1>a, Concatenation
<1>5. Len(r) \in Nat /\ Len(s) \in Nat /\ Len(t) \in Nat
  OBVIOUS
<1>6. Len(left) = Len(right)
  BY <1>1, <1>2, <1>3, <1>4, <1>5
<1>7. ASSUME NEW i \in 1 .. Len(left) PROVE left[i] = right[i]
  <2>1. CASE i <= Len(r)
    <3>1. i \in 1 .. Len(r) /\ i \in 1 .. Len(rs)
      BY <1>1, <1>5, <2>1
    <3> QED
      BY <1>1, <1>3, <1>4, <3>1
  <2>2. CASE Len(r) < i /\ i <= Len(rs)
    <3> DEFINE j == i - Len(r)
    <3>1. /\ j \in 1 .. Len(s) /\ j \in 1 .. Len(st) /\ i \in 1 .. Len(rs)
          /\ Len(r) + j = i
      BY <1>1, <1>2, <1>5, <2>2
    <3> HIDE DEF j
    <3> QED
      BY <1>1, <1>2, <1>3, <1>4, <3>1
  <2>3. CASE Len(rs) < i
    <3> DEFINE j == i - Len(rs)
    <3>1. /\ j \in 1 .. Len(t) /\ Len(s) + j \in 1 .. Len(st)
          /\ Len(rs) + j = i /\ Len(r) + (Len(s) + j) = i
      BY <1>1, <1>2, <1>3, <1>5, <2>3
    <3> HIDE DEF j
    <3> QED
      BY <1>2, <1>3, <1>4, <3>1
  <2> QED
    BY <1>1, <1>3, <1>5, <2>1, <2>2, <2>3
<1>8. left = right
  BY <1>3, <1>4, <1>6, <1>7, SameSequence
<1> QED
  BY <1>8 DEF left, right, rs, st

(* ... an empty one adds nothing, ... *)
LEMMA NothingAdded ==
  ASSUME NEW S, NEW s \in Seq(S)
  PROVE  s \o <<>> = s /\ <<>> \o s = s
<1>1. <<>> \in Seq(S) /\ Len(<<>>) = 0 /\ Len(s) \in Nat
  OBVIOUS
<1>2. /\ s \o <<>> \in Seq(S) /\ Len(s \o <<>>) = Len(s) + 0
      /\ \A i \in 1 .. Len(s) : (s \o <<>>)[i] = s[i]
  BY <1>1, Concatenation
<1>3. /\ <<>> \o s \in Seq(S) /\ Len(<<>> \o s) = 0 + Len(s)
      /\ \A i \in 1 .. Len(s) : (<<>> \o s)[0 + i] = s[i]
  BY <1>1, Concatenation
<1>4. \A i \in 1 .. Len(s) : (<<>> \o s)[i] = s[i]
  BY <1>3
<1> QED
  BY <1>1, <1>2, <1>3, <1>4, SameSequence

(* ... what was joined can be parted again, ... *)
LEMMA Parted ==
  ASSUME NEW S, NEW s \in Seq(S), NEW t \in Seq(S)
  PROVE  SubSeq(s \o t, 1, Len(s)) = s
<1> DEFINE both == s \o t  front == SubSeq(both, 1, Len(s))
<1>1. /\ both \in Seq(S) /\ Len(both) = Len(s) + Len(t)
      /\ \A i \in 1 .. Len(s) : both[i] = s[i]
  BY Concatenation
<1> HIDE DEF both
<1>2. Len(s) \in Nat /\ Len(t) \in Nat
  OBVIOUS
<1>3. front \in Seq(S) /\ Len(front) = Len(s)
      /\ \A i \in 1 .. Len(s) : front[i] = both[i]
  BY <1>1, <1>2
<1> HIDE DEF front
<1>4. front = s
  BY <1>1, <1>3, SameSequence
<1> QED
  BY <1>4 DEF front, both

(* ... and what is cut, joined. *)
LEMMA Cut ==
  ASSUME NEW S, NEW s \in Seq(S), NEW n \in Nat
  PROVE  LET m == IF n < Len(s) THEN n ELSE Len(s) IN
         /\ SubSeq(s, 1, m) \in Seq(S) /\ Len(SubSeq(s, 1, m)) = m
         /\ SubSeq(s, n + 1, Len(s)) \in Seq(S)
         /\ SubSeq(s, 1, m) \o SubSeq(s, n + 1, Len(s)) = s
<1> DEFINE m == IF n < Len(s) THEN n ELSE Len(s)
           front == SubSeq(s, 1, m)  back == SubSeq(s, n + 1, Len(s))
           both == front \o back
<1>1. m \in 0 .. Len(s) /\ Len(s) \in Nat
  OBVIOUS
<1>2. n >= Len(s) => m = Len(s)
  OBVIOUS
<1>3. n < Len(s) => m = n
  OBVIOUS
<1> HIDE DEF m
<1>4. /\ front \in Seq(S) /\ Len(front) = m
      /\ \A i \in 1 .. m : front[i] = s[i]
  BY <1>1
<1>5. /\ back \in Seq(S) /\ Len(back) = Len(s) - m
      /\ \A i \in 1 .. Len(s) - m : back[i] = s[m + i]
  <2>1. CASE n < Len(s)
    BY <1>1, <1>3, <2>1
  <2>2. CASE n >= Len(s)
    <3>1. back = <<>>
      BY <1>1, <2>2
    <3>2. Len(s) - m = 0 /\ <<>> \in Seq(S) /\ Len(<<>>) = 0
      BY <1>1, <1>2, <2>2
    <3> HIDE DEF back
    <3> QED
      BY <3>1, <3>2
  <2> QED
    BY <1>1, <2>1, <2>2
<1>a. front \in Seq(S) /\ back \in Seq(S) /\ both = front \o back
  BY <1>4, <1>5
<1> HIDE DEF front, back, both
<1>6. /\ both \in Seq(S) /\ Len(both) = Len(front) + Len(back)
      /\ \A i \in 1 .. Len(front) : both[i] = front[i]
      /\ \A i \in 1 .. Len(back) : both[Len(front) + i] = back[i]
  BY ONLY <1>a, Concatenation
<1>7. Len(both) = Len(s)
  BY <1>1, <1>4, <1>5, <1>6
<1>8. ASSUME NEW i \in 1 .. Len(both) PROVE both[i] = s[i]
  <2>1. CASE i <= m
    BY <1>1, <1>4, <1>6, <1>7, <2>1
  <2>2. CASE m < i
    <3> DEFINE j == i - m
    <3>1. /\ j \in 1 .. Len(back) /\ j \in 1 .. Len(s) - m
          /\ Len(front) + j = i /\ m + j = i
      BY <1>1, <1>4, <1>5, <1>7, <2>2
    <3> HIDE DEF j
    <3>2. both[Len(front) + j] = back[j]
      BY <1>6, <3>1
    <3>3. back[j] = s[m + j]
      BY <1>5, <3>1
    <3> QED
      BY <3>1, <3>2, <3>3
  <2> QED
    BY <1>1, <1>7, <2>1, <2>2
<1>9. both = s
  BY <1>6, <1>7, <1>8, SameSequence
<1> QED
  BY <1>4, <1>5, <1>9 DEF both, front, back, m

-----------------------------------------------------------------------------
(* What appending makes of a sequence. *)
LEMMA Appended ==
  ASSUME NEW S, NEW s \in Seq(S), NEW x \in S
  PROVE  /\ Append(s, x) \in Seq(S) /\ Append(s, x) # <<>>
         /\ Len(s) \in Nat /\ Len(Append(s, x)) = Len(s) + 1
         /\ \A i \in 1 .. Len(s) : Append(s, x)[i] = s[i]
         /\ Append(s, x)[Len(s) + 1] = x
OBVIOUS

(* How a concatenation begins and goes on. *)
LEMMA FlatteningParts ==
  ASSUME NEW S, NEW seqs \in Seq(S), seqs # <<>>, NEW g, IsFlattening(seqs, g)
  PROVE  /\ g[1] = seqs[1]
         /\ \A i \in 2 .. Len(seqs) : g[i] = g[i - 1] \o seqs[i]
<1>1. Len(seqs) \in Nat /\ Len(seqs) >= 1
  OBVIOUS
<1>2. \A i \in 1 .. Len(seqs) :
        g[i] = IF i = 1 THEN seqs[1] ELSE g[i - 1] \o seqs[i]
  BY DEF IsFlattening
<1>3. g[1] = seqs[1]
  BY <1>1, <1>2
<1>4. ASSUME NEW i \in 2 .. Len(seqs) PROVE g[i] = g[i - 1] \o seqs[i]
  <2>1. i \in 1 .. Len(seqs) /\ ~(i = 1)
    BY <1>1
  <2> QED
    BY <1>2, <2>1, Zenon
<1> QED
  BY <1>3, <1>4

(* One sequence more makes the concatenation longer by it; *)
LEMMA FlattenAppended ==
  ASSUME NEW S, NEW seqs \in Seq(Seq(S)), NEW x \in Seq(S)
  PROVE  Seqs!FlattenSeq(Append(seqs, x)) = Seqs!FlattenSeq(seqs) \o x
<1> DEFINE n == Len(seqs)  more == Append(seqs, x)
<1>1. /\ more \in Seq(Seq(S)) /\ more # <<>> /\ Len(more) = n + 1
      /\ \A i \in 1 .. n : more[i] = seqs[i]
      /\ more[n + 1] = x /\ n \in Nat
  <2> DEFINE All == Seq(S)
  <2>1. seqs \in Seq(All) /\ x \in All
    OBVIOUS
  <2> HIDE DEF All
  <2>2. more = Append(seqs, x) /\ n = Len(seqs)
    OBVIOUS
  <2> HIDE DEF more, n
  <2>3. /\ more \in Seq(All) /\ more # <<>> /\ Len(more) = n + 1
        /\ \A i \in 1 .. n : more[i] = seqs[i]
        /\ more[n + 1] = x /\ n \in Nat
    BY ONLY <2>1, <2>2, Appended
  <2> QED
    BY <2>3 DEF All
<1> HIDE DEF more
<1>2. PICK h \in [1 .. n + 1 -> Seq(S)] :
        IsFlattening(more, h) /\ Seqs!FlattenSeq(more) = h[n + 1]
  BY <1>1, FlattenDefined
<1>3. /\ h[1] = more[1]
      /\ \A i \in 2 .. n + 1 : h[i] = h[i - 1] \o more[i]
  <2> DEFINE All == Seq(S)
  <2>1. more \in Seq(All) /\ more # <<>> /\ IsFlattening(more, h)
    BY <1>1, <1>2
  <2> HIDE DEF All
  <2>2. /\ h[1] = more[1]
        /\ \A i \in 2 .. Len(more) : h[i] = h[i - 1] \o more[i]
    BY ONLY <2>1, FlatteningParts
  <2> QED
    BY <1>1, <2>2
<1>4. CASE seqs = <<>>
  <2>1. n = 0 /\ Seqs!FlattenSeq(seqs) = <<>>
    BY <1>4 DEF Seqs!FlattenSeq
  <2>2. Seqs!FlattenSeq(more) = x
    BY <1>1, <1>2, <1>3, <2>1
  <2> QED
    BY <2>1, <2>2, NothingAdded, Zenon DEF more
<1>5. CASE seqs # <<>>
  <2>1. PICK g \in [1 .. n -> Seq(S)] :
          IsFlattening(seqs, g) /\ Seqs!FlattenSeq(seqs) = g[n]
    BY <1>5, FlattenDefined
  <2>2. n >= 1
    BY <1>5
  <2>3. /\ g[1] = seqs[1]
        /\ \A i \in 2 .. n : g[i] = g[i - 1] \o seqs[i]
    BY <1>5, <2>1, FlatteningParts
  <2> DEFINE T == {i \in Nat : i <= n => h[i] = g[i]}
  <2>4. 1 \in T
    BY <1>1, <1>3, <2>2, <2>3
  <2>5. ASSUME NEW i \in Nat, i >= 1, i \in T PROVE i + 1 \in T
    <3> SUFFICES ASSUME i + 1 <= n PROVE h[i + 1] = g[i + 1]
      OBVIOUS
    <3>1. i + 1 \in 2 .. n + 1 /\ i + 1 \in 2 .. n /\ (i + 1) - 1 = i
          /\ i + 1 \in 1 .. n
      BY <1>1, <2>5
    <3>2. h[i] = g[i]
      BY <1>1, <2>5
    <3>3. h[i + 1] = h[i] \o more[i + 1] /\ g[i + 1] = g[i] \o seqs[i + 1]
      BY <1>3, <2>3, <3>1
    <3> QED
      BY <1>1, <3>1, <3>2, <3>3
  <2>6. n \in T
    <3> HIDE DEF T
    <3> QED
      BY <1>1, <2>2, <2>4, <2>5, Induction
  <2>7. h[n + 1] = h[n] \o x
    <3>1. n + 1 \in 2 .. n + 1 /\ (n + 1) - 1 = n
      BY <1>1, <2>2
    <3> QED
      BY <1>1, <1>3, <3>1
  <2>8. h[n] = g[n]
    BY <1>1, <2>6
  <2> QED
    BY <1>2, <2>1, <2>7, <2>8, Zenon DEF more
<1> QED
  BY <1>4, <1>5

(* two lists of them are concatenated like their concatenations. *)
LEMMA FlattenJoins ==
  ASSUME NEW S, NEW s \in Seq(Seq(S)), NEW t \in Seq(Seq(S))
  PROVE  Seqs!FlattenSeq(s \o t) = Seqs!FlattenSeq(s) \o Seqs!FlattenSeq(t)
<1> DEFINE All == Seq(S)
           Joins(u) == Seqs!FlattenSeq(s \o u)
                       = Seqs!FlattenSeq(s) \o Seqs!FlattenSeq(u)
           T == {n \in Nat : \A u \in Seq(Seq(S)) : Len(u) = n => Joins(u)}
<1>1. 0 \in T
  <2> SUFFICES ASSUME NEW u \in Seq(Seq(S)), Len(u) = 0 PROVE Joins(u)
    OBVIOUS
  <2>1. u = <<>>
    OBVIOUS
  <2>2. Seqs!FlattenSeq(<<>>) = <<>>
    BY DEF Seqs!FlattenSeq
  <2>3. s \o <<>> = s
    BY NothingAdded, Zenon
  <2>4. Seqs!FlattenSeq(s) \in Seq(S)
    BY FlattenTyped
  <2>5. Seqs!FlattenSeq(s) \o <<>> = Seqs!FlattenSeq(s)
    BY <2>4, NothingAdded, Zenon
  <2> QED
    BY <2>1, <2>2, <2>3, <2>5, Zenon
<1>2. ASSUME NEW n \in Nat, n >= 0, n \in T PROVE n + 1 \in T
  <2> SUFFICES ASSUME NEW u \in Seq(Seq(S)), Len(u) = n + 1 PROVE Joins(u)
    OBVIOUS
  <2> DEFINE v == SubSeq(u, 1, n)  x == u[n + 1]
  <2>1. v \in Seq(Seq(S)) /\ Len(v) = n /\ x \in Seq(S) /\ u = Append(v, x)
    OBVIOUS
  <2> HIDE DEF v, x
  <2>2. Joins(v)
    BY <1>2, <2>1
  <2> HIDE DEF T
  <2>3. s \o u = Append(s \o v, x)
    BY <2>1
  <2>4. s \o v \in Seq(Seq(S))
    BY <2>1
  <2>5. Seqs!FlattenSeq(s \o u) = Seqs!FlattenSeq(s \o v) \o x
    BY <2>1, <2>3, <2>4, FlattenAppended, Zenon
  <2>6. Seqs!FlattenSeq(u) = Seqs!FlattenSeq(v) \o x
    BY <2>1, FlattenAppended, Zenon
  <2>7. Seqs!FlattenSeq(s) \in Seq(S) /\ Seqs!FlattenSeq(v) \in Seq(S)
    BY <2>1, FlattenTyped
  <2>8. (Seqs!FlattenSeq(s) \o Seqs!FlattenSeq(v)) \o x
        = Seqs!FlattenSeq(s) \o (Seqs!FlattenSeq(v) \o x)
    <3>1. ASSUME NEW r \in Seq(S), NEW q \in Seq(S), NEW z \in Seq(S)
          PROVE  (r \o q) \o z = r \o (q \o z)
      <4>1. r \in Seq(S) /\ q \in Seq(S) /\ z \in Seq(S)
        OBVIOUS
      <4> QED
        BY ONLY <4>1, Associative, SMTT(30)
    <3> QED
      BY <2>1, <2>7, <3>1, Zenon
  <2> QED
    BY <2>2, <2>5, <2>6, <2>8, Zenon
<1>3. \A n \in Nat : n >= 0 => n \in T
  <2> HIDE DEF T
  <2> QED
    BY <1>1, <1>2, Induction
<1>4. Len(t) \in Nat /\ Len(t) >= 0
  OBVIOUS
<1> QED
  BY <1>3, <1>4

-----------------------------------------------------------------------------
(* Numbers and their multiples. *)

(* A base is the nearest multiple at or below an address. *)
LEMMA BaseBounds ==
  ASSUME NEW x \in Nat, NEW m \in Nat \ {0}
  PROVE  /\ x % m \in 0 .. m - 1 /\ Base(x, m) \in Nat
         /\ Base(x, m) <= x /\ x < Base(x, m) + m
BY DEF Base

(* Every number is a multiple of m and a rest. *)
LEMMA Quotient ==
  ASSUME NEW x \in Nat, NEW m \in Nat \ {0}
  PROVE  x \div m \in Nat /\ x = (m * (x \div m)) + (x % m)
OBVIOUS

(* The rest of a multiple and a rest is that rest. *)
LEMMA RestOfMultiple ==
  ASSUME NEW q \in Int, NEW r \in Int, NEW m \in Nat \ {0}, 0 <= r, r < m
  PROVE  ((m * q) + r) % m = r
OBVIOUS

(* A sum of multiples is a multiple. *)
LEMMA AlignedSum ==
  ASSUME NEW x \in Nat, NEW y \in Nat, NEW m \in Nat \ {0},
         x % m = 0, y % m = 0
  PROVE  (x + y) % m = 0
<1> DEFINE p == x \div m  q == y \div m
<1>1. /\ p \in Nat /\ x = m * p
      /\ q \in Nat /\ y = m * q
  BY Quotient
<1> HIDE DEF p, q
<1>2. x + y = (m * (p + q)) + 0
  BY <1>1
<1> QED
  BY <1>1, <1>2, RestOfMultiple, p + q \in Int

(* A base does not lie below a multiple that its address has reached. *)
LEMMA BaseAbove ==
  ASSUME NEW x \in Nat, NEW w \in Nat, NEW m \in Nat \ {0},
         w % m = 0, w <= x
  PROVE  w <= Base(x, m)
<1> DEFINE p == x \div m  q == w \div m  r == x % m
<1>1. /\ p \in Nat /\ x = (m * p) + r /\ r \in 0 .. m - 1
      /\ q \in Nat /\ w = m * q
  BY Quotient
<1>2. Base(x, m) = m * p
  BY <1>1 DEF Base
<1> HIDE DEF p, q, r
<1>3. q <= p
  <2> SUFFICES ASSUME p + 1 <= q PROVE FALSE
    BY <1>1
  <2>1. m * (p + 1) <= m * q
    BY <1>1
  <2> QED
    BY <1>1, <2>1
<1>4. m * q <= m * p
  BY <1>1, <1>3
<1> QED
  BY <1>1, <1>2, <1>4

(* Nor does the end of its unit lie above one that it has not reached. *)
LEMMA BaseBelow ==
  ASSUME NEW x \in Nat, NEW w \in Nat, NEW m \in Nat \ {0},
         w % m = 0, x < w
  PROVE  Base(x, m) + m <= w
<1> DEFINE p == x \div m  q == w \div m  r == x % m
<1>1. /\ p \in Nat /\ x = (m * p) + r /\ r \in 0 .. m - 1
      /\ q \in Nat /\ w = m * q
  BY Quotient
<1>2. Base(x, m) = m * p
  BY <1>1 DEF Base
<1> HIDE DEF p, q, r
<1>3. p + 1 <= q
  <2> SUFFICES ASSUME q <= p PROVE FALSE
    BY <1>1
  <2>1. m * q <= m * p
    BY <1>1
  <2> QED
    BY <1>1, <2>1
<1>4. m * (p + 1) <= m * q
  BY <1>1, <1>3
<1> QED
  BY <1>1, <1>2, <1>4

(* A base is a multiple. *)
LEMMA BaseMultiple ==
  ASSUME NEW x \in Nat, NEW m \in Nat \ {0}
  PROVE  Base(x, m) % m = 0
<1> DEFINE p == x \div m  r == x % m
<1>1. p \in Nat /\ x = (m * p) + r /\ r \in 0 .. m - 1
  BY Quotient
<1>2. Base(x, m) = (m * p) + 0
  BY <1>1 DEF Base
<1> HIDE DEF p
<1> QED
  BY <1>1, <1>2, RestOfMultiple

(* Of two multiples, the one that is not above the other's unit is not     *)
(* above the other.                                                        *)
LEMMA MultipleBelow ==
  ASSUME NEW x \in Nat, NEW w \in Nat, NEW m \in Nat \ {0},
         x % m = 0, w % m = 0, x < w + m
  PROVE  x <= w
<1> SUFFICES ASSUME w < x PROVE FALSE
  OBVIOUS
<1>1. Base(w, m) + m <= x
  BY BaseBelow
<1>2. Base(w, m) = w
  BY DEF Base
<1> QED
  BY <1>1, <1>2

(* Multiples of a sector are multiples of a page. *)
LEMMA AlignedCoarser ==
  ASSUME NEW x \in Nat, NEW n \in Nat \ {0}, NEW m \in Nat \ {0},
         x % n = 0, n % m = 0
  PROVE  x % m = 0
<1> DEFINE p == x \div n  q == n \div m
<1>1. /\ p \in Nat /\ x = n * p
      /\ q \in Nat /\ n = m * q
  BY Quotient
<1> HIDE DEF p, q
<1>2. x = (m * (q * p)) + 0
  BY <1>1
<1> QED
  BY <1>1, <1>2, RestOfMultiple, q * p \in Int

(* As many blocks of h units as l units take: a block begins before their  *)
(* end, and none is left after the last one.                               *)
LEMMA BlockCount ==
  ASSUME NEW l \in Nat \ {0}, NEW h \in Nat \ {0}
  PROVE  LET n == (l + h - 1) \div h IN
         /\ n \in Nat \ {0}
         /\ \A b \in Nat : b < n <=> b * h < l
<1> DEFINE x == l + h - 1  q == x \div h  r == x % h
<1>1. l \in Nat /\ l >= 1 /\ h \in Nat \ {0} /\ x \in Nat
  OBVIOUS
<1>2. q \in Nat /\ x = (h * q) + r /\ r \in 0 .. h - 1
  <2> HIDE DEF x
  <2> QED
    BY <1>1, BaseBounds, Quotient
<1>4. x = l + h - 1
  OBVIOUS
<1> HIDE DEF x, q, r
<1>5. ASSUME NEW b \in Nat PROVE b < q <=> b * h < l
  <2>1. CASE b < q
    <3>1. h * (b + 1) <= h * q
      BY <1>1, <1>2, <2>1
    <3>2. h * (b + 1) = b * h + h
      BY <1>1
    <3>3. b * h \in Nat /\ h * q \in Nat
      BY <1>1, <1>2
    <3> QED
      BY <1>1, <1>2, <1>4, <2>1, <3>1, <3>2, <3>3
  <2>2. CASE b >= q
    <3>1. h * q <= b * h
      BY <1>1, <1>2, <2>2
    <3>2. b * h \in Nat /\ h * q \in Nat
      BY <1>1, <1>2
    <3> QED
      BY <1>1, <1>2, <1>4, <2>2, <3>1, <3>2
  <2> QED
    BY <1>2, <2>1, <2>2
<1>6. q # 0
  <2>1. 0 < q <=> 0 * h < l
    BY <1>5
  <2> QED
    BY <1>1, <2>1
<1> QED
  BY <1>2, <1>5, <1>6 DEF q, x

(* Numbers that count in a circle of m: one differs from its neighbours.   *)
LEMMA Circle ==
  ASSUME NEW x \in Nat, NEW m \in Nat \ {0}, m >= 2
  PROVE  /\ x % m \in 0 .. m - 1
         /\ ((x % m) + 1) % m = (x + 1) % m
         /\ (((x + 1) % m) + m - 1) % m = x % m
         /\ ((x % m) + m - 1) % m # x % m /\ (x + 1) % m # x % m
<1> DEFINE q == x \div m  r == x % m
<1>1. m \in Nat \ {0} /\ m >= 2 /\ x \in Nat
  OBVIOUS
<1>2. q \in Nat /\ x = (m * q) + r /\ r \in 0 .. m - 1
  <2> QED
    BY <1>1, BaseBounds, Quotient
<1> HIDE DEF q, r
<1>4. CASE r < m - 1
  <2>1. x + 1 = (m * q) + (r + 1) /\ r + 1 < m /\ r \in Nat
    BY <1>1, <1>2, <1>4
  <2>2. (x + 1) % m = r + 1
    BY <1>1, <1>2, <2>1, RestOfMultiple
  <2>3. (r + 1) % m = r + 1
    BY <1>1, <1>2, <2>1
  <2>4. (r + 1 + m - 1) % m = r
    <3>1. r + 1 + m - 1 = (m * 1) + r
      BY <1>1, <1>2
    <3> QED
      BY <1>1, <1>2, <3>1, RestOfMultiple
  <2>5. (r + m - 1) % m # r
    <3>1. CASE r = 0
      <4>1. (0 + m - 1) % m = m - 1
        BY <1>1
      <4> QED
        BY <1>1, <3>1, <4>1
    <3>2. CASE r # 0
      <4>1. r + m - 1 = (m * 1) + (r - 1) /\ 0 <= r - 1 /\ r - 1 < m
        BY <1>1, <1>2, <3>2
      <4>2. (r + m - 1) % m = r - 1
        BY <1>1, <1>2, <4>1, RestOfMultiple
      <4> QED
        BY <1>2, <4>2
    <3> QED
      BY <3>1, <3>2
  <2> QED
    BY <1>1, <1>2, <2>1, <2>2, <2>3, <2>4, <2>5 DEF r
<1>5. CASE r = m - 1
  <2>1. x + 1 = (m * (q + 1)) + 0
    BY <1>1, <1>2, <1>5
  <2>2. (x + 1) % m = 0
    BY <1>1, <1>2, <2>1, RestOfMultiple, q + 1 \in Int
  <2>3. (r + 1) % m = 0 /\ (0 + m - 1) % m = m - 1
    BY <1>1, <1>5
  <2>4. (r + m - 1) % m # r
    <3>1. r + m - 1 = (m * 1) + (m - 2) /\ 0 <= m - 2 /\ m - 2 < m
      BY <1>1, <1>5
    <3>2. (r + m - 1) % m = m - 2
      BY <1>1, <1>2, <3>1, RestOfMultiple
    <3> QED
      BY <1>1, <1>5, <3>2
  <2>5. r # 0 /\ r \in 0 .. m - 1
    BY <1>1, <1>2, <1>5
  <2> QED
    BY <1>1, <1>5, <2>2, <2>3, <2>4, <2>5 DEF r
<1> QED
  BY <1>1, <1>2, <1>4, <1>5

(* Three elements before a sequence and one after it. *)
LEMMA Enclosed ==
  ASSUME NEW S, NEW f \in Seq(S), NEW x, NEW y, NEW z, NEW w
  PROVE  LET packet == <<x, y, z>> \o f \o <<w>> IN
         /\ Len(packet) = Len(f) + 4 /\ packet[1] = x /\ packet[2] = y
         /\ \A i \in 1 .. Len(f) : packet[3 + i] = f[i]
<1> DEFINE any == S \cup {x, y, z, w}
           head == <<x, y, z>>
           most == head \o f
           packet == most \o <<w>>
<1>2. /\ head \in Seq(any) /\ <<w>> \in Seq(any)
      /\ Len(head) = 3 /\ head[1] = x /\ head[2] = y
      /\ Len(<<w>>) = 1
  OBVIOUS
<1>3. f \in Seq(any) /\ Len(f) \in Nat
  OBVIOUS
<1> HIDE DEF head, any
<1>4. /\ most \in Seq(any) /\ Len(most) = Len(head) + Len(f)
      /\ \A i \in 1 .. Len(head) : most[i] = head[i]
      /\ \A i \in 1 .. Len(f) : most[Len(head) + i] = f[i]
  <2>1. head \in Seq(any)
    BY <1>2
  <2>2. f \in Seq(any)
    BY <1>3
  <2>3. most = head \o f
    OBVIOUS
  <2> HIDE DEF most
  <2> QED
    BY ONLY <2>1, <2>2, <2>3, Concatenation
<1> HIDE DEF most
<1>5. /\ Len(packet) = Len(most) + 1
      /\ \A i \in 1 .. Len(most) : packet[i] = most[i]
  BY <1>2, <1>4, Concatenation
<1> HIDE DEF packet
<1>6. packet[1] = head[1] /\ packet[2] = head[2]
  BY <1>2, <1>3, <1>4, <1>5
<1>7. ASSUME NEW i \in 1 .. Len(f) PROVE packet[3 + i] = f[i]
  <2>1. 3 + i \in 1 .. Len(most)
    BY <1>2, <1>3, <1>4
  <2> QED
    BY <1>2, <1>4, <1>5, <2>1
<1> QED
  BY <1>2, <1>3, <1>4, <1>5, <1>6, <1>7 DEF packet, most, head

=============================================================================
