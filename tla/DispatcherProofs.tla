-------------------------- MODULE DispatcherProofs --------------------------
(***************************************************************************)
(* Theorems about commands and their replies (Dispatcher).  Types are kept *)
(* whatever the line does.  While the line is Clear, the two sides take    *)
(* turns: the last command is on its way to the stub, in its hands, or     *)
(* replied to, and the stub has executed it or not as the reply says; what *)
(* is left of a reply of which bytes are lost is never taken for a reply.  *)
(* So commands, executions and answers follow each other in step.          *)
(***************************************************************************)
EXTENDS Dispatcher, SequenceLemmas

Byte == 0 .. 255

(* Bytes are numbers, and what is added to a sum leaves one. *)
LEMMA Bytes ==
  /\ 0 \in Byte /\ \A x \in Byte : x \in Nat /\ x <= 255
  /\ \A x, y \in Byte : (x + y) % 256 \in Byte
  /\ \A x \in Nat : x <= 255 => x \in Byte
<1>1. 0 \in Byte /\ \A x \in Byte : x \in Nat /\ x <= 255
  BY DEF Byte
<1>2. \A x \in Nat : x % 256 \in Byte
  BY DEF Byte
<1>3. \A x \in Nat : x <= 255 => x \in Byte
  BY DEF Byte
<1> QED
  BY <1>1, <1>2, <1>3

-----------------------------------------------------------------------------
(* Sums. *)

(* The sums f[i] of the first i bytes, up to k. *)
Totals(f, bytes, k) ==
  /\ f = [i \in 0 .. k |-> f[i]] /\ f[0] = 0
  /\ \A i \in 0 .. k : f[i] \in Byte
  /\ \A i \in 1 .. k : f[i] = (f[i - 1] + bytes[i]) % 256

(* The recursion in Sum has a solution. *)
LEMMA SumDefined ==
  ASSUME NEW bytes \in Seq(Byte)
  PROVE  \E f : Totals(f, bytes, Len(bytes)) /\ Sum(bytes) = f[Len(bytes)]
<1> DEFINE n == Len(bytes)
           T == {k \in Nat : k <= n => \E f : Totals(f, bytes, k)}
           G(f) == f = [i \in 0 .. n |->
                          IF i = 0 THEN 0 ELSE (f[i - 1] + bytes[i]) % 256]
<1>1. n \in Nat
  OBVIOUS
<1>2. 0 \in T
  <2>1. Totals([i \in 0 .. 0 |-> 0], bytes, 0)
    BY Bytes DEF Totals
  <2> QED
    BY <2>1
<1>3. ASSUME NEW k \in Nat, k >= 0, k \in T PROVE k + 1 \in T
  <2> SUFFICES ASSUME k + 1 <= n PROVE \E f : Totals(f, bytes, k + 1)
    OBVIOUS
  <2>1. PICK f : Totals(f, bytes, k)
    BY <1>1, <1>3
  <2>2. /\ f[0] = 0 /\ \A i \in 0 .. k : f[i] \in Byte
        /\ \A i \in 1 .. k : f[i] = (f[i - 1] + bytes[i]) % 256
    BY <2>1 DEF Totals
  <2> DEFINE next == (f[k] + bytes[k + 1]) % 256
             h == [i \in 0 .. k + 1 |-> IF i = k + 1 THEN next ELSE f[i]]
  <2>3. next \in Byte
    <3>1. f[k] \in Byte /\ bytes[k + 1] \in Byte
      BY <1>1, <1>3, <2>2
    <3> QED
      BY <3>1, Bytes
  <2>4. /\ h = [i \in 0 .. k + 1 |-> h[i]] /\ h[k + 1] = next
        /\ \A i \in 0 .. k : h[i] = f[i]
    <3> HIDE DEF next
    <3> QED
      BY <1>3
  <2>5. next = (f[k] + bytes[k + 1]) % 256
    OBVIOUS
  <2> HIDE DEF h, next
  <2>6. \A i \in 0 .. k + 1 : h[i] \in Byte
    BY <1>3, <2>2, <2>3, <2>4
  <2>7. ASSUME NEW i \in 1 .. k + 1 PROVE h[i] = (h[i - 1] + bytes[i]) % 256
    <3>1. CASE i = k + 1
      <4>1. i - 1 = k /\ k \in 0 .. k
        BY <1>3, <3>1
      <4> QED
        BY <2>4, <2>5, <3>1, <4>1
    <3>2. CASE i # k + 1
      <4>1. i \in 1 .. k /\ i \in 0 .. k /\ i - 1 \in 0 .. k
        BY <1>3, <3>2
      <4> QED
        BY <2>2, <2>4, <4>1
    <3> QED
      BY <3>1, <3>2
  <2>8. h[0] = 0
    <3>1. 0 \in 0 .. k
      BY <1>3
    <3> QED
      BY <2>2, <2>4, <3>1
  <2>9. Totals(h, bytes, k + 1)
    BY <2>4, <2>6, <2>7, <2>8 DEF Totals
  <2> QED
    BY <2>9
<1>4. PICK f : Totals(f, bytes, n)
  <2>1. n \in T
    <3> HIDE DEF T, n
    <3> QED
      BY <1>1, <1>2, <1>3, Induction
  <2> QED
    BY <2>1
<1>5. ASSUME NEW i \in 0 .. n
      PROVE  f[i] = IF i = 0 THEN 0 ELSE (f[i - 1] + bytes[i]) % 256
  <2>1. CASE i = 0
    BY <1>4, <2>1 DEF Totals
  <2>2. CASE i # 0
    <3>1. \A j \in 1 .. n : f[j] = (f[j - 1] + bytes[j]) % 256
      BY <1>4 DEF Totals
    <3>2. i \in 1 .. n
      <4> HIDE DEF n
      <4> QED
        BY <1>1, <2>2
    <3>3. f[i] = (f[i - 1] + bytes[i]) % 256
      BY <3>1, <3>2, Zenon
    <3> QED
      BY <2>2, <3>3, Zenon
  <2> QED
    BY <2>1, <2>2
<1>6. G(f)
  <2>1. f = [i \in 0 .. n |-> f[i]]
    BY <1>4 DEF Totals
  <2> QED
    BY <1>5, <2>1
<1> DEFINE g == CHOOSE e : G(e)
<1>7. G(g)
  <2> HIDE DEF G
  <2> QED
    BY <1>6
<1>8. Sum(bytes) = g[n]
  BY DEF Sum
<1> HIDE DEF g
<1>9. /\ \A i \in 0 .. n : g[i] = IF i = 0 THEN 0 ELSE (g[i - 1] + bytes[i]) % 256
      /\ g = [i \in 0 .. n |-> g[i]]
  BY <1>7
<1>10. g[0] = 0 /\ \A i \in 1 .. n : g[i] = (g[i - 1] + bytes[i]) % 256
  <2>1. 0 \in 0 .. n /\ \A i \in 1 .. n : i \in 0 .. n /\ i # 0
    BY <1>1
  <2> HIDE DEF n
  <2> QED
    BY <1>9, <2>1
<1>11. \A i \in 0 .. n : g[i] \in Byte
  <2> DEFINE U == {i \in Nat : i <= n => g[i] \in Byte}
  <2>1. 0 \in U
    BY <1>10, Bytes
  <2>2. ASSUME NEW i \in Nat, i >= 0, i \in U PROVE i + 1 \in U
    <3> SUFFICES ASSUME i + 1 <= n PROVE g[i + 1] \in Byte
      OBVIOUS
    <3>1. g[i] \in Byte /\ bytes[i + 1] \in Byte /\ i + 1 \in 1 .. n
      BY <1>1, <2>2
    <3>2. (i + 1) - 1 = i
      BY <2>2
    <3>3. g[i + 1] = (g[(i + 1) - 1] + bytes[i + 1]) % 256
      BY <1>10, <3>1
    <3> QED
      BY <3>1, <3>2, <3>3, Bytes
  <2>3. \A i \in Nat : i >= 0 => i \in U
    <3> HIDE DEF U
    <3> QED
      BY <2>1, <2>2, Induction
  <2> QED
    BY <1>1, <2>3
<1>12. Totals(g, bytes, n)
  BY <1>9, <1>10, <1>11 DEF Totals
<1> QED
  BY <1>8, <1>12

(* A sum is a byte. *)
LEMMA SumTyped ==
  ASSUME NEW bytes \in Seq(Byte)
  PROVE  Sum(bytes) \in Byte
<1>1. Len(bytes) \in 0 .. Len(bytes)
  OBVIOUS
<1> QED
  BY <1>1, SumDefined DEF Totals

-----------------------------------------------------------------------------
(* Within. *)

(* How much of s the first i elements of t hold, up to k. *)
Found(f, s, t, k) ==
  /\ f = [i \in 0 .. k |-> f[i]] /\ f[0] = 0
  /\ \A i \in 0 .. k : f[i] \in 0 .. Len(s)
  /\ \A i \in 1 .. k :
       f[i] = IF f[i - 1] < Len(s) /\ s[f[i - 1] + 1] = t[i]
              THEN f[i - 1] + 1 ELSE f[i - 1]

(* The recursion in Within has a solution. *)
LEMMA WithinDefined ==
  ASSUME NEW S, NEW s \in Seq(S), NEW t \in Seq(S)
  PROVE  \E f : /\ Found(f, s, t, Len(t))
                /\ Within(s, t) <=> f[Len(t)] = Len(s)
<1> DEFINE n == Len(t)
           More(m, i) == IF m < Len(s) /\ s[m + 1] = t[i] THEN m + 1 ELSE m
           T == {k \in Nat : k <= n => \E f : Found(f, s, t, k)}
           G(f) == f = [i \in 0 .. n |-> IF i = 0 THEN 0 ELSE More(f[i - 1], i)]
<1>1. n \in Nat /\ Len(s) \in Nat
  OBVIOUS
<1>2. 0 \in T
  <2>1. Found([i \in 0 .. 0 |-> 0], s, t, 0)
    BY <1>1 DEF Found
  <2> QED
    BY <2>1
<1>3. ASSUME NEW k \in Nat, k >= 0, k \in T PROVE k + 1 \in T
  <2> SUFFICES ASSUME k + 1 <= n PROVE \E f : Found(f, s, t, k + 1)
    OBVIOUS
  <2>1. PICK f : Found(f, s, t, k)
    BY <1>1, <1>3
  <2>2. /\ f[0] = 0 /\ \A i \in 0 .. k : f[i] \in 0 .. Len(s)
        /\ \A i \in 1 .. k : f[i] = More(f[i - 1], i)
    BY <2>1 DEF Found
  <2> DEFINE next == More(f[k], k + 1)
             h == [i \in 0 .. k + 1 |-> IF i = k + 1 THEN next ELSE f[i]]
  <2>3. next \in 0 .. Len(s)
    <3>1. f[k] \in 0 .. Len(s)
      BY <1>3, <2>2
    <3> QED
      BY <1>1, <3>1
  <2>4. /\ h = [i \in 0 .. k + 1 |-> h[i]] /\ h[k + 1] = next
        /\ \A i \in 0 .. k : h[i] = f[i]
    <3> HIDE DEF next
    <3> QED
      BY <1>3
  <2>5. next = More(f[k], k + 1)
    OBVIOUS
  <2> HIDE DEF h, next, More
  <2>6. ASSUME NEW i \in 0 .. k + 1 PROVE h[i] \in 0 .. Len(s)
    <3>1. i = k + 1 \/ i \in 0 .. k
      BY <1>3
    <3> QED
      BY <2>2, <2>3, <2>4, <3>1
  <2>7. ASSUME NEW i \in 1 .. k + 1 PROVE h[i] = More(h[i - 1], i)
    <3>1. CASE i = k + 1
      <4>1. i - 1 = k /\ k \in 0 .. k
        BY <1>3, <3>1
      <4> QED
        BY <2>4, <2>5, <3>1, <4>1
    <3>2. CASE i # k + 1
      <4>1. i \in 1 .. k /\ i \in 0 .. k /\ i - 1 \in 0 .. k
        BY <1>3, <3>2
      <4> QED
        BY <2>2, <2>4, <4>1
    <3> QED
      BY <3>1, <3>2
  <2>8. h[0] = 0
    <3>1. 0 \in 0 .. k
      BY <1>3
    <3> QED
      BY <2>2, <2>4, <3>1
  <2>9. Found(h, s, t, k + 1)
    BY <2>4, <2>6, <2>7, <2>8 DEF Found, More
  <2> QED
    BY <2>9
<1>4. PICK f : Found(f, s, t, n)
  <2>1. n \in T
    <3> HIDE DEF T, n
    <3> QED
      BY <1>1, <1>2, <1>3, Induction
  <2> QED
    BY <2>1
<1>5. ASSUME NEW i \in 0 .. n
      PROVE  f[i] = IF i = 0 THEN 0 ELSE More(f[i - 1], i)
  <2>1. CASE i = 0
    BY <1>4, <2>1 DEF Found
  <2>2. CASE i # 0
    <3>1. i \in 1 .. n
      BY <2>2
    <3>2. f[i] = More(f[i - 1], i)
      BY <1>4, <3>1 DEF Found
    <3> HIDE DEF More
    <3> QED
      BY <2>2, <3>2
  <2> QED
    BY <2>1, <2>2
<1>6. G(f)
  <2>1. f = [i \in 0 .. n |-> f[i]]
    BY <1>4 DEF Found
  <2> HIDE DEF More
  <2> QED
    BY <1>5, <2>1
<1> DEFINE g == CHOOSE e : G(e)
<1>7. G(g)
  <2> HIDE DEF G
  <2> QED
    BY <1>6
<1>8. Within(s, t) <=> g[n] = Len(s)
  BY DEF Within
<1> HIDE DEF g
<1>9. /\ \A i \in 0 .. n : g[i] = IF i = 0 THEN 0 ELSE More(g[i - 1], i)
      /\ g = [i \in 0 .. n |-> g[i]]
  <2> HIDE DEF More
  <2> QED
    BY <1>7
<1>10. g[0] = 0 /\ \A i \in 1 .. n : g[i] = More(g[i - 1], i)
  <2>1. 0 \in 0 .. n /\ \A i \in 1 .. n : i \in 0 .. n /\ i # 0
    BY <1>1
  <2> HIDE DEF n, More
  <2> QED
    BY <1>9, <2>1
<1>11. \A i \in 0 .. n : g[i] \in 0 .. Len(s)
  <2> DEFINE U == {i \in Nat : i <= n => g[i] \in 0 .. Len(s)}
  <2>1. 0 \in U
    BY <1>1, <1>10
  <2>2. ASSUME NEW i \in Nat, i >= 0, i \in U PROVE i + 1 \in U
    <3> SUFFICES ASSUME i + 1 <= n PROVE g[i + 1] \in 0 .. Len(s)
      OBVIOUS
    <3>1. g[i] \in 0 .. Len(s) /\ i + 1 \in 1 .. n /\ (i + 1) - 1 = i
      BY <1>1, <2>2
    <3>2. g[i + 1] = More(g[i], i + 1)
      <4> HIDE DEF More
      <4> QED
        BY <1>10, <3>1
    <3> QED
      BY <1>1, <3>1, <3>2
  <2>3. \A i \in Nat : i >= 0 => i \in U
    <3> HIDE DEF U
    <3> QED
      BY <2>1, <2>2, Induction
  <2> QED
    BY <1>1, <2>3
<1>12. Found(g, s, t, n)
  BY <1>9, <1>10, <1>11 DEF Found
<1> QED
  BY <1>8, <1>12

(* What lies within t still does when t has grown. *)
LEMMA WithinMore ==
  ASSUME NEW S, NEW s \in Seq(S), NEW t \in Seq(S), NEW x \in S, Within(s, t)
  PROVE  Within(s, Append(t, x))
<1> DEFINE n == Len(t)  more == Append(t, x)
<1>1. /\ n \in Nat /\ more \in Seq(S) /\ Len(more) = n + 1 /\ Len(s) \in Nat
      /\ \A i \in 1 .. n : more[i] = t[i]
      /\ more[n + 1] = x
  OBVIOUS
<1>2. PICK g : Found(g, s, t, n) /\ g[n] = Len(s)
  BY WithinDefined
<1> HIDE DEF more
<1>3. PICK h : Found(h, s, more, n + 1) /\ (Within(s, more) <=> h[n + 1] = Len(s))
  <2>1. \E h : /\ Found(h, s, more, Len(more))
               /\ Within(s, more) <=> h[Len(more)] = Len(s)
    BY <1>1, WithinDefined
  <2> QED
    BY <1>1, <2>1
<1> HIDE DEF n
<1> DEFINE T == {i \in Nat : i <= n => h[i] = g[i]}
<1>4. 0 \in T
  BY <1>2, <1>3 DEF Found
<1>5. ASSUME NEW i \in Nat, i >= 0, i \in T PROVE i + 1 \in T
  <2> SUFFICES ASSUME i + 1 <= n PROVE h[i + 1] = g[i + 1]
    OBVIOUS
  <2>1. i + 1 \in 1 .. n /\ i + 1 \in 1 .. n + 1 /\ (i + 1) - 1 = i
    BY <1>1, <1>5
  <2>2. h[i] = g[i] /\ more[i + 1] = t[i + 1]
    BY <1>1, <1>5, <2>1
  <2>3. g[i + 1] = IF g[i] < Len(s) /\ s[g[i] + 1] = t[i + 1]
                   THEN g[i] + 1 ELSE g[i]
    BY <1>2, <2>1 DEF Found
  <2>4. h[i + 1] = IF h[i] < Len(s) /\ s[h[i] + 1] = more[i + 1]
                   THEN h[i] + 1 ELSE h[i]
    BY <1>3, <2>1 DEF Found
  <2> QED
    BY <2>2, <2>3, <2>4
<1>6. \A i \in Nat : i >= 0 => i \in T
  <2> HIDE DEF T
  <2> QED
    BY <1>4, <1>5, Induction
<1>7. h[n] = Len(s)
  BY <1>1, <1>2, <1>6
<1>8. n + 1 \in 1 .. n + 1 /\ (n + 1) - 1 = n
  BY <1>1
<1>9. h[n + 1] = h[n]
  <2>1. h[n + 1] = IF h[n] < Len(s) /\ s[h[n] + 1] = more[n + 1]
                   THEN h[n] + 1 ELSE h[n]
    BY <1>3, <1>8 DEF Found
  <2> QED
    BY <1>1, <1>7, <2>1
<1> QED
  BY <1>3, <1>7, <1>9 DEF more

(* So does what both have been extended with. *)
LEMMA WithinBoth ==
  ASSUME NEW S, NEW s \in Seq(S), NEW t \in Seq(S), NEW x \in S, Within(s, t)
  PROVE  Within(Append(s, x), Append(t, x))
<1> DEFINE n == Len(t)  more == Append(t, x)  m == Len(s)  longer == Append(s, x)
<1>1. /\ n \in Nat /\ more \in Seq(S) /\ Len(more) = n + 1
      /\ \A i \in 1 .. n : more[i] = t[i]
      /\ more[n + 1] = x
      /\ m \in Nat /\ longer \in Seq(S) /\ Len(longer) = m + 1
      /\ \A i \in 1 .. m : longer[i] = s[i]
      /\ longer[m + 1] = x
  OBVIOUS
<1>2. PICK g : Found(g, s, t, n) /\ g[n] = m
  BY WithinDefined
<1> HIDE DEF more, longer
<1>3. PICK h : /\ Found(h, longer, more, n + 1)
               /\ Within(longer, more) <=> h[n + 1] = m + 1
  <2>1. \E h : /\ Found(h, longer, more, Len(more))
               /\ Within(longer, more) <=> h[Len(more)] = Len(longer)
    BY <1>1, WithinDefined
  <2> QED
    BY <1>1, <2>1
<1>4. /\ g[0] = 0 /\ \A i \in 0 .. n : g[i] \in 0 .. m
      /\ \A i \in 1 .. n :
           g[i] = IF g[i - 1] < m /\ s[g[i - 1] + 1] = t[i]
                  THEN g[i - 1] + 1 ELSE g[i - 1]
  BY <1>2 DEF Found
<1>5. /\ h[0] = 0 /\ \A i \in 0 .. n + 1 : h[i] \in 0 .. m + 1
      /\ \A i \in 1 .. n + 1 :
           h[i] = IF h[i - 1] < m + 1 /\ longer[h[i - 1] + 1] = more[i]
                  THEN h[i - 1] + 1 ELSE h[i - 1]
  <2>1. Len(longer) = m + 1 /\ Found(h, longer, more, n + 1)
    BY <1>1, <1>3
  <2> QED
    BY <2>1 DEF Found
<1> HIDE DEF n, m
<1> DEFINE Beside(i) == h[i] = g[i] \/ (g[i] = m /\ h[i] = m + 1)
           T == {i \in Nat : i <= n => Beside(i)}
<1>6. 0 \in T
  BY <1>4, <1>5
<1>7. ASSUME NEW i \in Nat, i >= 0, i \in T PROVE i + 1 \in T
  <2> SUFFICES ASSUME i + 1 <= n PROVE Beside(i + 1)
    BY <1>7
  <2>1. /\ i + 1 \in 1 .. n /\ i + 1 \in 1 .. n + 1 /\ (i + 1) - 1 = i
        /\ i \in 0 .. n
    BY <1>1, <1>7
  <2>2. more[i + 1] = t[i + 1] /\ g[i] \in 0 .. m
    BY <1>1, <1>4, <2>1
  <2>3. /\ g[i + 1] = IF g[i] < m /\ s[g[i] + 1] = t[i + 1] THEN g[i] + 1 ELSE g[i]
        /\ h[i + 1] = IF h[i] < m + 1 /\ longer[h[i] + 1] = t[i + 1]
                      THEN h[i] + 1 ELSE h[i]
    BY <1>4, <1>5, <2>1, <2>2
  <2>4. CASE h[i] = g[i] /\ g[i] < m
    <3>1. g[i] + 1 \in 1 .. m
      BY <1>1, <2>2, <2>4
    <3>2. longer[g[i] + 1] = s[g[i] + 1]
      BY <1>1, <3>1
    <3> QED
      BY <1>1, <2>2, <2>3, <2>4, <3>2
  <2>5. CASE h[i] = g[i] /\ g[i] = m
    BY <1>1, <2>3, <2>5
  <2>6. CASE g[i] = m /\ h[i] = m + 1
    BY <1>1, <2>3, <2>6
  <2>7. h[i] = g[i] \/ (g[i] = m /\ h[i] = m + 1)
    <3>1. i <= n
      BY <1>1, <2>1
    <3>2. Beside(i)
      <4> HIDE DEF Beside
      <4> QED
        BY <1>7, <3>1
    <3> QED
      BY <3>2
  <2> QED
    BY <1>1, <2>2, <2>4, <2>5, <2>6, <2>7
<1>8. \A i \in Nat : i >= 0 => i \in T
  <2> HIDE DEF T
  <2> QED
    BY <1>6, <1>7, Induction
<1>9. h[n] = m \/ h[n] = m + 1
  <2>1. Beside(n)
    <3> HIDE DEF Beside
    <3> QED
      BY <1>1, <1>8
  <2> QED
    BY <1>2, <2>1
<1>10. n + 1 \in 1 .. n + 1 /\ (n + 1) - 1 = n
  BY <1>1
<1>11. h[n + 1] = IF h[n] < m + 1 /\ longer[h[n] + 1] = x THEN h[n] + 1 ELSE h[n]
  BY <1>1, <1>5, <1>10
<1>12. h[n + 1] = m + 1
  BY <1>1, <1>9, <1>11
<1> QED
  BY <1>3, <1>12 DEF more, longer

(* Nothing lies within anything. *)
LEMMA WithinEmpty ==
  ASSUME NEW S, NEW s \in Seq(S), NEW t \in Seq(S), Len(s) = 0
  PROVE  Within(s, t)
<1>1. PICK f : Found(f, s, t, Len(t)) /\ (Within(s, t) <=> f[Len(t)] = Len(s))
  BY WithinDefined
<1>2. Len(t) \in 0 .. Len(t)
  OBVIOUS
<1>3. f[Len(t)] \in 0 .. Len(s)
  BY <1>1, <1>2 DEF Found
<1> QED
  BY <1>1, <1>3

-----------------------------------------------------------------------------
(* Frames and replies. *)

Commands == Byte \X Seq(Byte)

(* The frame of a command, and the reply to one. *)
Framed(c) == WithSum(<<MAGIC, c[1], Len(c[2]), 0>> \o c[2])
Answer(type, data, status) ==
  WithSum(<<ACK_MAGIC, type, Len(data), 0>> \o data \o <<status>>)

(* The sum follows what has been summed up. *)
LEMMA Summed ==
  ASSUME NEW bytes \in Seq(Byte)
  PROVE  LET all == WithSum(bytes) IN
         /\ all \in Seq(Byte) /\ Len(all) = Len(bytes) + 1
         /\ \A i \in 1 .. Len(bytes) : all[i] = bytes[i]
         /\ all[Len(bytes) + 1] = Sum(bytes)
         /\ SubSeq(all, 1, Len(bytes)) = bytes
<1> DEFINE sum == Sum(bytes)  all == Append(bytes, sum)
<1>1. sum \in Byte
  BY SumTyped
<1> HIDE DEF sum
<1>2. /\ all \in Seq(Byte) /\ Len(all) = Len(bytes) + 1
      /\ \A i \in 1 .. Len(bytes) : all[i] = bytes[i]
      /\ all[Len(bytes) + 1] = sum
  BY <1>1
<1>3. SubSeq(all, 1, Len(bytes)) = bytes
  <2>1. all = bytes \o <<sum>> /\ <<sum>> \in Seq(Byte)
    BY <1>1
  <2> QED
    BY <2>1, Parted
<1> QED
  BY <1>2, <1>3 DEF WithSum, sum

(* What the stub finds in the frame of a command. *)
LEMMA FramedParts ==
  ASSUME NEW c \in Commands, Len(c[2]) <= 255
  PROVE  LET f == Framed(c)  n == Len(c[2]) IN
         /\ c[1] \in Byte /\ c[2] \in Seq(Byte) /\ n \in Nat
         /\ f \in Seq(Byte) /\ Len(f) = 5 + n
         /\ f[1] = MAGIC /\ f[2] = c[1] /\ f[3] = n /\ f[4] = 0
         /\ f = WithSum(SubSeq(f, 1, Len(f) - 1))
         /\ SubSeq(f, 5, 4 + n) = c[2]
<1> DEFINE data == c[2]  n == Len(data)  head == <<MAGIC, c[1], n, 0>>
           body == head \o data  f == Framed(c)
<1>1. c[1] \in Byte /\ data \in Seq(Byte) /\ n \in Nat /\ n <= 255
  BY DEF Commands
<1>2. n \in Byte /\ MAGIC \in Byte /\ 0 \in Byte
  BY <1>1, Bytes DEF MAGIC
<1> HIDE DEF data, n
<1>3. head \in Seq(Byte) /\ Len(head) = 4
  BY <1>1, <1>2
<1>4. head[1] = MAGIC /\ head[2] = c[1] /\ head[3] = n /\ head[4] = 0
  OBVIOUS
<1> HIDE DEF head
<1>5. /\ body \in Seq(Byte) /\ Len(body) = 4 + n
      /\ \A i \in 1 .. 4 : body[i] = head[i]
      /\ \A i \in 1 .. n : body[4 + i] = data[i]
  <2>2. body = head \o data
    OBVIOUS
  <2>3. head \in Seq(Byte)
    BY <1>1, <1>3
  <2>4. data \in Seq(Byte)
    BY <1>1, <1>3
  <2> HIDE DEF body
  <2>1. /\ body \in Seq(Byte) /\ Len(body) = Len(head) + Len(data)
        /\ \A i \in 1 .. Len(head) : body[i] = head[i]
        /\ \A i \in 1 .. Len(data) : body[Len(head) + i] = data[i]
    BY ONLY <2>2, <2>3, <2>4, Concatenation
  <2> QED
    BY <1>1, <1>3, <2>1 DEF n
<1>6. f = WithSum(body)
  BY DEF Framed, head, n, data
<1> HIDE DEF body, f
<1>7. /\ f \in Seq(Byte) /\ Len(f) = 5 + n
      /\ \A i \in 1 .. 4 + n : f[i] = body[i]
      /\ SubSeq(f, 1, Len(f) - 1) = body
  <2>1. /\ f \in Seq(Byte) /\ Len(f) = Len(body) + 1
        /\ \A i \in 1 .. Len(body) : f[i] = body[i]
        /\ SubSeq(f, 1, Len(body)) = body
    BY <1>5, <1>6, Summed
  <2>2. Len(body) + 1 = 5 + n /\ Len(f) - 1 = Len(body)
    BY <1>1, <1>5, <2>1
  <2> QED
    BY <1>5, <2>1, <2>2
<1>8. f[1] = MAGIC /\ f[2] = c[1] /\ f[3] = n /\ f[4] = 0
  <2>1. \A i \in 1 .. 4 : i \in 1 .. 4 + n
    BY <1>1
  <2>2. \A i \in 1 .. 4 : f[i] = head[i]
    BY <1>5, <1>7, <2>1
  <2> QED
    BY <1>4, <2>2
<1>9. SubSeq(f, 5, 4 + n) = data
  <2>1. /\ SubSeq(f, 5, 4 + n) \in Seq(Byte) /\ Len(SubSeq(f, 5, 4 + n)) = n
        /\ \A i \in 1 .. n : SubSeq(f, 5, 4 + n)[i] = f[4 + i]
    BY <1>1, <1>7
  <2>2. ASSUME NEW i \in 1 .. n PROVE f[4 + i] = data[i]
    <3>1. 4 + i \in 1 .. 4 + n
      BY <1>1
    <3> QED
      BY <1>5, <1>7, <3>1
  <2>3. n = Len(data)
    BY DEF n
  <2> QED
    BY <1>1, <2>1, <2>2, <2>3, SameSequence
<1> QED
  BY <1>1, <1>6, <1>7, <1>8, <1>9 DEF f, n, data

(* What a reply is made of. *)
Parts(r, type, data, n, status) ==
  /\ n \in Nat /\ Len(r) = 6 + n
  /\ r[1] = ACK_MAGIC /\ r[2] = type /\ r[3] = n /\ r[4] = 0
  /\ \A i \in 1 .. n : r[4 + i] = data[i]
  /\ r[5 + n] = status
  /\ r[6 + n] = Sum(SubSeq(r, 1, 5 + n))

LEMMA AnswerMade ==
  ASSUME NEW type \in Byte, NEW data \in Seq(Byte), NEW status \in Byte,
         NEW r, r = Answer(type, data, status), NEW n, n = Len(data), n <= 255
  PROVE  r \in Seq(Byte) /\ Parts(r, type, data, n, status)
<1> DEFINE head == <<ACK_MAGIC, type, n, 0>>
           most == head \o data  body == most \o <<status>>
<1>1. n \in Nat /\ n <= 255
  OBVIOUS
<1>2. n \in Byte /\ ACK_MAGIC \in Byte /\ 0 \in Byte
  BY <1>1, Bytes DEF ACK_MAGIC
<1>3. n = Len(data)
  OBVIOUS
<1>4. head \in Seq(Byte) /\ Len(head) = 4
  BY <1>2
<1>5. head[1] = ACK_MAGIC /\ head[2] = type /\ head[3] = n /\ head[4] = 0
  OBVIOUS
<1> HIDE DEF head
<1>6. /\ most \in Seq(Byte) /\ Len(most) = 4 + n
      /\ \A i \in 1 .. 4 : most[i] = head[i]
      /\ \A i \in 1 .. n : most[4 + i] = data[i]
  <2>2. most = head \o data
    OBVIOUS
  <2>3. head \in Seq(Byte)
    BY <1>4
  <2>4. data \in Seq(Byte)
    BY <1>4
  <2> HIDE DEF most
  <2>1. /\ most \in Seq(Byte) /\ Len(most) = Len(head) + Len(data)
        /\ \A i \in 1 .. Len(head) : most[i] = head[i]
        /\ \A i \in 1 .. Len(data) : most[Len(head) + i] = data[i]
    BY ONLY <2>2, <2>3, <2>4, Concatenation
  <2> QED
    BY <1>3, <1>4, <2>1
<1> HIDE DEF most
<1>7. /\ body \in Seq(Byte) /\ Len(body) = 5 + n
      /\ \A i \in 1 .. 4 + n : body[i] = most[i]
      /\ body[5 + n] = status
  <2>1. <<status>> \in Seq(Byte) /\ Len(<<status>>) = 1 /\ <<status>>[1] = status
    OBVIOUS
  <2>2. /\ body \in Seq(Byte) /\ Len(body) = Len(most) + Len(<<status>>)
        /\ \A i \in 1 .. Len(most) : body[i] = most[i]
        /\ \A i \in 1 .. Len(<<status>>) : body[Len(most) + i] = <<status>>[i]
    BY ONLY <1>6, <2>1, Concatenation
  <2>3. 1 \in 1 .. Len(<<status>>) /\ Len(most) + 1 = 5 + n
    BY <1>1, <1>6
  <2>4. body[Len(most) + 1] = status
    BY <2>1, <2>2, <2>3
  <2> HIDE DEF body
  <2> QED
    BY <1>1, <1>6, <2>1, <2>2, <2>3, <2>4
<1>8. r = WithSum(body)
  BY <1>3 DEF Answer, head, most
<1> HIDE DEF body
<1>10. /\ r \in Seq(Byte) /\ Len(r) = 6 + n
       /\ \A i \in 1 .. 5 + n : r[i] = body[i]
       /\ r[6 + n] = Sum(SubSeq(r, 1, 5 + n))
  <2>1. /\ r \in Seq(Byte) /\ Len(r) = Len(body) + 1
        /\ \A i \in 1 .. Len(body) : r[i] = body[i]
        /\ r[Len(body) + 1] = Sum(body) /\ SubSeq(r, 1, Len(body)) = body
    BY ONLY <1>7, <1>8, Summed, Zenon
  <2>2. Len(body) + 1 = 6 + n
    BY <1>1, <1>7
  <2> QED
    BY <1>7, <2>1, <2>2
<1>11. r[1] = ACK_MAGIC /\ r[2] = type /\ r[3] = n /\ r[4] = 0
  <2>1. \A i \in 1 .. 4 : i \in 1 .. 4 + n /\ i \in 1 .. 5 + n
    BY <1>1
  <2>2. \A i \in 1 .. 4 : r[i] = head[i]
    BY <1>6, <1>7, <1>10, <2>1
  <2> QED
    BY <1>5, <2>2
<1>12. ASSUME NEW i \in 1 .. n PROVE r[4 + i] = data[i]
  <2>1. 4 + i \in 1 .. 4 + n /\ 4 + i \in 1 .. 5 + n
    BY <1>1
  <2> QED
    BY <1>6, <1>7, <1>10, <2>1
<1>13. r[5 + n] = status
  <2>1. 5 + n \in 1 .. 5 + n
    BY <1>1
  <2> QED
    BY <1>7, <1>10, <2>1
<1> QED
  BY <1>1, <1>10, <1>11, <1>12, <1>13 DEF Parts

(* A reply is bytes, ... *)
LEMMA AnswerTyped ==
  ASSUME NEW type \in Byte, NEW data \in Seq(Byte), NEW status \in Byte,
         NEW r, r = Answer(type, data, status), NEW n, n = Len(data), n <= 255
  PROVE  r \in Seq(Byte)
BY AnswerMade

(* ... and what the probe finds in it. *)
LEMMA AnswerParts ==
  ASSUME NEW type \in Byte, NEW data \in Seq(Byte), NEW status \in Byte,
         NEW r, r = Answer(type, data, status), NEW n, n = Len(data), n <= 255
  PROVE  /\ n \in Nat /\ Len(r) = 6 + n
         /\ r[1] = ACK_MAGIC /\ r[2] = type /\ r[3] = n /\ r[4] = 0
         /\ \A i \in 1 .. n : r[4 + i] = data[i]
         /\ r[5 + n] = status
         /\ r[6 + n] = Sum(SubSeq(r, 1, 5 + n))
<1>1. Parts(r, type, data, n, status)
  BY AnswerMade
<1> QED
  BY <1>1 DEF Parts

-----------------------------------------------------------------------------
(* Type correctness.  It needs to know how far a frame has come, and that  *)
(* a reply is not read on when its header is wrong.                        *)

TypedStub ==
  /\ spc \in {"boot", "main", "frame", "switch", "work"}
  /\ prompts \in BOOLEAN /\ toBoot \in 0 .. 4 /\ (spc = "boot" => toBoot > 0)
  /\ frame \in Seq(Byte) /\ Len(frame) <= 5 + CmdBuf
  /\ rate \in Supported /\ executed \in Seq(Commands)
  /\ spc = "frame" =>
       /\ Len(frame) > 0
       /\ Len(frame) <= 4 \/ (DataLen <= CmdBuf /\ Len(frame) <= 5 + DataLen)
  /\ spc \in {"switch", "work"} => Complete
  /\ spc = "switch" => Data \in Supported

TypedHost ==
  /\ hpc \in {"upload", "next", "reply", "settle", "confirm", "ok", "failed"}
  /\ step \in 1 .. Len(Script) + 1 /\ got \in Seq(Byte)
  /\ hostRate \in Seq(Byte) /\ restarts \in 0 .. MaxRestarts
  /\ asked \in Seq(Commands) /\ answered \in Seq(Commands)
  /\ \A i \in 1 .. Len(asked) : Len(asked[i][2]) <= 255
  /\ hpc \in {"upload", "next", "reply", "settle", "confirm"} => step <= Len(Script)
  /\ hpc = "upload" => step = 1
  /\ Waiting /\ Len(got) > 4 => got[1] = ACK_MAGIC /\ got[2] = Command.type

TypedLine ==
  rx \in Seq(Byte) /\ tx \in Seq(Byte) /\ faults \in 0 .. MaxFaults

Typed == TypedStub /\ TypedHost /\ TypedLine

(* The constants, in terms of bytes. *)
LEMMA Constants ==
  /\ Garbled \subseteq Byte /\ Supported \subseteq Seq(Byte) /\ FirstRate \in Supported
  /\ CmdBuf \in Nat /\ CmdBuf >= 255
  /\ FifoDepth \in Nat /\ MaxFaults \in Nat /\ MaxRestarts \in Nat
  /\ Len(Script) \in Nat /\ Len(Script) >= 1 /\ Script[1].type = SYNC
  /\ \A i \in 1 .. Len(Script) :
       /\ Script[i].type \in Byte \ Transfers /\ Script[i].data \in Seq(Byte)
       /\ Len(Script[i].data) <= 255 /\ Script[i].want \in Byte
<1>1. /\ Garbled \subseteq Byte /\ Supported \subseteq Seq(Byte) /\ FirstRate \in Supported
      /\ CmdBuf \in Nat /\ CmdBuf >= 255
      /\ FifoDepth \in Nat /\ MaxFaults \in Nat /\ MaxRestarts \in Nat
  BY LineAssumption, Zenon DEF Byte
<1> DEFINE Items == [type : Byte \ Transfers, data : Seq(Byte), want : Byte]
<1>2. /\ Script \in Seq(Items) /\ Script # <<>> /\ Script[1].type = SYNC
      /\ \A i \in DOMAIN Script : Len(Script[i].data) <= 255
  BY ScriptAssumption DEF Byte
<1>3. \A item \in Items : /\ item.type \in Byte \ Transfers
                          /\ item.data \in Seq(Byte) /\ item.want \in Byte
  OBVIOUS
<1> HIDE DEF Items
<1>4. /\ Len(Script) \in Nat /\ Len(Script) >= 1
      /\ DOMAIN Script = 1 .. Len(Script)
      /\ \A i \in 1 .. Len(Script) : Script[i] \in Items
  BY <1>2
<1> QED
  BY <1>1, <1>2, <1>3, <1>4

(* What stays as it is keeps its types. *)
LEMMA TypesStay ==
  /\ TypedStub /\ UNCHANGED stub => TypedStub'
  /\ TypedHost /\ UNCHANGED host => TypedHost'
<1>1. TypedStub /\ UNCHANGED stub => TypedStub'
  BY DEF TypedStub, stub, DataLen, Data, Complete
<1>2. TypedHost /\ UNCHANGED host => TypedHost'
  BY DEF TypedHost, host, Waiting, Command
<1> QED
  BY <1>1, <1>2

(* The command that the probe has come to. *)
LEMMA CommandTyped ==
  ASSUME TypedHost, step <= Len(Script)
  PROVE  /\ Command.type \in Byte \ Transfers /\ Command.data \in Seq(Byte)
         /\ Len(Command.data) <= 255 /\ Command.want \in Byte
         /\ <<Command.type, Command.data>> \in Commands
<1>1. /\ SYNC \in Byte \ Transfers /\ SUCCESS \in Byte
      /\ <<>> \in Seq(Byte) /\ Len(<<>>) <= 255
  BY Bytes DEF SYNC, SUCCESS, Transfers
<1>2. /\ SyncCommand.type = SYNC /\ SyncCommand.data = <<>>
      /\ SyncCommand.want = SUCCESS
  BY DEF SyncCommand
<1>3. step \in 1 .. Len(Script)
  BY Constants DEF TypedHost
<1>4. Command = SyncCommand \/ Command = Script[step]
  BY DEF Command
<1>5. /\ Command.type \in Byte \ Transfers /\ Command.data \in Seq(Byte)
      /\ Len(Command.data) <= 255 /\ Command.want \in Byte
  <2>1. CASE Command = SyncCommand
    BY <1>1, <1>2, <2>1
  <2>2. CASE Command = Script[step]
    BY <1>3, <2>2, Constants
  <2> QED
    BY <1>4, <2>1, <2>2
<1> QED
  BY <1>5 DEF Commands

(* What is heard of bytes is bytes. *)
LEMMA HeardTyped ==
  ASSUME NEW bytes \in Seq(Byte), NEW heard \in Heard(bytes)
  PROVE  heard \in Seq(Byte) /\ Len(heard) = Len(bytes)
<1>1. CASE rate = hostRate
  BY <1>1 DEF Heard
<1>2. CASE rate # hostRate
  <2>1. PICK b \in Garbled : heard = [i \in DOMAIN bytes |-> b]
    BY <1>2 DEF Heard
  <2>2. b \in Byte
    BY Constants
  <2>3. DOMAIN bytes = 1 .. Len(bytes) /\ Len(bytes) \in Nat
    OBVIOUS
  <2> QED
    BY <2>1, <2>2, <2>3
<1> QED
  BY <1>1, <1>2

(* A reply is bytes. *)
LEMMA ReplyTyped ==
  ASSUME TypedStub, TypedLine, Len(frame) > 1,
         NEW data \in Seq(Byte), Len(data) <= 255, NEW status \in Byte,
         Reply(data, status)
  PROVE  tx' \in Seq(Byte)
<1>1. Type \in Byte
  BY DEF TypedStub, Type
<1>2. Answer(Type, data, status) \in Seq(Byte)
  BY <1>1, AnswerTyped
<1>3. PICK heard \in Heard(Answer(Type, data, status)) : tx' = tx \o heard
  BY DEF Reply, Answer
<1>4. heard \in Seq(Byte)
  BY <1>2, <1>3, HeardTyped
<1> QED
  BY <1>3, <1>4 DEF TypedLine

(* A reply to a command without data in it. *)
LEMMA RefusalTyped ==
  ASSUME TypedStub, TypedLine, Len(frame) > 1, NEW status \in 0 .. 5,
         Reply(<<>>, status)
  PROVE  tx' \in Seq(Byte)
<1>1. <<>> \in Seq(Byte) /\ Len(<<>>) <= 255
  OBVIOUS
<1>2. status \in Byte
  BY Bytes
<1> QED
  BY <1>1, <1>2, ReplyTyped

(* How long the frame is to be. *)
LEMMA FrameTyped ==
  ASSUME TypedStub
  PROVE  /\ Len(frame) \in Nat
         /\ Len(frame) >= 4 => DataLen \in Nat
         /\ Complete => /\ DataLen \in Nat /\ Len(frame) > 4
                        /\ Type \in Byte /\ Data \in Seq(Byte)
                        /\ <<Type, Data>> \in Commands
<1>1. frame \in Seq(Byte) /\ Len(frame) \in Nat
  BY DEF TypedStub
<1>2. ASSUME Len(frame) >= 4 PROVE DataLen \in Nat
  <2>1. frame[3] \in Byte /\ frame[4] \in Byte
    BY <1>1, <1>2
  <2>2. frame[3] \in Nat /\ frame[4] \in Nat
    BY <2>1, Bytes
  <2> QED
    BY <2>2 DEF DataLen
<1>3. ASSUME Complete
      PROVE  /\ DataLen \in Nat /\ Len(frame) > 4
             /\ Type \in Byte /\ Data \in Seq(Byte)
  <2>1. Len(frame) > 4 /\ Len(frame) = 5 + DataLen
    BY <1>3 DEF Complete
  <2>2. Type \in Byte
    BY <1>1, <2>1 DEF Type
  <2>3. DataLen \in Nat
    BY <1>1, <1>2, <2>1
  <2>4. Data \in Seq(Byte)
    <3> DEFINE n == DataLen
    <3>1. n \in Nat /\ Len(frame) = 5 + n
      BY <2>1, <2>3
    <3> HIDE DEF n
    <3>2. SubSeq(frame, 5, 4 + n) \in Seq(Byte)
      BY <1>1, <3>1
    <3> QED
      BY <3>2 DEF n, Data
  <2> QED
    BY <2>1, <2>2, <2>3, <2>4
<1> QED
  BY <1>1, <1>2, <1>3 DEF Commands

(* Both sides start with their types. *)
LEMMA TypedInit == Init => Typed
<1> SUFFICES ASSUME Init PROVE Typed
  OBVIOUS
<1>1. TypedStub
  <2>0. /\ \/ spc = "boot" /\ toBoot = 4 /\ prompts = TRUE
           \/ spc = "main" /\ toBoot = 0 /\ prompts \in BOOLEAN
        /\ frame = <<>> /\ rate = FirstRate /\ executed = <<>>
    BY DEF Init
  <2>1. /\ spc \in {"boot", "main"} /\ prompts \in BOOLEAN /\ toBoot \in 0 .. 4
        /\ spc = "boot" => toBoot > 0
    <3>1. CASE spc = "boot" /\ toBoot = 4 /\ prompts = TRUE
      BY <3>1
    <3>2. CASE spc = "main" /\ toBoot = 0 /\ prompts \in BOOLEAN
      BY <3>2
    <3> QED
      BY <2>0, <3>1, <3>2
  <2>2. /\ frame \in Seq(Byte) /\ Len(frame) = 0 /\ executed \in Seq(Commands)
    BY <2>0
  <2>3. Len(frame) <= 5 + CmdBuf
    BY <2>2, Constants
  <2> QED
    BY <2>0, <2>1, <2>2, <2>3, Constants DEF TypedStub
<1>2. TypedHost
  BY Constants DEF Init, TypedHost, Waiting
<1>3. TypedLine
  BY Constants DEF Init, TypedLine
<1> QED
  BY <1>1, <1>2, <1>3 DEF Typed

(* No step of the stub takes a type away, ... *)
LEMMA StubTyped ==
  ASSUME Typed, StubWork
  PROVE  Typed'
<1> USE DEF Typed
<1>1. TypedStub /\ TypedHost /\ TypedLine
  OBVIOUS
<1>2. Prompt \in Byte /\ rx \in Seq(Byte) /\ tx \in Seq(Byte) /\ frame \in Seq(Byte)
  BY Bytes DEF Prompt, TypedLine, TypedStub
<1>3. UNCHANGED host => TypedHost'
  BY TypesStay
<1>4. rx # <<>> => Tail(rx) \in Seq(Byte) /\ Head(rx) \in Byte
  BY <1>2
<1>5. Append(tx, Prompt) \in Seq(Byte)
  BY <1>2
<1>6. CASE BootPrompt
  <2>1. TypedStub'
    BY <1>6 DEF BootPrompt, TypedStub
  <2>2. TypedLine'
    BY <1>5, <1>6 DEF BootPrompt, TypedLine
  <2> QED
    BY <1>3, <1>6, <2>1, <2>2 DEF BootPrompt
<1>7. CASE IdlePrompt
  <2>1. TypedLine'
    BY <1>5, <1>7 DEF IdlePrompt, TypedLine
  <2> QED
    BY <1>3, <1>7, <2>1, TypesStay DEF IdlePrompt
<1>8. CASE DropByte
  <2>1. TypedLine'
    BY <1>4, <1>8 DEF DropByte, TypedLine
  <2> QED
    BY <1>3, <1>8, <2>1, TypesStay DEF DropByte
<1>9. CASE StartFrame
  <2>1. TypedLine'
    BY <1>4, <1>9 DEF StartFrame, TypedLine
  <2>2. frame' \in Seq(Byte) /\ Len(frame') = 1
    BY <1>9, Bytes DEF StartFrame, MAGIC
  <2>3. Len(frame') <= 5 + CmdBuf /\ Len(frame') > 0 /\ Len(frame') <= 4
    BY <2>2, Constants
  <2>4. TypedStub'
    BY <1>9, <2>2, <2>3 DEF StartFrame, TypedStub
  <2> QED
    BY <1>3, <1>9, <2>1, <2>4 DEF StartFrame
<1>10. CASE FrameByte
  <2>1. TypedLine'
    BY <1>4, <1>10 DEF FrameByte, TypedLine
  <2>2. rx # <<>> /\ frame' = Append(frame, Head(rx)) /\ spc = "frame"
    BY <1>10 DEF FrameByte
  <2>3. /\ frame' \in Seq(Byte) /\ Len(frame') = Len(frame) + 1
        /\ \A i \in 1 .. Len(frame) : frame'[i] = frame[i]
        /\ Len(frame) \in Nat
    BY <1>2, <1>4, <2>2
  <2>4. /\ Len(frame) <= 3
        \/ (/\ Len(frame) >= 4 /\ DataLen' = DataLen /\ DataLen \in Nat
            /\ DataLen <= CmdBuf /\ Len(frame) + 1 <= 5 + DataLen)
    <3>1. CASE Len(frame) <= 3
      BY <3>1
    <3>2. CASE Len(frame) >= 4
      <4>1. 3 \in 1 .. Len(frame) /\ 4 \in 1 .. Len(frame)
        BY <2>3, <3>2
      <4>2. frame'[3] = frame[3] /\ frame'[4] = frame[4]
        BY <2>3, <4>1
      <4>3. DataLen' = DataLen
        BY <4>2 DEF DataLen
      <4>4. DataLen \in Nat
        BY <3>2, FrameTyped
      <4>5. ~TooLong /\ ~Complete
        BY <1>10 DEF FrameByte
      <4>6. Len(frame) <= 4 \/ (DataLen <= CmdBuf /\ Len(frame) <= 5 + DataLen)
        BY <2>2 DEF TypedStub
      <4>7. CASE Len(frame) = 4
        BY <2>3, <3>2, <4>3, <4>4, <4>5, <4>7, Constants DEF TooLong
      <4>8. CASE Len(frame) # 4
        <5>1. Len(frame) > 4
          <6>1. Len(frame) \in Nat
            BY <2>3
          <6>2. \A n \in Nat : n >= 4 /\ n # 4 => n > 4
            OBVIOUS
          <6> QED
            BY <3>2, <4>8, <6>1, <6>2
        <5>2. Len(frame) # 5 + DataLen
          BY <4>5, <5>1 DEF Complete
        <5>3. DataLen <= CmdBuf /\ Len(frame) <= 5 + DataLen
          BY <2>3, <4>6, <5>1
        <5> QED
          BY <2>3, <4>3, <4>4, <5>1, <5>2, <5>3
      <4> QED
        BY <4>7, <4>8
    <3> QED
      BY <2>3, <3>1, <3>2
  <2>5. Len(frame') <= 4 \/ (DataLen' <= CmdBuf /\ Len(frame') <= 5 + DataLen')
    BY <2>3, <2>4
  <2>6. Len(frame') <= 5 + CmdBuf
    BY <2>3, <2>4, Constants
  <2>7. TypedStub'
    BY <1>10, <2>3, <2>5, <2>6 DEF FrameByte, TypedStub
  <2> QED
    BY <1>3, <1>10, <2>1, <2>7 DEF FrameByte
<1>11. BackToMain => frame' \in Seq(Byte) /\ Len(frame') = 0 /\ spc' = "main"
  BY DEF BackToMain
<1>12. BackToMain /\ UNCHANGED <<prompts, toBoot, rate, executed>> => TypedStub'
  BY <1>11, Constants DEF TypedStub
<1>13. CASE FrameCut
  BY <1>3, <1>12, <1>13 DEF FrameCut, TypedLine
<1>14. \A status \in 0 .. 5 : Refuse(status) /\ Len(frame) > 1 => Typed'
  <2> TAKE status \in 0 .. 5
  <2> HAVE Refuse(status) /\ Len(frame) > 1
  <2>1. tx' \in Seq(Byte)
    BY RefusalTyped DEF Refuse
  <2> QED
    BY <1>2, <1>3, <1>12, <2>1 DEF Refuse, TypedLine
<1>15. TooLong \/ Complete => Len(frame) > 1
  <2>1. TooLong => Len(frame) > 1
    BY DEF TooLong
  <2>2. Complete => Len(frame) > 1
    BY FrameTyped
  <2> QED
    BY <2>1, <2>2
<1>16. CASE RefuseTooLong \/ RefuseDamaged \/ RefuseLength \/ RefuseType
  BY <1>14, <1>15, <1>16 DEF RefuseTooLong, RefuseDamaged, RefuseLength,
     RefuseType, Valid, LEN_ERROR, CRC_ERROR, TYPE_ERROR
<1>17. Complete /\ Execute => executed' \in Seq(Commands)
  BY FrameTyped DEF Execute, TypedStub
<1>18. CASE Sync
  <2>1. Complete /\ Execute /\ Reply(<<>>, SUCCESS) /\ BackToMain
    BY <1>18 DEF Sync, Valid
  <2>2. tx' \in Seq(Byte)
    BY <1>15, <2>1, RefusalTyped DEF SUCCESS
  <2>3. TypedStub'
    BY <1>11, <1>17, <1>18, <2>1, Constants DEF Sync, TypedStub
  <2> QED
    BY <1>2, <1>3, <1>18, <2>2, <2>3 DEF Sync, TypedLine
<1>19. CASE AcceptRate
  <2>1. Complete /\ Execute /\ Reply(<<>>, SUCCESS) /\ Data \in Supported
    BY <1>19 DEF AcceptRate, Valid
  <2>2. tx' \in Seq(Byte)
    BY <1>15, <2>1, RefusalTyped DEF SUCCESS
  <2>3. Complete' /\ Data' = Data
    BY <1>19, <2>1 DEF AcceptRate, Complete, DataLen, Data
  <2>4. TypedStub'
    BY <1>17, <1>19, <2>1, <2>3 DEF AcceptRate, TypedStub
  <2> QED
    BY <1>2, <1>3, <1>19, <2>2, <2>4 DEF AcceptRate, TypedLine
<1>20. CASE SetRate
  <2>1. TypedStub'
    BY <1>11, <1>20, Constants DEF SetRate, TypedStub
  <2> QED
    BY <1>2, <1>3, <1>20, <2>1 DEF SetRate, TypedLine
<1>21. CASE StartWork
  <2>1. Complete /\ Execute
    BY <1>21 DEF StartWork, Valid
  <2>2. Complete'
    BY <1>21, <2>1 DEF StartWork, Complete, DataLen
  <2>3. TypedStub'
    BY <1>17, <1>21, <2>1, <2>2 DEF StartWork, TypedStub
  <2> QED
    BY <1>2, <1>3, <1>21, <2>3 DEF StartWork, TypedLine
<1>22. CASE FinishWork
  <2>1. Complete /\ Len(frame) > 1
    BY <1>15, <1>22 DEF FinishWork, TypedStub
  <2>2. /\ <<>> \in Seq(Byte) /\ Len(<<>>) <= 255
        /\ <<0, 0, 0, 0>> \in Seq(Byte) /\ Len(<<0, 0, 0, 0>>) <= 255
        /\ <<0, 0, 0, 0, 0, 0>> \in Seq(Byte) /\ Len(<<0, 0, 0, 0, 0, 0>>) <= 255
        /\ SUCCESS \in Byte /\ ERROR \in 0 .. 5
    BY Bytes DEF SUCCESS, ERROR
  <2>3. tx' \in Seq(Byte)
    <3>1. CASE Reply(<<>>, ERROR)
      BY <2>1, <2>2, <3>1, RefusalTyped
    <3>2. CASE \E data \in {<<>>, <<0, 0, 0, 0>>, <<0, 0, 0, 0, 0, 0>>} :
                 Reply(data, SUCCESS)
      BY <2>1, <2>2, <3>2, ReplyTyped
    <3> QED
      BY <1>22, <3>1, <3>2 DEF FinishWork
  <2>4. faults' \in 0 .. MaxFaults
    <3>1. faults \in 0 .. MaxFaults
      BY DEF TypedLine
    <3>2. UNCHANGED faults \/ (faults < MaxFaults /\ faults' = faults + 1)
      BY <1>22 DEF FinishWork, Link!Fault
    <3> QED
      BY <3>1, <3>2, Constants
  <2>5. TypedLine' /\ TypedStub'
    BY <1>2, <1>12, <1>22, <2>3, <2>4 DEF FinishWork, TypedLine
  <2> QED
    BY <1>3, <1>22, <2>5 DEF FinishWork
<1> QED
  BY <1>6, <1>7, <1>8, <1>9, <1>10, <1>13, <1>16, <1>18, <1>19, <1>20, <1>21,
     <1>22 DEF StubWork

(* ... nor does a step of the probe, ... *)
LEMMA HostTyped ==
  ASSUME Typed, HostWork
  PROVE  Typed'
<1> USE DEF Typed
<1>1. TypedStub /\ TypedHost /\ TypedLine
  OBVIOUS
<1>2. /\ Prompt \in Byte /\ rx \in Seq(Byte) /\ tx \in Seq(Byte) /\ got \in Seq(Byte)
      /\ asked \in Seq(Commands) /\ answered \in Seq(Commands)
  <2>1. Prompt \in Byte
    BY Bytes DEF Prompt
  <2> QED
    BY <2>1 DEF TypedLine, TypedHost
<1>3. UNCHANGED stub => TypedStub'
  BY TypesStay
<1>4. tx # <<>> => Tail(tx) \in Seq(Byte) /\ Head(tx) \in Byte
  BY <1>2
<1>5. step \in 1 .. Len(Script) + 1 /\ Len(Script) \in Nat
  BY Constants DEF TypedHost
<1>6. CASE CountPrompt
  <2>1. got' \in Seq(Byte)
    BY <1>2, <1>6 DEF CountPrompt
  <2>2. TypedHost'
    BY <1>6, <2>1 DEF CountPrompt, TypedHost, Waiting
  <2>3. TypedLine'
    BY <1>4, <1>6 DEF CountPrompt, TypedLine
  <2> QED
    BY <1>3, <1>6, <2>2, <2>3 DEF CountPrompt
<1>7. CASE Prompted
  <2>1. TypedHost'
    BY <1>7 DEF Prompted, TypedHost, Waiting
  <2> QED
    BY <1>3, <1>7, <2>1 DEF Prompted, TypedLine
<1>8. CASE SendCommand
  <2>1. step <= Len(Script) /\ UNCHANGED <<step, hostRate, restarts, answered>>
    BY <1>8 DEF SendCommand
  <2> DEFINE c == <<Command.type, Command.data>>
  <2>2. c \in Commands /\ Len(c[2]) <= 255
    BY <2>1, CommandTyped
  <2>3. asked' = Append(asked, c) /\ got' = <<>> /\ hpc' \in {"reply", "confirm"}
    BY <1>8 DEF SendCommand
  <2>4. TypedHost'
    <3> HIDE DEF c
    <3>1. /\ asked' \in Seq(Commands)
          /\ \A i \in 1 .. Len(asked') : Len(asked'[i][2]) <= 255
      <4>1. /\ asked' \in Seq(Commands) /\ Len(asked') = Len(asked) + 1
            /\ \A i \in 1 .. Len(asked) : asked'[i] = asked[i]
            /\ asked'[Len(asked) + 1] = c /\ Len(asked) \in Nat
        BY <1>2, <2>2, <2>3
      <4>2. \A i \in 1 .. Len(asked) + 1 : i \in 1 .. Len(asked) \/ i = Len(asked) + 1
        BY <4>1
      <4> QED
        BY <2>2, <4>1, <4>2 DEF TypedHost
    <3>2. got' \in Seq(Byte) /\ ~(Len(got') > 4)
      BY <2>3
    <3> QED
      BY <2>1, <2>3, <3>1, <3>2 DEF TypedHost
  <2>5. tx' \in Seq(Byte)
    <3>1. PICK n \in 0 .. Len(tx) : tx' = SubSeq(tx, n + 1, Len(tx))
      BY <1>8 DEF SendCommand
    <3>2. n \in Nat
      BY <3>1
    <3> QED
      BY ONLY <1>2, <3>1, <3>2, Cut
  <2>6. rx' \in Seq(Byte)
    <3>1. Framed(c) \in Seq(Byte)
      <4> HIDE DEF c
      <4> QED
        BY <2>2, FramedParts
    <3>2. PICK heard \in Heard(Framed(c)) : rx' = rx \o heard
      <4>1. Framed(c) = WithSum(<<MAGIC, Command.type, Len(Command.data), 0>>
                                \o Command.data)
        BY DEF Framed
      <4> QED
        BY <1>8, <4>1 DEF SendCommand
    <3> HIDE DEF c
    <3>3. heard \in Seq(Byte)
      BY <3>1, <3>2, HeardTyped
    <3> QED
      BY <1>2, <3>2, <3>3
  <2>7. TypedLine'
    BY <1>8, <2>5, <2>6 DEF SendCommand, TypedLine
  <2> QED
    BY <1>3, <1>8, <2>4, <2>7 DEF SendCommand
<1>9. CASE TakeReplyByte
  <2>1. /\ tx # <<>> /\ got' = Append(got, Head(tx)) /\ ~BadHeader
        /\ UNCHANGED <<hpc, step, hostRate, restarts, asked, answered>>
    BY <1>9 DEF TakeReplyByte
  <2>2. /\ got' \in Seq(Byte) /\ Len(got') = Len(got) + 1 /\ Len(got) \in Nat
        /\ \A i \in 1 .. Len(got) : got'[i] = got[i]
    BY <1>2, <1>4, <2>1
  <2>3. ASSUME Waiting', Len(got') > 4
        PROVE  got'[1] = ACK_MAGIC /\ got'[2] = Command'.type
    <3>1. Waiting /\ Command' = Command
      BY <2>1, <2>3 DEF Waiting, Command
    <3>2. 1 \in 1 .. Len(got) /\ 2 \in 1 .. Len(got)
      BY <2>2, <2>3
    <3>3. got[1] = ACK_MAGIC /\ got[2] = Command.type
      <4>1. CASE Len(got) = 4
        BY <2>1, <4>1 DEF BadHeader
      <4>2. CASE Len(got) # 4
        <5>1. Len(got) > 4
          <6>1. \A n \in Nat : n + 1 > 4 /\ n # 4 => n > 4
            OBVIOUS
          <6>2. Len(got) \in Nat /\ Len(got) + 1 > 4
            BY <2>2, <2>3
          <6> QED
            BY ONLY <4>2, <6>1, <6>2
        <5> QED
          BY <3>1, <5>1 DEF TypedHost
      <4> QED
        BY <4>1, <4>2
    <3> QED
      BY <2>2, <3>1, <3>2, <3>3
  <2>4. TypedHost'
    BY <2>1, <2>2, <2>3 DEF TypedHost
  <2>5. TypedLine'
    BY <1>4, <1>9 DEF TakeReplyByte, TypedLine
  <2> QED
    BY <1>3, <1>9, <2>4, <2>5 DEF TakeReplyByte
<1>10. CASE RefuseReply \/ ReplyTimeout
  <2>1. TypedHost'
    BY <1>10 DEF RefuseReply, ReplyTimeout, TypedHost, Waiting
  <2>2. faults \in 0 .. MaxFaults
    BY DEF TypedLine
  <2>3. UNCHANGED faults \/ (faults < MaxFaults /\ faults' = faults + 1)
    BY <1>10 DEF RefuseReply, ReplyTimeout, Link!Fault
  <2>4. faults' \in 0 .. MaxFaults
    BY <2>2, <2>3, Constants
  <2>5. TypedLine' /\ TypedStub'
    BY <1>2, <1>3, <1>10, <2>4 DEF RefuseReply, ReplyTimeout, TypedLine
  <2> QED
    BY <2>1, <2>5
<1>11. Waiting => step <= Len(Script)
  BY DEF Waiting, TypedHost
<1>12. Waiting /\ Record => answered' \in Seq(Commands)
  BY <1>2, <1>11, CommandTyped DEF Record
<1>13. CASE AcceptReply
  <2>1. /\ Waiting /\ Record /\ step' = step + 1
        /\ hpc' = IF step = Len(Script) THEN "ok" ELSE "next"
        /\ UNCHANGED <<got, hostRate, restarts, asked, stub, rx, tx, faults>>
    BY <1>13 DEF AcceptReply
  <2>2. step' \in 1 .. Len(Script) + 1 /\ (hpc' = "next" => step' <= Len(Script))
    BY <1>5, <1>11, <2>1
  <2>3. ~Waiting' /\ hpc' \in {"ok", "next"}
    BY <2>1 DEF Waiting
  <2>4. TypedHost'
    BY <1>12, <2>1, <2>2, <2>3 DEF TypedHost
  <2> QED
    BY <1>2, <1>3, <2>1, <2>4 DEF TypedLine
<1>14. CASE FollowRate
  <2>1. /\ Waiting /\ Record /\ hostRate' = Command.data /\ hpc' = "settle"
        /\ UNCHANGED <<step, got, restarts, asked, stub, rx, tx, faults>>
    BY <1>14 DEF FollowRate
  <2>2. hostRate' \in Seq(Byte)
    BY <1>11, <2>1, CommandTyped
  <2>3. ~Waiting'
    BY <2>1 DEF Waiting
  <2>4. TypedHost'
    BY <1>11, <1>12, <2>1, <2>2, <2>3 DEF TypedHost
  <2> QED
    BY <1>2, <1>3, <2>1, <2>4 DEF TypedLine
<1>15. CASE Restart
  <2>1. /\ restarts < MaxRestarts /\ restarts' = restarts + 1 /\ hpc' = "next"
        /\ step' = 1 /\ got' = <<>> /\ hostRate' = FirstRate /\ tx' = <<>>
        /\ UNCHANGED <<asked, answered, stub, rx, faults>>
    BY <1>15 DEF Restart
  <2>2. restarts' \in 0 .. MaxRestarts
    BY <2>1, Constants DEF TypedHost
  <2>3. ~Waiting'
    BY <2>1 DEF Waiting
  <2>4. step' \in 1 .. Len(Script) + 1 /\ step' <= Len(Script)
    BY <2>1, Constants
  <2>5. got' \in Seq(Byte) /\ tx' \in Seq(Byte) /\ hostRate' \in Seq(Byte)
    BY <2>1, Constants
  <2>6. TypedHost'
    BY <2>1, <2>2, <2>3, <2>4, <2>5 DEF TypedHost
  <2> QED
    BY <1>2, <1>3, <2>1, <2>5, <2>6 DEF TypedLine
<1> QED
  BY <1>6, <1>7, <1>8, <1>9, <1>10, <1>13, <1>14, <1>15 DEF HostWork

(* ... nor what goes wrong on the line. *)
LEMMA LineTyped ==
  ASSUME Typed, Line
  PROVE  Typed'
<1>1. TypedStub' /\ TypedHost'
  BY TypesStay DEF Line, Typed
<1>2. rx \in Seq(Byte) /\ tx \in Seq(Byte) /\ faults \in 0 .. MaxFaults
  BY DEF Typed, TypedLine
<1>3. UNCHANGED faults \/ (faults < MaxFaults /\ faults' = faults + 1)
  BY DEF Line, Link!Fault, Link!LoseByte, Link!LoseReply, Link!Overrun
<1>4. faults' \in 0 .. MaxFaults
  BY <1>2, <1>3, Constants
<1>5. ASSUME NEW line \in Seq(Byte), line # <<>>
      PROVE  /\ Tail(line) \in Seq(Byte)
             /\ \A b \in Garbled : [line EXCEPT ![1] = b] \in Seq(Byte)
  <2>1. ASSUME NEW b \in Garbled PROVE [line EXCEPT ![1] = b] \in Seq(Byte)
    <3>1. b \in Byte
      BY Constants
    <3> QED
      BY <1>5, <3>1
  <2> QED
    BY <1>5, <2>1
<1>6. ASSUME Link!Overrun PROVE rx' \in Seq(Byte) /\ UNCHANGED tx
  <2> DEFINE n == FifoDepth
  <2>1. n \in Nat /\ Len(rx) > n
    BY <1>6, Constants DEF Link!Overrun
  <2>2. rx' = SubSeq(rx, 1, n) \o SubSeq(rx, n + 2, Len(rx)) /\ UNCHANGED tx
    BY <1>6 DEF Link!Overrun
  <2> HIDE DEF n
  <2>3. SubSeq(rx, 1, n) \in Seq(Byte)
    BY <1>2, <2>1
  <2>4. SubSeq(rx, n + 2, Len(rx)) \in Seq(Byte)
    BY <1>2, <2>1
  <2> QED
    BY <2>2, <2>3, <2>4
<1>7. \/ rx # <<>> /\ rx' = Tail(rx) /\ UNCHANGED tx
      \/ tx # <<>> /\ tx' = Tail(tx) /\ UNCHANGED rx
      \/ Link!Overrun
      \/ rx # <<>> /\ (\E b \in Garbled : rx' = [rx EXCEPT ![1] = b]) /\ UNCHANGED tx
      \/ tx # <<>> /\ (\E b \in Garbled : tx' = [tx EXCEPT ![1] = b]) /\ UNCHANGED rx
  BY DEF Line, Link!LoseByte, Link!LoseReply, Damage
<1>8. rx' \in Seq(Byte) /\ tx' \in Seq(Byte)
  BY <1>2, <1>5, <1>6, <1>7
<1> QED
  BY <1>1, <1>4, <1>8 DEF Typed, TypedLine

(* A step that changes nothing changes no type. *)
LEMMA TypedStep == Typed /\ [Next]_vars => Typed'
<1> SUFFICES ASSUME Typed, [Next]_vars PROVE Typed'
  OBVIOUS
<1>1. CASE UNCHANGED vars
  BY <1>1, TypesStay DEF Typed, TypedLine, vars
<1>2. CASE Next
  BY <1>2, StubTyped, HostTyped, LineTyped DEF Next
<1> QED
  BY <1>1, <1>2

(* Whatever the line does, both sides keep to their states: the stub never *)
(* has more of a frame than its buffer holds, and never a rate that it     *)
(* does not support.                                                       *)
THEOREM TypeCorrect == Spec => []TypeOK
<1>1. Typed => TypeOK
  BY DEF Typed, TypedStub, TypedHost, TypedLine, TypeOK, Byte
<1> QED
  BY <1>1, TypedInit, TypedStep, PTL DEF Spec

-----------------------------------------------------------------------------
(* Taking turns.  On a clear line a command is on its way to the stub, or  *)
(* in its hands, or its reply is on the way back; otherwise the line to    *)
(* the stub is empty, but for garbage that no frame can begin with.        *)

(* The command that was sent last, and what came before the last.          *)
Last == asked[Len(asked)]
Earlier(s) == SubSeq(s, 1, Len(s) - 1)

Histories == Within(executed, asked) /\ Within(answered, executed)

(* The stub has read a part of the frame, and the rest is in the line. *)
Hearing ==
  /\ asked # <<>> /\ spc \in {"boot", "main", "frame"}
  /\ spc = "frame" <=> frame # <<>>
  /\ frame \o rx = Framed(Last)
  /\ Within(executed, Earlier(asked)) /\ Within(answered, executed)

(* The stub waits for a frame, and none is coming. *)
Quiet ==
  /\ spc \in {"boot", "main"} /\ frame = <<>> /\ rx \in Seq(Byte \ {MAGIC})
  /\ Histories

(* The stub has executed the command and no other since. *)
Done ==
  /\ executed # <<>> /\ executed[Len(executed)] = Last
  /\ Within(executed, asked) /\ Within(answered, Earlier(executed))

(* It works on the command, ... *)
Working ==
  /\ spc = "work" /\ asked # <<>> /\ frame = Framed(Last) /\ rx = <<>>
  /\ Last[1] \in Busy /\ Done

(* ... or is about to change its rate, having replied. *)
Switching ==
  /\ spc = "switch" /\ asked # <<>> /\ frame = Framed(Last) /\ rx = <<>>
  /\ Last[1] = BAUD_CHANGE /\ Last[2] \in Supported /\ Histories

Zeros(type) ==
  CASE type \in {FLASH_ID, FLASH_CRC32} -> <<0, 0, 0, 0>>
    [] type = GET_MAC -> <<0, 0, 0, 0, 0, 0>>
    [] OTHER -> <<>>

(* The reply to the last command. *)
ReplyTo(status) ==
  Answer(Last[1], IF status = SUCCESS THEN Zeros(Last[1]) ELSE <<>>, status)

(* The probe has the part g of a reply r, and t is underway to it: what is *)
(* left of r behind m prompts, d bytes having been lost.                   *)
Trails(t, g, r, m, d) ==
  /\ m > 0 => g = <<>>
  /\ Len(t) + Len(g) + d = m + Len(r)
  /\ \A i \in 1 .. m : t[i] = Prompt
  /\ \A i \in m + 1 .. Len(t) : t[i] = r[Len(g) + d + i - m]
  /\ \A i \in 1 .. Len(g) : \E j \in i .. i + d : g[i] = r[j]

Underway(t, g, r) == \E m \in 0 .. Len(t), d \in 0 .. Len(r) : Trails(t, g, r, m, d)

(* The probe has already read something else than a reply. *)
Doomed == got # <<>> /\ got[1] # ACK_MAGIC

(* The stub has replied, and done or not done what the reply says. *)
Result(status) ==
  /\ \/ Quiet /\ rx = <<>> /\ spc = "main"
     \/ Switching /\ status = SUCCESS
  /\ status = SUCCESS =>
       /\ Done
       /\ Last[1] = BAUD_CHANGE => Switching \/ rate = Last[2]
  /\ Last[1] # BAUD_CHANGE \/ status # SUCCESS => rate = hostRate

Statuses == {SUCCESS, ERROR, TYPE_ERROR, LEN_ERROR}

Answered ==
  /\ ~prompts
  /\ \E status \in Statuses :
       Result(status) /\ (Doomed \/ Underway(tx, got, ReplyTo(status)))

(* The stub has not replied, or does not understand a word.  Only prompts  *)
(* can be underway, and only to a probe that has just begun.               *)
Unanswered ==
  /\ \/ (Hearing \/ Working) /\ hostRate = rate
     \/ Quiet /\ hostRate # rate
  /\ got \in Seq({Prompt}) /\ tx \in Seq({Prompt})
  /\ got # <<>> \/ tx # <<>> => step = 1 /\ hpc = "reply"

InExchange ==
  /\ asked # <<>> /\ Last = <<Command.type, Command.data>>
  /\ Unanswered \/ Answered

(* The probe may send. *)
Ready ==
  /\ rx = <<>> /\ tx \in Seq({Prompt})
  /\ tx # <<>> => step = 1 /\ hpc \in {"upload", "next"}
  /\ \/ Quiet /\ (hpc = "settle" \/ step > 1 \/ restarts = 0 => hostRate = rate)
     \/ Switching /\ hpc = "settle" /\ hostRate = Last[2]

InTurn ==
  /\ prompts \/ spc = "boot" =>
       step = 1 /\ frame = <<>> /\ hpc \in {"upload", "next", "reply", "failed"}
  /\ hpc \in {"upload", "next", "settle", "ok"} => Ready
  /\ Waiting => InExchange
  /\ hpc = "failed" => Quiet \/ Switching \/ (Hearing /\ Last[1] = SYNC)

IInv == Typed /\ (Clear => InTurn)

(* The last of a sequence, and what comes before. *)
LEMMA LastOf ==
  ASSUME NEW S, NEW s \in Seq(S), s # <<>>
  PROVE  /\ Earlier(s) \in Seq(S) /\ s[Len(s)] \in S /\ Len(s) \in Nat \ {0}
         /\ s = Append(Earlier(s), s[Len(s)])
<1> DEFINE n == Len(s) - 1  front == SubSeq(s, 1, n)
<1>1. n \in Nat /\ Len(s) = n + 1 /\ Len(s) \in 1 .. Len(s)
  OBVIOUS
<1>2. s[Len(s)] \in S
  BY <1>1
<1> HIDE DEF n
<1>3. front \in Seq(S) /\ Len(front) = n /\ \A i \in 1 .. n : front[i] = s[i]
  BY <1>1
<1> HIDE DEF front
<1> DEFINE whole == Append(front, s[Len(s)])
<1>4. /\ whole \in Seq(S) /\ Len(whole) = n + 1 /\ whole[n + 1] = s[n + 1]
      /\ \A i \in 1 .. n : whole[i] = s[i]
  BY <1>1, <1>2, <1>3, Appended
<1> HIDE DEF whole
<1>5. \A i \in 1 .. Len(s) : s[i] = whole[i]
  BY <1>1, <1>4
<1>6. s = whole
  BY <1>1, <1>4, <1>5, SameSequence
<1> QED
  BY <1>1, <1>2, <1>3, <1>6 DEF Earlier, front, n, whole

(* What has been appended is the last, and the rest comes before it. *)
LEMMA LastAppended ==
  ASSUME NEW S, NEW s \in Seq(S), NEW x \in S, NEW t, t = Append(s, x)
  PROVE  t # <<>> /\ t[Len(t)] = x /\ Earlier(t) = s
<1>1. t \in Seq(S) /\ Len(t) = Len(s) + 1 /\ t[Len(s) + 1] = x /\ Len(s) \in Nat
  OBVIOUS
<1>2. SubSeq(t, 1, Len(s)) = s
  <2>1. t = s \o <<x>> /\ <<x>> \in Seq(S)
    OBVIOUS
  <2> QED
    BY <2>1, Parted
<1>3. Len(t) - 1 = Len(s)
  BY <1>1
<1>4. t # <<>>
  BY <1>1
<1> QED
  BY <1>1, <1>2, <1>3, <1>4 DEF Earlier

(* The last command has its types. *)
LEMMA LastTyped ==
  ASSUME Typed, asked # <<>>
  PROVE  /\ Last \in Commands /\ Len(Last[2]) <= 255 /\ Last = <<Last[1], Last[2]>>
         /\ Last[1] \in Byte /\ Last[2] \in Seq(Byte)
<1>1. asked \in Seq(Commands) /\ \A i \in 1 .. Len(asked) : Len(asked[i][2]) <= 255
  BY DEF Typed, TypedHost
<1>2. Len(asked) \in 1 .. Len(asked)
  BY <1>1
<1>3. Last \in Commands /\ Len(Last[2]) <= 255
  BY <1>1, <1>2 DEF Last
<1> QED
  BY <1>3 DEF Commands

(* What a command has become in the stub. *)
LEMMA Parsed ==
  ASSUME Typed, asked # <<>>, frame = Framed(Last)
  PROVE  /\ Complete /\ ~TooLong /\ SumFits
         /\ Type = Last[1] /\ Data = Last[2] /\ DataLen = Len(Last[2])
<1> DEFINE n == Len(Last[2])
<1>1. Last \in Commands /\ Len(Last[2]) <= 255
  BY LastTyped
<1>2. /\ n \in Nat /\ n <= 255 /\ Len(frame) = 5 + n
      /\ frame[2] = Last[1] /\ frame[3] = n /\ frame[4] = 0
      /\ frame = WithSum(SubSeq(frame, 1, Len(frame) - 1))
      /\ SubSeq(frame, 5, 4 + n) = Last[2]
  BY <1>1, FramedParts
<1> HIDE DEF n
<1>3. DataLen = n
  BY <1>2 DEF DataLen
<1>4. Complete /\ ~TooLong
  BY <1>2, <1>3 DEF Complete, TooLong
<1> QED
  BY <1>2, <1>3, <1>4 DEF SumFits, Type, Data, n

(* What the stub finds, once it has begun to read a frame. *)
LEMMA FrameRead ==
  ASSUME Typed, Hearing, frame # <<>>
  PROVE  /\ ~TooLong /\ (rx = <<>> => Complete)
         /\ Complete => /\ frame = Framed(Last) /\ rx = <<>> /\ SumFits
                        /\ Type = Last[1] /\ Data = Last[2]
<1> DEFINE f == Framed(Last)  n == Len(Last[2])
<1>1. /\ Last \in Commands /\ Len(Last[2]) <= 255 /\ asked # <<>>
      /\ frame \in Seq(Byte) /\ rx \in Seq(Byte) /\ frame \o rx = f
  BY LastTyped DEF Typed, TypedStub, TypedLine, Hearing
<1>2. n \in Nat /\ n <= 255 /\ f \in Seq(Byte) /\ Len(f) = 5 + n /\ f[3] = n /\ f[4] = 0
  BY <1>1, FramedParts
<1> HIDE DEF f, n
<1>3. /\ Len(frame) \in Nat /\ Len(rx) \in Nat /\ 5 + n = Len(frame) + Len(rx)
      /\ \A i \in 1 .. Len(frame) : f[i] = frame[i]
  BY <1>1, <1>2, Concatenation
<1>4. Len(frame) >= 4 => DataLen = n
  <2> SUFFICES ASSUME Len(frame) >= 4 PROVE DataLen = n
    OBVIOUS
  <2>1. 3 \in 1 .. Len(frame) /\ 4 \in 1 .. Len(frame)
    BY <1>3
  <2>2. frame[3] = n /\ frame[4] = 0
    BY <1>2, <1>3, <2>1
  <2> QED
    BY <1>2, <2>2 DEF DataLen
<1>5. ~TooLong
  <2>1. TooLong => Len(frame) = 4 /\ DataLen > CmdBuf
    BY DEF TooLong
  <2>2. CmdBuf \in Nat /\ CmdBuf >= 255
    BY Constants
  <2>3. ~(n > CmdBuf)
    BY <1>2, <2>2
  <2> QED
    BY <1>4, <2>1, <2>3
<1>6. rx = <<>> => Complete
  <2> SUFFICES ASSUME rx = <<>> PROVE Complete
    OBVIOUS
  <2>1. Len(rx) = 0
    OBVIOUS
  <2>2. Len(frame) = 5 + n
    BY <1>3, <2>1
  <2> QED
    BY <1>2, <1>4, <2>2 DEF Complete
<1>7. ASSUME Complete PROVE frame = f /\ rx = <<>>
  <2>1. Len(frame) = 5 + n /\ DataLen = n
    BY <1>3, <1>4, <1>7 DEF Complete
  <2>2. rx = <<>>
    BY <1>1, <1>3, <2>1
  <2> QED
    BY <1>1, <2>2, NothingAdded
<1> QED
  BY <1>1, <1>5, <1>6, <1>7, Parsed DEF f

(* What the steps of the probe and of the line leave as it is. *)
LEMMA StationsStay ==
  ASSUME UNCHANGED <<spc, frame, rx, executed, asked, answered>>
  PROVE  /\ Last' = Last /\ (Histories' <=> Histories) /\ (Hearing' <=> Hearing)
         /\ Quiet' <=> Quiet
         /\ (Done' <=> Done) /\ (Working' <=> Working) /\ (Switching' <=> Switching)
<1>1. Last' = Last
  BY DEF Last
<1>2. Earlier(asked)' = Earlier(asked) /\ Earlier(executed)' = Earlier(executed)
  BY DEF Earlier
<1>3. Histories' <=> Histories
  BY DEF Histories
<1>4. Hearing' <=> Hearing
  BY <1>1, <1>2 DEF Hearing
<1>5. Quiet' <=> Quiet
  BY <1>3 DEF Quiet
<1>6. Done' <=> Done
  BY <1>1, <1>2 DEF Done
<1>7. (Working' <=> Working) /\ (Switching' <=> Switching)
  BY <1>1, <1>3, <1>6 DEF Working, Switching
<1> QED
  BY <1>1, <1>3, <1>4, <1>5, <1>6, <1>7

(* The result stays, too, if no rate changes. *)
LEMMA ResultStays ==
  ASSUME UNCHANGED <<spc, frame, rx, executed, asked, answered, rate, hostRate>>,
         NEW status, Result(status)
  PROVE  Result(status)'
<1>1. /\ Last' = Last /\ (Quiet' <=> Quiet) /\ (Done' <=> Done)
      /\ Switching' <=> Switching
  BY StationsStay
<1> QED
  BY <1>1 DEF Result

(* Nothing goes wrong but the loss of a reply or the work on a command. *)
OnlyHarmless ==
  \/ faults' = faults
  \/ FaultKinds \cap {"lost byte", "damaged byte", "damaged reply", "slow work"} = {}

(* A clear line has been clear before. *)
LEMMA ClearBefore ==
  ASSUME Typed, [Next]_vars, Clear'
  PROVE  Clear /\ OnlyHarmless
<1>1. faults \in Nat /\ restarts \in Nat
  BY Constants DEF Typed, TypedLine, TypedHost
<1>2. UNCHANGED faults \/ faults' = faults + 1
  BY DEF Next, StubWork, BootPrompt, IdlePrompt, DropByte, StartFrame, FrameByte,
         FrameCut, RefuseTooLong, RefuseDamaged, RefuseLength, RefuseType, Refuse,
         Sync, AcceptRate, SetRate, StartWork, FinishWork, HostWork, CountPrompt,
         Prompted, SendCommand, TakeReplyByte, RefuseReply, AcceptReply, FollowRate,
         ReplyTimeout, Restart, Line, vars, Link!Fault, Link!LoseByte,
         Link!LoseReply, Link!Overrun
<1>3. UNCHANGED restarts \/ restarts' = restarts + 1
  BY DEF Next, StubWork, BootPrompt, IdlePrompt, DropByte, StartFrame, FrameByte,
         FrameCut, RefuseTooLong, RefuseDamaged, RefuseLength, RefuseType, Refuse,
         Sync, AcceptRate, SetRate, StartWork, FinishWork, HostWork, CountPrompt,
         Prompted, SendCommand, TakeReplyByte, RefuseReply, AcceptReply, FollowRate,
         ReplyTimeout, Restart, Line, vars, host
<1>4. /\ faults' = 0 => faults = 0 /\ faults' = faults
      /\ restarts' = 0 => restarts = 0
  BY <1>1, <1>2, <1>3
<1> QED
  BY <1>4 DEF Clear, OnlyHarmless

-----------------------------------------------------------------------------
(* A reply on its way, whatever part of it is lost. *)

(* It follows the prompts that are on their way. *)
LEMMA UnderwayBegins ==
  ASSUME NEW t \in Seq({Prompt}), NEW r \in Seq(Byte)
  PROVE  Underway(t \o r, <<>>, r)
<1> DEFINE m == Len(t)  all == t \o r
<1>1. t \in Seq(Byte) /\ m \in Nat /\ Len(r) \in Nat /\ Len(<<>>) = 0
      /\ \A i \in 1 .. m : t[i] = Prompt
  BY Bytes DEF Prompt
<1>2. /\ all \in Seq(Byte) /\ Len(all) = m + Len(r)
      /\ \A i \in 1 .. m : all[i] = t[i]
      /\ \A i \in 1 .. Len(r) : all[m + i] = r[i]
  BY <1>1, Concatenation
<1> HIDE DEF all, m
<1>3. ASSUME NEW i \in m + 1 .. Len(all) PROVE all[i] = r[0 + 0 + i - m]
  <2>1. i - m \in 1 .. Len(r) /\ m + (i - m) = i /\ 0 + 0 + i - m = i - m
    BY <1>1, <1>2
  <2>2. all[m + (i - m)] = r[i - m]
    BY <1>2, <2>1
  <2> QED
    BY <2>1, <2>2
<1>4. Trails(all, <<>>, r, m, 0)
  BY <1>1, <1>2, <1>3 DEF Trails
<1>5. m \in 0 .. Len(all) /\ 0 \in 0 .. Len(r)
  BY <1>1, <1>2
<1> QED
  BY <1>4, <1>5 DEF Underway, all

(* It is still underway when a byte in front of it is lost, or one of its. *)
LEMMA UnderwayLoses ==
  ASSUME NEW t \in Seq(Byte), NEW g \in Seq(Byte), NEW r \in Seq(Byte),
         t # <<>>, Underway(t, g, r)
  PROVE  Underway(Tail(t), g, r)
<1> DEFINE l == Len(t)  u == Tail(t)  k == Len(g)  n == Len(r)
<1>1. PICK m \in 0 .. l, d \in 0 .. n : Trails(t, g, r, m, d)
  BY DEF Underway
<1>2. /\ u \in Seq(Byte) /\ l \in Nat \ {0} /\ Len(u) = l - 1
      /\ \A i \in 1 .. Len(u) : u[i] = t[i + 1]
      /\ k \in Nat /\ n \in Nat
  BY Shortened
<1>3. /\ m > 0 => g = <<>>
      /\ l + k + d = m + n
      /\ \A i \in 1 .. m : t[i] = Prompt
      /\ \A i \in m + 1 .. l : t[i] = r[k + d + i - m]
      /\ \A i \in 1 .. k : \E j \in i .. i + d : g[i] = r[j]
  BY <1>1 DEF Trails
<1> HIDE DEF l, u, k, n
<1>4. CASE m > 0
  <2> DEFINE p == m - 1
  <2>1. /\ p \in 0 .. Len(u) /\ m \in Nat /\ d \in Nat
        /\ Len(u) + k + d = p + n /\ p = m - 1
    BY <1>2, <1>3, <1>4
  <2> HIDE DEF p
  <2>2. ASSUME NEW i \in 1 .. p PROVE u[i] = Prompt
    <3>1. i \in 1 .. Len(u) /\ i + 1 \in 1 .. m
      BY <1>2, <2>1
    <3> QED
      BY <1>2, <1>3, <3>1
  <2>3. ASSUME NEW i \in p + 1 .. Len(u) PROVE u[i] = r[k + d + i - p]
    <3>1. /\ i \in 1 .. Len(u) /\ i + 1 \in m + 1 .. l
          /\ k + d + (i + 1) - m = k + d + i - p
      BY <1>2, <2>1
    <3>2. t[i + 1] = r[k + d + (i + 1) - m]
      BY <1>3, <3>1
    <3> QED
      BY <1>2, <3>1, <3>2
  <2>4. Trails(u, g, r, p, d)
    BY <1>3, <1>4, <2>1, <2>2, <2>3 DEF Trails, k, n
  <2> QED
    BY <1>1, <2>1, <2>4 DEF Underway, u, n
<1>5. CASE m = 0
  <2> DEFINE e == d + 1
  <2>1. /\ e \in 0 .. n /\ e \in Nat /\ d \in Nat /\ e = d + 1
        /\ Len(u) + k + e = 0 + n /\ 0 \in 0 .. Len(u)
    BY <1>2, <1>3, <1>5
  <2> HIDE DEF e
  <2>2. ASSUME NEW i \in 1 .. Len(u) PROVE u[i] = r[k + e + i - 0]
    <3>1. i + 1 \in m + 1 .. l /\ k + d + (i + 1) - m = k + e + i - 0
      BY <1>2, <1>5, <2>1
    <3>2. t[i + 1] = r[k + d + (i + 1) - m]
      BY <1>3, <3>1
    <3> QED
      BY <1>2, <3>1, <3>2
  <2>3. ASSUME NEW i \in 1 .. k PROVE \E j \in i .. i + e : g[i] = r[j]
    <3>1. PICK j \in i .. i + d : g[i] = r[j]
      BY <1>3
    <3>2. j \in i .. i + e
      BY <2>1, <3>1
    <3> QED
      BY <3>1, <3>2
  <2>4. /\ \A i \in 1 .. 0 : u[i] = Prompt
        /\ \A i \in 0 + 1 .. Len(u) : u[i] = r[k + e + i - 0]
    BY <2>2
  <2>5. Trails(u, g, r, 0, e)
    BY <2>1, <2>3, <2>4 DEF Trails, k, n
  <2> QED
    BY <2>1, <2>5 DEF Underway, u, n
<1>6. m > 0 \/ m = 0
  BY <1>2
<1> QED
  BY <1>4, <1>5, <1>6

(* A byte of it that is read was one of its, or the first was a prompt. *)
LEMMA UnderwayTaken ==
  ASSUME NEW t \in Seq(Byte), NEW g \in Seq(Byte), NEW r \in Seq(Byte),
         t # <<>>, Underway(t, g, r), g # <<>> \/ Head(t) # Prompt
  PROVE  Underway(Tail(t), Append(g, Head(t)), r)
<1> DEFINE l == Len(t)  u == Tail(t)  k == Len(g)  n == Len(r)
           h == Append(g, Head(t))
<1>1. PICK m \in 0 .. l, d \in 0 .. n : Trails(t, g, r, m, d)
  BY DEF Underway
<1>2. /\ u \in Seq(Byte) /\ l \in Nat \ {0} /\ Len(u) = l - 1
      /\ Head(t) = t[1] /\ Head(t) \in Byte
      /\ \A i \in 1 .. Len(u) : u[i] = t[i + 1]
  BY Shortened
<1>3. /\ h \in Seq(Byte) /\ Len(h) = k + 1
      /\ \A i \in 1 .. k : h[i] = g[i]
      /\ h[k + 1] = t[1]
  BY <1>2, Appended
<1>4. k \in Nat /\ n \in Nat
  OBVIOUS
<1>5. /\ m > 0 => g = <<>>
      /\ l + k + d = m + n
      /\ \A i \in 1 .. m : t[i] = Prompt
      /\ \A i \in m + 1 .. l : t[i] = r[k + d + i - m]
      /\ \A i \in 1 .. k : \E j \in i .. i + d : g[i] = r[j]
  BY <1>1 DEF Trails
<1> HIDE DEF l, u, k, n, h
<1>6. m = 0
  <2>1. m > 0 => 1 \in 1 .. m
    BY <1>2
  <2>2. ~(m > 0)
    BY <1>2, <1>5, <2>1
  <2> QED
    BY <1>2, <2>2
<1>7. /\ Len(u) + (k + 1) + d = 0 + n /\ 0 \in 0 .. Len(u) /\ d \in Nat
  BY <1>2, <1>4, <1>5, <1>6
<1>8. ASSUME NEW i \in 1 .. Len(u) PROVE u[i] = r[(k + 1) + d + i - 0]
  <2>1. i + 1 \in m + 1 .. l /\ k + d + (i + 1) - m = (k + 1) + d + i - 0
    BY <1>2, <1>4, <1>6, <1>7
  <2>2. t[i + 1] = r[k + d + (i + 1) - m]
    BY <1>5, <2>1
  <2> QED
    BY <1>2, <2>1, <2>2
<1>9. ASSUME NEW i \in 1 .. k + 1 PROVE \E j \in i .. i + d : h[i] = r[j]
  <2>1. CASE i = k + 1
    <3>1. 1 \in m + 1 .. l /\ k + d + 1 - m = i + d /\ i + d \in i .. i + d
      BY <1>2, <1>4, <1>6, <1>7, <2>1
    <3>2. t[1] = r[k + d + 1 - m]
      BY <1>5, <3>1
    <3> QED
      BY <1>3, <2>1, <3>1, <3>2
  <2>2. CASE i # k + 1
    <3>1. i \in 1 .. k
      BY <1>4, <2>2
    <3> QED
      BY <1>3, <1>5, <3>1
  <2> QED
    BY <2>1, <2>2
<1>10. /\ \A i \in 1 .. 0 : u[i] = Prompt
       /\ \A i \in 0 + 1 .. Len(u) : u[i] = r[(k + 1) + d + i - 0]
  BY <1>8
<1>11. Trails(u, h, r, 0, d)
  BY <1>3, <1>7, <1>9, <1>10 DEF Trails, n
<1> QED
  BY <1>1, <1>7, <1>11 DEF Underway, u, n, h

(* How a sequence begins. *)
LEMMA Front ==
  ASSUME NEW S, NEW s \in Seq(S), NEW n \in 0 .. Len(s)
  PROVE  /\ SubSeq(s, 1, n) \in Seq(S) /\ Len(SubSeq(s, 1, n)) = n
         /\ \A i \in 1 .. n : SubSeq(s, 1, n)[i] = s[i]
OBVIOUS

(* A sum is that of the header if nothing but zeros follows. *)
LEMMA SumOfHeader ==
  ASSUME NEW b \in Seq(Byte), Len(b) >= 3, \A i \in 4 .. Len(b) : b[i] = 0
  PROVE  Sum(b) = (((b[1] + b[2]) % 256) + b[3]) % 256
<1> DEFINE n == Len(b)
<1>1. n \in Nat /\ n >= 3 /\ \A i \in 4 .. n : b[i] = 0
  OBVIOUS
<1>2. PICK f : Totals(f, b, n) /\ Sum(b) = f[n]
  BY SumDefined
<1>3. /\ f[0] = 0 /\ \A i \in 0 .. n : f[i] \in Byte
      /\ \A i \in 1 .. n : f[i] = (f[i - 1] + b[i]) % 256
  BY <1>2 DEF Totals
<1>4. b[1] \in Byte /\ b[2] \in Byte /\ b[3] \in Byte
  OBVIOUS
<1> HIDE DEF n
<1>5. f[1] = (0 + b[1]) % 256 /\ f[2] = (f[1] + b[2]) % 256 /\ f[3] = (f[2] + b[3]) % 256
  <2>1. 1 \in 1 .. n /\ 2 \in 1 .. n /\ 3 \in 1 .. n
    BY <1>1
  <2>2. 1 - 1 = 0 /\ 2 - 1 = 1 /\ 3 - 1 = 2
    OBVIOUS
  <2> QED
    BY <1>3, <2>1, <2>2
<1>6. \A x \in Byte : (0 + x) % 256 = x /\ x % 256 = x
  <2>1. \A x \in Nat : x <= 255 => (0 + x) % 256 = x /\ x % 256 = x
    OBVIOUS
  <2> QED
    BY <2>1, Bytes
<1>7. f[3] = (((b[1] + b[2]) % 256) + b[3]) % 256
  BY <1>4, <1>5, <1>6
<1> DEFINE T == {i \in Nat : i <= n => f[i] = f[3]}
<1>8. 3 \in T
  OBVIOUS
<1>9. ASSUME NEW i \in Nat, i >= 3, i \in T PROVE i + 1 \in T
  <2> SUFFICES ASSUME i + 1 <= n PROVE f[i + 1] = f[3]
    OBVIOUS
  <2>1. i + 1 \in 1 .. n /\ i + 1 \in 4 .. n /\ i \in 0 .. n /\ (i + 1) - 1 = i
    BY <1>1, <1>9
  <2>2. f[i + 1] = (f[i] + b[i + 1]) % 256 /\ b[i + 1] = 0 /\ f[i] \in Byte
    BY <1>1, <1>3, <2>1
  <2>3. f[i] = f[3]
    BY <1>1, <1>9, <2>1
  <2>4. \A x \in Nat : x <= 255 => (x + 0) % 256 = x
    OBVIOUS
  <2>5. f[i] \in Nat /\ f[i] <= 255
    BY <2>2, Bytes
  <2> QED
    BY <2>2, <2>3, <2>4, <2>5
<1>10. \A i \in Nat : i >= 3 => i \in T
  <2> HIDE DEF T
  <2> QED
    BY <1>8, <1>9, Induction
<1> QED
  BY <1>1, <1>2, <1>7, <1>10

(* What a reply to a command that was executed is made of. *)
LEMMA ZerosParts ==
  ASSUME NEW type \in Byte
  PROVE  LET z == Zeros(type)  r == Answer(type, z, SUCCESS)  n == Len(z) IN
         /\ z \in Seq(Byte) /\ n <= 255
         /\ \/ n = 0
            \/ n = 4 /\ type \in {143, 144}
            \/ n = 6 /\ type = 149
         /\ \A i \in 4 .. 5 + n : r[i] = 0
         /\ n > 0 => r[6 + n] \notin {0, (90 + type) % 256}
<1> DEFINE z == Zeros(type)  n == Len(z)  r == Answer(type, z, SUCCESS)
           six == <<0, 0, 0, 0, 0, 0>>  four == <<0, 0, 0, 0>>
           body == SubSeq(r, 1, 5 + n)
<1>1. /\ six \in Seq(Byte) /\ Len(six) = 6 /\ \A i \in 1 .. 6 : six[i] = 0
      /\ four \in Seq(Byte) /\ Len(four) = 4 /\ \A i \in 1 .. 4 : four[i] = 0
      /\ <<>> \in Seq(Byte) /\ Len(<<>>) = 0
  BY Bytes
<1> HIDE DEF six, four
<1>2. \/ z = <<>>
      \/ z = four /\ type \in {143, 144}
      \/ z = six /\ type = 149
  BY DEF Zeros, FLASH_ID, FLASH_CRC32, GET_MAC, six, four
<1> HIDE DEF z
<1>3. /\ z \in Seq(Byte) /\ n \in Nat /\ n <= 255
      /\ n = 0 \/ (n = 4 /\ type \in {143, 144}) \/ (n = 6 /\ type = 149)
      /\ \A i \in 1 .. n : z[i] = 0
  <2>1. CASE z = <<>>
    BY <1>1, <2>1
  <2>2. CASE z = four /\ type \in {143, 144}
    <3>1. z \in Seq(Byte) /\ Len(z) = 4 /\ \A i \in 1 .. 4 : z[i] = 0
      BY <1>1, <2>2
    <3>2. n = 4
      BY <3>1
    <3> HIDE DEF n
    <3> QED
      BY <2>2, <3>1, <3>2
  <2>3. CASE z = six /\ type = 149
    <3>1. z \in Seq(Byte) /\ Len(z) = 6 /\ \A i \in 1 .. 6 : z[i] = 0
      BY <1>1, <2>3
    <3>2. n = 6
      BY <3>1
    <3> HIDE DEF n
    <3> QED
      BY <2>3, <3>1, <3>2
  <2> QED
    BY <1>2, <2>1, <2>2, <2>3
<1>4. SUCCESS \in Byte /\ SUCCESS = 0 /\ ACK_MAGIC = 90
  BY Bytes DEF SUCCESS, ACK_MAGIC
<1>5. /\ r \in Seq(Byte) /\ Len(r) = 6 + n
      /\ r[1] = ACK_MAGIC /\ r[2] = type /\ r[3] = n /\ r[4] = 0
      /\ \A i \in 1 .. n : r[4 + i] = z[i]
      /\ r[5 + n] = SUCCESS
      /\ r[6 + n] = Sum(body)
  <2>1. r = Answer(type, z, SUCCESS) /\ n = Len(z) /\ type \in Byte
        /\ n <= 255 /\ z \in Seq(Byte)
    BY <1>3
  <2>2. SUCCESS \in Byte
    BY <1>4
  <2> HIDE DEF n, r, body
  <2>a. r \in Seq(Byte)
    BY ONLY <2>1, <2>2, AnswerTyped
  <2>3. /\ Len(r) = 6 + n
        /\ r[1] = ACK_MAGIC /\ r[2] = type /\ r[3] = n /\ r[4] = 0
        /\ \A i \in 1 .. n : r[4 + i] = z[i]
        /\ r[5 + n] = SUCCESS
        /\ r[6 + n] = Sum(SubSeq(r, 1, 5 + n))
    BY ONLY <2>1, <2>2, AnswerParts
  <2> QED
    BY <2>a, <2>3 DEF body
<1>6. /\ body \in Seq(Byte) /\ Len(body) = 5 + n
      /\ \A i \in 1 .. 5 + n : r[i] = body[i]
  <2> HIDE DEF n, r
  <2>1. 5 + n \in 0 .. Len(r)
    BY <1>3, <1>5
  <2> QED
    BY <1>5, <2>1, Front
<1> HIDE DEF n, r, body
<1>7. ASSUME NEW i \in 4 .. 5 + n PROVE r[i] = 0
  <2>1. CASE i = 4
    BY <1>5, <2>1
  <2>2. CASE i \in 5 .. 4 + n
    <3>1. i - 4 \in 1 .. n /\ 4 + (i - 4) = i
      BY <1>3, <2>2
    <3>2. r[4 + (i - 4)] = z[i - 4] /\ z[i - 4] = 0
      BY <1>3, <1>5, <3>1
    <3> QED
      BY <3>1, <3>2
  <2>3. CASE i = 5 + n
    BY <1>4, <1>5, <2>3
  <2> QED
    BY <1>3, <2>1, <2>2, <2>3
<1>8. Sum(body) = (((body[1] + body[2]) % 256) + body[3]) % 256
  <2>1. ASSUME NEW i \in 4 .. Len(body) PROVE body[i] = 0
    <3>1. i \in 4 .. 5 + n /\ i \in 1 .. 5 + n
      BY <1>6
    <3> QED
      BY <1>6, <1>7, <3>1
  <2>2. Len(body) >= 3
    BY <1>3, <1>6
  <2> QED
    BY <1>6, <2>1, <2>2, SumOfHeader
<1>9. body[1] = 90 /\ body[2] = type /\ body[3] = n
  <2>1. 1 \in 1 .. 5 + n /\ 2 \in 1 .. 5 + n /\ 3 \in 1 .. 5 + n
    BY <1>3
  <2> QED
    BY <1>4, <1>5, <1>6, <2>1
<1>10. r[6 + n] = (((90 + type) % 256) + n) % 256
  BY <1>5, <1>8, <1>9
<1>11. n > 0 => r[6 + n] \notin {0, (90 + type) % 256}
  <2>1. CASE n = 4 /\ type = 143
    BY <1>10, <2>1
  <2>2. CASE n = 4 /\ type = 144
    BY <1>10, <2>2
  <2>3. CASE n = 6 /\ type = 149
    BY <1>10, <2>3
  <2> QED
    BY <1>3, <2>1, <2>2, <2>3
<1> QED
  BY <1>3, <1>7, <1>11 DEF n, r, z

(* Whatever part of a reply was lost, what the probe takes for a reply to  *)
(* its command is the reply.                                               *)
LEMMA Genuine ==
  ASSUME NEW type \in Byte, NEW status \in Statuses,
         NEW t \in Seq(Byte), NEW g \in Seq(Byte),
         Len(g) > 4, Len(g) = 6 + g[3] + 256 * g[4],
         g[1] = ACK_MAGIC, g[2] = type,
         g[Len(g)] = Sum(SubSeq(g, 1, Len(g) - 1)),
         Underway(t, g, Answer(type, IF status = SUCCESS THEN Zeros(type) ELSE <<>>,
                               status))
  PROVE  t = <<>> /\ g[Len(g) - 1] = status
<1> DEFINE z == IF status = SUCCESS THEN Zeros(type) ELSE <<>>
           n == Len(z)  r == Answer(type, z, status)  k == Len(g)  l == Len(t)
<1>1. /\ z \in Seq(Byte) /\ n \in Nat /\ n <= 255 /\ n \in {0, 4, 6}
      /\ n > 0 => /\ \A i \in 4 .. 5 + n : r[i] = 0
                  /\ r[6 + n] \notin {0, (90 + type) % 256}
  <2>1. CASE status = SUCCESS
    <3>1. z = Zeros(type) /\ r = Answer(type, Zeros(type), SUCCESS)
      BY <2>1
    <3> HIDE DEF z, r
    <3>2. /\ z \in Seq(Byte) /\ n <= 255
          /\ n = 0 \/ n = 4 \/ n = 6
          /\ \A i \in 4 .. 5 + n : r[i] = 0
          /\ n > 0 => r[6 + n] \notin {0, (90 + type) % 256}
      <4>1. type \in Byte
        OBVIOUS
      <4> QED
        BY ONLY <3>1, <4>1, ZerosParts DEF n
    <3> QED
      BY <3>2
  <2>2. CASE status # SUCCESS
    BY <2>2
  <2> QED
    BY <2>1, <2>2
<1>2. status \in Byte
  <2>1. status \in Nat /\ status <= 255
    BY DEF Statuses, SUCCESS, ERROR, TYPE_ERROR, LEN_ERROR
  <2> QED
    BY <2>1, Bytes
<1> HIDE DEF z
<1>3. r \in Seq(Byte) /\ Len(r) = 6 + n /\ r[3] = n /\ r[4] = 0 /\ r[5 + n] = status
  <2>1. z \in Seq(Byte) /\ Len(z) <= 255 /\ type \in Byte
    BY <1>1
  <2>2. r = Answer(type, z, status) /\ n = Len(z) /\ n <= 255
    BY <1>1
  <2> HIDE DEF n, r
  <2>3. r \in Seq(Byte)
    BY ONLY <1>2, <2>1, <2>2, AnswerTyped
  <2>4. Len(r) = 6 + n /\ r[3] = n /\ r[4] = 0 /\ r[5 + n] = status
    BY ONLY <1>2, <2>1, <2>2, AnswerParts
  <2> QED
    BY <2>3, <2>4
<1>4. k \in Nat /\ l \in Nat /\ k > 4 /\ k = 6 + g[3] + 256 * g[4]
  OBVIOUS
<1>5. g[3] \in Nat /\ g[4] \in Nat
  <2>1. g[3] \in Byte /\ g[4] \in Byte
    BY <1>4
  <2> QED
    BY <2>1, Bytes
<1>6. PICK d \in 0 .. 6 + n :
        /\ l + k + d = 6 + n
        /\ \A i \in 1 .. k : \E j \in i .. i + d : g[i] = r[j]
  <2>1. PICK m \in 0 .. l, d \in 0 .. Len(r) : Trails(t, g, r, m, d)
    BY DEF Underway, r, z
  <2>2. /\ m > 0 => g = <<>>
        /\ l + k + d = m + Len(r)
        /\ \A i \in 1 .. k : \E j \in i .. i + d : g[i] = r[j]
    BY <2>1 DEF Trails
  <2>3. g # <<>>
    BY <1>4
  <2>4. m = 0
    BY <1>4, <2>2, <2>3
  <2> HIDE DEF r, n, k, l
  <2> QED
    <3>1. d \in 0 .. 6 + n /\ l + k + d = 6 + n
      BY <1>1, <1>3, <1>4, <2>1, <2>2, <2>4
    <3> QED
      BY <2>2, <3>1
<1>7. g[k] = Sum(SubSeq(g, 1, k - 1)) /\ g[1] = 90 /\ g[2] = type
  BY DEF ACK_MAGIC
<1> HIDE DEF r, n, k, l
<1>8. k >= 6 /\ d <= n
  <2>1. k >= 6
    BY <1>4, <1>5
  <2>2. l + k + d = 6 + n /\ d \in Nat
    BY <1>1, <1>6
  <2> QED
    BY <1>1, <1>4, <2>1, <2>2
<1>9. ASSUME d = 0, k = 6 + n PROVE t = <<>> /\ g[k - 1] = status
  <2>1. l = 0
    BY <1>1, <1>4, <1>6, <1>9
  <2>2. t = <<>>
    BY <2>1 DEF l
  <2>3. k - 1 \in 1 .. k /\ k - 1 = 5 + n /\ k - 1 + d = k - 1
    BY <1>1, <1>4, <1>9
  <2>4. PICK j \in k - 1 .. k - 1 + d : g[k - 1] = r[j]
    BY <1>6, <2>3
  <2>5. j = 5 + n
    BY <1>1, <2>3, <2>4
  <2> QED
    BY <1>3, <2>2, <2>4, <2>5
<1>10. CASE n = 0
  BY <1>1, <1>4, <1>6, <1>8, <1>9, <1>10 DEF k
<1>11. CASE n > 0
  <2>1. ASSUME NEW i \in 4 .. 5 PROVE g[i] = 0
    <3>1. i \in 1 .. k
      BY <1>4, <1>8
    <3>2. PICK j \in i .. i + d : g[i] = r[j]
      BY <1>6, <3>1
    <3>3. j \in 4 .. 5 + n
      BY <1>1, <1>6, <1>8, <3>2
    <3> QED
      BY <1>1, <1>11, <3>2, <3>3
  <2>2. g[3] \in {0, n}
    <3>1. 3 \in 1 .. k
      BY <1>4, <1>8
    <3>2. PICK j \in 3 .. 3 + d : g[3] = r[j]
      BY <1>6, <3>1
    <3>3. j = 3 \/ j \in 4 .. 5 + n
      BY <1>1, <1>6, <1>8, <3>2
    <3> QED
      BY <1>1, <1>3, <1>11, <3>2, <3>3
  <2>3. k = 6 + g[3]
    <3>1. 4 \in 4 .. 5
      OBVIOUS
    <3>2. g[4] = 0
      BY <2>1, <3>1
    <3> QED
      BY <1>4, <1>5, <3>2
  <2>4. CASE g[3] = n
    <3>1. k = 6 + n
      BY <2>3, <2>4
    <3>2. d = 0
      BY <1>1, <1>4, <1>6, <3>1
    <3> QED
      BY <1>9, <3>1, <3>2 DEF k
  <2>5. CASE g[3] = 0
    <3>1. k = 6
      BY <2>3, <2>5
    <3> DEFINE b == SubSeq(g, 1, 5)
    <3>2. b \in Seq(Byte) /\ Len(b) = 5 /\ \A i \in 1 .. 5 : b[i] = g[i]
      <4>1. Len(g) = 6 /\ g \in Seq(Byte)
        BY <3>1 DEF k
      <4>2. 5 \in 0 .. Len(g)
        BY ONLY <4>1
      <4> QED
        BY ONLY <4>1, <4>2, Front DEF b
    <3>3. g[6] = Sum(b)
      BY <1>7, <3>1
    <3> HIDE DEF b
    <3>4. b[1] = 90 /\ b[2] = type /\ b[3] = 0 /\ \A i \in 4 .. Len(b) : b[i] = 0
      <4>1. 1 \in 1 .. 5 /\ 2 \in 1 .. 5 /\ 3 \in 1 .. 5
        OBVIOUS
      <4>2. b[1] = g[1] /\ b[2] = g[2] /\ b[3] = g[3]
        BY <3>2, <4>1, Zenon
      <4>3. \A i \in 4 .. 5 : i \in 1 .. 5
        OBVIOUS
      <4>4. \A i \in 4 .. 5 : b[i] = 0
        BY <2>1, <3>2, <4>3, Zenon
      <4> QED
        BY ONLY <1>7, <2>5, <3>2, <4>2, <4>4
    <3>5. Sum(b) = (((90 + type) % 256) + 0) % 256
      <4>1. Len(b) >= 3
        BY <3>2
      <4>2. Sum(b) = (((b[1] + b[2]) % 256) + b[3]) % 256
        BY <3>2, <3>4, <4>1, SumOfHeader
      <4> QED
        BY <3>4, <4>2
    <3>6. \A x \in Nat : ((x % 256) + 0) % 256 = x % 256
      OBVIOUS
    <3>7. g[6] = (90 + type) % 256
      <4>1. 90 + type \in Nat
        <5>1. type \in Nat
          BY Bytes
        <5> QED
          BY <5>1
      <4> QED
        BY <3>3, <3>5, <3>6, <4>1
    <3>8. 6 \in 1 .. k
      BY <3>1
    <3>9. PICK j \in 6 .. 6 + d : g[6] = r[j]
      BY <1>6, <3>8
    <3>10. CASE j = 6 + n
      BY <1>1, <1>11, <3>7, <3>9, <3>10
    <3>11. CASE j # 6 + n
      <4>1. j \in 4 .. 5 + n
        BY <1>1, <1>6, <1>8, <3>9, <3>11
      <4>2. g[6] = 0
        BY <1>1, <1>11, <3>9, <4>1
      <4>3. (90 + type) % 256 # 0
        <5>1. n > 0 => type \in {143, 144, 149}
          <6>1. status = SUCCESS => z = Zeros(type)
            BY DEF z
          <6>2. status # SUCCESS => n = 0
            BY DEF z, n
          <6> QED
            BY <6>1, <6>2, ZerosParts DEF n
        <5> QED
          BY <1>11, <5>1
      <4> QED
        BY <3>7, <4>2, <4>3
    <3> QED
      BY <3>10, <3>11
  <2> QED
    BY <2>2, <2>4, <2>5
<1> QED
  BY <1>1, <1>10, <1>11

-----------------------------------------------------------------------------
(* Taking turns: what is executed, and what is replied. *)

(* Who hears a command has done what came before it, ... *)
LEMMA HearingHistories ==
  ASSUME Typed, Hearing
  PROVE  Histories
<1>1. /\ asked \in Seq(Commands) /\ executed \in Seq(Commands) /\ asked # <<>>
      /\ Within(executed, Earlier(asked)) /\ Within(answered, executed)
  BY DEF Typed, TypedHost, TypedStub, Hearing
<1>2. /\ Earlier(asked) \in Seq(Commands) /\ Last \in Commands
      /\ asked = Append(Earlier(asked), Last)
  BY <1>1, LastOf DEF Last
<1>3. Within(executed, asked)
  BY <1>1, <1>2, WithinMore
<1> QED
  BY <1>1, <1>3 DEF Histories

(* ... and so has who has done it. *)
LEMMA DoneHistories ==
  ASSUME Typed, Done
  PROVE  Histories
<1>1. /\ executed \in Seq(Commands) /\ answered \in Seq(Commands) /\ executed # <<>>
      /\ Within(executed, asked) /\ Within(answered, Earlier(executed))
  BY DEF Typed, TypedHost, TypedStub, Done
<1> DEFINE last == executed[Len(executed)]
<1>2. /\ Earlier(executed) \in Seq(Commands) /\ last \in Commands
      /\ executed = Append(Earlier(executed), last)
  BY <1>1, LastOf
<1> HIDE DEF last
<1>3. Within(answered, executed)
  BY <1>1, <1>2, WithinMore
<1> QED
  BY <1>1, <1>3 DEF Histories

(* The command that is heard is executed after all that came before it. *)
LEMMA Executed ==
  ASSUME Typed, Hearing, executed' = Append(executed, Last),
         UNCHANGED <<asked, answered>>
  PROVE  Done' /\ Histories' /\ Last' = Last
<1>1. /\ asked \in Seq(Commands) /\ executed \in Seq(Commands) /\ asked # <<>>
      /\ answered \in Seq(Commands)
      /\ Within(executed, Earlier(asked)) /\ Within(answered, executed)
  BY DEF Typed, TypedHost, TypedStub, Hearing
<1>2. /\ Earlier(asked) \in Seq(Commands) /\ Last \in Commands
      /\ asked = Append(Earlier(asked), Last)
  BY <1>1, LastOf DEF Last
<1> DEFINE more == Append(executed, Last)
<1>3. more # <<>> /\ more[Len(more)] = Last /\ Earlier(more) = executed
  BY <1>1, <1>2, LastAppended
<1>4. Within(more, asked)
  BY <1>1, <1>2, WithinBoth
<1>5. Within(answered, more)
  BY <1>1, <1>2, WithinMore
<1>6. executed' = more
  OBVIOUS
<1> HIDE DEF more
<1>7. Last' = Last
  BY DEF Last
<1>8. Earlier(executed)' = executed
  BY <1>3, <1>6 DEF Earlier
<1>9. Done'
  BY <1>1, <1>3, <1>4, <1>6, <1>7, <1>8 DEF Done
<1> QED
  BY <1>4, <1>5, <1>6, <1>7, <1>9 DEF Histories

(* The reply follows the prompts, or the probe has read one. *)
LEMMA Replied ==
  ASSUME Typed, asked # <<>>, frame = Framed(Last), hostRate = rate,
         got \in Seq({Prompt}), tx \in Seq({Prompt}), got' = got,
         NEW data \in Seq(Byte), Len(data) <= 255, NEW status \in Byte,
         Reply(data, status)
  PROVE  Doomed' \/ Underway(tx', got', Answer(Last[1], data, status))
<1> DEFINE r == Answer(Last[1], data, status)
<1>1. Type = Last[1] /\ Last[1] \in Byte
  BY Parsed, LastTyped
<1>2. tx' = tx \o r
  BY <1>1 DEF Reply, Heard, Answer
<1>3. r \in Seq(Byte)
  BY <1>1, AnswerTyped
<1> HIDE DEF r
<1>4. CASE got = <<>>
  BY <1>2, <1>3, <1>4, UnderwayBegins DEF r
<1>5. CASE got # <<>>
  <2>1. got[1] = Prompt
    BY <1>5
  <2> QED
    BY <1>5, <2>1 DEF Doomed, Prompt, ACK_MAGIC
<1> QED
  BY <1>4, <1>5

(* Who is in a frame hears the last command, ... *)
LEMMA HearingWhen ==
  ASSUME Typed, InTurn, spc = "frame"
  PROVE  /\ Hearing /\ frame # <<>> /\ ~prompts
         /\ \/ hpc = "failed" /\ Last[1] = SYNC
            \/ Waiting /\ InExchange /\ Unanswered /\ hostRate = rate
<1>1. frame # <<>>
  BY DEF Typed, TypedStub
<1>2. ~prompts
  BY <1>1 DEF InTurn
<1>3. ~Quiet /\ ~Switching /\ ~Working
  BY DEF Quiet, Switching, Working
<1>4. ~Ready /\ ~Answered
  BY <1>3 DEF Ready, Answered, Result
<1>5. hpc = "failed" \/ Waiting
  BY <1>4 DEF InTurn, Typed, TypedHost, Waiting
<1>6. hpc = "failed" => Hearing /\ Last[1] = SYNC
  BY <1>3 DEF InTurn
<1>7. Waiting => InExchange /\ Unanswered /\ Hearing /\ hostRate = rate
  BY <1>3, <1>4 DEF InTurn, InExchange, Unanswered
<1> QED
  BY <1>1, <1>2, <1>5, <1>6, <1>7

(* ... and who works is at the last command, for which the probe waits. *)
LEMMA WorkingWhen ==
  ASSUME Typed, InTurn, spc = "work"
  PROVE  Working /\ ~prompts /\ Waiting /\ InExchange /\ Unanswered /\ hostRate = rate
<1>1. ~Quiet /\ ~Switching /\ ~Hearing
  BY DEF Quiet, Switching, Hearing
<1>2. ~Ready /\ ~Answered
  BY <1>1 DEF Ready, Answered, Result
<1>3. Waiting
  BY <1>1, <1>2 DEF InTurn, Typed, TypedHost, Waiting
<1>4. InExchange /\ Unanswered /\ Working /\ hostRate = rate
  BY <1>1, <1>2, <1>3 DEF InTurn, InExchange, Unanswered
<1>5. ~prompts
  <2>1. asked # <<>> /\ frame = Framed(Last)
    BY <1>4 DEF Working
  <2>2. Complete
    BY <2>1, Parsed
  <2>3. frame # <<>>
    BY <2>2 DEF Complete, Typed, TypedStub
  <2> QED
    BY <2>3 DEF InTurn
<1> QED
  BY <1>3, <1>4, <1>5

(* The command of the probe depends on where it stands. *)
LEMMA CommandStays ==
  UNCHANGED <<hpc, step>> => Command' = Command /\ (Waiting' <=> Waiting)
BY DEF Command, Waiting

(* A prompt finds a probe that has just begun. *)
LEMMA PromptTurn ==
  ASSUME Typed, InTurn, BootPrompt \/ IdlePrompt
  PROVE  InTurn'
<1>1. /\ spc = "boot" \/ (spc = "main" /\ prompts)
      /\ spc' \in {"boot", "main"} /\ tx' = Append(tx, Prompt)
      /\ UNCHANGED <<frame, rate, executed, rx, host>>
  <2>1. CASE BootPrompt
    BY <2>1 DEF BootPrompt
  <2>2. CASE IdlePrompt
    BY <2>2 DEF IdlePrompt, stub
  <2> QED
    BY <2>1, <2>2
<1>2. UNCHANGED <<hpc, step, got, hostRate, restarts, asked, answered>>
  BY <1>1 DEF host
<1>3. step = 1 /\ frame = <<>> /\ hpc \in {"upload", "next", "reply", "failed"}
  BY <1>1 DEF InTurn
<1>4. Last' = Last /\ Command' = Command
  BY <1>2 DEF Last, Command
<1>5. tx \in Seq({Prompt}) => tx' \in Seq({Prompt})
  BY <1>1
<1>6. ~Switching /\ ~Working /\ spc # "frame"
  BY <1>1 DEF Switching, Working
<1>7. Quiet => Quiet'
  BY <1>1, <1>2 DEF Quiet, Histories
<1>8. Hearing => Hearing'
  <2>1. Earlier(asked)' = Earlier(asked)
    BY <1>2 DEF Earlier
  <2> QED
    BY <1>1, <1>2, <1>3, <1>4, <2>1 DEF Hearing
<1>9. prompts' \/ spc' = "boot" =>
        step' = 1 /\ frame' = <<>> /\ hpc' \in {"upload", "next", "reply", "failed"}
  BY <1>1, <1>2, <1>3
<1>10. CASE hpc \in {"upload", "next"}
  <2>1. Ready
    BY <1>10 DEF InTurn
  <2>2. Ready'
    BY <1>1, <1>2, <1>3, <1>5, <1>6, <1>7, <1>10, <2>1 DEF Ready
  <2> QED
    BY <1>2, <1>9, <1>10, <2>2 DEF InTurn, Waiting
<1>11. CASE hpc = "reply"
  <2>1. InExchange /\ ~Answered
    <3>1. InExchange
      BY <1>11 DEF InTurn, Waiting
    <3>2. ~Answered
      BY <1>1, <1>6 DEF Answered, Result
    <3> QED
      BY <3>1, <3>2
  <2>2. Unanswered /\ asked # <<>> /\ Last = <<Command.type, Command.data>>
    BY <2>1 DEF InExchange
  <2>3. Unanswered'
    BY <1>1, <1>2, <1>3, <1>5, <1>6, <1>7, <1>8, <1>11, <2>2 DEF Unanswered
  <2>4. InExchange'
    BY <1>2, <1>4, <2>2, <2>3 DEF InExchange
  <2> QED
    BY <1>2, <1>9, <1>11, <2>4 DEF InTurn, Waiting
<1>12. CASE hpc = "failed"
  <2>1. Quiet \/ (Hearing /\ Last[1] = SYNC)
    BY <1>6, <1>12 DEF InTurn
  <2>2. Quiet' \/ (Hearing' /\ Last'[1] = SYNC)
    BY <1>4, <1>7, <1>8, <2>1
  <2> QED
    BY <1>2, <1>9, <1>12, <2>2 DEF InTurn, Waiting
<1> QED
  BY <1>3, <1>10, <1>11, <1>12

(* Only garbage is dropped, for which the probe does not wait. *)
LEMMA DropTurn ==
  ASSUME Typed, InTurn, DropByte
  PROVE  InTurn'
<1>1. /\ spc = "main" /\ rx # <<>> /\ Head(rx) # MAGIC /\ rx' = Tail(rx)
      /\ UNCHANGED <<spc, prompts, frame, rate, executed, tx>>
      /\ UNCHANGED <<hpc, step, got, hostRate, restarts, asked, answered>>
  BY DEF DropByte, stub, host
<1>2. Last' = Last /\ Command' = Command
  BY <1>1 DEF Last, Command
<1>3. ~Hearing
  <2> SUFFICES ASSUME Hearing PROVE FALSE
    OBVIOUS
  <2>1. frame = <<>> /\ frame \o rx = Framed(Last) /\ rx \in Seq(Byte) /\ asked # <<>>
    BY <1>1 DEF Hearing, Typed, TypedLine
  <2>2. rx = Framed(Last)
    BY <2>1, NothingAdded
  <2>3. Framed(Last)[1] = MAGIC
    BY <2>1, LastTyped, FramedParts
  <2>4. Head(rx) = rx[1]
    BY <1>1, <2>1
  <2> QED
    BY <1>1, <2>2, <2>3, <2>4
<1>4. ~Switching /\ ~Working /\ ~Ready /\ ~Answered
  BY <1>1 DEF Switching, Working, Ready, Answered, Result
<1>5. Quiet => Quiet'
  <2> SUFFICES ASSUME Quiet PROVE Quiet'
    OBVIOUS
  <2> DEFINE Others == Byte \ {MAGIC}
  <2>1. rx \in Seq(Others)
    BY DEF Quiet
  <2> HIDE DEF Others
  <2>2. Tail(rx) \in Seq(Others)
    BY <1>1, <2>1
  <2> QED
    BY <1>1, <2>2 DEF Quiet, Histories, Others
<1>6. prompts' \/ spc' = "boot" =>
        step' = 1 /\ frame' = <<>> /\ hpc' \in {"upload", "next", "reply", "failed"}
  BY <1>1 DEF InTurn
<1>7. CASE Waiting
  <2>1. InExchange
    BY <1>7 DEF InTurn
  <2>2. Unanswered /\ asked # <<>> /\ Last = <<Command.type, Command.data>>
    BY <1>4, <2>1 DEF InExchange
  <2>3. Unanswered'
    BY <1>1, <1>3, <1>4, <1>5, <2>2 DEF Unanswered
  <2>4. InExchange'
    BY <1>1, <1>2, <2>2, <2>3 DEF InExchange
  <2> QED
    BY <1>1, <1>6, <1>7, <2>4 DEF InTurn, Waiting
<1>8. CASE hpc = "failed"
  <2>1. Quiet'
    BY <1>3, <1>4, <1>5, <1>8 DEF InTurn
  <2> QED
    BY <1>1, <1>6, <1>8, <2>1 DEF InTurn, Waiting
<1> QED
  BY <1>4, <1>7, <1>8 DEF InTurn, Typed, TypedHost, Waiting

(* The stub reads on in what is on its way. *)
LEMMA ReadTurn ==
  ASSUME Typed, InTurn, StartFrame \/ FrameByte
  PROVE  InTurn'
<1>1. /\ rx # <<>> /\ rx' = Tail(rx) /\ spc' = "frame" /\ spc \in {"main", "frame"}
      /\ spc = "main" => Head(rx) = MAGIC /\ frame' = <<MAGIC>> /\ prompts' = FALSE
      /\ spc = "frame" => frame' = Append(frame, Head(rx)) /\ prompts' = prompts
      /\ UNCHANGED <<rate, executed, tx, host>>
  <2>1. CASE StartFrame
    BY <2>1 DEF StartFrame
  <2>2. CASE FrameByte
    BY <2>2 DEF FrameByte
  <2> QED
    BY <2>1, <2>2
<1>2. UNCHANGED <<hpc, step, got, hostRate, restarts, asked, answered>>
  BY <1>1 DEF host
<1>3. Last' = Last /\ Command' = Command
  BY <1>2 DEF Last, Command
<1>4. rx \in Seq(Byte) /\ frame \in Seq(Byte)
  BY DEF Typed, TypedLine, TypedStub
<1>5. ~Quiet /\ ~Switching /\ ~Working
  <2>1. ASSUME Quiet PROVE FALSE
    <3> DEFINE Others == Byte \ {MAGIC}
    <3>1. rx \in Seq(Others) /\ spc = "main"
      BY <1>1, <2>1 DEF Quiet
    <3>2. MAGIC \notin Others
      OBVIOUS
    <3> HIDE DEF Others
    <3>3. Head(rx) \in Others
      BY <1>1, <3>1
    <3> QED
      BY <1>1, <3>1, <3>2, <3>3
  <2> QED
    BY <1>1, <2>1 DEF Switching, Working
<1>6. ~Ready /\ ~Answered
  BY <1>1, <1>5 DEF Ready, Answered, Result
<1>7. Hearing => Hearing'
  <2> SUFFICES ASSUME Hearing PROVE Hearing'
    OBVIOUS
  <2>1. frame' = Append(frame, Head(rx))
    <3>1. CASE spc = "main"
      <4>1. frame = <<>>
        BY <3>1 DEF Hearing
      <4> QED
        BY <1>1, <3>1, <4>1
    <3> QED
      BY <1>1, <3>1
  <2>2. frame' \o Tail(rx) = frame \o rx
    <3> DEFINE x == Head(rx)  rest == Tail(rx)
    <3>1. /\ x \in Byte /\ rest \in Seq(Byte) /\ rx = <<x>> \o rest
          /\ <<x>> \in Seq(Byte) /\ Append(frame, x) = frame \o <<x>>
      BY <1>1, <1>4
    <3> HIDE DEF x, rest
    <3>2. (frame \o <<x>>) \o rest = frame \o (<<x>> \o rest)
      BY <1>4, <3>1, Associative
    <3> QED
      BY <2>1, <3>1, <3>2 DEF x, rest
  <2>3. frame' # <<>>
    BY <1>1, <1>4, <2>1
  <2>4. Earlier(asked)' = Earlier(asked)
    BY <1>2 DEF Earlier
  <2> QED
    BY <1>1, <1>2, <1>3, <2>2, <2>3, <2>4 DEF Hearing
<1>8. ~prompts'
  <2>1. CASE spc = "main"
    BY <1>1, <2>1
  <2>2. CASE spc = "frame"
    BY <1>1, <2>2, HearingWhen
  <2> QED
    BY <1>1, <2>1, <2>2
<1>9. CASE Waiting
  <2>1. InExchange
    BY <1>9 DEF InTurn
  <2>2. Unanswered /\ asked # <<>> /\ Last = <<Command.type, Command.data>>
    BY <1>6, <2>1 DEF InExchange
  <2>3. Unanswered'
    BY <1>1, <1>2, <1>5, <1>7, <2>2 DEF Unanswered
  <2>4. InExchange'
    BY <1>2, <1>3, <2>2, <2>3 DEF InExchange
  <2> QED
    BY <1>1, <1>2, <1>8, <1>9, <2>4 DEF InTurn, Waiting
<1>10. CASE hpc = "failed"
  <2>1. Hearing' /\ Last'[1] = SYNC
    BY <1>3, <1>5, <1>7, <1>10 DEF InTurn
  <2> QED
    BY <1>1, <1>2, <1>8, <1>10, <2>1 DEF InTurn, Waiting
<1> QED
  BY <1>6, <1>9, <1>10 DEF InTurn, Typed, TypedHost, Waiting

(* No frame breaks off, is too long, or damaged. *)
LEMMA NoFrameLost ==
  ASSUME Typed, InTurn, FrameCut \/ RefuseTooLong \/ RefuseDamaged
  PROVE  FALSE
<1>1. spc = "frame"
  BY DEF FrameCut, RefuseTooLong, RefuseDamaged, Refuse
<1>2. Hearing /\ frame # <<>>
  BY <1>1, HearingWhen
<1>3. ~TooLong /\ (rx = <<>> => Complete) /\ (Complete => SumFits)
  BY <1>2, FrameRead
<1> QED
  BY <1>3 DEF FrameCut, RefuseTooLong, RefuseDamaged

(* The command of a frame that is whole is the last. *)
LEMMA ValidWhen ==
  ASSUME Typed, InTurn, spc = "frame", Valid
  PROVE  /\ Hearing /\ ~prompts /\ asked # <<>>
         /\ frame = Framed(Last) /\ rx = <<>> /\ Type = Last[1] /\ Data = Last[2]
         /\ \/ hpc = "failed" /\ Last[1] = SYNC
            \/ Waiting /\ InExchange /\ Unanswered /\ hostRate = rate
<1>1. /\ Hearing /\ frame # <<>> /\ ~prompts
      /\ \/ hpc = "failed" /\ Last[1] = SYNC
         \/ Waiting /\ InExchange /\ Unanswered /\ hostRate = rate
  BY HearingWhen
<1>2. Complete
  BY DEF Valid
<1> QED
  BY <1>1, <1>2, FrameRead DEF Hearing

(* A reply puts the turn to the probe. *)
LEMMA ReplyTurn ==
  ASSUME Typed, asked # <<>>, frame = Framed(Last), Waiting, InExchange, Unanswered,
         hostRate = rate, UNCHANGED host, ~prompts', spc' # "boot",
         NEW status \in Statuses, Result(status)',
         NEW data \in Seq(Byte), Len(data) <= 255,
         data = IF status = SUCCESS THEN Zeros(Last[1]) ELSE <<>>,
         Reply(data, status)
  PROVE  InTurn'
<1>1. UNCHANGED <<hpc, step, got, hostRate, restarts, asked, answered>>
  BY DEF host
<1>2. Last' = Last /\ Command' = Command
  BY <1>1 DEF Last, Command
<1>3. got \in Seq({Prompt}) /\ tx \in Seq({Prompt})
  BY DEF Unanswered
<1>4. status \in Byte
  <2>1. status \in Nat /\ status <= 255
    BY DEF Statuses, SUCCESS, ERROR, TYPE_ERROR, LEN_ERROR
  <2> QED
    BY <2>1, Bytes
<1>5. Doomed' \/ Underway(tx', got', Answer(Last[1], data, status))
  BY <1>1, <1>3, <1>4, Replied
<1>6. ReplyTo(status)' = Answer(Last[1], data, status)
  BY <1>2 DEF ReplyTo
<1>7. Answered'
  BY <1>5, <1>6 DEF Answered
<1>8. InExchange'
  BY <1>1, <1>2, <1>7 DEF InExchange
<1> QED
  BY <1>1, <1>8 DEF InTurn, Waiting

(* The stub is back, having replied without working for it. *)
LEMMA BackTurn ==
  ASSUME Typed, InTurn, spc = "frame", Valid, NEW status \in Statuses,
         Reply(<<>>, status), BackToMain, UNCHANGED <<prompts, rate, rx, host>>,
         Histories', status = SUCCESS => Done' /\ Last[1] = SYNC
  PROVE  InTurn'
<1>1. UNCHANGED <<hpc, step, got, hostRate, restarts, asked, answered>>
  BY DEF host
<1>2. /\ Hearing /\ ~prompts /\ asked # <<>>
      /\ frame = Framed(Last) /\ rx = <<>>
      /\ \/ hpc = "failed" /\ Last[1] = SYNC
         \/ Waiting /\ InExchange /\ Unanswered /\ hostRate = rate
  BY ValidWhen
<1>3. Last' = Last
  BY <1>1 DEF Last
<1>4. Quiet' /\ rx' = <<>> /\ spc' = "main"
  BY <1>2 DEF Quiet, BackToMain
<1>5. CASE hpc = "failed"
  BY <1>1, <1>2, <1>4, <1>5 DEF InTurn, Waiting
<1>6. CASE Waiting /\ InExchange /\ Unanswered /\ hostRate = rate
  <2>1. SYNC # BAUD_CHANGE
    BY DEF SYNC, BAUD_CHANGE
  <2>2. Result(status)'
    BY <1>1, <1>3, <1>4, <1>6, <2>1 DEF Result
  <2>3. /\ <<>> \in Seq(Byte) /\ Len(<<>>) <= 255
        /\ <<>> = IF status = SUCCESS THEN Zeros(Last[1]) ELSE <<>>
    BY DEF Zeros, SYNC, FLASH_ID, FLASH_CRC32, GET_MAC
  <2> QED
    BY <1>2, <1>4, <1>6, <2>2, <2>3, ReplyTurn
<1> QED
  BY <1>2, <1>5, <1>6

(* What is refused is not executed. *)
LEMMA RefuseTurn ==
  ASSUME Typed, InTurn, RefuseLength \/ RefuseType
  PROVE  InTurn'
<1>1. PICK status \in {LEN_ERROR, TYPE_ERROR} : Valid /\ Refuse(status)
  BY DEF RefuseLength, RefuseType
<1>2. /\ spc = "frame" /\ Reply(<<>>, status) /\ BackToMain
      /\ UNCHANGED <<prompts, rate, rx, host>> /\ UNCHANGED executed
  BY <1>1 DEF Refuse
<1>3. status \in Statuses /\ status # SUCCESS
  BY DEF Statuses, SUCCESS, LEN_ERROR, TYPE_ERROR
<1>4. Hearing
  BY <1>1, <1>2, ValidWhen
<1>5. Histories'
  BY <1>2, <1>4, HearingHistories DEF Histories, host
<1> QED
  BY <1>1, <1>2, <1>3, <1>5, BackTurn

(* A SYNC is executed and replied to at once. *)
LEMMA SyncTurn ==
  ASSUME Typed, InTurn, Sync
  PROVE  InTurn'
<1>1. /\ spc = "frame" /\ Valid /\ Type = SYNC /\ Reply(<<>>, SUCCESS) /\ BackToMain
      /\ executed' = Append(executed, <<Type, Data>>)
      /\ UNCHANGED <<prompts, rate, rx, host>>
  BY DEF Sync, Execute
<1>2. Hearing /\ Type = Last[1] /\ Data = Last[2] /\ asked # <<>>
  BY <1>1, ValidWhen
<1>3. <<Type, Data>> = Last
  BY <1>2, LastTyped
<1>4. Done' /\ Histories'
  BY <1>1, <1>2, <1>3, Executed DEF host
<1>5. SUCCESS \in Statuses
  BY DEF Statuses
<1> QED
  BY <1>1, <1>2, <1>4, <1>5, BackTurn

(* The new rate is promised in a reply at the old, ... *)
LEMMA AcceptTurn ==
  ASSUME Typed, InTurn, AcceptRate
  PROVE  InTurn'
<1>1. /\ spc = "frame" /\ Valid /\ Type = BAUD_CHANGE /\ Data \in Supported
      /\ Reply(<<>>, SUCCESS) /\ spc' = "switch"
      /\ executed' = Append(executed, <<Type, Data>>)
      /\ UNCHANGED <<prompts, frame, rate, rx, host>>
  BY DEF AcceptRate, Execute
<1>2. UNCHANGED <<hpc, step, got, hostRate, restarts, asked, answered>>
  BY <1>1 DEF host
<1>3. /\ Hearing /\ Type = Last[1] /\ Data = Last[2] /\ asked # <<>> /\ ~prompts
      /\ frame = Framed(Last) /\ rx = <<>>
      /\ \/ hpc = "failed" /\ Last[1] = SYNC
         \/ Waiting /\ InExchange /\ Unanswered /\ hostRate = rate
  BY <1>1, ValidWhen
<1>4. Waiting /\ InExchange /\ Unanswered /\ hostRate = rate
  BY <1>1, <1>3 DEF SYNC, BAUD_CHANGE
<1>5. <<Type, Data>> = Last
  BY <1>3, LastTyped
<1>6. Done' /\ Histories' /\ Last' = Last
  BY <1>1, <1>2, <1>3, <1>5, Executed
<1>7. Switching'
  BY <1>1, <1>2, <1>3, <1>6 DEF Switching
<1>8. SUCCESS \in Statuses
  BY DEF Statuses
<1>9. Result(SUCCESS)'
  BY <1>1, <1>3, <1>6, <1>7 DEF Result
<1>10. /\ <<>> \in Seq(Byte) /\ Len(<<>>) <= 255
       /\ <<>> = IF SUCCESS = SUCCESS THEN Zeros(Last[1]) ELSE <<>>
  BY <1>1, <1>3 DEF Zeros, BAUD_CHANGE, FLASH_ID, FLASH_CRC32, GET_MAC
<1> QED
  BY <1>1, <1>3, <1>4, <1>8, <1>9, <1>10, ReplyTurn

(* ... and then set. *)
LEMMA SetRateTurn ==
  ASSUME Typed, InTurn, SetRate
  PROVE  InTurn'
<1>1. /\ spc = "switch" /\ rate' = Data /\ spc' = "main" /\ frame' = <<>>
      /\ UNCHANGED <<prompts, executed, rx, tx>>
      /\ UNCHANGED <<hpc, step, got, hostRate, restarts, asked, answered>>
  BY DEF SetRate, BackToMain, host
<1>2. ~Quiet /\ ~Hearing /\ ~Working
  BY <1>1 DEF Quiet, Hearing, Working
<1>3. ~Unanswered
  BY <1>2 DEF Unanswered
<1>4. Switching
  BY <1>2, <1>3 DEF InTurn, Ready, InExchange, Answered, Result, Typed, TypedHost,
                    Waiting
<1>5. /\ asked # <<>> /\ frame = Framed(Last) /\ rx = <<>> /\ Last[1] = BAUD_CHANGE
      /\ Histories
  BY <1>4 DEF Switching
<1>6. rate' = Last[2] /\ frame # <<>>
  <2>1. Complete /\ Data = Last[2]
    BY <1>5, Parsed
  <2> QED
    BY <1>1, <2>1 DEF Complete, Typed, TypedStub
<1>7. ~prompts
  BY <1>6 DEF InTurn
<1>8. Last' = Last /\ Command' = Command /\ Earlier(executed)' = Earlier(executed)
  BY <1>1 DEF Last, Command, Earlier
<1>9. Quiet' /\ rx' = <<>>
  BY <1>1, <1>5 DEF Quiet, Histories
<1>10. CASE hpc \in {"upload", "next", "settle", "ok"}
  <2>1. Ready
    BY <1>10 DEF InTurn
  <2>2. hpc = "settle" /\ hostRate = Last[2] /\ tx \in Seq({Prompt}) /\ tx = <<>>
    BY <1>2, <2>1 DEF Ready
  <2>3. Ready'
    BY <1>1, <1>6, <1>9, <2>2 DEF Ready
  <2> QED
    BY <1>1, <1>7, <2>2, <2>3 DEF InTurn, Waiting
<1>11. CASE Waiting
  <2>1. Answered /\ asked # <<>> /\ Last = <<Command.type, Command.data>>
    BY <1>3, <1>11 DEF InTurn, InExchange
  <2>2. PICK status \in Statuses :
             Result(status) /\ (Doomed \/ Underway(tx, got, ReplyTo(status)))
    BY <2>1 DEF Answered
  <2>3. status = SUCCESS /\ Done
    BY <1>2, <2>2 DEF Result
  <2>4. Done'
    BY <1>1, <1>8, <2>3 DEF Done
  <2>5. Result(status)'
    BY <1>1, <1>5, <1>6, <1>8, <1>9, <2>3, <2>4 DEF Result
  <2>6. (Doomed \/ Underway(tx, got, ReplyTo(status)))'
    BY <1>1, <1>8, <2>2 DEF Doomed, ReplyTo
  <2>7. InExchange'
    BY <1>1, <1>7, <1>8, <2>1, <2>5, <2>6 DEF InExchange, Answered
  <2> QED
    BY <1>1, <1>7, <1>11, <2>7 DEF InTurn, Waiting
<1>12. CASE hpc = "failed"
  BY <1>1, <1>7, <1>9, <1>12 DEF InTurn, Waiting
<1> QED
  BY <1>10, <1>11, <1>12 DEF Typed, TypedHost, Waiting

(* Work begins on the command that is executed, ... *)
LEMMA StartTurn ==
  ASSUME Typed, InTurn, StartWork
  PROVE  InTurn'
<1>1. /\ spc = "frame" /\ Valid /\ Type \in Busy /\ spc' = "work"
      /\ executed' = Append(executed, <<Type, Data>>)
      /\ UNCHANGED <<prompts, frame, rate, rx, tx>>
      /\ UNCHANGED <<hpc, step, got, hostRate, restarts, asked, answered>>
  BY DEF StartWork, Execute, host
<1>2. /\ Hearing /\ Type = Last[1] /\ Data = Last[2] /\ asked # <<>> /\ ~prompts
      /\ frame = Framed(Last) /\ rx = <<>>
      /\ \/ hpc = "failed" /\ Last[1] = SYNC
         \/ Waiting /\ InExchange /\ Unanswered /\ hostRate = rate
  BY <1>1, ValidWhen
<1>3. SYNC \notin Busy
  BY DEF Busy, Transfers, SYNC, FLASH_ERASE, FLASH_CHIP_ERASE, FLASH_CRC32, FLASH_ID,
         GET_MAC
<1>4. Waiting /\ InExchange /\ Unanswered /\ hostRate = rate
  BY <1>1, <1>2, <1>3
<1>5. <<Type, Data>> = Last
  BY <1>2, LastTyped
<1>6. Done' /\ Last' = Last
  BY <1>1, <1>2, <1>5, Executed
<1>7. Working'
  BY <1>1, <1>2, <1>6 DEF Working
<1>8. Unanswered'
  BY <1>1, <1>4, <1>7 DEF Unanswered
<1>9. Command' = Command
  BY <1>1 DEF Command
<1>10. InExchange'
  BY <1>1, <1>4, <1>6, <1>8, <1>9 DEF InExchange
<1> QED
  BY <1>1, <1>2, <1>4, <1>10 DEF InTurn, Waiting

(* ... and ends with the reply to it. *)
LEMMA FinishTurn ==
  ASSUME Typed, InTurn, FinishWork
  PROVE  InTurn'
<1>1. /\ spc = "work" /\ spc' = "main" /\ frame' = <<>>
      /\ UNCHANGED <<prompts, rate, executed, rx, host>>
  BY DEF FinishWork, BackToMain
<1>2. UNCHANGED <<hpc, step, got, hostRate, restarts, asked, answered>>
  BY <1>1 DEF host
<1>3. Working /\ ~prompts /\ Waiting /\ InExchange /\ Unanswered /\ hostRate = rate
  BY <1>1, WorkingWhen
<1>4. asked # <<>> /\ frame = Framed(Last) /\ rx = <<>> /\ Last[1] \in Busy /\ Done
  BY <1>3 DEF Working
<1>5. Type = Last[1] /\ Last[1] \in Byte
  BY <1>4, Parsed, LastTyped
<1>6. Last' = Last /\ Earlier(executed)' = Earlier(executed)
  BY <1>1, <1>2 DEF Last, Earlier
<1>7. Done' /\ Histories
  BY <1>1, <1>2, <1>4, <1>6, DoneHistories DEF Done
<1>8. Quiet' /\ rx' = <<>> /\ spc' = "main"
  BY <1>1, <1>2, <1>4, <1>7 DEF Quiet, Histories
<1>9. Last[1] # BAUD_CHANGE
  BY <1>4 DEF Busy, Transfers, BAUD_CHANGE, FLASH_ERASE, FLASH_CHIP_ERASE, FLASH_CRC32,
              FLASH_ID, GET_MAC
<1>10. \A status \in Statuses : Result(status)'
  BY <1>1, <1>2, <1>3, <1>6, <1>7, <1>8, <1>9 DEF Result
<1>11. SUCCESS \in Statuses /\ ERROR \in Statuses /\ ERROR # SUCCESS
  BY DEF Statuses, SUCCESS, ERROR
<1>12. CASE Reply(Zeros(Type), SUCCESS)
  <2> DEFINE data == Zeros(Last[1])
  <2>1. data \in Seq(Byte) /\ Len(data) <= 255
    BY <1>5, ZerosParts
  <2>2. Reply(data, SUCCESS) /\ data = IF SUCCESS = SUCCESS THEN Zeros(Last[1]) ELSE <<>>
    BY <1>5, <1>12
  <2> HIDE DEF data
  <2> QED
    BY <1>1, <1>3, <1>4, <1>10, <1>11, <2>1, <2>2, ReplyTurn
<1>13. CASE Reply(<<>>, ERROR)
  <2>1. <<>> \in Seq(Byte) /\ Len(<<>>) <= 255
    OBVIOUS
  <2>2. <<>> = IF ERROR = SUCCESS THEN Zeros(Last[1]) ELSE <<>>
    BY <1>11
  <2> QED
    BY <1>1, <1>3, <1>4, <1>10, <1>11, <1>13, <2>1, <2>2, ReplyTurn
<1> QED
  BY <1>12, <1>13 DEF FinishWork, Zeros

(* The reply to a command is bytes. *)
LEMMA ReplyToTyped ==
  ASSUME Typed, asked # <<>>, NEW status \in Statuses
  PROVE  ReplyTo(status) \in Seq(Byte)
<1> DEFINE data == IF status = SUCCESS THEN Zeros(Last[1]) ELSE <<>>
<1>1. Last[1] \in Byte
  BY LastTyped
<1>2. data \in Seq(Byte) /\ Len(data) <= 255
  <2>1. CASE status = SUCCESS
    <3>1. Zeros(Last[1]) \in Seq(Byte) /\ Len(Zeros(Last[1])) <= 255
      BY <1>1, ZerosParts
    <3> QED
      BY <2>1, <3>1
  <2>2. CASE status # SUCCESS
    BY <2>2
  <2> QED
    BY <2>1, <2>2
<1>3. status \in Byte
  <2>1. status \in Nat /\ status <= 255
    BY DEF Statuses, SUCCESS, ERROR, TYPE_ERROR, LEN_ERROR
  <2> QED
    BY <2>1, Bytes
<1>4. ReplyTo(status) = Answer(Last[1], data, status)
  BY DEF ReplyTo
<1> HIDE DEF data
<1> QED
  BY <1>1, <1>2, <1>3, <1>4, AnswerTyped

(* Prompts are counted before the first command. *)
LEMMA CountTurn ==
  ASSUME Typed, InTurn, CountPrompt \/ Prompted
  PROVE  InTurn'
<1>1. /\ hpc = "upload" /\ hpc' \in {"upload", "next"}
      /\ tx' = tx \/ (tx # <<>> /\ tx' = Tail(tx))
      /\ UNCHANGED <<step, hostRate, restarts, asked, answered>>
      /\ UNCHANGED <<spc, prompts, frame, rate, executed, rx>>
  <2>1. CASE CountPrompt
    BY <2>1 DEF CountPrompt, stub
  <2>2. CASE Prompted
    BY <2>2 DEF Prompted, stub
  <2> QED
    BY <2>1, <2>2
<1>2. Ready /\ step = 1
  BY <1>1 DEF InTurn, Typed, TypedHost
<1>3. tx' \in Seq({Prompt})
  <2>1. tx \in Seq({Prompt})
    BY <1>2 DEF Ready
  <2> QED
    BY <1>1, <2>1
<1>4. Quiet' <=> Quiet
  BY <1>1, StationsStay
<1>5. Ready'
  BY <1>1, <1>2, <1>3, <1>4 DEF Ready
<1> QED
  BY <1>1, <1>2, <1>5 DEF InTurn, Waiting

(* The stub hears a command, or at another rate nothing that it would take *)
(* for a frame.                                                            *)
LEMMA SendTurn ==
  ASSUME Typed, InTurn, Clear, SendCommand
  PROVE  InTurn'
<1> DEFINE c == <<Command.type, Command.data>>  f == Framed(c)
<1>1. /\ hpc \in {"next", "settle"} /\ step <= Len(Script)
      /\ hpc = "settle" => spc # "switch"
      /\ hpc' = IF hpc = "settle" THEN "confirm" ELSE "reply"
      /\ got' = <<>> /\ asked' = Append(asked, c)
      /\ UNCHANGED <<step, hostRate, restarts, answered>>
      /\ UNCHANGED <<spc, prompts, frame, rate, executed>>
  BY DEF SendCommand, stub
<1>2. PICK n \in 0 .. Len(tx) : tx' = SubSeq(tx, n + 1, Len(tx))
  BY DEF SendCommand
<1>3. PICK bytes \in Heard(f) : rx' = rx \o bytes
  BY DEF SendCommand, Framed
<1>4. /\ c \in Commands /\ Len(c[2]) <= 255 /\ c[1] = Command.type /\ c[2] = Command.data
      /\ asked \in Seq(Commands) /\ executed \in Seq(Commands)
      /\ answered \in Seq(Commands)
  BY <1>1, CommandTyped DEF Typed, TypedHost, TypedStub
<1>5. Command' = Command
  BY <1>1 DEF Command
<1>6. f \in Seq(Byte)
  BY <1>4, FramedParts
<1> HIDE DEF c, f
<1>7. asked' # <<>> /\ Last' = c /\ Earlier(asked)' = asked
  <2>1. asked \in Seq(Commands) /\ c \in Commands /\ asked' = Append(asked, c)
    BY <1>1, <1>4, Zenon
  <2>2. asked' # <<>> /\ asked'[Len(asked')] = c /\ Earlier(asked') = asked
    BY ONLY <2>1, LastAppended
  <2> QED
    BY <2>2 DEF Last, Earlier
<1>8. Ready
  BY <1>1 DEF InTurn
<1>9. /\ rx = <<>> /\ tx \in Seq({Prompt}) /\ Quiet
      /\ tx # <<>> => step = 1 /\ hpc = "next"
      /\ hpc = "settle" \/ step > 1 \/ restarts = 0 => hostRate = rate
  BY <1>1, <1>8 DEF Ready, Switching
<1>10. tx' \in Seq({Prompt}) /\ (tx' # <<>> => tx # <<>>)
  <2>1. tx' \in Seq({Prompt})
    BY <1>2, <1>9
  <2>2. tx = <<>> => tx' = <<>>
    <3> SUFFICES ASSUME tx = <<>> PROVE tx' = <<>>
      OBVIOUS
    <3>1. Len(tx) = 0 /\ n = 0
      BY <1>2
    <3>2. tx' = SubSeq(tx, 1, 0)
      BY <1>2, <3>1
    <3> QED
      BY <1>9, <3>2
  <2> QED
    BY <2>1, <2>2
<1>11. Histories /\ frame = <<>> /\ spc \in {"boot", "main"}
  BY <1>9 DEF Quiet
<1>13. Waiting' /\ (hpc' = "reply" \/ hpc' = "confirm")
  BY <1>1 DEF Waiting
<1>14. got' \in Seq({Prompt})
  BY <1>1
<1>15. got' # <<>> \/ tx' # <<>> => step' = 1 /\ hpc' = "reply"
  BY <1>1, <1>9, <1>10
<1>16. Unanswered'
  <2>1. CASE hostRate = rate
    <3>1. rx' = f
      <4>1. bytes = f
        BY <1>3, <2>1 DEF Heard
      <4> QED
        BY <1>3, <1>6, <1>9, <4>1, NothingAdded
    <3>2. frame' \o rx' = Framed(Last')
      BY <1>1, <1>6, <1>7, <1>11, <3>1, NothingAdded DEF f
    <3>3. Hearing'
      BY <1>1, <1>7, <1>11, <3>2 DEF Hearing, Histories
    <3> QED
      BY <1>1, <1>10, <1>14, <1>15, <2>1, <3>3 DEF Unanswered
  <2>2. CASE hostRate # rate
    <3>1. MAGIC \notin Garbled
      BY <1>9, <2>2 DEF Clear
    <3>2. bytes \in Seq(Byte \ {MAGIC})
      <4>1. PICK b \in Garbled : bytes = [i \in DOMAIN f |-> b]
        BY <1>3, <2>2 DEF Heard
      <4> DEFINE Others == Byte \ {MAGIC}
      <4>2. b \in Others /\ DOMAIN f = 1 .. Len(f) /\ Len(f) \in Nat
        BY <1>6, <3>1, Constants
      <4> HIDE DEF Others
      <4>3. bytes \in Seq(Others)
        BY <4>1, <4>2
      <4> QED
        BY <4>3 DEF Others
    <3>3. rx' \in Seq(Byte \ {MAGIC})
      <4>1. <<>> \o bytes = bytes
        BY <3>2, NothingAdded
      <4> QED
        BY <1>3, <1>9, <3>2, <4>1
    <3>4. Within(executed', asked') /\ Within(answered', executed')
      <4>1. Within(executed, asked) /\ Within(answered, executed)
        BY <1>11 DEF Histories
      <4>2. Within(executed, Append(asked, c))
        BY <1>4, <4>1, WithinMore
      <4> QED
        BY <1>1, <4>1, <4>2 DEF c
    <3>5. Quiet'
      BY <1>1, <1>11, <3>3, <3>4 DEF Quiet, Histories
    <3> QED
      BY <1>1, <1>10, <1>14, <1>15, <2>2, <3>5 DEF Unanswered
  <2> QED
    BY <2>1, <2>2
<1>17. InExchange'
  BY <1>5, <1>7, <1>16 DEF InExchange, c
<1>18. prompts' \/ spc' = "boot" => step' = 1 /\ frame' = <<>> /\ hpc' = "reply"
  <2>1. prompts \/ spc = "boot" => step = 1 /\ hpc = "next"
    BY <1>1 DEF InTurn
  <2> QED
    BY <1>1, <1>11, <2>1
<1> QED
  BY <1>13, <1>17, <1>18 DEF InTurn

(* What the probe reads is a part of the reply, or a prompt that dooms it. *)
LEMMA TakeTurn ==
  ASSUME Typed, InTurn, TakeReplyByte
  PROVE  InTurn'
<1>1. /\ Waiting /\ tx # <<>> /\ got' = Append(got, Head(tx)) /\ tx' = Tail(tx)
      /\ UNCHANGED <<hpc, step, hostRate, restarts, asked, answered>>
      /\ UNCHANGED <<spc, prompts, frame, rate, executed, rx>>
  BY DEF TakeReplyByte, stub
<1>2. /\ Last' = Last /\ (Hearing' <=> Hearing) /\ (Quiet' <=> Quiet)
      /\ Working' <=> Working
  BY <1>1, StationsStay
<1>3. Command' = Command /\ Waiting'
  BY <1>1, CommandStays
<1>4. InExchange
  BY <1>1 DEF InTurn
<1>5. ASSUME Unanswered PROVE Unanswered'
  <2>1. tx \in Seq({Prompt}) /\ got \in Seq({Prompt})
    BY <1>5 DEF Unanswered
  <2>2. Tail(tx) \in Seq({Prompt}) /\ Append(got, Head(tx)) \in Seq({Prompt})
    BY <1>1, <2>1
  <2> QED
    BY <1>1, <1>2, <1>5, <2>2 DEF Unanswered
<1>6. ASSUME Answered PROVE Answered'
  <2>1. PICK status \in Statuses :
             Result(status) /\ (Doomed \/ Underway(tx, got, ReplyTo(status)))
    BY <1>6 DEF Answered
  <2>2. Result(status)'
    BY <1>1, <2>1, ResultStays
  <2>3. ReplyTo(status)' = ReplyTo(status)
    BY <1>2 DEF ReplyTo
  <2>4. /\ tx \in Seq(Byte) /\ got \in Seq(Byte) /\ Head(tx) \in Byte
        /\ got = <<>> => got' # <<>> /\ got'[1] = Head(tx)
        /\ got # <<>> => got' # <<>> /\ got'[1] = got[1]
    <3>1. tx \in Seq(Byte) /\ got \in Seq(Byte)
      BY DEF Typed, TypedLine, TypedHost
    <3>2. Head(tx) \in Byte
      BY <1>1, <3>1
    <3>3. /\ got' # <<>> /\ Len(got) \in Nat
          /\ \A i \in 1 .. Len(got) : got'[i] = got[i]
          /\ got'[Len(got) + 1] = Head(tx)
      BY <1>1, <3>1, <3>2, Appended
    <3>4. got = <<>> => Len(got) + 1 = 1
      OBVIOUS
    <3>5. got # <<>> => 1 \in 1 .. Len(got)
      BY <3>1
    <3> QED
      BY <3>1, <3>2, <3>3, <3>4, <3>5
  <2>5. Doomed => Doomed'
    BY <2>4 DEF Doomed
  <2>6. ASSUME Underway(tx, got, ReplyTo(status)), got # <<>> \/ Head(tx) # Prompt
        PROVE  Underway(tx', got', ReplyTo(status))
    <3>1. ReplyTo(status) \in Seq(Byte)
      BY <1>4, <2>1, ReplyToTyped DEF InExchange
    <3> QED
      BY <1>1, <2>4, <2>6, <3>1, UnderwayTaken
  <2>7. got = <<>> /\ Head(tx) = Prompt => Doomed'
    BY <2>4 DEF Doomed, Prompt, ACK_MAGIC
  <2>8. (Doomed \/ Underway(tx, got, ReplyTo(status)))'
    BY <2>1, <2>3, <2>5, <2>6, <2>7 DEF Doomed
  <2> QED
    BY <1>1, <1>6, <2>2, <2>8 DEF Answered
<1>7. InExchange'
  BY <1>1, <1>2, <1>3, <1>4, <1>5, <1>6 DEF InExchange
<1>8. prompts' \/ spc' = "boot" =>
        step' = 1 /\ frame' = <<>> /\ hpc' \in {"upload", "next", "reply", "failed"}
  BY <1>1 DEF InTurn
<1> QED
  BY <1>3, <1>7, <1>8 DEF InTurn, Waiting

(* A good reply is the reply to the command, and all of it. *)
LEMMA GoodWhen ==
  ASSUME Typed, InTurn, Waiting, GoodReply
  PROVE  /\ InExchange /\ ~prompts /\ tx = <<>>
         /\ Status \in Statuses /\ Result(Status)
<1>1. InExchange
  BY DEF InTurn
<1>2. asked # <<>> /\ Last = <<Command.type, Command.data>> /\ (Unanswered \/ Answered)
  BY <1>1 DEF InExchange
<1>3. /\ Len(got) > 4 /\ Len(got) = 6 + got[3] + 256 * got[4]
      /\ got[Len(got)] = Sum(SubSeq(got, 1, Len(got) - 1))
  BY DEF GoodReply, ReplyComplete
<1>4. got \in Seq(Byte) /\ tx \in Seq(Byte) /\ got[1] = ACK_MAGIC /\ got[2] = Command.type
  BY <1>3 DEF Typed, TypedHost, TypedLine
<1>5. ~Unanswered
  <2> SUFFICES ASSUME Unanswered PROVE FALSE
    OBVIOUS
  <2>1. got \in Seq({Prompt}) /\ 1 \in 1 .. Len(got)
    BY <1>3, <1>4 DEF Unanswered
  <2>2. got[1] = Prompt
    BY <2>1
  <2> QED
    BY <1>4, <2>2 DEF Prompt, ACK_MAGIC
<1>6. ~Doomed
  BY <1>4 DEF Doomed
<1>7. PICK status \in Statuses : Result(status) /\ Underway(tx, got, ReplyTo(status))
  BY <1>2, <1>5, <1>6 DEF Answered
<1>8. Last[1] = Command.type /\ Last[1] \in Byte
  BY <1>2, LastTyped
<1>9. tx = <<>> /\ got[Len(got) - 1] = status
  <2> DEFINE type == Last[1]
  <2>1. type \in Byte /\ got[2] = type
    BY <1>4, <1>8
  <2>2. Underway(tx, got, Answer(type, IF status = SUCCESS THEN Zeros(type) ELSE <<>>,
                                 status))
    BY <1>7 DEF ReplyTo
  <2> HIDE DEF type
  <2> QED
    BY <1>3, <1>4, <2>1, <2>2, Genuine
<1>10. ~prompts
  BY <1>2, <1>5 DEF Answered
<1> QED
  BY <1>1, <1>7, <1>9, <1>10 DEF Status

(* A probe gives up on a SYNC, or after the stub has done its part. *)
LEMMA RefuseReplyTurn ==
  ASSUME Typed, InTurn, RefuseReply
  PROVE  InTurn'
<1>1. /\ Waiting /\ (BadHeader \/ ReplyComplete) /\ hpc' = "failed"
      /\ UNCHANGED <<step, got, hostRate, restarts, asked, answered>>
      /\ UNCHANGED <<spc, prompts, frame, rate, executed, rx, tx>>
  BY DEF RefuseReply, stub
<1>2. /\ Last' = Last /\ (Hearing' <=> Hearing) /\ (Quiet' <=> Quiet)
      /\ Switching' <=> Switching
  BY <1>1, StationsStay
<1>3. asked # <<>> /\ Last = <<Command.type, Command.data>> /\ (Unanswered \/ Answered)
  BY <1>1 DEF InTurn, InExchange
<1>4. got # <<>>
  BY <1>1 DEF BadHeader, ReplyComplete, Typed, TypedHost
<1>5. ASSUME Unanswered PROVE Quiet \/ (Hearing /\ Last[1] = SYNC)
  <2>1. step = 1 /\ hpc = "reply"
    BY <1>4, <1>5 DEF Unanswered
  <2>2. Command.type = SYNC
    BY <2>1, Constants DEF Command
  <2>3. Last[1] = SYNC
    BY <1>3, <2>2
  <2>4. ~Working
    BY <2>3 DEF Working, Busy, Transfers, SYNC, FLASH_ERASE, FLASH_CHIP_ERASE,
                FLASH_CRC32, FLASH_ID, GET_MAC
  <2> QED
    BY <1>5, <2>3, <2>4 DEF Unanswered
<1>6. ASSUME Answered PROVE Quiet \/ Switching
  BY <1>6 DEF Answered, Result
<1>7. prompts' \/ spc' = "boot" =>
        step' = 1 /\ frame' = <<>> /\ hpc' \in {"upload", "next", "reply", "failed"}
  BY <1>1 DEF InTurn
<1> QED
  BY <1>1, <1>2, <1>3, <1>5, <1>6, <1>7 DEF InTurn, Waiting

(* A success is recorded, which the stub had executed for it. *)
LEMMA Recorded ==
  ASSUME Typed, InExchange, Status = SUCCESS => Done, Histories, Record,
         UNCHANGED <<asked, executed>>
  PROVE  Histories'
<1>1. CASE Status = SUCCESS
  <2>1. /\ executed \in Seq(Commands) /\ answered \in Seq(Commands) /\ executed # <<>>
        /\ executed[Len(executed)] = Last /\ Within(answered, Earlier(executed))
    BY <1>1 DEF Typed, TypedStub, TypedHost, Done
  <2>2. answered' = Append(answered, Last)
    BY <1>1 DEF Record, InExchange
  <2>3. /\ Earlier(executed) \in Seq(Commands) /\ Last \in Commands
        /\ executed = Append(Earlier(executed), Last)
    BY <2>1, LastOf
  <2>4. Within(Append(answered, Last), executed)
    BY <2>1, <2>3, WithinBoth
  <2> QED
    BY <2>2, <2>4 DEF Histories
<1>2. CASE Status # SUCCESS
  BY <1>2 DEF Record, Histories
<1> QED
  BY <1>1, <1>2

(* The next command may be sent, at the rate of this one, ... *)
LEMMA AcceptReplyTurn ==
  ASSUME Typed, InTurn, AcceptReply
  PROVE  InTurn'
<1>1. /\ Waiting /\ GoodReply /\ ~ChangesRate /\ Record /\ hpc' \in {"ok", "next"}
      /\ UNCHANGED <<got, hostRate, restarts, asked>>
      /\ UNCHANGED <<spc, prompts, frame, rate, executed, rx, tx>>
  BY DEF AcceptReply, stub
<1>2. /\ InExchange /\ ~prompts /\ tx = <<>> /\ Status \in Statuses /\ Result(Status)
  BY <1>1, GoodWhen
<1>3. Last = <<Command.type, Command.data>>
  BY <1>2 DEF InExchange
<1>4. Last[1] # BAUD_CHANGE \/ Status # SUCCESS
  <2>1. hpc = "confirm" => Command.type = SYNC
    BY DEF Command, SyncCommand
  <2>2. hpc = "confirm" \/ hpc = "reply"
    BY <1>1 DEF Waiting
  <2> QED
    BY <1>1, <1>3, <2>1, <2>2 DEF ChangesRate, SYNC, BAUD_CHANGE
<1>5. Quiet /\ rx = <<>> /\ spc = "main" /\ rate = hostRate /\ (Status = SUCCESS => Done)
  BY <1>2, <1>4 DEF Result, Switching
<1>6. Histories'
  BY <1>1, <1>2, <1>5, Recorded DEF Quiet
<1>7. Quiet'
  BY <1>1, <1>5, <1>6 DEF Quiet
<1>8. Ready'
  BY <1>1, <1>2, <1>5, <1>7 DEF Ready
<1> QED
  BY <1>1, <1>2, <1>5, <1>8 DEF InTurn, Waiting

(* ... or at the rate that both have agreed upon. *)
LEMMA FollowTurn ==
  ASSUME Typed, InTurn, FollowRate
  PROVE  InTurn'
<1>1. /\ Waiting /\ GoodReply /\ ChangesRate /\ Record
      /\ hostRate' = Command.data /\ hpc' = "settle"
      /\ UNCHANGED <<step, got, restarts, asked>>
      /\ UNCHANGED <<spc, prompts, frame, rate, executed, rx, tx>>
  BY DEF FollowRate, stub
<1>2. /\ InExchange /\ ~prompts /\ tx = <<>> /\ Status \in Statuses /\ Result(Status)
  BY <1>1, GoodWhen
<1>3. /\ Last[1] = BAUD_CHANGE /\ Last[2] = Command.data /\ Status = SUCCESS
  BY <1>1, <1>2 DEF ChangesRate, InExchange
<1>4. /\ Done /\ (Switching \/ rate = Last[2])
      /\ (Quiet /\ rx = <<>> /\ spc = "main") \/ Switching
  BY <1>2, <1>3 DEF Result
<1>5. Histories'
  BY <1>1, <1>2, <1>4, DoneHistories, Recorded
<1>6. Last' = Last
  BY <1>1 DEF Last
<1>7. ASSUME Switching PROVE Switching'
  BY <1>1, <1>5, <1>6, <1>7 DEF Switching
<1>8. ASSUME Quiet PROVE Quiet'
  BY <1>1, <1>5, <1>8 DEF Quiet
<1>9. rx = <<>> /\ spc # "boot"
  BY <1>4 DEF Switching
<1>10. Ready'
  BY <1>1, <1>2, <1>3, <1>4, <1>6, <1>7, <1>8, <1>9 DEF Ready
<1> QED
  BY <1>1, <1>2, <1>9, <1>10 DEF InTurn, Waiting

(* Who has heard a command is not idle. *)
LEMMA NotIdle ==
  ASSUME Typed, Hearing, Idle
  PROVE  FALSE
<1>1. rx = <<>> /\ asked # <<>> /\ frame \in Seq(Byte) /\ frame \o rx = Framed(Last)
  BY DEF Idle, Hearing, Typed, TypedStub
<1>2. CASE spc = "frame"
  <2>1. frame # <<>>
    BY <1>2 DEF Hearing
  <2> QED
    BY <1>1, <1>2, <2>1, FrameRead DEF Idle
<1>3. CASE spc = "main"
  <2>1. frame = <<>>
    BY <1>3 DEF Hearing
  <2>2. Framed(Last) = <<>>
    BY <1>1, <2>1
  <2>3. Framed(Last)[1] = MAGIC /\ Len(Framed(Last)) = 5 + Len(Last[2])
        /\ Len(Last[2]) \in Nat
    BY <1>1, LastTyped, FramedParts
  <2>4. Len(Framed(Last)) = 0
    BY <2>2
  <2> QED
    BY <2>3, <2>4
<1> QED
  BY <1>2, <1>3 DEF Idle

(* A probe does not give up waiting before the stub has replied, unless it *)
(* waits at another rate.                                                  *)
LEMMA TimeoutTurn ==
  ASSUME Typed, InTurn, ReplyTimeout, OnlyHarmless
  PROVE  InTurn'
<1>1. /\ Waiting /\ hpc' = "failed"
      /\ UNCHANGED <<step, got, hostRate, restarts, asked, answered>>
      /\ UNCHANGED <<spc, prompts, frame, rate, executed, rx, tx>>
  BY DEF ReplyTimeout, stub
<1>2. Idle
  <2>1. faults + 1 # faults
    <3>1. faults \in 0 .. MaxFaults /\ MaxFaults \in Nat
      BY Constants DEF Typed, TypedLine
    <3> QED
      BY <3>1
  <2>2. ASSUME Link!Fault("slow work") PROVE FALSE
    <3>1. "slow work" \in FaultKinds /\ faults' = faults + 1
      BY <2>2 DEF Link!Fault
    <3>2. faults' # faults
      BY <2>1, <3>1
    <3> QED
      BY <3>1, <3>2 DEF OnlyHarmless
  <2> QED
    BY <2>2 DEF ReplyTimeout
<1>3. /\ Last' = Last /\ (Quiet' <=> Quiet) /\ (Switching' <=> Switching)
  BY <1>1, StationsStay
<1>4. Unanswered \/ Answered
  BY <1>1 DEF InTurn, InExchange
<1>5. ~Hearing /\ ~Working
  BY <1>2, NotIdle DEF Idle, Working
<1>6. Quiet \/ Switching
  BY <1>4, <1>5 DEF Unanswered, Answered, Result
<1>7. prompts' \/ spc' = "boot" =>
        step' = 1 /\ frame' = <<>> /\ hpc' \in {"upload", "next", "reply", "failed"}
  BY <1>1 DEF InTurn
<1> QED
  BY <1>1, <1>3, <1>6, <1>7 DEF InTurn, Waiting

(* The next probe finds a stub that waits, at whatever rate. *)
LEMMA RestartTurn ==
  ASSUME Typed, InTurn, Restart
  PROVE  InTurn'
<1>1. /\ hpc = "failed" /\ (spc = "work" \/ Idle) /\ restarts' = restarts + 1
      /\ hpc' = "next" /\ step' = 1 /\ tx' = <<>>
      /\ UNCHANGED <<asked, answered, rx, spc, prompts, frame, rate, executed>>
  BY DEF Restart, stub
<1>2. Quiet \/ Switching \/ Hearing
  BY <1>1 DEF InTurn
<1>3. Idle
  BY <1>1, <1>2 DEF Quiet, Switching, Hearing
<1>4. Quiet /\ rx = <<>>
  BY <1>2, <1>3, NotIdle DEF Idle, Switching
<1>5. Quiet' <=> Quiet
  BY <1>1, StationsStay
<1>6. restarts' # 0 /\ ~(step' > 1) /\ hpc' # "settle"
  <2>1. restarts \in Nat
    BY Constants DEF Typed, TypedHost
  <2> QED
    BY <1>1, <2>1
<1>7. Ready'
  BY <1>1, <1>4, <1>5, <1>6 DEF Ready
<1>8. frame = <<>>
  BY <1>4 DEF Quiet
<1> QED
  BY <1>1, <1>7, <1>8 DEF InTurn, Waiting

(* On a clear line only replies are lost. *)
LEMMA LineTurn ==
  ASSUME Typed, InTurn, Line, OnlyHarmless
  PROVE  InTurn'
<1>1. /\ UNCHANGED <<spc, prompts, frame, rate, executed>>
      /\ UNCHANGED <<hpc, step, got, hostRate, restarts, asked, answered>>
  BY DEF Line, stub, host
<1>0. faults + 1 # faults
  <2>1. faults \in 0 .. MaxFaults /\ MaxFaults \in Nat
    BY Constants DEF Typed, TypedLine
  <2> QED
    BY <2>1
<1>2. ASSUME NEW kind \in {"lost byte", "damaged byte", "damaged reply"},
             Link!Fault(kind)
      PROVE  FALSE
  <2>1. kind \in FaultKinds /\ faults' = faults + 1
    BY <1>2 DEF Link!Fault
  <2>2. faults' # faults
    BY <1>0, <2>1
  <2> QED
    BY <2>1, <2>2 DEF OnlyHarmless
<1>3. ASSUME spc \in {"work", "switch"}, Link!Overrun PROVE FALSE
  <2>1. ~Quiet /\ ~Hearing
    BY <1>3 DEF Quiet, Hearing
  <2>2. Working \/ Switching
    BY <2>1 DEF InTurn, Ready, InExchange, Unanswered, Answered, Result, Typed,
                TypedHost, Waiting
  <2>3. rx = <<>>
    BY <2>2 DEF Working, Switching
  <2>5. Len(rx) = 0
    BY <2>3
  <2>4. FifoDepth \in Nat
    BY Constants
  <2> QED
    BY <1>3, <2>4, <2>5 DEF Link!Overrun
<1>4. Link!LoseReply
  <2>1. ~Link!LoseByte
    BY <1>2 DEF Link!LoseByte
  <2>2. ~Link!Fault("damaged byte") /\ ~Link!Fault("damaged reply")
    BY <1>2
  <2> QED
    BY <1>3, <2>1, <2>2 DEF Line
<1>5. tx # <<>> /\ tx' = Tail(tx) /\ rx' = rx
  BY <1>4 DEF Link!LoseReply
<1>6. /\ Last' = Last /\ (Hearing' <=> Hearing) /\ (Quiet' <=> Quiet)
      /\ (Working' <=> Working) /\ (Switching' <=> Switching)
  BY <1>1, <1>5, StationsStay
<1>7. Command' = Command /\ (Waiting' <=> Waiting)
  BY <1>1, CommandStays
<1>8. tx \in Seq({Prompt}) => tx' \in Seq({Prompt})
  BY <1>5
<1>9. Ready => Ready'
  BY <1>1, <1>5, <1>6, <1>8 DEF Ready
<1>10. Unanswered => Unanswered'
  BY <1>1, <1>5, <1>6, <1>8 DEF Unanswered
<1>11. ASSUME Answered, asked # <<>> PROVE Answered'
  <2>1. PICK status \in Statuses :
             Result(status) /\ (Doomed \/ Underway(tx, got, ReplyTo(status)))
    BY <1>11 DEF Answered
  <2>2. Result(status)'
    BY <1>1, <1>5, <2>1, ResultStays
  <2>3. ReplyTo(status)' = ReplyTo(status)
    BY <1>6 DEF ReplyTo
  <2>4. ASSUME Underway(tx, got, ReplyTo(status))
        PROVE  Underway(tx', got, ReplyTo(status))
    <3>1. ReplyTo(status) \in Seq(Byte)
      BY <1>11, <2>1, ReplyToTyped
    <3>2. tx \in Seq(Byte) /\ got \in Seq(Byte)
      BY DEF Typed, TypedLine, TypedHost
    <3> QED
      BY <1>5, <2>4, <3>1, <3>2, UnderwayLoses
  <2>5. (Doomed \/ Underway(tx, got, ReplyTo(status)))'
    BY <1>1, <2>1, <2>3, <2>4 DEF Doomed
  <2> QED
    BY <1>1, <1>11, <2>2, <2>5 DEF Answered
<1>12. InExchange => InExchange'
  BY <1>1, <1>6, <1>7, <1>10, <1>11 DEF InExchange
<1> QED
  BY <1>1, <1>6, <1>7, <1>9, <1>12 DEF InTurn

(* Where nothing happens, both stay as they are. *)
LEMMA StutterTurn ==
  ASSUME InTurn, UNCHANGED vars
  PROVE  InTurn'
<1>1. /\ UNCHANGED <<spc, prompts, frame, rate, executed, rx, tx>>
      /\ UNCHANGED <<hpc, step, got, hostRate, restarts, asked, answered>>
  BY DEF vars, stub, host
<1>2. /\ Last' = Last /\ (Hearing' <=> Hearing) /\ (Quiet' <=> Quiet)
      /\ (Working' <=> Working) /\ (Switching' <=> Switching)
  BY <1>1, StationsStay
<1>3. Command' = Command /\ (Waiting' <=> Waiting)
  BY <1>1, CommandStays
<1>4. Ready => Ready'
  BY <1>1, <1>2 DEF Ready
<1>5. Unanswered => Unanswered'
  BY <1>1, <1>2 DEF Unanswered
<1>6. ASSUME Answered PROVE Answered'
  <2>1. PICK status \in Statuses :
             Result(status) /\ (Doomed \/ Underway(tx, got, ReplyTo(status)))
    BY <1>6 DEF Answered
  <2>2. Result(status)'
    BY <1>1, <2>1, ResultStays
  <2>3. (Doomed \/ Underway(tx, got, ReplyTo(status)))'
    BY <1>1, <1>2, <2>1 DEF Doomed, ReplyTo
  <2> QED
    BY <1>1, <1>6, <2>2, <2>3 DEF Answered
<1>7. InExchange => InExchange'
  BY <1>1, <1>2, <1>3, <1>5, <1>6 DEF InExchange
<1> QED
  BY <1>1, <1>2, <1>3, <1>4, <1>7 DEF InTurn

-----------------------------------------------------------------------------
(* The invariant, and what follows from it. *)

(* A probe that has just been started may send. *)
LEMMA InvInit == Init => IInv
<1> SUFFICES ASSUME Init PROVE IInv
  OBVIOUS
<1>1. Typed
  BY TypedInit
<1>2. /\ spc \in {"boot", "main"} /\ hpc \in {"upload", "next"}
      /\ frame = <<>> /\ rx = <<>> /\ tx = <<>> /\ step = 1 /\ hostRate = rate
      /\ asked = <<>> /\ executed = <<>> /\ answered = <<>>
  BY DEF Init
<1>3. Histories
  <2>1. <<>> \in Seq(Commands) /\ Len(<<>>) = 0
    OBVIOUS
  <2> QED
    BY <1>2, <2>1, WithinEmpty DEF Histories
<1>4. Quiet
  BY <1>2, <1>3 DEF Quiet
<1>5. Ready
  BY <1>2, <1>4 DEF Ready
<1> QED
  BY <1>1, <1>2, <1>5 DEF IInv, InTurn, Waiting

(* Both sides keep taking turns. *)
LEMMA InvStep == IInv /\ [Next]_vars => IInv'
<1> SUFFICES ASSUME IInv, [Next]_vars PROVE IInv'
  OBVIOUS
<1>1. Typed /\ Typed'
  BY TypedStep DEF IInv
<1> SUFFICES ASSUME Clear' PROVE InTurn'
  BY <1>1 DEF IInv
<1>2. Clear /\ OnlyHarmless
  BY <1>1, ClearBefore
<1>3. InTurn
  BY <1>2 DEF IInv
<1>4. CASE StubWork
  BY <1>1, <1>3, <1>4, PromptTurn, DropTurn, ReadTurn, NoFrameLost, RefuseTurn,
     SyncTurn, AcceptTurn, SetRateTurn, StartTurn, FinishTurn DEF StubWork
<1>5. CASE HostWork
  BY <1>1, <1>2, <1>3, <1>5, CountTurn, SendTurn, TakeTurn, RefuseReplyTurn,
     AcceptReplyTurn, FollowTurn, TimeoutTurn, RestartTurn DEF HostWork
<1>6. CASE Line
  BY <1>1, <1>2, <1>3, <1>6, LineTurn
<1>7. CASE UNCHANGED vars
  BY <1>3, <1>7, StutterTurn
<1> QED
  BY <1>4, <1>5, <1>6, <1>7 DEF Next

(* The histories fit, wherever the two stand. *)
LEMMA HistoriesFit ==
  ASSUME IInv, Clear
  PROVE  Histories
<1>1. Typed /\ InTurn
  BY DEF IInv
<1>2. Quiet \/ Switching \/ Hearing \/ Working
  BY <1>1 DEF InTurn, Ready, InExchange, Unanswered, Answered, Result, Typed,
              TypedHost, Waiting
<1> QED
  BY <1>1, <1>2, HearingHistories, DoneHistories DEF Quiet, Switching, Working

(* On a line that loses no byte to the stub and damages none, the stub     *)
(* executes only commands that the probe sent, with the data it sent, each *)
(* once and in their order, however often replies are lost, work fails,    *)
(* the rate changes, or the probe ends and is started again.               *)
THEOREM CommandsKept == Spec => [](Clear => Within(executed, asked) /\ OnlySentExecuted)
<1>1. IInv => (Clear => Within(executed, asked) /\ OnlySentExecuted)
  BY HistoriesFit DEF Histories, OnlySentExecuted
<1> QED
  BY <1>1, InvInit, InvStep, PTL DEF Spec

(* There, too, a success that the probe reads was the answer to a command  *)
(* which the stub executed for it, whatever part of a reply was lost, and  *)
(* whatever prompt got into it.                                            *)
THEOREM AnswersTrue == Spec => [](Clear => AnsweredWereExecuted)
<1>1. IInv => (Clear => AnsweredWereExecuted)
  BY HistoriesFit DEF Histories, AnsweredWereExecuted
<1> QED
  BY <1>1, InvInit, InvStep, PTL DEF Spec

(* And between two commands both sides use the same rate.                  *)
THEOREM RatesKept == Spec => [](Clear => RatesAgree)
<1>1. IInv => (Clear => RatesAgree)
  BY DEF IInv, InTurn, Ready, Switching, RatesAgree
<1> QED
  BY <1>1, InvInit, InvStep, PTL DEF Spec

=============================================================================
