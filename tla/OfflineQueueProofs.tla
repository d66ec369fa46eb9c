------------------------- MODULE OfflineQueueProofs -------------------------
(***************************************************************************)
(* What holds of OfflineQueue for any messages, length limit, time-to-live *)
(* and number of routers and replays at work.  Queue and rows are in the   *)
(* order of queueing but for the messages astray, and what waits is not    *)
(* older than what was delivered.  While nothing is dirty, the queue and   *)
(* the rows, those still to come included, agree from the end on as far as *)
(* they have not expired, which is why a restart changes nothing.          *)
(*                                                                         *)
(* Order and agreement are operators on sequences with lemmas of their     *)
(* own.  What the loop of Kept computes is shown by induction on its       *)
(* counter, in the form that a set of naturals has a least element         *)
(* (MinNat).                                                               *)
(***************************************************************************)
EXTENDS OfflineQueue, SequenceTheorems, WellFoundedInduction, TLAPS

(* Every nonempty set of naturals has a least element.                      *)
LEMMA MinNat ==
  ASSUME NEW T, T \subseteq Nat, T # {}
  PROVE  \E x \in T : \A y \in T : x <= y
<1>1. PICK R : R = OpToRel(<, Nat)
  BY Zenon
<1>2. IsWellFoundedOn(R, Nat)
  BY <1>1, NatLessThanWellFounded, Zenon
<1>3. \A x, y \in Nat : y < x => <<y, x>> \in R
  BY <1>1 DEF OpToRel
<1> HIDE <1>1
<1>4. PICK x \in T : \A y \in T : <<y, x>> \notin R
  BY <1>2, WFMin
<1>5. \A y \in T : ~(y < x)
  BY <1>3, <1>4
<1>6. QED
  BY <1>5

\* t is s without its first d elements.
Drops(t, s, d) ==
  /\ d \in 0..Len(s)
  /\ Len(t) = Len(s) - d
  /\ \A i \in 1..Len(t) : t[i] = s[i + d]

(* The loop of Kept over a sequence whose elements outside S come first     *)
(* drops exactly those.                                                     *)
LEMMA KeptDrops ==
  ASSUME NEW X, NEW s \in Seq(X), NEW S, NEW n \in 0..Len(s),
         \A i \in 1..Len(s) : s[i] \in S <=> i > n
  PROVE  Kept(s, S) \in Seq(X) /\ Drops(Kept(s, S), s, n)
<1> DEFINE L == Len(s)
           G(i) == SubSeq(s, n + 1, i)
           Step(h, i) == IF i = 0 THEN <<>>
                         ELSE IF s[i] \in S THEN Append(h[i - 1], s[i]) ELSE h[i - 1]
           g == [i \in 0..L |-> G(i)]
<1>0. L \in Nat /\ n \in 0..L /\ \A i \in 1..L : s[i] \in S <=> i > n
  OBVIOUS
<1>1. \A i \in 0..n : G(i) = <<>>
  BY <1>0, SubSeqEmpty
<1>2. \A j \in (n + 1)..L : s[j] \in X
  BY <1>0, ElementOfSeq
<1>3. \A i \in n..L : /\ G(i) \in Seq(X) /\ Len(G(i)) = i - n
                      /\ \A k \in 1..(i - n) : G(i)[k] = s[n + k]
  <2> SUFFICES ASSUME NEW i \in n..L
               PROVE  /\ G(i) \in Seq(X) /\ Len(G(i)) = i - n
                      /\ \A k \in 1..(i - n) : G(i)[k] = s[n + k]
    OBVIOUS
  <2>1. QED
    BY <1>0, <1>2, SubSeqProperties
<1> HIDE DEF L, G
<1>4. ASSUME NEW i \in (n + 1)..L PROVE G(i) = Append(G(i - 1), s[i])
  <2>0. i \in n..L /\ i - 1 \in n..L /\ i - n \in Nat /\ s[i] \in X
    BY <1>0, <1>2
  <2>1. PICK p : p = G(i - 1)
    OBVIOUS
  <2>2. /\ p \in Seq(X) /\ Len(p) = i - 1 - n
        /\ \A k \in 1..(i - 1 - n) : p[k] = s[n + k]
    BY <1>3, <2>0, <2>1
  <2>3. /\ Append(p, s[i]) \in Seq(X) /\ Len(Append(p, s[i])) = i - n
        /\ \A k \in 1..(i - n) : Append(p, s[i])[k] = s[n + k]
    <3>1. /\ Append(p, s[i]) \in Seq(X) /\ Len(Append(p, s[i])) = Len(p) + 1
          /\ \A k \in 1..Len(p) : Append(p, s[i])[k] = p[k]
          /\ Append(p, s[i])[Len(p) + 1] = s[i]
      BY <2>0, <2>2, AppendProperties
    <3>2. QED
      BY <1>0, <2>0, <2>2, <3>1
  <2>4. G(i) \in Seq(X) /\ Len(G(i)) = i - n /\ \A k \in 1..(i - n) : G(i)[k] = s[n + k]
    BY <1>3, <2>0
  <2>5. Len(G(i)) = Len(Append(p, s[i])) /\ \A k \in 1..Len(G(i)) : G(i)[k] = Append(p, s[i])[k]
    BY <2>3, <2>4
  <2>6. G(i) = Append(p, s[i])
    BY <2>3, <2>4, <2>5, SeqEqual
  <2>7. QED
    BY <2>1, <2>6
<1>5. ASSUME NEW i \in 0..L, NEW h, i # 0 => h[i - 1] = G(i - 1) PROVE G(i) = Step(h, i)
  <2>1. CASE i = 0
    BY <1>0, <1>1, <2>1
  <2>2. CASE i \in 1..n
    BY <1>0, <1>1, <1>5, <2>2
  <2>3. CASE i \in (n + 1)..L
    <3>1. i # 0 /\ s[i] \in S
      BY <1>0, <2>3
    <3>2. G(i) = Append(h[i - 1], s[i])
      BY <1>4, <1>5, <2>3, <3>1
    <3>3. QED
      BY <3>1, <3>2
  <2>4. QED
    BY <1>0, <2>1, <2>2, <2>3
<1>6. g = [i \in 0..L |-> Step(g, i)]
  <2>1. ASSUME NEW i \in 0..L PROVE g[i] = Step(g, i)
    <3>1. g[i] = G(i) /\ (i # 0 => g[i - 1] = G(i - 1))
      BY <1>0
    <3>2. QED
      BY <1>5, <3>1
  <2>2. QED
    BY <2>1
<1> HIDE DEF g
<1>7. PICK f : f = CHOOSE h : h = [i \in 0..L |-> Step(h, i)]
  OBVIOUS
<1>8. f = [i \in 0..L |-> Step(f, i)]
  BY <1>6, <1>7
<1>9. Kept(s, S) = f[L]
  BY <1>7, Zenon DEF Kept, L
<1>10. \A i \in 0..L : f[i] = G(i)
  <2> SUFFICES ASSUME NEW j \in 0..L, f[j] # G(j) PROVE FALSE
    OBVIOUS
  <2> DEFINE T == {i \in 0..L : f[i] # G(i)}
  <2>1. T \subseteq Nat /\ T # {}
    BY <1>0
  <2>2. PICK i \in T : \A k \in T : i <= k
    BY <2>1, MinNat
  <2>3. i # 0 => f[i - 1] = G(i - 1)
    BY <1>0, <2>2
  <2>4. i \in 0..L /\ f[i] = Step(f, i)
    BY <1>8, <2>2
  <2>5. QED
    BY <1>5, <2>2, <2>3, <2>4
<1>11. G(L) \in Seq(X) /\ Len(G(L)) = L - n /\ \A k \in 1..(L - n) : G(L)[k] = s[n + k]
  BY <1>0, <1>3
<1>12. Kept(s, S) = G(L)
  BY <1>0, <1>9, <1>10
<1>13. QED
  BY <1>0, <1>11, <1>12 DEF Drops, L

(* What a trim leaves are the newest.                                       *)
LEMMA NewestDrops ==
  ASSUME NEW X, NEW s \in Seq(X), NEW n \in Nat \ {0}
  PROVE  /\ Newest(s, n) \in Seq(X)
         /\ \E d \in 0..Len(s) : /\ Drops(Newest(s, n), s, d)
                                 /\ Len(Newest(s, n)) = IF Len(s) > n THEN n ELSE Len(s)
<1>1. CASE Len(s) > n
  <2>1. \A i \in (Len(s) - n + 1)..Len(s) : s[i] \in X
    BY <1>1, ElementOfSeq
  <2>2. Newest(s, n) = SubSeq(s, Len(s) - n + 1, Len(s))
    BY <1>1 DEF Newest
  <2>3. /\ Newest(s, n) \in Seq(X) /\ Len(Newest(s, n)) = n
        /\ \A i \in 1..n : Newest(s, n)[i] = s[Len(s) - n + i]
    <3>1. PICK p, q : p = Len(s) - n + 1 /\ q = Len(s)
      OBVIOUS
    <3>2. p \in Int /\ q \in Int /\ p <= q /\ q - p + 1 = n /\ \A i \in p..q : s[i] \in X
      BY <1>1, <2>1, <3>1
    <3>3. /\ SubSeq(s, p, q) \in Seq(X) /\ Len(SubSeq(s, p, q)) = q - p + 1
          /\ \A i \in 1..(q - p + 1) : SubSeq(s, p, q)[i] = s[p + i - 1]
      BY <3>2, SubSeqProperties
    <3>4. \A i \in 1..n : p + i - 1 = Len(s) - n + i
      BY <3>1
    <3>5. Newest(s, n) = SubSeq(s, p, q)
      BY <2>2, <3>1
    <3>6. QED
      BY <3>2, <3>3, <3>4, <3>5
  <2>4. Drops(Newest(s, n), s, Len(s) - n)
    BY <1>1, <2>3 DEF Drops
  <2>5. QED
    BY <1>1, <2>3, <2>4
<1>2. CASE ~(Len(s) > n)
  <2>1. Newest(s, n) = s
    BY <1>2 DEF Newest
  <2>2. Drops(s, s, 0)
    BY DEF Drops
  <2>3. QED
    BY <1>2, <2>1, <2>2
<1>3. QED
  BY <1>1, <1>2

(* Indices that are kept once an earlier one is begin at some point.        *)
LEMMA Threshold ==
  ASSUME NEW L \in Nat, NEW F, \A i, j \in 1..L : i <= j /\ i \in F => j \in F
  PROVE  \E n \in 0..L : \A i \in 1..L : i \in F <=> i > n
<1> DEFINE T == {n \in 0..L : \A i \in 1..L : i > n => i \in F}
<1>1. T \subseteq Nat /\ L \in T
  OBVIOUS
<1>2. PICK n \in T : \A k \in T : n <= k
  BY <1>1, MinNat
<1>3. ASSUME NEW i \in 1..L, i \in F, i <= n PROVE FALSE
  <2>1. n \in 1..L /\ n \in F
    BY <1>2, <1>3
  <2>2. n - 1 \in T
    BY <1>2, <2>1
  <2>3. QED
    BY <1>2, <2>1, <2>2
<1>4. QED
  BY <1>2, <1>3

(* There is a function that the loop of Kept computes, and Kept is its last *)
(* value.                                                                   *)
LEMMA KeptLoop ==
  ASSUME NEW X, NEW s \in Seq(X), NEW S
  PROVE  \E f : /\ Kept(s, S) = f[Len(s)]
                /\ f[0] = <<>>
                /\ \A i \in 1..Len(s) :
                     f[i] = IF s[i] \in S THEN Append(f[i - 1], s[i]) ELSE f[i - 1]
<1> DEFINE L == Len(s)
           Step(h, i) == IF i = 0 THEN <<>>
                         ELSE IF s[i] \in S THEN Append(h[i - 1], s[i]) ELSE h[i - 1]
           Loop(h, n) == h = [i \in 0..n |-> Step(h, i)]
<1>0. L \in Nat
  OBVIOUS
<1>1. Kept(s, S) = (CHOOSE h : Loop(h, L))[L]
  BY Zenon DEF Kept
<1> HIDE DEF L
<1>2. \E h : Loop(h, 0)
  <2>1. Loop([i \in 0..0 |-> <<>>], 0)
    <3>1. \A h : \A i \in 0..0 : Step(h, i) = <<>>
      OBVIOUS
    <3>2. QED
      BY <3>1
  <2>2. QED
    BY <2>1
<1>3. ASSUME NEW n \in Nat, NEW h, Loop(h, n) PROVE \E g : Loop(g, n + 1)
  <2>1. PICK v : v = Step(h, n + 1)
    OBVIOUS
  <2>2. PICK g : g = [i \in 0..(n + 1) |-> IF i = n + 1 THEN v ELSE h[i]]
    OBVIOUS
  <2>3. \A i \in 0..n : g[i] = h[i] /\ h[i] = Step(h, i)
    <3>1. \A i \in 0..n : g[i] = h[i]
      BY <2>2
    <3>2. \A i \in 0..n : h[i] = Step(h, i)
      BY <1>3, Zenon
    <3>3. QED
      BY <3>1, <3>2
  <2>4. g[n + 1] = v
    BY <2>2
  <2>5. ASSUME NEW i \in 0..(n + 1) PROVE Step(g, i) = Step(h, i)
    <3>1. CASE i = 0
      BY <3>1
    <3>2. CASE i # 0
      <4>1. i - 1 \in 0..n
        BY <3>2
      <4>2. g[i - 1] = h[i - 1]
        BY <2>3, <4>1
      <4>3. QED
        BY <4>2
    <3>3. QED
      BY <3>1, <3>2
  <2>6. ASSUME NEW i \in 0..(n + 1) PROVE g[i] = Step(g, i)
    <3>1. CASE i = n + 1
      BY <2>1, <2>4, <2>5, <3>1
    <3>2. CASE i \in 0..n
      BY <2>3, <2>5, <3>2
    <3>3. QED
      BY <3>1, <3>2
  <2> HIDE DEF Step
  <2>7. g = [i \in 0..(n + 1) |-> g[i]]
    BY <2>2
  <2>8. Loop(g, n + 1)
    BY <2>6, <2>7
  <2>9. QED
    BY <2>8
<1> HIDE DEF Loop
<1>4. \E h : Loop(h, L)
  <2> SUFFICES ASSUME ~ \E h : Loop(h, L) PROVE FALSE
    OBVIOUS
  <2> DEFINE T == {n \in Nat : ~ \E h : Loop(h, n)}
  <2>1. T \subseteq Nat /\ T # {}
    BY <1>0
  <2>2. PICK n \in T : \A k \in T : n <= k
    BY <2>1, MinNat
  <2>3. n # 0 /\ n \in Nat
    BY <1>2, <2>2
  <2>4. n - 1 \in Nat /\ n - 1 \notin T
    BY <2>2, <2>3
  <2>5. PICK h : Loop(h, n - 1)
    BY <2>4
  <2>6. \E g : Loop(g, (n - 1) + 1)
    BY <1>3, <2>4, <2>5
  <2>7. (n - 1) + 1 = n
    BY <2>3
  <2>8. QED
    BY <2>2, <2>6, <2>7
<1>5. PICK f : f = CHOOSE h : Loop(h, L)
  OBVIOUS
<1>6. Loop(f, L)
  BY <1>4, <1>5
<1>7. \A i \in 0..L : f[i] = Step(f, i)
  BY <1>6, Zenon DEF Loop
<1>8. f[0] = <<>>
  BY <1>0, <1>7
<1>9. \A i \in 1..L : f[i] = IF s[i] \in S THEN Append(f[i - 1], s[i]) ELSE f[i - 1]
  BY <1>0, <1>7
<1>10. Kept(s, S) = f[L]
  BY <1>1, <1>5, Zenon
<1>11. QED
  BY <1>8, <1>9, <1>10 DEF L

\* The elements of r come from s, in the same order.
Sub(r, s) ==
  \A i, j \in 1..Len(r) :
    i <= j => \E p, q \in 1..Len(s) : p <= q /\ r[i] = s[p] /\ r[j] = s[q]

(* The loop of Kept leaves the elements in S, and those only, in order.     *)
LEMMA KeptSub ==
  ASSUME NEW X, NEW s \in Seq(X), NEW S
  PROVE  /\ Kept(s, S) \in Seq(X) /\ Sub(Kept(s, S), s)
         /\ \A i \in 1..Len(Kept(s, S)) : Kept(s, S)[i] \in S
         /\ \A i \in 1..Len(s) : s[i] \in S => Kept(s, S) # <<>>
<1>1. PICK f : /\ Kept(s, S) = f[Len(s)]
               /\ f[0] = <<>>
               /\ \A i \in 1..Len(s) :
                    f[i] = IF s[i] \in S THEN Append(f[i - 1], s[i]) ELSE f[i - 1]
  BY KeptLoop
<1> DEFINE Right(n) ==
             /\ f[n] \in Seq(X)
             /\ \A i, j \in 1..Len(f[n]) : i <= j =>
                  \E p, q \in 1..n : p <= q /\ f[n][i] = s[p] /\ f[n][j] = s[q]
             /\ \A i \in 1..Len(f[n]) : f[n][i] \in S
             /\ \A i \in 1..n : s[i] \in S => f[n] # <<>>
<1>2. Right(0)
  <2>1. Len(f[0]) = 0
    BY <1>1
  <2>2. QED
    BY <1>1, <2>1
<1>3. ASSUME NEW n \in 0..(Len(s) - 1), Right(n) PROVE Right(n + 1)
  <2>0. n + 1 \in 1..Len(s) /\ (n + 1) - 1 = n /\ s[n + 1] \in X /\ n \in Nat
    BY ElementOfSeq
  <2>1. CASE s[n + 1] \in S
    <3>1. PICK g, h : g = f[n] /\ h = f[n + 1]
      OBVIOUS
    <3>2. h = Append(g, s[n + 1])
      BY <1>1, <2>0, <2>1, <3>1
    <3>3. g \in Seq(X) /\ Len(g) \in Nat
      BY <1>3, <3>1
    <3>4. /\ h \in Seq(X) /\ Len(h) = Len(g) + 1 /\ h[Len(g) + 1] = s[n + 1]
          /\ \A i \in 1..Len(g) : h[i] = g[i]
      BY <2>0, <3>2, <3>3, AppendProperties
    <3>5. h # <<>>
      BY <3>3, <3>4
    <3>6. ASSUME NEW i \in 1..Len(h) PROVE h[i] \in S
      <4>1. CASE i \in 1..Len(g)
        BY <1>3, <3>1, <3>4, <4>1
      <4>2. CASE i = Len(g) + 1
        BY <2>1, <3>4, <4>2
      <4>3. QED
        BY <3>3, <3>4, <4>1, <4>2
    <3>7. ASSUME NEW i \in 1..Len(h), NEW j \in 1..Len(h), i <= j
          PROVE  \E p, q \in 1..(n + 1) : p <= q /\ h[i] = s[p] /\ h[j] = s[q]
      <4>1. CASE j <= Len(g)
        <5>1. i \in 1..Len(g) /\ j \in 1..Len(g)
          BY <3>3, <3>4, <3>7, <4>1
        <5>2. PICK p, q \in 1..n : p <= q /\ g[i] = s[p] /\ g[j] = s[q]
          BY <1>3, <3>1, <3>7, <5>1
        <5>3. p \in 1..(n + 1) /\ q \in 1..(n + 1)
          BY <2>0
        <5>4. QED
          BY <3>4, <5>1, <5>2, <5>3
      <4>2. CASE i <= Len(g) /\ j = Len(g) + 1
        <5>1. i \in 1..Len(g) /\ i <= i
          BY <3>3, <3>4, <4>2
        <5>2. PICK p, q \in 1..n : p <= q /\ g[i] = s[p] /\ g[i] = s[q]
          BY <1>3, <3>1, <5>1
        <5>3. p \in 1..(n + 1) /\ n + 1 \in 1..(n + 1) /\ p <= n + 1
          BY <2>0
        <5>4. QED
          BY <3>4, <4>2, <5>1, <5>2, <5>3
      <4>3. CASE i = Len(g) + 1 /\ j = Len(g) + 1
        <5>1. n + 1 \in 1..(n + 1) /\ n + 1 <= n + 1
          BY <2>0
        <5>2. QED
          BY <3>4, <4>3, <5>1
      <4>4. QED
        BY <3>3, <3>4, <3>7, <4>1, <4>2, <4>3
    <3>8. QED
      BY <3>1, <3>4, <3>5, <3>6, <3>7
  <2>2. CASE s[n + 1] \notin S
    <3>1. f[n + 1] = f[n]
      BY <1>1, <2>0, <2>2
    <3>2. ASSUME NEW i \in 1..Len(f[n]), NEW j \in 1..Len(f[n]), i <= j
          PROVE  \E p, q \in 1..(n + 1) : p <= q /\ f[n][i] = s[p] /\ f[n][j] = s[q]
      <4>1. PICK p, q \in 1..n : p <= q /\ f[n][i] = s[p] /\ f[n][j] = s[q]
        BY <1>3, <3>2
      <4>2. p \in 1..(n + 1) /\ q \in 1..(n + 1)
        BY <2>0
      <4>3. QED
        BY <4>1, <4>2
    <3>3. \A i \in 1..(n + 1) : s[i] \in S => i \in 1..n
      BY <2>0, <2>2
    <3>4. QED
      BY <1>3, <3>1, <3>2, <3>3
  <2>3. QED
    BY <2>1, <2>2
<1>4. Len(s) \in Nat
  OBVIOUS
<1> HIDE DEF Right
<1>5. Right(Len(s))
  <2> SUFFICES ASSUME ~Right(Len(s)) PROVE FALSE
    OBVIOUS
  <2> DEFINE T == {n \in 0..Len(s) : ~Right(n)}
  <2>1. T \subseteq Nat /\ T # {}
    BY <1>4
  <2>2. PICK n \in T : \A k \in T : n <= k
    BY <2>1, MinNat
  <2>3. n \in 1..Len(s)
    BY <1>2, <1>4, <2>2
  <2>4. n - 1 \in 0..(Len(s) - 1) /\ n - 1 \notin T /\ n - 1 \in 0..Len(s) /\ (n - 1) + 1 = n
    BY <1>4, <2>2, <2>3
  <2>5. Right(n - 1)
    BY <2>4
  <2>6. Right((n - 1) + 1)
    BY <1>3, <2>4, <2>5
  <2>7. QED
    BY <2>2, <2>4, <2>6
<1>6. QED
  BY <1>1, <1>5 DEF Right, Sub

(* A loop that drops a beginning keeps the order, and so does a trim.       *)
LEMMA DropsSub ==
  ASSUME NEW X, NEW r \in Seq(X), NEW s \in Seq(X), NEW d, Drops(r, s, d)
  PROVE  Sub(r, s)
<1> SUFFICES ASSUME NEW i \in 1..Len(r), NEW j \in 1..Len(r), i <= j
             PROVE  \E p, q \in 1..Len(s) : p <= q /\ r[i] = s[p] /\ r[j] = s[q]
  BY DEF Sub
<1>1. Len(s) \in Nat /\ d \in 0..Len(s) /\ Len(r) = Len(s) - d
  BY DEF Drops
<1>2. i + d \in 1..Len(s) /\ j + d \in 1..Len(s) /\ i + d <= j + d
  BY <1>1
<1>3. r[i] = s[i + d] /\ r[j] = s[j + d]
  BY DEF Drops
<1>4. QED
  BY <1>2, <1>3

Entries == [msg : Msgs, queuedAt : 0..MaxTime]

(* The messages of entries.                                                 *)
LEMMA ContentsIs ==
  ASSUME NEW s \in Seq(Entries)
  PROVE  /\ Contents(s) \in Seq(Msgs) /\ Len(s) \in Nat /\ Len(Contents(s)) = Len(s)
         /\ \A i \in 1..Len(s) : /\ s[i] \in Entries /\ s[i].msg \in Msgs /\ s[i].queuedAt \in Nat
                                 /\ Contents(s)[i] = s[i].msg
         /\ Range(Contents(s)) = {s[i].msg : i \in 1..Len(s)}
         /\ Range(s) = {s[i] : i \in 1..Len(s)}
<1>1. Len(s) \in Nat /\ DOMAIN s = 1..Len(s) /\ \A i \in 1..Len(s) : s[i] \in Entries
  BY ElementOfSeq, LenProperties
<1>2. \A e \in Entries : e.msg \in Msgs /\ e.queuedAt \in Nat
  BY QueueAssumption DEF Entries
<1>3. PICK c : c = Contents(s)
  OBVIOUS
<1>4. c = [i \in 1..Len(s) |-> s[i].msg]
  BY <1>3 DEF Contents
<1>5. c \in Seq(Msgs) /\ Len(c) = Len(s) /\ \A i \in 1..Len(s) : c[i] = s[i].msg
  BY <1>1, <1>2, <1>4
<1>6. Range(c) = {s[i].msg : i \in 1..Len(s)}
  BY <1>4 DEF Range
<1>7. Range(s) = {s[i] : i \in 1..Len(s)}
  BY <1>1 DEF Range
<1>8. QED
  BY <1>1, <1>2, <1>3, <1>5, <1>6, <1>7

(* The messages of entries left in order are left in order.                 *)
LEMMA SubContents ==
  ASSUME NEW r \in Seq(Entries), NEW s \in Seq(Entries), Sub(r, s)
  PROVE  Sub(Contents(r), Contents(s))
<1>1. /\ Len(Contents(r)) = Len(r) /\ \A i \in 1..Len(r) : Contents(r)[i] = r[i].msg
      /\ Len(Contents(s)) = Len(s) /\ \A i \in 1..Len(s) : Contents(s)[i] = s[i].msg
  BY ContentsIs
<1> SUFFICES ASSUME NEW i \in 1..Len(r), NEW j \in 1..Len(r), i <= j
             PROVE  \E p, q \in 1..Len(s) :
                      p <= q /\ Contents(r)[i] = Contents(s)[p] /\ Contents(r)[j] = Contents(s)[q]
  BY <1>1 DEF Sub
<1>2. PICK p, q \in 1..Len(s) : p <= q /\ r[i] = s[p] /\ r[j] = s[q]
  BY DEF Sub
<1>3. QED
  BY <1>1, <1>2

\* By t, the messages of s are in order, but for those in A that come late.
Ordered(s, A, t) ==
  \A i, j \in 1..Len(s) : i <= j /\ s[j] \notin A => t[s[i]] <= t[s[j]]

\* By t, no message of s is older than one of d, but for those in A.
Behind(d, s, A, t) ==
  \A i \in 1..Len(d), j \in 1..Len(s) : s[j] \notin A => t[d[i]] <= t[s[j]]

(* What is left of an ordered sequence is ordered.                          *)
LEMMA SubOrdered ==
  ASSUME NEW r, NEW s, NEW A, NEW t, Sub(r, s), Ordered(s, A, t)
  PROVE  Ordered(r, A, t)
<1> SUFFICES ASSUME NEW i \in 1..Len(r), NEW j \in 1..Len(r), i <= j, r[j] \notin A
             PROVE  t[r[i]] <= t[r[j]]
  BY DEF Ordered
<1>1. PICK p, q \in 1..Len(s) : p <= q /\ r[i] = s[p] /\ r[j] = s[q]
  BY DEF Sub
<1>2. QED
  BY <1>1 DEF Ordered

(* What is left of messages behind others is behind them.                   *)
LEMMA SubBehind ==
  ASSUME NEW d, NEW r, NEW s, NEW A, NEW t, Sub(r, s), Behind(d, s, A, t)
  PROVE  Behind(d, r, A, t)
<1> SUFFICES ASSUME NEW i \in 1..Len(d), NEW j \in 1..Len(r), r[j] \notin A
             PROVE  t[d[i]] <= t[r[j]]
  BY DEF Behind
<1>1. j <= j
  OBVIOUS
<1>2. PICK p, q \in 1..Len(s) : p <= q /\ r[j] = s[p] /\ r[j] = s[q]
  BY <1>1 DEF Sub
<1>3. QED
  BY <1>2 DEF Behind

(* A message that is astray or not older than the rest may be appended.     *)
LEMMA OrderedAppend ==
  ASSUME NEW X, NEW s \in Seq(X), NEW m \in X, NEW A, NEW t, Ordered(s, A, t),
         t[m] \in Int, m \in A \/ \A i \in 1..Len(s) : t[s[i]] <= t[m]
  PROVE  Ordered(Append(s, m), A, t)
<1>1. PICK a : a = Append(s, m)
  OBVIOUS
<1>2. /\ Len(s) \in Nat /\ Len(a) = Len(s) + 1 /\ a[Len(s) + 1] = m
      /\ \A i \in 1..Len(s) : a[i] = s[i]
  BY <1>1, AppendProperties
<1>3. ASSUME NEW i \in 1..Len(a), NEW j \in 1..Len(a), i <= j, a[j] \notin A
      PROVE  t[a[i]] <= t[a[j]]
  <2>1. CASE j \in 1..Len(s)
    <3>1. i \in 1..Len(s)
      BY <1>2, <1>3, <2>1
    <3>2. QED
      BY <1>2, <1>3, <2>1, <3>1 DEF Ordered
  <2>2. CASE j = Len(s) + 1 /\ i \in 1..Len(s)
    BY <1>2, <1>3, <2>2
  <2>3. CASE j = Len(s) + 1 /\ i = Len(s) + 1
    BY <1>2, <2>3
  <2>4. QED
    BY <1>2, <1>3, <2>1, <2>2, <2>3
<1>4. QED
  BY <1>1, <1>3 DEF Ordered

(* The same, for messages behind others.                                    *)
LEMMA BehindAppend ==
  ASSUME NEW X, NEW s \in Seq(X), NEW m \in X, NEW A, NEW t, NEW d, Behind(d, s, A, t),
         m \in A \/ \A i \in 1..Len(d) : t[d[i]] <= t[m]
  PROVE  Behind(d, Append(s, m), A, t)
<1>1. PICK a : a = Append(s, m)
  OBVIOUS
<1>2. /\ Len(s) \in Nat /\ Len(a) = Len(s) + 1 /\ a[Len(s) + 1] = m
      /\ \A i \in 1..Len(s) : a[i] = s[i]
  BY <1>1, AppendProperties
<1>3. ASSUME NEW i \in 1..Len(d), NEW j \in 1..Len(a), a[j] \notin A
      PROVE  t[d[i]] <= t[a[j]]
  <2>1. CASE j \in 1..Len(s)
    BY <1>2, <1>3, <2>1 DEF Behind
  <2>2. CASE j = Len(s) + 1
    BY <1>2, <1>3, <2>2
  <2>3. QED
    BY <1>2, <1>3, <2>1, <2>2
<1>4. QED
  BY <1>1, <1>3 DEF Behind

(* What is ordered and behind may be appended as a whole.                   *)
LEMMA OrderedConcat ==
  ASSUME NEW X, NEW d \in Seq(X), NEW r \in Seq(X), NEW A, NEW t,
         Ordered(d, A, t), Ordered(r, A, t), Behind(d, r, A, t)
  PROVE  Ordered(d \o r, A, t)
<1>1. PICK c : c = d \o r
  OBVIOUS
<1>2. /\ Len(d) \in Nat /\ Len(r) \in Nat /\ Len(c) = Len(d) + Len(r)
      /\ \A i \in 1..Len(c) : c[i] = IF i <= Len(d) THEN d[i] ELSE r[i - Len(d)]
  BY <1>1, ConcatProperties
<1>3. ASSUME NEW i \in 1..Len(c), NEW j \in 1..Len(c), i <= j, c[j] \notin A
      PROVE  t[c[i]] <= t[c[j]]
  <2>1. CASE j <= Len(d)
    <3>1. i \in 1..Len(d) /\ j \in 1..Len(d) /\ c[i] = d[i] /\ c[j] = d[j]
      BY <1>2, <1>3, <2>1
    <3>2. QED
      BY <1>3, <3>1 DEF Ordered
  <2>2. CASE i <= Len(d) /\ j > Len(d)
    <3>1. i \in 1..Len(d) /\ j - Len(d) \in 1..Len(r) /\ c[i] = d[i] /\ c[j] = r[j - Len(d)]
      BY <1>2, <2>2
    <3>2. QED
      BY <1>3, <3>1 DEF Behind
  <2>3. CASE i > Len(d)
    <3>1. /\ i - Len(d) \in 1..Len(r) /\ j - Len(d) \in 1..Len(r) /\ i - Len(d) <= j - Len(d)
          /\ c[i] = r[i - Len(d)] /\ c[j] = r[j - Len(d)]
      BY <1>2, <1>3, <2>3
    <3>2. QED
      BY <1>3, <3>1 DEF Ordered
  <2>4. QED
    BY <1>2, <2>1, <2>2, <2>3
<1>4. QED
  BY <1>1, <1>3 DEF Ordered

-----------------------------------------------------------------------------

\* The k-th message of p from the end is in Y.
In(p, k, Y) == k < Len(p) /\ p[Len(p) - k] \in Y

\* From the end on, as far back as a queue goes, q and p have the same of Y.
Agree(q, p, Y) ==
  \A k \in 0..(MaxLen - 1) :
    /\ In(q, k, Y) <=> In(p, k, Y)
    /\ In(p, k, Y) => q[Len(q) - k] = p[Len(p) - k]

(* Sequences that agree on a set agree on a smaller one.                    *)
LEMMA AgreeFewer ==
  ASSUME NEW q, NEW p, NEW Y, NEW Z, Agree(q, p, Y), Z \subseteq Y
  PROVE  Agree(q, p, Z)
<1> SUFFICES ASSUME NEW k \in 0..(MaxLen - 1)
             PROVE  /\ In(q, k, Z) <=> In(p, k, Z)
                    /\ In(p, k, Z) => q[Len(q) - k] = p[Len(p) - k]
  BY DEF Agree
<1>1. /\ In(q, k, Y) <=> In(p, k, Y)
      /\ In(p, k, Y) => q[Len(q) - k] = p[Len(p) - k]
  BY DEF Agree
<1>2. (In(q, k, Z) => In(q, k, Y)) /\ (In(p, k, Z) => In(p, k, Y))
  BY DEF In
<1>3. QED
  BY <1>1, <1>2 DEF In

(* One without anything of the set may as well be empty.                    *)
LEMMA AgreeEmpty ==
  ASSUME NEW q, NEW p, NEW Y, Agree(q, p, Y), Len(q) \in Nat, \A i \in 1..Len(q) : q[i] \notin Y
  PROVE  Agree(<<>>, p, Y)
<1> SUFFICES ASSUME NEW k \in 0..(MaxLen - 1)
             PROVE  ~In(<<>>, k, Y) /\ ~In(p, k, Y)
  BY DEF Agree
<1>1. k \in Nat
  BY QueueAssumption
<1>2. ~In(q, k, Y)
  BY <1>1 DEF In
<1>3. ~In(<<>>, k, Y)
  BY <1>1 DEF In
<1>4. QED
  BY <1>2, <1>3 DEF Agree

(* A trimmed sequence agrees with the whole.                                *)
LEMMA AgreeNewest ==
  ASSUME NEW X, NEW p \in Seq(X), NEW Y
  PROVE  Agree(Newest(p, MaxLen), p, Y)
<1>1. PICK t : t = Newest(p, MaxLen)
  OBVIOUS
<1>2. PICK d \in 0..Len(p) : Drops(t, p, d) /\ Len(t) = IF Len(p) > MaxLen THEN MaxLen ELSE Len(p)
  BY <1>1, NewestDrops, QueueAssumption
<1> SUFFICES ASSUME NEW k \in 0..(MaxLen - 1)
             PROVE  /\ k < Len(t) <=> k < Len(p)
                    /\ k < Len(p) => t[Len(t) - k] = p[Len(p) - k]
  BY <1>1 DEF Agree, In
<1>3. k \in Nat /\ MaxLen \in Nat /\ Len(p) \in Nat
  BY QueueAssumption
<1>4. k < Len(t) <=> k < Len(p)
  BY <1>2, <1>3
<1>5. ASSUME k < Len(p) PROVE t[Len(t) - k] = p[Len(p) - k]
  <2>1. Len(t) = Len(p) - d /\ d \in Nat
    BY <1>2, <1>3 DEF Drops
  <2>2. Len(t) - k \in 1..Len(t) /\ (Len(t) - k) + d = Len(p) - k
    BY <1>3, <1>4, <1>5, <2>1
  <2>3. QED
    BY <1>2, <2>2 DEF Drops
<1>6. QED
  BY <1>4, <1>5

(* A beginning without anything of the set may be dropped.                  *)
LEMMA AgreeDrops ==
  ASSUME NEW X, NEW q, NEW p \in Seq(X), NEW r \in Seq(X), NEW Y, NEW d, Agree(q, p, Y),
         Drops(r, p, d), \A i \in 1..d : p[i] \notin Y
  PROVE  Agree(q, r, Y)
<1> SUFFICES ASSUME NEW k \in 0..(MaxLen - 1)
             PROVE  /\ In(r, k, Y) <=> In(p, k, Y)
                    /\ In(r, k, Y) => r[Len(r) - k] = p[Len(p) - k]
  BY DEF Agree
<1>1. /\ k \in Nat /\ Len(p) \in Nat /\ d \in 0..Len(p) /\ Len(r) = Len(p) - d
      /\ \A i \in 1..Len(r) : r[i] = p[i + d]
  BY QueueAssumption DEF Drops
<1>2. ASSUME k < Len(r) PROVE k < Len(p) /\ r[Len(r) - k] = p[Len(p) - k]
  <2>1. Len(r) - k \in 1..Len(r) /\ (Len(r) - k) + d = Len(p) - k /\ k < Len(p)
    BY <1>1, <1>2
  <2>2. QED
    BY <1>1, <2>1
<1>3. ASSUME In(p, k, Y) PROVE k < Len(r)
  <2>1. Len(p) - k \in 1..Len(p) /\ p[Len(p) - k] \in Y
    BY <1>1, <1>3 DEF In
  <2>2. Len(p) - k \notin 1..d
    BY <2>1
  <2>3. QED
    BY <1>1, <2>1, <2>2
<1>4. In(p, k, Y) => In(r, k, Y)
  BY <1>2, <1>3 DEF In
<1>5. In(r, k, Y) => In(p, k, Y) /\ r[Len(r) - k] = p[Len(p) - k]
  BY <1>2 DEF In
<1>6. QED
  BY <1>4, <1>5

(* Appending the same message, and trimming one, keeps the agreement.       *)
LEMMA AgreeAppend ==
  ASSUME NEW X, NEW q \in Seq(X), NEW p \in Seq(X), NEW m \in X, NEW Y, NEW Z,
         Agree(q, p, Y), Len(q) <= MaxLen, m \in Z,
         \A i \in 1..Len(q) : q[i] \in Z <=> q[i] \in Y,
         \A i \in 1..Len(p) : p[i] \in Z <=> p[i] \in Y
  PROVE  Agree(Newest(Append(q, m), MaxLen), Append(p, m), Z)
<1>1. PICK a, t, b : a = Append(q, m) /\ t = Newest(a, MaxLen) /\ b = Append(p, m)
  OBVIOUS
<1>2. /\ a \in Seq(X) /\ Len(q) \in Nat /\ Len(a) = Len(q) + 1 /\ a[Len(q) + 1] = m
      /\ \A i \in 1..Len(q) : a[i] = q[i]
  BY <1>1, AppendProperties
<1>3. /\ Len(p) \in Nat /\ Len(b) = Len(p) + 1 /\ b[Len(p) + 1] = m
      /\ \A i \in 1..Len(p) : b[i] = p[i]
  BY <1>1, AppendProperties
<1>4. PICK d \in 0..Len(a) : Drops(t, a, d) /\ Len(t) = IF Len(a) > MaxLen THEN MaxLen ELSE Len(a)
  BY <1>1, <1>2, NewestDrops, QueueAssumption
<1>5. /\ d \in Nat /\ Len(t) \in Nat /\ Len(t) = Len(q) + 1 - d
      /\ \A i \in 1..Len(t) : i + d \in 1..(Len(q) + 1) /\ t[i] = a[i + d]
  BY <1>2, <1>4 DEF Drops
<1> SUFFICES ASSUME NEW k \in 0..(MaxLen - 1)
             PROVE  /\ In(t, k, Z) <=> In(b, k, Z)
                    /\ In(b, k, Z) => t[Len(t) - k] = b[Len(b) - k]
  BY <1>1 DEF Agree
<1>6. k \in Nat /\ MaxLen \in Nat /\ MaxLen > 0 /\ k < MaxLen
  BY QueueAssumption
<1>7. CASE k = 0
  <2>1. Len(t) > 0 /\ Len(t) - k = Len(t) /\ Len(b) - k = Len(p) + 1 /\ Len(t) + d = Len(q) + 1
    BY <1>2, <1>3, <1>4, <1>5, <1>6, <1>7
  <2>2. t[Len(t) - k] = m /\ b[Len(b) - k] = m
    <3>1. Len(t) \in 1..Len(t)
      BY <1>5, <2>1
    <3>2. t[Len(t)] = a[Len(t) + d]
      BY <1>5, <3>1
    <3>3. QED
      BY <1>2, <1>3, <2>1, <3>2
  <2>3. k < Len(t) /\ k < Len(b)
    BY <1>3, <1>7, <2>1
  <2>4. QED
    BY <2>2, <2>3 DEF In
<1>8. CASE k # 0
  <2>0. k - 1 \in 0..(MaxLen - 1) /\ k - 1 \in Nat
    BY <1>6, <1>8
  <2>1. k < Len(t) <=> k - 1 < Len(q)
    BY <1>2, <1>4, <1>6
  <2>2. k < Len(b) <=> k - 1 < Len(p)
    BY <1>3, <1>6
  <2>3. ASSUME k < Len(t)
        PROVE  Len(q) - (k - 1) \in 1..Len(q) /\ t[Len(t) - k] = q[Len(q) - (k - 1)]
    <3>1. /\ Len(t) - k \in 1..Len(t) /\ (Len(t) - k) + d = Len(q) - (k - 1)
          /\ Len(q) - (k - 1) \in 1..Len(q)
      BY <1>2, <1>5, <1>6, <2>0, <2>1, <2>3
    <3>2. QED
      BY <1>2, <1>5, <3>1
  <2>4. ASSUME k < Len(b)
        PROVE  Len(p) - (k - 1) \in 1..Len(p) /\ b[Len(b) - k] = p[Len(p) - (k - 1)]
    <3>1. Len(b) - k = Len(p) - (k - 1) /\ Len(p) - (k - 1) \in 1..Len(p)
      BY <1>3, <1>6, <2>0, <2>2, <2>4
    <3>2. QED
      BY <1>3, <3>1
  <2>5. In(t, k, Z) <=> In(q, k - 1, Y)
    BY <2>1, <2>3 DEF In
  <2>6. In(b, k, Z) <=> In(p, k - 1, Y)
    BY <2>2, <2>4 DEF In
  <2>7. /\ In(q, k - 1, Y) <=> In(p, k - 1, Y)
        /\ In(p, k - 1, Y) => q[Len(q) - (k - 1)] = p[Len(p) - (k - 1)]
    BY <2>0 DEF Agree
  <2>8. ASSUME In(b, k, Z) PROVE t[Len(t) - k] = b[Len(b) - k]
    <3>1. k < Len(b) /\ k < Len(t)
      BY <2>5, <2>6, <2>7, <2>8 DEF In
    <3>2. QED
      BY <2>3, <2>4, <2>6, <2>7, <2>8, <3>1
  <2>9. QED
    BY <2>5, <2>6, <2>7, <2>8
<1>9. QED
  BY <1>7, <1>8

(* Where all is in the set, agreement is equality up to the trim.           *)
LEMMA AgreeAll ==
  ASSUME NEW X, NEW q \in Seq(X), NEW p \in Seq(X), NEW Y, Agree(q, p, Y), Len(q) <= MaxLen,
         \A i \in 1..Len(q) : q[i] \in Y, \A i \in 1..Len(p) : p[i] \in Y
  PROVE  q = Newest(p, MaxLen)
<1>0. Len(q) \in Nat /\ Len(p) \in Nat /\ MaxLen \in Nat /\ MaxLen > 0
  BY QueueAssumption
<1>1. ASSUME NEW k \in 0..(MaxLen - 1)
      PROVE  /\ k < Len(p) <=> k < Len(q)
             /\ k < Len(p) => q[Len(q) - k] = p[Len(p) - k]
  <2>0. k \in Nat
    BY <1>0
  <2>1. k < Len(q) <=> In(q, k, Y)
    BY <1>0, <2>0 DEF In
  <2>2. k < Len(p) <=> In(p, k, Y)
    BY <1>0, <2>0 DEF In
  <2>3. QED
    BY <2>1, <2>2 DEF Agree
<1>2. Len(q) = IF Len(p) > MaxLen THEN MaxLen ELSE Len(p)
  <2>1. CASE Len(q) < MaxLen
    BY <1>0, <1>1, <2>1
  <2>2. CASE Len(q) = MaxLen
    <3>1. MaxLen - 1 \in 0..(MaxLen - 1) /\ MaxLen - 1 < Len(q)
      BY <1>0, <2>2
    <3>2. MaxLen - 1 < Len(p)
      BY <1>1, <3>1
    <3>3. QED
      BY <1>0, <2>2, <3>2
  <2>3. QED
    BY <1>0, <2>1, <2>2
<1>3. PICK t : t = Newest(p, MaxLen)
  OBVIOUS
<1>4. PICK d \in 0..Len(p) :
        /\ t \in Seq(X) /\ Drops(t, p, d)
        /\ Len(t) = IF Len(p) > MaxLen THEN MaxLen ELSE Len(p)
  BY <1>3, NewestDrops, QueueAssumption
<1>5. Len(t) = Len(q) /\ d = Len(p) - Len(q)
  <2>1. Len(t) = Len(q)
    BY <1>2, <1>4
  <2>2. Len(t) = Len(p) - d /\ d \in Int
    BY <1>4 DEF Drops
  <2>3. QED
    BY <1>0, <2>1, <2>2
<1>6. ASSUME NEW i \in 1..Len(q) PROVE q[i] = t[i]
  <2>1. PICK k : k = Len(q) - i
    OBVIOUS
  <2>2. k \in 0..(MaxLen - 1) /\ k < Len(q) /\ Len(q) - k = i /\ Len(p) - k = i + d
    BY <1>0, <1>5, <2>1
  <2>3. q[i] = p[i + d]
    BY <1>1, <2>2
  <2>4. t[i] = p[i + d]
    BY <1>4, <1>5 DEF Drops
  <2>5. QED
    BY <2>3, <2>4
<1>7. q = t
  BY <1>4, <1>5, <1>6, SeqEqual
<1>8. QED
  BY <1>3, <1>7

-----------------------------------------------------------------------------

(* Messages of entries to which one is appended.                            *)
LEMMA ContentsAppend ==
  ASSUME NEW s \in Seq(Entries), NEW e \in Entries
  PROVE  Append(s, e) \in Seq(Entries) /\ Contents(Append(s, e)) = Append(Contents(s), e.msg)
<1>1. PICK a, c, b, v : a = Append(s, e) /\ c = Contents(s) /\ b = Append(c, e.msg) /\ v = Contents(a)
  OBVIOUS
<1>2. /\ c \in Seq(Msgs) /\ Len(s) \in Nat /\ Len(c) = Len(s)
      /\ \A i \in 1..Len(s) : c[i] = s[i].msg
  BY <1>1, ContentsIs
<1>3. /\ a \in Seq(Entries) /\ Len(a) = Len(s) + 1 /\ a[Len(s) + 1] = e
      /\ \A i \in 1..Len(s) : a[i] = s[i]
  BY <1>1, AppendProperties
<1>4. e.msg \in Msgs
  BY DEF Entries
<1>5. /\ b \in Seq(Msgs) /\ Len(b) = Len(s) + 1 /\ b[Len(s) + 1] = e.msg
      /\ \A i \in 1..Len(s) : b[i] = c[i]
  <2>1. /\ b \in Seq(Msgs) /\ Len(b) = Len(c) + 1 /\ b[Len(c) + 1] = e.msg
        /\ \A i \in 1..Len(c) : b[i] = c[i]
    BY <1>1, <1>2, <1>4, AppendProperties
  <2>2. QED
    BY <1>2, <2>1
<1>6. v \in Seq(Msgs) /\ Len(v) = Len(a) /\ \A i \in 1..Len(a) : v[i] = a[i].msg
  BY <1>1, <1>3, ContentsIs
<1>7. ASSUME NEW i \in 1..Len(v) PROVE v[i] = b[i]
  <2>1. CASE i \in 1..Len(s)
    BY <1>2, <1>3, <1>5, <1>6, <2>1
  <2>2. CASE i = Len(s) + 1
    BY <1>3, <1>5, <1>6, <2>2
  <2>3. QED
    BY <1>2, <1>3, <1>6, <2>1, <2>2
<1>8. v = b
  BY <1>3, <1>5, <1>6, <1>7, SeqEqual
<1>9. QED
  BY <1>1, <1>3, <1>8

(* Messages of entries of which a beginning is dropped.                     *)
LEMMA ContentsDrops ==
  ASSUME NEW r \in Seq(Entries), NEW s \in Seq(Entries), NEW d, Drops(r, s, d)
  PROVE  Drops(Contents(r), Contents(s), d)
<1>1. /\ Len(Contents(r)) = Len(r) /\ \A i \in 1..Len(r) : Contents(r)[i] = r[i].msg
      /\ Len(Contents(s)) = Len(s) /\ \A i \in 1..Len(s) : Contents(s)[i] = s[i].msg
      /\ Len(s) \in Nat
  BY ContentsIs
<1>2. \A i \in 1..Len(r) : i + d \in 1..Len(s) /\ r[i] = s[i + d]
  BY <1>1 DEF Drops
<1>3. QED
  BY <1>1, <1>2 DEF Drops

(* Messages of entries that are trimmed.                                    *)
LEMMA ContentsNewest ==
  ASSUME NEW s \in Seq(Entries)
  PROVE  /\ Newest(s, MaxLen) \in Seq(Entries) /\ Len(Newest(s, MaxLen)) <= MaxLen
         /\ Sub(Newest(s, MaxLen), s)
         /\ Contents(Newest(s, MaxLen)) = Newest(Contents(s), MaxLen)
<1>1. PICK t, c, u, v :
        /\ t = Newest(s, MaxLen) /\ c = Contents(s) /\ u = Newest(c, MaxLen) /\ v = Contents(t)
  OBVIOUS
<1>2. c \in Seq(Msgs) /\ Len(s) \in Nat /\ Len(c) = Len(s) /\ MaxLen \in Nat \ {0}
  BY <1>1, ContentsIs, QueueAssumption
<1>3. PICK d \in 0..Len(s) :
        /\ t \in Seq(Entries) /\ Drops(t, s, d)
        /\ Len(t) = IF Len(s) > MaxLen THEN MaxLen ELSE Len(s)
  BY <1>1, <1>2, NewestDrops
<1>4. PICK g \in 0..Len(c) :
        /\ u \in Seq(Msgs) /\ Drops(u, c, g)
        /\ Len(u) = IF Len(c) > MaxLen THEN MaxLen ELSE Len(c)
  BY <1>1, <1>2, NewestDrops
<1>5. v \in Seq(Msgs) /\ Len(v) = Len(t) /\ Drops(v, c, d)
  BY <1>1, <1>3, ContentsIs, ContentsDrops
<1>6. Len(v) = Len(u) /\ d = g
  <2>1. Len(v) = Len(u)
    BY <1>2, <1>3, <1>4, <1>5
  <2>2. Len(v) = Len(c) - d /\ Len(u) = Len(c) - g
    BY <1>4, <1>5 DEF Drops
  <2>3. d \in Int /\ g \in Int /\ Len(c) \in Int
    BY <1>2, <1>3, <1>4
  <2>4. Len(c) - d = Len(c) - g
    BY <2>1, <2>2
  <2>5. d = g
    BY <2>3, <2>4
  <2>6. QED
    BY <2>1, <2>5
<1>7. \A i \in 1..Len(v) : v[i] = u[i]
  BY <1>4, <1>5, <1>6 DEF Drops
<1>8. v = u
  BY <1>4, <1>5, <1>6, <1>7, SeqEqual
<1>9. Len(t) <= MaxLen
  BY <1>2, <1>3
<1>10. QED
  BY <1>1, <1>3, <1>8, <1>9, DropsSub

(* A sequence without its i-th element.                                     *)
LEMMA RemoveAtIs ==
  ASSUME NEW X, NEW s \in Seq(X), NEW i \in 1..Len(s)
  PROVE  /\ RemoveAt(s, i) \in Seq(X) /\ Len(RemoveAt(s, i)) = Len(s) - 1
         /\ \A k \in 1..(Len(s) - 1) : RemoveAt(s, i)[k] = s[IF k < i THEN k ELSE k + 1]
<1>0. Len(s) \in Nat /\ \A k \in 1..Len(s) : s[k] \in X
  BY ElementOfSeq
<1>1. PICK a, b, r : a = SubSeq(s, 1, i - 1) /\ b = SubSeq(s, i + 1, Len(s)) /\ r = RemoveAt(s, i)
  OBVIOUS
<1>2. r = a \o b
  BY <1>1 DEF RemoveAt
<1>3. /\ a \in Seq(X) /\ Len(a) = i - 1 /\ \A k \in 1..(i - 1) : a[k] = s[k]
  <2>1. CASE i = 1
    <3>1. a = <<>>
      BY <1>1, <2>1, SubSeqEmpty
    <3>2. QED
      BY <2>1, <3>1
  <2>2. CASE i > 1
    BY <1>0, <1>1, <2>2, SubSeqProperties
  <2>3. QED
    BY <2>1, <2>2
<1>4. /\ b \in Seq(X) /\ Len(b) = Len(s) - i /\ \A k \in 1..(Len(s) - i) : b[k] = s[i + k]
  <2>1. CASE i = Len(s)
    <3>1. b = <<>>
      BY <1>0, <1>1, <2>1, SubSeqEmpty
    <3>2. QED
      BY <1>0, <2>1, <3>1
  <2>2. CASE i < Len(s)
    <3>1. PICK p : p = i + 1
      OBVIOUS
    <3>2. p \in Int /\ p <= Len(s) /\ Len(s) - p + 1 = Len(s) - i /\ \A k \in p..Len(s) : s[k] \in X
      BY <1>0, <2>2, <3>1
    <3>3. /\ b \in Seq(X) /\ Len(b) = Len(s) - p + 1
          /\ \A k \in 1..(Len(s) - p + 1) : b[k] = s[p + k - 1]
      BY <1>0, <1>1, <3>1, <3>2, SubSeqProperties
    <3>4. \A k \in 1..(Len(s) - i) : p + k - 1 = i + k
      BY <3>1
    <3>5. QED
      BY <3>2, <3>3, <3>4
  <2>3. QED
    BY <1>0, <2>1, <2>2
<1>5. /\ r \in Seq(X) /\ Len(r) = Len(a) + Len(b)
      /\ \A k \in 1..Len(r) : r[k] = IF k <= Len(a) THEN a[k] ELSE b[k - Len(a)]
  <2>1. a \in Seq(X) /\ b \in Seq(X)
    BY <1>3, <1>4
  <2>2. QED
    BY <1>2, <2>1, ConcatProperties
<1>6. Len(r) = Len(s) - 1
  BY <1>0, <1>3, <1>4, <1>5
<1>7. ASSUME NEW k \in 1..(Len(s) - 1) PROVE r[k] = s[IF k < i THEN k ELSE k + 1]
  <2>1. CASE k < i
    BY <1>0, <1>3, <1>5, <1>6, <2>1
  <2>2. CASE ~(k < i)
    <3>1. k - Len(a) \in 1..(Len(s) - i) /\ i + (k - Len(a)) = k + 1 /\ ~(k <= Len(a))
      BY <1>0, <1>3, <2>2
    <3>2. QED
      BY <1>4, <1>5, <1>6, <2>2, <3>1
  <2>3. QED
    BY <2>1, <2>2
<1>8. QED
  BY <1>1, <1>5, <1>6, <1>7

(* Appending to the second of two sequences appends to both together.       *)
LEMMA ConcatAppend ==
  ASSUME NEW X, NEW r \in Seq(X), NEW s \in Seq(X), NEW m \in X
  PROVE  r \o Append(s, m) = Append(r \o s, m)
<1>1. PICK a, c, u, v : a = Append(s, m) /\ c = r \o s /\ u = r \o a /\ v = Append(c, m)
  OBVIOUS
<1>2. /\ a \in Seq(X) /\ Len(s) \in Nat /\ Len(a) = Len(s) + 1 /\ a[Len(s) + 1] = m
      /\ \A i \in 1..Len(s) : a[i] = s[i]
  BY <1>1, AppendProperties
<1>3. /\ c \in Seq(X) /\ Len(r) \in Nat /\ Len(c) = Len(r) + Len(s)
      /\ \A i \in 1..Len(c) : c[i] = IF i <= Len(r) THEN r[i] ELSE s[i - Len(r)]
  BY <1>1, ConcatProperties
<1>4. /\ u \in Seq(X) /\ Len(u) = Len(r) + Len(a)
      /\ \A i \in 1..Len(u) : u[i] = IF i <= Len(r) THEN r[i] ELSE a[i - Len(r)]
  <2>1. r \in Seq(X) /\ a \in Seq(X) /\ u = r \o a
    BY <1>1, <1>2
  <2>2. QED
    BY ONLY <2>1, ConcatProperties
<1>5. /\ v \in Seq(X) /\ Len(v) = Len(c) + 1 /\ v[Len(c) + 1] = m
      /\ \A i \in 1..Len(c) : v[i] = c[i]
  BY <1>1, <1>3, AppendProperties
<1>6. ASSUME NEW i \in 1..Len(u) PROVE u[i] = v[i]
  <2>1. CASE i <= Len(r)
    <3>1. i \in 1..Len(c)
      BY <1>2, <1>3, <1>4, <2>1
    <3>2. u[i] = r[i]
      BY <1>4, <2>1
    <3>3. c[i] = r[i]
      BY <1>3, <2>1, <3>1
    <3>4. QED
      BY <1>5, <3>1, <3>2, <3>3
  <2>2. CASE i > Len(r) /\ i <= Len(c)
    <3>1. i - Len(r) \in 1..Len(s) /\ i \in 1..Len(c) /\ ~(i <= Len(r))
      BY <1>2, <1>3, <2>2
    <3>2. QED
      BY <1>2, <1>3, <1>4, <1>5, <3>1
  <2>3. CASE i = Len(c) + 1
    <3>1. i - Len(r) = Len(s) + 1 /\ ~(i <= Len(r))
      BY <1>2, <1>3, <2>3
    <3>2. QED
      BY <1>2, <1>4, <1>5, <2>3, <3>1
  <2>4. QED
    BY <1>2, <1>3, <1>4, <2>1, <2>2, <2>3
<1>7. Len(u) = Len(v)
  BY <1>2, <1>3, <1>4, <1>5
<1>8. u = v
  BY <1>4, <1>5, <1>6, <1>7, SeqEqual
<1>9. QED
  BY <1>1, <1>8

(* Moving the first of s to the end of r leaves r and s together the same.  *)
LEMMA ConcatMove ==
  ASSUME NEW X, NEW r \in Seq(X), NEW s \in Seq(X), 1 \in 1..Len(s)
  PROVE  Append(r, s[1]) \o RemoveAt(s, 1) = r \o s
<1>1. PICK a, b, u, v : a = Append(r, s[1]) /\ b = RemoveAt(s, 1) /\ u = a \o b /\ v = r \o s
  OBVIOUS
<1>2. s[1] \in X /\ Len(s) \in Nat /\ Len(r) \in Nat
  BY ElementOfSeq
<1>3. /\ a \in Seq(X) /\ Len(a) = Len(r) + 1 /\ a[Len(r) + 1] = s[1]
      /\ \A i \in 1..Len(r) : a[i] = r[i]
  BY <1>1, <1>2, AppendProperties
<1>4. b \in Seq(X) /\ Len(b) = Len(s) - 1 /\ \A k \in 1..(Len(s) - 1) : b[k] = s[k + 1]
  <2>1. /\ b \in Seq(X) /\ Len(b) = Len(s) - 1
        /\ \A k \in 1..(Len(s) - 1) : b[k] = s[IF k < 1 THEN k ELSE k + 1]
    BY <1>1, RemoveAtIs
  <2>2. \A k \in 1..(Len(s) - 1) : ~(k < 1)
    OBVIOUS
  <2>3. QED
    BY <2>1, <2>2
<1>5. /\ u \in Seq(X) /\ Len(u) = Len(a) + Len(b)
      /\ \A i \in 1..Len(u) : u[i] = IF i <= Len(a) THEN a[i] ELSE b[i - Len(a)]
  BY <1>1, <1>3, <1>4, ConcatProperties
<1>6. /\ v \in Seq(X) /\ Len(v) = Len(r) + Len(s)
      /\ \A i \in 1..Len(v) : v[i] = IF i <= Len(r) THEN r[i] ELSE s[i - Len(r)]
  BY <1>1, ConcatProperties
<1>7. Len(u) = Len(v)
  BY <1>2, <1>3, <1>4, <1>5, <1>6
<1>8. ASSUME NEW i \in 1..Len(u) PROVE u[i] = v[i]
  <2>1. CASE i \in 1..Len(r)
    <3>1. i <= Len(a) /\ i <= Len(r)
      BY <1>2, <1>3, <2>1
    <3>2. u[i] = a[i] /\ v[i] = r[i]
      BY <1>5, <1>6, <1>7, <3>1
    <3>3. QED
      BY <1>3, <2>1, <3>2
  <2>2. CASE i = Len(r) + 1
    <3>1. i <= Len(a) /\ ~(i <= Len(r)) /\ i - Len(r) = 1
      BY <1>2, <1>3, <2>2
    <3>2. QED
      BY <1>3, <1>5, <1>6, <1>7, <2>2, <3>1
  <2>3. CASE i > Len(r) + 1
    <3>1. /\ ~(i <= Len(a)) /\ ~(i <= Len(r)) /\ i - Len(a) \in 1..(Len(s) - 1)
          /\ (i - Len(a)) + 1 = i - Len(r)
      BY <1>2, <1>3, <1>4, <1>5, <2>3
    <3>2. QED
      BY <1>4, <1>5, <1>6, <1>7, <3>1
  <2>4. QED
    BY <1>2, <2>1, <2>2, <2>3
<1>9. u = v
  BY <1>5, <1>6, <1>7, <1>8, SeqEqual
<1>10. QED
  BY <1>1, <1>9

(* Dropping a beginning of the first drops it of both together.             *)
LEMMA ConcatDrops ==
  ASSUME NEW X, NEW t \in Seq(X), NEW r \in Seq(X), NEW s \in Seq(X), NEW d, Drops(t, r, d)
  PROVE  Drops(t \o s, r \o s, d)
<1>1. PICK u, v : u = t \o s /\ v = r \o s
  OBVIOUS
<1>2. /\ Len(t) \in Nat /\ Len(r) \in Nat /\ Len(s) \in Nat /\ Len(u) = Len(t) + Len(s)
      /\ \A i \in 1..Len(u) : u[i] = IF i <= Len(t) THEN t[i] ELSE s[i - Len(t)]
  BY <1>1, ConcatProperties
<1>3. /\ Len(v) = Len(r) + Len(s)
      /\ \A i \in 1..Len(v) : v[i] = IF i <= Len(r) THEN r[i] ELSE s[i - Len(r)]
  BY <1>1, ConcatProperties
<1>4. d \in 0..Len(r) /\ Len(t) = Len(r) - d /\ \A i \in 1..Len(t) : t[i] = r[i + d]
  BY DEF Drops
<1>5. ASSUME NEW i \in 1..Len(u) PROVE u[i] = v[i + d]
  <2>1. i + d \in 1..Len(v)
    BY <1>2, <1>3, <1>4
  <2>2. CASE i <= Len(t)
    <3>1. i + d <= Len(r) /\ i \in 1..Len(t)
      BY <1>2, <1>4, <2>2
    <3>2. QED
      BY <1>2, <1>3, <1>4, <2>1, <2>2, <3>1
  <2>3. CASE ~(i <= Len(t))
    <3>1. ~(i + d <= Len(r)) /\ (i + d) - Len(r) = i - Len(t)
      BY <1>2, <1>4, <2>3
    <3>2. QED
      BY <1>2, <1>3, <2>1, <2>3, <3>1
  <2>4. QED
    BY <2>2, <2>3
<1>6. d \in 0..Len(v) /\ Len(u) = Len(v) - d
  BY <1>2, <1>3, <1>4
<1>7. QED
  BY <1>1, <1>5, <1>6 DEF Drops

(* More messages astray and the same times keep the order.                  *)
LEMMA OrderedStill ==
  ASSUME NEW s, NEW A, NEW B, NEW t, NEW u, Ordered(s, A, t), A \subseteq B,
         \A i \in 1..Len(s) : u[s[i]] = t[s[i]]
  PROVE  Ordered(s, B, u)
BY DEF Ordered

(* The same, for messages behind others.                                    *)
LEMMA BehindStill ==
  ASSUME NEW d, NEW s, NEW A, NEW B, NEW t, NEW u, Behind(d, s, A, t), A \subseteq B,
         \A i \in 1..Len(d) : u[d[i]] = t[d[i]],
         \A i \in 1..Len(s) : u[s[i]] = t[s[i]]
  PROVE  Behind(d, s, B, u)
BY DEF Behind

(* What is left of what is left.                                            *)
LEMMA SubTrans ==
  ASSUME NEW r, NEW s, NEW u, Sub(r, s), Sub(s, u)
  PROVE  Sub(r, u)
<1> SUFFICES ASSUME NEW i \in 1..Len(r), NEW j \in 1..Len(r), i <= j
             PROVE  \E p, q \in 1..Len(u) : p <= q /\ r[i] = u[p] /\ r[j] = u[q]
  BY DEF Sub
<1>1. PICK p, q \in 1..Len(s) : p <= q /\ r[i] = s[p] /\ r[j] = s[q]
  BY DEF Sub
<1>2. PICK a, b \in 1..Len(u) : a <= b /\ s[p] = u[a] /\ s[q] = u[b]
  BY <1>1 DEF Sub
<1>3. QED
  BY <1>1, <1>2

(* What is left of a sequence has only its elements.                        *)
LEMMA SubElements ==
  ASSUME NEW r, NEW s, Sub(r, s)
  PROVE  \A i \in 1..Len(r) : \E p \in 1..Len(s) : r[i] = s[p]
<1> SUFFICES ASSUME NEW i \in 1..Len(r) PROVE \E p \in 1..Len(s) : r[i] = s[p]
  OBVIOUS
<1>1. i <= i
  OBVIOUS
<1>2. QED
  BY <1>1 DEF Sub

-----------------------------------------------------------------------------

\* The messages that are not past their time-to-live.
Young == {m \in Msgs : ~Old(since[m])}

(* A message that waits or was delivered was queued before; an entry's own  *)
(* time is that, unless a restart has made the entry anew.  Rows have the   *)
(* times of their INSERTs, in the order of their ids.                       *)
QueuedInv ==
  /\ \A m \in Msgs : since[m] <= now
  /\ \A i \in 1..Len(queue) :
       /\ queue[i].msg \notin unsent
       /\ since[queue[i].msg] <= queue[i].queuedAt
       /\ queue[i].queuedAt = since[queue[i].msg] \/ queue[i].msg \in reloaded
  /\ \A i \in 1..Len(rows) :
       /\ rows[i].msg \notin unsent
       /\ since[rows[i].msg] <= rows[i].queuedAt /\ rows[i].queuedAt <= now
  /\ \A i, j \in 1..Len(rows) : i <= j => rows[i].queuedAt <= rows[j].queuedAt
  /\ \A i \in 1..Len(inserting) : inserting[i] \notin unsent
  /\ \A i \in 1..Len(delivered) : delivered[i] \notin unsent

(* Everything is in the order of queueing but for messages astray, and what *)
(* was delivered is not younger than what waits in memory, nor, once its    *)
(* DELETE is over, than what waits in the rows.  A message whose row is     *)
(* still to come is the youngest of all.                                    *)
OrderInv ==
  /\ Ordered(delivered, astray, since)
  /\ Ordered(Contents(queue), astray, since)
  /\ Ordered(Contents(rows), astray, since)
  /\ Behind(delivered, Contents(queue), astray, since)
  /\ deleting = 0 => Behind(delivered, Contents(rows), astray, since)
  /\ \A i \in 1..Len(inserting) : inserting[i] \notin astray =>
       \A m \in Msgs \ unsent : since[m] <= since[inserting[i]]

(* While nothing is dirty, the queue agrees with the rows and those still   *)
(* to come, or it is empty and the DELETE is still to come.                 *)
TailInv ==
  /\ ~dirty /\ deleting = 0 => Agree(Contents(queue), Contents(rows) \o inserting, Young)
  /\ ~dirty /\ deleting > 0 => queue = <<>> /\ inserting = <<>>

(* The inductive invariant.                                                 *)
QueueInv == TypeOK /\ QueuedInv /\ OrderInv /\ TailInv /\ LateOnlyAfterRestart

(* What the sequences hold.                                                 *)
LEMMA Views ==
  ASSUME TypeOK, QueuedInv
  PROVE  /\ queue \in Seq(Entries) /\ Len(queue) \in Nat
         /\ Contents(queue) \in Seq(Msgs) /\ Len(Contents(queue)) = Len(queue)
         /\ \A i \in 1..Len(queue) :
              /\ queue[i].msg \in Msgs \ unsent /\ queue[i].queuedAt \in Nat
              /\ since[queue[i].msg] \in Nat /\ Contents(queue)[i] = queue[i].msg
         /\ rows \in Seq(Entries) /\ Len(rows) \in Nat
         /\ Contents(rows) \in Seq(Msgs) /\ Len(Contents(rows)) = Len(rows)
         /\ \A i \in 1..Len(rows) :
              /\ rows[i].msg \in Msgs \ unsent /\ rows[i].queuedAt \in Nat
              /\ since[rows[i].msg] \in Nat /\ Contents(rows)[i] = rows[i].msg
         /\ \A i \in 1..Len(inserting) : inserting[i] \in Msgs \ unsent
         /\ \A i \in 1..Len(delivered) : delivered[i] \in Msgs \ unsent
         /\ Range(inserting) = {inserting[i] : i \in 1..Len(inserting)}
         /\ now \in Nat /\ since \in [Msgs -> Nat]
         /\ \A m \in Msgs : Entry(m) \in Entries /\ Entry(m).msg = m /\ Entry(m).queuedAt = now
<1>1. /\ queue \in Seq(Entries) /\ rows \in Seq(Entries) /\ since \in [Msgs -> 0..MaxTime]
      /\ inserting \in Seq(Msgs) /\ delivered \in Seq(Msgs) /\ now \in 0..MaxTime
  BY DEF TypeOK, Entries
<1>2. now \in Nat /\ since \in [Msgs -> Nat]
  BY <1>1, QueueAssumption
<1>3. /\ Len(queue) \in Nat /\ Contents(queue) \in Seq(Msgs) /\ Len(Contents(queue)) = Len(queue)
      /\ \A i \in 1..Len(queue) : /\ queue[i].msg \in Msgs /\ queue[i].queuedAt \in Nat
                                  /\ Contents(queue)[i] = queue[i].msg
  BY <1>1, ContentsIs
<1>4. /\ Len(rows) \in Nat /\ Contents(rows) \in Seq(Msgs) /\ Len(Contents(rows)) = Len(rows)
      /\ \A i \in 1..Len(rows) : /\ rows[i].msg \in Msgs /\ rows[i].queuedAt \in Nat
                                 /\ Contents(rows)[i] = rows[i].msg
  BY <1>1, ContentsIs
<1>5. /\ \A i \in 1..Len(inserting) : inserting[i] \in Msgs
      /\ \A i \in 1..Len(delivered) : delivered[i] \in Msgs
  BY <1>1, ElementOfSeq
<1>6. DOMAIN inserting = 1..Len(inserting)
  BY <1>1, LenProperties
<1>7. Range(inserting) = {inserting[i] : i \in 1..Len(inserting)}
  BY <1>6 DEF Range
<1>8. \A m \in Msgs : Entry(m) \in Entries /\ Entry(m).msg = m /\ Entry(m).queuedAt = now
  BY <1>1 DEF Entry, Entries
<1>9. /\ \A i \in 1..Len(queue) : queue[i].msg \notin unsent
      /\ \A i \in 1..Len(rows) : rows[i].msg \notin unsent
      /\ \A i \in 1..Len(inserting) : inserting[i] \notin unsent
      /\ \A i \in 1..Len(delivered) : delivered[i] \notin unsent
  BY DEF QueuedInv
<1>10. /\ \A i \in 1..Len(queue) : since[queue[i].msg] \in Nat
       /\ \A i \in 1..Len(rows) : since[rows[i].msg] \in Nat
  BY <1>2, <1>3, <1>4
<1>11. QED
  BY <1>1, <1>2, <1>3, <1>4, <1>5, <1>7, <1>8, <1>9, <1>10

(* No entries, no messages.                                                 *)
LEMMA EmptyContents == Contents(<<>>) = <<>> /\ Len(Contents(<<>>)) = 0
BY DEF Contents

(* Initially nothing waits.                                                 *)
LEMMA InitQueue == Init => QueueInv
<1> SUFFICES ASSUME Init PROVE QueueInv
  OBVIOUS
<1>0. /\ Len(queue) = 0 /\ Len(rows) = 0 /\ Len(delivered) = 0 /\ Len(inserting) = 0
      /\ Contents(queue) = <<>> /\ Contents(rows) = <<>>
      /\ Len(Contents(queue)) = 0 /\ Len(Contents(rows)) = 0
  BY EmptyContents DEF Init
<1>1. TypeOK
  <2>1. /\ now \in 0..MaxTime /\ since \in [Msgs -> 0..MaxTime] /\ deleting \in Nat
        /\ Len(queue) <= MaxLen
    BY <1>0, QueueAssumption DEF Init
  <2>2. /\ queue \in Seq([msg : Msgs, queuedAt : 0..MaxTime])
        /\ rows \in Seq([msg : Msgs, queuedAt : 0..MaxTime])
        /\ inserting \in Seq(Msgs) /\ delivered \in Seq(Msgs)
    BY DEF Init
  <2>3. /\ unsent \in SUBSET Msgs /\ late \in SUBSET Msgs /\ reloaded \in SUBSET Msgs
        /\ astray \in SUBSET Msgs /\ dirty \in BOOLEAN
    BY DEF Init
  <2>4. QED
    BY <2>1, <2>2, <2>3 DEF TypeOK
<1>2. QueuedInv
  BY <1>0 DEF Init, QueuedInv
<1>3. OrderInv
  BY <1>0 DEF OrderInv, Ordered, Behind
<1>4. TailInv
  <2>1. Contents(rows) \o inserting = <<>>
    BY <1>0 DEF Init
  <2>2. Agree(<<>>, <<>>, Young)
    BY DEF Agree
  <2>3. deleting = 0
    BY DEF Init
  <2>4. QED
    BY <1>0, <2>1, <2>2, <2>3 DEF TailInv
<1>5. LateOnlyAfterRestart
  BY DEF Init, LateOnlyAfterRestart
<1>6. QED
  BY <1>1, <1>2, <1>3, <1>4, <1>5 DEF QueueInv

(* A message is queued as the newest of all.                                *)
LEMMA EnqueueQueue ==
  ASSUME QueueInv, NEW m \in Msgs, Enqueue(m)
  PROVE  QueueInv'
<1>0. TypeOK /\ QueuedInv /\ OrderInv /\ TailInv /\ LateOnlyAfterRestart
  BY DEF QueueInv
<1>1. /\ m \in unsent /\ unsent' = unsent \ {m} /\ since' = [since EXCEPT ![m] = now]
      /\ inserting' = Append(inserting, m) /\ astray' = astray \cup Range(inserting)
      /\ dirty' = (dirty \/ deleting > 0)
      /\ UNCHANGED <<now, rows, deleting, delivered, late, reloaded>>
  BY DEF Enqueue
<1>2. PICK a, c, r : a = Append(queue, Entry(m)) /\ c = Contents(queue) /\ r = Contents(rows)
  OBVIOUS
<1>3. /\ queue \in Seq(Entries) /\ Len(queue) \in Nat /\ c \in Seq(Msgs) /\ Len(c) = Len(queue)
      /\ \A i \in 1..Len(queue) : queue[i].msg \in Msgs \ unsent /\ c[i] = queue[i].msg
      /\ rows \in Seq(Entries) /\ r \in Seq(Msgs) /\ Len(r) = Len(rows) /\ Len(rows) \in Nat
      /\ \A i \in 1..Len(rows) : rows[i].msg \in Msgs \ unsent /\ r[i] = rows[i].msg
      /\ \A i \in 1..Len(inserting) : inserting[i] \in Msgs \ unsent
      /\ \A i \in 1..Len(delivered) : delivered[i] \in Msgs \ unsent
      /\ Range(inserting) = {inserting[i] : i \in 1..Len(inserting)}
      /\ now \in Nat /\ since \in [Msgs -> Nat]
      /\ Entry(m) \in Entries /\ Entry(m).msg = m /\ Entry(m).queuedAt = now
  BY <1>0, <1>2, Views
<1>4. \A x \in Msgs : since'[x] = IF x = m THEN now ELSE since[x]
  BY <1>1, <1>3
<1>5. \A x \in Msgs \ unsent : since'[x] = since[x] /\ x # m
  BY <1>1, <1>4
<1>6. ASSUME NEW x \in Msgs PROVE since'[x] <= now /\ since'[x] \in Nat
  <2>1. since[x] <= now /\ since[x] \in Nat /\ now <= now
    BY <1>0, <1>3 DEF QueuedInv
  <2>2. CASE x = m
    BY <1>3, <1>4, <2>1, <2>2
  <2>3. CASE x # m
    BY <1>4, <2>1, <2>3
  <2>4. QED
    BY <2>2, <2>3
<1>7. /\ a \in Seq(Entries) /\ Len(a) = Len(queue) + 1 /\ a[Len(queue) + 1] = Entry(m)
      /\ \A i \in 1..Len(queue) : a[i] = queue[i]
  BY <1>2, <1>3, AppendProperties
<1>8. queue' = Newest(a, MaxLen)
  BY <1>2 DEF Enqueue
<1>9. Contents(a) = Append(c, m)
  BY <1>2, <1>3, ContentsAppend
<1>10. /\ queue' \in Seq(Entries) /\ Len(queue') <= MaxLen /\ Sub(queue', a)
       /\ Contents(queue') = Newest(Append(c, m), MaxLen)
  BY <1>7, <1>8, <1>9, ContentsNewest
<1>11. Sub(Contents(queue'), Append(c, m))
  BY <1>7, <1>9, <1>10, SubContents
<1>12. /\ inserting \in Seq(Msgs) /\ Len(inserting) \in Nat /\ inserting' \in Seq(Msgs)
       /\ Len(inserting') = Len(inserting) + 1 /\ inserting'[Len(inserting) + 1] = m
       /\ \A i \in 1..Len(inserting) : inserting'[i] = inserting[i]
  <2>1. inserting \in Seq(Msgs)
    BY <1>0 DEF TypeOK
  <2>2. QED
    BY <1>1, <2>1, AppendProperties
<1>13. TypeOK'
  <2>1. since' \in [Msgs -> 0..MaxTime]
    BY <1>0, <1>1 DEF TypeOK
  <2>2. astray' \in SUBSET Msgs
    BY <1>0, <1>1, <1>3 DEF TypeOK
  <2>3. queue' \in Seq([msg : Msgs, queuedAt : 0..MaxTime])
    BY <1>10 DEF Entries
  <2>4. dirty' \in BOOLEAN
    BY <1>1
  <2>5. QED
    BY <1>0, <1>1, <1>10, <1>12, <2>1, <2>2, <2>3, <2>4 DEF TypeOK
<1>14. QueuedInv'
  <2>1. ASSUME NEW i \in 1..Len(a)
        PROVE  /\ a[i].msg \notin unsent' /\ since'[a[i].msg] <= a[i].queuedAt
               /\ a[i].queuedAt = since'[a[i].msg] \/ a[i].msg \in reloaded'
    <3>1. CASE i \in 1..Len(queue)
      <4>1. a[i] = queue[i] /\ since'[queue[i].msg] = since[queue[i].msg]
        BY <1>3, <1>5, <1>7, <3>1
      <4>2. QED
        BY <1>0, <1>1, <3>1, <4>1 DEF QueuedInv
    <3>2. CASE i = Len(queue) + 1
      <4>1. a[i].msg = m /\ a[i].queuedAt = now /\ since'[m] = now
        BY <1>3, <1>4, <1>7, <3>2
      <4>2. now <= now /\ m \notin unsent'
        BY <1>1, <1>3
      <4>3. QED
        BY <4>1, <4>2
    <3>3. QED
      BY <1>3, <1>7, <3>1, <3>2
  <2>2. \A i \in 1..Len(queue') :
          /\ queue'[i].msg \notin unsent' /\ since'[queue'[i].msg] <= queue'[i].queuedAt
          /\ queue'[i].queuedAt = since'[queue'[i].msg] \/ queue'[i].msg \in reloaded'
    BY <1>10, <2>1, SubElements
  <2>3. \A i \in 1..Len(rows) :
          /\ rows[i].msg \notin unsent'
          /\ since'[rows[i].msg] <= rows[i].queuedAt /\ rows[i].queuedAt <= now
    BY <1>0, <1>1, <1>3, <1>5 DEF QueuedInv
  <2>4. \A i, j \in 1..Len(rows) : i <= j => rows[i].queuedAt <= rows[j].queuedAt
    BY <1>0 DEF QueuedInv
  <2>5. ASSUME NEW i \in 1..Len(inserting') PROVE inserting'[i] \notin unsent'
    <3>1. CASE i \in 1..Len(inserting)
      BY <1>1, <1>3, <1>12, <3>1
    <3>2. CASE i = Len(inserting) + 1
      BY <1>1, <1>12, <3>2
    <3>3. QED
      BY <1>12, <3>1, <3>2
  <2>6. \A i \in 1..Len(delivered) : delivered[i] \notin unsent'
    BY <1>1, <1>3
  <2>7. QED
    BY <1>1, <1>6, <2>2, <2>3, <2>4, <2>5, <2>6 DEF QueuedInv
<1>15. OrderInv'
  <2>0. astray \subseteq astray'
    BY <1>1
  <2>1. /\ \A i \in 1..Len(c) : since'[c[i]] = since[c[i]] /\ since'[c[i]] <= since'[m]
        /\ \A i \in 1..Len(r) : since'[r[i]] = since[r[i]]
        /\ \A i \in 1..Len(delivered) :
             since'[delivered[i]] = since[delivered[i]] /\ since'[delivered[i]] <= since'[m]
        /\ since'[m] \in Int
    <3>1. since'[m] = now /\ since'[m] \in Int
      BY <1>3, <1>4
    <3>2. \A x \in Msgs \ unsent : since'[x] = since[x] /\ since'[x] <= since'[m]
      BY <1>5, <1>6, <3>1
    <3>3. /\ \A i \in 1..Len(c) : c[i] \in Msgs \ unsent
          /\ \A i \in 1..Len(r) : r[i] \in Msgs \ unsent
      BY <1>3
    <3>4. QED
      BY <1>3, <3>1, <3>2, <3>3
  <2>2. Ordered(delivered', astray', since')
    BY <1>0, <1>1, <2>0, <2>1, OrderedStill DEF OrderInv
  <2>3. Ordered(c, astray', since') /\ Ordered(r, astray', since')
    BY <1>0, <1>2, <2>0, <2>1, OrderedStill DEF OrderInv
  <2>4. Behind(delivered, c, astray', since')
    BY <1>0, <1>2, <2>0, <2>1, BehindStill DEF OrderInv
  <2>5. deleting = 0 => Behind(delivered, r, astray', since')
    BY <1>0, <1>2, <2>0, <2>1, BehindStill DEF OrderInv
  <2>6. Ordered(Append(c, m), astray', since')
    BY <1>3, <2>1, <2>3, OrderedAppend
  <2>7. Behind(delivered, Append(c, m), astray', since')
    BY <1>3, <2>1, <2>4, BehindAppend
  <2>8. Ordered(Contents(queue'), astray', since')
    BY <1>11, <2>6, SubOrdered
  <2>9. Behind(delivered, Contents(queue'), astray', since')
    BY <1>11, <2>7, SubBehind
  <2>10. ASSUME NEW i \in 1..Len(inserting'), inserting'[i] \notin astray', NEW x \in Msgs \ unsent'
         PROVE  since'[x] <= since'[inserting'[i]]
    <3>1. CASE i \in 1..Len(inserting)
      BY <1>1, <1>3, <1>12, <2>10, <3>1
    <3>2. CASE i = Len(inserting) + 1
      BY <1>4, <1>6, <1>12, <3>2
    <3>3. QED
      BY <1>12, <3>1, <3>2
  <2>11. QED
    BY <1>1, <1>2, <2>2, <2>3, <2>5, <2>8, <2>9, <2>10 DEF OrderInv
<1>16. TailInv'
  <2> SUFFICES ASSUME ~dirty'
               PROVE  /\ deleting' = 0
                      /\ Agree(Contents(queue'), Contents(rows') \o inserting', Young')
    BY DEF TailInv
  <2>1. ~dirty /\ deleting = 0
    <3>1. deleting \in Nat
      BY <1>0 DEF TypeOK
    <3>2. ~(dirty \/ deleting > 0)
      BY <1>1
    <3>3. ~(deleting > 0)
      BY <3>2
    <3>4. deleting = 0
      BY <3>1, <3>3
    <3>5. QED
      BY <3>2, <3>4
  <2>2. PICK p : p = r \o inserting
    OBVIOUS
  <2>3. Agree(c, p, Young)
    BY <1>0, <1>2, <2>1, <2>2 DEF TailInv
  <2>4. /\ p \in Seq(Msgs) /\ Len(p) = Len(r) + Len(inserting)
        /\ \A i \in 1..Len(p) : p[i] = IF i <= Len(r) THEN r[i] ELSE inserting[i - Len(r)]
    <3>1. r \in Seq(Msgs) /\ inserting \in Seq(Msgs)
      BY <1>3, <1>12
    <3>2. QED
      BY ONLY <2>2, <3>1, ConcatProperties
  <2>5. PICK Y, Z : Y = Young /\ Z = Young'
    OBVIOUS
  <2>6. \A x \in Msgs \ unsent : x \in Z <=> x \in Y
    BY <1>1, <1>5, <2>5 DEF Young, Old
  <2>7. m \in Z
    <3>1. ~(now - now > TTL)
      BY <1>3, QueueAssumption
    <3>2. since'[m] = now /\ now' = now
      BY <1>1, <1>4
    <3>3. QED
      BY <2>5, <3>1, <3>2 DEF Young, Old
  <2>8. \A i \in 1..Len(c) : c[i] \in Z <=> c[i] \in Y
    BY <1>3, <2>6
  <2>9. ASSUME NEW i \in 1..Len(p) PROVE p[i] \in Z <=> p[i] \in Y
    <3>1. CASE i <= Len(r)
      <4>1. i \in 1..Len(rows) /\ p[i] = r[i]
        BY <1>3, <2>4, <3>1
      <4>2. p[i] \in Msgs \ unsent
        BY <1>3, <4>1
      <4>3. QED
        BY <2>6, <4>2
    <3>2. CASE ~(i <= Len(r))
      <4>1. i - Len(r) \in 1..Len(inserting)
        BY <1>3, <1>12, <2>4, <3>2
      <4>2. p[i] \in Msgs \ unsent
        BY <1>3, <2>4, <3>2, <4>1
      <4>3. QED
        BY <2>6, <4>2
    <3>3. QED
      BY <3>1, <3>2
  <2>10. Len(c) <= MaxLen
    BY <1>0, <1>3 DEF TypeOK
  <2>11. Agree(Newest(Append(c, m), MaxLen), Append(p, m), Z)
    BY <1>3, <2>3, <2>4, <2>5, <2>7, <2>8, <2>9, <2>10, AgreeAppend
  <2>12. Append(p, m) = r \o inserting'
    <3>1. r \in Seq(Msgs) /\ inserting \in Seq(Msgs) /\ m \in Msgs
      BY <1>3, <1>12
    <3>2. r \o Append(inserting, m) = Append(r \o inserting, m)
      BY ONLY <3>1, ConcatAppend
    <3>3. QED
      BY <1>1, <2>2, <3>2
  <2>13. Contents(rows') = r
    BY <1>1, <1>2
  <2>14. QED
    BY <1>1, <1>10, <2>1, <2>5, <2>11, <2>12, <2>13
<1>17. LateOnlyAfterRestart'
  BY <1>0, <1>1 DEF LateOnlyAfterRestart
<1>18. QED
  BY <1>13, <1>14, <1>15, <1>16, <1>17 DEF QueueInv

(* What a router leaves behind that is done with its row.                   *)
LEMMA InsertingLess ==
  ASSUME TypeOK, NEW i \in 1..Len(inserting)
  PROVE  /\ RemoveAt(inserting, i) \in Seq(Msgs) /\ inserting \in Seq(Msgs) /\ inserting # <<>>
         /\ \A k \in 1..Len(RemoveAt(inserting, i)) :
              \E j \in 1..Len(inserting) : RemoveAt(inserting, i)[k] = inserting[j]
<1>1. inserting \in Seq(Msgs) /\ Len(inserting) \in Nat
  BY DEF TypeOK
<1>2. PICK r : r = RemoveAt(inserting, i)
  OBVIOUS
<1>3. /\ r \in Seq(Msgs) /\ Len(r) = Len(inserting) - 1
      /\ \A k \in 1..(Len(inserting) - 1) : r[k] = inserting[IF k < i THEN k ELSE k + 1]
  BY <1>1, <1>2, RemoveAtIs
<1>4. ASSUME NEW k \in 1..Len(r) PROVE \E j \in 1..Len(inserting) : r[k] = inserting[j]
  <2>1. k \in 1..Len(inserting) /\ k + 1 \in 1..Len(inserting) /\ k \in 1..(Len(inserting) - 1)
    BY <1>1, <1>3
  <2>2. CASE k < i
    BY <1>3, <2>1, <2>2
  <2>3. CASE ~(k < i)
    BY <1>3, <2>1, <2>3
  <2>4. QED
    BY <2>2, <2>3
<1>5. inserting # <<>>
  BY <1>1
<1>6. QED
  BY <1>1, <1>2, <1>3, <1>4, <1>5

(* A row is inserted: behind younger ones only if its message is astray.    *)
LEMMA PersistQueueQueue ==
  ASSUME QueueInv, NEW i \in 1..Len(inserting), PersistQueue(i)
  PROVE  QueueInv'
<1>0. TypeOK /\ QueuedInv /\ OrderInv /\ TailInv /\ LateOnlyAfterRestart
  BY DEF QueueInv
<1>1. /\ rows' = Append(rows, Entry(inserting[i])) /\ inserting' = RemoveAt(inserting, i)
      /\ dirty' = (dirty \/ i # 1)
      /\ UNCHANGED <<now, unsent, since, queue, deleting, delivered, late, reloaded, astray>>
  BY DEF PersistQueue
<1>2. PICK x, r : x = inserting[i] /\ r = Contents(rows)
  OBVIOUS
<1>3. /\ rows \in Seq(Entries) /\ r \in Seq(Msgs) /\ Len(r) = Len(rows) /\ Len(rows) \in Nat
      /\ \A j \in 1..Len(rows) : /\ rows[j].msg \in Msgs \ unsent /\ r[j] = rows[j].msg
                                 /\ rows[j].queuedAt \in Nat
      /\ \A j \in 1..Len(inserting) : inserting[j] \in Msgs \ unsent
      /\ \A j \in 1..Len(delivered) : delivered[j] \in Msgs \ unsent
      /\ now \in Nat /\ since \in [Msgs -> Nat]
      /\ Entry(x) \in Entries /\ Entry(x).msg = x /\ Entry(x).queuedAt = now
  BY <1>0, <1>2, Views
<1>4. x \in Msgs \ unsent /\ since[x] \in Int /\ since[x] <= now
  BY <1>0, <1>2, <1>3 DEF QueuedInv
<1>5. /\ inserting' \in Seq(Msgs) /\ inserting \in Seq(Msgs) /\ inserting # <<>>
      /\ \A k \in 1..Len(inserting') : \E j \in 1..Len(inserting) : inserting'[k] = inserting[j]
  BY <1>0, <1>1, InsertingLess
<1>6. /\ rows' \in Seq(Entries) /\ Len(rows') = Len(rows) + 1 /\ rows'[Len(rows) + 1] = Entry(x)
      /\ \A j \in 1..Len(rows) : rows'[j] = rows[j]
  BY <1>1, <1>2, <1>3, AppendProperties
<1>7. Contents(rows') = Append(r, x)
  BY <1>1, <1>2, <1>3, ContentsAppend
<1>8. TypeOK'
  <2>1. rows' \in Seq([msg : Msgs, queuedAt : 0..MaxTime])
    BY <1>6 DEF Entries
  <2>2. dirty' \in BOOLEAN
    BY <1>1
  <2>3. QED
    BY <1>0, <1>1, <1>5, <2>1, <2>2 DEF TypeOK
<1>9. QueuedInv'
  <2>1. ASSUME NEW j \in 1..Len(rows')
        PROVE  /\ rows'[j].msg \notin unsent
               /\ since[rows'[j].msg] <= rows'[j].queuedAt /\ rows'[j].queuedAt <= now
    <3>1. CASE j \in 1..Len(rows)
      BY <1>0, <1>6, <3>1 DEF QueuedInv
    <3>2. CASE j = Len(rows) + 1
      <4>1. rows'[j].msg = x /\ rows'[j].queuedAt = now /\ now <= now
        BY <1>3, <1>6, <3>2
      <4>2. QED
        BY <1>4, <4>1
    <3>3. QED
      BY <1>3, <1>6, <3>1, <3>2
  <2>2. ASSUME NEW j \in 1..Len(rows'), NEW k \in 1..Len(rows'), j <= k
        PROVE  rows'[j].queuedAt <= rows'[k].queuedAt
    <3>1. CASE k \in 1..Len(rows)
      <4>1. j \in 1..Len(rows)
        BY <1>3, <2>2, <3>1
      <4>2. QED
        BY <1>0, <1>6, <2>2, <3>1, <4>1 DEF QueuedInv
    <3>2. CASE k = Len(rows) + 1
      <4>1. rows'[k].queuedAt = now
        BY <1>3, <1>6, <3>2
      <4>2. QED
        BY <2>1, <4>1
    <3>3. QED
      BY <1>3, <1>6, <3>1, <3>2
  <2>3. \A k \in 1..Len(inserting') : inserting'[k] \notin unsent
    BY <1>3, <1>5
  <2>4. QED
    BY <1>0, <1>1, <2>1, <2>2, <2>3 DEF QueuedInv
<1>10. OrderInv'
  <2>1. x \in astray \/ \A y \in Msgs \ unsent : since[y] <= since[x]
    BY <1>0, <1>2 DEF OrderInv
  <2>2. \A j \in 1..Len(r) : r[j] \in Msgs \ unsent
    BY <1>3
  <2>3. x \in astray \/ \A j \in 1..Len(r) : since[r[j]] <= since[x]
    BY <2>1, <2>2
  <2>4. x \in astray \/ \A j \in 1..Len(delivered) : since[delivered[j]] <= since[x]
    BY <1>3, <2>1
  <2>5. Ordered(Append(r, x), astray, since)
    <3>1. Ordered(r, astray, since)
      BY <1>0, <1>2 DEF OrderInv
    <3>2. QED
      BY <1>3, <1>4, <2>3, <3>1, OrderedAppend
  <2>6. deleting = 0 => Behind(delivered, Append(r, x), astray, since)
    <3>1. deleting = 0 => Behind(delivered, r, astray, since)
      BY <1>0, <1>2 DEF OrderInv
    <3>2. QED
      BY <1>3, <1>4, <2>4, <3>1, BehindAppend
  <2>7. \A k \in 1..Len(inserting') : inserting'[k] \notin astray =>
          \A y \in Msgs \ unsent : since[y] <= since[inserting'[k]]
    BY <1>0, <1>5 DEF OrderInv
  <2>8. QED
    BY <1>0, <1>1, <1>7, <2>5, <2>6, <2>7 DEF OrderInv
<1>11. TailInv'
  <2> SUFFICES ASSUME ~dirty'
               PROVE  /\ deleting = 0
                      /\ Agree(Contents(queue), Contents(rows') \o inserting', Young)
    <3>1. deleting' = deleting /\ Contents(queue)' = Contents(queue) /\ Young' = Young
      BY <1>1 DEF Contents, Young, Old
    <3>2. QED
      BY <3>1 DEF TailInv
  <2>1. ~dirty /\ i = 1
    BY <1>1
  <2>2. deleting = 0
    <3>1. deleting \in Nat /\ ~(deleting > 0)
      BY <1>0, <1>5, <2>1 DEF TypeOK, TailInv
    <3>2. QED
      BY <3>1
  <2>3. Append(r, x) \o inserting' = r \o inserting
    <3>1. r \in Seq(Msgs) /\ inserting \in Seq(Msgs) /\ 1 \in 1..Len(inserting)
      BY <1>3, <1>5, <2>1
    <3>2. Append(r, inserting[1]) \o RemoveAt(inserting, 1) = r \o inserting
      BY ONLY <3>1, ConcatMove
    <3>3. QED
      BY <1>1, <1>2, <2>1, <3>2
  <2>4. QED
    BY <1>0, <1>2, <1>7, <2>1, <2>2, <2>3 DEF TailInv
<1>12. LateOnlyAfterRestart'
  BY <1>0, <1>1 DEF LateOnlyAfterRestart
<1>13. QED
  BY <1>8, <1>9, <1>10, <1>11, <1>12 DEF QueueInv

(* An INSERT that fails leaves a message without a row.                     *)
LEMMA PersistFailsQueue ==
  ASSUME QueueInv, NEW i \in 1..Len(inserting), PersistFails(i)
  PROVE  QueueInv'
<1>0. TypeOK /\ QueuedInv /\ OrderInv /\ TailInv /\ LateOnlyAfterRestart
  BY DEF QueueInv
<1>1. /\ inserting' = RemoveAt(inserting, i) /\ dirty' = TRUE
      /\ UNCHANGED <<now, unsent, since, queue, rows, deleting, delivered, late, reloaded, astray>>
  BY DEF PersistFails
<1>2. /\ inserting' \in Seq(Msgs)
      /\ \A k \in 1..Len(inserting') : \E j \in 1..Len(inserting) : inserting'[k] = inserting[j]
  BY <1>0, <1>1, InsertingLess
<1>3. TypeOK'
  BY <1>0, <1>1, <1>2 DEF TypeOK
<1>4. QueuedInv'
  <2>1. \A k \in 1..Len(inserting') : inserting'[k] \notin unsent
    BY <1>0, <1>2 DEF QueuedInv
  <2>2. QED
    BY <1>0, <1>1, <2>1 DEF QueuedInv
<1>5. OrderInv'
  <2>1. \A k \in 1..Len(inserting') : inserting'[k] \notin astray =>
          \A y \in Msgs \ unsent : since[y] <= since[inserting'[k]]
    BY <1>0, <1>2 DEF OrderInv
  <2>2. QED
    BY <1>0, <1>1, <2>1 DEF OrderInv
<1>6. TailInv'
  BY <1>1 DEF TailInv
<1>7. LateOnlyAfterRestart'
  BY <1>0, <1>1 DEF LateOnlyAfterRestart
<1>8. QED
  BY <1>3, <1>4, <1>5, <1>6, <1>7 DEF QueueInv

(* A drain hands out what has not expired, behind what was delivered        *)
(* before.  When all has expired, the rows have nothing fresh either.       *)
LEMMA DrainQueue ==
  ASSUME QueueInv, Drain
  PROVE  QueueInv'
<1>0. TypeOK /\ QueuedInv /\ OrderInv /\ TailInv /\ LateOnlyAfterRestart
  BY DEF QueueInv
<1>1. PICK S, kept, result :
        /\ S = {e \in Range(queue) : ~Old(e.queuedAt)}
        /\ kept = Kept(queue, S) /\ result = Contents(kept)
  OBVIOUS
<1>2. /\ queue # <<>> /\ queue' = <<>> /\ delivered' = delivered \o result
      /\ late' = late \cup {m \in Range(result) : Old(since[m])}
      /\ deleting' = (IF result = <<>> THEN deleting ELSE deleting + 1)
      /\ dirty' = (dirty \/ inserting # <<>>)
      /\ UNCHANGED <<now, unsent, since, rows, inserting, reloaded, astray>>
  BY <1>1 DEF Drain
<1>3. PICK c : c = Contents(queue)
  OBVIOUS
<1>4. /\ queue \in Seq(Entries) /\ Len(queue) \in Nat /\ c \in Seq(Msgs) /\ Len(c) = Len(queue)
      /\ \A i \in 1..Len(queue) : /\ queue[i].msg \in Msgs \ unsent /\ c[i] = queue[i].msg
                                  /\ queue[i].queuedAt \in Nat /\ since[queue[i].msg] \in Nat
      /\ \A i \in 1..Len(delivered) : delivered[i] \in Msgs \ unsent
      /\ now \in Nat
  BY <1>0, <1>3, Views
<1>5. /\ kept \in Seq(Entries) /\ Sub(kept, queue)
      /\ \A i \in 1..Len(kept) : kept[i] \in S
      /\ \A i \in 1..Len(queue) : queue[i] \in S => kept # <<>>
  BY <1>1, <1>4, KeptSub
<1>6. /\ result \in Seq(Msgs) /\ Len(result) = Len(kept) /\ Len(kept) \in Nat
      /\ \A i \in 1..Len(kept) : result[i] = kept[i].msg
      /\ Range(result) = {kept[i].msg : i \in 1..Len(kept)}
  BY <1>1, <1>5, ContentsIs
<1>7. Sub(result, c)
  BY <1>1, <1>3, <1>4, <1>5, SubContents
<1>8. delivered \in Seq(Msgs) /\ delivered' \in Seq(Msgs)
      /\ Len(delivered) \in Nat /\ Len(delivered') = Len(delivered) + Len(result)
      /\ \A i \in 1..Len(delivered') :
           delivered'[i] = IF i <= Len(delivered) THEN delivered[i] ELSE result[i - Len(delivered)]
  <2>1. delivered \in Seq(Msgs)
    BY <1>0 DEF TypeOK
  <2>2. result \in Seq(Msgs) /\ delivered' = delivered \o result
    BY <1>2, <1>6
  <2>3. PICK d : d = delivered \o result
    OBVIOUS
  <2>4. /\ d \in Seq(Msgs) /\ Len(delivered) \in Nat /\ Len(d) = Len(delivered) + Len(result)
        /\ \A i \in 1..Len(d) :
             d[i] = IF i <= Len(delivered) THEN delivered[i] ELSE result[i - Len(delivered)]
    BY ONLY <2>1, <2>2, <2>3, ConcatProperties
  <2>5. QED
    BY <2>1, <2>2, <2>3, <2>4
<1>9. \A i \in 1..Len(result) : result[i] \in Msgs \ unsent
  BY <1>4, <1>7, SubElements
<1>10. Contents(queue') = <<>> /\ Len(Contents(queue')) = 0 /\ Len(queue') = 0
  BY <1>2, EmptyContents
<1>11. TypeOK'
  <2>1. queue' \in Seq([msg : Msgs, queuedAt : 0..MaxTime])
    BY <1>2
  <2>2. Len(queue') <= MaxLen
    BY <1>10, QueueAssumption
  <2>3. deleting' \in Nat
    BY <1>0, <1>2 DEF TypeOK
  <2>4. dirty' \in BOOLEAN
    BY <1>2
  <2>5. late' \in SUBSET Msgs
    BY <1>0, <1>2, <1>6, <1>9 DEF TypeOK
  <2>6. QED
    BY <1>0, <1>2, <1>8, <2>1, <2>2, <2>3, <2>4, <2>5 DEF TypeOK
<1>12. QueuedInv'
  <2>1. ASSUME NEW i \in 1..Len(delivered') PROVE delivered'[i] \notin unsent
    <3>1. CASE i <= Len(delivered)
      BY <1>4, <1>8, <3>1
    <3>2. CASE ~(i <= Len(delivered))
      <4>1. i - Len(delivered) \in 1..Len(result)
        BY <1>6, <1>8, <3>2
      <4>2. QED
        BY <1>8, <1>9, <3>2, <4>1
    <3>3. QED
      BY <3>1, <3>2
  <2>2. QED
    BY <1>0, <1>2, <1>10, <2>1 DEF QueuedInv
<1>13. OrderInv'
  <2>1. Ordered(result, astray, since) /\ Behind(delivered, result, astray, since)
    BY <1>0, <1>3, <1>7, SubOrdered, SubBehind DEF OrderInv
  <2>2. Ordered(delivered', astray, since)
    <3>1. Ordered(delivered, astray, since)
      BY <1>0 DEF OrderInv
    <3>2. QED
      BY <1>2, <1>6, <1>8, <2>1, <3>1, OrderedConcat
  <2>3. Ordered(Contents(queue'), astray, since) /\ Behind(delivered', Contents(queue'), astray, since)
    BY <1>10 DEF Ordered, Behind
  <2>4. ASSUME deleting' = 0 PROVE Behind(delivered', Contents(rows), astray, since)
    <3>1. result = <<>> /\ deleting = 0
      <4>1. deleting \in Nat
        BY <1>0 DEF TypeOK
      <4>2. QED
        BY <1>2, <2>4, <4>1
    <3>2. Len(result) = 0
      BY <3>1
    <3>3. Len(delivered') = Len(delivered) /\ \A i \in 1..Len(delivered) : delivered'[i] = delivered[i]
      BY <1>8, <3>2
    <3>4. Behind(delivered, Contents(rows), astray, since)
      BY <1>0, <3>1 DEF OrderInv
    <3>5. QED
      BY <3>3, <3>4 DEF Behind
  <2>5. QED
    BY <1>0, <1>2, <2>2, <2>3, <2>4 DEF OrderInv
<1>14. TailInv'
  <2>1. ASSUME ~dirty' PROVE queue' = <<>> /\ inserting' = <<>>
    BY <1>2, <2>1
  <2>2. ASSUME ~dirty', deleting' = 0
        PROVE  Agree(Contents(queue'), Contents(rows') \o inserting', Young')
    <3>1. ~dirty /\ rows' = rows /\ inserting' = inserting
      BY <1>2, <2>2
    <3>2. deleting = 0 /\ result = <<>>
      <4>1. deleting \in Nat
        BY <1>0 DEF TypeOK
      <4>2. QED
        BY <1>2, <2>2, <4>1
    <3>3. Agree(c, Contents(rows) \o inserting, Young)
      BY <1>0, <1>3, <3>1, <3>2 DEF TailInv
    <3>4. kept = <<>>
      BY <1>5, <1>6, <3>2
    <3>5. ASSUME NEW i \in 1..Len(c) PROVE c[i] \notin Young
      <4>1. i \in 1..Len(queue) /\ queue[i] \in Range(queue)
        <5>1. i \in 1..Len(queue)
          BY <1>4
        <5>2. queue[i] \in Range(queue)
          BY <1>4, <5>1, ContentsIs
        <5>3. QED
          BY <5>1, <5>2
      <4>2. Old(queue[i].queuedAt)
        BY <1>1, <1>5, <3>4, <4>1
      <4>3. since[queue[i].msg] <= queue[i].queuedAt
        BY <1>0, <4>1 DEF QueuedInv
      <4>4. now - since[queue[i].msg] > TTL
        <5>1. /\ queue[i].queuedAt \in Nat /\ since[queue[i].msg] \in Nat
              /\ now - queue[i].queuedAt > TTL /\ TTL \in Nat
          BY <1>4, <4>1, <4>2, QueueAssumption DEF Old
        <5>2. QED
          BY <1>4, <4>3, <5>1
      <4>5. QED
        BY <1>4, <4>1, <4>4 DEF Young, Old
    <3>6. Agree(<<>>, Contents(rows) \o inserting, Young)
      BY <1>4, <3>3, <3>5, AgreeEmpty
    <3>7. Young' = Young /\ Contents(rows') = Contents(rows)
      BY <1>2 DEF Young, Old
    <3>8. QED
      BY <1>10, <3>1, <3>6, <3>7
  <2>3. QED
    BY <2>1, <2>2 DEF TailInv
<1>15. LateOnlyAfterRestart'
  <2>1. ASSUME NEW m \in Range(result), Old(since[m]) PROVE m \in reloaded
    <3>1. PICK i \in 1..Len(kept) : m = kept[i].msg
      BY <1>6, <2>1
    <3>2. PICK p \in 1..Len(queue) : kept[i] = queue[p]
      BY <1>5, <3>1, SubElements
    <3>3. ~Old(queue[p].queuedAt)
      BY <1>1, <1>5, <3>1, <3>2
    <3>4. queue[p].queuedAt # since[queue[p].msg]
      BY <2>1, <3>1, <3>2, <3>3
    <3>5. QED
      BY <1>0, <3>1, <3>2, <3>4 DEF QueuedInv
  <2>2. QED
    BY <1>0, <1>2, <2>1 DEF LateOnlyAfterRestart
<1>16. QED
  BY <1>11, <1>12, <1>13, <1>14, <1>15 DEF QueueInv

(* After a DELETE nothing is asked of the rows.                             *)
LEMMA DeleteQueueMessagesQueue ==
  ASSUME QueueInv, DeleteQueueMessages
  PROVE  QueueInv'
<1>0. TypeOK /\ QueuedInv /\ OrderInv /\ TailInv /\ LateOnlyAfterRestart
  BY DEF QueueInv
<1>1. /\ deleting > 0 /\ rows' = <<>> /\ deleting' = deleting - 1
      /\ dirty' = (dirty /\ ~(queue = <<>> /\ inserting = <<>> /\ deleting = 1))
      /\ UNCHANGED <<now, unsent, since, queue, inserting, delivered, late, reloaded, astray>>
  BY DEF DeleteQueueMessages
<1>2. Contents(rows') = <<>> /\ Len(Contents(rows')) = 0 /\ Len(rows') = 0
  BY <1>1, EmptyContents
<1>3. deleting \in Nat
  BY <1>0 DEF TypeOK
<1>4. TypeOK'
  <2>1. rows' \in Seq([msg : Msgs, queuedAt : 0..MaxTime])
    BY <1>1
  <2>2. deleting' \in Nat
    BY <1>1, <1>3
  <2>3. dirty' \in BOOLEAN
    BY <1>1
  <2>4. QED
    BY <1>0, <1>1, <2>1, <2>2, <2>3 DEF TypeOK
<1>5. QueuedInv'
  BY <1>0, <1>1, <1>2 DEF QueuedInv
<1>6. OrderInv'
  <2>1. Ordered(Contents(rows'), astray, since) /\ Behind(delivered, Contents(rows'), astray, since)
    BY <1>2 DEF Ordered, Behind
  <2>2. QED
    BY <1>0, <1>1, <2>1 DEF OrderInv
<1>7. TailInv'
  <2>1. ASSUME ~dirty' PROVE queue' = <<>> /\ inserting' = <<>>
    <3>1. CASE ~dirty
      BY <1>0, <1>1, <3>1 DEF TailInv
    <3>2. CASE dirty
      BY <1>1, <2>1, <3>2
    <3>3. QED
      BY <3>1, <3>2
  <2>2. ASSUME ~dirty' PROVE Agree(Contents(queue'), Contents(rows') \o inserting', Young')
    <3>1. Contents(queue') = <<>> /\ Contents(rows') \o inserting' = <<>>
      BY <1>2, <2>1, <2>2, EmptyContents
    <3>2. PICK Y : Y = Young'
      OBVIOUS
    <3>3. Agree(<<>>, <<>>, Y)
      BY DEF Agree
    <3>4. QED
      BY <3>1, <3>2, <3>3
  <2>3. QED
    BY <2>1, <2>2 DEF TailInv
<1>8. LateOnlyAfterRestart'
  BY <1>0, <1>1 DEF LateOnlyAfterRestart
<1>9. QED
  BY <1>4, <1>5, <1>6, <1>7, <1>8 DEF QueueInv

(* Rows that outlive their DELETE are astray, so that nothing is asked of   *)
(* them any more.                                                           *)
LEMMA RowsAstray ==
  ASSUME TypeOK, QueuedInv, NEW A, NEW t, NEW d, Range(Contents(rows)) \subseteq A
  PROVE  Behind(d, Contents(rows), A, t)
<1>1. /\ Len(Contents(rows)) = Len(rows) /\ Range(Contents(rows)) = {rows[i].msg : i \in 1..Len(rows)}
      /\ \A i \in 1..Len(rows) : Contents(rows)[i] = rows[i].msg
  BY Views, ContentsIs
<1>2. \A i \in 1..Len(Contents(rows)) : Contents(rows)[i] \in A
  BY <1>1
<1>3. QED
  BY <1>2 DEF Behind

(* A larger set of messages astray asks for less.                           *)
LEMMA OrderAstray ==
  ASSUME OrderInv, NEW A, astray \subseteq A
  PROVE  /\ Ordered(delivered, A, since)
         /\ Ordered(Contents(queue), A, since)
         /\ Ordered(Contents(rows), A, since)
         /\ Behind(delivered, Contents(queue), A, since)
         /\ deleting = 0 => Behind(delivered, Contents(rows), A, since)
         /\ \A i \in 1..Len(inserting) : inserting[i] \notin A =>
              \A m \in Msgs \ unsent : since[m] <= since[inserting[i]]
<1>1. /\ Ordered(delivered, A, since)
      /\ Ordered(Contents(queue), A, since)
      /\ Ordered(Contents(rows), A, since)
  BY OrderedStill DEF OrderInv
<1>2. /\ Behind(delivered, Contents(queue), A, since)
      /\ deleting = 0 => Behind(delivered, Contents(rows), A, since)
  BY BehindStill DEF OrderInv
<1>3. \A i \in 1..Len(inserting) : inserting[i] \notin A =>
        \A m \in Msgs \ unsent : since[m] <= since[inserting[i]]
  BY DEF OrderInv
<1>4. QED
  BY <1>1, <1>2, <1>3

(* A failed DELETE makes the rows astray.                                   *)
LEMMA DeleteFailsQueue ==
  ASSUME QueueInv, DeleteFails
  PROVE  QueueInv'
<1>0. TypeOK /\ QueuedInv /\ OrderInv /\ TailInv /\ LateOnlyAfterRestart
  BY DEF QueueInv
<1>1. /\ deleting > 0 /\ deleting' = deleting - 1 /\ dirty' = TRUE
      /\ astray' = astray \cup Range(Contents(rows))
      /\ UNCHANGED <<now, unsent, since, queue, rows, inserting, delivered, late, reloaded>>
  BY DEF DeleteFails
<1>2. Range(Contents(rows)) \subseteq Msgs
  <2>1. rows \in Seq(Entries) /\ \A i \in 1..Len(rows) : rows[i].msg \in Msgs
    BY <1>0, Views
  <2>2. QED
    BY <2>1, ContentsIs
<1>3. TypeOK'
  <2>1. deleting' \in Nat
    BY <1>0, <1>1 DEF TypeOK
  <2>2. QED
    BY <1>0, <1>1, <1>2, <2>1 DEF TypeOK
<1>4. QueuedInv'
  BY <1>0, <1>1 DEF QueuedInv
<1>5. OrderInv'
  <2>1. Behind(delivered, Contents(rows), astray', since)
    BY <1>0, <1>1, RowsAstray
  <2>2. astray \subseteq astray'
    BY <1>1
  <2>3. /\ Ordered(delivered, astray', since)
        /\ Ordered(Contents(queue), astray', since)
        /\ Ordered(Contents(rows), astray', since)
        /\ Behind(delivered, Contents(queue), astray', since)
        /\ \A i \in 1..Len(inserting) : inserting[i] \notin astray' =>
             \A m \in Msgs \ unsent : since[m] <= since[inserting[i]]
    BY <1>0, <2>2, OrderAstray
  <2>4. QED
    BY <1>1, <2>1, <2>3 DEF OrderInv
<1>6. TailInv'
  BY <1>1 DEF TailInv
<1>7. LateOnlyAfterRestart'
  BY <1>0, <1>1 DEF LateOnlyAfterRestart
<1>8. QED
  BY <1>3, <1>4, <1>5, <1>6, <1>7 DEF QueueInv

(* A cleanup takes a beginning of the rows, of which nothing is fresh.      *)
LEMMA CleanQueue ==
  ASSUME QueueInv, CleanStale
  PROVE  QueueInv'
<1>0. TypeOK /\ QueuedInv /\ OrderInv /\ TailInv /\ LateOnlyAfterRestart
  BY DEF QueueInv
<1>1. PICK S : S = {e \in Range(rows) : ~Old(e.queuedAt)}
  OBVIOUS
<1>2. /\ rows' = Kept(rows, S)
      /\ UNCHANGED <<now, unsent, since, queue, inserting, deleting, delivered, late,
                     reloaded, astray, dirty>>
  BY <1>1 DEF CleanStale
<1>3. PICK r, v : r = Contents(rows) /\ v = Contents(rows')
  OBVIOUS
<1>4. /\ rows \in Seq(Entries) /\ r \in Seq(Msgs) /\ Len(r) = Len(rows) /\ Len(rows) \in Nat
      /\ \A i \in 1..Len(rows) : /\ rows[i].msg \in Msgs \ unsent /\ r[i] = rows[i].msg
                                 /\ rows[i].queuedAt \in Nat /\ since[rows[i].msg] \in Nat
      /\ now \in Nat
  BY <1>0, <1>3, Views
<1>5. \A i \in 1..Len(rows) : rows[i] \in S <=> ~Old(rows[i].queuedAt)
  <2>1. \A i \in 1..Len(rows) : rows[i] \in Range(rows)
    BY <1>4, ContentsIs
  <2>2. QED
    BY <1>1, <2>1
<1>6. PICK F : F = {i \in 1..Len(rows) : rows[i] \in S}
  OBVIOUS
<1>7. \A i, j \in 1..Len(rows) : i <= j /\ i \in F => j \in F
  <2> SUFFICES ASSUME NEW i \in 1..Len(rows), NEW j \in 1..Len(rows), i <= j, i \in F
               PROVE  j \in F
    OBVIOUS
  <2>1. rows[i].queuedAt <= rows[j].queuedAt
    BY <1>0 DEF QueuedInv
  <2>2. ~(now - rows[i].queuedAt > TTL)
    BY <1>5, <1>6 DEF Old
  <2>3. ~(now - rows[j].queuedAt > TTL)
    BY <1>4, <2>1, <2>2, QueueAssumption
  <2>4. QED
    BY <1>5, <1>6, <2>3 DEF Old
<1>8. PICK n \in 0..Len(rows) : \A i \in 1..Len(rows) : i \in F <=> i > n
  BY <1>4, <1>7, Threshold
<1>9. \A i \in 1..Len(rows) : rows[i] \in S <=> i > n
  BY <1>6, <1>8
<1>10. rows' \in Seq(Entries) /\ Drops(rows', rows, n)
  BY <1>2, <1>4, <1>9, KeptDrops
<1>11. v \in Seq(Msgs) /\ Drops(v, r, n) /\ Sub(v, r)
  <2>1. v \in Seq(Msgs) /\ Drops(v, r, n)
    BY <1>3, <1>4, <1>10, ContentsIs, ContentsDrops
  <2>2. QED
    BY <1>4, <2>1, DropsSub
<1>12. \A i \in 1..Len(rows') : i + n \in 1..Len(rows) /\ rows'[i] = rows[i + n]
  BY <1>4, <1>10 DEF Drops
<1>13. TypeOK'
  <2>1. rows' \in Seq([msg : Msgs, queuedAt : 0..MaxTime])
    BY <1>10 DEF Entries
  <2>2. QED
    BY <1>0, <1>2, <2>1 DEF TypeOK
<1>14. QueuedInv'
  <2>1. \A i \in 1..Len(rows') :
          /\ rows'[i].msg \notin unsent
          /\ since[rows'[i].msg] <= rows'[i].queuedAt /\ rows'[i].queuedAt <= now
    BY <1>0, <1>12 DEF QueuedInv
  <2>2. ASSUME NEW i \in 1..Len(rows'), NEW j \in 1..Len(rows'), i <= j
        PROVE  rows'[i].queuedAt <= rows'[j].queuedAt
    <3>1. i + n <= j + n
      BY <1>8, <2>2
    <3>2. QED
      BY <1>0, <1>12, <3>1 DEF QueuedInv
  <2>3. QED
    BY <1>0, <1>2, <2>1, <2>2 DEF QueuedInv
<1>15. OrderInv'
  <2>1. Ordered(v, astray, since)
    BY <1>0, <1>3, <1>11, SubOrdered DEF OrderInv
  <2>2. deleting = 0 => Behind(delivered, v, astray, since)
    BY <1>0, <1>3, <1>11, SubBehind DEF OrderInv
  <2>3. QED
    BY <1>0, <1>2, <1>3, <2>1, <2>2 DEF OrderInv
<1>16. TailInv'
  <2>1. ASSUME ~dirty, deleting = 0 PROVE Agree(Contents(queue), v \o inserting, Young)
    <3>1. PICK p, u : p = r \o inserting /\ u = v \o inserting
      OBVIOUS
    <3>2. inserting \in Seq(Msgs)
      BY <1>0 DEF TypeOK
    <3>3. /\ p \in Seq(Msgs) /\ Len(p) = Len(r) + Len(inserting) /\ Len(inserting) \in Nat
          /\ \A i \in 1..Len(p) : p[i] = IF i <= Len(r) THEN r[i] ELSE inserting[i - Len(r)]
      <4>1. r \in Seq(Msgs) /\ p = r \o inserting
        BY <1>4, <3>1
      <4>2. QED
        BY ONLY <3>2, <4>1, ConcatProperties
    <3>4. u \in Seq(Msgs) /\ Drops(u, p, n)
      <4>1. u \in Seq(Msgs)
        BY <1>11, <3>1, <3>2, ConcatProperties
      <4>2. Drops(u, p, n)
        BY <1>4, <1>11, <3>1, <3>2, ConcatDrops
      <4>3. QED
        BY <4>1, <4>2
    <3>5. ASSUME NEW i \in 1..n PROVE p[i] \notin Young
      <4>1. i \in 1..Len(rows) /\ ~(i > n) /\ p[i] = r[i]
        BY <1>4, <1>8, <3>3
      <4>2. Old(rows[i].queuedAt)
        BY <1>5, <1>9, <4>1
      <4>3. since[rows[i].msg] <= rows[i].queuedAt
        BY <1>0, <4>1 DEF QueuedInv
      <4>4. now - since[rows[i].msg] > TTL
        <5>1. /\ rows[i].queuedAt \in Nat /\ since[rows[i].msg] \in Nat
              /\ now - rows[i].queuedAt > TTL /\ TTL \in Nat
          BY <1>4, <4>1, <4>2, QueueAssumption DEF Old
        <5>2. QED
          BY <1>4, <4>3, <5>1
      <4>5. QED
        BY <1>4, <4>1, <4>4 DEF Young, Old
    <3>6. Agree(Contents(queue), p, Young)
      BY <1>0, <1>3, <2>1, <3>1 DEF TailInv
    <3>7. Agree(Contents(queue), u, Young)
      BY <3>3, <3>4, <3>5, <3>6, AgreeDrops
    <3>8. QED
      BY <3>1, <3>7
  <2>2. Young' = Young
    BY <1>2 DEF Young, Old
  <2>3. QED
    BY <1>0, <1>2, <1>3, <2>1, <2>2 DEF TailInv
<1>17. LateOnlyAfterRestart'
  BY <1>0, <1>2 DEF LateOnlyAfterRestart
<1>18. QED
  BY <1>13, <1>14, <1>15, <1>16, <1>17 DEF QueueInv

(* A restart makes new entries of the newest rows it can read.              *)
LEMMA RestartQueue ==
  ASSUME QueueInv, Restart
  PROVE  QueueInv'
<1>0. TypeOK /\ QueuedInv /\ OrderInv /\ TailInv /\ LateOnlyAfterRestart
  BY DEF QueueInv
<1>1. PICK readable \in SUBSET Msgs :
        LET loaded == Kept(rows, {e \in Range(rows) : e.msg \in readable})
        IN NewProcess(loaded, Newest([i \in 1..Len(loaded) |-> Entry(loaded[i].msg)], MaxLen))
  BY DEF Restart
<1>2. PICK S, loaded, a :
        /\ S = {e \in Range(rows) : e.msg \in readable} /\ loaded = Kept(rows, S)
        /\ a = [i \in 1..Len(loaded) |-> Entry(loaded[i].msg)]
  OBVIOUS
<1>3. /\ queue' = Newest(a, MaxLen) /\ reloaded' = reloaded \cup Range(Contents(loaded))
      /\ inserting' = <<>> /\ deleting' = 0
      /\ astray' = (IF deleting > 0 THEN astray \cup Range(Contents(rows)) ELSE astray)
      /\ dirty' = (loaded # rows)
      /\ UNCHANGED <<now, unsent, since, rows, delivered, late>>
  BY <1>1, <1>2 DEF NewProcess
<1>4. PICK r, c, l : r = Contents(rows) /\ c = Contents(queue') /\ l = Contents(loaded)
  OBVIOUS
<1>5. /\ rows \in Seq(Entries) /\ r \in Seq(Msgs) /\ Len(r) = Len(rows) /\ Len(rows) \in Nat
      /\ \A i \in 1..Len(rows) : rows[i].msg \in Msgs \ unsent /\ r[i] = rows[i].msg
      /\ now \in Nat /\ since \in [Msgs -> Nat]
      /\ \A m \in Msgs : Entry(m) \in Entries /\ Entry(m).msg = m /\ Entry(m).queuedAt = now
  BY <1>0, <1>4, Views
<1>6. loaded \in Seq(Entries) /\ Sub(loaded, rows)
  BY <1>2, <1>5, KeptSub
<1>7. /\ l \in Seq(Msgs) /\ Len(loaded) \in Nat /\ Len(l) = Len(loaded)
      /\ \A i \in 1..Len(loaded) : l[i] = loaded[i].msg /\ loaded[i].msg \in Msgs
      /\ Range(l) = {loaded[i].msg : i \in 1..Len(loaded)}
  BY <1>4, <1>6, ContentsIs
<1>8. \A i \in 1..Len(loaded) : loaded[i].msg \in Msgs \ unsent
  BY <1>5, <1>6, SubElements
<1>9. a \in Seq(Entries) /\ Len(a) = Len(loaded) /\ \A i \in 1..Len(loaded) : a[i] = Entry(l[i])
  BY <1>2, <1>5, <1>7
<1>10. Contents(a) = l
  <2>1. /\ Contents(a) \in Seq(Msgs) /\ Len(Contents(a)) = Len(a)
        /\ \A i \in 1..Len(a) : Contents(a)[i] = a[i].msg
    BY <1>9, ContentsIs
  <2>2. \A i \in 1..Len(a) : a[i].msg = l[i]
    BY <1>5, <1>7, <1>9
  <2>3. Len(Contents(a)) = Len(l) /\ \A i \in 1..Len(Contents(a)) : Contents(a)[i] = l[i]
    BY <1>7, <1>9, <2>1, <2>2
  <2>4. QED
    BY <1>7, <2>1, <2>3, SeqEqual
<1>11. /\ queue' \in Seq(Entries) /\ Len(queue') <= MaxLen /\ Sub(queue', a)
       /\ c = Newest(l, MaxLen)
  BY <1>3, <1>4, <1>9, <1>10, ContentsNewest
<1>12. Sub(c, r)
  <2>1. Sub(c, l)
    BY <1>4, <1>9, <1>10, <1>11, SubContents
  <2>2. Sub(l, r)
    BY <1>4, <1>5, <1>6, SubContents
  <2>3. QED
    BY <2>1, <2>2, SubTrans
<1>13. Range(r) \subseteq Msgs
  BY <1>4, <1>5, ContentsIs
<1>14. TypeOK'
  <2>1. queue' \in Seq([msg : Msgs, queuedAt : 0..MaxTime])
    BY <1>11 DEF Entries
  <2>2. reloaded' \in SUBSET Msgs
    BY <1>0, <1>3, <1>4, <1>7 DEF TypeOK
  <2>3. astray' \in SUBSET Msgs
    BY <1>0, <1>3, <1>4, <1>13 DEF TypeOK
  <2>4. inserting' \in Seq(Msgs) /\ deleting' \in Nat
    BY <1>3
  <2>5. dirty' \in BOOLEAN
    BY <1>3
  <2>6. QED
    BY <1>0, <1>3, <1>11, <2>1, <2>2, <2>3, <2>4, <2>5 DEF TypeOK
<1>15. Len(inserting') = 0
  BY <1>3
<1>16. QueuedInv'
  <2>1. ASSUME NEW i \in 1..Len(a)
        PROVE  /\ a[i].msg \notin unsent /\ since[a[i].msg] <= a[i].queuedAt
               /\ a[i].msg \in reloaded'
    <3>1. i \in 1..Len(loaded) /\ l[i] \in Msgs \ unsent /\ l[i] \in Range(l)
      BY <1>7, <1>8, <1>9
    <3>2. a[i].msg = l[i] /\ a[i].queuedAt = now
      BY <1>5, <1>9, <3>1
    <3>3. since[l[i]] <= now
      BY <1>0, <3>1 DEF QueuedInv
    <3>4. QED
      BY <1>3, <1>4, <3>1, <3>2, <3>3
  <2>2. \A i \in 1..Len(queue') :
          /\ queue'[i].msg \notin unsent /\ since[queue'[i].msg] <= queue'[i].queuedAt
          /\ queue'[i].msg \in reloaded'
    BY <1>11, <2>1, SubElements
  <2>3. QED
    BY <1>0, <1>3, <1>15, <2>2 DEF QueuedInv
<1>17. OrderInv'
  <2>1. astray \subseteq astray'
    BY <1>3
  <2>2. /\ Ordered(delivered, astray', since) /\ Ordered(r, astray', since)
        /\ deleting = 0 => Behind(delivered, r, astray', since)
    BY <1>0, <1>4, <2>1, OrderAstray
  <2>3. Behind(delivered, r, astray', since)
    <3>1. CASE deleting = 0
      BY <2>2, <3>1
    <3>2. CASE deleting > 0
      <4>1. Range(Contents(rows)) \subseteq astray'
        BY <1>3, <3>2
      <4>2. QED
        BY <1>0, <1>4, <4>1, RowsAstray
    <3>3. deleting \in Nat
      BY <1>0 DEF TypeOK
    <3>4. QED
      BY <3>1, <3>2, <3>3
  <2>4. Ordered(c, astray', since)
    BY <1>12, <2>2, SubOrdered
  <2>5. Behind(delivered, c, astray', since)
    BY <1>12, <2>3, SubBehind
  <2>6. QED
    BY <1>3, <1>4, <1>15, <2>2, <2>3, <2>4, <2>5 DEF OrderInv
<1>18. TailInv'
  <2>1. ~(deleting' > 0)
    BY <1>3
  <2>2. ASSUME ~dirty' PROVE Agree(c, r \o inserting', Young')
    <3>1. loaded = rows
      BY <1>3, <2>2
    <3>2. c = Newest(r, MaxLen)
      BY <1>4, <1>11, <3>1
    <3>3. r \o inserting' = r
      BY <1>3, <1>5, ConcatEmptySeq
    <3>4. PICK Y : Y = Young'
      OBVIOUS
    <3>5. Agree(Newest(r, MaxLen), r, Y)
      BY <1>5, AgreeNewest
    <3>6. QED
      BY <3>2, <3>3, <3>4, <3>5
  <2>3. Contents(rows') = r
    BY <1>3, <1>4
  <2>4. QED
    BY <1>4, <2>1, <2>2, <2>3 DEF TailInv
<1>19. LateOnlyAfterRestart'
  BY <1>0, <1>3 DEF LateOnlyAfterRestart
<1>20. QED
  BY <1>14, <1>16, <1>17, <1>18, <1>19 DEF QueueInv

(* Time only makes things expire.                                           *)
LEMMA TickQueue ==
  ASSUME QueueInv, Tick
  PROVE  QueueInv'
<1>0. TypeOK /\ QueuedInv /\ OrderInv /\ TailInv /\ LateOnlyAfterRestart
  BY DEF QueueInv
<1>1. /\ now' = now + 1 /\ now < MaxTime
      /\ UNCHANGED <<unsent, since, queue, rows, inserting, deleting, delivered, late,
                     reloaded, astray, dirty>>
  BY DEF Tick
<1>2. /\ now \in Nat /\ since \in [Msgs -> Nat] /\ Len(rows) \in Nat
      /\ \A i \in 1..Len(rows) : rows[i].queuedAt \in Nat
  BY <1>0, Views
<1>3. TypeOK'
  <2>1. now' \in 0..MaxTime
    BY <1>0, <1>1, QueueAssumption DEF TypeOK
  <2>2. QED
    BY <1>0, <1>1, <2>1 DEF TypeOK
<1>4. QueuedInv'
  <2>1. \A m \in Msgs : since[m] <= now'
    BY <1>0, <1>1, <1>2 DEF QueuedInv
  <2>2. \A i \in 1..Len(rows) : rows[i].queuedAt <= now'
    BY <1>0, <1>1, <1>2 DEF QueuedInv
  <2>3. QED
    BY <1>0, <1>1, <2>1, <2>2 DEF QueuedInv
<1>5. OrderInv'
  BY <1>0, <1>1 DEF OrderInv
<1>6. TailInv'
  <2>1. PICK Y, Z : Y = Young /\ Z = Young'
    OBVIOUS
  <2>2. Z \subseteq Y
    <3>1. \A m \in Msgs : Old(since[m]) => now' - since[m] > TTL
      BY <1>1, <1>2, QueueAssumption DEF Old
    <3>2. QED
      BY <1>1, <2>1, <3>1 DEF Young, Old
  <2>3. ASSUME ~dirty, deleting = 0 PROVE Agree(Contents(queue), Contents(rows) \o inserting, Z)
    BY <1>0, <2>1, <2>2, <2>3, AgreeFewer DEF TailInv
  <2>4. QED
    BY <1>0, <1>1, <2>1, <2>3 DEF TailInv
<1>7. LateOnlyAfterRestart'
  BY <1>0, <1>1 DEF LateOnlyAfterRestart
<1>8. QED
  BY <1>3, <1>4, <1>5, <1>6, <1>7 DEF QueueInv

-----------------------------------------------------------------------------

(* The queue and its rows fit together in every behaviour.                  *)
THEOREM Invariance == Spec => []QueueInv
<1>1. QueueInv /\ [Next]_vars => QueueInv'
  <2> SUFFICES ASSUME QueueInv, [Next]_vars PROVE QueueInv'
    OBVIOUS
  <2>1. CASE UNCHANGED vars
    <3>1. Young' = Young
      BY <2>1 DEF vars, Young, Old
    <3>2. TypeOK' /\ QueuedInv' /\ OrderInv' /\ LateOnlyAfterRestart'
      BY <2>1 DEF vars, QueueInv, TypeOK, QueuedInv, OrderInv, LateOnlyAfterRestart
    <3>3. TailInv'
      BY <2>1, <3>1 DEF vars, QueueInv, TailInv
    <3>4. QED
      BY <3>2, <3>3 DEF QueueInv
  <2>2. CASE Next
    BY <2>2, EnqueueQueue, PersistQueueQueue, PersistFailsQueue, DrainQueue,
       DeleteQueueMessagesQueue, DeleteFailsQueue, CleanQueue, RestartQueue, TickQueue DEF Next
  <2>3. QED
    BY <2>1, <2>2
<1>2. QED
  BY <1>1, InitQueue, PTL DEF Spec

(* A drain gives out nothing that is older than the time-to-live unless a   *)
(* restart has made its entry anew (queue.go:83, queue_persist.go:61), for  *)
(* any limit and time-to-live.                                              *)
THEOREM LateOnlyAfterRestartHolds == Spec => []LateOnlyAfterRestart
<1>1. QueueInv => LateOnlyAfterRestart
  BY DEF QueueInv
<1>2. QED
  BY <1>1, Invariance, PTL

(* Messages are replayed in the order in which they were queued, over all   *)
(* reconnects, restarts, cleanups and failing statements and for any number *)
(* of routers and replays, but for a message without a row when a later one *)
(* was queued and one whose row outlived its DELETE.                        *)
THEOREM DeliveredInOrderHolds == Spec => []DeliveredInOrder
<1>1. QueueInv => DeliveredInOrder
  <2>1. ASSUME QueueInv, NEW i \in 1..Len(delivered), NEW j \in 1..Len(delivered),
               i < j, delivered[j] \notin astray
        PROVE  since[delivered[i]] <= since[delivered[j]]
    <3>1. i <= j
      BY <2>1
    <3>2. Ordered(delivered, astray, since)
      BY <2>1 DEF QueueInv, OrderInv
    <3>3. QED
      BY <2>1, <3>1, <3>2 DEF Ordered
  <2>2. QED
    BY <2>1 DEF DeliveredInOrder
<1>2. QED
  BY <1>1, Invariance, PTL

(* Between two requests, a restart changes nothing while nothing has        *)
(* expired, whatever the limit is and however many rows there are           *)
(* (queue.go:57-60, queue_persist.go:61), unless a statement has failed or  *)
(* requests have crossed since memory and rows last agreed.                 *)
THEOREM RestartIsTransparentHolds == Spec => []RestartIsTransparent
<1>1. QueueInv => RestartIsTransparent
  <2> SUFFICES ASSUME QueueInv, inserting = <<>>, deleting = 0, ~dirty, AllFresh
               PROVE  Contents(queue) = Newest(Contents(rows), MaxLen)
    BY DEF RestartIsTransparent
  <2>1. PICK c, r : c = Contents(queue) /\ r = Contents(rows)
    OBVIOUS
  <2>2. /\ queue \in Seq(Entries) /\ c \in Seq(Msgs) /\ Len(c) = Len(queue)
        /\ \A i \in 1..Len(queue) : queue[i].msg \in Msgs /\ c[i] = queue[i].msg
        /\ rows \in Seq(Entries) /\ r \in Seq(Msgs) /\ Len(r) = Len(rows)
        /\ \A i \in 1..Len(rows) : rows[i].msg \in Msgs /\ r[i] = rows[i].msg
    BY <2>1, Views DEF QueueInv
  <2>3. /\ Range(c) = {queue[i].msg : i \in 1..Len(queue)}
        /\ Range(r) = {rows[i].msg : i \in 1..Len(rows)}
    BY <2>1, <2>2, ContentsIs
  <2>4. /\ \A i \in 1..Len(c) : c[i] \in Range(c)
        /\ \A i \in 1..Len(r) : r[i] \in Range(r)
    BY <2>2, <2>3
  <2>5. /\ \A i \in 1..Len(c) : c[i] \in Young
        /\ \A i \in 1..Len(r) : r[i] \in Young
    <3>1. \A m \in Range(c) \cup Range(r) : ~Old(since[m])
      BY <2>1 DEF AllFresh
    <3>2. /\ \A i \in 1..Len(c) : c[i] \in Msgs
          /\ \A i \in 1..Len(r) : r[i] \in Msgs
      BY <2>2
    <3>3. QED
      BY <2>4, <3>1, <3>2 DEF Young
  <2>6. Agree(c, r, Young)
    <3>1. r \o inserting = r
      BY <2>2, ConcatEmptySeq
    <3>2. QED
      BY <2>1, <3>1 DEF QueueInv, TailInv
  <2>7. Len(c) <= MaxLen
    BY <2>2 DEF QueueInv, TypeOK
  <2>8. c = Newest(r, MaxLen)
    BY <2>2, <2>5, <2>6, <2>7, AgreeAll
  <2>9. QED
    BY <2>1, <2>8
<1>2. QED
  BY <1>1, Invariance, PTL
=============================================================================
