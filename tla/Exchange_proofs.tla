--------------------------- MODULE Exchange_proofs ---------------------------
(***************************************************************************)
(* Proofs about Frame and Exchange, for messages of any length, any number  *)
(* of them, a ring of any size and reads that cut the stream anywhere:      *)
(* what is sealed is opened again, frames that the uplink carried whole are *)
(* found by the platform, and what a read is taken for and what ends a wait *)
(* was said by the platform.                                                *)
(***************************************************************************)
EXTENDS Exchange, SequenceTheorems, FiniteSetTheorems, WellFoundedInduction, TLAPS

Messages == [id : Byte, seq : Byte, body : Seq(Byte)]

-----------------------------------------------------------------------------
(* Numbers and recursive functions *)

NatLess == {ss \in Nat \X Nat : ss[1] < ss[2]}

(* The library's induction theorems take an operator; this one takes a set. *)
LEMMA AllNumbers ==
  ASSUME NEW T, 0 \in T, \A k \in Nat : k \in T => k + 1 \in T
  PROVE  \A k \in Nat : k \in T
<1> DEFINE Out == {k \in Nat : k \notin T}
<1> SUFFICES ASSUME Out # {} PROVE FALSE
  OBVIOUS
<1>1. IsWellFoundedOn(NatLess, Nat)
  <2>1. IsWellFoundedOn({ss \in Nat \X Nat : ss[1] < ss[2]}, Nat)
    BY NatLessThanWellFounded DEF OpToRel
  <2> QED
    BY <2>1 DEF NatLess
<1>2. PICK m \in Out : \A k \in Out : <<k, m>> \notin NatLess
  <2>1. Out \in SUBSET Nat
    OBVIOUS
  <2> HIDE DEF Out
  <2> QED
    BY <1>1, <2>1, WFMin
<1>3. m \in Nat /\ m # 0 /\ m - 1 \in Nat
  BY <1>2
<1>4. m - 1 \notin Out
  <2>1. <<m - 1, m>> \in NatLess
    BY <1>3 DEF NatLess
  <2> QED
    BY <1>2, <2>1
<1>5. (m - 1) + 1 = m
  BY <1>3
<1> QED
  BY <1>2, <1>3, <1>4, <1>5

(* A function that gives each place from the one before exists. *)
Stays(R, n, S) == \A i \in 1 .. n : \A x \in S : R[<<i, x>>] \in S
Runs(g, R, s, n, S) ==
  /\ g \in [0 .. n -> S] /\ g[0] = s
  /\ \A i \in 1 .. n : g[i - 1] \in S /\ g[i] = R[<<i, g[i - 1]>>]

LEMMA Running ==
  ASSUME NEW S, NEW s \in S, NEW n \in Nat, NEW R, Stays(R, n, S)
  PROVE  \E g : Runs(g, R, s, n, S)
<1> DEFINE T == {k \in Nat : k <= n => \E g : Runs(g, R, s, k, S)}
<1>1. 0 \in T
  <2>1. Runs([i \in 0 .. 0 |-> s], R, s, 0, S)
    BY DEF Runs
  <2> QED
    BY <2>1
<1>2. ASSUME NEW k \in Nat, k \in T
      PROVE  k + 1 \in T
  <2> SUFFICES ASSUME k + 1 <= n PROVE \E g : Runs(g, R, s, k + 1, S)
    OBVIOUS
  <2>1. PICK g : Runs(g, R, s, k, S)
    BY <1>2
  <2> DEFINE next == R[<<k + 1, g[k]>>]
             h == [i \in 0 .. k + 1 |-> IF i = k + 1 THEN next ELSE g[i]]
  <2>2. g[k] \in S /\ k + 1 \in 1 .. n
    BY <2>1 DEF Runs
  <2>3. next \in S
    BY <2>2 DEF Stays
  <2>4. h[k + 1] = R[<<k + 1, g[k]>>] /\ h[k] = g[k]
    OBVIOUS
  <2>5. \A i \in 0 .. k : h[i] = g[i]
    OBVIOUS
  <2>6. h \in [0 .. k + 1 -> S]
    <3> HIDE DEF next
    <3>1. \A i \in 0 .. k : g[i] \in S
      BY <2>1 DEF Runs
    <3> QED
      BY <2>3, <3>1
  <2> HIDE DEF h, next
  <2>7. ASSUME NEW i \in 1 .. k + 1
        PROVE  h[i - 1] \in S /\ h[i] = R[<<i, h[i - 1]>>]
    <3>1. h[i - 1] \in S
      BY <2>6
    <3>2. CASE i = k + 1
      <4>1. i - 1 = k
        BY <3>2
      <4> QED
        BY <3>1, <3>2, <4>1, <2>4
    <3>3. CASE i # k + 1
      <4>1. i \in 1 .. k /\ i \in 0 .. k /\ i - 1 \in 0 .. k
        BY <3>3
      <4>2. h[i] = g[i] /\ h[i - 1] = g[i - 1] /\ g[i] = R[<<i, g[i - 1]>>]
        BY <4>1, <2>1, <2>5 DEF Runs
      <4> QED
        BY <3>1, <4>2
    <3> QED
      BY <3>2, <3>3
  <2>8. h[0] = s
    BY <2>1, <2>5 DEF Runs
  <2>9. Runs(h, R, s, k + 1, S)
    BY <2>6, <2>7, <2>8 DEF Runs
  <2> QED
    BY <2>9
<1> HIDE DEF T
<1>3. n \in T
  BY <1>1, <1>2, AllNumbers
<1> QED
  BY <1>3 DEF T

-----------------------------------------------------------------------------
(* Sequences, place by place *)

IsJoin(w, a, b) ==
  /\ Len(a) \in Nat /\ Len(b) \in Nat /\ Len(w) = Len(a) + Len(b)
  /\ \A i \in 1 .. Len(a) : w[i] = a[i]
  /\ \A i \in 1 .. Len(b) : w[Len(a) + i] = b[i]

LEMMA Joined ==
  ASSUME NEW S, NEW a \in Seq(S), NEW b \in Seq(S)
  PROVE  a \o b \in Seq(S) /\ IsJoin(a \o b, a, b)
<1> DEFINE m == Len(a)
           n == Len(b)
           w == a \o b
<1>1. m \in Nat /\ n \in Nat
  OBVIOUS
<1>2. /\ w \in Seq(S) /\ Len(w) = m + n
      /\ \A i \in 1 .. m + n : w[i] = IF i <= m THEN a[i] ELSE b[i - m]
  BY ConcatProperties
<1> HIDE DEF w, m, n
<1>3. \A i \in 1 .. m : i \in 1 .. m + n /\ i <= m
  BY <1>1
<1>4. \A i \in 1 .. n : m + i \in 1 .. m + n /\ ~(m + i <= m) /\ (m + i) - m = i
  BY <1>1
<1>5. /\ \A i \in 1 .. m : w[i] = a[i]
      /\ \A i \in 1 .. n : w[m + i] = b[i]
  BY <1>2, <1>3, <1>4
<1> QED
  BY <1>1, <1>2, <1>5 DEF IsJoin, w, m, n

LEMMA JoinIs ==
  ASSUME NEW S, NEW a \in Seq(S), NEW b \in Seq(S), NEW w \in Seq(S), IsJoin(w, a, b)
  PROVE  w = a \o b
<1> DEFINE m == Len(a)
           n == Len(b)
           x == a \o b
<1>1. x \in Seq(S) /\ IsJoin(x, a, b)
  BY Joined
<1>2. /\ m \in Nat /\ n \in Nat /\ Len(w) = m + n /\ Len(x) = m + n
      /\ \A i \in 1 .. m : w[i] = x[i]
      /\ \A i \in 1 .. n : w[m + i] = x[m + i]
  BY <1>1 DEF IsJoin
<1> HIDE DEF m, n, x
<1>3. ASSUME NEW i \in 1 .. m + n
      PROVE  w[i] = x[i]
  <2>1. CASE i \in 1 .. m
    BY <1>2, <2>1
  <2>2. CASE i \notin 1 .. m
    <3>1. i - m \in 1 .. n /\ m + (i - m) = i
      BY <1>2, <2>2
    <3> QED
      BY <1>2, <3>1
  <2> QED
    BY <2>1, <2>2
<1> QED
  BY <1>1, <1>2, <1>3, SeqEqual DEF x

IsCut(w, s, i, j) ==
  /\ Len(w) = (j - i) + 1
  /\ \A k \in 1 .. (j - i) + 1 : w[k] = s[(i - 1) + k]

LEMMA Cut ==
  ASSUME NEW S, NEW s \in Seq(S), NEW i \in Nat \ {0}, NEW j \in Nat, j <= Len(s), i <= j + 1
  PROVE  SubSeq(s, i, j) \in Seq(S) /\ IsCut(SubSeq(s, i, j), s, i, j)
<1> DEFINE w == SubSeq(s, i, j)
<1>1. \A k \in i .. j : s[k] \in S
  <2>1. \A k \in i .. j : k \in 1 .. Len(s)
    OBVIOUS
  <2> QED
    BY <2>1, ElementOfSeq
<1>2. /\ w \in Seq(S) /\ Len(w) = IF i <= j THEN j - i + 1 ELSE 0
      /\ \A k \in 1 .. j - i + 1 : w[k] = s[i + k - 1]
  BY <1>1, SubSeqProperties
<1> HIDE DEF w
<1>3. Len(w) = (j - i) + 1
  BY <1>2
<1>4. \A k \in 1 .. (j - i) + 1 : k \in 1 .. j - i + 1 /\ i + k - 1 = (i - 1) + k
  OBVIOUS
<1>5. \A k \in 1 .. (j - i) + 1 : w[k] = s[(i - 1) + k]
  BY <1>2, <1>4
<1> QED
  BY <1>2, <1>3, <1>5 DEF IsCut, w

-----------------------------------------------------------------------------
(* The check *)

LEMMA XorFacts ==
  /\ \A a, b \in Byte : Xor[<<a, b>>] \in Byte
  /\ \A a \in Byte : Xor[<<a, a>>] = 0
  /\ Xor[<<0, FLAG>>] = FLAG
  /\ {0, FLAG, ESC} \subseteq Byte
<1>1. ASSUME NEW a \in Byte, NEW b \in Byte
      PROVE  /\ Xor[<<a, b>>] \in Byte
             /\ a = b => Xor[<<a, b>>] = 0
             /\ a = 0 /\ b = FLAG => Xor[<<a, b>>] = FLAG
  <2> DEFINE bit(w) == ((a \div w) + (b \div w)) % 2
  <2>1. Xor[<<a, b>>] = bit(1) + 2 * bit(2) + 4 * bit(4)
    <3>1. <<a, b>> \in Byte \X Byte /\ <<a, b>>[1] = a /\ <<a, b>>[2] = b
      OBVIOUS
    <3> QED
      BY <3>1 DEF Xor
  <2>2. bit(1) \in 0 .. 1 /\ bit(2) \in 0 .. 1 /\ bit(4) \in 0 .. 1
    BY DEF Byte
  <2>3. a = b => bit(1) = 0 /\ bit(2) = 0 /\ bit(4) = 0
    BY DEF Byte
  <2>4. a = 0 /\ b = FLAG => bit(1) = 0 /\ bit(2) = 1 /\ bit(4) = 1
    BY DEF FLAG
  <2> HIDE DEF bit
  <2> QED
    BY <2>1, <2>2, <2>3, <2>4 DEF Byte, FLAG
<1>2. {0, FLAG, ESC} \subseteq Byte
  BY DEF Byte, FLAG, ESC
<1> QED
  BY <1>1, <1>2

(* u is the check of every beginning of s. *)
Checks(u, s) ==
  /\ u \in [0 .. Len(s) -> Byte]
  /\ u[0] = 0
  /\ \A i \in 1 .. Len(s) : u[i] = Xor[<<u[i - 1], s[i]>>]

LEMMA CheckIsTaken ==
  ASSUME NEW s \in Seq(Byte)
  PROVE  \E u : Checks(u, s) /\ XOR_Check(s) = u[Len(s)]
<1> DEFINE n == Len(s)
           R == [ix \in (1 .. n) \X Byte |-> Xor[<<ix[2], s[ix[1]]>>]]
           Body(f) == [i \in 0 .. n |-> IF i = 0 THEN 0 ELSE Xor[<<f[i - 1], s[i]>>]]
<1>1. n \in Nat /\ \A i \in 1 .. n : s[i] \in Byte
  OBVIOUS
<1>2. \A i \in 1 .. n : \A x \in Byte : R[<<i, x>>] = Xor[<<x, s[i]>>]
  OBVIOUS
<1>3. \E g : Runs(g, R, 0, n, Byte)
  <2>1. 0 \in Byte
    BY XorFacts
  <2> HIDE DEF R, n
  <2>2. \A i \in 1 .. n : \A x \in Byte : R[<<i, x>>] \in Byte
    BY <1>1, <1>2, XorFacts
  <2>3. Stays(R, n, Byte)
    BY <2>2 DEF Stays
  <2> QED
    BY <1>1, <2>1, <2>3, Running
<1> HIDE DEF R
<1>4. PICK g : Runs(g, R, 0, n, Byte)
  BY <1>3
<1>5. /\ g \in [0 .. n -> Byte] /\ g[0] = 0
      /\ \A i \in 1 .. n : g[i] = Xor[<<g[i - 1], s[i]>>]
  BY <1>1, <1>2, <1>4 DEF Runs
<1>6. g = Body(g)
  <2>1. \A i \in 0 .. n : g[i] = IF i = 0 THEN 0 ELSE Xor[<<g[i - 1], s[i]>>]
    BY <1>1, <1>5
  <2> QED
    BY <1>5, <2>1
<1> DEFINE upto == CHOOSE f : f = Body(f)
<1>7. upto = Body(upto)
  BY <1>6
<1>8. XOR_Check(s) = upto[n]
  BY DEF XOR_Check
<1> HIDE DEF upto, n
<1>9. upto[0] = 0 /\ \A i \in 1 .. n : upto[i] = Xor[<<upto[i - 1], s[i]>>]
  <2>1. \A i \in 0 .. n : upto[i] = IF i = 0 THEN 0 ELSE Xor[<<upto[i - 1], s[i]>>]
    BY <1>7
  <2>2. 0 \in 0 .. n /\ \A i \in 1 .. n : i \in 0 .. n /\ i # 0
    BY <1>1
  <2> HIDE DEF n
  <2> QED
    BY <2>1, <2>2, Zenon
<1>10. \A k \in Nat : k <= n => upto[k] = g[k]
  <2> DEFINE T == {k \in Nat : k <= n => upto[k] = g[k]}
  <2>1. 0 \in T
    BY <1>5, <1>9
  <2>2. ASSUME NEW k \in Nat, k \in T
        PROVE  k + 1 \in T
    <3> SUFFICES ASSUME k + 1 <= n PROVE upto[k + 1] = g[k + 1]
      OBVIOUS
    <3>1. k + 1 \in 1 .. n /\ (k + 1) - 1 = k /\ upto[k] = g[k]
      BY <1>1, <2>2
    <3> QED
      BY <1>5, <1>9, <3>1
  <2> HIDE DEF T
  <2>3. \A k \in Nat : k \in T
    BY <2>1, <2>2, AllNumbers
  <2> QED
    BY <2>3 DEF T
<1>11. XOR_Check(s) = g[n]
  BY <1>1, <1>8, <1>10
<1>12. Checks(g, s)
  BY <1>5 DEF Checks, n
<1> QED
  BY <1>11, <1>12 DEF n

LEMMA CheckIs ==
  ASSUME NEW s \in Seq(Byte), NEW u, Checks(u, s)
  PROVE  XOR_Check(s) = u[Len(s)] /\ XOR_Check(s) \in Byte
<1>1. PICK v : Checks(v, s) /\ XOR_Check(s) = v[Len(s)]
  BY CheckIsTaken
<1> DEFINE n == Len(s)
           T == {k \in Nat : k <= n => u[k] = v[k]}
<1>2. n \in Nat
  OBVIOUS
<1>3. 0 \in T
  BY <1>1 DEF Checks
<1>4. ASSUME NEW k \in Nat, k \in T
      PROVE  k + 1 \in T
  <2> SUFFICES ASSUME k + 1 <= n PROVE u[k + 1] = v[k + 1]
    OBVIOUS
  <2>1. k + 1 \in 1 .. n /\ (k + 1) - 1 = k /\ u[k] = v[k]
    BY <1>2, <1>4
  <2> QED
    BY <1>1, <2>1 DEF Checks
<1> HIDE DEF T
<1>5. \A k \in Nat : k \in T
  BY <1>3, <1>4, AllNumbers
<1>6. u[n] = v[n]
  BY <1>2, <1>5 DEF T
<1>7. v[n] \in Byte
  BY <1>1, <1>2 DEF Checks
<1> QED
  BY <1>1, <1>6, <1>7

(* The check of a message followed by its own check and two flags is 0, and  *)
(* the check goes on as if these were not there.                             *)
Follows(all, s, t) ==
  /\ Len(all) = Len(s) + 3 + Len(t)
  /\ \A i \in 1 .. Len(s) : all[i] = s[i]
  /\ all[Len(s) + 1] = XOR_Check(s) /\ all[Len(s) + 2] = FLAG /\ all[Len(s) + 3] = FLAG
  /\ \A i \in 1 .. Len(t) : all[Len(s) + 3 + i] = t[i]

LEMMA CheckCancels ==
  ASSUME NEW s \in Seq(Byte), NEW t \in Seq(Byte), NEW all \in Seq(Byte), Follows(all, s, t)
  PROVE  XOR_Check(all) = XOR_Check(t)
<1> USE DEF Follows
<1>1. PICK u : Checks(u, s) /\ XOR_Check(s) = u[Len(s)]
  BY CheckIsTaken
<1>2. PICK v : Checks(v, t) /\ XOR_Check(t) = v[Len(t)]
  BY CheckIsTaken
<1> DEFINE a == Len(s)
           b == Len(t)
           w == [i \in 0 .. a + 3 + b |->
                   IF i <= a THEN u[i]
                   ELSE IF i = a + 1 THEN 0
                   ELSE IF i = a + 2 THEN FLAG
                   ELSE v[i - (a + 3)]]
<1>3. a \in Nat /\ b \in Nat
  OBVIOUS
<1>4. /\ \A i \in 0 .. a : u[i] \in Byte
      /\ \A i \in 0 .. b : v[i] \in Byte
      /\ u[0] = 0 /\ v[0] = 0
      /\ \A i \in 1 .. a : u[i] = Xor[<<u[i - 1], s[i]>>]
      /\ \A i \in 1 .. b : v[i] = Xor[<<v[i - 1], t[i]>>]
  BY <1>1, <1>2 DEF Checks
<1> HIDE DEF a, b
<1>5. /\ \A i \in 0 .. a : w[i] = u[i]
      /\ w[a + 1] = 0 /\ w[a + 2] = FLAG
      /\ \A i \in 0 .. b : w[a + 3 + i] = v[i]
  <2>1. \A i \in 0 .. b : /\ a + 3 + i \in 0 .. a + 3 + b /\ ~(a + 3 + i <= a)
                          /\ a + 3 + i # a + 1 /\ a + 3 + i # a + 2 /\ (a + 3 + i) - (a + 3) = i
    BY <1>3
  <2> QED
    BY <1>3, <2>1
<1>6. w \in [0 .. a + 3 + b -> Byte]
  <2>1. ASSUME NEW i \in 0 .. a + 3 + b
        PROVE  w[i] \in Byte
    <3>1. CASE i <= a
      BY <1>3, <1>4, <1>5, <3>1
    <3>2. CASE i \in {a + 1, a + 2}
      BY <1>5, <3>2, XorFacts
    <3>3. CASE i > a + 2
      <4> DEFINE j == i - (a + 3)
      <4>1. j \in 0 .. b /\ a + 3 + j = i
        BY <1>3, <3>3
      <4> HIDE DEF w, j
      <4>2. w[a + 3 + j] = v[j]
        BY <1>5, <4>1
      <4>3. v[j] \in Byte
        BY <1>4, <4>1
      <4> QED
        BY <4>1, <4>2, <4>3
    <3> QED
      BY <1>3, <3>1, <3>2, <3>3
  <2>2. DOMAIN w = 0 .. a + 3 + b /\ w = [i \in 0 .. a + 3 + b |-> w[i]]
    OBVIOUS
  <2> HIDE DEF w
  <2> QED
    BY <2>1, <2>2
<1> HIDE DEF w
<1>7. ASSUME NEW i \in 1 .. a + 3 + b
      PROVE  w[i] = Xor[<<w[i - 1], all[i]>>]
  <2>1. CASE i <= a
    <3>1. i \in 1 .. a /\ i - 1 \in 0 .. a /\ i \in 0 .. a
      BY <1>3, <2>1
    <3> QED
      BY <1>4, <1>5, <3>1 DEF a
  <2>2. CASE i = a + 1
    <3>1. i - 1 = a /\ a \in 0 .. a /\ w[a] = u[a] /\ all[i] = u[a]
      BY <1>1, <1>3, <1>5, <2>2 DEF a
    <3>2. u[a] \in Byte
      BY <1>4, <3>1
    <3>3. Xor[<<u[a], u[a]>>] = 0
      BY <3>2, XorFacts
    <3> QED
      BY <1>5, <2>2, <3>1, <3>3
  <2>3. CASE i = a + 2
    <3>1. i - 1 = a + 1 /\ all[i] = FLAG
      BY <1>3, <2>3 DEF a
    <3> QED
      BY <1>5, <2>3, <3>1, XorFacts
  <2>4. CASE i = a + 3
    <3>1. i - 1 = a + 2 /\ all[i] = FLAG /\ i = a + 3 + 0 /\ 0 \in 0 .. b
      BY <1>3, <2>4 DEF a
    <3>2. w[i] = 0
      BY <1>4, <1>5, <3>1
    <3> QED
      BY <1>5, <3>1, <3>2, XorFacts
  <2>5. CASE i > a + 3
    <3> DEFINE k == i - (a + 3)
    <3>1. /\ k \in 1 .. b /\ k \in 0 .. b /\ k - 1 \in 0 .. b
          /\ a + 3 + k = i /\ a + 3 + (k - 1) = i - 1
      BY <1>3, <2>5
    <3> HIDE DEF k
    <3>2. w[i] = v[k] /\ w[i - 1] = v[k - 1] /\ v[k] = Xor[<<v[k - 1], t[k]>>]
      BY <1>4, <1>5, <3>1
    <3>3. all[i] = t[k]
      BY <3>1 DEF a, b
    <3> QED
      BY <3>2, <3>3
  <2>6. i <= a \/ i = a + 1 \/ i = a + 2 \/ i = a + 3 \/ i > a + 3
    BY ONLY <1>3, i \in 1 .. a + 3 + b
  <2> QED
    BY ONLY <2>1, <2>2, <2>3, <2>4, <2>5, <2>6, Zenon
<1>8. Checks(w, all)
  <2>1. w[0] = 0
    BY <1>3, <1>4, <1>5
  <2>2. Len(all) = a + 3 + b
    BY DEF a, b
  <2> QED
    BY <1>6, <1>7, <2>1, <2>2 DEF Checks
<1>9. XOR_Check(all) = w[a + 3 + b]
  BY <1>8, CheckIs DEF a, b
<1>10. w[a + 3 + b] = v[b]
  BY <1>3, <1>5
<1> QED
  BY <1>2, <1>9, <1>10 DEF b

-----------------------------------------------------------------------------
(* Escaping *)

Code(x) == CASE x = FLAG -> <<ESC, 2>> [] x = ESC -> <<ESC, 1>> [] OTHER -> <<x>>

(* p says how far the bytes d have been read when i bytes of s are known. *)
ReadsBy(p, d, s) ==
  /\ p \in [0 .. Len(s) -> Nat] /\ p[0] = 0 /\ p[Len(s)] = Len(d)
  /\ \A i \in 1 .. Len(s) :
        \/ s[i] = FLAG /\ p[i] = p[i - 1] + 2 /\ d[p[i - 1] + 1] = ESC /\ d[p[i - 1] + 2] = 2
        \/ s[i] = ESC /\ p[i] = p[i - 1] + 2 /\ d[p[i - 1] + 1] = ESC /\ d[p[i - 1] + 2] = 1
        \/ s[i] # ESC /\ p[i] = p[i - 1] + 1 /\ d[p[i - 1] + 1] = s[i]

LEMMA CodeFacts ==
  ASSUME NEW x \in Byte
  PROVE  /\ Code(x) \in Seq(Byte \ {FLAG}) /\ Len(Code(x)) \in 1 .. 2
         /\ x = FLAG => Code(x) = <<ESC, 2>>
         /\ x = ESC => Code(x) = <<ESC, 1>>
         /\ x \notin {FLAG, ESC} => Code(x) = <<x>>
<1>1. FLAG # ESC /\ {ESC, 1, 2} \subseteq Byte \ {FLAG}
  BY DEF FLAG, ESC, Byte
<1>2. CASE x = FLAG
  BY <1>1, <1>2 DEF Code
<1>3. CASE x = ESC
  BY <1>1, <1>3 DEF Code
<1>4. CASE x \notin {FLAG, ESC}
  <2>1. x \in Byte \ {FLAG} /\ x # FLAG /\ x # ESC
    BY <1>4
  <2>2. Code(x) = <<x>>
    BY <2>1 DEF Code
  <2>3. <<x>> \in Seq(Byte \ {FLAG}) /\ Len(<<x>>) = 1
    BY <2>1
  <2> QED
    BY <2>1, <2>2, <2>3
<1> QED
  BY <1>2, <1>3, <1>4

(* g grows by one part of c after the other. *)
PutTogether(g, c, n, V) ==
  /\ g \in [0 .. n -> Seq(V)] /\ g[0] = <<>>
  /\ \A i \in 1 .. n : g[i - 1] \in Seq(V) /\ g[i] \in Seq(V) /\ g[i] = g[i - 1] \o c[i]

LEMMA Flattened ==
  ASSUME NEW V, NEW c \in Seq(Seq(V))
  PROVE  \E g : PutTogether(g, c, Len(c), V) /\ FlattenSeq(c) = g[Len(c)]
<1> DEFINE n == Len(c)
           R == [ix \in (1 .. n) \X Seq(V) |-> ix[2] \o c[ix[1]]]
           Body(f) == [i \in 1 .. n |-> IF i = 1 THEN c[i] ELSE f[i - 1] \o c[i]]
           flatten == CHOOSE f : f = Body(f)
<1>1. n \in Nat /\ (\A i \in 1 .. n : c[i] \in Seq(V)) /\ <<>> \in Seq(V)
  OBVIOUS
<1>2. \A i \in 1 .. n : \A x \in Seq(V) : R[<<i, x>>] = x \o c[i]
  OBVIOUS
<1>3. FlattenSeq(c) = IF n = 0 THEN c ELSE flatten[n]
  BY DEF FlattenSeq
<1> HIDE DEF R
<1>4. \E g : PutTogether(g, c, n, V)
  <2> HIDE DEF n
  <2>1. \A i \in 1 .. n : \A x \in Seq(V) : R[<<i, x>>] \in Seq(V)
    <3> TAKE i \in 1 .. n
    <3> TAKE x \in Seq(V)
    <3>1. c[i] \in Seq(V) /\ R[<<i, x>>] = x \o c[i]
      BY <1>1, <1>2
    <3>2. x \o c[i] \in Seq(V)
      BY <3>1, ConcatProperties
    <3> QED
      BY <3>1, <3>2
  <2>2. Stays(R, n, Seq(V))
    BY <2>1 DEF Stays
  <2>3. PICK g : Runs(g, R, <<>>, n, Seq(V))
    BY <1>1, <2>2, Running
  <2>4. /\ g \in [0 .. n -> Seq(V)] /\ g[0] = <<>>
        /\ \A i \in 1 .. n : g[i - 1] \in Seq(V) /\ g[i] = R[<<i, g[i - 1]>>]
    BY <2>3 DEF Runs
  <2>5. ASSUME NEW i \in 1 .. n
        PROVE  g[i - 1] \in Seq(V) /\ g[i] \in Seq(V) /\ g[i] = g[i - 1] \o c[i]
    <3>1. g[i - 1] \in Seq(V) /\ g[i] = R[<<i, g[i - 1]>>]
      BY <2>4
    <3>2. R[<<i, g[i - 1]>>] = g[i - 1] \o c[i]
      BY <1>2, <3>1
    <3>3. R[<<i, g[i - 1]>>] \in Seq(V)
      BY <2>1, <3>1
    <3> QED
      BY <3>1, <3>2, <3>3
  <2>6. PutTogether(g, c, n, V)
    BY <2>4, <2>5 DEF PutTogether
  <2> QED
    BY <2>6
<1>5. PICK g : PutTogether(g, c, n, V)
  BY <1>4
<1>6. /\ g[0] = <<>>
      /\ \A i \in 1 .. n : g[i - 1] \in Seq(V) /\ g[i] \in Seq(V) /\ g[i] = g[i - 1] \o c[i]
  BY <1>5 DEF PutTogether
<1>7. CASE n = 0
  <2>1. c = <<>> /\ FlattenSeq(c) = c
    BY <1>3, <1>7
  <2>2. FlattenSeq(c) = g[n]
    BY <1>6, <1>7, <2>1
  <2> QED
    BY <1>5, <2>2
<1>8. CASE n # 0
  <2>1. 1 \in 1 .. n /\ 1 - 1 = 0 /\ n - 1 \in Nat /\ (n - 1) + 1 = n
    BY <1>1, <1>8
  <2>2. \A i \in 1 .. n : i # 1 => i - 1 \in 1 .. n /\ i \in 1 .. n
    BY <1>1
  <2>3. g[1] = c[1]
    <3>1. g[1] = <<>> \o c[1] /\ c[1] \in Seq(V)
      BY <1>1, <1>6, <2>1
    <3> QED
      BY <3>1, ConcatEmptySeq
  <2> DEFINE h == [i \in 1 .. n |-> g[i]]
  <2>4. \A i \in 1 .. n : h[i] = IF i = 1 THEN c[i] ELSE h[i - 1] \o c[i]
    <3>1. \A i \in 1 .. n : h[i] = g[i]
      OBVIOUS
    <3> HIDE DEF h, n
    <3> QED
      BY <1>6, <2>2, <2>3, <3>1
  <2>5. h = Body(h)
    <3>1. h = [i \in 1 .. n |-> h[i]]
      OBVIOUS
    <3> HIDE DEF h, n
    <3> QED
      BY <2>4, <3>1
  <2>6. flatten = Body(flatten)
    <3> HIDE DEF h, Body
    <3> QED
      BY <2>5
  <2> HIDE DEF flatten, h
  <2>7. \A i \in 1 .. n : flatten[i] = IF i = 1 THEN c[i] ELSE flatten[i - 1] \o c[i]
    <3> HIDE DEF n
    <3> QED
      BY <2>6
  <2> DEFINE T == {k \in Nat : k + 1 <= n => flatten[k + 1] = g[k + 1]}
  <2> HIDE DEF n
  <2>8. 0 \in T
    <3>1. flatten[1] = c[1]
      BY <2>1, <2>7
    <3> QED
      BY <2>3, <3>1
  <2>9. ASSUME NEW k \in Nat, k \in T
        PROVE  k + 1 \in T
    <3> SUFFICES ASSUME (k + 1) + 1 <= n PROVE flatten[(k + 1) + 1] = g[(k + 1) + 1]
      OBVIOUS
    <3> DEFINE m == (k + 1) + 1
    <3>1. m \in 1 .. n /\ m # 1 /\ m - 1 = k + 1 /\ k + 1 <= n
      BY <1>1
    <3> HIDE DEF m
    <3>2. flatten[m] = flatten[m - 1] \o c[m]
      BY <2>7, <3>1
    <3>3. flatten[m - 1] = g[m - 1]
      BY <2>9, <3>1
    <3>4. g[m] = g[m - 1] \o c[m]
      BY <1>6, <3>1
    <3> QED
      BY <3>2, <3>3, <3>4 DEF m
  <2> HIDE DEF T
  <2>10. n - 1 \in T
    BY <2>1, <2>8, <2>9, AllNumbers
  <2>11. flatten[n] = g[n]
    BY <1>1, <2>1, <2>10 DEF T
  <2>12. FlattenSeq(c) = g[n]
    BY <1>3, <1>8, <2>11
  <2> QED
    BY <1>5, <2>12 DEF n
<1> QED
  BY <1>7, <1>8

(* Each part lies where those before it end. *)
LiesIn(g, c, i) ==
  /\ Len(g[i - 1]) \in Nat /\ Len(c[i]) \in Nat /\ Len(g[i]) = Len(g[i - 1]) + Len(c[i])
  /\ \A j \in 1 .. Len(c[i]) : g[Len(c)][Len(g[i - 1]) + j] = c[i][j]

LEMMA Parts ==
  ASSUME NEW V, NEW c \in Seq(Seq(V)), NEW g, PutTogether(g, c, Len(c), V), NEW i \in 1 .. Len(c)
  PROVE  LiesIn(g, c, i)
<1> DEFINE n == Len(c)
<1>1. n \in Nat /\ (\A k \in 1 .. n : c[k] \in Seq(V))
  OBVIOUS
<1>2. /\ \A k \in 0 .. n : g[k] \in Seq(V)
      /\ \A k \in 1 .. n : g[k - 1] \in Seq(V) /\ g[k] \in Seq(V) /\ g[k] = g[k - 1] \o c[k]
  BY DEF PutTogether
<1> HIDE DEF n
<1>3. ASSUME NEW k \in 1 .. n
      PROVE  /\ Len(g[k - 1]) \in Nat /\ Len(c[k]) \in Nat /\ Len(g[k]) = Len(g[k - 1]) + Len(c[k])
             /\ \A j \in 1 .. Len(g[k - 1]) : g[k][j] = g[k - 1][j]
             /\ \A j \in 1 .. Len(c[k]) : g[k][Len(g[k - 1]) + j] = c[k][j]
  <2> DEFINE x == g[k - 1]
             y == c[k]
  <2>1. x \in Seq(V) /\ y \in Seq(V) /\ g[k] = x \o y
    BY <1>1, <1>2
  <2> HIDE DEF x, y
  <2>2. Len(x) \in Nat /\ Len(y) \in Nat
    BY <2>1
  <2>3. /\ Len(x \o y) = Len(x) + Len(y)
        /\ \A j \in 1 .. Len(x) + Len(y) : (x \o y)[j] = IF j <= Len(x) THEN x[j] ELSE y[j - Len(x)]
    BY <2>1, ConcatProperties
  <2>4. \A j \in 1 .. Len(x) : j \in 1 .. Len(x) + Len(y) /\ j <= Len(x)
    BY <2>2
  <2>5. \A j \in 1 .. Len(y) : /\ Len(x) + j \in 1 .. Len(x) + Len(y) /\ ~(Len(x) + j <= Len(x))
                               /\ (Len(x) + j) - Len(x) = j
    BY <2>2
  <2>6. /\ \A j \in 1 .. Len(x) : (x \o y)[j] = x[j]
        /\ \A j \in 1 .. Len(y) : (x \o y)[Len(x) + j] = y[j]
    BY <2>3, <2>4, <2>5
  <2> QED
    BY <2>1, <2>2, <2>3, <2>6 DEF x, y
<1> DEFINE T == {k \in Nat : i + k <= n =>
                   /\ Len(g[i]) <= Len(g[i + k])
                   /\ \A j \in 1 .. Len(g[i]) : g[i + k][j] = g[i][j]}
<1>4. i \in 1 .. n /\ i \in Nat /\ Len(g[i]) \in Nat
  BY <1>1, <1>2 DEF n
<1>5. 0 \in T
  <2>1. i + 0 = i
    BY <1>4
  <2> QED
    BY <1>4, <2>1
<1>6. ASSUME NEW k \in Nat, k \in T
      PROVE  k + 1 \in T
  <2> SUFFICES ASSUME i + (k + 1) <= n
               PROVE  /\ Len(g[i]) <= Len(g[i + (k + 1)])
                      /\ \A j \in 1 .. Len(g[i]) : g[i + (k + 1)][j] = g[i][j]
    OBVIOUS
  <2> DEFINE m == i + (k + 1)
  <2>1. m \in 1 .. n /\ m - 1 = i + k /\ i + k <= n
    BY <1>1, <1>4
  <2>2. Len(g[i]) <= Len(g[m - 1]) /\ \A j \in 1 .. Len(g[i]) : g[m - 1][j] = g[i][j]
    BY <1>6, <2>1
  <2> HIDE DEF m
  <2>3. /\ Len(g[m - 1]) \in Nat /\ Len(c[m]) \in Nat /\ Len(g[m]) = Len(g[m - 1]) + Len(c[m])
        /\ \A j \in 1 .. Len(g[m - 1]) : g[m][j] = g[m - 1][j]
    BY <1>3, <2>1
  <2>4. \A j \in 1 .. Len(g[i]) : j \in 1 .. Len(g[m - 1])
    BY <1>4, <2>2, <2>3
  <2>5. Len(g[i]) <= Len(g[m])
    <3> DEFINE a == Len(g[i]) b == Len(g[m - 1]) x == Len(c[m])
    <3>1. a \in Nat /\ b \in Nat /\ x \in Nat /\ Len(g[m]) = b + x /\ a <= b
      BY <1>4, <2>2, <2>3
    <3> HIDE DEF a, b, x
    <3>2. a <= b + x
      BY <3>1
    <3> QED
      BY <3>1, <3>2 DEF a
  <2>6. \A j \in 1 .. Len(g[i]) : g[m][j] = g[i][j]
    BY <2>2, <2>3, <2>4
  <2> QED
    BY <2>5, <2>6 DEF m
<1> HIDE DEF T
<1>7. n - i \in Nat /\ i + (n - i) = n
  BY <1>1, <1>4
<1>8. n - i \in T
  BY <1>5, <1>6, <1>7, AllNumbers
<1>9. Len(g[i]) <= Len(g[n]) /\ \A j \in 1 .. Len(g[i]) : g[n][j] = g[i][j]
  BY <1>1, <1>7, <1>8 DEF T
<1>10. /\ Len(g[i - 1]) \in Nat /\ Len(c[i]) \in Nat /\ Len(g[i]) = Len(g[i - 1]) + Len(c[i])
       /\ \A j \in 1 .. Len(c[i]) : g[i][Len(g[i - 1]) + j] = c[i][j]
  BY <1>3, <1>4
<1>11. \A j \in 1 .. Len(c[i]) : Len(g[i - 1]) + j \in 1 .. Len(g[i])
  <2> DEFINE a == Len(g[i - 1]) b == Len(c[i])
  <2>1. a \in Nat /\ b \in Nat /\ Len(g[i]) = a + b
    BY <1>10
  <2> HIDE DEF a, b
  <2>2. \A j \in 1 .. b : a + j \in 1 .. a + b
    BY <2>1
  <2> QED
    BY <2>1, <2>2 DEF a, b
<1>12. \A j \in 1 .. Len(c[i]) : g[n][Len(g[i - 1]) + j] = c[i][j]
  BY <1>9, <1>10, <1>11
<1> QED
  BY <1>10, <1>12 DEF n, LiesIn

(* What is escaped can be read, and holds no flag. *)
LEMMA EscapeReads ==
  ASSUME NEW s \in Seq(Byte)
  PROVE  /\ Escape(s) \in Seq(Byte \ {FLAG}) /\ Len(Escape(s)) >= Len(s)
         /\ \E p : ReadsBy(p, Escape(s), s)
<1> DEFINE n == Len(s)
           V == Byte \ {FLAG}
           c == [i \in DOMAIN s |-> Code(s[i])]
<1>1. n \in Nat /\ DOMAIN s = 1 .. n /\ \A i \in 1 .. n : s[i] \in Byte
  OBVIOUS
<1>2. \A i \in 1 .. n : c[i] = Code(s[i])
  BY <1>1
<1>3. \A i \in 1 .. n : Code(s[i]) \in Seq(V) /\ Len(Code(s[i])) \in 1 .. 2
  BY <1>1, CodeFacts
<1>4. c \in Seq(Seq(V)) /\ Len(c) = n
  BY <1>1, <1>3
<1>5. Escape(s) = FlattenSeq(c)
  BY DEF Escape, Code
<1> HIDE DEF c, V
<1>6. PICK g : PutTogether(g, c, Len(c), V) /\ FlattenSeq(c) = g[Len(c)]
  BY <1>4, Flattened
<1> DEFINE d == Escape(s)
           p == [i \in 0 .. n |-> Len(g[i])]
<1>7. d = g[n]
  BY <1>4, <1>5, <1>6
<1> HIDE DEF d
<1>8. ASSUME NEW i \in 1 .. n
      PROVE  /\ Len(g[i - 1]) \in Nat /\ Len(c[i]) \in Nat /\ Len(g[i]) = Len(g[i - 1]) + Len(c[i])
             /\ \A j \in 1 .. Len(c[i]) : d[Len(g[i - 1]) + j] = c[i][j]
  <2>1. i \in 1 .. Len(c) /\ d = g[Len(c)]
    BY <1>4, <1>7
  <2>2. PutTogether(g, c, Len(c), V)
    BY <1>6
  <2>3. LiesIn(g, c, i)
    <3> HIDE DEF n
    <3> QED
      BY <1>4, <2>1, <2>2, Parts
  <2> QED
    BY <2>1, <2>3 DEF LiesIn
<1>9. /\ \A i \in 0 .. n : g[i] \in Seq(V)
      /\ g[0] = <<>>
  BY <1>4, <1>6 DEF PutTogether
<1> HIDE DEF n
<1>10. /\ p \in [0 .. n -> Nat] /\ \A i \in 0 .. n : p[i] = Len(g[i]) /\ Len(g[i]) \in Nat
       /\ p[0] = 0 /\ p[n] = Len(d) /\ d \in Seq(V) /\ Len(d) \in Nat
  <2>1. \A i \in 0 .. n : Len(g[i]) \in Nat
    BY <1>9
  <2>2. 0 \in 0 .. n /\ n \in 0 .. n
    BY <1>1
  <2>3. d \in Seq(V)
    BY <1>7, <1>9, <2>2
  <2> QED
    BY <1>7, <1>9, <2>1, <2>2, <2>3
<1>11. ASSUME NEW i \in 1 .. n
       PROVE  /\ p[i] = p[i - 1] + Len(c[i]) /\ p[i - 1] \in Nat
              /\ \A j \in 1 .. Len(c[i]) : d[p[i - 1] + j] = c[i][j]
  <2>1. i - 1 \in 0 .. n /\ i \in 0 .. n
    BY <1>1
  <2>2. p[i] = Len(g[i]) /\ p[i - 1] = Len(g[i - 1])
    BY <1>10, <2>1
  <2> QED
    BY <1>8, <2>2
<1> HIDE DEF p
<1>12. ASSUME NEW i \in 1 .. n
       PROVE  \/ s[i] = FLAG /\ p[i] = p[i - 1] + 2 /\ d[p[i - 1] + 1] = ESC /\ d[p[i - 1] + 2] = 2
              \/ s[i] = ESC /\ p[i] = p[i - 1] + 2 /\ d[p[i - 1] + 1] = ESC /\ d[p[i - 1] + 2] = 1
              \/ s[i] # ESC /\ p[i] = p[i - 1] + 1 /\ d[p[i - 1] + 1] = s[i]
  <2>1. c[i] = Code(s[i]) /\ s[i] \in Byte /\ p[i] = p[i - 1] + Len(c[i])
    BY <1>1, <1>2, <1>11
  <2>2. \A j \in 1 .. Len(c[i]) : d[p[i - 1] + j] = c[i][j]
    BY <1>11
  <2>3. CASE s[i] = FLAG
    <3>1. c[i] = <<ESC, 2>>
      BY <2>1, <2>3, CodeFacts
    <3>2. Len(c[i]) = 2 /\ c[i][1] = ESC /\ c[i][2] = 2 /\ 1 \in 1 .. 2 /\ 2 \in 1 .. 2
      BY <3>1
    <3> QED
      BY <2>1, <2>2, <2>3, <3>2
  <2>4. CASE s[i] = ESC
    <3>1. c[i] = <<ESC, 1>>
      BY <2>1, <2>4, CodeFacts
    <3>2. Len(c[i]) = 2 /\ c[i][1] = ESC /\ c[i][2] = 1 /\ 1 \in 1 .. 2 /\ 2 \in 1 .. 2
      BY <3>1
    <3> QED
      BY <2>1, <2>2, <2>4, <3>2
  <2>5. CASE s[i] \notin {FLAG, ESC}
    <3>1. c[i] = <<s[i]>>
      BY <2>1, <2>5, CodeFacts
    <3>2. Len(c[i]) = 1 /\ c[i][1] = s[i] /\ 1 \in 1 .. 1
      BY <3>1
    <3> QED
      BY <2>1, <2>2, <2>5, <3>2
  <2> QED
    BY <2>3, <2>4, <2>5
<1>13. ReadsBy(p, d, s)
  BY <1>10, <1>12 DEF ReadsBy, n
<1>14. Len(d) >= n
  <2> DEFINE T == {k \in Nat : k <= n => p[k] >= k}
  <2>1. 0 \in T
    BY <1>10
  <2>2. ASSUME NEW k \in Nat, k \in T
        PROVE  k + 1 \in T
    <3> SUFFICES ASSUME k + 1 <= n PROVE p[k + 1] >= k + 1
      OBVIOUS
    <3> DEFINE m == k + 1
    <3>1. m \in 1 .. n /\ m - 1 = k /\ p[k] >= k
      BY <1>1, <2>2
    <3>2. Len(c[m]) \in 1 .. 2
      BY <1>2, <1>3, <3>1 DEF n, V
    <3> HIDE DEF m
    <3>3. p[m] = p[m - 1] + Len(c[m]) /\ p[m - 1] \in Nat
      BY <1>11, <3>1
    <3>4. p[m] >= m
      <4> DEFINE a == p[m - 1] x == Len(c[m])
      <4>1. a \in Nat /\ x \in 1 .. 2 /\ p[m] = a + x /\ a >= k /\ m = k + 1
        BY <1>1, <3>1, <3>2, <3>3
      <4> HIDE DEF a, x
      <4>2. a + x >= k + 1
        BY <4>1
      <4> QED
        BY <4>1, <4>2
    <3> QED
      BY <3>4 DEF m
  <2> HIDE DEF T
  <2>3. n \in T
    BY <1>1, <2>1, <2>2, AllNumbers
  <2>4. p[n] >= n
    BY <1>1, <2>3 DEF T
  <2> QED
    BY <1>10, <2>4
<1> QED
  BY <1>10, <1>13, <1>14 DEF d, n, V

(* What reads two texts reads them one after the other. *)
LEMMA ReadsOn ==
  ASSUME NEW d \in Seq(Byte), NEW s \in Seq(Byte), NEW p, ReadsBy(p, d, s)
  PROVE  \A i \in 0 .. Len(s) : p[i] \in Nat /\ p[i] <= Len(d)
<1> DEFINE n == Len(s)
           N == Len(d)
           T == {k \in Nat : k <= n => p[n - k] <= N}
<1>1. n \in Nat /\ N \in Nat
  OBVIOUS
<1>2. p[n] = N /\ \A i \in 0 .. n : p[i] \in Nat
  BY DEF ReadsBy
<1>3. \A i \in 1 .. n : p[i] = p[i - 1] + 1 \/ p[i] = p[i - 1] + 2
  BY DEF ReadsBy
<1> HIDE DEF n, N
<1>4. 0 \in T
  <2>1. n - 0 = n
    BY <1>1
  <2> QED
    BY <1>1, <1>2, <2>1
<1>5. ASSUME NEW k \in Nat, k \in T
      PROVE  k + 1 \in T
  <2> SUFFICES ASSUME k + 1 <= n PROVE p[n - (k + 1)] <= N
    OBVIOUS
  <2> DEFINE i == n - k
  <2>1. i \in 1 .. n /\ i - 1 = n - (k + 1) /\ i \in 0 .. n /\ i - 1 \in 0 .. n /\ k <= n
    BY <1>1
  <2>2. p[i] <= N
    BY <1>5, <2>1
  <2> HIDE DEF i
  <2> DEFINE a == p[i - 1] b == p[i]
  <2>3. a \in Nat /\ b \in Nat /\ (b = a + 1 \/ b = a + 2) /\ b <= N
    BY <1>2, <1>3, <2>1, <2>2
  <2> HIDE DEF a, b
  <2>4. a <= N
    BY <1>1, <2>3
  <2> QED
    BY <2>1, <2>4 DEF a
<1> HIDE DEF T
<1>6. \A k \in Nat : k \in T
  BY <1>4, <1>5, AllNumbers
<1>7. ASSUME NEW i \in 0 .. n
      PROVE  p[i] <= N
  <2>1. n - i \in Nat /\ n - i <= n /\ n - (n - i) = i
    BY <1>1
  <2>2. n - i \in T
    BY <1>6, <2>1
  <2> QED
    BY <2>1, <2>2 DEF T
<1> QED
  BY <1>2, <1>7 DEF n, N

LEMMA ReadsJoined ==
  ASSUME NEW d \in Seq(Byte), NEW s \in Seq(Byte), NEW p, ReadsBy(p, d, s),
         NEW e \in Seq(Byte), NEW t \in Seq(Byte), NEW q, ReadsBy(q, e, t)
  PROVE  \E r : ReadsBy(r, d \o e, s \o t)
<1> DEFINE n == Len(s)
           m == Len(t)
           N == Len(d)
           D == d \o e
           T == s \o t
           r == [i \in 0 .. n + m |-> IF i <= n THEN p[i] ELSE N + q[i - n]]
<1>1. n \in Nat /\ m \in Nat /\ N \in Nat /\ Len(e) \in Nat
  OBVIOUS
<1>2. /\ D \in Seq(Byte) /\ Len(D) = N + Len(e)
      /\ \A i \in 1 .. N : D[i] = d[i]
      /\ \A i \in 1 .. Len(e) : D[N + i] = e[i]
  BY Joined DEF IsJoin
<1>3. /\ T \in Seq(Byte) /\ Len(T) = n + m
      /\ \A i \in 1 .. n : T[i] = s[i]
      /\ \A i \in 1 .. m : T[n + i] = t[i]
  BY Joined DEF IsJoin
<1>4. /\ \A i \in 0 .. n : p[i] \in Nat /\ p[i] <= N
      /\ \A i \in 0 .. m : q[i] \in Nat /\ q[i] <= Len(e)
      /\ p[0] = 0 /\ p[n] = N /\ q[0] = 0 /\ q[m] = Len(e)
  BY ReadsOn DEF ReadsBy
<1>5. /\ \A i \in 1 .. n :
           \/ s[i] = FLAG /\ p[i] = p[i - 1] + 2 /\ d[p[i - 1] + 1] = ESC /\ d[p[i - 1] + 2] = 2
           \/ s[i] = ESC /\ p[i] = p[i - 1] + 2 /\ d[p[i - 1] + 1] = ESC /\ d[p[i - 1] + 2] = 1
           \/ s[i] # ESC /\ p[i] = p[i - 1] + 1 /\ d[p[i - 1] + 1] = s[i]
      /\ \A i \in 1 .. m :
           \/ t[i] = FLAG /\ q[i] = q[i - 1] + 2 /\ e[q[i - 1] + 1] = ESC /\ e[q[i - 1] + 2] = 2
           \/ t[i] = ESC /\ q[i] = q[i - 1] + 2 /\ e[q[i - 1] + 1] = ESC /\ e[q[i - 1] + 2] = 1
           \/ t[i] # ESC /\ q[i] = q[i - 1] + 1 /\ e[q[i - 1] + 1] = t[i]
  BY DEF ReadsBy
<1> HIDE DEF n, m, N, D, T
<1>6. /\ \A i \in 0 .. n : r[i] = p[i]
      /\ \A i \in 0 .. m : r[n + i] = N + q[i]
  <2>1. \A i \in 0 .. n : i \in 0 .. n + m /\ i <= n
    BY <1>1
  <2>2. ASSUME NEW i \in 0 .. m
        PROVE  r[n + i] = N + q[i]
    <3>1. CASE i = 0
      <4>1. n + i = n /\ n \in 0 .. n + m /\ n <= n /\ N + 0 = N
        BY <1>1, <3>1
      <4> QED
        BY <1>4, <3>1, <4>1
    <3>2. CASE i # 0
      <4>1. n + i \in 0 .. n + m /\ ~(n + i <= n) /\ (n + i) - n = i
        BY <1>1, <3>2
      <4> QED
        BY <4>1
    <3> QED
      BY <3>1, <3>2
  <2> QED
    BY <2>1, <2>2
<1>7. r \in [0 .. n + m -> Nat]
  <2>1. ASSUME NEW i \in 0 .. n + m
        PROVE  (IF i <= n THEN p[i] ELSE N + q[i - n]) \in Nat
    <3>1. CASE i <= n
      <4>1. i \in 0 .. n
        BY <1>1, <3>1
      <4> QED
        BY <1>4, <3>1, <4>1
    <3>2. CASE ~(i <= n)
      <4>1. i - n \in 0 .. m
        BY <1>1, <3>2
      <4>2. q[i - n] \in Nat
        BY <1>4, <4>1
      <4> QED
        BY <1>1, <3>2, <4>2
    <3> QED
      BY <3>1, <3>2
  <2> QED
    BY <2>1
<1> HIDE DEF r
<1>8. r[0] = 0 /\ r[n + m] = Len(D)
  <2>1. 0 \in 0 .. n /\ m \in 0 .. m
    BY <1>1
  <2> QED
    BY <1>2, <1>4, <1>6, <2>1
<1>9. ASSUME NEW i \in 1 .. n + m
      PROVE  \/ T[i] = FLAG /\ r[i] = r[i - 1] + 2 /\ D[r[i - 1] + 1] = ESC /\ D[r[i - 1] + 2] = 2
             \/ T[i] = ESC /\ r[i] = r[i - 1] + 2 /\ D[r[i - 1] + 1] = ESC /\ D[r[i - 1] + 2] = 1
             \/ T[i] # ESC /\ r[i] = r[i - 1] + 1 /\ D[r[i - 1] + 1] = T[i]
  <2>1. CASE i <= n
    <3> DEFINE a == p[i - 1] b == p[i]
    <3>1. i \in 1 .. n /\ i - 1 \in 0 .. n /\ i \in 0 .. n
      BY <1>1, <2>1
    <3>2. r[i] = b /\ r[i - 1] = a /\ T[i] = s[i] /\ a \in Nat /\ b \in Nat /\ b <= N
      BY <1>3, <1>4, <1>6, <3>1
    <3>3. \/ s[i] = FLAG /\ b = a + 2 /\ d[a + 1] = ESC /\ d[a + 2] = 2
          \/ s[i] = ESC /\ b = a + 2 /\ d[a + 1] = ESC /\ d[a + 2] = 1
          \/ s[i] # ESC /\ b = a + 1 /\ d[a + 1] = s[i]
      BY <1>5, <3>1
    <3> HIDE DEF a, b
    <3>4. a + 1 \in 1 .. N /\ (b = a + 2 => a + 2 \in 1 .. N)
      BY <1>1, <3>2, <3>3
    <3>5. D[a + 1] = d[a + 1] /\ (b = a + 2 => D[a + 2] = d[a + 2])
      BY <1>2, <3>4
    <3> QED
      BY <3>2, <3>3, <3>5
  <2>2. CASE ~(i <= n)
    <3> DEFINE k == i - n
    <3>1. k \in 1 .. m /\ k - 1 \in 0 .. m /\ k \in 0 .. m /\ n + k = i /\ n + (k - 1) = i - 1
      BY <1>1, <2>2
    <3> HIDE DEF k
    <3> DEFINE a == q[k - 1] b == q[k]
    <3>2. /\ r[i] = N + b /\ r[i - 1] = N + a /\ T[i] = t[k]
          /\ a \in Nat /\ b \in Nat /\ b <= Len(e)
      BY <1>3, <1>4, <1>6, <3>1
    <3>3. \/ t[k] = FLAG /\ b = a + 2 /\ e[a + 1] = ESC /\ e[a + 2] = 2
          \/ t[k] = ESC /\ b = a + 2 /\ e[a + 1] = ESC /\ e[a + 2] = 1
          \/ t[k] # ESC /\ b = a + 1 /\ e[a + 1] = t[k]
      BY <1>5, <3>1
    <3> HIDE DEF a, b
    <3> DEFINE L == Len(e)
    <3>4. L \in Nat /\ b <= L
      BY <1>1, <3>2
    <3> HIDE DEF L
    <3>5. a + 1 \in 1 .. L /\ (b = a + 2 => a + 2 \in 1 .. L)
      BY <3>2, <3>3, <3>4
    <3>6. D[N + (a + 1)] = e[a + 1] /\ (b = a + 2 => D[N + (a + 2)] = e[a + 2])
      BY <1>2, <3>5 DEF L
    <3>7. N + (a + 1) = (N + a) + 1 /\ N + (a + 2) = (N + a) + 2
          /\ (b = a + 1 => N + b = (N + a) + 1) /\ (b = a + 2 => N + b = (N + a) + 2)
      BY <1>1, <3>2
    <3>8. D[(N + a) + 1] = e[a + 1] /\ (b = a + 2 => D[(N + a) + 2] = e[a + 2])
      BY <3>6, <3>7
    <3> DEFINE x == N + a
               y == N + b
    <3>9. /\ r[i] = y /\ r[i - 1] = x
          /\ D[x + 1] = e[a + 1] /\ (b = a + 2 => D[x + 2] = e[a + 2] /\ y = x + 2)
          /\ (b = a + 1 => y = x + 1)
      BY <3>2, <3>7, <3>8
    <3> HIDE DEF x, y
    <3> QED
      BY <3>2, <3>3, <3>9
  <2> QED
    BY <2>1, <2>2
<1>10. ReadsBy(r, D, T)
  BY <1>3, <1>7, <1>8, <1>9 DEF ReadsBy
<1> QED
  BY <1>10 DEF D, T

(* h says what is read from each place of d on. *)
Escaped(d, i, x) == i < Len(d) /\ d[i] = ESC /\ d[i + 1] = x
ReadFrom(h, d) ==
  /\ h \in [1 .. Len(d) + 1 -> Seq(Byte)]
  /\ h[Len(d) + 1] = <<>>
  /\ \A i \in 1 .. Len(d) :
        /\ Escaped(d, i, 2) => h[i] = <<FLAG>> \o h[i + 2]
        /\ Escaped(d, i, 1) => h[i] = <<ESC>> \o h[i + 2]
        /\ ~Escaped(d, i, 2) /\ ~Escaped(d, i, 1) => h[i] = <<d[i]>> \o h[i + 1]

LEMMA ReadingExists ==
  ASSUME NEW d \in Seq(Byte)
  PROVE  \E h : ReadFrom(h, d)
<1> DEFINE n == Len(d)
           S == Seq(Byte) \X Seq(Byte)
           at(k) == n + 1 - k
           Read(i, x) == IF Escaped(d, i, 2) THEN <<FLAG>> \o x[2]
                         ELSE IF Escaped(d, i, 1) THEN <<ESC>> \o x[2]
                         ELSE <<d[i]>> \o x[1]
           R == [kx \in (1 .. n) \X S |-> <<Read(at(kx[1]), kx[2]), kx[2][1]>>]
           s == << <<>>, <<>> >>
<1>1. n \in Nat /\ \A i \in 1 .. n : d[i] \in Byte
  OBVIOUS
<1>2. \A x \in S : \A i \in 1 .. n : Read(i, x) \in Seq(Byte)
  <2> TAKE x \in S
  <2> TAKE i \in 1 .. n
  <2>1. x[1] \in Seq(Byte) /\ x[2] \in Seq(Byte)
    OBVIOUS
  <2>2. <<FLAG>> \in Seq(Byte) /\ <<ESC>> \in Seq(Byte) /\ <<d[i]>> \in Seq(Byte)
    BY <1>1, XorFacts
  <2>3. /\ <<FLAG>> \o x[2] \in Seq(Byte) /\ <<ESC>> \o x[2] \in Seq(Byte)
        /\ <<d[i]>> \o x[1] \in Seq(Byte)
    BY <2>1, <2>2, ConcatProperties
  <2> QED
    BY <2>3
<1>3. \A k \in 1 .. n : \A x \in S :
        /\ R[<<k, x>>] = <<Read(at(k), x), x[1]>>
        /\ R[<<k, x>>] \in S
  <2> TAKE k \in 1 .. n
  <2> TAKE x \in S
  <2>1. at(k) \in 1 .. n
    BY <1>1
  <2>2. R[<<k, x>>] = <<Read(at(k), x), x[1]>>
    <3> HIDE DEF Read, at, S
    <3> QED
      OBVIOUS
  <2>3. Read(at(k), x) \in Seq(Byte) /\ x[1] \in Seq(Byte)
    <3> HIDE DEF Read, at
    <3> QED
      BY <1>2, <2>1
  <2> HIDE DEF Read, at, R
  <2> QED
    BY <2>2, <2>3
<1>4. s \in S
  <2>1. <<>> \in Seq(Byte)
    OBVIOUS
  <2> QED
    BY <2>1
<1> HIDE DEF R, S, s, n, Read
<1>5. \E g : Runs(g, R, s, n, S)
  <2>1. Stays(R, n, S)
    BY <1>3 DEF Stays
  <2> QED
    BY <1>1, <1>4, <2>1, Running
<1>6. PICK g : Runs(g, R, s, n, S)
  BY <1>5
<1>7. g \in [0 .. n -> S] /\ g[0] = s /\ \A k \in 1 .. n : g[k] = R[<<k, g[k - 1]>>]
  BY <1>6 DEF Runs
<1> DEFINE h == [i \in 1 .. n + 1 |-> g[n + 1 - i][1]]
<1>8. \A k \in 0 .. n : g[k] \in S /\ g[k][1] \in Seq(Byte) /\ g[k][2] \in Seq(Byte)
  BY <1>7 DEF S
<1>9. \A k \in 1 .. n : g[k][1] = Read(at(k), g[k - 1]) /\ g[k][2] = g[k - 1][1]
  <2> TAKE k \in 1 .. n
  <2>1. k - 1 \in 0 .. n
    BY <1>1
  <2>2. g[k] = <<Read(at(k), g[k - 1]), g[k - 1][1]>>
    BY <1>3, <1>7, <1>8, <2>1
  <2> HIDE DEF at
  <2> QED
    BY <2>2
<1>10. \A i \in 1 .. n + 1 : h[i] = g[n + 1 - i][1] /\ n + 1 - i \in 0 .. n
  BY <1>1
<1>11. h \in [1 .. n + 1 -> Seq(Byte)]
  BY <1>1, <1>8, <1>10
<1> HIDE DEF h
<1>12. h[n + 1] = <<>>
  <2>1. n + 1 \in 1 .. n + 1 /\ n + 1 - (n + 1) = 0
    BY <1>1
  <2> QED
    BY <1>7, <1>10, <2>1 DEF s
<1>13. ASSUME NEW i \in 1 .. n
       PROVE  /\ Escaped(d, i, 2) => h[i] = <<FLAG>> \o h[i + 2]
              /\ Escaped(d, i, 1) => h[i] = <<ESC>> \o h[i + 2]
              /\ ~Escaped(d, i, 2) /\ ~Escaped(d, i, 1) => h[i] = <<d[i]>> \o h[i + 1]
  <2> DEFINE k == n + 1 - i
  <2>1. /\ k \in 1 .. n /\ at(k) = i /\ i \in 1 .. n + 1 /\ i + 1 \in 1 .. n + 1
        /\ n + 1 - (i + 1) = k - 1
    BY <1>1
  <2>2. h[i] = Read(i, g[k - 1]) /\ h[i + 1] = g[k - 1][1]
    <3>1. h[i] = g[k][1] /\ h[i + 1] = g[k - 1][1]
      BY <1>10, <2>1
    <3> HIDE DEF k, at
    <3> QED
      BY <1>9, <2>1, <3>1
  <2>3. i < n => h[i + 2] = g[k - 1][2]
    <3> SUFFICES ASSUME i < n PROVE h[i + 2] = g[k - 1][2]
      OBVIOUS
    <3>1. k - 1 \in 1 .. n /\ i + 2 \in 1 .. n + 1 /\ n + 1 - (i + 2) = (k - 1) - 1
      BY <1>1
    <3>2. h[i + 2] = g[(k - 1) - 1][1]
      BY <1>10, <3>1
    <3>3. g[k - 1][2] = g[(k - 1) - 1][1]
      <4> HIDE DEF k, at
      <4> QED
        BY <1>9, <3>1
    <3> QED
      BY <3>2, <3>3
  <2>4. ~(Escaped(d, i, 2) /\ Escaped(d, i, 1)) /\ (Escaped(d, i, 2) \/ Escaped(d, i, 1) => i < n)
    BY DEF Escaped, n
  <2> HIDE DEF k
  <2> QED
    BY <2>2, <2>3, <2>4 DEF Read
<1> QED
  BY <1>11, <1>12, <1>13 DEF ReadFrom, n

LEMMA UnescapeIsRead ==
  ASSUME NEW d \in Seq(Byte), NEW h, ReadFrom(h, d)
  PROVE  Unescape(d) = h[1] /\ Unescape(d) \in Seq(Byte)
<1> DEFINE n == Len(d)
           Body(f) == [i \in 1 .. n + 1 |->
                         CASE i > n -> <<>>
                           [] i < n /\ d[i] = ESC /\ d[i + 1] = 2 -> <<FLAG>> \o f[i + 2]
                           [] i < n /\ d[i] = ESC /\ d[i + 1] = 1 -> <<ESC>> \o f[i + 2]
                           [] OTHER -> <<d[i]>> \o f[i + 1]]
           from == CHOOSE f : f = Body(f)
<1>1. n \in Nat /\ DOMAIN h = 1 .. n + 1
  BY DEF ReadFrom
<1>2. ASSUME NEW f, NEW i \in 1 .. n
      PROVE  /\ Escaped(d, i, 2) => Body(f)[i] = <<FLAG>> \o f[i + 2]
             /\ Escaped(d, i, 1) => Body(f)[i] = <<ESC>> \o f[i + 2]
             /\ ~Escaped(d, i, 2) /\ ~Escaped(d, i, 1) => Body(f)[i] = <<d[i]>> \o f[i + 1]
  <2>1. i \in 1 .. n + 1 /\ ~(i > n)
    BY <1>1
  <2>2. Body(f)[i] = CASE i > n -> <<>>
                       [] i < n /\ d[i] = ESC /\ d[i + 1] = 2 -> <<FLAG>> \o f[i + 2]
                       [] i < n /\ d[i] = ESC /\ d[i + 1] = 1 -> <<ESC>> \o f[i + 2]
                       [] OTHER -> <<d[i]>> \o f[i + 1]
    BY <2>1
  <2> HIDE DEF Body
  <2> QED
    BY <2>1, <2>2 DEF Escaped
<1>3. ASSUME NEW f
      PROVE  Body(f)[n + 1] = <<>>
  <2>1. n + 1 \in 1 .. n + 1 /\ n + 1 > n
    BY <1>1
  <2> QED
    BY <2>1
<1>4. h = Body(h)
  <2>1. ASSUME NEW i \in 1 .. n + 1
        PROVE  h[i] = Body(h)[i]
    <3>1. CASE i = n + 1
      <4> HIDE DEF Body
      <4> QED
        BY <1>3, <3>1 DEF ReadFrom
    <3>2. CASE i \in 1 .. n
      <4> HIDE DEF Body
      <4> QED
        BY <1>2, <3>2 DEF ReadFrom
    <3>3. i = n + 1 \/ i \in 1 .. n
      BY <1>1
    <3> HIDE DEF Body, n
    <3> QED
      BY <3>1, <3>2, <3>3, Zenon
  <2>2. DOMAIN Body(h) = 1 .. n + 1 /\ Body(h) = [i \in 1 .. n + 1 |-> Body(h)[i]]
    <3> DEFINE b == Body(h)
    <3>1. DOMAIN b = 1 .. n + 1
      OBVIOUS
    <3>2. b = [i \in 1 .. n + 1 |-> b[i]]
      BY <3>1
    <3> QED
      BY <3>1, <3>2
  <2>3. h = [i \in 1 .. n + 1 |-> h[i]]
    BY DEF ReadFrom
  <2> HIDE DEF Body
  <2> QED
    BY <2>1, <2>2, <2>3
<1>5. from = Body(from)
  BY <1>4
<1>6. Unescape(d) = from[1]
  BY DEF Unescape
<1> HIDE DEF Body, from
<1> DEFINE T == {k \in Nat : \A j \in 0 .. k : j <= n => from[n + 1 - j] = h[n + 1 - j]}
<1>7. 0 \in T
  BY <1>1, <1>3, <1>5 DEF ReadFrom
<1>8. ASSUME NEW k \in Nat, k \in T
      PROVE  k + 1 \in T
  <2> SUFFICES ASSUME k + 1 <= n PROVE from[n + 1 - (k + 1)] = h[n + 1 - (k + 1)]
    BY <1>8
  <2> DEFINE i == n + 1 - (k + 1)
  <2>1. i \in 1 .. n /\ i + 1 = n + 1 - k
    BY <1>1
  <2>2. from[i + 1] = h[i + 1]
    <3>1. k \in 0 .. k /\ k <= n
      BY <1>1
    <3>2. from[n + 1 - k] = h[n + 1 - k]
      BY <1>8, <3>1
    <3> HIDE DEF i
    <3> QED
      BY <2>1, <3>2
  <2>3. i < n => from[i + 2] = h[i + 2]
    <3>1. i < n => k - 1 \in 0 .. k /\ k - 1 <= n /\ i + 2 = n + 1 - (k - 1)
      BY <1>1
    <3> HIDE DEF i
    <3> QED
      BY <1>8, <3>1
  <2>4. /\ Escaped(d, i, 2) => from[i] = <<FLAG>> \o from[i + 2]
        /\ Escaped(d, i, 1) => from[i] = <<ESC>> \o from[i + 2]
        /\ ~Escaped(d, i, 2) /\ ~Escaped(d, i, 1) => from[i] = <<d[i]>> \o from[i + 1]
    BY <1>2, <1>5, <2>1
  <2>5. Escaped(d, i, 2) \/ Escaped(d, i, 1) => i < n
    BY DEF Escaped
  <2> HIDE DEF i
  <2>6. from[i] = h[i]
    BY <2>1, <2>2, <2>3, <2>4, <2>5 DEF ReadFrom
  <2> QED
    BY <2>6 DEF i
<1> HIDE DEF T
<1>9. n \in T
  BY <1>1, <1>7, <1>8, AllNumbers
<1>10. from[1] = h[1]
  <2>1. n \in 0 .. n /\ n <= n /\ n + 1 - n = 1
    BY <1>1
  <2> QED
    BY <1>9, <2>1 DEF T
<1>11. h[1] \in Seq(Byte)
  <2>1. 1 \in 1 .. n + 1
    BY <1>1
  <2> QED
    BY <2>1 DEF ReadFrom
<1> QED
  BY <1>6, <1>10, <1>11

LEMMA UnescapeGivesBytes ==
  ASSUME NEW d \in Seq(Byte)
  PROVE  Unescape(d) \in Seq(Byte)
BY ReadingExists, UnescapeIsRead

(* The same for what begins d: more may follow it. *)
ReadsTo(p, d, s) ==
  /\ p \in [0 .. Len(s) -> Nat] /\ p[0] = 0 /\ p[Len(s)] <= Len(d)
  /\ \A i \in 1 .. Len(s) :
        \/ s[i] = FLAG /\ p[i] = p[i - 1] + 2 /\ d[p[i - 1] + 1] = ESC /\ d[p[i - 1] + 2] = 2
        \/ s[i] = ESC /\ p[i] = p[i - 1] + 2 /\ d[p[i - 1] + 1] = ESC /\ d[p[i - 1] + 2] = 1
        \/ s[i] # ESC /\ p[i] = p[i - 1] + 1 /\ d[p[i - 1] + 1] = s[i]

(* What has been read by p is what is read first. *)
LEMMA UnescapeBegins ==
  ASSUME NEW d \in Seq(Byte), NEW s \in Seq(Byte), NEW p, ReadsTo(p, d, s)
  PROVE  \E u \in Seq(Byte) : Unescape(d) = s \o u /\ (p[Len(s)] = Len(d) => u = <<>>)
<1> DEFINE n == Len(s)
           N == Len(d)
           M == p[n]
<1>1. PICK h : ReadFrom(h, d)
  BY ReadingExists
<1>2. /\ n \in Nat /\ N \in Nat /\ DOMAIN s = 1 .. n
      /\ \A i \in 0 .. n : p[i] \in Nat
      /\ p[0] = 0 /\ M \in Nat /\ M <= N
      /\ \A i \in 1 .. n : s[i] \in Byte
      /\ h[N + 1] = <<>> /\ \A i \in 1 .. N + 1 : h[i] \in Seq(Byte)
  <2>1. n \in Nat /\ N \in Nat /\ DOMAIN s = 1 .. n /\ \A i \in 1 .. n : s[i] \in Byte
    OBVIOUS
  <2>2. p \in [0 .. n -> Nat] /\ p[0] = 0 /\ p[n] <= N
    BY DEF ReadsTo
  <2>3. h \in [1 .. N + 1 -> Seq(Byte)] /\ h[N + 1] = <<>>
    BY <1>1 DEF ReadFrom
  <2> HIDE DEF n, N
  <2> QED
    BY <2>1, <2>2, <2>3
<1> DEFINE u == h[M + 1]
           l == Len(u)
<1>a. u \in Seq(Byte) /\ l \in Nat
  <2> HIDE DEF M
  <2>1. M + 1 \in 1 .. N + 1
    BY <1>2
  <2>2. u \in Seq(Byte)
    BY <1>2, <2>1
  <2> QED
    BY <2>2
<1> DEFINE T == {k \in Nat : k <= n =>
                   /\ p[n - k] <= M
                   /\ Len(h[p[n - k] + 1]) = k + l
                   /\ \A j \in 1 .. k : h[p[n - k] + 1][j] = s[n - k + j]
                   /\ \A j \in 1 .. l : h[p[n - k] + 1][k + j] = u[j]}
<1> HIDE DEF u, l
<1>3. 0 \in T
  <2>1. n - 0 = n /\ M <= M /\ 0 + l = l /\ \A j \in 1 .. l : 0 + j = j
    BY <1>2, <1>a
  <2>2. 1 .. 0 = {}
    OBVIOUS
  <2>3. Len(h[M + 1]) = l /\ \A j \in 1 .. l : h[M + 1][j] = u[j]
    BY DEF u, l
  <2> QED
    BY <2>1, <2>2, <2>3
<1> HIDE DEF M
<1>m. M <= N /\ M \in Nat
  BY <1>2
<1>4. ASSUME NEW k \in Nat, k \in T
      PROVE  k + 1 \in T
  <2> SUFFICES ASSUME k + 1 <= n
               PROVE  /\ p[n - (k + 1)] <= M
                      /\ Len(h[p[n - (k + 1)] + 1]) = (k + 1) + l
                      /\ \A j \in 1 .. k + 1 : h[p[n - (k + 1)] + 1][j] = s[n - (k + 1) + j]
                      /\ \A j \in 1 .. l : h[p[n - (k + 1)] + 1][(k + 1) + j] = u[j]
    <3>1. k + 1 \in Nat
      OBVIOUS
    <3> QED
      BY <3>1, Zenon
  <2> DEFINE i == n - k
             q == p[i - 1] + 1
             r == p[i] + 1
  <2>1. /\ i \in 1 .. n /\ i - 1 = n - (k + 1) /\ i - 1 \in 0 .. n /\ i \in 0 .. n
        /\ p[i] \in Nat /\ p[i - 1] \in Nat
    BY <1>2
  <2>2. /\ p[i] <= M /\ Len(h[r]) = k + l /\ \A j \in 1 .. k : h[r][j] = s[i + j]
        /\ \A j \in 1 .. l : h[r][k + j] = u[j]
    BY <1>2, <1>4
  <2> HIDE DEF i
  <2>3. \/ s[i] = FLAG /\ p[i] = p[i - 1] + 2 /\ d[p[i - 1] + 1] = ESC /\ d[p[i - 1] + 2] = 2
        \/ s[i] = ESC /\ p[i] = p[i - 1] + 2 /\ d[p[i - 1] + 1] = ESC /\ d[p[i - 1] + 2] = 1
        \/ s[i] # ESC /\ p[i] = p[i - 1] + 1 /\ d[p[i - 1] + 1] = s[i]
    BY <2>1 DEF ReadsTo
  <2>4. p[i - 1] < M /\ q \in 1 .. N /\ r \in 1 .. N + 1 /\ p[i] <= N
    <3> DEFINE a == p[i - 1] b == p[i]
    <3>1. b = a + 1 \/ b = a + 2
      BY <2>3
    <3>2. a \in Nat /\ b \in Nat /\ N \in Nat /\ M \in Nat /\ M <= N /\ b <= M
      BY <1>2, <1>m, <2>1, <2>2
    <3> HIDE DEF a, b, N
    <3>3. a < M /\ a + 1 \in 1 .. N /\ b + 1 \in 1 .. N + 1 /\ b <= N
      BY <3>1, <3>2
    <3> QED
      BY <3>3 DEF a, b
  <2>5. h[q] = <<s[i]>> \o h[r]
    <3>1. CASE s[i] = FLAG /\ p[i] = p[i - 1] + 2 /\ d[p[i - 1] + 1] = ESC /\ d[p[i - 1] + 2] = 2
      <4>1. q < N /\ q + 2 = r /\ q + 1 = p[i - 1] + 2 /\ d[q] = ESC /\ d[q + 1] = 2
        <5> DEFINE a == p[i - 1]
        <5>1. a \in Nat /\ N \in Nat /\ p[i] = a + 2 /\ p[i] <= N /\ d[a + 1] = ESC /\ d[a + 2] = 2
          BY <1>2, <2>1, <2>4, <3>1
        <5> HIDE DEF a, N
        <5>2. a + 1 < N /\ (a + 1) + 2 = (a + 2) + 1 /\ (a + 1) + 1 = a + 2
          BY ONLY <5>1
        <5> QED
          BY <5>1, <5>2 DEF a
      <4>2. Escaped(d, q, 2)
        BY <4>1 DEF Escaped
      <4> HIDE DEF q, r
      <4> QED
        BY <1>1, <2>4, <3>1, <4>1, <4>2 DEF ReadFrom
    <3>2. CASE s[i] = ESC /\ p[i] = p[i - 1] + 2 /\ d[p[i - 1] + 1] = ESC /\ d[p[i - 1] + 2] = 1
      <4>1. q < N /\ q + 2 = r /\ q + 1 = p[i - 1] + 2 /\ d[q] = ESC /\ d[q + 1] = 1
        <5> DEFINE a == p[i - 1]
        <5>1. a \in Nat /\ N \in Nat /\ p[i] = a + 2 /\ p[i] <= N /\ d[a + 1] = ESC /\ d[a + 2] = 1
          BY <1>2, <2>1, <2>4, <3>2
        <5> HIDE DEF a, N
        <5>2. a + 1 < N /\ (a + 1) + 2 = (a + 2) + 1 /\ (a + 1) + 1 = a + 2
          BY ONLY <5>1
        <5> QED
          BY <5>1, <5>2 DEF a
      <4>2. Escaped(d, q, 1)
        BY <4>1 DEF Escaped
      <4> HIDE DEF q, r
      <4> QED
        BY <1>1, <2>4, <3>2, <4>1, <4>2 DEF ReadFrom
    <3>3. CASE s[i] # ESC /\ p[i] = p[i - 1] + 1 /\ d[p[i - 1] + 1] = s[i]
      <4>1. q + 1 = r /\ d[q] = s[i] /\ s[i] # ESC
        BY <1>2, <2>1, <3>3
      <4>2. ~Escaped(d, q, 1) /\ ~Escaped(d, q, 2)
        BY <4>1 DEF Escaped
      <4> HIDE DEF q, r
      <4> QED
        BY <1>1, <2>4, <4>1, <4>2 DEF ReadFrom
    <3> QED
      BY <2>3, <3>1, <3>2, <3>3
  <2> HIDE DEF q, r
  <2>6. /\ Len(h[q]) = (k + 1) + l
        /\ h[q][1] = s[i]
        /\ \A j \in 2 .. (k + 1) + l : h[q][j] = h[r][j - 1]
    <3>1. <<s[i]>> \in Seq(Byte) /\ Len(<<s[i]>>) = 1 /\ <<s[i]>>[1] = s[i]
      BY <1>2, <2>1
    <3>2. h[r] \in Seq(Byte)
      BY <1>2, <2>4
    <3>3. 1 + (k + l) = (k + 1) + l
      BY <1>a
    <3> DEFINE x == <<s[i]>>
               y == h[r]
    <3>4. h[q] = x \o y /\ x \in Seq(Byte) /\ y \in Seq(Byte) /\ Len(x) = 1 /\ x[1] = s[i]
          /\ Len(y) = k + l
      BY <2>2, <2>5, <3>1, <3>2
    <3> HIDE DEF x, y
    <3>5. IsJoin(h[q], x, y)
      BY <3>4, Joined
    <3>6. /\ Len(h[q]) = (k + 1) + l
          /\ h[q][1] = x[1]
          /\ \A j \in 1 .. (k + l) : h[q][1 + j] = y[j]
      BY <3>3, <3>4, <3>5 DEF IsJoin
    <3>7. \A j \in 2 .. (k + 1) + l : j - 1 \in 1 .. (k + l) /\ 1 + (j - 1) = j
      BY <1>a
    <3> QED
      BY <3>4, <3>6, <3>7 DEF y
  <2>7. \A j \in 1 .. k + 1 : h[q][j] = s[(i - 1) + j]
    <3>1. ASSUME NEW j \in 1 .. k + 1, j # 1
          PROVE  h[q][j] = s[(i - 1) + j]
      <4>1. j \in 2 .. (k + 1) + l /\ j - 1 \in 1 .. k /\ i + (j - 1) = (i - 1) + j
        BY <1>a, <2>1, <3>1
      <4> QED
        BY <2>2, <2>6, <4>1
    <3>2. (i - 1) + 1 = i
      BY <2>1
    <3> QED
      BY <2>6, <3>1, <3>2
  <2>b. \A j \in 1 .. l : h[q][(k + 1) + j] = u[j]
    <3> TAKE j \in 1 .. l
    <3>1. (k + 1) + j \in 2 .. (k + 1) + l /\ ((k + 1) + j) - 1 = k + j
      BY <1>a
    <3> QED
      BY <2>2, <2>6, <3>1
  <2> DEFINE e == n - (k + 1)
  <2>8. e = i - 1
    BY <2>1
  <2>9. p[e] <= M
    <3> DEFINE a == p[i - 1]
    <3>1. a \in Nat /\ a < M /\ M \in Nat /\ p[e] = a
      BY <1>m, <2>1, <2>4, <2>8
    <3> HIDE DEF a, e
    <3> QED
      BY <3>1
  <2> HIDE DEF e
  <2>10. /\ Len(h[p[e] + 1]) = (k + 1) + l
         /\ \A j \in 1 .. k + 1 : h[p[e] + 1][j] = s[e + j]
         /\ \A j \in 1 .. l : h[p[e] + 1][(k + 1) + j] = u[j]
    BY <2>6, <2>7, <2>8, <2>b DEF q
  <2> QED
    BY <2>9, <2>10 DEF e
<1> HIDE DEF T
<1>5. n \in T
  BY <1>2, <1>3, <1>4, AllNumbers
<1>6. /\ Len(h[1]) = n + l /\ \A j \in 1 .. n : h[1][j] = s[j]
      /\ \A j \in 1 .. l : h[1][n + j] = u[j]
  <2>1. n <= n /\ n - n = 0 /\ p[n - n] + 1 = 1 /\ \A j \in 1 .. n : n - n + j = j
    BY <1>2
  <2> QED
    BY <1>5, <2>1 DEF T
<1>7. h[1] \in Seq(Byte)
  BY <1>2
<1>8. h[1] = s \o u
  <2>1. IsJoin(h[1], s, u)
    BY <1>2, <1>6, <1>a DEF IsJoin, l
  <2> QED
    BY <1>7, <1>a, <2>1, JoinIs
<1>9. M = N => u = <<>>
  BY <1>2 DEF u
<1> QED
  BY <1>1, <1>8, <1>9, <1>a, UnescapeIsRead DEF M

(* What has been read by p is what is read. *)
LEMMA UnescapeReads ==
  ASSUME NEW d \in Seq(Byte), NEW s \in Seq(Byte), NEW p, ReadsBy(p, d, s)
  PROVE  Unescape(d) = s
<1>1. ReadsTo(p, d, s)
  <2>1. Len(d) <= Len(d)
    OBVIOUS
  <2> QED
    BY <2>1 DEF ReadsTo, ReadsBy
<1>2. p[Len(s)] = Len(d)
  BY DEF ReadsBy
<1>3. Unescape(d) = s \o <<>>
  BY <1>1, <1>2, UnescapeBegins
<1> QED
  BY <1>3, ConcatEmptySeq

-----------------------------------------------------------------------------
(* Frames *)

(* What lies between two flags. *)
LEMMA Flagged ==
  ASSUME NEW e \in Seq(Byte)
  PROVE  LET w == <<FLAG>> \o e \o <<FLAG>>
         IN  /\ w \in Seq(Byte) /\ Len(w) = Len(e) + 2 /\ Len(e) \in Nat
             /\ w[1] = FLAG /\ w[Len(e) + 2] = FLAG
             /\ \A j \in 1 .. Len(e) : w[j + 1] = e[j]
             /\ SubSeq(w, 2, Len(w) - 1) = e
<1> DEFINE f == <<FLAG>>
           x == f \o e
           w == x \o f
           n == Len(e)
<1>1. f \in Seq(Byte) /\ Len(f) = 1 /\ f[1] = FLAG /\ n \in Nat
  BY XorFacts
<1>2. /\ x \in Seq(Byte) /\ Len(x) = 1 + n
      /\ \A i \in 1 .. 1 + n : x[i] = IF i <= 1 THEN f[i] ELSE e[i - 1]
  <2>1. /\ f \o e \in Seq(Byte) /\ Len(f \o e) = Len(f) + Len(e)
        /\ \A i \in 1 .. Len(f) + Len(e) : (f \o e)[i] = IF i <= Len(f) THEN f[i] ELSE e[i - Len(f)]
    <3> HIDE DEF f
    <3> QED
      BY <1>1, ConcatProperties
  <2> HIDE DEF f
  <2> QED
    BY <1>1, <2>1
<1> HIDE DEF x
<1>3. /\ w \in Seq(Byte) /\ Len(w) = n + 2
      /\ \A i \in 1 .. n + 2 : w[i] = IF i <= 1 + n THEN x[i] ELSE f[i - (1 + n)]
  <2>1. /\ x \o f \in Seq(Byte) /\ Len(x \o f) = Len(x) + Len(f)
        /\ \A i \in 1 .. Len(x) + Len(f) : (x \o f)[i] = IF i <= Len(x) THEN x[i] ELSE f[i - Len(x)]
    <3> HIDE DEF f
    <3> QED
      BY <1>1, <1>2, ConcatProperties
  <2>2. Len(x) + Len(f) = n + 2 /\ Len(x) = 1 + n
    BY <1>1, <1>2
  <2> HIDE DEF f, n
  <2> QED
    BY <2>1, <2>2
<1> HIDE DEF w, f, n
<1>4. /\ w[1] = FLAG /\ w[n + 2] = FLAG
      /\ \A j \in 1 .. n : w[j + 1] = e[j]
  <2>1. /\ 1 \in 1 .. n + 2 /\ 1 <= 1 + n /\ 1 \in 1 .. 1 + n
        /\ n + 2 \in 1 .. n + 2 /\ ~(n + 2 <= 1 + n) /\ (n + 2) - (1 + n) = 1
    BY <1>1
  <2>2. \A j \in 1 .. n : /\ j + 1 \in 1 .. n + 2 /\ j + 1 <= 1 + n /\ j + 1 \in 1 .. 1 + n
                          /\ ~(j + 1 <= 1) /\ (j + 1) - 1 = j
    BY <1>1
  <2>3. w[1] = FLAG
    BY <1>1, <1>2, <1>3, <2>1
  <2>4. w[n + 2] = FLAG
    BY <1>1, <1>3, <2>1
  <2>5. \A j \in 1 .. n : w[j + 1] = e[j]
    BY <1>2, <1>3, <2>2
  <2> QED
    BY <2>3, <2>4, <2>5
<1>5. SubSeq(w, 2, n + 1) = e
  <2> DEFINE t == SubSeq(w, 2, n + 1)
  <2>1. \A i \in 2 .. n + 1 : w[i] \in Byte
    <3>1. \A i \in 2 .. n + 1 : i \in 1 .. Len(w)
      BY <1>1, <1>3
    <3> QED
      BY <1>3, <3>1, ElementOfSeq
  <2>2. /\ t \in Seq(Byte) /\ Len(t) = IF 2 <= n + 1 THEN (n + 1) - 2 + 1 ELSE 0
        /\ \A i \in 1 .. (n + 1) - 2 + 1 : t[i] = w[2 + i - 1]
    BY <1>1, <2>1, SubSeqProperties
  <2> HIDE DEF t
  <2>3. Len(t) = n /\ (n + 1) - 2 + 1 = n /\ \A i \in 1 .. n : 2 + i - 1 = i + 1
    BY <1>1, <2>2
  <2>4. \A i \in 1 .. n : t[i] = e[i]
    BY <1>4, <2>2, <2>3
  <2>5. t = e
    BY <2>2, <2>3, <2>4, SeqEqual DEF n
  <2> QED
    BY <2>5 DEF t
<1>6. Len(w) - 1 = n + 1
  BY <1>1, <1>3
<1>7. w = <<FLAG>> \o e \o <<FLAG>>
  BY DEF w, x, f
<1> QED
  BY <1>1, <1>3, <1>4, <1>5, <1>6, <1>7 DEF n

Content(m) == <<m.id, m.seq>> \o m.body

LEMMA InsideFacts ==
  ASSUME NEW m \in Messages
  PROVE  /\ m.id \in Byte /\ m.seq \in Byte /\ m.body \in Seq(Byte) /\ Len(m.body) \in Nat
         /\ m = [id |-> m.id, seq |-> m.seq, body |-> m.body]
         /\ Content(m) \in Seq(Byte) /\ Len(Content(m)) = Len(m.body) + 2
         /\ Content(m)[1] = m.id /\ Content(m)[2] = m.seq
         /\ \A j \in 1 .. Len(m.body) : Content(m)[j + 2] = m.body[j]
         /\ XOR_Check(Content(m)) \in Byte
         /\ Inside(m) \in Seq(Byte) /\ Len(Inside(m)) = Len(m.body) + 3
         /\ \A j \in 1 .. Len(m.body) + 2 : Inside(m)[j] = Content(m)[j]
         /\ Inside(m)[Len(m.body) + 3] = XOR_Check(Content(m))
<1> DEFINE h == <<m.id, m.seq>>
           b == m.body
           n == Len(b)
           c == Content(m)
           x == XOR_Check(c)
<1>1. /\ m.id \in Byte /\ m.seq \in Byte /\ b \in Seq(Byte) /\ n \in Nat
      /\ m = [id |-> m.id, seq |-> m.seq, body |-> m.body]
  <2>1. m.id \in Byte /\ m.seq \in Byte /\ b \in Seq(Byte) /\ m = [id |-> m.id, seq |-> m.seq, body |-> m.body]
    BY DEF Messages
  <2> QED
    BY <2>1
<1>2. h \in Seq(Byte) /\ Len(h) = 2 /\ h[1] = m.id /\ h[2] = m.seq
  BY <1>1
<1>3. c = h \o b
  BY DEF Content
<1> HIDE DEF h, b, c
<1>4. /\ c \in Seq(Byte) /\ Len(c) = 2 + n
      /\ \A i \in 1 .. 2 + n : c[i] = IF i <= 2 THEN h[i] ELSE b[i - 2]
  <2>1. /\ h \o b \in Seq(Byte) /\ Len(h \o b) = Len(h) + Len(b)
        /\ \A i \in 1 .. Len(h) + Len(b) : (h \o b)[i] = IF i <= Len(h) THEN h[i] ELSE b[i - Len(h)]
    BY <1>1, <1>2, ConcatProperties
  <2> QED
    BY <1>2, <1>3, <2>1
<1> HIDE DEF n
<1>5. /\ Len(c) = n + 2 /\ c[1] = m.id /\ c[2] = m.seq
      /\ \A j \in 1 .. n : c[j + 2] = b[j]
  <2>1. 1 \in 1 .. 2 + n /\ 2 \in 1 .. 2 + n /\ Len(c) = n + 2
    BY <1>1, <1>4
  <2>2. \A j \in 1 .. n : j + 2 \in 1 .. 2 + n /\ ~(j + 2 <= 2) /\ (j + 2) - 2 = j
    BY <1>1
  <2>3. \A j \in 1 .. n : c[j + 2] = b[j]
    BY <1>4, <2>2
  <2> QED
    BY <1>2, <1>4, <2>1, <2>3
<1>6. x \in Byte
  <2>1. PICK u : Checks(u, c) /\ XOR_Check(c) = u[Len(c)]
    BY <1>4, CheckIsTaken
  <2> QED
    BY <1>4, <2>1, CheckIs
<1> HIDE DEF x
<1>7. Inside(m) = Append(c, x)
  BY DEF Inside, c, x, Content
<1>8. /\ Append(c, x) \in Seq(Byte) /\ Len(Append(c, x)) = Len(c) + 1
      /\ \A j \in 1 .. Len(c) : Append(c, x)[j] = c[j]
      /\ Append(c, x)[Len(c) + 1] = x
  BY <1>4, <1>6
<1>9. Len(c) + 1 = n + 3
  BY <1>1, <1>5
<1> QED
  BY <1>1, <1>4, <1>5, <1>6, <1>7, <1>8, <1>9 DEF b, c, n, x

(* What is sealed is opened. *)
LEMMA OpenInside ==
  ASSUME NEW m \in Messages
  PROVE  Open(Inside(m)) = m /\ m # NoMessage
<1> DEFINE s == Inside(m)
           n == Len(m.body)
           front == SubSeq(s, 1, Len(s) - 1)
           body == SubSeq(s, 3, Len(s) - 1)
<1>1. /\ n \in Nat /\ s \in Seq(Byte) /\ Len(s) = n + 3 /\ Len(s) - 1 = n + 2
      /\ \A j \in 1 .. n + 2 : s[j] = Content(m)[j] /\ s[j] \in Byte
      /\ s[n + 3] = XOR_Check(Content(m))
  <2>1. /\ n \in Nat /\ s \in Seq(Byte) /\ Len(s) = n + 3 /\ s[n + 3] = XOR_Check(Content(m))
        /\ \A j \in 1 .. n + 2 : s[j] = Content(m)[j]
    BY InsideFacts
  <2> HIDE DEF s, n
  <2>2. Len(s) - 1 = n + 2 /\ \A j \in 1 .. n + 2 : j \in 1 .. Len(s)
    BY <2>1
  <2>3. \A j \in 1 .. n + 2 : s[j] \in Byte
    BY <2>1, <2>2, ElementOfSeq
  <2> QED
    BY <2>1, <2>2, <2>3
<1>2. /\ Content(m) \in Seq(Byte) /\ Len(Content(m)) = n + 2
      /\ Content(m)[1] = m.id /\ Content(m)[2] = m.seq
      /\ \A j \in 1 .. n : Content(m)[j + 2] = m.body[j]
      /\ m.body \in Seq(Byte)
      /\ m = [id |-> m.id, seq |-> m.seq, body |-> m.body] /\ m.id \in Byte
  BY InsideFacts
<1> HIDE DEF s, n
<1>3. front = Content(m)
  <2> HIDE DEF front
  <2>1. front = SubSeq(s, 1, n + 2)
    BY <1>1 DEF front
  <2>2. /\ SubSeq(s, 1, n + 2) \in Seq(Byte)
        /\ Len(SubSeq(s, 1, n + 2)) = IF 1 <= n + 2 THEN (n + 2) - 1 + 1 ELSE 0
        /\ \A i \in 1 .. (n + 2) - 1 + 1 : SubSeq(s, 1, n + 2)[i] = s[1 + i - 1]
    BY <1>1, SubSeqProperties
  <2>3. /\ front \in Seq(Byte) /\ Len(front) = n + 2
        /\ \A i \in 1 .. n + 2 : front[i] = s[i]
    BY <1>1, <2>1, <2>2
  <2>4. \A i \in 1 .. n + 2 : front[i] = Content(m)[i]
    BY <1>1, <2>3
  <2> QED
    BY <1>2, <2>3, <2>4, SeqEqual
<1>4. body = m.body
  <2> HIDE DEF body
  <2>1. body = SubSeq(s, 3, n + 2)
    BY <1>1 DEF body
  <2>2. \A i \in 3 .. n + 2 : s[i] \in Byte
    BY <1>1
  <2>3. /\ SubSeq(s, 3, n + 2) \in Seq(Byte)
        /\ Len(SubSeq(s, 3, n + 2)) = IF 3 <= n + 2 THEN (n + 2) - 3 + 1 ELSE 0
        /\ \A i \in 1 .. (n + 2) - 3 + 1 : SubSeq(s, 3, n + 2)[i] = s[3 + i - 1]
    BY <1>1, <2>2, SubSeqProperties
  <2>4. /\ body \in Seq(Byte) /\ Len(body) = n
        /\ \A i \in 1 .. n : body[i] = s[i + 2] /\ i + 2 \in 1 .. n + 2
    BY <1>1, <2>1, <2>3
  <2>5. \A i \in 1 .. n : body[i] = m.body[i]
    BY <1>1, <1>2, <2>4
  <2> QED
    BY <1>2, <2>4, <2>5, SeqEqual DEF n
<1>5. s[1] = m.id /\ s[2] = m.seq
  <2>1. 1 \in 1 .. n + 2 /\ 2 \in 1 .. n + 2
    BY <1>1
  <2> QED
    BY <1>1, <1>2, <2>1
<1>6. ~(Len(s) < 3) /\ XOR_Check(Front(s)) = Last(s)
  <2>1. ~(Len(s) < 3)
    BY <1>1
  <2>2. Front(s) = Content(m)
    BY <1>3 DEF Front, front
  <2>3. Last(s) = s[n + 3]
    BY <1>1 DEF Last
  <2> QED
    BY <1>1, <2>1, <2>2, <2>3
<1>7. Open(s) = Message(s[1], s[2], body)
  BY <1>6 DEF Open
<1>8. Open(s) = m
  BY <1>2, <1>4, <1>5, <1>7 DEF Message
<1>9. NoMessage.id \notin Byte
  BY DEF NoMessage, Byte
<1> QED
  BY <1>2, <1>8, <1>9 DEF s

LEMMA SealFacts ==
  ASSUME NEW m \in Messages
  PROVE  LET e == Escape(Inside(m))
         IN  /\ e \in Seq(Byte \ {FLAG}) /\ e \in Seq(Byte)
             /\ Len(e) \in Nat /\ Len(e) >= 3
             /\ Seal(m) \in Seq(Byte) /\ Len(Seal(m)) = Len(e) + 2
             /\ Seal(m)[1] = FLAG /\ Seal(m)[Len(e) + 2] = FLAG
             /\ \A j \in 1 .. Len(e) : Seal(m)[j + 1] = e[j]
             /\ SubSeq(Seal(m), 2, Len(Seal(m)) - 1) = e
             /\ Unescape(e) = Inside(m)
             /\ \E p : ReadsBy(p, e, Inside(m))
<1> DEFINE e == Escape(Inside(m))
<1>1. Inside(m) \in Seq(Byte) /\ Len(Inside(m)) = Len(m.body) + 3 /\ Len(m.body) \in Nat
  BY InsideFacts
<1>2. e \in Seq(Byte \ {FLAG}) /\ Len(e) >= Len(Inside(m)) /\ \E p : ReadsBy(p, e, Inside(m))
  BY <1>1, EscapeReads
<1>3. e \in Seq(Byte) /\ Len(e) \in Nat
  <2> HIDE DEF e
  <2>1. e \in Seq(Byte)
    BY <1>2, SeqMonotonic
  <2> QED
    BY <2>1
<1>4. Len(e) >= 3
  <2> DEFINE a == Len(e) b == Len(m.body) c == Len(Inside(m))
  <2>1. a \in Nat /\ b \in Nat /\ c = b + 3 /\ a >= c
    BY <1>1, <1>2, <1>3
  <2> HIDE DEF a, b, c
  <2>2. a >= 3
    BY <2>1
  <2> QED
    BY <2>2 DEF a
<1>5. Unescape(e) = Inside(m)
  BY <1>1, <1>2, <1>3, UnescapeReads
<1>6. Seal(m) = <<FLAG>> \o e \o <<FLAG>>
  BY DEF Seal
<1> HIDE DEF e
<1> QED
  BY <1>2, <1>3, <1>4, <1>5, <1>6, Flagged DEF e

LEMMA SealIsOpened ==
  ASSUME NEW m \in Messages
  PROVE  FrameOf(Seal(m)) = m /\ Bounded(Seal(m))
<1> DEFINE e == Escape(Inside(m))
<1>1. /\ Len(e) \in Nat /\ Len(e) >= 3
      /\ Seal(m) \in Seq(Byte) /\ Len(Seal(m)) = Len(e) + 2
      /\ Seal(m)[1] = FLAG /\ Seal(m)[Len(e) + 2] = FLAG
      /\ SubSeq(Seal(m), 2, Len(Seal(m)) - 1) = e
      /\ Unescape(e) = Inside(m)
  BY SealFacts
<1> HIDE DEF e
<1>2. Len(Seal(m)) > 2
  BY <1>1
<1>3. Bounded(Seal(m))
  BY <1>1, <1>2 DEF Bounded
<1>4. FrameOf(Seal(m)) = Open(Inside(m))
  BY <1>1, <1>3 DEF FrameOf
<1> QED
  BY <1>3, <1>4, OpenInside

(* Two frames that one read gives are opened as the first, with a longer     *)
(* body.                                                                     *)
LEMMA TwoAreOpenedAsOne ==
  ASSUME NEW m \in Messages, NEW k \in Messages
  PROVE  LET o == FrameOf(Seal(m) \o Seal(k))
         IN  Bounded(Seal(m) \o Seal(k)) => o.id = m.id /\ o.seq = m.seq /\ IsStrictPrefix(m.body, o.body)
<1> DEFINE e == Escape(Inside(m))
           f == Escape(Inside(k))
           ff == <<FLAG, FLAG>>
           X == Seal(m)
           Y == Seal(k)
           data == X \o Y
           D == SubSeq(data, 2, Len(data) - 1)
           F == (e \o ff) \o f
           T == (Inside(m) \o ff) \o Inside(k)
           M == Len(e)
           K == Len(f)
<1>1. /\ e \in Seq(Byte) /\ M \in Nat /\ M >= 3
      /\ X \in Seq(Byte) /\ Len(X) = M + 2 /\ X[1] = FLAG /\ X[M + 2] = FLAG
      /\ \A j \in 1 .. M : X[j + 1] = e[j]
      /\ \E p : ReadsBy(p, e, Inside(m))
  BY SealFacts
<1>2. /\ f \in Seq(Byte) /\ K \in Nat /\ K >= 3
      /\ Y \in Seq(Byte) /\ Len(Y) = K + 2 /\ Y[1] = FLAG /\ Y[K + 2] = FLAG
      /\ \A j \in 1 .. K : Y[j + 1] = f[j]
      /\ \E p : ReadsBy(p, f, Inside(k))
  BY SealFacts
<1>3. ff \in Seq(Byte) /\ Len(ff) = 2 /\ ff[1] = FLAG /\ ff[2] = FLAG
  BY XorFacts
<1>4. Inside(m) \in Seq(Byte) /\ Inside(k) \in Seq(Byte)
  BY InsideFacts
<1> HIDE DEF e, f, ff, X, Y, M, K
<1>5. e \o ff \in Seq(Byte) /\ IsJoin(e \o ff, e, ff)
  BY <1>1, <1>3, Joined
<1>6. F \in Seq(Byte) /\ IsJoin(F, e \o ff, f)
  BY <1>2, <1>5, Joined
<1>7. data \in Seq(Byte) /\ IsJoin(data, X, Y)
  BY <1>1, <1>2, Joined
<1>8. /\ Len(F) = M + 2 + K
      /\ \A j \in 1 .. M : F[j] = e[j]
      /\ F[M + 1] = FLAG /\ F[M + 2] = FLAG
      /\ \A j \in 1 .. K : F[M + 2 + j] = f[j]
  <2> DEFINE E == e \o ff
  <2>1. /\ Len(E) = M + 2
        /\ \A j \in 1 .. M : E[j] = e[j]
        /\ \A j \in 1 .. 2 : E[M + j] = ff[j]
    BY <1>3, <1>5 DEF IsJoin, M
  <2>2. /\ Len(F) = Len(E) + K
        /\ \A j \in 1 .. Len(E) : F[j] = E[j]
        /\ \A j \in 1 .. K : F[Len(E) + j] = f[j]
    BY <1>6 DEF IsJoin, K
  <2> HIDE DEF E, F
  <2>3. Len(F) = M + 2 + K /\ \A j \in 1 .. K : F[M + 2 + j] = f[j]
    BY <2>1, <2>2
  <2>4. /\ \A j \in 1 .. M : j \in 1 .. M + 2
        /\ M + 1 \in 1 .. M + 2 /\ M + 2 \in 1 .. M + 2 /\ 1 \in 1 .. 2 /\ 2 \in 1 .. 2
    BY <1>1
  <2>5. /\ \A j \in 1 .. M : F[j] = e[j]
        /\ F[M + 1] = FLAG /\ F[M + 2] = FLAG
    BY <1>3, <2>1, <2>2, <2>4
  <2> QED
    BY <2>3, <2>5
<1>9. /\ Len(data) = M + 2 + (K + 2)
      /\ \A j \in 1 .. M + 2 : data[j] = X[j]
      /\ \A j \in 1 .. K + 2 : data[M + 2 + j] = Y[j]
  BY <1>1, <1>2, <1>7 DEF IsJoin
<1> HIDE DEF data, F
<1>10. Len(data) - 1 = M + K + 3 /\ M + K + 3 \in Nat /\ 2 \in Nat \ {0}
       /\ M + K + 3 <= Len(data) /\ 2 <= M + K + 3 + 1 /\ (M + K + 3 - 2) + 1 = M + 2 + K
  BY <1>1, <1>2, <1>9
<1>11. /\ D \in Seq(Byte) /\ Len(D) = M + 2 + K
       /\ \A j \in 1 .. M + 2 + K : D[j] = data[1 + j]
  <2> DEFINE h == M + K + 3
             n == M + 2 + K
             G == SubSeq(data, 2, h)
  <2>1. D = G
    BY <1>10
  <2>2. G \in Seq(Byte) /\ IsCut(G, data, 2, h)
    BY <1>7, <1>10, Cut
  <2>3. (h - 2) + 1 = n /\ 2 - 1 = 1
    <3>1. M \in Nat /\ K \in Nat
      BY <1>1, <1>2
    <3> QED
      BY ONLY <3>1 DEF h, n
  <2> HIDE DEF D, G, h, n
  <2>4. /\ Len(G) = (h - 2) + 1
        /\ \A j \in 1 .. (h - 2) + 1 : G[j] = data[(2 - 1) + j]
    BY ONLY <2>2 DEF IsCut
  <2>5. /\ Len(G) = n
        /\ \A j \in 1 .. n : G[j] = data[1 + j]
    BY ONLY <2>3, <2>4, Zenon
  <2> QED
    BY <2>1, <2>2, <2>5 DEF n
<1> HIDE DEF D
<1>12. ASSUME NEW j \in 1 .. M + 2 + K
       PROVE  D[j] = F[j]
  <2>1. CASE j \in 1 .. M
    <3>1. 1 + j \in 1 .. M + 2 /\ 1 + j = j + 1
      BY <1>1, <2>1
    <3> QED
      BY <1>1, <1>8, <1>9, <1>11, <2>1, <3>1
  <2>2. CASE j = M + 1
    <3>1. 1 + j = M + 2 /\ M + 2 \in 1 .. M + 2
      BY <1>1, <2>2
    <3> QED
      BY <1>1, <1>8, <1>9, <1>11, <2>2, <3>1
  <2>3. CASE j = M + 2
    <3>1. 1 + j = M + 2 + 1 /\ 1 \in 1 .. K + 2
      BY <1>1, <1>2, <2>3
    <3>2. data[1 + j] = FLAG
      BY <1>2, <1>9, <3>1
    <3> QED
      BY <1>8, <1>11, <2>3, <3>2
  <2>4. CASE j > M + 2
    <3> DEFINE i == j - (M + 2)
    <3>1. i \in 1 .. K /\ i + 1 \in 1 .. K + 2 /\ M + 2 + i = j /\ M + 2 + (i + 1) = 1 + j
      BY <1>1, <1>2, <2>4
    <3> HIDE DEF i
    <3>2. D[j] = Y[i + 1]
      BY <1>9, <1>11, <3>1
    <3> QED
      BY <1>2, <1>8, <3>1, <3>2
  <2> QED
    BY <1>1, <1>2, <2>1, <2>2, <2>3, <2>4
<1>13. D = F
  BY <1>6, <1>8, <1>11, <1>12, SeqEqual
<1>14. T \in Seq(Byte) /\ \E r : ReadsBy(r, F, T)
  <2> DEFINE u == [i \in 0 .. 2 |-> i]
  <2>1. u \in [0 .. 2 -> Nat] /\ \A i \in 0 .. 2 : u[i] = i
    OBVIOUS
  <2> HIDE DEF u
  <2>2. ASSUME NEW i \in 1 .. 2
        PROVE  ff[i] # ESC /\ u[i] = u[i - 1] + 1 /\ ff[u[i - 1] + 1] = ff[i]
    <3>1. ff[i] = FLAG /\ FLAG # ESC
      BY <1>3 DEF FLAG, ESC
    <3>2. i - 1 \in 0 .. 2 /\ i \in 0 .. 2 /\ (i - 1) + 1 = i
      OBVIOUS
    <3> QED
      BY <2>1, <3>1, <3>2
  <2>3. u[0] = 0 /\ u[2] = 2
    BY <2>1
  <2>4. ReadsBy(u, ff, ff)
    BY <1>3, <2>1, <2>2, <2>3 DEF ReadsBy
  <2>5. PICK p : ReadsBy(p, e, Inside(m))
    BY <1>1
  <2>6. PICK q : ReadsBy(q, f, Inside(k))
    BY <1>2
  <2>7. PICK v : ReadsBy(v, e \o ff, Inside(m) \o ff)
    BY <1>1, <1>3, <1>4, <2>4, <2>5, ReadsJoined
  <2>8. Inside(m) \o ff \in Seq(Byte)
    BY <1>3, <1>4, Joined
  <2>9. T \in Seq(Byte)
    BY <1>4, <2>8, Joined
  <2>10. \E r : ReadsBy(r, (e \o ff) \o f, T)
    BY <1>2, <1>4, <1>5, <2>6, <2>7, <2>8, ReadsJoined
  <2> QED
    BY <2>9, <2>10 DEF F
<1>15. Unescape(D) = T
  BY <1>6, <1>13, <1>14, UnescapeReads
<1> DEFINE a == Len(m.body)
           b == Len(k.body)
<1>16. /\ m.body \in Seq(Byte) /\ a \in Nat
       /\ Content(m) \in Seq(Byte) /\ Len(Content(m)) = a + 2
       /\ Content(m)[1] = m.id /\ Content(m)[2] = m.seq
       /\ \A j \in 1 .. a : Content(m)[j + 2] = m.body[j]
       /\ Len(Inside(m)) = a + 3
       /\ \A j \in 1 .. a + 2 : Inside(m)[j] = Content(m)[j]
       /\ Inside(m)[a + 3] = XOR_Check(Content(m))
  BY InsideFacts
<1>17. /\ b \in Nat
       /\ Content(k) \in Seq(Byte) /\ Len(Content(k)) = b + 2
       /\ Len(Inside(k)) = b + 3
       /\ \A j \in 1 .. b + 2 : Inside(k)[j] = Content(k)[j]
       /\ Inside(k)[b + 3] = XOR_Check(Content(k))
  BY InsideFacts
<1> HIDE DEF a, b
<1>18. /\ Len(T) = a + b + 8
       /\ \A j \in 1 .. a + 3 : T[j] = Inside(m)[j]
       /\ T[a + 4] = FLAG /\ T[a + 5] = FLAG
       /\ \A j \in 1 .. b + 3 : T[a + 5 + j] = Inside(k)[j]
  <2> DEFINE E == Inside(m) \o ff
  <2>1. E \in Seq(Byte) /\ IsJoin(E, Inside(m), ff)
    BY <1>3, <1>4, Joined
  <2>2. /\ Len(E) = a + 5
        /\ \A j \in 1 .. a + 3 : E[j] = Inside(m)[j]
        /\ \A j \in 1 .. 2 : E[a + 3 + j] = ff[j]
    BY <1>3, <1>16, <2>1 DEF IsJoin
  <2>3. IsJoin(T, E, Inside(k))
    BY <1>4, <2>1, Joined
  <2> HIDE DEF T, E
  <2>4. /\ Len(T) = a + 5 + (b + 3)
        /\ \A j \in 1 .. a + 5 : T[j] = E[j]
        /\ \A j \in 1 .. b + 3 : T[a + 5 + j] = Inside(k)[j]
    BY <1>17, <2>2, <2>3 DEF IsJoin
  <2>5. /\ \A j \in 1 .. a + 3 : j \in 1 .. a + 5
        /\ a + 4 = a + 3 + 1 /\ a + 5 = a + 3 + 2 /\ a + 4 \in 1 .. a + 5 /\ a + 5 \in 1 .. a + 5
        /\ 1 \in 1 .. 2 /\ 2 \in 1 .. 2 /\ a + 5 + (b + 3) = a + b + 8
    BY <1>16, <1>17
  <2>6. \A j \in 1 .. a + 3 : T[j] = Inside(m)[j]
    BY <2>2, <2>4, <2>5
  <2>7. T[a + 4] = FLAG
    BY <1>3, <2>2, <2>4, <2>5
  <2>8. T[a + 5] = FLAG
    BY <1>3, <2>2, <2>4, <2>5
  <2> QED
    BY <2>4, <2>5, <2>6, <2>7, <2>8
<1> HIDE DEF T
<1> DEFINE front == SubSeq(T, 1, a + b + 7)
           body == SubSeq(T, 3, a + b + 7)
<1>19. /\ front \in Seq(Byte) /\ Len(front) = a + b + 7
       /\ \A j \in 1 .. a + b + 7 : front[j] = T[j]
  <2>1. 1 \in Nat \ {0} /\ a + b + 7 \in Nat /\ a + b + 7 <= Len(T) /\ 1 <= a + b + 7 + 1
        /\ (a + b + 7 - 1) + 1 = a + b + 7 /\ 1 - 1 = 0
    BY <1>16, <1>17, <1>18
  <2>2. front \in Seq(Byte) /\ IsCut(front, T, 1, a + b + 7)
    BY <1>14, <2>1, Cut
  <2> HIDE DEF front
  <2>3. /\ Len(front) = a + b + 7
        /\ \A j \in 1 .. a + b + 7 : front[j] = T[0 + j]
    BY <2>1, <2>2 DEF IsCut
  <2> QED
    BY <2>2, <2>3
<1>20. /\ body \in Seq(Byte) /\ Len(body) = a + b + 5
       /\ \A j \in 1 .. a + b + 5 : body[j] = T[2 + j]
  <2>1. 3 \in Nat \ {0} /\ a + b + 7 \in Nat /\ a + b + 7 <= Len(T) /\ 3 <= a + b + 7 + 1
        /\ (a + b + 7 - 3) + 1 = a + b + 5 /\ 3 - 1 = 2
    BY <1>16, <1>17, <1>18
  <2> DEFINE h == a + b + 7
             n == a + b + 5
  <2>2. body \in Seq(Byte) /\ IsCut(body, T, 3, h)
    BY <1>14, <2>1, Cut
  <2>3. (h - 3) + 1 = n /\ 3 - 1 = 2
    <3>1. a \in Nat /\ b \in Nat
      BY <1>16, <1>17
    <3> QED
      BY ONLY <3>1 DEF h, n
  <2> HIDE DEF body, h, n
  <2>4. /\ Len(body) = (h - 3) + 1
        /\ \A j \in 1 .. (h - 3) + 1 : body[j] = T[(3 - 1) + j]
    BY ONLY <2>2 DEF IsCut
  <2>5. /\ Len(body) = n
        /\ \A j \in 1 .. n : body[j] = T[2 + j]
    BY ONLY <2>3, <2>4, Zenon
  <2> QED
    BY <2>2, <2>5 DEF n
<1> HIDE DEF front, body
<1>21. XOR_Check(front) = XOR_Check(Content(k))
  <2> DEFINE s == Content(m)
             t == Content(k)
  <2>1. Len(front) = Len(s) + 3 + Len(t)
    BY <1>16, <1>17, <1>19
  <2>2. \A i \in 1 .. Len(s) : front[i] = s[i]
    <3>1. \A i \in 1 .. a + 2 : i \in 1 .. a + b + 7 /\ i \in 1 .. a + 3
      BY <1>16, <1>17
    <3>2. \A i \in 1 .. a + 2 : front[i] = s[i]
      BY <1>16, <1>18, <1>19, <3>1
    <3> QED
      BY <1>16, <3>2
  <2>3. /\ front[Len(s) + 1] = XOR_Check(s)
        /\ front[Len(s) + 2] = FLAG /\ front[Len(s) + 3] = FLAG
    <3>2. Len(s) = a + 2 /\ a \in Nat /\ b \in Nat
      BY <1>16, <1>17
    <3> HIDE DEF s
    <3>1. /\ Len(s) + 1 = a + 3 /\ Len(s) + 2 = a + 4 /\ Len(s) + 3 = a + 5
          /\ a + 3 \in 1 .. a + b + 7 /\ a + 4 \in 1 .. a + b + 7 /\ a + 5 \in 1 .. a + b + 7
          /\ a + 3 \in 1 .. a + 3
      BY ONLY <3>2
    <3> QED
      BY <1>16, <1>18, <1>19, <3>1 DEF s
  <2>4. \A i \in 1 .. Len(t) : front[Len(s) + 3 + i] = t[i]
    <3>1. \A i \in 1 .. b + 2 : /\ a + 5 + i \in 1 .. a + b + 7 /\ i \in 1 .. b + 3
                                /\ (a + 2) + 3 + i = a + 5 + i
      BY <1>16, <1>17
    <3>2. \A i \in 1 .. b + 2 : front[a + 5 + i] = t[i]
      BY <1>17, <1>18, <1>19, <3>1
    <3> QED
      BY <1>16, <1>17, <3>1, <3>2
  <2>5. s \in Seq(Byte) /\ t \in Seq(Byte)
    BY <1>16, <1>17
  <2> HIDE DEF s, t
  <2>6. Follows(front, s, t)
    BY ONLY <2>1, <2>2, <2>3, <2>4 DEF Follows
  <2>7. XOR_Check(front) = XOR_Check(t)
    BY ONLY <1>19, <2>5, <2>6, CheckCancels
  <2> QED
    BY <2>7 DEF t
<1>22. Open(T) = [id |-> m.id, seq |-> m.seq, body |-> body]
  <2> DEFINE n == Len(T)
  <2>0. n = a + b + 8 /\ a \in Nat /\ b \in Nat
    BY <1>16, <1>17, <1>18
  <2> HIDE DEF n
  <2>a. n - 1 = a + b + 7 /\ ~(n < 3) /\ a + 5 + (b + 3) = n
    BY <2>0
  <2>b. /\ 1 \in 1 .. a + 3 /\ 2 \in 1 .. a + 3 /\ 1 \in 1 .. a + 2 /\ 2 \in 1 .. a + 2
        /\ b + 3 \in 1 .. b + 3
    BY <2>0
  <2>1. Len(T) - 1 = a + b + 7 /\ ~(Len(T) < 3) /\ a + 5 + (b + 3) = Len(T)
        /\ 1 \in 1 .. a + 3 /\ 2 \in 1 .. a + 3 /\ 1 \in 1 .. a + 2 /\ 2 \in 1 .. a + 2
        /\ b + 3 \in 1 .. b + 3
    BY <2>a, <2>b DEF n
  <2>2. Front(T) = front
    BY <2>1 DEF Front, front
  <2>3. Last(T) = XOR_Check(Content(k))
    BY <1>17, <1>18, <2>1 DEF Last
  <2>4. T[1] = m.id /\ T[2] = m.seq
    BY <1>16, <1>18, <2>1
  <2>5. Open(T) = Message(T[1], T[2], SubSeq(T, 3, Len(T) - 1))
    BY <1>21, <2>1, <2>2, <2>3 DEF Open
  <2> QED
    BY <2>1, <2>4, <2>5 DEF Message, body
<1>23. IsStrictPrefix(m.body, body)
  <2>0. a \in Nat /\ b \in Nat
    BY <1>16, <1>17
  <2>1. \A j \in 1 .. a : /\ j \in 1 .. a + b + 5 /\ 2 + j = j + 2 /\ j + 2 \in 1 .. a + 2
                          /\ j + 2 \in 1 .. a + 3
    BY ONLY <2>0
  <2>2. \A j \in 1 .. a : body[j] = m.body[j]
    <3>1. \A j \in 1 .. a : body[j] = T[j + 2]
      BY <1>20, <2>1
    <3>2. \A j \in 1 .. a : T[j + 2] = Inside(m)[j + 2]
      BY <1>18, <2>1
    <3>3. \A j \in 1 .. a : Inside(m)[j + 2] = Content(m)[j + 2]
      BY <1>16, <2>1
    <3> QED
      BY <1>16, <3>1, <3>2, <3>3
  <2>3. a <= Len(body) /\ a # Len(body) /\ a <= a /\ 1 <= a + 1 /\ 1 \in Nat \ {0}
        /\ (a - 1) + 1 = a /\ 1 - 1 = 0
    BY <1>16, <1>17, <1>20
  <2> DEFINE x == SubSeq(m.body, 1, a)
             y == SubSeq(body, 1, a)
  <2>4. x \in Seq(Byte) /\ IsCut(x, m.body, 1, a)
    BY <1>16, <2>3, Cut DEF a
  <2>5. y \in Seq(Byte) /\ IsCut(y, body, 1, a)
    BY <1>16, <1>20, <2>3, Cut
  <2> HIDE DEF x, y
  <2>6. /\ Len(x) = a /\ Len(y) = a
        /\ \A j \in 1 .. a : x[j] = m.body[0 + j] /\ y[j] = body[0 + j]
    BY <2>3, <2>4, <2>5 DEF IsCut
  <2>7. \A j \in 1 .. a : x[j] = y[j]
    <3>1. \A j \in 1 .. a : 0 + j = j
      BY <1>16
    <3> QED
      BY <2>2, <2>6, <3>1
  <2>8. x = y
    BY <2>4, <2>5, <2>6, <2>7, SeqEqual
  <2>9. Len(m.body) <= Len(body) /\ m.body # body
    BY <2>3 DEF a
  <2>10. IsPrefix(m.body, body)
    BY <2>8, <2>9 DEF IsPrefix, x, y, a
  <2> QED
    BY <2>9, <2>10 DEF IsStrictPrefix
<1>24. Bounded(data) => FrameOf(data) = Open(T)
  BY <1>15 DEF FrameOf, D
<1> QED
  BY <1>22, <1>23, <1>24 DEF data, X, Y

-----------------------------------------------------------------------------
(* What a stream gives *)

LEMMA OpenGives ==
  ASSUME NEW s \in Seq(Byte)
  PROVE  Open(s) \in Messages \cup {NoMessage}
<1> DEFINE n == Len(s)
           body == SubSeq(s, 3, n - 1)
<1>1. n \in Nat
  OBVIOUS
<1>2. CASE n < 3 \/ XOR_Check(Front(s)) # Last(s)
  BY <1>2 DEF Open
<1>3. CASE ~ (n < 3 \/ XOR_Check(Front(s)) # Last(s))
  <2>1. 1 \in 1 .. n /\ 2 \in 1 .. n
    BY <1>1, <1>3
  <2>2. s[1] \in Byte /\ s[2] \in Byte
    BY <2>1, ElementOfSeq
  <2>3. 3 \in Nat \ {0} /\ n - 1 \in Nat /\ n - 1 <= n /\ 3 <= (n - 1) + 1
    BY <1>1, <1>3
  <2>4. body \in Seq(Byte)
    BY <2>3, Cut
  <2>5. Open(s) = Message(s[1], s[2], body)
    BY <1>3 DEF Open
  <2> HIDE DEF body
  <2>6. Message(s[1], s[2], body) \in Messages
    BY <2>2, <2>4 DEF Message, Messages
  <2> QED
    BY <2>5, <2>6
<1> QED
  BY <1>2, <1>3

LEMMA FrameGives ==
  ASSUME NEW data \in Seq(Byte)
  PROVE  FrameOf(data) \in Messages \cup {NoMessage}
<1> DEFINE n == Len(data)
           d == SubSeq(data, 2, n - 1)
<1>1. CASE ~ Bounded(data)
  BY <1>1 DEF FrameOf
<1>2. CASE Bounded(data)
  <2>1. n \in Nat /\ n > 2
    BY <1>2 DEF Bounded
  <2>2. 2 \in Nat \ {0} /\ n - 1 \in Nat /\ n - 1 <= n /\ 2 <= (n - 1) + 1
    BY <2>1
  <2>3. d \in Seq(Byte)
    BY <2>2, Cut
  <2>4. FrameOf(data) = Open(Unescape(d))
    BY <1>2 DEF FrameOf
  <2> HIDE DEF d
  <2> QED
    BY <2>3, <2>4, UnescapeGivesBytes, OpenGives
<1> QED
  BY <1>1, <1>2

LEMMA FoundGives ==
  ASSUME NEW s \in Seq(Byte)
  PROVE  Found(s) \subseteq Messages
<1>1. ASSUME NEW p \in Pieces(s)
      PROVE  p \in Seq(Byte)
  <2> DEFINE flags == {i \in DOMAIN s : s[i] = FLAG}
             n == Len(s)
  <2>1. PICK ij \in ({0} \cup flags) \X flags : ij[1] < ij[2] /\ p = SubSeq(s, ij[1] + 1, ij[2] - 1)
    BY DEF Pieces
  <2>2. n \in Nat /\ flags \subseteq 1 .. n
    OBVIOUS
  <2> DEFINE i == ij[1]
             j == ij[2]
  <2>3. i \in 0 .. n /\ j \in 1 .. n /\ i < j
    BY <2>1, <2>2
  <2> HIDE DEF flags, n, i, j
  <2>4. i + 1 \in Nat \ {0} /\ j - 1 \in Nat /\ j - 1 <= n /\ i + 1 <= (j - 1) + 1
    BY <2>2, <2>3
  <2>5. SubSeq(s, i + 1, j - 1) \in Seq(Byte)
    BY <2>4, Cut DEF n
  <2> QED
    BY <2>1, <2>5 DEF i, j
<1>2. ASSUME NEW p \in Pieces(s)
      PROVE  Open(Unescape(p)) \in Messages \cup {NoMessage}
  BY <1>1, UnescapeGivesBytes, OpenGives
<1> QED
  BY <1>2 DEF Found

Piece == [byte : Byte, of : Nat]

LEMMA BytesAre ==
  ASSUME NEW s \in Seq(Piece)
  PROVE  /\ Bytes(s) \in Seq(Byte) /\ Len(Bytes(s)) = Len(s) /\ Len(s) \in Nat
         /\ \A i \in 1 .. Len(s) : Bytes(s)[i] = s[i].byte
<1> DEFINE n == Len(s)
           w == Bytes(s)
<1>1. n \in Nat /\ DOMAIN s = 1 .. n
  OBVIOUS
<1>2. \A i \in 1 .. n : s[i] \in Piece
  BY ElementOfSeq
<1>3. \A i \in 1 .. n : s[i].byte \in Byte
  BY <1>2 DEF Piece
<1> HIDE DEF n
<1>4. w = [i \in 1 .. n |-> s[i].byte]
  BY <1>1 DEF Bytes
<1>5. w \in Seq(Byte) /\ Len(w) = n /\ \A i \in 1 .. n : w[i] = s[i].byte
  <2>1. w \in [1 .. n -> Byte]
    BY <1>3, <1>4
  <2>2. w \in Seq(Byte)
    BY <1>1, <2>1
  <2>3. DOMAIN w = 1 .. n
    BY <2>1
  <2> QED
    BY <1>1, <1>4, <2>2, <2>3, LenProperties
<1> QED
  BY <1>1, <1>5 DEF n

-----------------------------------------------------------------------------
(* What was sent stands in the order in which it was sent *)

(* at names the place in its frame of every byte of s. *)
InPlace(s, fr, at) ==
  \A k \in 1 .. Len(s) :
    /\ s[k].of \in 1 .. Len(fr)
    /\ at[k] \in 1 .. Len(Seal(fr[s[k].of]))
    /\ s[k].byte = Seal(fr[s[k].of])[at[k]]

Ordered(s, at) ==
  \A j, k \in 1 .. Len(s) :
    j < k => s[j].of < s[k].of \/ (s[j].of = s[k].of /\ at[j] < at[k])

(* Of the frames fr, s holds bytes, none twice, in the order of the frames   *)
(* and of the bytes in a frame.                                              *)
InOrder(s, fr) ==
  \E at \in [1 .. Len(s) -> Nat] : InPlace(s, fr, at) /\ Ordered(s, at)

(* g picks w out of s. *)
Picked(w, s, g) ==
  /\ \A k \in 1 .. Len(w) : g[k] \in 1 .. Len(s) /\ w[k] = s[g[k]]
  /\ \A j, k \in 1 .. Len(w) : j < k => g[j] < g[k]

LEMMA PickedInOrder ==
  ASSUME NEW s \in Seq(Piece), NEW w \in Seq(Piece), NEW fr, NEW g,
         Picked(w, s, g), InOrder(s, fr)
  PROVE  InOrder(w, fr)
<1> DEFINE n == Len(w)
           N == Len(s)
<1>1. PICK at \in [1 .. N -> Nat] : InPlace(s, fr, at) /\ Ordered(s, at)
  BY DEF InOrder
<1>2. /\ \A k \in 1 .. n : g[k] \in 1 .. N /\ w[k] = s[g[k]]
      /\ \A j, k \in 1 .. n : j < k => g[j] < g[k]
  BY DEF Picked
<1> DEFINE to == [k \in 1 .. n |-> at[g[k]]]
<1>3. to \in [1 .. n -> Nat] /\ \A k \in 1 .. n : to[k] = at[g[k]]
  BY <1>1, <1>2
<1> HIDE DEF to, n, N
<1>4. InPlace(w, fr, to)
  <2> SUFFICES ASSUME NEW k \in 1 .. n
               PROVE  /\ w[k].of \in 1 .. Len(fr)
                      /\ to[k] \in 1 .. Len(Seal(fr[w[k].of]))
                      /\ w[k].byte = Seal(fr[w[k].of])[to[k]]
    BY DEF InPlace, n
  <2>1. g[k] \in 1 .. N /\ w[k] = s[g[k]] /\ to[k] = at[g[k]]
    BY <1>2, <1>3
  <2>2. /\ s[g[k]].of \in 1 .. Len(fr)
        /\ at[g[k]] \in 1 .. Len(Seal(fr[s[g[k]].of]))
        /\ s[g[k]].byte = Seal(fr[s[g[k]].of])[at[g[k]]]
    BY <1>1, <2>1 DEF InPlace, N
  <2> QED
    BY ONLY <2>1, <2>2, Zenon
<1>5. Ordered(w, to)
  <2> SUFFICES ASSUME NEW j \in 1 .. n, NEW k \in 1 .. n, j < k
               PROVE  w[j].of < w[k].of \/ (w[j].of = w[k].of /\ to[j] < to[k])
    BY DEF Ordered, n
  <2>1. /\ g[j] \in 1 .. N /\ w[j] = s[g[j]] /\ to[j] = at[g[j]]
        /\ g[k] \in 1 .. N /\ w[k] = s[g[k]] /\ to[k] = at[g[k]]
        /\ g[j] < g[k]
    BY <1>2, <1>3
  <2>2. s[g[j]].of < s[g[k]].of \/ (s[g[j]].of = s[g[k]].of /\ at[g[j]] < at[g[k]])
    BY <1>1, <2>1 DEF Ordered, N
  <2> QED
    BY ONLY <2>1, <2>2, Zenon
<1> QED
  BY <1>3, <1>4, <1>5 DEF InOrder, n

(* The beginning of what is in order is in order. *)
LEMMA BeginningInOrder ==
  ASSUME NEW a \in Seq(Piece), NEW b \in Seq(Piece), NEW fr, InOrder(a \o b, fr)
  PROVE  InOrder(a, fr)
<1> DEFINE n == Len(a)
           g == [k \in 1 .. n |-> k]
<1>1. a \o b \in Seq(Piece) /\ IsJoin(a \o b, a, b)
  BY Joined
<1>2. /\ n \in Nat /\ Len(b) \in Nat /\ Len(a \o b) = n + Len(b)
      /\ \A k \in 1 .. n : (a \o b)[k] = a[k]
  BY <1>1 DEF IsJoin
<1> HIDE DEF n
<1>3. \A k \in 1 .. n : k \in 1 .. n + Len(b)
  BY <1>2
<1>4. Picked(a, a \o b, g)
  <2>1. \A k \in 1 .. n : g[k] = k
    OBVIOUS
  <2> HIDE DEF g
  <2> QED
    BY <1>2, <1>3, <2>1 DEF Picked, n
<1> HIDE DEF g
<1> QED
  BY <1>1, <1>4, PickedInOrder

(* So is what remains when its middle is cut out, ... *)
LEMMA CutOutInOrder ==
  ASSUME NEW a \in Seq(Piece), NEW b \in Seq(Piece), NEW fr, InOrder(a \o b, fr),
         NEW c \in Nat, c <= Len(b)
  PROVE  InOrder(a \o SubSeq(b, c + 1, Len(b)), fr)
<1> DEFINE n == Len(a)
           N == Len(b)
           d == SubSeq(b, c + 1, N)
           l == N - c
           g == [k \in 1 .. n + l |-> IF k <= n THEN k ELSE k + c]
<1>1. a \o b \in Seq(Piece) /\ IsJoin(a \o b, a, b)
  BY Joined
<1>2. /\ n \in Nat /\ N \in Nat /\ Len(a \o b) = n + N
      /\ \A k \in 1 .. n : (a \o b)[k] = a[k]
      /\ \A k \in 1 .. N : (a \o b)[n + k] = b[k]
  BY <1>1 DEF IsJoin
<1>3. /\ c + 1 \in Nat \ {0} /\ N <= Len(b) /\ c + 1 <= N + 1
      /\ (N - (c + 1)) + 1 = l /\ (c + 1) - 1 = c /\ l \in Nat /\ n + l \in Nat
  BY <1>2
<1>4. d \in Seq(Piece) /\ IsCut(d, b, c + 1, N)
  BY <1>2, <1>3, Cut
<1> HIDE DEF d
<1>5. /\ Len(d) = (N - (c + 1)) + 1
      /\ \A k \in 1 .. (N - (c + 1)) + 1 : d[k] = b[((c + 1) - 1) + k]
  BY <1>4 DEF IsCut
<1>6. a \o d \in Seq(Piece) /\ IsJoin(a \o d, a, d)
  BY <1>4, Joined
<1> HIDE DEF n, N, l
<1>7. Len(d) = l /\ \A k \in 1 .. l : d[k] = b[c + k]
  BY ONLY <1>3, <1>5, Zenon
<1> DEFINE w == a \o d
           s == a \o b
<1>8. /\ Len(w) = n + l
      /\ \A k \in 1 .. n : w[k] = a[k]
      /\ \A k \in 1 .. l : w[n + k] = d[k]
  BY <1>6, <1>7 DEF IsJoin, n
<1> HIDE DEF w, s
<1>9. \A k \in 1 .. n + l : g[k] = IF k <= n THEN k ELSE k + c
  OBVIOUS
<1> HIDE DEF g
<1>10. ASSUME NEW k \in 1 .. n + l
       PROVE  g[k] \in 1 .. n + N /\ w[k] = s[g[k]]
  <2>1. CASE k <= n
    <3>1. k \in 1 .. n /\ k \in 1 .. n + N
      BY <1>2, <1>3, <2>1
    <3> QED
      BY <1>2, <1>8, <1>9, <2>1, <3>1 DEF s
  <2>2. CASE ~ (k <= n)
    <3> DEFINE i == k - n
    <3>1. l = N - c
      BY DEF l
    <3>2. /\ i \in 1 .. l /\ n + i = k /\ c + i \in 1 .. N
          /\ n + (c + i) = k + c /\ k + c \in 1 .. n + N
      BY <1>2, <1>3, <2>2, <3>1
    <3> HIDE DEF i
    <3>3. w[k] = b[c + i]
      BY <1>7, <1>8, <3>2
    <3>4. s[k + c] = b[c + i]
      BY <1>2, <3>2 DEF s
    <3> QED
      BY <1>9, <2>2, <3>2, <3>3, <3>4
  <2> QED
    BY <2>1, <2>2
<1>11. ASSUME NEW j \in 1 .. n + l, NEW k \in 1 .. n + l, j < k
       PROVE  g[j] < g[k]
  <2>1. g[j] = (IF j <= n THEN j ELSE j + c) /\ g[k] = (IF k <= n THEN k ELSE k + c)
    BY <1>9
  <2>2. j \in Nat /\ k \in Nat /\ n \in Nat /\ c \in Nat
    BY <1>2
  <2>3. (IF j <= n THEN j ELSE j + c) < (IF k <= n THEN k ELSE k + c)
    BY ONLY <2>2, <1>11
  <2> QED
    BY ONLY <2>1, <2>3, Zenon
<1>12. Picked(w, s, g)
  <2>1. Len(s) = n + N
    BY <1>2 DEF s
  <2> QED
    BY <1>8, <1>10, <1>11, <2>1 DEF Picked
<1>13. InOrder(w, fr)
  BY <1>1, <1>6, <1>12, PickedInOrder DEF w, s
<1> QED
  BY <1>13 DEF w, d, N

(* ... and what a new frame is written behind. *)
OfFrame(m, i) == [j \in DOMAIN Seal(m) |-> [byte |-> Seal(m)[j], of |-> i]]

LEMMA FrameBytes ==
  ASSUME NEW m \in Messages, NEW i \in Nat
  PROVE  /\ OfFrame(m, i) \in Seq(Piece) /\ Len(OfFrame(m, i)) = Len(Seal(m)) /\ Len(Seal(m)) \in Nat
         /\ \A j \in 1 .. Len(Seal(m)) : OfFrame(m, i)[j].byte = Seal(m)[j] /\ OfFrame(m, i)[j].of = i
<1> DEFINE x == Seal(m)
           n == Len(x)
           w == OfFrame(m, i)
<1>1. x \in Seq(Byte)
  BY SealFacts
<1> HIDE DEF x
<1>2. n \in Nat /\ DOMAIN x = 1 .. n /\ \A j \in 1 .. n : x[j] \in Byte
  BY <1>1
<1> HIDE DEF n
<1>3. w = [j \in 1 .. n |-> [byte |-> x[j], of |-> i]]
  BY <1>2 DEF OfFrame, x
<1> HIDE DEF w
<1>4. \A j \in 1 .. n : w[j] = [byte |-> x[j], of |-> i]
  BY <1>3
<1>5. ASSUME NEW j \in 1 .. n
      PROVE  w[j] \in Piece /\ w[j].byte = x[j] /\ w[j].of = i
  <2> DEFINE v == x[j]
  <2>1. v \in Byte
    BY <1>2
  <2>2. w[j] = [byte |-> v, of |-> i]
    BY <1>4
  <2> HIDE DEF v
  <2>3. w[j] \in Piece /\ w[j].byte = v /\ w[j].of = i
    BY <2>1, <2>2 DEF Piece
  <2> QED
    BY <2>3 DEF v
<1>6. w \in [1 .. n -> Piece]
  BY <1>3, <1>5
<1>7. w \in Seq(Piece) /\ Len(w) = n
  BY <1>2, <1>6, LenProperties
<1> QED
  BY <1>2, <1>5, <1>7 DEF x, n, w

LEMMA FrameInOrder ==
  ASSUME NEW s \in Seq(Piece), NEW fr \in Seq(Messages), NEW m \in Messages, InOrder(s, fr)
  PROVE  InOrder(s \o OfFrame(m, Len(fr) + 1), Append(fr, m))
<1> DEFINE n == Len(s)
           f == Len(fr)
           b == OfFrame(m, f + 1)
           l == Len(Seal(m))
           w == s \o b
           fs == Append(fr, m)
<1>1. PICK at \in [1 .. n -> Nat] : InPlace(s, fr, at) /\ Ordered(s, at)
  BY DEF InOrder
<1>2. n \in Nat /\ f \in Nat /\ f + 1 \in Nat
  OBVIOUS
<1>3. /\ b \in Seq(Piece) /\ Len(b) = l /\ l \in Nat
      /\ \A j \in 1 .. l : b[j].byte = Seal(m)[j] /\ b[j].of = f + 1
  BY <1>2, FrameBytes
<1> HIDE DEF b
<1>4. w \in Seq(Piece) /\ IsJoin(w, s, b)
  BY <1>3, Joined
<1>5. /\ Len(w) = n + l
      /\ \A k \in 1 .. n : w[k] = s[k]
      /\ \A k \in 1 .. l : w[n + k] = b[k]
  BY <1>3, <1>4 DEF IsJoin
<1>6. /\ Len(fs) = f + 1 /\ fs[f + 1] = m
      /\ \A i \in 1 .. f : fs[i] = fr[i]
  BY AppendProperties
<1> HIDE DEF n, f, l, w, fs
<1> DEFINE to == [k \in 1 .. n + l |-> IF k <= n THEN at[k] ELSE k - n]
<1>7. \A k \in 1 .. n : k \in 1 .. n + l /\ k <= n
  BY <1>2, <1>3
<1>8. \A k \in 1 .. n + l : ~ (k <= n) => k - n \in 1 .. l /\ k - n \in Nat /\ n + (k - n) = k
  BY <1>2, <1>3
<1>9. \A k \in 1 .. n + l : k <= n => k \in 1 .. n
  BY <1>2, <1>3
<1>10. to \in [1 .. n + l -> Nat]
  BY <1>1, <1>8, <1>9 DEF n
<1>11. \A k \in 1 .. n + l : to[k] = IF k <= n THEN at[k] ELSE k - n
  OBVIOUS
<1> HIDE DEF to
<1>12. ASSUME NEW k \in 1 .. n + l, k <= n
       PROVE  /\ to[k] = at[k] /\ w[k] = s[k]
              /\ w[k].of \in 1 .. f /\ fs[w[k].of] = fr[w[k].of]
              /\ to[k] \in 1 .. Len(Seal(fr[w[k].of]))
              /\ w[k].byte = Seal(fr[w[k].of])[to[k]]
  <2>1. k \in 1 .. n /\ to[k] = at[k]
    BY <1>9, <1>11, <1>12
  <2>2. w[k] = s[k]
    BY <1>5, <2>1
  <2>3. /\ s[k].of \in 1 .. f
        /\ at[k] \in 1 .. Len(Seal(fr[s[k].of]))
        /\ s[k].byte = Seal(fr[s[k].of])[at[k]]
    BY <1>1, <2>1 DEF InPlace, n, f
  <2>4. fs[s[k].of] = fr[s[k].of]
    BY <1>6, <2>3
  <2> QED
    BY ONLY <2>1, <2>2, <2>3, <2>4, Zenon
<1>13. ASSUME NEW k \in 1 .. n + l, ~ (k <= n)
       PROVE  /\ to[k] = k - n
              /\ w[k].of = f + 1 /\ fs[w[k].of] = m
              /\ to[k] \in 1 .. l
              /\ w[k].byte = Seal(m)[to[k]]
  <2>1. to[k] = k - n /\ k - n \in 1 .. l /\ n + (k - n) = k
    BY <1>8, <1>11, <1>13
  <2> DEFINE i == k - n
  <2> HIDE DEF i
  <2>2. to[k] = i /\ i \in 1 .. l /\ n + i = k
    BY <2>1 DEF i
  <2>3. w[k] = b[i] /\ b[i].byte = Seal(m)[i] /\ b[i].of = f + 1
    BY <1>3, <1>5, <2>2
  <2> QED
    BY <1>6, <2>2, <2>3 DEF i
<1>14. ASSUME NEW k \in 1 .. n + l
       PROVE  /\ w[k].of \in 1 .. f + 1
              /\ to[k] \in 1 .. Len(Seal(fs[w[k].of]))
              /\ w[k].byte = Seal(fs[w[k].of])[to[k]]
  <2>1. CASE k <= n
    <3>1. \A i \in 1 .. f : i \in 1 .. f + 1
      BY <1>2
    <3> QED
      BY <1>12, <2>1, <3>1
  <2>2. CASE ~ (k <= n)
    <3>1. f + 1 \in 1 .. f + 1
      BY <1>2
    <3> QED
      BY <1>13, <2>2, <3>1 DEF l
  <2> QED
    BY <2>1, <2>2
<1>15. InPlace(w, fs, to)
  BY <1>5, <1>6, <1>14 DEF InPlace
<1>16. ASSUME NEW j \in 1 .. n + l, NEW k \in 1 .. n + l, j < k
       PROVE  w[j].of < w[k].of \/ (w[j].of = w[k].of /\ to[j] < to[k])
  <2>1. CASE k <= n
    <3>1. j <= n /\ j \in 1 .. n /\ k \in 1 .. n
      BY <1>2, <1>3, <1>16, <2>1
    <3>2. s[j].of < s[k].of \/ (s[j].of = s[k].of /\ at[j] < at[k])
      BY <1>1, <1>16, <3>1 DEF Ordered, n
    <3> QED
      BY <1>12, <2>1, <3>1, <3>2
  <2>2. CASE j <= n /\ ~ (k <= n)
    <3>1. w[j].of \in 1 .. f /\ w[k].of = f + 1
      BY <1>12, <1>13, <2>2
    <3> QED
      BY <1>2, <3>1
  <2>3. CASE ~ (j <= n)
    <3>1. ~ (k <= n)
      BY <1>2, <1>3, <1>16, <2>3
    <3>2. w[j].of = w[k].of /\ to[j] = j - n /\ to[k] = k - n
      BY <1>13, <2>3, <3>1
    <3>3. j - n < k - n
      BY <1>2, <1>3, <1>16
    <3> QED
      BY <3>2, <3>3
  <2> QED
    BY <2>1, <2>2, <2>3
<1>17. Ordered(w, to)
  BY <1>5, <1>16 DEF Ordered
<1> QED
  BY <1>5, <1>10, <1>15, <1>17 DEF InOrder, w, fs, b, f

(* Of a frame whose bytes are all there, the first and the last byte bound   *)
(* nothing but the frame: the platform finds it.                             *)
LEMMA WholeIsFound ==
  ASSUME NEW s \in Seq(Piece), NEW fr \in Seq(Messages), InOrder(s, fr),
         NEW i \in DOMAIN fr,
         Cardinality({k \in DOMAIN s : s[k].of = i}) = Len(Seal(fr[i]))
  PROVE  fr[i] \in Found(Bytes(s))
<1> DEFINE N == Len(s)
           m == fr[i]
           x == Seal(m)
           e == Escape(Inside(m))
           M == Len(e)
           L == Len(x)
           In == {k \in 1 .. N : s[k].of = i}
           t == Bytes(s)
<1>1. m \in Messages /\ N \in Nat /\ DOMAIN s = 1 .. N
  OBVIOUS
<1> HIDE DEF m
<1>2. /\ M \in Nat /\ M >= 3 /\ e \in Seq(Byte \ {FLAG}) /\ e \in Seq(Byte)
      /\ L = M + 2 /\ x[1] = FLAG /\ x[M + 2] = FLAG
      /\ \A j \in 1 .. M : x[j + 1] = e[j]
      /\ Unescape(e) = Inside(m)
  BY <1>1, SealFacts
<1>3. Cardinality(In) = L
  BY <1>1 DEF m
<1>4. t \in Seq(Byte) /\ Len(t) = N /\ \A k \in 1 .. N : t[k] = s[k].byte
  BY BytesAre
<1>5. PICK at \in [1 .. N -> Nat] : InPlace(s, fr, at) /\ Ordered(s, at)
  BY DEF InOrder
<1>6. \A k \in In : k \in 1 .. N /\ at[k] \in 1 .. L /\ t[k] = x[at[k]]
  BY <1>4, <1>5 DEF InPlace, m
<1>7. \A j, k \in 1 .. N : j < k => s[j].of < s[k].of \/ (s[j].of = s[k].of /\ at[j] < at[k])
  BY <1>5 DEF Ordered
<1>8. \A k \in 1 .. N : s[k].of \in Nat
  <2>1. \A k \in 1 .. N : s[k] \in Piece
    BY ElementOfSeq
  <2> QED
    BY <2>1 DEF Piece
<1>9. i \in Nat
  OBVIOUS
<1>10. In \subseteq 1 .. N /\ \A k \in 1 .. N : k \in In <=> s[k].of = i
  OBVIOUS
<1> HIDE DEF N, x, e, M, L, In, t
(* Every place of the frame has its byte. *)
<1>11. ASSUME NEW j \in In, NEW k \in In, j < k
       PROVE  at[j] < at[k]
  BY <1>7, <1>8, <1>10, <1>11
<1>12. \A p \in 1 .. L : \E k \in In : at[k] = p
  <2> DEFINE f == [k \in In |-> at[k]]
  <2>1. f \in [In -> 1 .. L] /\ \A k \in In : f[k] = at[k]
    BY <1>6
  <2> HIDE DEF f
  <2>2. \A j, k \in In : f[j] = f[k] => j = k
    <3> SUFFICES ASSUME NEW j \in In, NEW k \in In, at[j] = at[k], j # k
                 PROVE  FALSE
      BY <2>1
    <3>1. j \in Nat /\ k \in Nat /\ at[j] \in Nat /\ at[k] \in Nat
      BY <1>1, <1>6
    <3>2. CASE j < k
      BY <1>11, <3>1, <3>2
    <3>3. CASE k < j
      BY <1>11, <3>1, <3>3
    <3> QED
      BY <3>1, <3>2, <3>3
  <2>3. f \in Injection(In, 1 .. L)
    BY <2>1, <2>2 DEF Injection, IsInjective
  <2>4. L \in Nat
    BY <1>2
  <2>5. IsFiniteSet(1 .. L) /\ Cardinality(1 .. L) = L
    <3> DEFINE c == Cardinality(1 .. L)
    <3>1. 1 \in Int /\ L \in Int
      BY ONLY <2>4
    <3>2. IsFiniteSet(1 .. L) /\ c = IF 1 > L THEN 0 ELSE L - 1 + 1
      BY ONLY <3>1, FS_Interval, Zenon
    <3> HIDE DEF c
    <3>3. c = L
      BY ONLY <2>4, <3>2
    <3> QED
      BY <3>2, <3>3 DEF c
  <2>6. f \in Surjection(In, 1 .. L)
    BY <1>3, <2>3, <2>5, FS_Injection
  <2> QED
    BY <2>1, <2>6 DEF Surjection
<1>13. PICK a \in In : at[a] = 1
  <2>1. 1 \in 1 .. L
    BY <1>2
  <2> QED
    BY <1>12, <2>1
<1>14. PICK b \in In : at[b] = L
  <2>1. L \in 1 .. L
    BY <1>2
  <2> QED
    BY <1>12, <2>1
<1>15. /\ a \in 1 .. N /\ b \in 1 .. N /\ a \in Nat /\ b \in Nat /\ a < b
       /\ t[a] = FLAG /\ t[b] = FLAG
  <2>1. a \in 1 .. N /\ b \in 1 .. N /\ t[a] = x[1] /\ t[b] = x[M + 2]
    BY <1>2, <1>6, <1>13, <1>14
  <2>2. a \in Nat /\ b \in Nat
    BY <1>1, <2>1
  <2>3. ~ (b < a) /\ a # b
    <3>1. ~ (L < 1) /\ L # 1
      BY <1>2
    <3> QED
      BY <1>11, <1>13, <1>14, <3>1
  <2> QED
    BY <1>2, <2>1, <2>2, <2>3
<1>16. ASSUME NEW k \in 1 .. N, a <= k, k <= b
       PROVE  k \in In
  <2>1. s[a].of = i /\ s[b].of = i /\ s[k].of \in Nat /\ k \in Nat
    BY <1>1, <1>8, <1>10, <1>15
  <2>2. CASE k = a \/ k = b
    BY <1>10, <2>1, <2>2
  <2>3. CASE a < k /\ k < b
    <3>1. s[a].of <= s[k].of
      <4>1. s[a].of < s[k].of \/ s[a].of = s[k].of
        BY <1>7, <1>15, <2>3
      <4> QED
        BY <1>9, <2>1, <4>1
    <3>2. s[k].of <= s[b].of
      <4>1. s[k].of < s[b].of \/ s[k].of = s[b].of
        BY <1>7, <1>15, <2>3
      <4> QED
        BY <1>9, <2>1, <4>1
    <3>3. s[k].of = i
      BY ONLY <1>9, <2>1, <3>1, <3>2
    <3> QED
      BY <1>10, <3>3
  <2> QED
    BY <1>15, <1>16, <2>1, <2>2, <2>3
(* They follow each other. *)
<1> DEFINE T == {j \in Nat : a + j <= b => at[a + j] = 1 + j}
<1>17. \A j \in Nat : j \in T
  <2>1. 0 \in T
    BY <1>13, <1>15
  <2>2. ASSUME NEW j \in Nat, j \in T
        PROVE  j + 1 \in T
    <3> SUFFICES ASSUME a + (j + 1) <= b
                 PROVE  at[a + (j + 1)] = 1 + (j + 1)
      OBVIOUS
    <3> DEFINE k == a + j
               h == a + (j + 1)
               c == 1 + j
    <3>1. k \in 1 .. N /\ h \in 1 .. N /\ a <= k /\ k <= b /\ a <= h /\ h <= b /\ k < h
      BY <1>1, <1>15
    <3>2. at[k] = c
      BY <2>2, <3>1
    <3>3. c \in Nat /\ k \in Nat /\ h = k + 1
      BY <1>15
    <3> HIDE DEF k, h, c
    <3>4. k \in In /\ h \in In
      BY <1>16, <3>1
    <3>5. c < at[h] /\ at[h] \in 1 .. L /\ at[h] \in Nat
      <4>1. at[h] \in 1 .. L
        BY <1>6, <3>4
      <4>2. at[k] < at[h]
        BY <1>11, <3>1, <3>4
      <4> QED
        BY <1>2, <3>2, <4>1, <4>2
    <3>6. c + 1 \in 1 .. L
      BY <1>2, <3>3, <3>5
    <3>7. PICK g \in In : at[g] = c + 1
      BY <1>12, <3>6
    <3>8. g \in Nat
      BY <1>1, <1>10
    <3>9. ~ (g < k) /\ g # k
      <4>1. ~ (c + 1 < c) /\ c + 1 # c
        BY <3>3
      <4> QED
        BY <1>11, <3>2, <3>4, <3>7, <4>1
    <3>10. ~ (h < g)
      <4>1. ~ (at[h] < c + 1)
        BY <3>3, <3>5
      <4> QED
        BY <1>11, <3>4, <3>7, <4>1
    <3>11. g = h
      BY <3>3, <3>8, <3>9, <3>10
    <3>12. 1 + (j + 1) = c + 1
      BY DEF c
    <3> QED
      BY <3>7, <3>11, <3>12 DEF h
  <2> HIDE DEF T
  <2> QED
    BY <2>1, <2>2, AllNumbers
<1>18. b = a + (M + 1) /\ b - 1 = a + M
  <2>1. b - a \in Nat /\ a + (b - a) = b /\ a + (b - a) <= b
    BY <1>15
  <2>2. at[b] = 1 + (b - a)
    BY <1>17, <2>1
  <2> QED
    BY <1>2, <1>14, <1>15, <2>2
<1>19. ASSUME NEW j \in 1 .. M
       PROVE  /\ a + j \in 1 .. N /\ t[a + j] = e[j] /\ t[a + j] # FLAG
  <2> DEFINE h == a + j
  <2>1. j \in Nat /\ h <= b /\ h \in 1 .. N /\ a <= h /\ j + 1 = 1 + j
    BY <1>1, <1>2, <1>15, <1>18
  <2>2. at[h] = j + 1
    BY <1>17, <2>1
  <2> HIDE DEF h
  <2>3. t[h] = x[j + 1]
    BY <1>6, <1>16, <2>1, <2>2
  <2>4. x[j + 1] = e[j]
    BY <1>2
  <2>5. e[j] # FLAG
    <3>1. e[j] \in Byte \ {FLAG}
      BY <1>2, ElementOfSeq DEF M
    <3> QED
      BY <3>1
  <2> QED
    BY <2>1, <2>3, <2>4, <2>5 DEF h
<1>20. SubSeq(t, a + 1, b - 1) = e
  <2> DEFINE w == SubSeq(t, a + 1, b - 1)
             c == a + 1
             d == b - 1
  <2>1. c \in Nat \ {0} /\ d \in Nat /\ d <= N /\ c <= d + 1 /\ (d - c) + 1 = M /\ c - 1 = a
    BY <1>1, <1>2, <1>15, <1>18
  <2>2. w \in Seq(Byte) /\ IsCut(w, t, c, d)
    BY <1>4, <2>1, Cut
  <2> HIDE DEF w, c, d
  <2>3. Len(w) = (d - c) + 1 /\ \A j \in 1 .. (d - c) + 1 : w[j] = t[(c - 1) + j]
    BY <2>2 DEF IsCut
  <2>4. Len(w) = M /\ \A j \in 1 .. M : w[j] = t[a + j]
    BY ONLY <2>1, <2>3, Zenon
  <2>5. w = e
    <3>1. Len(w) = Len(e) /\ \A j \in 1 .. Len(w) : w[j] = e[j]
      BY <1>19, <2>4 DEF M
    <3> QED
      BY ONLY <1>2, <2>2, <3>1, SeqEqual
  <2> QED
    BY <2>5 DEF w
<1>21. e \in Pieces(t)
  <2> DEFINE flags == {j \in DOMAIN t : t[j] = FLAG}
  <2>1. DOMAIN t = 1 .. N
    BY <1>4
  <2>2. a \in flags /\ b \in flags
    BY <1>15, <2>1
  <2>3. \A k \in flags : ~ (a < k /\ k < b)
    <3> SUFFICES ASSUME NEW k \in 1 .. N, t[k] = FLAG, a < k, k < b
                 PROVE  FALSE
      BY <2>1
    <3> DEFINE j == k - a
    <3>1. j \in 1 .. M /\ a + j = k
      BY <1>1, <1>2, <1>15, <1>18
    <3> HIDE DEF j
    <3> QED
      BY <1>19, <3>1
  <2> DEFINE ij == <<a, b>>
  <2>4. /\ ij \in ({0} \cup flags) \X flags /\ ij[1] = a /\ ij[2] = b
        /\ ij[1] < ij[2] /\ \A k \in flags : ~ (ij[1] < k /\ k < ij[2])
    BY <1>15, <2>2, <2>3
  <2>5. e = SubSeq(t, ij[1] + 1, ij[2] - 1)
    BY <1>20
  <2> HIDE DEF ij
  <2>6. e \in {SubSeq(t, p[1] + 1, p[2] - 1) : p \in
                {p \in ({0} \cup flags) \X flags :
                    p[1] < p[2] /\ \A k \in flags : ~ (p[1] < k /\ k < p[2])}}
    <3> HIDE DEF flags
    <3> QED
      BY <2>4, <2>5
  <2> QED
    BY <2>6 DEF Pieces
<1>22. Open(Unescape(e)) = m /\ m # NoMessage
  BY <1>1, <1>2, OpenInside
<1>23. m \in Found(t)
  BY <1>21, <1>22 DEF Found
<1> QED
  BY <1>23 DEF m, t

-----------------------------------------------------------------------------
(* The inductive invariant *)

Plain ==
  /\ DevSeqId \in Byte /\ platSeq \in Byte /\ numbered \in Byte
  /\ DevMsgId \in Byte /\ timeout_en \in BOOLEAN /\ timeout_data \in Reports \cup {<<>>}
  /\ down \in Seq(Byte) /\ acks \subseteq Byte /\ said \subseteq Messages

(* What the stream and the ring hold was sent, and what the platform could   *)
(* find in its stream it has found.                                          *)
Carried ==
  /\ tx \in Seq(Piece) /\ stream \in Seq(Piece)
  /\ sent \in Seq(Messages) /\ got \subseteq Messages
  /\ Len(tx) <= RingMax /\ (~ rough => tx = <<>>)
  /\ InOrder(stream \o tx, sent)
  /\ Found(Bytes(stream)) \subseteq got

IInv == Plain /\ Carried

LEMMA NothingFound ==
  /\ <<>> \in Seq(Piece) /\ Len(<<>>) = 0 /\ <<>> \o <<>> = <<>>
  /\ Found(Bytes(<<>>)) = {}
  /\ \A fr : InOrder(<<>>, fr)
<1>1. <<>> \in Seq(Piece) /\ Len(<<>>) = 0
  OBVIOUS
<1>2. <<>> \o <<>> = <<>>
  BY <1>1, ConcatEmptySeq
<1>3. DOMAIN Bytes(<<>>) = {}
  <2>1. DOMAIN <<>> = {}
    BY <1>1
  <2> QED
    BY <2>1 DEF Bytes
<1>4. Pieces(Bytes(<<>>)) = {}
  BY <1>3 DEF Pieces
<1>5. ASSUME NEW fr
      PROVE  InOrder(<<>>, fr)
  <2> DEFINE e == <<>>
             at == [k \in 1 .. Len(e) |-> 0]
  <2>1. Len(e) = 0 /\ 1 .. Len(e) = {} /\ at \in [1 .. Len(e) -> Nat]
    BY <1>1
  <2> HIDE DEF e, at
  <2>2. InPlace(e, fr, at) /\ Ordered(e, at)
    BY <2>1, Zenon DEF InPlace, Ordered
  <2>3. InOrder(e, fr)
    BY <2>1, <2>2 DEF InOrder
  <2> QED
    BY <2>3 DEF e
<1> QED
  BY <1>1, <1>2, <1>4, <1>5 DEF Found

LEMMA InitCarried == Init => IInv
<1> SUFFICES ASSUME Init
             PROVE  Plain /\ Carried
  BY DEF IInv
<1>1. 0 \in Byte /\ <<>> \in Seq(Byte) /\ <<>> \in Seq(Messages)
  BY XorFacts
<1>2. Plain
  BY <1>1, ExchangeAssumption DEF Init, Plain
<1>3. Carried
  <2>1. 0 <= RingMax
    BY ExchangeAssumption
  <2> QED
    BY <1>1, <2>1, NothingFound DEF Init, Carried
<1> QED
  BY <1>2, <1>3

LEMMA SentKept ==
  ASSUME NEW bytes \in Seq(Piece), stream \in Seq(Piece), got \subseteq Messages, Sent(bytes)
  PROVE  /\ stream' \in Seq(Piece) /\ stream' = stream \o bytes
         /\ got' \subseteq Messages /\ Found(Bytes(stream')) \subseteq got'
<1>1. stream' = stream \o bytes /\ got' = got \cup Found(Bytes(stream'))
  BY DEF Sent
<1>2. stream' \in Seq(Piece)
  BY <1>1, Joined
<1>3. Found(Bytes(stream')) \subseteq Messages
  BY <1>2, BytesAre, FoundGives
<1> QED
  BY <1>1, <1>2, <1>3

(* The ring drops the oldest bytes. *)
LEMMA RingDrops ==
  ASSUME NEW b \in Seq(Piece)
  PROVE  /\ Ring(b) \in Seq(Piece) /\ Len(Ring(b)) <= RingMax
         /\ \E c \in Nat : c <= Len(b) /\ Ring(b) = SubSeq(b, c + 1, Len(b))
<1> DEFINE n == Len(b)
<1>1. n \in Nat /\ RingMax \in Nat
  BY ExchangeAssumption
<1>2. CASE n <= RingMax
  <2>1. Ring(b) = b
    BY <1>2 DEF Ring
  <2>2. 0 \in Nat /\ 0 <= n /\ b = SubSeq(b, 0 + 1, n)
    <3>1. b = SubSeq(b, 1, n)
      BY SubSeqFull
    <3> QED
      BY <1>1, <3>1
  <2> QED
    BY <1>2, <2>1, <2>2
<1>3. CASE ~ (n <= RingMax)
  <2> DEFINE c == n - RingMax
             w == SubSeq(b, c + 1, n)
  <2>1. Ring(b) = SubSeq(b, n - RingMax + 1, n)
    BY <1>3 DEF Ring
  <2>2. c \in Nat /\ c <= n /\ c + 1 \in Nat \ {0} /\ c + 1 <= n + 1 /\ (n - (c + 1)) + 1 = RingMax
    BY <1>1, <1>3
  <2>3. w \in Seq(Piece) /\ IsCut(w, b, c + 1, n)
    BY <1>1, <2>2, Cut
  <2> HIDE DEF w
  <2>4. Len(w) = (n - (c + 1)) + 1
    BY <2>3 DEF IsCut
  <2>5. Ring(b) = w
    BY <2>1 DEF w
  <2> HIDE DEF c, n
  <2>6. Len(w) <= RingMax
    BY <1>1, <2>2, <2>4
  <2> QED
    BY <2>2, <2>3, <2>5, <2>6 DEF w, n
<1> QED
  BY <1>2, <1>3

-----------------------------------------------------------------------------
(* What steps do to the uplink *)

LEMMA FrameCarried ==
  ASSUME Carried, DevSeqId \in Byte, rough' = rough,
         NEW id \in Byte, NEW body \in Seq(Byte), escape_copy_to_send(id, body)
  PROVE  Carried' /\ DevSeqId' \in Byte
<1> DEFINE msg == Message(id, DevSeqId, body)
           bytes == OfFrame(msg, Len(sent) + 1)
<1>1. msg \in Messages
  BY DEF Message, Messages
<1>2. /\ sent' = Append(sent, msg) /\ DevSeqId' = Next3(DevSeqId)
      /\ IF rough THEN tx' = Ring(tx \o bytes) /\ UNCHANGED uplink
                  ELSE Sent(bytes) /\ UNCHANGED tx
  BY Zenon DEF escape_copy_to_send, OfFrame
<1>3. /\ tx \in Seq(Piece) /\ stream \in Seq(Piece) /\ sent \in Seq(Messages) /\ got \subseteq Messages
      /\ Len(tx) <= RingMax /\ (~ rough => tx = <<>>)
      /\ InOrder(stream \o tx, sent) /\ Found(Bytes(stream)) \subseteq got
  BY DEF Carried
<1> HIDE DEF msg
<1>4. bytes \in Seq(Piece)
  <2>1. Len(sent) + 1 \in Nat
    BY <1>3
  <2> QED
    BY <1>1, <2>1, FrameBytes
<1>5. stream \o tx \in Seq(Piece)
  BY <1>3, Joined
<1>6. InOrder((stream \o tx) \o bytes, sent')
  BY <1>1, <1>2, <1>3, <1>5, FrameInOrder
<1> HIDE DEF bytes
<1>7. (stream \o tx) \o bytes = stream \o (tx \o bytes) /\ tx \o bytes \in Seq(Piece)
  <2>1. stream \in Seq(Piece) /\ tx \in Seq(Piece)
    BY <1>3
  <2>2. (stream \o tx) \o bytes = stream \o (tx \o bytes)
    BY ONLY <1>4, <2>1, ConcatAssociative, SMTT(30)
  <2>3. tx \o bytes \in Seq(Piece)
    BY ONLY <1>4, <2>1, Joined, Zenon
  <2> QED
    BY <2>2, <2>3
<1>8. sent' \in Seq(Messages)
  BY <1>1, <1>2, <1>3, AppendProperties
<1>9. DevSeqId' \in Byte
  BY <1>2 DEF Next3, Byte
<1>10. CASE rough
  <2>1. tx' = Ring(tx \o bytes) /\ stream' = stream /\ got' = got
    BY <1>2, <1>10 DEF uplink
  <2>2. tx' \in Seq(Piece) /\ Len(tx') <= RingMax
    BY <1>7, <2>1, RingDrops
  <2>3. InOrder(stream \o Ring(tx \o bytes), sent')
    <3> DEFINE b == tx \o bytes
    <3>1. b \in Seq(Piece) /\ InOrder(stream \o b, sent')
      BY <1>6, <1>7
    <3> HIDE DEF b
    <3>2. PICK c \in Nat : c <= Len(b) /\ Ring(b) = SubSeq(b, c + 1, Len(b))
      BY <3>1, RingDrops
    <3>3. InOrder(stream \o SubSeq(b, c + 1, Len(b)), sent')
      BY <1>3, <3>1, <3>2, CutOutInOrder
    <3>4. InOrder(stream \o Ring(b), sent')
      BY <3>2, <3>3
    <3> QED
      BY <3>4 DEF b
  <2>4. Found(Bytes(stream')) \subseteq got'
    BY <1>3, <2>1
  <2>5. InOrder(stream' \o tx', sent')
    BY <2>1, <2>3
  <2> QED
    BY <1>3, <1>8, <1>9, <1>10, <2>1, <2>2, <2>4, <2>5 DEF Carried
<1>11. CASE ~ rough
  <2>1. Sent(bytes) /\ tx' = <<>> /\ tx = <<>>
    BY <1>2, <1>3, <1>11
  <2>2. /\ stream' \in Seq(Piece) /\ stream' = stream \o bytes
        /\ got' \subseteq Messages /\ Found(Bytes(stream')) \subseteq got'
    BY <1>3, <1>4, <2>1, SentKept
  <2>3. tx \o bytes = bytes /\ stream' \o tx' = stream'
    BY <1>4, <2>1, <2>2, ConcatEmptySeq
  <2>4. InOrder(stream' \o tx', sent')
    BY <1>6, <1>7, <2>2, <2>3
  <2>5. tx' \in Seq(Piece) /\ Len(tx') <= RingMax
    BY <1>3, <2>1
  <2> QED
    BY <1>8, <1>9, <1>11, <2>1, <2>2, <2>4, <2>5 DEF Carried
<1> QED
  BY <1>10, <1>11

LEMMA SendCarried ==
  ASSUME Carried, NEW ok \in BOOLEAN, oa_soc_send_req(ok)
  PROVE  Carried'
<1> DEFINE n == Least(SendMax, Len(tx))
           N == Len(tx)
           a == SubSeq(tx, 1, n)
           z == SubSeq(tx, n + 1, N)
<1>1. /\ tx \in Seq(Piece) /\ stream \in Seq(Piece) /\ sent \in Seq(Messages) /\ got \subseteq Messages
      /\ Len(tx) <= RingMax /\ InOrder(stream \o tx, sent)
  BY DEF Carried
<1>2. /\ rough /\ rough' = rough /\ sent' = sent /\ tx' = z
      /\ Sent(IF ok THEN a ELSE <<>>)
  BY DEF oa_soc_send_req, device
<1>3. N \in Nat /\ n \in Nat /\ n <= N
  BY <1>1, ExchangeAssumption DEF Least
<1> HIDE DEF n
<1>4. a \in Seq(Piece)
  <2>1. 1 \in Nat \ {0} /\ 1 <= n + 1
    BY <1>3
  <2> QED
    BY <1>1, <1>3, <2>1, Cut
<1>5. z \in Seq(Piece) /\ IsCut(z, tx, n + 1, N)
  <2>1. n + 1 \in Nat \ {0} /\ n + 1 <= N + 1
    BY <1>3
  <2> QED
    BY <1>1, <1>3, <2>1, Cut
<1>6. Len(z) <= RingMax
  <2> HIDE DEF z
  <2>1. Len(z) = (N - (n + 1)) + 1
    BY <1>5 DEF IsCut
  <2>2. N <= RingMax /\ RingMax \in Nat
    BY <1>1, ExchangeAssumption
  <2> HIDE DEF N
  <2> QED
    BY <1>3, <2>1, <2>2
<1>7. a \o z = tx
  <2>1. 1 \in 1 .. N + 1 /\ n \in (1 - 1) .. N /\ N \in n .. N
    BY <1>3
  <2>2. SubSeq(tx, 1, n) \o SubSeq(tx, n + 1, N) = SubSeq(tx, 1, N)
    BY <1>1, <2>1, ConcatAdjacentSubSeq
  <2> QED
    BY <1>1, <2>2, SubSeqFull
<1>8. InOrder(stream \o z, sent)
  BY <1>1, <1>3, CutOutInOrder
<1> HIDE DEF a, z, N
<1> DEFINE bytes == IF ok THEN a ELSE <<>>
<1>9. bytes \in Seq(Piece)
  BY <1>4, NothingFound
<1>10. /\ stream' \in Seq(Piece) /\ stream' = stream \o bytes
       /\ got' \subseteq Messages /\ Found(Bytes(stream')) \subseteq got'
  <2>1. Sent(bytes)
    BY <1>2
  <2> HIDE DEF bytes
  <2> QED
    BY <1>1, <1>9, <2>1, SentKept
<1>11. InOrder(stream' \o tx', sent')
  <2>1. CASE ok
    <3>1. (stream \o a) \o z = stream \o (a \o z)
      <4>1. stream \in Seq(Piece)
        BY <1>1
      <4>2. z \in Seq(Piece)
        BY <1>5
      <4> QED
        BY ONLY <1>4, <4>1, <4>2, ConcatAssociative, SMTT(30)
    <3>2. stream' \o tx' = stream \o tx
      BY <1>2, <1>7, <1>10, <2>1, <3>1
    <3> QED
      BY <1>1, <1>2, <3>2
  <2>2. CASE ~ ok
    <3>1. stream' = stream
      BY <1>1, <1>10, <2>2, ConcatEmptySeq
    <3> QED
      BY <1>2, <1>8, <3>1
  <2> QED
    BY <2>1, <2>2
<1>12. tx' \in Seq(Piece) /\ Len(tx') <= RingMax /\ sent' \in Seq(Messages) /\ rough'
  BY <1>1, <1>2, <1>5, <1>6
<1> QED
  BY <1>10, <1>11, <1>12 DEF Carried

LEMMA ReconnectCarried ==
  ASSUME Carried, Reconnect
  PROVE  Carried'
<1>1. /\ tx \in Seq(Piece) /\ stream \in Seq(Piece) /\ sent \in Seq(Messages) /\ got \subseteq Messages
      /\ Len(tx) <= RingMax /\ InOrder(stream \o tx, sent)
  BY DEF Carried
<1>2. rough /\ rough' = rough /\ sent' = sent /\ tx' = tx /\ got' = got /\ stream' = <<>>
  BY DEF Reconnect, device
<1>3. InOrder(tx, sent)
  <2> DEFINE b == stream \o tx
             c == Len(stream)
             e == <<>>
  <2>1. b \in Seq(Piece) /\ IsJoin(b, stream, tx) /\ e \in Seq(Piece) /\ e \o b = b
    BY <1>1, Joined, NothingFound, ConcatEmptySeq
  <2>2. c \in Nat /\ Len(b) = c + Len(tx) /\ Len(tx) \in Nat
        /\ \A i \in 1 .. Len(tx) : b[c + i] = tx[i]
    BY <2>1 DEF IsJoin
  <2> HIDE DEF e
  <2>3. InOrder(e \o b, sent)
    BY <1>1, <2>1
  <2>4. c <= Len(b)
    BY <2>2
  <2> DEFINE z == SubSeq(b, c + 1, Len(b))
  <2>5. InOrder(e \o z, sent)
    BY <2>1, <2>2, <2>3, <2>4, CutOutInOrder
  <2>6. c + 1 \in Nat \ {0} /\ Len(b) \in Nat /\ c + 1 <= Len(b) + 1
    BY <2>2, <2>4
  <2> HIDE DEF b, c
  <2>7. z \in Seq(Piece) /\ IsCut(z, b, c + 1, Len(b))
    <3> DEFINE f == c + 1
               l == Len(b)
    <3>1. b \in Seq(Piece) /\ f \in Nat \ {0} /\ l \in Nat /\ l <= Len(b) /\ f <= l + 1
      BY <2>1, <2>6
    <3> HIDE DEF f, l
    <3>2. SubSeq(b, f, l) \in Seq(Piece) /\ IsCut(SubSeq(b, f, l), b, f, l)
      BY ONLY <3>1, Cut
    <3> QED
      BY <3>2 DEF f, l
  <2> DEFINE N == Len(b)
             n == Len(tx)
  <2>8. (N - (c + 1)) + 1 = n /\ (c + 1) - 1 = c
    BY <2>2
  <2> HIDE DEF z, N, n
  <2>9. Len(z) = (N - (c + 1)) + 1 /\ \A i \in 1 .. (N - (c + 1)) + 1 : z[i] = b[((c + 1) - 1) + i]
    BY <2>7 DEF IsCut, N
  <2>10. Len(z) = n /\ \A i \in 1 .. n : z[i] = b[c + i]
    BY ONLY <2>8, <2>9, Zenon
  <2>11. z = tx
    BY <1>1, <2>2, <2>7, <2>10, SeqEqual DEF n
  <2>12. e \o z = z
    BY <2>7, ConcatEmptySeq DEF e
  <2> QED
    BY <2>5, <2>11, <2>12
<1>4. stream' \o tx' = tx
  BY <1>1, <1>2, ConcatEmptySeq
<1>5. Found(Bytes(stream')) \subseteq got'
  BY <1>2, NothingFound
<1>6. stream' \in Seq(Piece)
  BY <1>2, NothingFound
<1> QED
  BY <1>1, <1>2, <1>3, <1>4, <1>5, <1>6 DEF Carried

LEMMA IdleCarried ==
  ASSUME Carried, UNCHANGED <<tx, stream, sent, got, rough>>
  PROVE  Carried'
BY DEF Carried

-----------------------------------------------------------------------------
(* Every step keeps the invariant *)

LEMMA BytesOf ==
  /\ \A x, y, z \in Byte : <<x, y, z>> \in Seq(Byte)
  /\ \A x \in Byte : <<x>> \in Seq(Byte)
  /\ <<>> \in Seq(Byte)
OBVIOUS

LEMMA Names ==
  /\ {DEV_COMMON_rsp, HEART_BEAT, REGISTERS, GET_LOCATION_rsp, REPORT_LOCATION} \subseteq Byte
  /\ {PLAT_COMMON_rsp, REGISTERS_rsp} \subseteq Byte /\ {0, 1, 3, 7} \subseteq Byte
BY DEF DEV_COMMON_rsp, HEART_BEAT, REGISTERS, GET_LOCATION_rsp, REPORT_LOCATION,
       PLAT_COMMON_rsp, REGISTERS_rsp, Byte

LEMMA BodyGives ==
  ASSUME NEW id, NEW told \in Seq(Byte), NEW request, NEW status \in Byte,
         id \in {DEV_COMMON_rsp, GET_LOCATION_rsp} => request.seq \in Byte /\ request.id \in Byte
  PROVE  BuildMsgbody(id, told, request, status) \in Seq(Byte)
<1> DEFINE s == request.seq
           r == request.id
<1>1. CASE id = DEV_COMMON_rsp
  <2>1. <<s, r, status>> \in Seq(Byte)
    BY <1>1, BytesOf
  <2> QED
    BY <1>1, <2>1 DEF BuildMsgbody
<1>2. CASE id = GET_LOCATION_rsp
  <2>1. <<s>> \in Seq(Byte)
    BY <1>2, BytesOf
  <2>2. GET_LOCATION_rsp # DEV_COMMON_rsp
    BY DEF GET_LOCATION_rsp, DEV_COMMON_rsp
  <2> QED
    BY <1>2, <2>1, <2>2 DEF BuildMsgbody
<1>3. CASE id = HEART_BEAT
  <2>1. HEART_BEAT # DEV_COMMON_rsp /\ HEART_BEAT # GET_LOCATION_rsp
    BY DEF GET_LOCATION_rsp, DEV_COMMON_rsp, HEART_BEAT
  <2> QED
    BY <1>3, <2>1, BytesOf DEF BuildMsgbody
<1>4. CASE id \notin {DEV_COMMON_rsp, GET_LOCATION_rsp, HEART_BEAT}
  BY <1>4 DEF BuildMsgbody
<1> QED
  BY <1>1, <1>2, <1>3, <1>4

LEMMA RequestKept ==
  ASSUME IInv, NEW id \in {REGISTERS, REPORT_LOCATION}, NEW body \in Reports \cup {<<>>},
         DevReq2ServPackag_build(id, body)
  PROVE  IInv'
<1>1. body \in Seq(Byte) /\ id \in Byte
  BY Names, BytesOf, ExchangeAssumption
<1>2. id \notin {DEV_COMMON_rsp, GET_LOCATION_rsp} /\ 0 \in Byte
  BY Names DEF DEV_COMMON_rsp, GET_LOCATION_rsp, REGISTERS, REPORT_LOCATION
<1> DEFINE b == BuildMsgbody(id, body, NoMessage, 0)
<1>3. b \in Seq(Byte)
  BY <1>1, <1>2, BodyGives
<1> HIDE DEF b
<1>4. /\ escape_copy_to_send(id, b)
      /\ timeout_en' = TRUE /\ DevMsgId' = id /\ timeout_data' = body /\ numbered' = DevSeqId
      /\ UNCHANGED platform /\ acks' = acks /\ rough' = rough
  BY DEF DevReq2ServPackag_build, b
<1>5. Carried' /\ DevSeqId' \in Byte
  BY <1>1, <1>3, <1>4, FrameCarried DEF IInv, Plain
<1>6. Plain'
  BY <1>1, <1>4, <1>5 DEF IInv, Plain, platform
<1> QED
  BY <1>5, <1>6 DEF IInv

LEMMA HeartbeatKept ==
  ASSUME IInv, Heartbeat
  PROVE  IInv'
<1>1. HEART_BEAT \in Byte /\ HEART_BEAT \notin {DEV_COMMON_rsp, GET_LOCATION_rsp} /\ 0 \in Byte
  BY Names DEF DEV_COMMON_rsp, GET_LOCATION_rsp, HEART_BEAT
<1> DEFINE b == BuildMsgbody(HEART_BEAT, <<>>, NoMessage, 0)
<1>2. b \in Seq(Byte)
  BY <1>1, BodyGives, BytesOf
<1> HIDE DEF b
<1>3. /\ escape_copy_to_send(HEART_BEAT, b)
      /\ UNCHANGED <<DevMsgId, timeout_en, timeout_data, numbered, platform, acks, rough>>
  BY DEF Heartbeat, b
<1>4. Carried' /\ DevSeqId' \in Byte
  BY <1>1, <1>2, <1>3, FrameCarried DEF IInv, Plain
<1>5. Plain'
  BY <1>3, <1>4 DEF IInv, Plain, platform
<1> QED
  BY <1>4, <1>5 DEF IInv

LEMMA SendAgainKept ==
  ASSUME IInv, SendAgain
  PROVE  IInv'
<1>1. /\ escape_copy_to_send(DevMsgId, timeout_data) /\ numbered' = DevSeqId
      /\ UNCHANGED <<DevMsgId, timeout_en, timeout_data, platform, acks, rough>>
  BY DEF SendAgain
<1>2. DevMsgId \in Byte /\ timeout_data \in Seq(Byte) /\ DevSeqId \in Byte
  BY BytesOf, ExchangeAssumption DEF IInv, Plain
<1>3. Carried' /\ DevSeqId' \in Byte
  BY <1>1, <1>2, FrameCarried DEF IInv
<1>4. Plain'
  BY <1>1, <1>2, <1>3 DEF IInv, Plain, platform
<1> QED
  BY <1>3, <1>4 DEF IInv

LEMMA SayKept ==
  ASSUME IInv, NEW id \in Byte, NEW body \in Seq(Byte), Say(id, body)
  PROVE  IInv'
<1> DEFINE msg == Message(id, platSeq, body)
<1>1. /\ said' = said \cup {msg} /\ down' = down \o Seal(msg) /\ platSeq' = Next3(platSeq)
      /\ UNCHANGED <<device, tx, uplink, acks, rough>>
  BY DEF Say
<1>2. msg \in Messages
  BY DEF IInv, Plain, Message, Messages
<1> HIDE DEF msg
<1>3. Seal(msg) \in Seq(Byte)
  BY <1>2, SealFacts
<1>4. down' \in Seq(Byte) /\ said' \subseteq Messages
  BY <1>1, <1>2, <1>3, Joined DEF IInv, Plain
<1>5. platSeq' \in Byte
  <2>1. platSeq \in Byte
    BY DEF IInv, Plain
  <2> QED
    BY <1>1, <2>1 DEF Next3, Byte
<1>6. Plain'
  BY <1>1, <1>4, <1>5 DEF IInv, Plain, device
<1>7. Carried'
  BY <1>1, IdleCarried DEF IInv, device, uplink
<1> QED
  BY <1>6, <1>7 DEF IInv

LEMMA AcknowledgeKept ==
  ASSUME IInv, NEW msg \in got, Acknowledge(msg)
  PROVE  IInv'
<1>1. msg \in Messages
  BY DEF IInv, Carried
<1>2. msg.id \in Byte /\ msg.seq \in Byte
  BY <1>1 DEF Messages
<1>3. AckId(msg) \in Byte
  BY Names DEF AckId
<1>4. AckBody(msg) \in Seq(Byte)
  BY <1>2, Names, BytesOf DEF AckBody
<1>5. Say(AckId(msg), AckBody(msg))
  BY DEF Acknowledge
<1> QED
  BY <1>3, <1>4, <1>5, SayKept

LEMMA ReadKept ==
  ASSUME IInv, NEW n \in DOMAIN down, JT808_recv_analysis(n)
  PROVE  IInv'
<1> DEFINE data == SubSeq(down, 1, n)
           msg == FrameOf(data)
           rest == SubSeq(down, n + 1, Len(down))
<1>1. down \in Seq(Byte) /\ Len(down) \in Nat /\ n \in 1 .. Len(down) /\ n \in Nat
  BY DEF IInv, Plain
<1>2. data \in Seq(Byte) /\ rest \in Seq(Byte)
  <2>1. 1 \in Nat \ {0} /\ 1 <= n + 1 /\ n <= Len(down) /\ n + 1 \in Nat \ {0} /\ n + 1 <= Len(down) + 1
    BY <1>1
  <2> QED
    BY <1>1, <2>1, Cut
<1>3. msg \in Messages \cup {NoMessage}
  BY <1>2, FrameGives
<1>4. /\ down' = rest
      /\ CASE msg = NoMessage -> UNCHANGED <<timeout_en, acks, DevSeqId, sent, tx, uplink>>
           [] msg.id = REGISTERS_rsp -> REGISTERED(msg)
           [] msg.id = PLAT_COMMON_rsp -> PLAT_COMMON(msg)
           [] OTHER -> JT808_ServReq_handle(msg)
      /\ UNCHANGED <<DevMsgId, timeout_data, numbered, platSeq, said, conns, rough>>
  BY Zenon DEF JT808_recv_analysis
<1> HIDE DEF msg, rest, data
<1>5. ASSUME msg \in Messages
      PROVE  /\ msg.id \in Byte /\ msg.seq \in Byte
             /\ \A i \in {1, 2} : Told(msg.body, i) \subseteq Byte
  <2>1. msg.id \in Byte /\ msg.seq \in Byte /\ msg.body \in Seq(Byte)
    BY <1>5 DEF Messages
  <2>2. ASSUME NEW i \in {1, 2}
        PROVE  Told(msg.body, i) \subseteq Byte
    <3> DEFINE b == msg.body
    <3>1. b \in Seq(Byte) /\ Len(b) \in Nat /\ i \in Nat /\ 1 <= i
      BY <2>1
    <3> HIDE DEF b
    <3>2. CASE i <= Len(b)
      <4>1. i \in 1 .. Len(b)
        BY <3>1, <3>2
      <4>2. b[i] \in Byte
        BY <3>1, <4>1, ElementOfSeq
      <4> QED
        BY <3>2, <4>2 DEF Told, b
    <3>3. CASE ~ (i <= Len(b))
      BY <3>3 DEF Told, b
    <3> QED
      BY <3>2, <3>3
  <2> QED
    BY <2>1, <2>2
<1>6. CASE UNCHANGED <<timeout_en, acks, DevSeqId, sent, tx, uplink>>
  <2>1. Carried'
    BY <1>4, <1>6, IdleCarried DEF IInv, uplink
  <2>2. Plain'
    BY <1>2, <1>4, <1>6 DEF IInv, Plain
  <2> QED
    BY <2>1, <2>2 DEF IInv
<1>7. ASSUME UNCHANGED <<DevSeqId, sent, tx, uplink>>, timeout_en' \in BOOLEAN, acks' \subseteq Byte
      PROVE  IInv'
  <2>1. Carried'
    BY <1>4, <1>7, IdleCarried DEF IInv, uplink
  <2>2. Plain'
    BY <1>2, <1>4, <1>7 DEF IInv, Plain
  <2> QED
    BY <2>1, <2>2 DEF IInv
<1>8. CASE msg \in Messages /\ REGISTERED(msg)
  <2>1. PICK seq \in Told(msg.body, 1) :
          /\ timeout_en' = (timeout_en /\ ~ AwaitedNumber(seq)) /\ acks' = acks \cup {seq}
    BY <1>8, Zenon DEF REGISTERED
  <2>2. seq \in Byte
    BY <1>5, <1>8
  <2>3. timeout_en' \in BOOLEAN
    BY <2>1, Zenon
  <2>4. acks' \subseteq Byte
    BY <2>1, <2>2 DEF IInv, Plain
  <2>5. UNCHANGED <<DevSeqId, sent, tx, uplink>>
    BY <1>8 DEF REGISTERED
  <2> QED
    BY <1>7, <2>3, <2>4, <2>5
<1>9. CASE msg \in Messages /\ PLAT_COMMON(msg)
  <2>1. PICK seq \in Told(msg.body, 1), id \in Told(msg.body, 2) :
          /\ timeout_en' = (timeout_en /\ ~ (AwaitedNumber(seq) /\ id = DevMsgId))
          /\ acks' = acks \cup {seq}
    BY <1>9, Zenon DEF PLAT_COMMON
  <2>2. seq \in Byte
    BY <1>5, <1>9
  <2>3. timeout_en' \in BOOLEAN
    BY <2>1, Zenon
  <2>4. acks' \subseteq Byte
    BY <2>1, <2>2 DEF IInv, Plain
  <2>5. UNCHANGED <<DevSeqId, sent, tx, uplink>>
    BY <1>9 DEF PLAT_COMMON
  <2> QED
    BY <1>7, <2>3, <2>4, <2>5
<1>10. CASE msg \in Messages /\ JT808_ServReq_handle(msg)
  <2> DEFINE id == IF msg.id = GET_LOCATION THEN GET_LOCATION_rsp ELSE DEV_COMMON_rsp
             b == BuildMsgbody(id, <<>>, msg, Status(msg))
  <2>1. id \in Byte
    BY Names
  <2>2. Status(msg) \in Byte
    BY Names DEF Status
  <2> HIDE DEF id
  <2>3. b \in Seq(Byte)
    BY <1>5, <1>10, <2>2, BodyGives, BytesOf
  <2> HIDE DEF b
  <2>4. escape_copy_to_send(id, b) /\ UNCHANGED <<timeout_en, acks>>
    BY <1>10 DEF JT808_ServReq_handle, JT808MsgRsp_Send, id, b
  <2>5. Carried' /\ DevSeqId' \in Byte
    BY <1>4, <2>1, <2>3, <2>4, FrameCarried DEF IInv, Plain
  <2>6. Plain'
    BY <1>2, <1>4, <2>4, <2>5 DEF IInv, Plain
  <2> QED
    BY <2>5, <2>6 DEF IInv
<1> QED
  <2>1. CASE msg = NoMessage
    <3>1. ~ (msg.id = REGISTERS_rsp) /\ ~ (msg.id = PLAT_COMMON_rsp)
      BY <2>1 DEF NoMessage, REGISTERS_rsp, PLAT_COMMON_rsp
    <3>2. UNCHANGED <<timeout_en, acks, DevSeqId, sent, tx, uplink>>
      BY <1>4, <2>1, <3>1, Zenon
    <3> QED
      BY ONLY <1>6, <3>2, Zenon
  <2>2. CASE msg # NoMessage
    BY <1>3, <1>4, <1>8, <1>9, <1>10, <2>2, Zenon
  <2> QED
    BY <2>1, <2>2

LEMMA StepKept == IInv /\ [Next]_vars => IInv'
<1> SUFFICES ASSUME IInv, [Next]_vars
             PROVE  IInv'
  OBVIOUS
<1>1. CASE UNCHANGED vars
  <2>1. Carried'
    BY <1>1, IdleCarried DEF IInv, vars, device, uplink
  <2> QED
    BY <1>1, <2>1 DEF IInv, Plain, vars, device, platform
<1>2. ASSUME NEW n \in DOMAIN down, JT808_recv_analysis(n)
      PROVE  IInv'
  BY <1>2, ReadKept
<1>3. CASE Others
  <2>1. CASE DevReq2ServPackag_build(REGISTERS, <<>>)
    BY <2>1, RequestKept
  <2>2. ASSUME NEW body \in Reports, DevReq2ServPackag_build(REPORT_LOCATION, body)
        PROVE  IInv'
    BY <2>2, RequestKept
  <2>3. CASE Heartbeat
    BY <2>3, HeartbeatKept
  <2>4. CASE SendAgain
    BY <2>4, SendAgainKept
  <2>5. CASE GiveUp
    <3>1. Carried'
      BY <2>5, IdleCarried DEF IInv, GiveUp, uplink
    <3> QED
      BY <2>5, <3>1 DEF IInv, Plain, GiveUp, platform
  <2>6. ASSUME NEW ok \in BOOLEAN, oa_soc_send_req(ok)
        PROVE  IInv'
    <3>1. Carried'
      BY <2>6, SendCarried DEF IInv
    <3> QED
      BY <2>6, <3>1 DEF IInv, Plain, oa_soc_send_req, device, platform
  <2>7. CASE Reconnect
    <3>1. Carried'
      BY <2>7, ReconnectCarried DEF IInv
    <3> QED
      BY <2>7, <3>1 DEF IInv, Plain, Reconnect, device, platform
  <2>8. ASSUME NEW msg \in got, Acknowledge(msg)
        PROVE  IInv'
    BY <2>8, AcknowledgeKept
  <2>9. ASSUME NEW id \in Requests, NEW body \in Orders, Say(id, body)
        PROVE  IInv'
    <3>1. id \in Byte /\ body \in Seq(Byte)
      BY ExchangeAssumption
    <3> QED
      BY <2>9, <3>1, SayKept
  <2> QED
    BY <1>3, <2>1, <2>2, <2>3, <2>4, <2>5, <2>6, <2>7, <2>8, <2>9 DEF Others
<1> QED
  BY <1>1, <1>2, <1>3 DEF Next

(* What the device keeps, and what the ring and the stream carry, in every   *)
(* state.                                                                    *)
THEOREM Invariance == Spec => []IInv
BY InitCarried, StepKept, PTL DEF Spec

-----------------------------------------------------------------------------

(* What the device and the platform keep, and the ring's size (oa_soc.c:363, *)
(* oa_jt808.c:2846), for bodies, messages and rings of any length.           *)
THEOREM Typed == Spec => []TypeOK
<1>1. IInv => TypeOK
  BY DEF IInv, Plain, Carried, TypeOK
<1> QED
  BY <1>1, Invariance, PTL

(* A frame whose bytes all came on one connection is found by the platform,  *)
(* whatever stands before, between and after frames in its stream: what a    *)
(* failed send has lost, what an overrun of the ring has cut off, what a     *)
(* connection has begun with (oa_soc.c:363, 849).                            *)
THEOREM WholeFramesReach == Spec => []WholeFramesArrive
<1>1. IInv => WholeFramesArrive
  <2> SUFFICES ASSUME IInv, NEW i \in DOMAIN sent,
                      Cardinality({k \in DOMAIN stream : stream[k].of = i}) = Len(Seal(sent[i]))
               PROVE  sent[i] \in got
    BY DEF WholeFramesArrive
  <2>1. /\ tx \in Seq(Piece) /\ stream \in Seq(Piece) /\ sent \in Seq(Messages)
        /\ InOrder(stream \o tx, sent) /\ Found(Bytes(stream)) \subseteq got
    BY DEF IInv, Carried
  <2>2. InOrder(stream, sent)
    BY <2>1, BeginningInOrder
  <2>3. sent[i] \in Found(Bytes(stream))
    BY <2>1, <2>2, WholeIsFound
  <2> QED
    BY <2>1, <2>3
<1> QED
  BY <1>1, Invariance, PTL

(* The read of a whole frame is opened as the message that was sealed, and   *)
(* that of two as the first with a longer body (oa_soc.c:642,                *)
(* oa_jt808.c:2846, 2859), whatever bytes the messages have.                 *)
THEOREM FirstOpened == Spec => FirstIsOpened
<1> DEFINE data == SubSeq(down, 1, Len(down) - Len(down'))
           Said == \A m \in said :
                     /\ data = Seal(m) => opened' = m
                     /\ \A k \in said : data = Seal(m) \o Seal(k) =>
                          /\ opened'.id = m.id /\ opened'.seq = m.seq
                          /\ IsStrictPrefix(m.body, opened'.body)
<1>1. IInv /\ [Next]_vars => [Bounded(data) => Said]_vars
  <2> SUFFICES ASSUME IInv, Next, Bounded(data)
               PROVE  Said
    OBVIOUS
  <2>1. down \in Seq(Byte) /\ Len(down) \in Nat /\ said \subseteq Messages
    BY DEF IInv, Plain
  <2>2. CASE Others
    <3>1. down' = down \/ \E m \in Messages : down' = down \o Seal(m)
      <4>1. ASSUME NEW id \in Byte, NEW body \in Seq(Byte), Say(id, body)
            PROVE  \E m \in Messages : down' = down \o Seal(m)
        <5>1. Message(id, platSeq, body) \in Messages
          BY DEF IInv, Plain, Message, Messages
        <5>2. down' = down \o Seal(Message(id, platSeq, body))
          BY <4>1 DEF Say
        <5> QED
          BY <5>1, <5>2
      <4>2. ASSUME NEW msg \in got, Acknowledge(msg)
            PROVE  \E m \in Messages : down' = down \o Seal(m)
        <5>1. msg \in Messages
          BY DEF IInv, Carried
        <5>2. msg.id \in Byte /\ msg.seq \in Byte
          BY <5>1 DEF Messages
        <5>3. AckId(msg) \in Byte
          BY Names DEF AckId
        <5>4. AckBody(msg) \in Seq(Byte)
          BY <5>2, Names, BytesOf DEF AckBody
        <5>5. Say(AckId(msg), AckBody(msg))
          BY <4>2 DEF Acknowledge
        <5> QED
          BY <4>1, <5>3, <5>4, <5>5
      <4>3. ASSUME NEW id \in Requests, NEW body \in Orders, Say(id, body)
            PROVE  \E m \in Messages : down' = down \o Seal(m)
        <5>1. id \in Byte /\ body \in Seq(Byte)
          BY ExchangeAssumption
        <5> QED
          BY <4>1, <4>3, <5>1
      <4>4. ASSUME \/ DevReq2ServPackag_build(REGISTERS, <<>>)
                   \/ \E body \in Reports : DevReq2ServPackag_build(REPORT_LOCATION, body)
                   \/ Heartbeat \/ SendAgain \/ GiveUp
                   \/ \E ok \in BOOLEAN : oa_soc_send_req(ok)
                   \/ Reconnect
            PROVE  down' = down
        BY <4>4 DEF DevReq2ServPackag_build, Heartbeat, SendAgain, GiveUp, oa_soc_send_req,
                    Reconnect, platform
      <4> QED
        BY <2>2, <4>2, <4>3, <4>4 DEF Others
    <3>2. Len(down) - Len(down') \in Int /\ Len(down) - Len(down') < 1
      <4>1. CASE down' = down
        BY <2>1, <4>1
      <4>2. ASSUME NEW m \in Messages, down' = down \o Seal(m)
            PROVE  Len(down) - Len(down') \in Int /\ Len(down) - Len(down') < 1
        <5>1. Seal(m) \in Seq(Byte)
          BY SealFacts
        <5>2. IsJoin(down', down, Seal(m))
          BY <2>1, <4>2, <5>1, Joined
        <5>3. Len(Seal(m)) \in Nat /\ Len(down') = Len(down) + Len(Seal(m))
          BY <5>2 DEF IsJoin
        <5> QED
          BY <2>1, <5>3
      <4> QED
        BY <3>1, <4>1, <4>2
    <3>3. data = <<>>
      BY <3>2, SubSeqEmpty
    <3> HIDE DEF data
    <3>4. ~ (Len(data) > 2)
      BY ONLY <3>3
    <3> QED
      BY <3>4 DEF Bounded
  <2>3. ASSUME NEW n \in DOMAIN down, JT808_recv_analysis(n)
        PROVE  Said
    <3>1. n \in 1 .. Len(down) /\ n \in Nat
      BY <2>1
    <3>2. down' = SubSeq(down, n + 1, Len(down)) /\ opened' = FrameOf(SubSeq(down, 1, n))
      BY <2>3, Zenon DEF JT808_recv_analysis
    <3>3. Len(down) - Len(down') = n
      <4> DEFINE N == Len(down)
                 w == SubSeq(down, n + 1, N)
      <4>1. n + 1 \in Nat \ {0} /\ N \in Nat /\ N <= Len(down) /\ n + 1 <= N + 1
        BY <2>1, <3>1
      <4>2. IsCut(w, down, n + 1, N)
        BY <2>1, <4>1, Cut
      <4>3. down' = w
        BY <3>2
      <4> HIDE DEF w
      <4>4. Len(w) = (N - (n + 1)) + 1
        BY <4>2 DEF IsCut
      <4> HIDE DEF N
      <4>5. N - Len(w) = n
        <5> DEFINE l == Len(w)
        <5>1. l = (N - (n + 1)) + 1 /\ N \in Nat /\ n \in Nat
          BY <3>1, <4>1, <4>4
        <5> HIDE DEF l
        <5>2. N - l = n
          BY ONLY <5>1
        <5> QED
          BY <5>2 DEF l
      <4> QED
        BY <4>3, <4>5 DEF N
    <3>4. opened' = FrameOf(data)
      BY <3>2, <3>3
    <3> HIDE DEF data
    <3>5. ASSUME NEW m \in said, data = Seal(m)
          PROVE  opened' = m
      BY <2>1, <3>4, <3>5, SealIsOpened
    <3>6. ASSUME NEW m \in said, NEW k \in said, data = Seal(m) \o Seal(k)
          PROVE  /\ opened'.id = m.id /\ opened'.seq = m.seq
                 /\ IsStrictPrefix(m.body, opened'.body)
      <4>1. m \in Messages /\ k \in Messages
        BY <2>1
      <4> QED
        BY <3>4, <3>6, <4>1, TwoAreOpenedAsOne
    <3> QED
      BY <3>5, <3>6
  <2> QED
    BY <2>2, <2>3 DEF Next
<1> QED
  BY <1>1, Invariance, PTL DEF Spec, FirstIsOpened

-----------------------------------------------------------------------------
(* What begins with a message *)

(* More bytes behind those that are read. *)
LEMMA ReadsLonger ==
  ASSUME NEW d \in Seq(Byte), NEW s \in Seq(Byte), NEW p, ReadsBy(p, d, s), NEW e \in Seq(Byte)
  PROVE  ReadsTo(p, d \o e, s)
<1> DEFINE n == Len(s)
           N == Len(d)
           w == d \o e
<1>1. /\ n \in Nat /\ N \in Nat /\ Len(e) \in Nat /\ Len(w) = N + Len(e)
      /\ \A i \in 1 .. N : w[i] = d[i]
  BY Joined DEF IsJoin
<1>2. \A i \in 0 .. n : p[i] \in Nat /\ p[i] <= N
  BY ReadsOn
<1>3. p \in [0 .. n -> Nat] /\ p[0] = 0 /\ p[n] = N
  BY DEF ReadsBy
<1> HIDE DEF w, n, N
<1>4. ASSUME NEW i \in 1 .. n
      PROVE  \/ s[i] = FLAG /\ p[i] = p[i - 1] + 2 /\ w[p[i - 1] + 1] = ESC /\ w[p[i - 1] + 2] = 2
             \/ s[i] = ESC /\ p[i] = p[i - 1] + 2 /\ w[p[i - 1] + 1] = ESC /\ w[p[i - 1] + 2] = 1
             \/ s[i] # ESC /\ p[i] = p[i - 1] + 1 /\ w[p[i - 1] + 1] = s[i]
  <2> DEFINE a == p[i - 1]
             b == p[i]
  <2>1. i - 1 \in 0 .. n /\ i \in 0 .. n
    BY <1>1
  <2>2. a \in Nat /\ b \in Nat /\ b <= N
    BY <1>2, <2>1
  <2>3. \/ s[i] = FLAG /\ b = a + 2 /\ d[a + 1] = ESC /\ d[a + 2] = 2
        \/ s[i] = ESC /\ b = a + 2 /\ d[a + 1] = ESC /\ d[a + 2] = 1
        \/ s[i] # ESC /\ b = a + 1 /\ d[a + 1] = s[i]
    BY DEF ReadsBy, n
  <2> HIDE DEF a, b
  <2>4. b = a + 2 => a + 1 \in 1 .. N /\ a + 2 \in 1 .. N
    BY <1>1, <2>2
  <2>5. b = a + 1 => a + 1 \in 1 .. N
    BY <1>1, <2>2
  <2>6. \/ s[i] = FLAG /\ b = a + 2 /\ w[a + 1] = ESC /\ w[a + 2] = 2
        \/ s[i] = ESC /\ b = a + 2 /\ w[a + 1] = ESC /\ w[a + 2] = 1
        \/ s[i] # ESC /\ b = a + 1 /\ w[a + 1] = s[i]
    BY <1>1, <2>3, <2>4, <2>5
  <2> QED
    BY <2>6 DEF a, b
<1>5. N <= Len(w)
  BY <1>1
<1>6. ReadsTo(p, w, s)
  BY <1>3, <1>4, <1>5 DEF ReadsTo, n
<1> QED
  BY <1>6 DEF w

(* A beginning of a sequence, element by element. *)
LEMMA PrefixIs ==
  ASSUME NEW a \in Seq(Byte), NEW b \in Seq(Byte), Len(a) <= Len(b),
         \A j \in 1 .. Len(a) : a[j] = b[j]
  PROVE  IsPrefix(a, b)
<1> DEFINE n == Len(a)
           x == SubSeq(a, 1, n)
           y == SubSeq(b, 1, n)
<1>1. n \in Nat /\ 1 \in Nat \ {0} /\ n <= n /\ 1 <= n + 1 /\ (n - 1) + 1 = n
  OBVIOUS
<1>2. x \in Seq(Byte) /\ IsCut(x, a, 1, n)
  BY <1>1, Cut
<1>3. y \in Seq(Byte) /\ IsCut(y, b, 1, n)
  BY <1>1, Cut
<1> HIDE DEF x, y
<1>4. /\ Len(x) = n /\ Len(y) = n
      /\ \A j \in 1 .. n : x[j] = a[(1 - 1) + j] /\ y[j] = b[(1 - 1) + j]
  BY <1>1, <1>2, <1>3 DEF IsCut
<1>5. \A j \in 1 .. n : (1 - 1) + j = j
  BY <1>1
<1>6. \A j \in 1 .. n : x[j] = y[j]
  BY <1>4, <1>5
<1>7. x = y
  BY <1>2, <1>3, <1>4, <1>6, SeqEqual
<1> QED
  BY <1>7 DEF IsPrefix, x, y, n

LEMMA PrefixGives ==
  ASSUME NEW a \in Seq(Byte), NEW b \in Seq(Byte), IsPrefix(a, b)
  PROVE  Len(a) <= Len(b) /\ \A j \in 1 .. Len(a) : a[j] = b[j]
<1> DEFINE n == Len(a)
           x == SubSeq(a, 1, n)
           y == SubSeq(b, 1, n)
<1>1. n \in Nat /\ 1 \in Nat \ {0} /\ n <= n /\ n <= Len(b) /\ 1 <= n + 1 /\ (n - 1) + 1 = n
  BY DEF IsPrefix
<1>2. x \in Seq(Byte) /\ IsCut(x, a, 1, n)
  BY <1>1, Cut
<1>3. y \in Seq(Byte) /\ IsCut(y, b, 1, n)
  BY <1>1, Cut
<1>0. x = y
  BY DEF IsPrefix
<1> HIDE DEF x, y
<1>4. \A j \in 1 .. n : x[j] = a[(1 - 1) + j] /\ y[j] = b[(1 - 1) + j]
  BY <1>1, <1>2, <1>3 DEF IsCut
<1>5. \A j \in 1 .. n : (1 - 1) + j = j
  BY <1>1
<1> QED
  BY <1>0, <1>1, <1>4, <1>5

(* What is opened of a message's bytes with others behind them. *)
LEMMA OpenBegins ==
  ASSUME NEW m \in Messages, NEW u \in Seq(Byte), Open(Inside(m) \o u) # NoMessage
  PROVE  LET o == Open(Inside(m) \o u)
         IN  o.id = m.id /\ o.seq = m.seq /\ IsPrefix(m.body, o.body)
<1> DEFINE s == Inside(m)
           T == s \o u
           n == Len(T)
           a == Len(m.body)
           body == SubSeq(T, 3, n - 1)
<1>1. /\ s \in Seq(Byte) /\ a \in Nat /\ Len(s) = a + 3 /\ m.body \in Seq(Byte)
      /\ Content(m)[1] = m.id /\ Content(m)[2] = m.seq
      /\ \A j \in 1 .. a : Content(m)[j + 2] = m.body[j]
      /\ \A j \in 1 .. a + 2 : s[j] = Content(m)[j]
  BY InsideFacts
<1> HIDE DEF s, a
<1>2. T \in Seq(Byte) /\ IsJoin(T, s, u)
  BY <1>1, Joined
<1> HIDE DEF T
<1>3. /\ Len(u) \in Nat /\ n = (a + 3) + Len(u)
      /\ \A i \in 1 .. a + 3 : T[i] = s[i]
  BY <1>1, <1>2 DEF IsJoin
<1>4. Open(T) = Message(T[1], T[2], body)
  BY DEF Open, T, s
<1> HIDE DEF n
<1>5. T[1] = m.id /\ T[2] = m.seq
  <2>1. /\ 1 \in 1 .. a + 3 /\ 2 \in 1 .. a + 3 /\ 1 \in 1 .. a + 2 /\ 2 \in 1 .. a + 2
    BY <1>1
  <2> QED
    BY <1>1, <1>3, <2>1
<1>6. /\ n - 1 \in Nat /\ n - 1 <= n /\ 3 <= (n - 1) + 1 /\ 3 \in Nat \ {0}
      /\ ((n - 1) - 3) + 1 = a + Len(u)
  BY <1>1, <1>3
<1>7. body \in Seq(Byte) /\ IsCut(body, T, 3, n - 1)
  BY <1>2, <1>6, Cut DEF n
<1> HIDE DEF body
<1>8. /\ Len(body) = a + Len(u)
      /\ \A j \in 1 .. a + Len(u) : body[j] = T[(3 - 1) + j]
  <2> DEFINE q == n - 1
  <2>1. IsCut(body, T, 3, q) /\ (q - 3) + 1 = a + Len(u)
    BY <1>6, <1>7
  <2> HIDE DEF q
  <2>2. Len(body) = (q - 3) + 1 /\ \A k \in 1 .. (q - 3) + 1 : body[k] = T[(3 - 1) + k]
    BY <2>1 DEF IsCut
  <2> QED
    BY <2>1, <2>2
<1>9. \A j \in 1 .. a : m.body[j] = body[j]
  <2> TAKE j \in 1 .. a
  <2>1. /\ j \in 1 .. a + Len(u) /\ (3 - 1) + j = j + 2 /\ j + 2 \in 1 .. a + 3 /\ j + 2 \in 1 .. a + 2
    BY <1>1, <1>3
  <2> QED
    BY <1>1, <1>3, <1>8, <2>1
<1>10. IsPrefix(m.body, body)
  <2>1. a <= Len(body)
    BY <1>1, <1>3, <1>8
  <2> QED
    BY <1>1, <1>7, <1>9, <2>1, PrefixIs DEF a
<1> QED
  BY <1>4, <1>5, <1>10 DEF Message, T, s

(* What is opened has its first byte as identifier. *)
LEMMA OpenFlag ==
  ASSUME NEW s, Open(s) # NoMessage
  PROVE  Open(s).id = s[1]
BY DEF Open, Message

-----------------------------------------------------------------------------
(* Where flags stand *)

(* A flag ends a frame if nothing or another flag follows; else one of the   *)
(* frames of S begins with it.                                               *)
Ends(d, k) == k = Len(d) \/ d[k + 1] = FLAG
Begins(d, k, m) ==
  /\ (k - 1) + Len(Seal(m)) <= Len(d)
  /\ \A j \in 1 .. Len(Seal(m)) : d[(k - 1) + j] = Seal(m)[j]
Bordered(d, S) ==
  \A k \in 1 .. Len(d) : d[k] = FLAG => Ends(d, k) \/ \E m \in S : Begins(d, k, m)

(* A sealed message has flags at its ends and nowhere else. *)
LEMMA SealPlaces ==
  ASSUME NEW m \in Messages
  PROVE  /\ Seal(m) \in Seq(Byte) /\ Len(Seal(m)) \in Nat /\ Len(Seal(m)) >= 5
         /\ Seal(m)[1] = FLAG /\ Seal(m)[Len(Seal(m))] = FLAG
         /\ \A j \in 2 .. Len(Seal(m)) - 1 : Seal(m)[j] # FLAG
<1> DEFINE e == Escape(Inside(m))
           M == Len(e)
           x == Seal(m)
<1>1. /\ e \in Seq(Byte \ {FLAG}) /\ M \in Nat /\ M >= 3
      /\ x \in Seq(Byte) /\ Len(x) = M + 2 /\ x[1] = FLAG /\ x[M + 2] = FLAG
      /\ \A j \in 1 .. M : x[j + 1] = e[j]
  BY SealFacts
<1> HIDE DEF e, x
<1>2. \A j \in 1 .. M : e[j] # FLAG
  <2>1. \A j \in 1 .. M : e[j] \in Byte \ {FLAG}
    BY <1>1, ElementOfSeq
  <2> QED
    BY <2>1
<1> HIDE DEF M
<1>3. ASSUME NEW j \in 2 .. Len(x) - 1
      PROVE  x[j] # FLAG
  <2>1. j - 1 \in 1 .. M /\ (j - 1) + 1 = j
    BY <1>1
  <2> QED
    BY <1>1, <1>2, <2>1
<1>4. Len(x) >= 5 /\ Len(x) \in Nat
  BY <1>1
<1> QED
  BY <1>1, <1>3, <1>4 DEF x

(* Frames may join those that may stand in a stream. *)
LEMMA BorderedMore ==
  ASSUME NEW d, NEW S, NEW R, S \subseteq R, Bordered(d, S)
  PROVE  Bordered(d, R)
BY DEF Bordered

LEMMA BorderedEmpty ==
  ASSUME NEW S
  PROVE  Bordered(<<>>, S)
<1>1. Len(<<>>) = 0
  OBVIOUS
<1>2. 1 .. 0 = {}
  OBVIOUS
<1> QED
  BY <1>1, <1>2, Zenon DEF Bordered

(* What a read leaves. *)
LEMMA BorderedRest ==
  ASSUME NEW d \in Seq(Byte), NEW S, S \subseteq Messages, Bordered(d, S), NEW n \in 1 .. Len(d)
  PROVE  Bordered(SubSeq(d, n + 1, Len(d)), S)
<1> DEFINE N == Len(d)
           w == SubSeq(d, n + 1, N)
<1>1. N \in Nat /\ n \in Nat /\ n <= N /\ n + 1 \in Nat \ {0} /\ n + 1 <= N + 1
      /\ (n + 1) - 1 = n /\ (N - (n + 1)) + 1 = N - n
  OBVIOUS
<1>2. w \in Seq(Byte) /\ IsCut(w, d, n + 1, N)
  BY <1>1, Cut
<1> HIDE DEF w, N
<1>3. Len(w) = N - n /\ \A k \in 1 .. N - n : w[k] = d[n + k]
  BY <1>1, <1>2 DEF IsCut
<1>4. ASSUME NEW k \in 1 .. Len(w), w[k] = FLAG
      PROVE  Ends(w, k) \/ \E m \in S : Begins(w, k, m)
  <2>1. n + k \in 1 .. N /\ d[n + k] = FLAG /\ k \in Nat
    BY <1>1, <1>3, <1>4
  <2>2. CASE Ends(d, n + k)
    <3>1. CASE n + k = N
      BY <1>1, <1>3, <2>1, <3>1 DEF Ends
    <3>2. CASE n + k # N /\ d[(n + k) + 1] = FLAG
      <4>1. k + 1 \in 1 .. N - n /\ n + (k + 1) = (n + k) + 1
        BY <1>1, <2>1, <3>2
      <4>2. w[k + 1] = FLAG
        BY <1>3, <3>2, <4>1
      <4> QED
        BY <4>2 DEF Ends
    <3> QED
      BY <2>2, <3>1, <3>2 DEF Ends, N
  <2>3. ASSUME NEW m \in S, Begins(d, n + k, m)
        PROVE  Begins(w, k, m)
    <3> DEFINE l == Len(Seal(m))
    <3>1. l \in Nat
      BY SealPlaces
    <3>2. ((n + k) - 1) + l <= N /\ \A j \in 1 .. l : d[((n + k) - 1) + j] = Seal(m)[j]
      BY <2>3 DEF Begins, N
    <3> HIDE DEF l
    <3>3. (k - 1) + l <= Len(w)
      BY <1>1, <1>3, <2>1, <3>1, <3>2
    <3>4. ASSUME NEW j \in 1 .. l
          PROVE  w[(k - 1) + j] = Seal(m)[j]
      <4>1. (k - 1) + j \in 1 .. N - n /\ n + ((k - 1) + j) = ((n + k) - 1) + j
        BY <1>1, <1>3, <2>1, <3>1, <3>3
      <4> QED
        BY <1>3, <3>2, <4>1
    <3> QED
      BY <3>3, <3>4 DEF Begins, l
  <2> QED
    BY <2>1, <2>2, <2>3 DEF Bordered, N
<1> QED
  BY <1>4 DEF Bordered, w, N

(* A frame goes behind what is there. *)
LEMMA BorderedSeal ==
  ASSUME NEW d \in Seq(Byte), NEW S, S \subseteq Messages, NEW m \in S, Bordered(d, S)
  PROVE  Bordered(d \o Seal(m), S)
<1> DEFINE x == Seal(m)
           l == Len(x)
           n == Len(d)
           w == d \o x
<1>1. /\ x \in Seq(Byte) /\ l \in Nat /\ l >= 5
      /\ x[1] = FLAG /\ x[l] = FLAG /\ \A j \in 2 .. l - 1 : x[j] # FLAG
  BY SealPlaces
<1> HIDE DEF x
<1>2. w \in Seq(Byte) /\ IsJoin(w, d, x)
  BY <1>1, Joined
<1> HIDE DEF w
<1>3. /\ n \in Nat /\ Len(w) = n + l
      /\ \A i \in 1 .. n : w[i] = d[i]
      /\ \A i \in 1 .. l : w[n + i] = x[i]
  BY <1>1, <1>2 DEF IsJoin
<1> HIDE DEF l, n
<1>4. w[n + 1] = FLAG
  BY <1>1, <1>3
<1>5. ASSUME NEW k \in 1 .. Len(w), w[k] = FLAG
      PROVE  Ends(w, k) \/ \E r \in S : Begins(w, k, r)
  <2>1. CASE k \in 1 .. n
    <3>1. d[k] = FLAG
      BY <1>3, <1>5, <2>1
    <3>2. CASE Ends(d, k)
      <4>1. CASE k = n
        BY <1>4, <4>1 DEF Ends
      <4>2. CASE k # n /\ d[k + 1] = FLAG
        <5>1. k + 1 \in 1 .. n
          BY <1>3, <2>1, <4>2
        <5> QED
          BY <1>3, <4>2, <5>1 DEF Ends
      <4> QED
        BY <3>2, <4>1, <4>2 DEF Ends, n
    <3>3. ASSUME NEW r \in S, Begins(d, k, r)
          PROVE  Begins(w, k, r)
      <4> DEFINE q == Len(Seal(r))
      <4>1. q \in Nat
        BY SealPlaces
      <4>2. (k - 1) + q <= n /\ \A j \in 1 .. q : d[(k - 1) + j] = Seal(r)[j]
        BY <3>3 DEF Begins, n
      <4> HIDE DEF q
      <4>3. (k - 1) + q <= Len(w)
        BY <1>1, <1>3, <2>1, <4>1, <4>2
      <4>4. ASSUME NEW j \in 1 .. q
            PROVE  w[(k - 1) + j] = Seal(r)[j]
        <5>1. (k - 1) + j \in 1 .. n
          BY <1>3, <2>1, <4>1, <4>2
        <5> QED
          BY <1>3, <4>2, <5>1
      <4> QED
        BY <4>3, <4>4 DEF Begins, q
    <3> QED
      BY <2>1, <3>1, <3>2, <3>3 DEF Bordered, n
  <2>2. CASE k = n + 1
    <3>1. (k - 1) + l <= Len(w)
      BY <1>1, <1>3, <2>2
    <3>2. ASSUME NEW j \in 1 .. l
          PROVE  w[(k - 1) + j] = x[j]
      <4>1. (k - 1) + j = n + j
        BY <1>1, <1>3, <2>2
      <4> QED
        BY <1>3, <4>1
    <3>3. Begins(w, k, m)
      BY <3>1, <3>2 DEF Begins, l, x
    <3> QED
      BY <3>3
  <2>3. CASE k = n + l
    BY <1>3, <2>3 DEF Ends
  <2>4. CASE k \notin 1 .. n /\ k # n + 1 /\ k # n + l
    <3>1. k - n \in 2 .. l - 1 /\ k - n \in 1 .. l /\ n + (k - n) = k
      BY <1>1, <1>3, <2>4
    <3>2. x[k - n] = FLAG
      BY <1>3, <1>5, <3>1
    <3> QED
      BY <1>1, <3>1, <3>2
  <2> QED
    BY <2>1, <2>2, <2>3, <2>4
<1> QED
  BY <1>5 DEF Bordered, w, x

(* Wherever a read begins and ends, what is taken out of it with a known     *)
(* identifier begins with a frame: a read that begins with the end of one    *)
(* shows a flag for the identifier.                                          *)
LEMMA KnownIsFramed ==
  ASSUME NEW d \in Seq(Byte), NEW S, S \subseteq Messages, Bordered(d, S), NEW n \in 1 .. Len(d),
         FrameOf(SubSeq(d, 1, n)).id \in Known
  PROVE  LET o == FrameOf(SubSeq(d, 1, n))
         IN  \E m \in S : o.id = m.id /\ o.seq = m.seq /\ IsPrefix(m.body, o.body)
<1> DEFINE r == SubSeq(d, 1, n)
           i == SubSeq(r, 2, n - 1)
           o == FrameOf(r)
<1>1. n \in Nat /\ Len(d) \in Nat /\ n <= Len(d) /\ 1 <= n + 1 /\ (n - 1) + 1 = n /\ 1 \in Nat \ {0}
  OBVIOUS
<1>2. r \in Seq(Byte) /\ IsCut(r, d, 1, n)
  BY <1>1, Cut
<1> HIDE DEF r
<1>3. Len(r) = n /\ \A k \in 1 .. n : r[k] = d[k]
  <2>1. \A k \in 1 .. n : (1 - 1) + k = k
    BY <1>1
  <2>2. Len(r) = n /\ \A k \in 1 .. n : r[k] = d[(1 - 1) + k]
    BY <1>1, <1>2 DEF IsCut
  <2> QED
    BY <2>1, <2>2
<1>4. NoMessage.id \notin Known /\ FLAG \notin Known
  BY DEF NoMessage, Known, FLAG, PLAT_COMMON_rsp, REGISTERS_rsp, SET_DEV_PARAM, GET_LOCATION,
         DEL_ROUND_AREA
<1>5. Bounded(r) /\ o = Open(Unescape(i)) /\ o # NoMessage
  <2>1. o.id \in Known
    BY DEF r
  <2> QED
    BY <1>3, <1>4, <2>1 DEF FrameOf
<1> HIDE DEF o
<1>6. n > 2 /\ r[1] = FLAG /\ r[n] = FLAG
  BY <1>3, <1>5 DEF Bounded
<1>7. /\ i \in Seq(Byte) /\ Len(i) = n - 2
      /\ \A k \in 1 .. n - 2 : i[k] = r[k + 1]
  <2>1. 2 \in Nat \ {0} /\ n - 1 \in Nat /\ n - 1 <= n /\ 2 <= (n - 1) + 1 /\ ((n - 1) - 2) + 1 = n - 2
    BY <1>1, <1>6
  <2> DEFINE q == n - 1
  <2>2. i \in Seq(Byte) /\ IsCut(i, r, 2, q)
    BY <1>2, <1>3, <2>1, Cut
  <2>3. (q - 2) + 1 = n - 2
    BY <2>1
  <2> HIDE DEF q, i
  <2>4. Len(i) = n - 2 /\ \A k \in 1 .. n - 2 : i[k] = r[(2 - 1) + k]
    BY <2>2, <2>3 DEF IsCut
  <2>5. \A k \in 1 .. n - 2 : (2 - 1) + k = k + 1
    BY <1>1
  <2> QED
    BY <2>2, <2>4, <2>5
<1> HIDE DEF i
<1>8. d[1] = FLAG /\ 1 \in 1 .. Len(d)
  BY <1>1, <1>3, <1>6
<1>9. ~ Ends(d, 1)
  <2> SUFFICES ASSUME Ends(d, 1) PROVE FALSE
    OBVIOUS
  <2>1. d[2] = FLAG /\ 2 \in 1 .. n /\ 1 \in 1 .. n - 2 /\ n - 2 \in Nat
    BY <1>1, <1>6 DEF Ends
  <2>2. i[1] = FLAG
    BY <1>3, <1>7, <2>1
  <2> DEFINE f == <<FLAG>>
             u == SubSeq(i, 2, n - 2)
  <2>3. f \in Seq(Byte) /\ Len(f) = 1 /\ f[1] = FLAG
    BY XorFacts
  <2>4. 2 \in Nat \ {0} /\ n - 2 <= Len(i) /\ 2 <= (n - 2) + 1 /\ ((n - 2) - 2) + 1 = n - 3
    BY <1>1, <1>6, <1>7
  <2>p. ReadsTo([k \in 0 .. 1 |-> k], i, f)
    <3> DEFINE p == [k \in 0 .. 1 |-> k]
    <3>1. p \in [0 .. 1 -> Nat] /\ p[0] = 0 /\ p[1] = 1 /\ 1 <= Len(i) /\ FLAG # ESC
      BY <1>7, <2>1 DEF FLAG, ESC
    <3> HIDE DEF p, f
    <3>2. \A k \in 1 .. 1 : k = 1 /\ k - 1 = 0 /\ 0 + 1 = 1
      OBVIOUS
    <3>3. \A k \in 1 .. 1 : f[k] # ESC /\ p[k] = p[k - 1] + 1 /\ i[p[k - 1] + 1] = f[k]
      BY <2>2, <2>3, <3>1, <3>2
    <3>4. ReadsTo(p, i, f)
      BY <2>3, <3>1, <3>3 DEF ReadsTo
    <3> QED
      BY <3>4 DEF p
  <2> HIDE DEF f, u
  <2>5. PICK v \in Seq(Byte) : Unescape(i) = f \o v
    BY <1>7, <2>3, <2>p, UnescapeBegins
  <2>6. IsJoin(f \o v, f, v)
    BY <2>3, Joined
  <2>7. Unescape(i)[1] = FLAG
    BY <2>3, <2>5, <2>6 DEF IsJoin
  <2>8. o.id = FLAG
    BY <1>5, <2>7, OpenFlag
  <2> QED
    BY <1>4, <2>8 DEF o, r
<1>10. PICK m \in S : Begins(d, 1, m)
  BY <1>8, <1>9 DEF Bordered
<1> DEFINE e == Escape(Inside(m))
           M == Len(e)
           x == Seal(m)
<1>11. /\ m \in Messages /\ e \in Seq(Byte) /\ e \in Seq(Byte \ {FLAG}) /\ M \in Nat /\ M >= 3
       /\ Len(x) = M + 2 /\ x[1] = FLAG /\ x[M + 2] = FLAG
       /\ \A j \in 1 .. M : x[j + 1] = e[j]
       /\ Unescape(e) = Inside(m) /\ Inside(m) \in Seq(Byte)
       /\ \E p : ReadsBy(p, e, Inside(m))
  BY SealFacts, InsideFacts
<1>12. \A j \in 2 .. M + 1 : x[j] # FLAG
  <2>1. (M + 2) - 1 = M + 1
    BY <1>11
  <2> QED
    BY <1>11, <2>1, SealPlaces
<1> HIDE DEF e, x
<1>13. /\ M + 2 <= Len(d)
       /\ \A j \in 1 .. M + 2 : d[j] = x[j]
  <2>1. (1 - 1) + (M + 2) = M + 2 /\ \A j \in 1 .. M + 2 : (1 - 1) + j = j
    BY <1>11
  <2>2. /\ (1 - 1) + (M + 2) <= Len(d)
        /\ \A j \in 1 .. M + 2 : d[(1 - 1) + j] = x[j]
    BY <1>10, <1>11 DEF Begins, x
  <2> QED
    BY <2>1, <2>2
<1>14. n >= M + 2
  <2> SUFFICES ASSUME ~ (n >= M + 2) PROVE FALSE
    OBVIOUS
  <2>1. n \in 2 .. M + 1 /\ n \in 1 .. M + 2 /\ n \in 1 .. n
    BY <1>1, <1>6, <1>11
  <2> QED
    BY <1>3, <1>6, <1>12, <1>13, <2>1
<1> DEFINE u == SubSeq(i, M + 1, n - 2)
<1>15. /\ u \in Seq(Byte) /\ IsCut(u, i, M + 1, n - 2)
  <2>1. M + 1 \in Nat \ {0} /\ n - 2 \in Nat /\ n - 2 <= Len(i) /\ M + 1 <= (n - 2) + 1
    BY <1>1, <1>6, <1>7, <1>11, <1>14
  <2> QED
    BY <1>7, <2>1, Cut
<1> HIDE DEF u
<1>16. i = e \o u
  <2>1. \A k \in 1 .. M : i[k] = e[k]
    <3> TAKE k \in 1 .. M
    <3>1. k \in 1 .. n - 2 /\ k + 1 \in 1 .. n /\ k + 1 \in 1 .. M + 2
      BY <1>1, <1>11, <1>14
    <3> QED
      BY <1>3, <1>7, <1>11, <1>13, <3>1
  <2> DEFINE q == n - 2
  <2>2. q \in Nat /\ Len(i) = q /\ M <= q /\ M \in Nat
    BY <1>1, <1>6, <1>7, <1>11, <1>14
  <2>3. Len(u) = (q - (M + 1)) + 1 /\ \A k \in 1 .. (q - (M + 1)) + 1 : u[k] = i[((M + 1) - 1) + k]
    BY <1>15 DEF IsCut
  <2> HIDE DEF q, M
  <2>4. (q - (M + 1)) + 1 = q - M /\ (M + 1) - 1 = M /\ M + (q - M) = q /\ q - M \in Nat
    BY <2>2
  <2>5. Len(u) = q - M /\ \A k \in 1 .. q - M : u[k] = i[M + k]
    BY <2>3, <2>4
  <2>6. IsJoin(i, e, u)
    BY <2>1, <2>2, <2>4, <2>5 DEF IsJoin, M
  <2> QED
    BY <1>7, <1>11, <1>15, <2>6, JoinIs
<1>17. PICK v \in Seq(Byte) : Unescape(i) = Inside(m) \o v
  <2>1. PICK p : ReadsBy(p, e, Inside(m))
    BY <1>11
  <2>2. ReadsTo(p, i, Inside(m))
    BY <1>11, <1>15, <1>16, <2>1, ReadsLonger
  <2> QED
    BY <1>7, <1>11, <2>2, UnescapeBegins
<1>18. o.id = m.id /\ o.seq = m.seq /\ IsPrefix(m.body, o.body)
  BY <1>5, <1>11, <1>17, OpenBegins
<1> QED
  BY <1>18 DEF o, r

(* What stands between two flags of a stream that begins with one is nothing *)
(* or a frame; and nothing is opened as no message.                          *)
LEMMA NothingIsOpened == Open(Unescape(<<>>)) = NoMessage
<1> DEFINE e == <<>>
           p == [k \in 0 .. 0 |-> k]
<1>1. e \in Seq(Byte) /\ Len(e) = 0
  OBVIOUS
<1>2. p \in [0 .. 0 -> Nat] /\ p[0] = 0 /\ 1 .. 0 = {}
  OBVIOUS
<1> HIDE DEF e, p
<1>3. ReadsBy(p, e, e)
  BY <1>1, <1>2, Zenon DEF ReadsBy
<1>4. Unescape(e) = e
  BY <1>1, <1>3, UnescapeReads
<1>5. Open(e) = NoMessage
  BY <1>1 DEF Open
<1> QED
  BY <1>4, <1>5 DEF e

(* So the platform finds only frames in such a stream. *)
LEMMA FoundAreFramed ==
  ASSUME NEW s \in Seq(Byte), NEW S, S \subseteq Messages, Bordered(s, S), s # <<>> => s[1] = FLAG
  PROVE  Found(s) \subseteq S
<1> DEFINE n == Len(s)
           flags == {i \in DOMAIN s : s[i] = FLAG}
<1>1. n \in Nat /\ DOMAIN s = 1 .. n
  OBVIOUS
<1>2. ASSUME NEW q \in Pieces(s)
      PROVE  q = <<>> \/ \E m \in S : q = Escape(Inside(m))
  <2>1. PICK ij \in ({0} \cup flags) \X flags :
          /\ ij[1] < ij[2] /\ \A k \in flags : ~ (ij[1] < k /\ k < ij[2])
          /\ q = SubSeq(s, ij[1] + 1, ij[2] - 1)
    BY DEF Pieces
  <2> DEFINE i == ij[1]
             j == ij[2]
  <2>2. /\ i \in Nat /\ j \in Nat /\ i < j /\ j \in 1 .. n /\ s[j] = FLAG /\ i \in 0 .. n
        /\ (i # 0 => i \in 1 .. n /\ s[i] = FLAG)
    BY <1>1, <2>1
  <2>3. \A k \in 1 .. n : s[k] = FLAG => ~ (i < k /\ k < j)
    BY <1>1, <2>1
  <2>4. q = SubSeq(s, i + 1, j - 1)
    BY <2>1
  <2> HIDE DEF i, j, flags, n
  <2>5. ASSUME s[i + 1] = FLAG
        PROVE  q = <<>>
    <3>1. i + 1 \in 1 .. n
      BY <1>1, <2>2
    <3>2. ~ (i + 1 < j)
      BY <2>2, <2>3, <2>5, <3>1
    <3>3. j - 1 < i + 1
      BY <2>2, <3>2
    <3>4. i + 1 \in Int /\ j - 1 \in Int
      BY <2>2
    <3> QED
      BY <2>4, <3>3, <3>4, SubSeqEmpty
  <2>6. CASE i = 0
    <3>1. s # <<>>
      <4>1. n # 0
        BY <1>1, <2>2
      <4>2. Len(<<>>) = 0
        OBVIOUS
      <4> QED
        BY <4>1, <4>2 DEF n
    <3> QED
      BY <2>5, <2>6, <3>1
  <2>7. CASE i # 0 /\ Ends(s, i)
    <3>1. i # n
      BY <1>1, <2>2
    <3> QED
      BY <2>5, <2>7, <3>1 DEF Ends, n
  <2>8. ASSUME i # 0, NEW m \in S, Begins(s, i, m)
        PROVE  q = Escape(Inside(m))
    <3> DEFINE e == Escape(Inside(m))
               M == Len(e)
               x == Seal(m)
    <3>1. /\ e \in Seq(Byte) /\ M \in Nat /\ M >= 3
          /\ Len(x) = M + 2 /\ x[1] = FLAG /\ x[M + 2] = FLAG
          /\ \A k \in 1 .. M : x[k + 1] = e[k]
      BY SealFacts
    <3>2. \A k \in 2 .. M + 1 : x[k] # FLAG
      <4>1. (M + 2) - 1 = M + 1
        BY <3>1
      <4> QED
        BY <3>1, <4>1, SealPlaces
    <3>3. /\ (i - 1) + (M + 2) <= n
          /\ \A k \in 1 .. M + 2 : s[(i - 1) + k] = x[k]
      BY <2>8, <3>1 DEF Begins, n
    <3> HIDE DEF e, x, M
    <3>4. j = (i - 1) + (M + 2)
      <4> DEFINE k == (i - 1) + (M + 2)
      <4>1. k \in 1 .. n /\ i < k /\ M + 2 \in 1 .. M + 2
        BY <1>1, <2>2, <2>8, <3>1, <3>3
      <4>2. s[k] = FLAG
        BY <3>1, <3>3, <4>1
      <4>3. j <= k
        BY <2>2, <2>3, <4>1, <4>2
      <4>4. CASE j < k
        <5>1. /\ (j - i) + 1 \in 2 .. M + 1 /\ (j - i) + 1 \in 1 .. M + 2
              /\ (i - 1) + ((j - i) + 1) = j
          BY <2>2, <3>1, <4>4
        <5>2. s[j] # FLAG
          BY <3>2, <3>3, <5>1
        <5> QED
          BY <2>2, <5>2
      <4> QED
        BY <2>2, <3>1, <4>1, <4>3, <4>4
    <3>5. i + 1 \in Nat \ {0} /\ j - 1 \in Nat /\ j - 1 <= n /\ i + 1 <= (j - 1) + 1
          /\ ((j - 1) - (i + 1)) + 1 = M /\ (i + 1) - 1 = i
      BY <1>1, <2>2, <3>1, <3>4
    <3>6. /\ q \in Seq(Byte) /\ Len(q) = M /\ \A k \in 1 .. M : q[k] = s[i + k]
      <4> DEFINE a == i + 1
                 b == j - 1
      <4>1. q \in Seq(Byte) /\ IsCut(q, s, a, b)
        BY <2>4, <3>5, Cut DEF n
      <4>2. (b - a) + 1 = M /\ a - 1 = i
        BY <3>5
      <4> HIDE DEF a, b
      <4> QED
        BY <4>1, <4>2 DEF IsCut
    <3>7. \A k \in 1 .. M : q[k] = e[k]
      <4> TAKE k \in 1 .. M
      <4>1. k + 1 \in 1 .. M + 2 /\ (i - 1) + (k + 1) = i + k
        BY <2>2, <3>1
      <4> QED
        BY <3>1, <3>3, <3>6, <4>1
    <3>8. q = e
      BY <3>1, <3>6, <3>7, SeqEqual DEF M
    <3> QED
      BY <3>8 DEF e
  <2>9. i # 0 => Ends(s, i) \/ \E m \in S : Begins(s, i, m)
    BY <2>2 DEF Bordered, n
  <2> QED
    BY <2>6, <2>7, <2>8, <2>9
<1>3. ASSUME NEW q \in Pieces(s), Open(Unescape(q)) # NoMessage
      PROVE  Open(Unescape(q)) \in S
  <2>1. q # <<>>
    BY <1>3, NothingIsOpened
  <2>2. PICK m \in S : q = Escape(Inside(m))
    BY <1>2, <2>1
  <2>3. Unescape(q) = Inside(m)
    BY <2>2, SealFacts
  <2> QED
    BY <2>3, OpenInside
<1> QED
  BY <1>3 DEF Found

(* The bytes of what is joined are joined. *)
LEMMA BytesJoined ==
  ASSUME NEW a \in Seq(Piece), NEW b \in Seq(Piece)
  PROVE  Bytes(a \o b) = Bytes(a) \o Bytes(b)
<1> DEFINE w == a \o b
           m == Len(a)
           n == Len(b)
<1>1. w \in Seq(Piece) /\ IsJoin(w, a, b)
  BY Joined
<1>2. /\ m \in Nat /\ n \in Nat /\ Len(w) = m + n
      /\ \A i \in 1 .. m : w[i] = a[i]
      /\ \A i \in 1 .. n : w[m + i] = b[i]
  BY <1>1 DEF IsJoin
<1> HIDE DEF w
<1>3. /\ Bytes(w) \in Seq(Byte) /\ Len(Bytes(w)) = m + n
      /\ Bytes(a) \in Seq(Byte) /\ Len(Bytes(a)) = m
      /\ Bytes(b) \in Seq(Byte) /\ Len(Bytes(b)) = n
      /\ \A i \in 1 .. m + n : Bytes(w)[i] = w[i].byte
      /\ \A i \in 1 .. m : Bytes(a)[i] = a[i].byte
      /\ \A i \in 1 .. n : Bytes(b)[i] = b[i].byte
  BY <1>1, <1>2, BytesAre
<1> HIDE DEF m, n
<1>4. \A i \in 1 .. m : i \in 1 .. m + n
  BY <1>2
<1>5. \A i \in 1 .. n : m + i \in 1 .. m + n
  BY <1>2
<1>6. IsJoin(Bytes(w), Bytes(a), Bytes(b))
  <2>1. \A i \in 1 .. m : Bytes(w)[i] = Bytes(a)[i]
    BY <1>2, <1>3, <1>4
  <2>2. \A i \in 1 .. n : Bytes(w)[m + i] = Bytes(b)[i]
    <3>1. ASSUME NEW i \in 1 .. n
          PROVE  Bytes(w)[m + i] = Bytes(b)[i]
      <4>1. Bytes(w)[m + i] = w[m + i].byte
        BY <1>3, <1>5
      <4>2. w[m + i] = b[i] /\ Bytes(b)[i] = b[i].byte
        BY <1>2, <1>3
      <4> QED
        BY <4>1, <4>2
    <3> QED
      BY <3>1
  <2> DEFINE x == Bytes(w)
             y == Bytes(a)
             z == Bytes(b)
  <2>3. m \in Nat /\ n \in Nat /\ Len(x) = m + n /\ Len(y) = m /\ Len(z) = n
    BY <1>2, <1>3
  <2> HIDE DEF x, y, z
  <2>4. /\ Len(x) = Len(y) + Len(z)
        /\ \A i \in 1 .. Len(y) : x[i] = y[i]
        /\ \A i \in 1 .. Len(z) : x[Len(y) + i] = z[i]
    BY <2>1, <2>2, <2>3 DEF x, y, z
  <2> QED
    BY <2>3, <2>4 DEF IsJoin, x, y, z
<1>7. Bytes(w) = Bytes(a) \o Bytes(b)
  <2> DEFINE x == Bytes(w)
             y == Bytes(a)
             z == Bytes(b)
  <2>1. x \in Seq(Byte) /\ y \in Seq(Byte) /\ z \in Seq(Byte) /\ IsJoin(x, y, z)
    BY <1>3, <1>6
  <2> HIDE DEF x, y, z
  <2>2. x = y \o z
    BY <2>1, JoinIs
  <2> QED
    BY <2>2 DEF x, y, z
<1> QED
  BY <1>7 DEF w

LEMMA BytesOfFrame ==
  ASSUME NEW m \in Messages, NEW i \in Nat
  PROVE  Bytes(OfFrame(m, i)) = Seal(m)
<1> DEFINE w == OfFrame(m, i)
           x == Seal(m)
           n == Len(x)
<1>1. /\ w \in Seq(Piece) /\ Len(w) = n /\ n \in Nat
      /\ \A j \in 1 .. n : w[j].byte = x[j]
  BY FrameBytes
<1>2. x \in Seq(Byte)
  BY SealPlaces
<1> HIDE DEF w, x
<1>3. Bytes(w) \in Seq(Byte) /\ Len(Bytes(w)) = n /\ \A j \in 1 .. n : Bytes(w)[j] = w[j].byte
  BY <1>1, BytesAre
<1>4. Bytes(w) = x
  BY <1>1, <1>2, <1>3, SeqEqual DEF n
<1> QED
  BY <1>4 DEF w, x

-----------------------------------------------------------------------------
(* What the platform says and the device takes for said *)

Frames == {sent[i] : i \in DOMAIN sent}
Asking == {REGISTERS, REPORT_LOCATION}

(* A stream of whole frames of S. *)
Framed(d, S) == Bordered(d, S) /\ (d # <<>> => d[1] = FLAG)

(* What no read has given yet are frames of the platform, the first cut off  *)
(* anywhere; and an uplink that is not rough carries the device's, whole.    *)
Streams ==
  /\ Bordered(down, said)
  /\ rough => said = {}
  /\ ~ rough => Framed(Bytes(stream), Frames) /\ got \subseteq Frames

(* Frames are numbered one after the other, and not so many that the numbers *)
(* come round.                                                               *)
Numbers ==
  /\ Len(sent) <= MaxSent
  /\ \A i \in DOMAIN sent : (sent[i].seq + ((Len(sent) + 1) - i)) % 8 = DevSeqId

(* What is awaited was sent under its number; if the last frame is one that  *)
(* is awaited it is that one.                                                *)
Waiting ==
  /\ timeout_en => /\ DevMsgId \in Asking
                   /\ \E m \in Frames : m.id = DevMsgId /\ m.seq = numbered
  /\ \A i \in DOMAIN sent : i = Len(sent) /\ sent[i].id \in Asking =>
        sent[i].id = DevMsgId /\ sent[i].seq = numbered

(* The platform acknowledges frames that were sent; and what has been        *)
(* acknowledged is awaited on only if its number cannot be found any more.   *)
Answers ==
  /\ \A a \in said : a.id \in {PLAT_COMMON_rsp, REGISTERS_rsp} =>
       \E m \in Frames : m.id \in Asking \cup {HEART_BEAT} /\ Acks(a, m)
  /\ acks \subseteq {m.seq : m \in Frames}
  /\ timeout_en /\ numbered \in acks => numbered = 7 \/ Next3(numbered) # DevSeqId

AInv == IInv /\ Streams /\ Numbers /\ Waiting /\ Answers /\ OnlySaidIsDone

(* A whole frame goes behind whole frames. *)
LEMMA FramedSeal ==
  ASSUME NEW d \in Seq(Byte), NEW S, S \subseteq Messages, NEW m \in S, Framed(d, S)
  PROVE  Framed(d \o Seal(m), S)
<1>1. Bordered(d \o Seal(m), S)
  BY BorderedSeal DEF Framed
<1> DEFINE x == Seal(m)
           w == d \o x
<1>2. x \in Seq(Byte) /\ Len(x) \in Nat /\ Len(x) >= 5 /\ x[1] = FLAG
  BY SealPlaces
<1> HIDE DEF x
<1>3. IsJoin(w, d, x)
  BY <1>2, Joined
<1>4. w[1] = FLAG
  <2>1. CASE d = <<>>
    <3>1. Len(d) = 0 /\ 1 \in 1 .. Len(x) /\ 0 + 1 = 1
      BY <1>2, <2>1
    <3> QED
      BY <1>2, <1>3, <3>1 DEF IsJoin
  <2>2. CASE d # <<>>
    <3>1. 1 \in 1 .. Len(d)
      BY <2>2
    <3> QED
      BY <1>3, <2>2, <3>1 DEF IsJoin, Framed
  <2> QED
    BY <2>1, <2>2
<1> QED
  BY <1>1, <1>4 DEF Framed, x

(* What has been sent are messages, numbered with bytes. *)
LEMMA FramesAre ==
  ASSUME IInv
  PROVE  /\ sent \in Seq(Messages) /\ Frames \subseteq Messages
         /\ Len(sent) \in Nat /\ DOMAIN sent = 1 .. Len(sent)
         /\ \A i \in DOMAIN sent : sent[i] \in Messages /\ sent[i].seq \in 0 .. 7
         /\ DevSeqId \in 0 .. 7 /\ numbered \in 0 .. 7 /\ said \subseteq Messages
<1>1. sent \in Seq(Messages)
  BY DEF IInv, Carried
<1>2. Len(sent) \in Nat /\ DOMAIN sent = 1 .. Len(sent)
  BY <1>1
<1>3. \A i \in DOMAIN sent : sent[i] \in Messages
  BY <1>1, <1>2, ElementOfSeq
<1>4. \A i \in DOMAIN sent : sent[i].seq \in 0 .. 7
  BY <1>3 DEF Messages, Byte
<1> QED
  BY <1>1, <1>2, <1>3, <1>4 DEF Frames, IInv, Plain, Byte

(* No two frames have a number in common, none the next number, and only the *)
(* last one the number before.                                               *)
LEMMA NumbersDiffer ==
  ASSUME IInv, Numbers
  PROVE  /\ \A i, j \in DOMAIN sent : sent[i].seq = sent[j].seq => i = j
         /\ \A m \in Frames : m.seq # DevSeqId
         /\ \A i \in DOMAIN sent : sent[i].seq = DevSeqId - 1 => i = Len(sent)
<1> DEFINE L == Len(sent)
<1>1. /\ L \in Nat /\ DOMAIN sent = 1 .. L /\ DevSeqId \in 0 .. 7
      /\ \A i \in 1 .. L : sent[i].seq \in 0 .. 7
  BY FramesAre
<1>2. L <= 7
  <2>1. MaxSent \in 0 .. 7 /\ L <= MaxSent
    BY ExchangeAssumption DEF Numbers
  <2> HIDE DEF L
  <2> QED
    BY <1>1, <2>1
<1>3. \A i \in 1 .. L : (sent[i].seq + ((L + 1) - i)) % 8 = DevSeqId
  BY <1>1 DEF Numbers
<1> HIDE DEF L
<1>4. ASSUME NEW i \in 1 .. L, NEW j \in 1 .. L, sent[i].seq = sent[j].seq
      PROVE  i = j
  <2> DEFINE a == (L + 1) - i
             b == (L + 1) - j
             s == sent[i].seq
  <2>1. a \in 1 .. 7 /\ b \in 1 .. 7 /\ s \in 0 .. 7 /\ (a = b => i = j)
    BY <1>1, <1>2
  <2>2. (s + a) % 8 = (s + b) % 8
    BY <1>3, <1>4
  <2> HIDE DEF a, b, s
  <2> QED
    BY <2>1, <2>2
<1>5. ASSUME NEW i \in 1 .. L
      PROVE  /\ sent[i].seq # DevSeqId
             /\ sent[i].seq = DevSeqId - 1 => i = L
  <2> DEFINE a == (L + 1) - i
             s == sent[i].seq
  <2>1. a \in 1 .. 7 /\ s \in 0 .. 7 /\ (a = 1 => i = L)
    BY <1>1, <1>2
  <2>2. (s + a) % 8 = DevSeqId
    BY <1>3
  <2> HIDE DEF a, s
  <2>3. s # DevSeqId /\ (s = DevSeqId - 1 => a = 1)
    BY <1>1, <2>1, <2>2
  <2> QED
    BY <2>1, <2>3 DEF s
<1> QED
  BY <1>1, <1>4, <1>5 DEF Frames, L

-----------------------------------------------------------------------------
(* What a frame of the device changes *)

(* One frame more is numbered next, and arrives if the uplink is not rough. *)
LEMMA CopyKeeps ==
  ASSUME IInv, Streams, Numbers, NEW id \in Byte, NEW body \in Seq(Byte),
         escape_copy_to_send(id, body), rough' = rough, said' = said,
         Bordered(down', said)
  PROVE  /\ Streams' /\ Numbers'
         /\ Frames' = Frames \cup {Message(id, DevSeqId, body)}
         /\ sent' = Append(sent, Message(id, DevSeqId, body))
         /\ DevSeqId' = Next3(DevSeqId)
<1> DEFINE msg == Message(id, DevSeqId, body)
           bytes == OfFrame(msg, Len(sent) + 1)
           L == Len(sent)
<1>1. /\ sent \in Seq(Messages) /\ Frames \subseteq Messages /\ L \in Nat /\ DOMAIN sent = 1 .. L
      /\ DevSeqId \in 0 .. 7 /\ \A i \in 1 .. L : sent[i] \in Messages /\ sent[i].seq \in 0 .. 7
  BY FramesAre
<1>2. msg \in Messages /\ msg.seq = DevSeqId
  BY DEF Message, Messages, IInv, Plain
<1>3. /\ sent' = Append(sent, msg) /\ DevSeqId' = Next3(DevSeqId) /\ L < MaxSent
      /\ IF rough THEN tx' = Ring(tx \o bytes) /\ UNCHANGED uplink
                  ELSE Sent(bytes) /\ UNCHANGED tx
  BY Zenon DEF escape_copy_to_send, OfFrame
<1> HIDE DEF msg
<1>4. /\ Len(sent') = L + 1 /\ DOMAIN sent' = 1 .. L + 1 /\ sent'[L + 1] = msg
      /\ \A i \in 1 .. L : sent'[i] = sent[i]
  BY <1>1, <1>2, <1>3, AppendProperties
<1> HIDE DEF L
<1>5. Frames' = Frames \cup {msg}
  <2>1. \A i \in 1 .. L + 1 : i \in 1 .. L \/ i = L + 1
    BY <1>1
  <2>2. \A i \in 1 .. L : i \in 1 .. L + 1
    BY <1>1
  <2>3. L + 1 \in 1 .. L + 1
    BY <1>1
  <2> QED
    BY <1>1, <1>4, <2>1, <2>2, <2>3 DEF Frames
<1>6. Numbers'
  <2>1. Len(sent') <= MaxSent
    BY <1>1, <1>3, <1>4, ExchangeAssumption
  <2>2. ASSUME NEW i \in 1 .. L + 1
        PROVE  (sent'[i].seq + ((Len(sent') + 1) - i)) % 8 = DevSeqId'
    <3>1. CASE i = L + 1
      <4>1. sent'[i].seq = DevSeqId /\ (Len(sent') + 1) - i = 1
        BY <1>1, <1>2, <1>4, <3>1
      <4> QED
        BY <1>3, <4>1 DEF Next3
    <3>2. CASE i # L + 1
      <4>1. i \in 1 .. L
        BY <1>1, <3>2
      <4> DEFINE s == sent[i].seq
                 a == (L + 1) - i
      <4>2. sent'[i].seq = s /\ (Len(sent') + 1) - i = a + 1 /\ s \in Nat /\ a \in Nat
        <5>3. s \in 0 .. 7
          BY <1>1, <4>1
        <5>4. sent'[i] = sent[i]
          BY <1>4, <4>1
        <5>1. s \in Nat /\ sent'[i] = sent[i]
          BY <5>3, <5>4
        <5> HIDE DEF s
        <5>2. (Len(sent') + 1) - i = a + 1 /\ a \in Nat
          <6> DEFINE N == Len(sent')
          <6>1. N = L + 1 /\ L \in Nat /\ i \in 1 .. L
            BY <1>1, <1>4, <4>1
          <6> HIDE DEF N
          <6>2. (N + 1) - i = a + 1 /\ a \in Nat
            BY <6>1
          <6> QED
            BY <6>2 DEF N
        <5> QED
          BY <5>1, <5>2 DEF s
      <4>3. (s + a) % 8 = DevSeqId
        BY <1>1, <4>1 DEF Numbers, L
      <4> HIDE DEF s, a
      <4>4. (s + (a + 1)) % 8 = (DevSeqId + 1) % 8
        BY <4>2, <4>3
      <4> QED
        BY <1>3, <4>2, <4>4 DEF Next3
    <3> QED
      BY <3>1, <3>2
  <2> QED
    BY <1>4, <2>1, <2>2 DEF Numbers
<1>7. Streams'
  <2>1. CASE rough
    BY <2>1 DEF Streams
  <2>2. CASE ~ rough
    <3> DEFINE t == Bytes(stream)
               R == Frames \cup {msg}
    <3>1. stream \in Seq(Piece) /\ Framed(t, Frames) /\ got \subseteq Frames
      BY <2>2 DEF Streams, IInv, Carried
    <3>2. bytes \in Seq(Piece) /\ Bytes(bytes) = Seal(msg)
      <4>1. Len(sent) + 1 \in Nat
        BY <1>1 DEF L
      <4> QED
        BY <1>2, <4>1, FrameBytes, BytesOfFrame
    <3>3. stream' = stream \o bytes /\ got' = got \cup Found(Bytes(stream'))
      BY <1>3, <2>2 DEF Sent
    <3>4. Bytes(stream') = t \o Seal(msg) /\ t \in Seq(Byte)
      BY <3>1, <3>2, <3>3, BytesJoined, BytesAre
    <3> HIDE DEF t, bytes
    <3>5. R \subseteq Messages /\ msg \in R /\ Framed(t, R)
      BY <1>1, <1>2, <3>1, BorderedMore DEF Framed
    <3> HIDE DEF R
    <3>6. Framed(t \o Seal(msg), R) /\ t \o Seal(msg) \in Seq(Byte)
      BY <1>2, <3>4, <3>5, FramedSeal, SealPlaces, Joined
    <3>7. Found(t \o Seal(msg)) \subseteq R
      BY <3>5, <3>6, FoundAreFramed DEF Framed
    <3>8. got' \subseteq R /\ Framed(Bytes(stream'), R)
      BY <3>1, <3>3, <3>4, <3>6, <3>7 DEF R
    <3> QED
      BY <1>5, <2>2, <3>8 DEF Streams, R
  <2> QED
    BY <2>1, <2>2
<1> QED
  BY <1>3, <1>5, <1>6, <1>7 DEF msg

(* At first nothing is said, sent or awaited. *)
LEMMA AInit == Init => AInv
<1> SUFFICES ASSUME Init PROVE AInv
  OBVIOUS
<1>1. IInv
  BY InitCarried
<1>2. down = <<>> /\ said = {} /\ stream = <<>> /\ got = {} /\ sent = <<>> /\ acks = {}
      /\ opened = NoMessage /\ timeout_en = FALSE
  BY DEF Init
<1> DEFINE t == Bytes(<<>>)
<1>3. t = <<>>
  <2>1. t \in Seq(Byte) /\ Len(t) = 0
    <3>1. <<>> \in Seq(Piece) /\ Len(<<>>) = 0
      BY NothingFound
    <3> QED
      BY <3>1, BytesAre
  <2> HIDE DEF t
  <2> QED
    BY <2>1
<1> HIDE DEF t
<1>4. Streams
  BY <1>2, <1>3, BorderedEmpty DEF Streams, Framed, t
<1>5. Len(sent) = 0 /\ DOMAIN sent = {} /\ Frames = {}
  BY <1>2 DEF Frames
<1>6. Numbers
  BY <1>5, ExchangeAssumption DEF Numbers
<1>7. Waiting /\ Answers
  BY <1>2, <1>5 DEF Waiting, Answers
<1>8. OnlySaidIsDone
  BY <1>2 DEF OnlySaidIsDone, NoMessage, Known, PLAT_COMMON_rsp, REGISTERS_rsp, SET_DEV_PARAM,
              GET_LOCATION, DEL_ROUND_AREA
<1> QED
  BY <1>1, <1>4, <1>6, <1>7, <1>8 DEF AInv

(* A frame that is not awaited changes nothing that is awaited. *)
LEMMA OtherCopyKeeps ==
  ASSUME IInv, Streams, Numbers, Waiting, Answers,
         NEW id \in Byte \ Asking, NEW body \in Seq(Byte),
         escape_copy_to_send(id, body), Bordered(down', said),
         UNCHANGED <<DevMsgId, timeout_en, numbered, said, acks, rough>>
  PROVE  Streams' /\ Numbers' /\ Waiting' /\ Answers'
<1> DEFINE msg == Message(id, DevSeqId, body)
<1>1. /\ Streams' /\ Numbers' /\ Frames' = Frames \cup {msg}
      /\ sent' = Append(sent, msg) /\ DevSeqId' = Next3(DevSeqId)
  BY CopyKeeps
<1>2. /\ sent \in Seq(Messages) /\ Len(sent) \in Nat /\ DevSeqId \in 0 .. 7 /\ numbered \in 0 .. 7
  BY FramesAre
<1>3. msg.id = id /\ msg.seq = DevSeqId /\ msg \in Messages
  BY <1>2 DEF Message, Messages, Byte
<1> HIDE DEF msg
<1>4. Len(sent') = Len(sent) + 1 /\ sent'[Len(sent) + 1] = msg
  BY <1>1, <1>2, <1>3, AppendProperties
<1>5. Waiting'
  <2>1. \A i \in DOMAIN sent' : i = Len(sent') => sent'[i].id \notin Asking
    BY <1>3, <1>4
  <2>2. timeout_en' => /\ DevMsgId' \in Asking
                       /\ \E m \in Frames' : m.id = DevMsgId' /\ m.seq = numbered'
    BY <1>1 DEF Waiting
  <2> QED
    BY <2>1, <2>2 DEF Waiting
<1>6. Answers'
  <2>1. /\ \A a \in said' : a.id \in {PLAT_COMMON_rsp, REGISTERS_rsp} =>
             \E m \in Frames' : m.id \in Asking \cup {HEART_BEAT} /\ Acks(a, m)
        /\ acks' \subseteq {m.seq : m \in Frames'}
    BY <1>1 DEF Answers
  <2>2. ASSUME timeout_en', numbered' \in acks'
        PROVE  numbered' = 7 \/ Next3(numbered') # DevSeqId'
    <3>1. PICK m \in Frames : m.seq = numbered
      BY <2>2 DEF Waiting
    <3>2. numbered # DevSeqId
      BY <3>1, NumbersDiffer
    <3> QED
      BY <1>1, <1>2, <3>2 DEF Next3
  <2> QED
    BY <2>1, <2>2 DEF Answers
<1> QED
  BY <1>1, <1>5, <1>6

(* One that is awaited is awaited under its number, which nobody has         *)
(* acknowledged.                                                             *)
LEMMA AskedCopyKeeps ==
  ASSUME IInv, Streams, Numbers, Waiting, Answers,
         NEW id \in Asking, NEW body \in Seq(Byte),
         escape_copy_to_send(id, body), Bordered(down', said),
         DevMsgId' = id, numbered' = DevSeqId,
         UNCHANGED <<said, acks, rough>>
  PROVE  Streams' /\ Numbers' /\ Waiting' /\ Answers'
<1> DEFINE msg == Message(id, DevSeqId, body)
<1>0. id \in Byte
  BY Names DEF Asking
<1>1. /\ Streams' /\ Numbers' /\ Frames' = Frames \cup {msg}
      /\ sent' = Append(sent, msg) /\ DevSeqId' = Next3(DevSeqId)
  BY <1>0, CopyKeeps
<1>2. /\ sent \in Seq(Messages) /\ Len(sent) \in Nat /\ DevSeqId \in 0 .. 7
  BY FramesAre
<1>3. msg.id = id /\ msg.seq = DevSeqId /\ msg \in Messages
  BY <1>0, <1>2 DEF Message, Messages, Byte
<1> HIDE DEF msg
<1>4. Len(sent') = Len(sent) + 1 /\ sent'[Len(sent) + 1] = msg
  BY <1>1, <1>2, <1>3, AppendProperties
<1>5. Waiting'
  BY <1>1, <1>3, <1>4 DEF Waiting
<1>6. Answers'
  <2>1. /\ \A a \in said' : a.id \in {PLAT_COMMON_rsp, REGISTERS_rsp} =>
             \E m \in Frames' : m.id \in Asking \cup {HEART_BEAT} /\ Acks(a, m)
        /\ acks' \subseteq {m.seq : m \in Frames'}
    BY <1>1 DEF Answers
  <2>2. numbered' \notin acks'
    BY NumbersDiffer DEF Answers
  <2> QED
    BY <2>1, <2>2 DEF Answers
<1> QED
  BY <1>1, <1>5, <1>6

(* The platform says what is new to it. *)
LEMMA SayKeeps ==
  ASSUME IInv, Streams, Numbers, Waiting, Answers,
         NEW id \in Byte, NEW body \in Seq(Byte), Say(id, body),
         id \in {PLAT_COMMON_rsp, REGISTERS_rsp} =>
           \E m \in Frames : m.id \in Asking \cup {HEART_BEAT} /\ Acks(Message(id, platSeq, body), m)
  PROVE  Streams' /\ Numbers' /\ Waiting' /\ Answers'
<1> DEFINE msg == Message(id, platSeq, body)
<1>1. /\ ~ rough /\ said' = said \cup {msg} /\ down' = down \o Seal(msg)
      /\ UNCHANGED <<DevSeqId, DevMsgId, timeout_en, timeout_data, numbered, sent, tx, stream, got,
                     acks, rough>>
  BY DEF Say, device, uplink
<1>2. msg \in Messages /\ msg.id = id
  BY DEF IInv, Plain, Message, Messages
<1>3. id \in {PLAT_COMMON_rsp, REGISTERS_rsp} =>
        \E m \in Frames : m.id \in Asking \cup {HEART_BEAT} /\ Acks(msg, m)
  OBVIOUS
<1> HIDE DEF msg
<1>4. Frames' = Frames
  BY <1>1 DEF Frames
<1>5. Bordered(down', said')
  <2> DEFINE S == said \cup {msg}
  <2>1. S \subseteq Messages /\ msg \in S /\ down \in Seq(Byte)
    BY <1>2, FramesAre DEF IInv, Plain
  <2>2. Bordered(down, S)
    BY BorderedMore DEF Streams
  <2> HIDE DEF S
  <2>3. Bordered(down \o Seal(msg), S)
    BY <2>1, <2>2, BorderedSeal
  <2> QED
    BY <1>1, <2>3 DEF S
<1>6. Streams'
  BY <1>1, <1>4, <1>5 DEF Streams
<1>7. Numbers' /\ Waiting'
  BY <1>1, <1>4 DEF Numbers, Waiting
<1>8. Answers'
  BY <1>1, <1>2, <1>3, <1>4 DEF Answers
<1> QED
  BY <1>6, <1>7, <1>8

(* What the platform acknowledges it has found, and so was sent. *)
LEMMA AcknowledgeKeeps ==
  ASSUME IInv, Streams, Numbers, Waiting, Answers, NEW msg \in got, Acknowledge(msg)
  PROVE  Streams' /\ Numbers' /\ Waiting' /\ Answers'
<1>1. msg.id \in Asking \cup {HEART_BEAT} /\ Say(AckId(msg), AckBody(msg))
  BY DEF Acknowledge, Asking
<1>2. ~ rough /\ msg \in Frames
  BY <1>1 DEF Say, Streams
<1>3. msg.id \in Byte /\ msg.seq \in Byte
  BY <1>2, FramesAre DEF Messages
<1>4. AckId(msg) \in Byte
  BY Names DEF AckId
<1>5. AckBody(msg) \in Seq(Byte)
  BY <1>3, Names, BytesOf DEF AckBody
<1>6. Acks(Message(AckId(msg), platSeq, AckBody(msg)), msg)
  BY DEF Acks, Message
<1> QED
  BY <1>1, <1>2, <1>4, <1>5, <1>6, SayKeeps

(* What a message that is taken for an acknowledgement tells. *)
LEMMA AckTells ==
  ASSUME IInv, Answers, NEW o \in Messages, NEW a \in said,
         o.id = a.id, a.id \in {PLAT_COMMON_rsp, REGISTERS_rsp}, IsPrefix(a.body, o.body)
  PROVE  \E m \in Frames :
           /\ m.id \in Asking \cup {HEART_BEAT} /\ Acks(a, m) /\ o.id = AckId(m)
           /\ Told(o.body, 1) = {m.seq}
           /\ m.id # REGISTERS => Told(o.body, 2) = {m.id}
<1>1. PICK m \in Frames : m.id \in Asking \cup {HEART_BEAT} /\ Acks(a, m)
  BY DEF Answers
<1> DEFINE b == a.body
           c == o.body
<1>2. a \in Messages /\ m \in Messages
  BY FramesAre
<1>3. b \in Seq(Byte) /\ c \in Seq(Byte) /\ Len(c) \in Nat
  BY <1>2 DEF Messages
<1>4. Len(b) = 3 /\ b[1] = m.seq /\ (m.id # REGISTERS => b[2] = m.id)
  BY <1>1 DEF Acks, AckBody
<1>5. IsPrefix(b, c)
  OBVIOUS
<1> HIDE DEF b, c
<1>6. Len(b) <= Len(c) /\ \A j \in 1 .. Len(b) : b[j] = c[j]
  BY <1>3, <1>5, PrefixGives
<1>7. 1 <= Len(c) /\ 2 <= Len(c) /\ c[1] = b[1] /\ c[2] = b[2]
  BY <1>3, <1>4, <1>6
<1>8. Told(c, 1) = {m.seq} /\ (m.id # REGISTERS => Told(c, 2) = {m.id})
  BY <1>4, <1>7 DEF Told
<1>9. o.id = AckId(m)
  BY <1>1 DEF Acks
<1> QED
  BY <1>1, <1>8, <1>9 DEF c

(* An acknowledgement is taken: what it ends is the wait for the last frame. *)
LEMMA AckKeeps ==
  ASSUME AInv, NEW a \in said, NEW f \in Frames, f.id \in Asking \cup {HEART_BEAT}, Acks(a, f),
         timeout_en' <=> timeout_en /\ ~ (AwaitedNumber(f.seq) /\ (f.id = REGISTERS \/ f.id = DevMsgId)),
         acks' = acks \cup {f.seq}, Bordered(down', said),
         UNCHANGED <<DevSeqId, sent, stream, got, DevMsgId, timeout_data, numbered, said, rough>>
  PROVE  /\ Streams' /\ Numbers' /\ Waiting' /\ Answers'
         /\ timeout_en /\ ~ timeout_en' =>
              \E ack \in said : Acks(ack, Message(DevMsgId, numbered, timeout_data))
<1>0. IInv /\ Streams /\ Numbers /\ Waiting /\ Answers
  BY DEF AInv
<1>1. Frames' = Frames
  BY DEF Frames
<1>2. Streams' /\ Numbers'
  BY <1>0, <1>1 DEF Streams, Numbers
<1>3. Waiting'
  BY <1>0, <1>1 DEF Waiting
<1>4. /\ f \in Messages /\ f.seq \in 0 .. 7 /\ numbered \in 0 .. 7 /\ DevSeqId \in 0 .. 7
      /\ Frames \subseteq Messages
  BY <1>0, FramesAre DEF Frames
<1>5. Answers'
  <2>1. ASSUME timeout_en', numbered' \in acks'
        PROVE  numbered' = 7 \/ Next3(numbered') # DevSeqId'
    <3>1. CASE numbered \in acks
      BY <1>0, <2>1, <3>1 DEF Answers
    <3>2. CASE numbered = f.seq /\ numbered # 7 /\ Next3(numbered) = DevSeqId
      <4>1. f.seq = DevSeqId - 1
        BY <1>4, <3>2 DEF Next3
      <4>2. PICK m \in Frames : m.id = DevMsgId /\ m.seq = numbered
        BY <1>0, <2>1 DEF Waiting
      <4>3. m = f
        BY <1>0, <3>2, <4>2, NumbersDiffer DEF Frames
      <4> QED
        BY <2>1, <4>1, <4>2, <4>3 DEF AwaitedNumber
    <3> QED
      BY <2>1, <3>1, <3>2
  <2>2. acks' \subseteq {m.seq : m \in Frames'}
    BY <1>0, <1>1 DEF Answers
  <2>3. \A b \in said' : b.id \in {PLAT_COMMON_rsp, REGISTERS_rsp} =>
          \E m \in Frames' : m.id \in Asking \cup {HEART_BEAT} /\ Acks(b, m)
    BY <1>0, <1>1 DEF Answers
  <2> QED
    BY <2>1, <2>2, <2>3 DEF Answers
<1>6. ASSUME timeout_en, ~ timeout_en'
      PROVE  Acks(a, Message(DevMsgId, numbered, timeout_data))
  <2>1. f.seq = DevSeqId - 1 /\ (f.id = REGISTERS \/ f.id = DevMsgId)
    BY <1>6 DEF AwaitedNumber
  <2>2. f = sent[Len(sent)] /\ Len(sent) \in DOMAIN sent
    BY <1>0, <2>1, NumbersDiffer DEF Frames
  <2>3. f.id \in Asking
    BY <1>0, <1>6, <2>1 DEF Waiting, Asking
  <2>4. f.id = DevMsgId /\ f.seq = numbered
    BY <1>0, <2>2, <2>3 DEF Waiting
  <2> QED
    BY <2>4 DEF Acks, AckId, AckBody, Message
<1> QED
  BY <1>2, <1>3, <1>5, <1>6

(* A read, wherever it cuts. *)
LEMMA ReadAnswers ==
  ASSUME AInv, NEW n \in DOMAIN down, JT808_recv_analysis(n)
  PROVE  /\ Streams' /\ Numbers' /\ Waiting' /\ Answers' /\ OnlySaidIsDone'
         /\ timeout_en /\ ~ timeout_en' =>
              \E ack \in said : Acks(ack, Message(DevMsgId, numbered, timeout_data))
<1> DEFINE data == SubSeq(down, 1, n)
           msg == FrameOf(data)
           rest == SubSeq(down, n + 1, Len(down))
           Tells(o) == \E m \in said : o.id = m.id /\ o.seq = m.seq /\ IsPrefix(m.body, o.body)
<1>0. IInv /\ Streams /\ Numbers /\ Waiting /\ Answers
  BY DEF AInv
<1>1. down \in Seq(Byte) /\ n \in 1 .. Len(down) /\ said \subseteq Messages /\ Bordered(down, said)
  BY <1>0 DEF IInv, Plain, Streams
<1>2. data \in Seq(Byte)
  <2>1. Len(down) \in Nat /\ 1 \in Nat \ {0} /\ n \in Nat /\ 1 <= n + 1 /\ n <= Len(down)
    BY <1>1
  <2> QED
    BY <1>1, <2>1, Cut
<1>3. msg \in Messages \cup {NoMessage}
  BY <1>2, FrameGives
<1>4. Bordered(rest, said)
  BY <1>1, BorderedRest
<1>5. msg.id \in Known => Tells(msg)
  BY <1>1, KnownIsFramed
<1>6. /\ down' = rest /\ opened' = msg
      /\ CASE msg = NoMessage -> UNCHANGED <<timeout_en, acks, DevSeqId, sent, tx, uplink>>
           [] msg.id = REGISTERS_rsp -> REGISTERED(msg)
           [] msg.id = PLAT_COMMON_rsp -> PLAT_COMMON(msg)
           [] OTHER -> JT808_ServReq_handle(msg)
      /\ UNCHANGED <<DevMsgId, timeout_data, numbered, platSeq, said, conns, rough>>
  BY Zenon DEF JT808_recv_analysis
<1> HIDE DEF msg, rest, data
<1>7. OnlySaidIsDone'
  BY <1>5, <1>6 DEF OnlySaidIsDone
<1> HIDE DEF Tells
<1>8. Bordered(down', said)
  BY <1>4, <1>6
<1>9. CASE UNCHANGED <<timeout_en, acks, DevSeqId, sent, tx, uplink>>
  <2>1. Frames' = Frames
    BY <1>9 DEF Frames
  <2>2. Streams' /\ Numbers'
    BY <1>0, <1>6, <1>8, <1>9, <2>1 DEF Streams, Numbers, uplink
  <2>3. Waiting' /\ Answers'
    BY <1>0, <1>6, <1>9, <2>1 DEF Waiting, Answers
  <2> QED
    BY <1>7, <1>9, <2>2, <2>3
<1>10. ASSUME msg \in Messages, msg.id \in {PLAT_COMMON_rsp, REGISTERS_rsp}
       PROVE  \E a \in said : \E f \in Frames :
                /\ f.id \in Asking \cup {HEART_BEAT} /\ Acks(a, f) /\ msg.id = AckId(f)
                /\ Told(msg.body, 1) = {f.seq}
                /\ f.id # REGISTERS => Told(msg.body, 2) = {f.id}
  <2>1. PICK a \in said : msg.id = a.id /\ IsPrefix(a.body, msg.body)
    BY <1>5, <1>10 DEF Known, Tells
  <2> QED
    BY <1>0, <1>10, <2>1, AckTells
<1>11. CASE msg \in Messages /\ msg.id = REGISTERS_rsp /\ REGISTERED(msg)
  <2>1. PICK a \in said, f \in Frames :
          /\ f.id \in Asking \cup {HEART_BEAT} /\ Acks(a, f) /\ msg.id = AckId(f)
          /\ Told(msg.body, 1) = {f.seq}
    BY <1>10, <1>11
  <2>2. f.id = REGISTERS
    BY <1>11, <2>1 DEF AckId, PLAT_COMMON_rsp, REGISTERS_rsp
  <2>3. PICK seq \in Told(msg.body, 1) :
          /\ timeout_en' = (timeout_en /\ ~ AwaitedNumber(seq)) /\ acks' = acks \cup {seq}
    BY <1>11, Zenon DEF REGISTERED
  <2>4. seq = f.seq
    BY <2>1, <2>3
  <2>5. timeout_en' <=> timeout_en /\ ~ (AwaitedNumber(f.seq) /\ (f.id = REGISTERS \/ f.id = DevMsgId))
    BY <2>2, <2>3, <2>4, Zenon
  <2>6. UNCHANGED <<DevSeqId, sent, stream, got>>
    BY <1>11 DEF REGISTERED, uplink
  <2> QED
    BY <1>6, <1>7, <1>8, <2>1, <2>3, <2>4, <2>5, <2>6, AckKeeps
<1>12. CASE msg \in Messages /\ msg.id = PLAT_COMMON_rsp /\ PLAT_COMMON(msg)
  <2>1. PICK a \in said, f \in Frames :
          /\ f.id \in Asking \cup {HEART_BEAT} /\ Acks(a, f) /\ msg.id = AckId(f)
          /\ Told(msg.body, 1) = {f.seq}
          /\ f.id # REGISTERS => Told(msg.body, 2) = {f.id}
    BY <1>10, <1>12
  <2>2. f.id # REGISTERS
    BY <1>12, <2>1 DEF AckId, PLAT_COMMON_rsp, REGISTERS_rsp
  <2>3. PICK seq \in Told(msg.body, 1), id \in Told(msg.body, 2) :
          /\ timeout_en' = (timeout_en /\ ~ (AwaitedNumber(seq) /\ id = DevMsgId))
          /\ acks' = acks \cup {seq}
    BY <1>12, Zenon DEF PLAT_COMMON
  <2>4. seq = f.seq /\ id = f.id
    BY <2>1, <2>2, <2>3
  <2>5. timeout_en' <=> timeout_en /\ ~ (AwaitedNumber(f.seq) /\ (f.id = REGISTERS \/ f.id = DevMsgId))
    BY <2>2, <2>3, <2>4, Zenon
  <2>6. UNCHANGED <<DevSeqId, sent, stream, got>>
    BY <1>12 DEF PLAT_COMMON, uplink
  <2> QED
    BY <1>6, <1>7, <1>8, <2>1, <2>3, <2>4, <2>5, <2>6, AckKeeps
<1>13. CASE msg \in Messages /\ JT808_ServReq_handle(msg)
  <2> DEFINE id == IF msg.id = GET_LOCATION THEN GET_LOCATION_rsp ELSE DEV_COMMON_rsp
             b == BuildMsgbody(id, <<>>, msg, Status(msg))
  <2>1. id \in Byte \ Asking
    BY Names DEF Asking, GET_LOCATION_rsp, DEV_COMMON_rsp, REGISTERS, REPORT_LOCATION
  <2>2. Status(msg) \in Byte /\ msg.id \in Byte /\ msg.seq \in Byte
    BY <1>13, Names DEF Status, Messages
  <2> HIDE DEF id
  <2>3. b \in Seq(Byte)
    BY <2>2, BodyGives, BytesOf
  <2> HIDE DEF b
  <2>4. escape_copy_to_send(id, b) /\ UNCHANGED <<timeout_en, acks>>
    BY <1>13 DEF JT808_ServReq_handle, JT808MsgRsp_Send, id, b
  <2>5. Streams' /\ Numbers' /\ Waiting' /\ Answers'
    BY <1>0, <1>6, <1>8, <2>1, <2>3, <2>4, OtherCopyKeeps
  <2> QED
    BY <1>7, <2>4, <2>5
<1> QED
  <2>1. CASE msg = NoMessage
    <3>1. ~ (msg.id = REGISTERS_rsp) /\ ~ (msg.id = PLAT_COMMON_rsp)
      BY <2>1 DEF NoMessage, REGISTERS_rsp, PLAT_COMMON_rsp
    <3>2. UNCHANGED <<timeout_en, acks, DevSeqId, sent, tx, uplink>>
      BY <1>6, <2>1, <3>1, Zenon
    <3> QED
      BY ONLY <1>9, <3>2, Zenon
  <2>2. CASE msg # NoMessage
    BY ONLY <1>3, <1>6, <1>11, <1>12, <1>13, <2>2, Zenon
  <2> QED
    BY <2>1, <2>2

(* What is done when nothing is read leaves what the platform said, and what *)
(* is awaited, as they belong together.                                      *)
LEMMA OtherAnswers ==
  ASSUME AInv, Others
  PROVE  Streams' /\ Numbers' /\ Waiting' /\ Answers'
<1>0. IInv /\ Streams /\ Numbers /\ Waiting /\ Answers /\ Bordered(down, said)
  BY DEF AInv, Streams
<1>1. ASSUME NEW id \in Asking, NEW body \in Seq(Byte), DevReq2ServPackag_build(id, body)
      PROVE  Streams' /\ Numbers' /\ Waiting' /\ Answers'
  <2>1. BuildMsgbody(id, body, NoMessage, 0) = body
    BY DEF BuildMsgbody, Asking, DEV_COMMON_rsp, GET_LOCATION_rsp, HEART_BEAT, REGISTERS,
           REPORT_LOCATION
  <2>2. /\ escape_copy_to_send(id, body) /\ DevMsgId' = id /\ numbered' = DevSeqId
        /\ UNCHANGED <<platform, acks, rough>>
    BY <1>1, <2>1 DEF DevReq2ServPackag_build
  <2>3. down' = down /\ said' = said
    BY <2>2 DEF platform
  <2> QED
    BY <1>0, <2>2, <2>3, AskedCopyKeeps
<1>2. CASE DevReq2ServPackag_build(REGISTERS, <<>>)
  BY <1>1, <1>2, BytesOf DEF Asking
<1>3. ASSUME NEW body \in Reports, DevReq2ServPackag_build(REPORT_LOCATION, body)
      PROVE  Streams' /\ Numbers' /\ Waiting' /\ Answers'
  <2>1. body \in Seq(Byte)
    BY ExchangeAssumption
  <2> QED
    BY <1>1, <1>3, <2>1 DEF Asking
<1>4. CASE Heartbeat
  <2>1. HEART_BEAT \in Byte \ Asking
    BY Names DEF Asking, HEART_BEAT, REGISTERS, REPORT_LOCATION
  <2>2. BuildMsgbody(HEART_BEAT, <<>>, NoMessage, 0) = <<>>
    BY DEF BuildMsgbody, HEART_BEAT, DEV_COMMON_rsp, GET_LOCATION_rsp
  <2>3. /\ escape_copy_to_send(HEART_BEAT, <<>>)
        /\ UNCHANGED <<DevMsgId, timeout_en, numbered, platform, acks, rough>>
    BY <1>4, <2>2 DEF Heartbeat
  <2>4. down' = down /\ said' = said
    BY <2>3 DEF platform
  <2> QED
    BY <1>0, <2>1, <2>3, <2>4, BytesOf, OtherCopyKeeps
<1>5. CASE SendAgain
  <2>1. /\ timeout_en /\ escape_copy_to_send(DevMsgId, timeout_data) /\ numbered' = DevSeqId
        /\ UNCHANGED <<DevMsgId, platform, acks, rough>>
    BY <1>5 DEF SendAgain
  <2>2. timeout_data \in Seq(Byte)
    BY <1>0, BytesOf, ExchangeAssumption DEF IInv, Plain
  <2>3. DevMsgId \in Asking
    BY <1>0, <2>1 DEF Waiting
  <2>4. down' = down /\ said' = said
    BY <2>1 DEF platform
  <2> QED
    BY <1>0, <2>1, <2>2, <2>3, <2>4, AskedCopyKeeps
<1>6. CASE GiveUp
  <2>1. /\ ~ timeout_en'
        /\ UNCHANGED <<DevSeqId, DevMsgId, numbered, sent, stream, got, down, said, acks, rough>>
    BY <1>6 DEF GiveUp, uplink, platform
  <2>2. Frames' = Frames
    BY <2>1 DEF Frames
  <2>3. Streams' /\ Numbers'
    BY <1>0, <2>1, <2>2 DEF Streams, Numbers
  <2>4. Waiting' /\ Answers'
    BY <1>0, <2>1, <2>2 DEF Waiting, Answers
  <2> QED
    BY <2>3, <2>4
<1>7. ASSUME rough,
             UNCHANGED <<DevSeqId, DevMsgId, timeout_en, numbered, sent, down, said, acks, rough>>
      PROVE  Streams' /\ Numbers' /\ Waiting' /\ Answers'
  <2>1. Frames' = Frames
    BY <1>7 DEF Frames
  <2>2. Streams' /\ Numbers'
    BY <1>0, <1>7, <2>1 DEF Streams, Numbers
  <2>3. Waiting' /\ Answers'
    BY <1>0, <1>7, <2>1 DEF Waiting, Answers
  <2> QED
    BY <2>2, <2>3
<1>8. ASSUME NEW ok \in BOOLEAN, oa_soc_send_req(ok)
      PROVE  Streams' /\ Numbers' /\ Waiting' /\ Answers'
  BY <1>7, <1>8 DEF oa_soc_send_req, device, platform
<1>9. CASE Reconnect
  BY <1>7, <1>9 DEF Reconnect, device, platform
<1>10. ASSUME NEW msg \in got, Acknowledge(msg)
       PROVE  Streams' /\ Numbers' /\ Waiting' /\ Answers'
  BY <1>0, <1>10, AcknowledgeKeeps
<1>11. ASSUME NEW id \in Requests, NEW body \in Orders, Say(id, body)
       PROVE  Streams' /\ Numbers' /\ Waiting' /\ Answers'
  <2>1. id \in Byte /\ body \in Seq(Byte) /\ id \notin {PLAT_COMMON_rsp, REGISTERS_rsp}
    BY ExchangeAssumption
  <2> QED
    BY <1>0, <1>11, <2>1, SayKeeps
<1> QED
  BY <1>2, <1>3, <1>4, <1>5, <1>6, <1>8, <1>9, <1>10, <1>11 DEF Others

(* No message is none of the protocol's. *)
LEMMA NothingIsUnknown == NoMessage.id \notin Known
BY DEF NoMessage, Known, PLAT_COMMON_rsp, REGISTERS_rsp, SET_DEV_PARAM, GET_LOCATION, DEL_ROUND_AREA

(* Every step keeps all of it. *)
LEMMA AStep == AInv /\ [Next]_vars => AInv'
<1> SUFFICES ASSUME AInv, [Next]_vars
             PROVE  AInv'
  OBVIOUS
<1>1. IInv'
  BY StepKept DEF AInv
<1>2. CASE Others /\ opened' = NoMessage
  <2>1. Streams' /\ Numbers' /\ Waiting' /\ Answers'
    BY <1>2, OtherAnswers
  <2>2. OnlySaidIsDone'
    BY <1>2, NothingIsUnknown DEF OnlySaidIsDone
  <2> QED
    BY <1>1, <2>1, <2>2 DEF AInv
<1>3. ASSUME NEW n \in DOMAIN down, JT808_recv_analysis(n)
      PROVE  AInv'
  BY <1>1, <1>3, ReadAnswers DEF AInv
<1>4. CASE UNCHANGED vars
  <2>1. UNCHANGED <<DevSeqId, DevMsgId, timeout_en, numbered, sent, stream, got, down, said, acks,
                    rough, opened>>
    BY <1>4 DEF vars, device, uplink, platform
  <2>2. Frames' = Frames
    BY <2>1 DEF Frames
  <2>3. Streams' /\ Numbers'
    BY <2>1, <2>2 DEF AInv, Streams, Numbers
  <2>4. Waiting' /\ Answers'
    BY <2>1, <2>2 DEF AInv, Waiting, Answers
  <2>5. OnlySaidIsDone'
    BY <2>1 DEF AInv, OnlySaidIsDone
  <2> QED
    BY <1>1, <2>3, <2>4, <2>5 DEF AInv
<1> QED
  BY <1>2, <1>3, <1>4 DEF Next

(* Streams of whole frames, numbers that do not come round, and what is      *)
(* awaited and what is acknowledged by them, in every state.                 *)
THEOREM AnswersHold == Spec => []AInv
BY AInit, AStep, PTL DEF Spec

(* The ring keeps to its size; and wherever reads cut the stream, what is    *)
(* carried out or taken for an acknowledgement is a message that the         *)
(* platform sent (oa_jt808.c:2846-2890), whatever bytes the messages have.   *)
THEOREM OnlySaid == Spec => []ExchangeInv
<1>1. AInv => ExchangeInv
  BY DEF AInv, ExchangeInv, IInv, Plain, Carried, TypeOK
<1> QED
  BY <1>1, AnswersHold, PTL

(* The wait is over only by the acknowledgement of what was sent last, under *)
(* its last number (oa_jt808.c:2914, 3037).                                  *)
THEOREM WaitEnds == Spec => WaitEndsByItsAck
<1> DEFINE Acked == \E ack \in said : Acks(ack, Message(DevMsgId, numbered, timeout_data))
           Over == timeout_en /\ ~ timeout_en' /\ ~ GiveUp
<1>1. AInv /\ [Next]_vars => [Over => Acked]_vars
  <2> SUFFICES ASSUME AInv, Next, Over
               PROVE  Acked
    OBVIOUS
  <2>1. ~ Others
    BY DEF Others, DevReq2ServPackag_build, Heartbeat, SendAgain, oa_soc_send_req, Reconnect,
           Acknowledge, Say, device
  <2>2. PICK n \in DOMAIN down : JT808_recv_analysis(n)
    BY <2>1 DEF Next
  <2> QED
    BY <2>2, ReadAnswers
<1> QED
  BY <1>1, AnswersHold, PTL DEF Spec, WaitEndsByItsAck

(* What was acknowledged is sent again only if another frame was numbered    *)
(* after it or its number is the last before the wrap (oa_jt808.c:3037).     *)
THEOREM SentAgain == Spec => SentAgainIfUnknown
<1> DEFINE Unknown == numbered \notin acks \/ numbered = 7 \/ Next3(numbered) # DevSeqId
<1>1. AInv /\ [Next]_vars => [SendAgain => Unknown]_vars
  <2> SUFFICES ASSUME AInv, SendAgain
               PROVE  Unknown
    OBVIOUS
  <2>1. timeout_en
    BY DEF SendAgain
  <2> QED
    BY <2>1 DEF AInv, Answers
<1> QED
  BY <1>1, AnswersHold, PTL DEF Spec, SentAgainIfUnknown

=============================================================================
