------------------------- MODULE HidDescriptorProofs -------------------------
(***************************************************************************)
(* Theorems about the report descriptor of a device: its parsers end on    *)
(* any bytes, and find what a descriptor means on any whole items.         *)
(***************************************************************************)
EXTENDS HidProgram, FiniteSetTheorems, SequenceTheorems, WellFoundedInduction, TLAPS

Byte == 0 .. 255

-----------------------------------------------------------------------------
(* Functions that are defined by recursion. *)

LEMMA SomeLeast ==
  ASSUME NEW S, S \subseteq Nat, S # {}
  PROVE  Min(S) \in S /\ \A x \in S : Min(S) <= x
<1>1. \E m \in S : \A x \in S : <<x, m>> \notin OpToRel(<, Nat)
  BY NatLessThanWellFounded, WFMin
<1>2. PICK m \in S : \A x \in S : <<x, m>> \notin OpToRel(<, Nat)
  BY <1>1
<1>3. \A x \in S : ~(x < m)
  BY <1>2 DEF OpToRel
<1>4. \A x \in S : m <= x
  BY <1>3
<1> QED
  BY <1>4 DEF Min

(* Induction, up to n or down from it: T holds those it is true of.        *)
LEMMA Upward ==
  ASSUME NEW a \in Nat, NEW n \in Nat, NEW T,
         a <= n => a \in T,
         \A m \in a .. n : m + 1 \in a .. n /\ m \in T => m + 1 \in T
  PROVE  \A m \in a .. n : m \in T
<1> DEFINE Odd == {m \in a .. n : m \notin T}
<1>1. CASE Odd = {}
  BY <1>1
<1>2. CASE Odd # {}
  <2>1. Odd \subseteq Nat
    OBVIOUS
  <2>2. PICK m \in Odd : \A x \in Odd : m <= x
    <3> HIDE DEF Odd
    <3> QED
      BY <1>2, <2>1, SomeLeast
  <2>3. m \in a .. n /\ m \notin T /\ m # a
    BY <2>2
  <2>4. m - 1 \in a .. n /\ ~(m <= m - 1) /\ m = (m - 1) + 1
    BY <2>3
  <2>5. m - 1 \in T
    BY <2>2, <2>4
  <2> QED
    BY <2>3, <2>4, <2>5
<1> QED
  BY <1>1, <1>2

LEMMA Downward ==
  ASSUME NEW a \in Nat, NEW n \in Nat, NEW T,
         a <= n => n \in T,
         \A m \in a .. n : m - 1 \in a .. n /\ m \in T => m - 1 \in T
  PROVE  \A m \in a .. n : m \in T
<1> DEFINE U == {k \in 0 .. n : n - k \in T}
<1>1. CASE a <= n
  <2>1. 0 \in 0 .. n - a => 0 \in U
    BY <1>1
  <2>2. ASSUME NEW k \in 0 .. n - a, k + 1 \in 0 .. n - a, k \in U
        PROVE  k + 1 \in U
    <3>1. n - k \in a .. n /\ (n - k) - 1 \in a .. n /\ n - k \in T /\ (n - k) - 1 = n - (k + 1)
      BY <1>1, <2>2
    <3>2. n - (k + 1) \in T
      BY <3>1
    <3> QED
      BY <1>1, <2>2, <3>2
  <2> DEFINE far == n - a
  <2>3. far \in Nat /\ 0 \in Nat
    BY <1>1
  <2>4. \A k \in 0 .. far : k \in U
    <3>1. 0 <= far => 0 \in U
      BY <1>1, <2>1
    <3>2. \A k \in 0 .. far : k + 1 \in 0 .. far /\ k \in U => k + 1 \in U
      BY <2>2
    <3> HIDE DEF U, far
    <3> QED
      BY <2>3, <3>1, <3>2, Upward
  <2>5. ASSUME NEW m \in a .. n PROVE m \in T
    <3>1. n - m \in 0 .. n - a /\ m = n - (n - m)
      BY <1>1
    <3> QED
      BY <2>4, <3>1
  <2> QED
    BY <2>5
<1>2. CASE ~(a <= n)
  BY <1>2
<1> QED
  BY <1>1, <1>2

(* A function that is defined along chains of arguments that have an end,  *)
(* and what its values have in common.                                     *)
Ends(D, N, rank, stop, next) ==
  /\ N \in Nat /\ \A a \in D : rank[a] \in Nat
  /\ \A a \in D : ~stop[a] => next[a] \in D /\ rank[a] < N /\ rank[a] < rank[next[a]]

Follows(f, D, stop, res, next) == f = [a \in D |-> IF stop[a] THEN res[a] ELSE f[next[a]]]

LEMMA Chain ==
  ASSUME NEW D, NEW R, NEW N, NEW rank, NEW stop, NEW res, NEW next,
         Ends(D, N, rank, stop, next),
         \A a \in D : IF stop[a] THEN res[a] \in R[a] ELSE R[next[a]] \subseteq R[a]
  PROVE  /\ \E f : Follows(f, D, stop, res, next)
         /\ \A f : Follows(f, D, stop, res, next) => \A a \in D : f[a] \in R[a]
<1> DEFINE Late(k) == {a \in D : N - k <= rank[a]}
           Solves(f, k) == \A a \in Late(k) : f[a] = IF stop[a] THEN res[a] ELSE f[next[a]]
           Without == {k \in Nat : ~ \E f : Solves(f, k)}
<1> USE DEF Ends
<1>1. Without = {}
  <2> SUFFICES ASSUME Without # {} PROVE FALSE
    OBVIOUS
  <2>1. PICK k \in Without : \A x \in Without : k <= x
    <3>1. Without \subseteq Nat
      OBVIOUS
    <3> HIDE DEF Without
    <3> QED
      BY <3>1, SomeLeast
  <2>2. CASE k = 0
    <3> DEFINE f == [a \in D |-> res[a]]
    <3>1. Solves(f, k)
      BY <2>2
    <3> QED
      BY <2>1, <3>1
  <2>3. CASE k # 0
    <3>1. k - 1 \in Nat /\ ~(k <= k - 1) /\ k \in Nat
      BY <2>1, <2>3
    <3>2. k - 1 \notin Without
      <4> HIDE DEF Without
      <4> QED
        BY <2>1, <3>1
    <3>3. PICK f : Solves(f, k - 1)
      BY <3>1, <3>2
    <3> DEFINE g == [a \in D |-> IF stop[a] THEN res[a] ELSE f[next[a]]]
    <3>4. ASSUME NEW a \in Late(k), ~stop[a] PROVE g[a] = g[next[a]]
      <4>1. next[a] \in Late(k - 1)
        BY <3>1, <3>4
      <4> QED
        BY <3>3, <3>4, <4>1
    <3>5. Solves(g, k)
      BY <3>4
    <3> QED
      BY <2>1, <3>5
  <2> QED
    BY <2>2, <2>3
<1>2. PICK f : Solves(f, N)
  <2>1. N \notin Without
    BY <1>1
  <2> QED
    BY <2>1
<1>3. \A a \in D : f[a] = IF stop[a] THEN res[a] ELSE f[next[a]]
  BY <1>2
<1> DEFINE g == [a \in D |-> IF stop[a] THEN res[a] ELSE f[next[a]]]
<1>4. \A a \in D : g[a] = IF stop[a] THEN res[a] ELSE g[next[a]]
  BY <1>3
<1>5. Follows(g, D, stop, res, next)
  BY <1>4 DEF Follows
<1>6. ASSUME NEW h, Follows(h, D, stop, res, next)
      PROVE  \A a \in D : h[a] \in R[a]
  <2> DEFINE Odd == {k \in Nat : \E a \in D : h[a] \notin R[a] /\ k = N - rank[a]}
  <2>1. ASSUME NEW a \in D, h[a] \notin R[a]
        PROVE  N - rank[a] \in Odd /\ next[a] \in D /\ h[next[a]] \notin R[next[a]] /\ rank[a] < rank[next[a]]
    <3>1. h[a] = IF stop[a] THEN res[a] ELSE h[next[a]]
      BY <1>6 DEF Follows
    <3>2. ~stop[a]
      BY <2>1, <3>1
    <3>3. /\ next[a] \in D /\ rank[a] < N /\ rank[a] < rank[next[a]] /\ rank[a] \in Nat
          /\ R[next[a]] \subseteq R[a]
      BY <3>2
    <3>4. h[next[a]] \notin R[next[a]]
      BY <2>1, <3>1, <3>2, <3>3
    <3> QED
      BY <2>1, <3>3, <3>4
  <2>2. SUFFICES ASSUME Odd # {} PROVE FALSE
    BY <2>1
  <2>3. PICK k \in Odd : \A x \in Odd : k <= x
    <3>1. Odd \subseteq Nat
      OBVIOUS
    <3> HIDE DEF Odd
    <3> QED
      BY <2>2, <3>1, SomeLeast
  <2>4. PICK a \in D : h[a] \notin R[a] /\ k = N - rank[a]
    BY <2>3
  <2>5. next[a] \in D /\ h[next[a]] \notin R[next[a]] /\ rank[a] < rank[next[a]]
    BY <2>1, <2>4
  <2>6. N - rank[next[a]] \in Odd /\ rank[a] \in Nat /\ rank[next[a]] \in Nat
    BY <2>1, <2>5
  <2>7. k <= N - rank[next[a]]
    BY <2>3, <2>6
  <2> QED
    BY <2>4, <2>5, <2>6, <2>7
<1> QED
  BY <1>5, <1>6

(* One that puts together a sequence along such chains.                    *)
Gathers(f, D, stop, head, next) == f = [a \in D |-> IF stop[a] THEN <<>> ELSE head[a] \o f[next[a]]]

LEMMA Gathered ==
  ASSUME NEW D, NEW S, NEW N, NEW rank, NEW stop, NEW head, NEW next,
         Ends(D, N, rank, stop, next),
         \A a \in D : ~stop[a] => head[a] \in Seq(S)
  PROVE  /\ \E f : Gathers(f, D, stop, head, next)
         /\ \A f : Gathers(f, D, stop, head, next) => \A a \in D : f[a] \in Seq(S)
<1> DEFINE Late(k) == {a \in D : N - k <= rank[a]}
           Solves(f, k) == \A a \in Late(k) : f[a] = IF stop[a] THEN <<>> ELSE head[a] \o f[next[a]]
           Without == {k \in Nat : ~ \E f : Solves(f, k)}
<1> USE DEF Ends
<1>1. Without = {}
  <2> SUFFICES ASSUME Without # {} PROVE FALSE
    OBVIOUS
  <2>1. PICK k \in Without : \A x \in Without : k <= x
    <3>1. Without \subseteq Nat
      OBVIOUS
    <3> HIDE DEF Without
    <3> QED
      BY <3>1, SomeLeast
  <2>2. CASE k = 0
    <3> DEFINE f == [a \in D |-> <<>>]
    <3>1. Solves(f, k)
      BY <2>2
    <3> QED
      BY <2>1, <3>1
  <2>3. CASE k # 0
    <3>1. k - 1 \in Nat /\ ~(k <= k - 1) /\ k \in Nat
      BY <2>1, <2>3
    <3>2. k - 1 \notin Without
      <4> HIDE DEF Without
      <4> QED
        BY <2>1, <3>1
    <3>3. PICK f : Solves(f, k - 1)
      BY <3>1, <3>2
    <3> DEFINE g == [a \in D |-> IF stop[a] THEN <<>> ELSE head[a] \o f[next[a]]]
    <3>4. ASSUME NEW a \in Late(k), ~stop[a] PROVE g[a] = head[a] \o g[next[a]]
      <4>1. next[a] \in Late(k - 1)
        BY <3>1, <3>4
      <4> QED
        BY <3>3, <3>4, <4>1
    <3>5. Solves(g, k)
      BY <3>4
    <3> QED
      BY <2>1, <3>5
  <2> QED
    BY <2>2, <2>3
<1>2. PICK f : Solves(f, N)
  <2>1. N \notin Without
    BY <1>1
  <2> QED
    BY <2>1
<1>3. \A a \in D : f[a] = IF stop[a] THEN <<>> ELSE head[a] \o f[next[a]]
  BY <1>2
<1> DEFINE g == [a \in D |-> IF stop[a] THEN <<>> ELSE head[a] \o f[next[a]]]
<1>4. \A a \in D : g[a] = IF stop[a] THEN <<>> ELSE head[a] \o g[next[a]]
  BY <1>3
<1>5. Gathers(g, D, stop, head, next)
  BY <1>4 DEF Gathers
<1>6. ASSUME NEW h, Gathers(h, D, stop, head, next)
      PROVE  \A a \in D : h[a] \in Seq(S)
  <2> DEFINE Odd == {k \in Nat : \E a \in D : h[a] \notin Seq(S) /\ k = N - rank[a]}
  <2>1. ASSUME NEW a \in D, h[a] \notin Seq(S)
        PROVE  N - rank[a] \in Odd /\ next[a] \in D /\ h[next[a]] \notin Seq(S) /\ rank[a] < rank[next[a]]
    <3>1. h[a] = IF stop[a] THEN <<>> ELSE head[a] \o h[next[a]]
      BY <1>6 DEF Gathers
    <3>2. ~stop[a]
      BY <2>1, <3>1
    <3>3. next[a] \in D /\ rank[a] < N /\ rank[a] < rank[next[a]] /\ head[a] \in Seq(S) /\ rank[a] \in Nat
      BY <3>2
    <3>4. h[next[a]] \notin Seq(S)
      BY <2>1, <3>1, <3>2, <3>3
    <3> QED
      BY <2>1, <3>3, <3>4
  <2>2. SUFFICES ASSUME Odd # {} PROVE FALSE
    BY <2>1
  <2>3. PICK k \in Odd : \A x \in Odd : k <= x
    <3>1. Odd \subseteq Nat
      OBVIOUS
    <3> HIDE DEF Odd
    <3> QED
      BY <2>2, <3>1, SomeLeast
  <2>4. PICK a \in D : h[a] \notin Seq(S) /\ k = N - rank[a]
    BY <2>3
  <2>5. next[a] \in D /\ h[next[a]] \notin Seq(S) /\ rank[a] < rank[next[a]]
    BY <2>1, <2>4
  <2>6. N - rank[next[a]] \in Odd /\ rank[a] \in Nat /\ rank[next[a]] \in Nat
    BY <2>1, <2>5
  <2>7. k <= N - rank[next[a]]
    BY <2>3, <2>6
  <2> QED
    BY <2>4, <2>5, <2>6, <2>7
<1> QED
  BY <1>5, <1>6

-----------------------------------------------------------------------------
(* Sequences. *)

LEMMA JoinedIs ==
  ASSUME NEW S, NEW s \in Seq(S), NEW t \in Seq(S)
  PROVE  /\ s \o t \in Seq(S) /\ Len(s \o t) = Len(s) + Len(t)
         /\ \A i \in 1 .. Len(s) : (s \o t)[i] = s[i]
         /\ \A i \in 1 .. Len(t) : (s \o t)[Len(s) + i] = t[i]
<1>1. Len(s) \in Nat /\ Len(t) \in Nat
  OBVIOUS
<1>2. s \o t \in Seq(S) /\ Len(s \o t) = Len(s) + Len(t)
  BY ConcatProperties
<1>3. ASSUME NEW i \in 1 .. Len(s) PROVE (s \o t)[i] = s[i]
  <2>1. i \in 1 .. Len(s) + Len(t) /\ i <= Len(s)
    BY <1>1
  <2> QED
    BY <2>1, ConcatProperties
<1>4. ASSUME NEW i \in 1 .. Len(t) PROVE (s \o t)[Len(s) + i] = t[i]
  <2>1. Len(s) + i \in 1 .. Len(s) + Len(t) /\ ~(Len(s) + i <= Len(s)) /\ (Len(s) + i) - Len(s) = i
    BY <1>1
  <2> QED
    BY <2>1, ConcatProperties
<1> QED
  BY <1>2, <1>3, <1>4

(* FlattenSeq of sequences over S is the last of its own beginnings.       *)
LEMMA FlattenBy ==
  ASSUME NEW S, NEW seqs \in Seq(Seq(S))
  PROVE  /\ Len(seqs) = 0 => FlattenSeq(seqs) = <<>>
         /\ Len(seqs) # 0 =>
              \E h : /\ FlattenSeq(seqs) = h[Len(seqs)]
                     /\ \A i \in 1 .. Len(seqs) :
                          h[i] \in Seq(S) /\ h[i] = IF i = 1 THEN seqs[i] ELSE h[i-1] \o seqs[i]
<1> DEFINE n == Len(seqs)
           Flattens(h, m) == \A i \in 1 .. m : h[i] = IF i = 1 THEN seqs[i] ELSE h[i-1] \o seqs[i]
           equation(h) == h = [i \in 1 .. n |-> IF i = 1 THEN seqs[i] ELSE h[i-1] \o seqs[i]]
<1>1. n \in Nat /\ \A i \in 1 .. n : seqs[i] \in Seq(S)
  OBVIOUS
<1>2. CASE n = 0
  <2>1. seqs = <<>> /\ FlattenSeq(seqs) = seqs
    BY <1>2 DEF FlattenSeq
  <2> QED
    BY <1>2, <2>1
<1>3. CASE n # 0
  <2> DEFINE Bad == {m \in 1 .. n : ~ \E h : /\ Flattens(h, m) /\ DOMAIN h = 1 .. n
                                             /\ h = [i \in 1 .. n |-> h[i]]}
  <2>1. Bad = {}
    <3> SUFFICES ASSUME Bad # {} PROVE FALSE
      OBVIOUS
    <3>1. Bad \subseteq Nat
      BY <1>1
    <3>2. PICK m \in Bad : \A x \in Bad : m <= x
      <4> HIDE DEF Bad
      <4> QED
        BY <3>1, SomeLeast
    <3>3. m \in 1 .. n /\ m - 1 \notin Bad
      <4>1. m \in Bad /\ ~(m <= m - 1)
        BY <1>1
      <4> HIDE DEF Bad
      <4> QED
        BY <3>1, <3>2, <4>1 DEF Bad
    <3>4. CASE m = 1
      <4> DEFINE h == [i \in 1 .. n |-> seqs[i]]
      <4>1. Flattens(h, m) /\ DOMAIN h = 1 .. n /\ h = [i \in 1 .. n |-> h[i]]
        BY <1>1, <1>3, <3>4
      <4> QED
        BY <3>2, <4>1
    <3>5. CASE m # 1
      <4>1. m - 1 \in 1 .. n
        BY <1>1, <3>3, <3>5
      <4>2. PICK g : Flattens(g, m - 1) /\ DOMAIN g = 1 .. n /\ g = [i \in 1 .. n |-> g[i]]
        BY <3>3, <4>1
      <4> DEFINE h == [i \in 1 .. n |-> IF i = m THEN g[m - 1] \o seqs[m] ELSE g[i]]
      <4>3. ASSUME NEW i \in 1 .. m
            PROVE  h[i] = IF i = 1 THEN seqs[i] ELSE h[i-1] \o seqs[i]
        <5>1. i \in 1 .. n /\ m \in 1 .. n
          BY <1>1, <3>3
        <5>2. CASE i = m
          <6>1. h[i] = g[m - 1] \o seqs[m] /\ i # 1
            BY <3>5, <5>1, <5>2
          <6>2. h[i - 1] = g[m - 1]
            BY <4>1, <5>2, <1>1
          <6> QED
            BY <6>1, <6>2, <5>2
        <5>3. CASE i # m
          <6>1. i \in 1 .. m - 1 /\ h[i] = g[i]
            BY <5>1, <5>3
          <6>2. i # 1 => i - 1 \in 1 .. n /\ i - 1 # m
            <7> HIDE DEF Bad, h
            <7> QED
              BY <1>1, <3>3, <5>1, <5>3
          <6>3. i # 1 => h[i - 1] = g[i - 1]
            BY <6>2
          <6> QED
            BY <4>2, <6>1, <6>2, <6>3
        <5> QED
          BY <5>2, <5>3
      <4>4. Flattens(h, m) /\ DOMAIN h = 1 .. n /\ h = [i \in 1 .. n |-> h[i]]
        BY <4>3
      <4> QED
        BY <3>2, <4>4
    <3> QED
      BY <3>4, <3>5
  <2>2. \E h : equation(h)
    <3>1. n \in 1 .. n
      BY <1>1, <1>3
    <3>2. PICK h : Flattens(h, n) /\ DOMAIN h = 1 .. n /\ h = [i \in 1 .. n |-> h[i]]
      BY <2>1, <3>1
    <3>3. equation(h)
      BY <3>2
    <3> QED
      BY <3>3
  <2>3. PICK h : equation(h) /\ FlattenSeq(seqs) = h[n]
    BY <1>3, <2>2 DEF FlattenSeq
  <2>4. Flattens(h, n)
    BY <2>3
  <2> HIDE DEF equation
  <2> DEFINE Odd == {i \in 1 .. n : h[i] \notin Seq(S)}
  <2>5. Odd = {}
    <3> SUFFICES ASSUME Odd # {} PROVE FALSE
      OBVIOUS
    <3>1. Odd \subseteq Nat
      BY <1>1
    <3>2. PICK m \in Odd : \A x \in Odd : m <= x
      <4> HIDE DEF Odd
      <4> QED
        BY <3>1, SomeLeast
    <3>3. m \in 1 .. n /\ m - 1 \notin Odd /\ seqs[m] \in Seq(S)
      BY <1>1, <3>2
    <3>4. CASE m = 1
      BY <1>1, <2>4, <3>2, <3>3, <3>4
    <3>5. CASE m # 1
      <4>1. m - 1 \in 1 .. n
        BY <1>1, <3>3, <3>5
      <4>2. h[m - 1] \in Seq(S)
        BY <3>3, <4>1
      <4>3. h[m] = h[m - 1] \o seqs[m]
        BY <2>4, <3>3, <3>5
      <4>4. h[m] \in Seq(S)
        BY <3>3, <4>2, <4>3
      <4> QED
        BY <3>2, <4>4
    <3> QED
      BY <3>4, <3>5
  <2>6. \A i \in 1 .. n : h[i] \in Seq(S) /\ h[i] = IF i = 1 THEN seqs[i] ELSE h[i-1] \o seqs[i]
    BY <2>4, <2>5
  <2> HIDE DEF Flattens, Odd, Bad
  <2> QED
    BY <1>3, <2>3, <2>6
<1> QED
  BY <1>2, <1>3

LEMMA FlattenIs ==
  ASSUME NEW S, NEW seqs \in Seq(Seq(S))
  PROVE  FlattenSeq(seqs) \in Seq(S)
<1>1. Len(seqs) \in Nat /\ <<>> \in Seq(S)
  OBVIOUS
<1>2. Len(seqs) # 0 => Len(seqs) \in 1 .. Len(seqs)
  BY <1>1
<1> QED
  BY <1>1, <1>2, FlattenBy

(* Where each of the sequences begins.                                     *)
Offsets(p, seqs) ==
  /\ p \in [0 .. Len(seqs) -> Nat] /\ p[0] = 0 /\ p[Len(seqs)] = Len(FlattenSeq(seqs))
  /\ \A k \in 1 .. Len(seqs) :
       /\ p[k] = p[k - 1] + Len(seqs[k])
       /\ \A o \in 1 .. Len(seqs[k]) : FlattenSeq(seqs)[p[k - 1] + o] = seqs[k][o]

LEMMA Growing ==
  ASSUME NEW n \in Nat, NEW p \in [0 .. n -> Nat], \A k \in 1 .. n : p[k - 1] <= p[k]
  PROVE  \A k, m \in 0 .. n : k <= m => p[k] <= p[m]
<1> SUFFICES ASSUME NEW k \in 0 .. n PROVE \A m \in k .. n : p[k] <= p[m]
  OBVIOUS
<1> DEFINE T == {m \in k .. n : p[k] <= p[m]}
<1>1. k <= n => k \in T
  OBVIOUS
<1>2. ASSUME NEW m \in k .. n, m + 1 \in k .. n, m \in T
      PROVE  m + 1 \in T
  <2>1. m + 1 \in 1 .. n /\ m \in 0 .. n /\ (m + 1) - 1 = m
    BY <1>2
  <2>2. p[m] <= p[m + 1] /\ p[m] \in Nat /\ p[m + 1] \in Nat /\ p[k] \in Nat /\ p[k] <= p[m]
    BY <1>2, <2>1
  <2> QED
    BY <1>2, <2>2
<1>3. \A m \in k .. n : m \in T
  <2>1. k \in Nat
    OBVIOUS
  <2> HIDE DEF T
  <2> QED
    BY <1>1, <1>2, <2>1, Upward
<1> QED
  BY <1>3

LEMMA FlattenAt ==
  ASSUME NEW S, NEW seqs \in Seq(Seq(S))
  PROVE  \E p : Offsets(p, seqs)
<1> DEFINE n == Len(seqs)
<1>1. n \in Nat /\ \A i \in 1 .. n : seqs[i] \in Seq(S) /\ Len(seqs[i]) \in Nat
  OBVIOUS
<1>2. CASE n = 0
  <2> DEFINE p == [k \in 0 .. n |-> 0]
  <2>1. FlattenSeq(seqs) = <<>>
    BY <1>2, FlattenBy
  <2>2. Offsets(p, seqs)
    BY <1>2, <2>1 DEF Offsets
  <2> QED
    BY <2>2
<1>3. CASE n # 0
  <2>1. PICK h : /\ FlattenSeq(seqs) = h[n]
                 /\ \A i \in 1 .. n : h[i] \in Seq(S) /\ h[i] = IF i = 1 THEN seqs[i] ELSE h[i-1] \o seqs[i]
    BY <1>3, FlattenBy
  <2> HIDE DEF n
  <2>2. \A k \in 1 .. n : Len(h[k]) \in Nat
    BY <2>1
  <2>3. PICK p : p = [k \in 0 .. n |-> IF k = 0 THEN 0 ELSE Len(h[k])]
    OBVIOUS
  <2>4. /\ p \in [0 .. n -> Nat] /\ p[0] = 0 /\ p[n] = Len(FlattenSeq(seqs))
        /\ \A k \in 1 .. n : p[k] = Len(h[k])
    <3>1. p[0] = 0 /\ \A k \in 1 .. n : p[k] = Len(h[k])
      BY <1>1, <2>3
    <3>2. \A k \in 0 .. n : p[k] \in Nat
      <4>1. \A k \in 0 .. n : k = 0 \/ k \in 1 .. n
        BY <1>1
      <4> QED
        BY <2>2, <3>1, <4>1
    <3> QED
      BY <1>1, <1>3, <2>1, <2>3, <3>1, <3>2
  <2>5. ASSUME NEW k \in 1 .. n
        PROVE  /\ k \in Nat /\ k - 1 \in 0 .. n /\ p[k - 1] \in Nat /\ p[k] \in Nat
               /\ p[k] = p[k - 1] + Len(seqs[k])
               /\ \A o \in 1 .. Len(seqs[k]) : h[k][p[k - 1] + o] = seqs[k][o]
    <3>1. k \in Nat /\ k \in 0 .. n /\ k - 1 \in 0 .. n
      BY <1>1
    <3>2. p[k] = Len(h[k]) /\ p[k - 1] \in Nat /\ p[k] \in Nat
      BY <2>4, <3>1
    <3>3. CASE k = 1
      <4>1. p[k - 1] = 0 /\ h[k] = seqs[k]
        BY <2>1, <2>4, <3>3
      <4> QED
        BY <1>1, <3>1, <3>2, <4>1
    <3>4. CASE k # 1
      <4>1. k - 1 \in 1 .. n
        BY <1>1, <3>4
      <4>2. h[k - 1] \in Seq(S) /\ p[k - 1] = Len(h[k - 1])
        BY <2>1, <2>4, <4>1
      <4>3. h[k] = h[k - 1] \o seqs[k] /\ seqs[k] \in Seq(S)
        BY <1>1, <2>1, <3>4
      <4> DEFINE a == h[k - 1]
                 b == seqs[k]
      <4>4. a \in Seq(S) /\ b \in Seq(S)
        BY <4>2, <4>3
      <4> HIDE DEF a, b
      <4>5. Len(a \o b) = Len(a) + Len(b) /\ \A o \in 1 .. Len(b) : (a \o b)[Len(a) + o] = b[o]
        BY <4>4
      <4> QED
        BY <3>1, <3>2, <4>2, <4>3, <4>5 DEF a, b
    <3> QED
      BY <3>3, <3>4
  <2>6. \A k, m \in 0 .. n : k <= m => p[k] <= p[m]
    <3>1. ASSUME NEW k \in 1 .. n PROVE p[k - 1] <= p[k]
      BY <1>1, <2>5
    <3> QED
      BY <1>1, <2>4, <3>1, Growing
  <2>7. ASSUME NEW k \in 1 .. n, NEW o \in 1 .. Len(seqs[k])
        PROVE  h[n][p[k - 1] + o] = seqs[k][o]
    <3> DEFINE place == p[k - 1] + o
               T == {m \in k .. n : h[m][place] = seqs[k][o]}
    <3>1. k <= n => k \in T
      BY <1>1, <2>5
    <3>2. place \in Nat /\ 1 <= place /\ place <= p[k] /\ p[k] \in Nat
      <4>1. Len(seqs[k]) \in Nat /\ p[k - 1] \in Nat /\ p[k] = p[k - 1] + Len(seqs[k])
        BY <1>1, <2>5
      <4> DEFINE l == Len(seqs[k])
                 b == p[k - 1]
                 e == p[k]
      <4>2. o \in 1 .. l /\ l \in Nat /\ b \in Nat /\ e = b + l
        BY <4>1
      <4> HIDE DEF l, b, e
      <4>3. b + o \in Nat /\ 1 <= b + o /\ b + o <= e /\ e \in Nat
        BY <4>2
      <4> QED
        BY <4>3 DEF b, e
    <3> HIDE DEF place
    <3>3. ASSUME NEW m \in k .. n, m + 1 \in k .. n, m \in T
          PROVE  m + 1 \in T
      <4>1. m \in 1 .. n /\ m + 1 \in 1 .. n /\ m + 1 # 1 /\ k <= m /\ k \in 0 .. n /\ m \in 0 .. n
        BY <1>1, <3>3
      <4>2. h[m + 1] = h[m] \o seqs[m + 1] /\ h[m] \in Seq(S) /\ seqs[m + 1] \in Seq(S)
        <5>1. (m + 1) - 1 = m
          BY <4>1
        <5> QED
          BY <1>1, <2>1, <4>1, <5>1
      <4>3. place <= p[m] /\ p[m] = Len(h[m])
        <5>1. p[k] <= p[m] /\ p[m] = Len(h[m]) /\ p[m] \in Nat
          BY <2>2, <2>4, <2>6, <4>1
        <5> QED
          BY <3>2, <5>1
      <4>4. place \in 1 .. Len(h[m])
        BY <2>2, <3>2, <4>1, <4>3
      <4>5. h[m + 1][place] = h[m][place]
        <5> DEFINE a == h[m]
                   b == seqs[m + 1]
        <5>1. a \in Seq(S) /\ b \in Seq(S) /\ place \in 1 .. Len(a)
          BY <4>2, <4>4
        <5> HIDE DEF a, b
        <5>2. (a \o b)[place] = a[place]
          BY <5>1
        <5> QED
          BY <4>2, <5>2 DEF a, b
      <4> QED
        BY <3>3, <4>5
    <3>4. \A m \in k .. n : m \in T
      <4>1. k \in Nat
        OBVIOUS
      <4> HIDE DEF T
      <4> QED
        BY <1>1, <3>1, <3>3, <4>1, Upward
    <3>5. n \in k .. n
      BY <1>1
    <3> QED
      BY <3>4, <3>5 DEF place
  <2>8. Offsets(p, seqs)
    BY <2>1, <2>4, <2>5, <2>7 DEF Offsets, n
  <2> QED
    BY <2>8
<1> QED
  BY <1>2, <1>3

-----------------------------------------------------------------------------
(* The parsers of the report descriptor. *)

(* The k-th of the sequences in the whole, and every element of the whole  *)
(* in one of them.                                                         *)
LEMMA SegmentIs ==
  ASSUME NEW S, NEW seqs \in Seq(Seq(S)), NEW p, Offsets(p, seqs), NEW k \in 1 .. Len(seqs)
  PROVE  /\ p[k - 1] \in Nat /\ Len(seqs[k]) \in Nat /\ Len(FlattenSeq(seqs)) \in Nat
         /\ p[k - 1] + Len(seqs[k]) <= Len(FlattenSeq(seqs))
         /\ \A o \in 1 .. Len(seqs[k]) : FlattenSeq(seqs)[p[k - 1] + o] = seqs[k][o]
<1> DEFINE n == Len(seqs)
           L(j) == Len(seqs[j])
           whole == Len(FlattenSeq(seqs))
<1>1. n \in Nat /\ p \in [0 .. n -> Nat] /\ p[n] = whole /\ \A j \in 1 .. n : L(j) \in Nat
  BY DEF Offsets
<1>2. \A j \in 1 .. n : p[j] = p[j - 1] + L(j)
  BY DEF Offsets
<1>3. \A o \in 1 .. Len(seqs[k]) : FlattenSeq(seqs)[p[k - 1] + o] = seqs[k][o]
  BY DEF Offsets
<1> HIDE DEF n, L, whole
<1>4. k \in 1 .. n
  BY DEF n
<1>5. \A j \in 1 .. n : p[j - 1] <= p[j]
  <2> SUFFICES ASSUME NEW j \in 1 .. n PROVE p[j - 1] <= p[j]
    OBVIOUS
  <2> DEFINE a == p[j - 1]
             b == p[j]
             l == L(j)
  <2>1. a \in Nat /\ l \in Nat /\ b = a + l
    BY <1>1, <1>2
  <2> HIDE DEF a, b, l
  <2>2. a <= b
    BY <2>1
  <2> QED
    BY <2>2 DEF a, b
<1>6. \A j, m \in 0 .. n : j <= m => p[j] <= p[m]
  BY <1>1, <1>5, Growing
<1>7. k \in 0 .. n /\ n \in 0 .. n /\ k <= n /\ k - 1 \in 0 .. n
  BY <1>1, <1>4
<1>8. p[k] <= whole /\ p[k] = p[k - 1] + L(k) /\ p[k - 1] \in Nat /\ L(k) \in Nat /\ whole \in Nat
  BY <1>1, <1>2, <1>4, <1>6, <1>7
<1> QED
  BY <1>3, <1>8 DEF L, whole

InOneOf(seqs, p, n) ==
  \E k \in 1 .. Len(seqs) : \E o \in 1 .. Len(seqs[k]) :
    n = p[k - 1] + o /\ FlattenSeq(seqs)[n] = seqs[k][o]

LEMMA InSegment ==
  ASSUME NEW S, NEW seqs \in Seq(Seq(S)), NEW p, Offsets(p, seqs), NEW n \in 1 .. Len(FlattenSeq(seqs))
  PROVE  InOneOf(seqs, p, n)
<1> DEFINE N == Len(seqs)
           K == {k \in 0 .. N : p[k] >= n}
<1>1. N \in Nat /\ p \in [0 .. N -> Nat] /\ p[0] = 0 /\ p[N] = Len(FlattenSeq(seqs)) /\ p[N] \in Nat
  <2>1. N \in Nat
    OBVIOUS
  <2> HIDE DEF N
  <2>2. p \in [0 .. N -> Nat] /\ p[0] = 0 /\ p[N] = Len(FlattenSeq(seqs))
    BY DEF Offsets, N
  <2> QED
    BY <2>1, <2>2
<1> HIDE DEF N
<1>2. n \in Nat /\ n > 0 /\ p[N] >= n
  BY <1>1
<1>3. PICK k \in K : \A j \in K : k <= j
  <2>1. N \in K /\ K \subseteq Nat
    BY <1>1, <1>2
  <2> HIDE DEF K
  <2> QED
    BY <2>1, SomeLeast
<1>4. k \in 0 .. N /\ p[k] >= n /\ k # 0
  BY <1>1, <1>2, <1>3
<1>5. k \in 1 .. N /\ k - 1 \in 0 .. N /\ ~(k <= k - 1)
  BY <1>1, <1>4
<1>6. ~(p[k - 1] >= n)
  BY <1>3, <1>5
<1> DEFINE a == p[k - 1]
           b == p[k]
           l == Len(seqs[k])
           o == n - a
<1>7. a \in Nat /\ b \in Nat /\ b = a + l /\ l \in Nat
  <2>1. l \in Nat
    BY <1>5 DEF N
  <2> HIDE DEF l
  <2>2. b = a + l
    BY <1>5 DEF Offsets, N, l
  <2> QED
    BY <1>1, <1>4, <1>5, <2>1, <2>2
<1>8. ~(a >= n) /\ b >= n
  BY <1>4, <1>6
<1>9. FlattenSeq(seqs)[a + o] = seqs[k][o] /\ o \in 1 .. l /\ n = a + o
  <2> HIDE DEF a, b, l
  <2>1. o \in 1 .. l /\ n = a + o
    BY <1>2, <1>7, <1>8
  <2> HIDE DEF o
  <2>2. FlattenSeq(seqs)[a + o] = seqs[k][o]
    BY <1>5, <2>1 DEF Offsets, N, a, l
  <2> QED
    BY <2>1, <2>2
<1> QED
  BY <1>5, <1>9 DEF InOneOf, N

LEMMA ByteAt ==
  ASSUME NEW d \in Seq(Byte), NEW i \in Nat, i < Len(d)
  PROVE  At(d, i) \in Byte /\ At(d, i) \in Nat
<1>1. i + 1 \in 1 .. Len(d)
  OBVIOUS
<1>2. d[i + 1] \in Byte
  BY <1>1
<1>3. Byte \subseteq Nat
  BY ONLY DEF Byte
<1> QED
  BY <1>2, <1>3 DEF At

LEMMA BytesIs ==
  ASSUME NEW d \in Seq(Byte), NEW size \in Nat, NEW i \in Nat
  PROVE  GetBytes(d, size, i) \in Nat
<1>1. CASE i + size >= Len(d) \/ size = 0
  BY <1>1 DEF GetBytes
<1>2. CASE ~(i + size >= Len(d) \/ size = 0)
  <2>1. At(d, i + 1) \in Nat
    BY <1>2, ByteAt
  <2>2. size # 1 => At(d, i + 2) \in Nat
    BY <1>2, ByteAt
  <2>3. GetBytes(d, size, i) = IF size = 1 THEN At(d, i + 1) ELSE At(d, i + 1) + 256 * At(d, i + 2)
    BY <1>2 DEF GetBytes
  <2> QED
    BY <2>1, <2>2, <2>3
<1> QED
  BY <1>1, <1>2

LEMMA LengthIs == \A key \in Nat : ShortLength(key) \in Nat
<1> SUFFICES ASSUME NEW key \in Nat PROVE ShortLength(key) \in Nat
  OBVIOUS
<1>1. key % 4 \in 0 .. 3
  OBVIOUS
<1> QED
  BY <1>1 DEF ShortLength

LEMMA ItemIs ==
  ASSUME NEW d \in Seq(Byte), NEW i \in Nat, i < Len(d)
  PROVE  ItemSize(d, i) \in Nat \ {0}
<1>1. At(d, i) \in Nat
  BY ByteAt
<1>2. ShortLength(At(d, i)) \in Nat
  BY <1>1, LengthIs
<1>3. i + 1 < Len(d) => At(d, i + 1) \in Nat
  BY ByteAt
<1> QED
  BY <1>2, <1>3 DEF ItemSize

(* One step of the search for the end of a collection.                     *)
LevelThen(d, x) == CASE Command(At(d, x[1])) = Collection -> x[2] + 1
                     [] Command(At(d, x[1])) = EndCollection -> x[2] - 1
                     [] OTHER -> x[2]

Walks(f, d) ==
  \A x \in Nat \X Int : f[x] = IF x[1] >= Len(d) \/ LevelThen(d, x) = 0 THEN x[1]
                               ELSE f[<<x[1] + ItemSize(d, x[1]), LevelThen(d, x)>>]

LEMMA WalkIs ==
  ASSUME NEW d \in Seq(Byte)
  PROVE  \E f : /\ Walks(f, d)
                /\ \A x \in Nat \X Int : f[x] \in Nat /\ x[1] <= f[x]
                /\ \A start \in Nat : EndOfCollection(d, start) = f[<<start, 0>>]
<1> DEFINE D == Nat \X Int
           after(x) == LevelThen(d, x)
           stop == [x \in D |-> x[1] >= Len(d) \/ after(x) = 0]
           res == [x \in D |-> x[1]]
           next == [x \in D |-> <<x[1] + ItemSize(d, x[1]), after(x)>>]
           R == [x \in D |-> {n \in Nat : x[1] <= n}]
           equation(f) == f = [x \in D |-> IF x[1] >= Len(d) \/ after(x) = 0 THEN x[1]
                                           ELSE f[<<x[1] + ItemSize(d, x[1]), after(x)>>]]
           chain(f) == Follows(f, D, stop, res, next)
<1>1. Len(d) \in Nat
  OBVIOUS
<1>2. \A x \in D : after(x) \in Int
  <2> SUFFICES ASSUME NEW x \in D PROVE after(x) \in Int
    OBVIOUS
  <2>1. x[2] \in Int
    OBVIOUS
  <2> QED
    BY <2>1 DEF LevelThen
<1> HIDE DEF after
<1>3. ASSUME NEW a \in D, ~stop[a]
      PROVE  /\ next[a] \in D /\ res[a] < Len(d) /\ res[a] < res[next[a]]
             /\ R[next[a]] \subseteq R[a]
  <2>1. a[1] \in Nat /\ a[1] < Len(d)
    <3>1. a[1] \in Nat
      OBVIOUS
    <3>2. ~(a[1] >= Len(d))
      BY <1>3
    <3> QED
      BY <1>1, <3>1, <3>2
  <2>2. ItemSize(d, a[1]) \in Nat \ {0}
    BY <2>1, ItemIs
  <2>3. next[a] \in D /\ res[next[a]] = a[1] + ItemSize(d, a[1])
    BY <1>2, <2>1, <2>2
  <2> QED
    BY <2>1, <2>2, <2>3
<1>4. \A a \in D : IF stop[a] THEN res[a] \in R[a] ELSE R[next[a]] \subseteq R[a]
  <2>1. \A a \in D : res[a] \in R[a]
    OBVIOUS
  <2> HIDE DEF D, res, stop, next, R
  <2> QED
    BY <1>3, <2>1
<1>5. Ends(D, Len(d), res, stop, next)
  <2>1. \A a \in D : res[a] \in Nat
    OBVIOUS
  <2> HIDE DEF D, res, stop, next, R
  <2> QED
    BY <1>1, <1>3, <2>1 DEF Ends
<1>6. (\E f : chain(f)) /\ \A f : chain(f) => \A a \in D : f[a] \in R[a]
  <2> HIDE DEF D, stop, res, next, R
  <2> QED
    BY <1>4, <1>5, Chain
<1>7. \A f : equation(f) <=> chain(f)
  BY DEF Follows
<1>8. PICK f : equation(f) /\ \A start \in Nat : EndOfCollection(d, start) = f[<<start, 0>>]
  <2>1. \E f : equation(f)
    BY <1>6, <1>7
  <2> QED
    BY <2>1 DEF EndOfCollection, after, LevelThen
<1>9. /\ \A a \in D : f[a] \in R[a]
      /\ \A a \in D : f[a] = IF a[1] >= Len(d) \/ after(a) = 0 THEN a[1]
                             ELSE f[<<a[1] + ItemSize(d, a[1]), after(a)>>]
  <2>1. \A a \in D : f[a] \in R[a]
    BY <1>6, <1>7, <1>8
  <2> QED
    BY <1>8, <2>1
<1>10. Walks(f, d)
  BY <1>9 DEF Walks, after
<1>11. \A x \in Nat \X Int : f[x] \in Nat /\ x[1] <= f[x]
  BY <1>9
<1> QED
  BY <1>8, <1>10, <1>11

(* It goes forward.                                                        *)
LEMMA EndIs ==
  ASSUME NEW d \in Seq(Byte), NEW start \in Nat
  PROVE  /\ EndOfCollection(d, start) \in Nat /\ start <= EndOfCollection(d, start)
         /\ start < Len(d) /\ Command(At(d, start)) = Collection => start < EndOfCollection(d, start)
<1>1. PICK f : /\ Walks(f, d)
               /\ \A x \in Nat \X Int : f[x] \in Nat /\ x[1] <= f[x]
               /\ \A i \in Nat : EndOfCollection(d, i) = f[<<i, 0>>]
  BY WalkIs
<1>2. EndOfCollection(d, start) \in Nat /\ start <= EndOfCollection(d, start)
  <2>1. <<start, 0>> \in Nat \X Int
    OBVIOUS
  <2> QED
    BY <1>1, <2>1
<1>3. ASSUME start < Len(d), Command(At(d, start)) = Collection
      PROVE  start < EndOfCollection(d, start)
  <2> DEFINE first == <<start, 0>>
             second == <<start + ItemSize(d, start), 1>>
  <2>1. first[1] = start /\ first[2] = 0 /\ first \in Nat \X Int
    OBVIOUS
  <2>2. ItemSize(d, start) \in Nat \ {0}
    BY <1>3, ItemIs
  <2>3. second \in Nat \X Int /\ start < second[1]
    BY <2>2
  <2>4. LevelThen(d, first) = 1
    BY <1>3 DEF LevelThen, Collection, EndCollection
  <2>5. ~(start >= Len(d))
    BY <1>3
  <2> HIDE DEF first
  <2>6. f[first] = f[second]
    BY <1>1, <2>1, <2>4, <2>5 DEF Walks
  <2>7. second[1] <= f[second] /\ f[second] \in Nat
    BY <1>1, <2>3
  <2> HIDE DEF second
  <2> QED
    BY <1>1, <2>3, <2>6, <2>7 DEF first
<1> QED
  BY <1>2, <1>3

LEMMA PairIs ==
  ASSUME NEW p \in Seq(Nat), Len(p) = 2
  PROVE  p \in Nat \X Nat
<1> DEFINE a == p[1]
           b == p[2]
<1>1. a \in Nat /\ b \in Nat
  <2>1. 1 \in 1 .. Len(p) /\ 2 \in 1 .. Len(p)
    OBVIOUS
  <2> QED
    BY <2>1, ElementOfSeq
<1>2. p[1] = a /\ p[2] = b
  OBVIOUS
<1> HIDE DEF a, b
<1>3. <<a, b>> \in Seq(Nat) /\ Len(<<a, b>>) = 2 /\ <<a, b>>[1] = a /\ <<a, b>>[2] = b
  BY <1>1
<1>4. \A i \in 1 .. Len(p) : p[i] = <<a, b>>[i]
  <2>1. \A i \in 1 .. 2 : i = 1 \/ i = 2
    OBVIOUS
  <2> QED
    BY <1>2, <1>3, <2>1
<1>5. p = <<a, b>>
  BY <1>3, <1>4, SeqEqual
<1> QED
  BY <1>1, <1>5

LEMMA KnownIs ==
  /\ <<>> \in Known /\ \A n \in Nat : <<n>> \in Known
  /\ \A page, usage \in Known : page \o usage \in Seq(Nat) /\ Len(page \o usage) \in 0 .. 2
  /\ \A page \in Known : page \o <<>> \in Seq(Nat) /\ Len(page \o <<>>) \in 0 .. 1
<1>1. <<>> \in Known /\ \A n \in Nat : <<n>> \in Known
  BY DEF Known
<1>2. ASSUME NEW page \in Known, NEW usage \in Known
      PROVE  page \o usage \in Seq(Nat) /\ Len(page \o usage) = Len(page) + Len(usage)
  <2>1. page \in Seq(Nat) /\ usage \in Seq(Nat)
    BY DEF Known
  <2> QED
    BY <2>1
<1>3. ASSUME NEW page \in Known PROVE page \in Seq(Nat) /\ Len(page) \in 0 .. 1
  <2>1. page \in Seq(Nat) /\ Len(page) <= 1
    BY DEF Known
  <2> DEFINE n == Len(page)
  <2>2. n \in Nat /\ n <= 1
    BY <2>1
  <2> HIDE DEF n
  <2>3. n \in 0 .. 1
    BY <2>2
  <2> QED
    BY <2>1, <2>3 DEF n
<1>4. ASSUME NEW page \in Known PROVE page \o <<>> \in Seq(Nat) /\ Len(page \o <<>>) \in 0 .. 1
  <2>1. page \in Seq(Nat) /\ Len(page) \in 0 .. 1
    BY <1>3
  <2>2. page \o <<>> = page
    BY <2>1
  <2> QED
    BY <2>1, <2>2
<1>5. ASSUME NEW page \in Known, NEW usage \in Known PROVE Len(page \o usage) \in 0 .. 2
  <2>1. Len(page) \in 0 .. 1 /\ Len(usage) \in 0 .. 1 /\ Len(page \o usage) = Len(page) + Len(usage)
    BY <1>2, <1>3
  <2> DEFINE m == Len(page)
             n == Len(usage)
  <2> HIDE DEF m, n
  <2>2. m \in 0 .. 1 /\ n \in 0 .. 1 /\ Len(page \o usage) = m + n
    BY <2>1 DEF m, n
  <2>3. m + n \in 0 .. 2
    BY <2>2
  <2> QED
    BY <2>2, <2>3
<1> QED
  BY <1>1, <1>2, <1>4, <1>5

(* What a call of get_next_hid_usage that begins at i returns.             *)
Found(i) == {r \in [pair : Seq(Nat), pos : Nat, page : Known] : i <= r.pos /\ Len(r.pair) \in 0 .. 2}

(* One step of such a call from x, an offset with what is known on the way *)
(* there.                                                                  *)
ScanArgs == Nat \X Known \X Known

Begins(d, x) == /\ Command(At(d, x[1])) = Collection
                /\ EndOfCollection(d, x[1]) >= Len(d) \/ Len(x[2] \o x[3]) = 2

AtEnd(start, x) ==
  [pair |-> IF start = 0 THEN x[2] \o x[3] ELSE <<>>, pos |-> x[1], page |-> x[2]]

AtBegin(d, x) ==
  [pair |-> IF EndOfCollection(d, x[1]) >= Len(d) THEN <<>> ELSE x[2] \o x[3],
   pos |-> EndOfCollection(d, x[1]), page |-> x[2]]

Past(d, x) ==
  LET cmd == Command(At(d, x[1]))
      size == ItemSize(d, x[1]) - 1
      end == EndOfCollection(d, x[1])
  IN  CASE cmd = UsagePage -> <<x[1] + size + 1, <<GetBytes(d, size, x[1])>>, x[3]>>
        [] cmd = Usage /\ size = 4 -> <<x[1] + 5, <<GetBytes(d, 2, x[1] + 2)>>, <<GetBytes(d, 2, x[1])>>>>
        [] cmd = Usage /\ size # 4 -> <<x[1] + size + 1, x[2], <<GetBytes(d, size, x[1])>>>>
        [] cmd = Collection -> <<end + ItemSize(d, end), x[2], x[3]>>
        [] OTHER -> <<x[1] + size + 1, x[2], x[3]>>

Scans(f, d, start) ==
  \A x \in ScanArgs : f[x] = IF x[1] >= Len(d) THEN AtEnd(start, x)
                             ELSE IF Begins(d, x) THEN AtBegin(d, x)
                             ELSE f[Past(d, x)]

LEMMA ScanIs ==
  ASSUME NEW d \in Seq(Byte), NEW start \in Nat
  PROVE  \E f : /\ Scans(f, d, start)
                /\ \A x \in ScanArgs :
                     /\ f[x] \in Found(x[1])
                     /\ x[1] < Len(d) => x[1] < f[x].pos
                     /\ x[1] >= Len(d) /\ x[3] = <<>> => Len(f[x].pair) < 2
                /\ \A left \in Known : NextUsage(d, start, left) = f[<<start, left, <<>>>>]
<1> DEFINE D == Nat \X Known \X Known
           cmd(x) == Command(At(d, x[1]))
           size(x) == ItemSize(d, x[1]) - 1
           end(x) == EndOfCollection(d, x[1])
           starts(x) == cmd(x) = Collection /\ (end(x) >= Len(d) \/ Len(x[2] \o x[3]) = 2)
           none(x) == [pair |-> IF start = 0 THEN x[2] \o x[3] ELSE <<>>, pos |-> x[1], page |-> x[2]]
           one(x) == [pair |-> IF end(x) >= Len(d) THEN <<>> ELSE x[2] \o x[3], pos |-> end(x), page |-> x[2]]
           after(x) ==
             CASE cmd(x) = UsagePage -> <<x[1] + size(x) + 1, <<GetBytes(d, size(x), x[1])>>, x[3]>>
               [] cmd(x) = Usage /\ size(x) = 4 ->
                    <<x[1] + 5, <<GetBytes(d, 2, x[1] + 2)>>, <<GetBytes(d, 2, x[1])>>>>
               [] cmd(x) = Usage /\ size(x) # 4 -> <<x[1] + size(x) + 1, x[2], <<GetBytes(d, size(x), x[1])>>>>
               [] cmd(x) = Collection -> <<end(x) + ItemSize(d, end(x)), x[2], x[3]>>
               [] OTHER -> <<x[1] + size(x) + 1, x[2], x[3]>>
           stop == [x \in D |-> x[1] >= Len(d) \/ starts(x)]
           res == [x \in D |-> IF x[1] >= Len(d) THEN none(x) ELSE one(x)]
           next == [x \in D |-> after(x)]
           rank == [x \in D |-> x[1]]
           R == [x \in D |-> {r \in Found(x[1]) : /\ x[1] < Len(d) => x[1] < r.pos
                                                  /\ x[1] >= Len(d) /\ x[3] = <<>> => Len(r.pair) < 2}]
<1>1. Len(d) \in Nat
  OBVIOUS
<1>2. ASSUME NEW x \in D, x[1] < Len(d)
      PROVE  /\ size(x) \in Nat /\ end(x) \in Nat /\ x[1] <= end(x)
             /\ cmd(x) = Collection => x[1] < end(x)
             /\ end(x) < Len(d) => ItemSize(d, end(x)) \in Nat \ {0}
  <2>1. x[1] \in Nat
    OBVIOUS
  <2>2. ItemSize(d, x[1]) \in Nat \ {0}
    BY <1>2, <2>1, ItemIs
  <2>3. end(x) \in Nat /\ x[1] <= end(x) /\ (cmd(x) = Collection => x[1] < end(x))
    BY <1>2, <2>1, EndIs
  <2>4. end(x) < Len(d) => ItemSize(d, end(x)) \in Nat \ {0}
    BY <2>3, ItemIs
  <2> QED
    BY <2>2, <2>3, <2>4
<1> HIDE DEF size, end, cmd
<1>3. ASSUME NEW x \in D, x[1] < Len(d), ~starts(x)
      PROVE  after(x) \in D /\ after(x)[1] \in Nat /\ x[1] < after(x)[1]
  <2>1. /\ x[1] \in Nat /\ x[2] \in Known /\ x[3] \in Known
    OBVIOUS
  <2>2. size(x) \in Nat /\ end(x) \in Nat /\ x[1] <= end(x)
    BY <1>2, <1>3
  <2>3. \A n, k \in Nat : <<GetBytes(d, n, k)>> \in Known
    BY BytesIs, KnownIs
  <2>4. CASE cmd(x) = UsagePage
    <3>1. after(x) = <<x[1] + size(x) + 1, <<GetBytes(d, size(x), x[1])>>, x[3]>>
      BY <2>4 DEF UsagePage, Usage, Collection
    <3> HIDE DEF after
    <3> QED
      BY <2>1, <2>2, <2>3, <3>1
  <2>5. CASE cmd(x) = Usage /\ size(x) = 4
    <3>1. after(x) = <<x[1] + 5, <<GetBytes(d, 2, x[1] + 2)>>, <<GetBytes(d, 2, x[1])>>>>
      BY <2>5 DEF UsagePage, Usage, Collection
    <3> HIDE DEF after
    <3> QED
      BY <2>1, <2>2, <2>3, <3>1
  <2>6. CASE cmd(x) = Usage /\ size(x) # 4
    <3>1. after(x) = <<x[1] + size(x) + 1, x[2], <<GetBytes(d, size(x), x[1])>>>>
      BY <2>6 DEF UsagePage, Usage, Collection
    <3> HIDE DEF after
    <3> QED
      BY <2>1, <2>2, <2>3, <3>1
  <2>7. CASE cmd(x) = Collection
    <3>1. after(x) = <<end(x) + ItemSize(d, end(x)), x[2], x[3]>>
      BY <2>7 DEF UsagePage, Usage, Collection
    <3>2. ~(end(x) >= Len(d))
      BY <1>3, <2>7
    <3>3. end(x) < Len(d) /\ ItemSize(d, end(x)) \in Nat \ {0}
      BY <1>1, <1>2, <1>3, <2>2, <3>2
    <3> HIDE DEF after
    <3> QED
      BY <2>1, <2>2, <3>1, <3>3
  <2>8. CASE cmd(x) \notin {UsagePage, Usage, Collection}
    <3>1. after(x) = <<x[1] + size(x) + 1, x[2], x[3]>>
      BY <2>8
    <3> HIDE DEF after
    <3> QED
      BY <2>1, <2>2, <3>1
  <2> QED
    BY <2>4, <2>5, <2>6, <2>7, <2>8
<1>4. ASSUME NEW x \in D
      PROVE  /\ x[1] \in Nat /\ x[2] \in Known /\ x[3] \in Known
             /\ x[1] >= Len(d) => stop[x] /\ res[x] = none(x)
             /\ ~(x[1] >= Len(d)) => x[1] < Len(d)
             /\ x[1] < Len(d) => ~(x[1] >= Len(d))
             /\ x[1] < Len(d) /\ starts(x) => stop[x] /\ res[x] = one(x)
             /\ x[1] < Len(d) /\ ~starts(x) => ~stop[x] /\ next[x] = after(x)
  <2>1. x[1] \in Nat /\ x[2] \in Known /\ x[3] \in Known
    OBVIOUS
  <2>2. (~(x[1] >= Len(d)) => x[1] < Len(d)) /\ (x[1] < Len(d) => ~(x[1] >= Len(d)))
    BY <1>1, <2>1
  <2>3. stop[x] <=> x[1] >= Len(d) \/ starts(x)
    OBVIOUS
  <2>4. res[x] = (IF x[1] >= Len(d) THEN none(x) ELSE one(x)) /\ next[x] = after(x)
    OBVIOUS
  <2> HIDE DEF stop, res, next, none, one, after, starts, D
  <2> QED
    BY <2>1, <2>2, <2>3, <2>4
<1>5. Ends(D, Len(d), rank, stop, next)
  <2>1. \A x \in D : rank[x] = x[1]
    OBVIOUS
  <2> HIDE DEF D, rank, stop, next, after, starts, res
  <2>2. \A x \in D : rank[x] \in Nat
    BY <1>4, <2>1
  <2>3. ASSUME NEW x \in D, ~stop[x]
        PROVE  next[x] \in D /\ rank[x] < Len(d) /\ rank[x] < rank[next[x]]
    <3>1. ~(x[1] >= Len(d)) /\ x[1] < Len(d)
      BY <1>4, <2>3
    <3>2. ~starts(x) /\ next[x] = after(x)
      BY <1>4, <2>3, <3>1
    <3>3. after(x) \in D /\ x[1] < after(x)[1]
      BY <1>3, <3>1, <3>2
    <3> QED
      BY <2>1, <3>1, <3>2, <3>3
  <2> QED
    BY <1>1, <2>2, <2>3 DEF Ends
<1>6. \A x \in D : IF stop[x] THEN res[x] \in R[x] ELSE R[next[x]] \subseteq R[x]
  <2> SUFFICES ASSUME NEW x \in D
               PROVE  IF stop[x] THEN res[x] \in R[x] ELSE R[next[x]] \subseteq R[x]
    OBVIOUS
  <2>1. x[1] \in Nat /\ x[2] \in Known /\ x[3] \in Known
    BY <1>4
  <2>2. CASE x[1] >= Len(d)
    <3>1. /\ none(x).pair \in Seq(Nat) /\ Len(none(x).pair) \in 0 .. 2
          /\ x[3] = <<>> => Len(none(x).pair) < 2
      <4>1. CASE start = 0
        <5>1. none(x).pair = x[2] \o x[3]
          BY <4>1
        <5>2. x[2] \o x[3] \in Seq(Nat) /\ Len(x[2] \o x[3]) \in 0 .. 2
          BY <2>1, KnownIs
        <5>3. x[3] = <<>> => Len(x[2] \o <<>>) \in 0 .. 1
          BY <2>1, KnownIs
        <5>4. x[3] = <<>> => Len(x[2] \o x[3]) < 2
          <6> DEFINE n == Len(x[2] \o <<>>)
          <6> HIDE DEF n
          <6>1. n \in 0 .. 1 => n < 2
            OBVIOUS
          <6>2. x[3] = <<>> => n \in 0 .. 1
            BY <5>3 DEF n
          <6>3. x[3] = <<>> => n < 2
            BY <6>1, <6>2
          <6> QED
            BY <6>3 DEF n
        <5> HIDE DEF none
        <5> QED
          BY <5>1, <5>2, <5>4
      <4>2. CASE start # 0
        <5>1. none(x).pair = <<>>
          BY <4>2
        <5>2. <<>> \in Seq(Nat) /\ Len(<<>>) < 2 /\ Len(<<>>) \in 0 .. 2
          OBVIOUS
        <5> HIDE DEF none
        <5> QED
          BY <5>1, <5>2
      <4> QED
        BY <4>1, <4>2
    <3>2. none(x) \in R[x]
      <4> DEFINE p == none(x).pair
      <4>1. none(x) = [pair |-> p, pos |-> x[1], page |-> x[2]]
        OBVIOUS
      <4>2. p \in Seq(Nat) /\ Len(p) \in 0 .. 2 /\ (x[3] = <<>> => Len(p) < 2)
        BY <3>1
      <4> HIDE DEF p, none
      <4>3. none(x) \in Found(x[1])
        BY <2>1, <4>1, <4>2 DEF Found
      <4> QED
        BY <1>4, <2>2, <4>1, <4>2, <4>3
    <3>3. stop[x] /\ res[x] = none(x)
      BY <1>4, <2>2
    <3> HIDE DEF D, R, stop, res, next, none
    <3> QED
      BY <3>2, <3>3
  <2>3. CASE x[1] < Len(d) /\ starts(x)
    <3>1. one(x).pair \in Seq(Nat) /\ Len(one(x).pair) \in 0 .. 2
      <4>1. x[2] \o x[3] \in Seq(Nat) /\ Len(x[2] \o x[3]) \in 0 .. 2
        BY <2>1, KnownIs
      <4>2. <<>> \in Seq(Nat) /\ Len(<<>>) \in 0 .. 2
        OBVIOUS
      <4>3. one(x).pair = IF end(x) >= Len(d) THEN <<>> ELSE x[2] \o x[3]
        OBVIOUS
      <4> HIDE DEF one
      <4> QED
        BY <4>1, <4>2, <4>3
    <3>2. end(x) \in Nat /\ x[1] < end(x)
      BY <1>2, <2>3
    <3>3. one(x) \in R[x]
      <4> DEFINE p == one(x).pair
      <4>1. one(x) = [pair |-> p, pos |-> end(x), page |-> x[2]]
        OBVIOUS
      <4>2. p \in Seq(Nat) /\ Len(p) \in 0 .. 2
        BY <3>1
      <4> HIDE DEF p, one
      <4>3. one(x) \in Found(x[1])
        BY <2>1, <3>2, <4>1, <4>2 DEF Found
      <4> QED
        BY <1>4, <2>3, <3>2, <4>1, <4>3
    <3>4. stop[x] /\ res[x] = one(x)
      BY <1>4, <2>3
    <3> HIDE DEF D, R, stop, res, next, one
    <3> QED
      BY <3>3, <3>4
  <2>4. CASE x[1] < Len(d) /\ ~starts(x)
    <3>1. after(x) \in D /\ after(x)[1] \in Nat /\ x[1] < after(x)[1]
      BY <1>3, <2>4
    <3>2. R[after(x)] \subseteq R[x]
      BY <1>1, <2>1, <2>4, <3>1 DEF Found
    <3>3. ~stop[x] /\ next[x] = after(x)
      BY <1>4, <2>4
    <3> HIDE DEF D, R, stop, res, next, after
    <3> QED
      BY <3>2, <3>3
  <2>5. x[1] >= Len(d) \/ x[1] < Len(d)
    BY <1>4
  <2> HIDE DEF D, R, stop, res, next, starts
  <2> QED
    BY <2>2, <2>3, <2>4, <2>5
<1>7. /\ \E f : Follows(f, D, stop, res, next)
      /\ \A f : Follows(f, D, stop, res, next) => \A x \in D : f[x] \in R[x]
  <2> HIDE DEF D, stop, res, next, R, rank
  <2> QED
    BY <1>5, <1>6, Chain
<1> DEFINE scan(f, x) ==
             IF x[1] >= Len(d) THEN none(x)
             ELSE
             CASE cmd(x) = UsagePage -> f[<<x[1] + size(x) + 1, <<GetBytes(d, size(x), x[1])>>, x[3]>>]
               [] cmd(x) = Usage /\ size(x) = 4 ->
                    f[<<x[1] + 5, <<GetBytes(d, 2, x[1] + 2)>>, <<GetBytes(d, 2, x[1])>>>>]
               [] cmd(x) = Usage /\ size(x) # 4 ->
                    f[<<x[1] + size(x) + 1, x[2], <<GetBytes(d, size(x), x[1])>>>>]
               [] cmd(x) = Collection /\ (end(x) >= Len(d) \/ Len(x[2] \o x[3]) = 2) -> one(x)
               [] cmd(x) = Collection /\ end(x) < Len(d) /\ Len(x[2] \o x[3]) < 2 ->
                    f[<<end(x) + ItemSize(d, end(x)), x[2], x[3]>>]
               [] OTHER -> f[<<x[1] + size(x) + 1, x[2], x[3]>>]
<1>8. ASSUME NEW f, NEW x \in D
      PROVE  scan(f, x) = IF stop[x] THEN res[x] ELSE f[next[x]]
  <2>1. x[2] \in Known /\ x[3] \in Known
    BY <1>4
  <2> DEFINE known == Len(x[2] \o x[3])
  <2>2. CASE x[1] >= Len(d)
    <3>1. stop[x] /\ res[x] = none(x)
      BY <1>4, <2>2
    <3>2. scan(f, x) = none(x)
      BY <2>2
    <3> HIDE DEF D, stop, res, next, none, scan
    <3> QED
      BY <3>1, <3>2
  <2>3. CASE x[1] < Len(d) /\ starts(x)
    <3>1. stop[x] /\ res[x] = one(x) /\ ~(x[1] >= Len(d))
      BY <1>4, <2>3
    <3>2. cmd(x) = Collection /\ (end(x) >= Len(d) \/ known = 2)
      BY <2>3
    <3>3. ~(end(x) < Len(d) /\ known < 2)
      BY <1>1, <1>2, <2>3, <3>2
    <3>4. scan(f, x) = one(x)
      <4> HIDE DEF one, none
      <4> QED
        BY <3>1, <3>2, <3>3 DEF UsagePage, Usage, Collection
    <3> HIDE DEF D, stop, res, next, one, scan
    <3> QED
      BY <3>1, <3>4
  <2>4. CASE x[1] < Len(d) /\ ~starts(x)
    <3>1. ~stop[x] /\ next[x] = after(x) /\ ~(x[1] >= Len(d))
      BY <1>4, <2>4
    <3>2. scan(f, x) = f[after(x)]
      <4>1. CASE cmd(x) = UsagePage
        BY <3>1, <4>1 DEF UsagePage, Usage, Collection
      <4>2. CASE cmd(x) = Usage /\ size(x) = 4
        BY <3>1, <4>2 DEF UsagePage, Usage, Collection
      <4>3. CASE cmd(x) = Usage /\ size(x) # 4
        BY <3>1, <4>3 DEF UsagePage, Usage, Collection
      <4>4. CASE cmd(x) = Collection
        <5>1. ~(end(x) >= Len(d) \/ known = 2)
          BY <2>4, <4>4
        <5>2. known \in 0 .. 2
          BY <2>1, KnownIs
        <5>3. end(x) < Len(d) /\ known < 2
          <6> HIDE DEF known
          <6> QED
            BY <1>1, <1>2, <2>4, <5>1, <5>2
        <5> QED
          BY <3>1, <4>4, <5>1, <5>3 DEF UsagePage, Usage, Collection
      <4>5. CASE cmd(x) \notin {UsagePage, Usage, Collection}
        BY <3>1, <4>5
      <4> QED
        BY <4>1, <4>2, <4>3, <4>4, <4>5
    <3> HIDE DEF D, stop, res, next, after, scan
    <3> QED
      BY <3>1, <3>2
  <2>5. x[1] >= Len(d) \/ x[1] < Len(d)
    BY <1>4
  <2> HIDE DEF D, stop, res, next, starts, scan
  <2> QED
    BY <2>2, <2>3, <2>4, <2>5
<1>9. \A f : f = [x \in D |-> scan(f, x)] <=> Follows(f, D, stop, res, next)
  <2> HIDE DEF D, stop, res, next, scan
  <2> QED
    BY <1>8 DEF Follows
<1>10. PICK f : /\ f = [x \in D |-> scan(f, x)]
                /\ \A left \in Known : NextUsage(d, start, left) = f[<<start, left, <<>>>>]
  <2>1. \E f : f = [x \in D |-> scan(f, x)]
    <3> HIDE DEF D, stop, res, next, scan
    <3> QED
      BY <1>7, <1>9
  <2> QED
    BY <2>1 DEF NextUsage, cmd, size, end
<1>11. \A x \in D : f[x] \in R[x]
  <2> HIDE DEF D, stop, res, next, scan, R
  <2> QED
    BY <1>7, <1>9, <1>10
<1>12. ASSUME NEW x \in D
       PROVE  /\ f[x] \in Found(x[1])
              /\ x[1] < Len(d) => x[1] < f[x].pos
              /\ x[1] >= Len(d) /\ x[3] = <<>> => Len(f[x].pair) < 2
  <2>1. f[x] \in R[x]
    BY <1>11
  <2> QED
    BY <2>1
<1>13. ASSUME NEW x \in D
       PROVE  f[x] = IF x[1] >= Len(d) THEN none(x) ELSE IF starts(x) THEN one(x) ELSE f[after(x)]
  <2>1. f[x] = IF stop[x] THEN res[x] ELSE f[next[x]]
    <3> HIDE DEF D, stop, res, next, scan
    <3> QED
      BY <1>8, <1>10
  <2> HIDE DEF D, stop, res, next, none, one, starts, after, scan
  <2> QED
    BY <1>4, <2>1
<1>14. \A x : /\ none(x) = AtEnd(start, x) /\ one(x) = AtBegin(d, x)
              /\ starts(x) <=> Begins(d, x)
              /\ after(x) = Past(d, x)
  BY DEF AtEnd, AtBegin, Begins, Past, cmd, size, end
<1>15. Scans(f, d, start)
  <2> HIDE DEF none, one, starts, after
  <2> QED
    BY <1>13, <1>14 DEF Scans, ScanArgs
<1> HIDE DEF R
<1> QED
  BY <1>10, <1>12, <1>15 DEF ScanArgs

LEMMA NextIs ==
  ASSUME NEW d \in Seq(Byte), NEW start \in Nat, NEW left \in Known
  PROVE  /\ NextUsage(d, start, left) \in Found(start)
         /\ Len(NextUsage(d, start, left).pair) >= 2
              => start < Len(d) /\ start < NextUsage(d, start, left).pos
<1>1. PICK f : /\ \A x \in ScanArgs :
                    /\ f[x] \in Found(x[1])
                    /\ x[1] < Len(d) => x[1] < f[x].pos
                    /\ x[1] >= Len(d) /\ x[3] = <<>> => Len(f[x].pair) < 2
               /\ NextUsage(d, start, left) = f[<<start, left, <<>>>>]
  BY ScanIs
<1> DEFINE x == <<start, left, <<>>>>
<1>2. x[1] = start /\ x[3] = <<>> /\ x \in ScanArgs
  BY KnownIs DEF ScanArgs
<1> HIDE DEF x
<1>3. f[x] \in Found(start) /\ (start < Len(d) => start < f[x].pos)
        /\ (start >= Len(d) => Len(f[x].pair) < 2)
  BY <1>1, <1>2
<1>4. Len(f[x].pair) \in Nat /\ Len(d) \in Nat
  <2>1. f[x].pair \in Seq(Nat)
    BY <1>3 DEF Found
  <2> QED
    BY <2>1
<1>5. NextUsage(d, start, left) = f[x]
  BY <1>1 DEF x
<1> QED
  BY <1>3, <1>4, <1>5

(* One call after the other, from where the last has stopped.              *)
Pair(d, x) == NextUsage(d, x[1], x[2]).pair

Resume(d, x) == <<NextUsage(d, x[1], x[2]).pos, NextUsage(d, x[1], x[2]).page>>

FirstCall == <<0, <<>>>>

FirstUsage(d) == IF Len(Pair(d, FirstCall)) < 2 THEN <<0, 0>> ELSE Pair(d, FirstCall)

Calls(f, d) ==
  \A x \in Nat \X Known :
    f[x] = IF Len(Pair(d, x)) < 2 THEN <<>> ELSE <<Pair(d, x)>> \o f[Resume(d, x)]

LEMMA CallIs ==
  ASSUME NEW d \in Seq(Byte), NEW x \in Nat \X Known
  PROVE  /\ x[1] \in Nat /\ Pair(d, x) \in Seq(Nat) /\ Len(Pair(d, x)) \in 0 .. 2
         /\ Resume(d, x) \in Nat \X Known
         /\ Len(Pair(d, x)) < 2 \/ Pair(d, x) \in Nat \X Nat
         /\ ~(Len(Pair(d, x)) < 2) => x[1] < Len(d) /\ x[1] < Resume(d, x)[1]
<1> DEFINE call == NextUsage(d, x[1], x[2])
<1>1. x[1] \in Nat /\ x[2] \in Known
  OBVIOUS
<1>2. call \in Found(x[1]) /\ (Len(call.pair) >= 2 => x[1] < Len(d) /\ x[1] < call.pos)
  BY <1>1, NextIs
<1>3. Pair(d, x) = call.pair /\ Resume(d, x) = <<call.pos, call.page>>
  BY DEF Pair, Resume
<1> HIDE DEF call
<1>4. /\ call.pair \in Seq(Nat) /\ call.pos \in Nat /\ call.page \in Known
      /\ Len(call.pair) \in 0 .. 2
  BY <1>2 DEF Found
<1>5. Len(call.pair) < 2 \/ (Len(call.pair) = 2 /\ Len(call.pair) >= 2)
  <2>1. \A n \in 0 .. 2 : n < 2 \/ (n = 2 /\ n >= 2)
    OBVIOUS
  <2> QED
    BY ONLY <1>4, <2>1
<1>6. Len(call.pair) < 2 \/ call.pair \in Nat \X Nat
  BY <1>4, <1>5, PairIs
<1> QED
  BY <1>1, <1>2, <1>3, <1>4, <1>5, <1>6

LEMMA CallsIs ==
  ASSUME NEW d \in Seq(Byte)
  PROVE  \E f : /\ Calls(f, d) /\ \A x \in Nat \X Known : f[x] \in Seq(Nat \X Nat)
                /\ DeviceUsages(d) = <<FirstUsage(d)>> \o f[Resume(d, FirstCall)]
<1> DEFINE D == Nat \X Known
           stop == [x \in D |-> Len(Pair(d, x)) < 2]
           head == [x \in D |-> <<Pair(d, x)>>]
           next == [x \in D |-> Resume(d, x)]
           rank == [x \in D |-> x[1]]
           more(f) == f = [x \in D |-> IF Len(Pair(d, x)) < 2 THEN <<>>
                                       ELSE <<Pair(d, x)>> \o f[Resume(d, x)]]
<1>1. Len(d) \in Nat
  OBVIOUS
<1>2. Ends(D, Len(d), rank, stop, next)
  <2>1. ASSUME NEW x \in D
        PROVE  rank[x] \in Nat /\ (~stop[x] => next[x] \in D /\ rank[x] < Len(d) /\ rank[x] < rank[next[x]])
    BY CallIs
  <2> HIDE DEF D, rank, stop, next
  <2> QED
    BY <1>1, <2>1 DEF Ends
<1>3. ASSUME NEW x \in D, ~stop[x]
      PROVE  head[x] \in Seq(Nat \X Nat)
  <2>1. Pair(d, x) \in Nat \X Nat
    BY <1>3, CallIs
  <2>2. head[x] = <<Pair(d, x)>>
    OBVIOUS
  <2> HIDE DEF head
  <2> QED
    BY <2>1, <2>2
<1>4. /\ \E f : Gathers(f, D, stop, head, next)
      /\ \A f : Gathers(f, D, stop, head, next) => \A x \in D : f[x] \in Seq(Nat \X Nat)
  <2> HIDE DEF D, stop, rank, next, head
  <2> QED
    BY <1>2, <1>3, Gathered
<1>5. \A f : more(f) <=> Gathers(f, D, stop, head, next)
  <2>1. ASSUME NEW f, NEW x \in D
        PROVE  (IF stop[x] THEN <<>> ELSE head[x] \o f[next[x]])
                 = IF Len(Pair(d, x)) < 2 THEN <<>> ELSE <<Pair(d, x)>> \o f[Resume(d, x)]
    OBVIOUS
  <2> HIDE DEF D, stop, rank, next, head
  <2> QED
    BY <2>1 DEF Gathers
<1>6. PICK f : more(f) /\ DeviceUsages(d) = <<FirstUsage(d)>> \o f[Resume(d, FirstCall)]
  <2>1. \E f : more(f)
    <3> HIDE DEF more
    <3> QED
      BY <1>4, <1>5
  <2> DEFINE g == CHOOSE f : more(f)
  <2>2. more(g)
    <3> HIDE DEF more
    <3> QED
      BY <2>1
  <2>3. /\ FirstCall[1] = 0 /\ FirstCall[2] = <<>>
        /\ \A f : more(f) <=> f = [x \in Nat \X Known |->
                    LET then == NextUsage(d, x[1], x[2])
                    IN  IF Len(then.pair) < 2 THEN <<>> ELSE <<then.pair>> \o f[<<then.pos, then.page>>]]
    BY DEF FirstCall, Pair, Resume
  <2>4. DeviceUsages(d) = <<FirstUsage(d)>> \o g[Resume(d, FirstCall)]
    BY <2>3 DEF DeviceUsages, Pair, Resume, FirstUsage
  <2> HIDE DEF g, more
  <2> QED
    BY <2>2, <2>4
<1>7. \A x \in D : f[x] \in Seq(Nat \X Nat)
  <2> HIDE DEF D, stop, rank, next, head, more
  <2> QED
    BY <1>4, <1>5, <1>6
<1>8. Calls(f, d)
  BY <1>6 DEF Calls
<1> HIDE DEF more
<1> QED
  BY <1>6, <1>7, <1>8

LEMMA FirstCallIs ==
  ASSUME NEW d \in Seq(Byte)
  PROVE  /\ FirstCall \in Nat \X Known /\ FirstUsage(d) \in Nat \X Nat
         /\ Resume(d, FirstCall) \in Nat \X Known
<1>1. FirstCall \in Nat \X Known
  BY KnownIs DEF FirstCall
<1> QED
  BY <1>1, CallIs DEF FirstUsage

(* The usages that a device is listed with are pairs, and there is one.    *)
LEMMA UsagesIs ==
  \A d \in Seq(Byte) : DeviceUsages(d) \in Seq(Nat \X Nat) /\ DeviceUsages(d) # <<>>
<1> SUFFICES ASSUME NEW d \in Seq(Byte)
             PROVE  DeviceUsages(d) \in Seq(Nat \X Nat) /\ DeviceUsages(d) # <<>>
  OBVIOUS
<1>1. PICK f : /\ \A x \in Nat \X Known : f[x] \in Seq(Nat \X Nat)
               /\ DeviceUsages(d) = <<FirstUsage(d)>> \o f[Resume(d, FirstCall)]
  BY CallsIs
<1> DEFINE pair == FirstUsage(d)
           rest == f[Resume(d, FirstCall)]
<1>2. pair \in Nat \X Nat /\ rest \in Seq(Nat \X Nat) /\ DeviceUsages(d) = <<pair>> \o rest
  BY <1>1, FirstCallIs
<1> HIDE DEF pair, rest
<1>3. <<pair>> \in Seq(Nat \X Nat)
  BY <1>2
<1>4. <<pair>> \o rest \in Seq(Nat \X Nat) /\ Len(<<pair>> \o rest) = 1 + Len(rest) /\ Len(rest) \in Nat
  BY <1>2, <1>3
<1> QED
  BY <1>2, <1>4

(* One step of get_usage from x.                                           *)
UsbEnds(d, x) == x[1] >= Len(d) \/ (x[2] # <<>> /\ x[3] # <<>>)

Told(x) == <<IF x[2] = <<>> THEN 0 ELSE Head(x[2]), IF x[3] = <<>> THEN 0 ELSE Head(x[3])>>

UsbPast(d, x) ==
  LET cmd == Command(At(d, x[1]))
      size == UsbDataLength(d, x[1])
      long == cmd = Usage /\ size = 4
  IN  <<UsbNextItem(d, x[1]),
        IF cmd = UsagePage THEN <<GetBytes(d, size, x[1])>>
        ELSE IF long THEN <<GetBytes(d, 2, x[1] + 2)>> ELSE x[2],
        IF cmd = Usage THEN <<GetBytes(d, IF long THEN 2 ELSE size, x[1])>> ELSE x[3]>>

UsbScans(f, d) ==
  \A x \in ScanArgs : f[x] = IF UsbEnds(d, x) THEN Told(x) ELSE f[UsbPast(d, x)]

LEMMA UsbScanIs ==
  ASSUME NEW d \in Seq(Byte)
  PROVE  \E f : /\ UsbScans(f, d) /\ \A x \in ScanArgs : f[x] \in Nat \X Nat
                /\ GetUsage(d) = f[<<0, <<>>, <<>>>>]
<1> DEFINE D == Nat \X Known \X Known
           cmd(x) == Command(At(d, x[1]))
           size(x) == UsbDataLength(d, x[1])
           long(x) == cmd(x) = Usage /\ size(x) = 4
           ends(x) == x[1] >= Len(d) \/ (x[2] # <<>> /\ x[3] # <<>>)
           told(x) == <<IF x[2] = <<>> THEN 0 ELSE Head(x[2]), IF x[3] = <<>> THEN 0 ELSE Head(x[3])>>
           page(x) == IF cmd(x) = UsagePage THEN <<GetBytes(d, size(x), x[1])>>
                      ELSE IF long(x) THEN <<GetBytes(d, 2, x[1] + 2)>> ELSE x[2]
           usage(x) == IF cmd(x) = Usage THEN <<GetBytes(d, IF long(x) THEN 2 ELSE size(x), x[1])>> ELSE x[3]
           after(x) == <<UsbNextItem(d, x[1]), page(x), usage(x)>>
           stop == [x \in D |-> ends(x)]
           res == [x \in D |-> told(x)]
           next == [x \in D |-> after(x)]
           rank == [x \in D |-> x[1]]
           R == [x \in D |-> Nat \X Nat]
           scan(f) == f = [x \in D |-> IF ends(x) THEN told(x) ELSE f[after(x)]]
<1>1. Len(d) \in Nat
  OBVIOUS
<1>2. ASSUME NEW x \in D
      PROVE  x[1] \in Nat /\ told(x) \in Nat \X Nat
  <2>1. x[1] \in Nat /\ x[2] \in Known /\ x[3] \in Known
    OBVIOUS
  <2>2. ASSUME NEW s \in Known, s # <<>> PROVE Head(s) \in Nat
    <3>1. s \in Seq(Nat)
      BY DEF Known
    <3> QED
      BY <2>2, <3>1
  <2> QED
    BY <2>1, <2>2
<1>3. ASSUME NEW x \in D, ~ends(x)
      PROVE  x[1] < Len(d) /\ after(x) \in D /\ x[1] < after(x)[1]
  <2>1. x[1] \in Nat /\ x[2] \in Known /\ x[3] \in Known /\ ~(x[1] >= Len(d))
    BY <1>3
  <2>2. x[1] < Len(d)
    BY <1>1, <2>1
  <2>3. size(x) \in Nat
    <3>1. At(d, x[1]) \in Nat
      BY <2>1, <2>2, ByteAt
    <3>2. x[1] + 1 < Len(d) => At(d, x[1] + 1) \in Nat
      BY <2>1, ByteAt
    <3>3. ShortLength(At(d, x[1])) \in Nat
      BY <3>1, LengthIs
    <3> QED
      BY <3>2, <3>3 DEF UsbDataLength
  <2>4. UsbNextItem(d, x[1]) \in Nat /\ x[1] < UsbNextItem(d, x[1])
    <3> HIDE DEF size
    <3>1. UsbNextItem(d, x[1]) = x[1] + size(x) + (IF LongItem(At(d, x[1])) THEN 3 ELSE 1)
      BY DEF UsbNextItem, size
    <3> QED
      BY <2>1, <2>3, <3>1
  <2> HIDE DEF size
  <2>5. \A n, k \in Nat : <<GetBytes(d, n, k)>> \in Known
    BY BytesIs, KnownIs
  <2>6. page(x) \in Known /\ usage(x) \in Known
    BY <2>1, <2>3, <2>5
  <2> HIDE DEF page, usage
  <2> QED
    BY <2>2, <2>4, <2>6
<1>4. ASSUME NEW x \in D
      PROVE  (stop[x] <=> ends(x)) /\ res[x] = told(x) /\ next[x] = after(x) /\ rank[x] = x[1]
  <2> HIDE DEF ends, told, after
  <2> QED
    OBVIOUS
<1> HIDE DEF ends, told, after
<1>5. Ends(D, Len(d), rank, stop, next)
  <2> HIDE DEF D, rank, stop, next, res
  <2>1. \A x \in D : rank[x] \in Nat
    BY <1>2, <1>4
  <2>2. ASSUME NEW x \in D, ~stop[x]
        PROVE  next[x] \in D /\ rank[x] < Len(d) /\ rank[x] < rank[next[x]]
    <3>1. x[1] < Len(d) /\ after(x) \in D /\ x[1] < after(x)[1]
      BY <1>3, <1>4, <2>2
    <3> QED
      BY <1>4, <3>1
  <2> QED
    BY <1>1, <2>1, <2>2 DEF Ends
<1>6. \A x \in D : IF stop[x] THEN res[x] \in R[x] ELSE R[next[x]] \subseteq R[x]
  <2>1. ASSUME NEW x \in D PROVE R[x] = Nat \X Nat
    OBVIOUS
  <2> HIDE DEF D, rank, stop, next, res, R
  <2> QED
    BY <1>2, <1>3, <1>4, <2>1
<1>7. /\ \E f : Follows(f, D, stop, res, next)
      /\ \A f : Follows(f, D, stop, res, next) => \A x \in D : f[x] \in R[x]
  <2> HIDE DEF D, stop, res, next, R, rank
  <2> QED
    BY <1>5, <1>6, Chain
<1>8. \A f : scan(f) <=> Follows(f, D, stop, res, next)
  <2> HIDE DEF D, stop, res, next, rank
  <2> QED
    BY <1>4 DEF Follows
<1>9. PICK f : scan(f) /\ GetUsage(d) = f[<<0, <<>>, <<>>>>]
  <2>1. \E f : scan(f)
    <3> HIDE DEF scan
    <3> QED
      BY <1>7, <1>8
  <2> QED
    BY <2>1 DEF GetUsage, ends, told, after
<1>10. \A x \in D : f[x] \in Nat \X Nat
  <2>1. \A x \in D : R[x] = Nat \X Nat
    OBVIOUS
  <2> HIDE DEF D, R, stop, res, next, scan
  <2> QED
    BY <1>7, <1>8, <1>9, <2>1
<1>11. \A x : (ends(x) <=> UsbEnds(d, x)) /\ told(x) = Told(x) /\ after(x) = UsbPast(d, x)
  BY DEF ends, told, after, UsbEnds, Told, UsbPast
<1>12. UsbScans(f, d)
  BY <1>9, <1>11 DEF UsbScans, ScanArgs
<1> HIDE DEF scan, R
<1> QED
  BY <1>9, <1>10, <1>12 DEF ScanArgs

LEMMA UsageIs == \A d \in Seq(Byte) : GetUsage(d) \in Nat \X Nat
<1>1. <<0, <<>>, <<>>>> \in ScanArgs
  BY KnownIs DEF ScanArgs
<1> QED
  BY <1>1, UsbScanIs

(* Whatever bytes a device sends for its descriptor, the parsers end and   *)
(* read nothing beyond them: get_usage in libusb finds a page and a usage, *)
(* get_next_hid_usage in linux and netbsd, called until it finds no more,  *)
(* at least one pair.                                                      *)
THEOREM ParsersEnd ==
  ASSUME NEW d \in Seq(0 .. 255)
  PROVE  /\ GetUsage(d) \in Nat \X Nat
         /\ DeviceUsages(d) \in Seq(Nat \X Nat) /\ DeviceUsages(d) # <<>>
BY UsageIs, UsagesIs DEF Byte

-----------------------------------------------------------------------------
(* Collections. *)

LEMMA GreatestIs ==
  ASSUME NEW S, S \subseteq Nat, S # {}, NEW n \in Nat, \A x \in S : x <= n
  PROVE  Max(S) \in S /\ \A x \in S : x <= Max(S)
<1> DEFINE T == {n - x : x \in S}
<1>1. T \subseteq Nat /\ T # {}
  <2>1. \A x \in S : n - x \in Nat
    OBVIOUS
  <2> QED
    BY <2>1
<1>2. PICK t \in T : \A y \in T : t <= y
  <2> HIDE DEF T
  <2> QED
    BY <1>1, SomeLeast
<1>3. PICK m \in S : t = n - m
  BY <1>2
<1>4. \A x \in S : m >= x
  <2> SUFFICES ASSUME NEW x \in S PROVE m >= x
    OBVIOUS
  <2>1. n - x \in T
    OBVIOUS
  <2>2. n - m <= n - x
    BY <1>2, <1>3, <2>1
  <2>3. x \in Nat /\ m \in Nat
    OBVIOUS
  <2> QED
    BY <2>2, <2>3
<1>5. Max(S) \in S /\ \A x \in S : Max(S) >= x
  BY <1>4 DEF Max
<1>6. Max(S) \in Nat
  BY <1>5
<1> QED
  BY <1>5, <1>6

LEMMA OneLess ==
  ASSUME NEW n \in Nat
  PROVE  Max({0, n - 1}) = IF n = 0 THEN 0 ELSE n - 1
<1> DEFINE S == {0, n - 1}
           m == IF n = 0 THEN 0 ELSE n - 1
<1>1. m \in S /\ m \in Int /\ S \subseteq Int /\ \A y \in S : m >= y
  OBVIOUS
<1>2. \A x \in S : (\A y \in S : x >= y) => x = m
  <2> HIDE DEF m, S
  <2>1. ASSUME NEW x \in S, \A y \in S : x >= y PROVE x = m
    <3>1. x >= m /\ m >= x /\ x \in Int
      BY <1>1, <2>1
    <3> QED
      BY <1>1, <3>1
  <2> QED
    BY <2>1
<1>3. Max(S) = m
  <2> HIDE DEF m, S
  <2> QED
    BY <1>1, <1>2 DEF Max
<1> QED
  BY <1>3

(* The level after every item follows from the one before it.              *)
LEMMA LevelIs ==
  ASSUME NEW s, Len(s) \in Nat
  PROVE  /\ Level(s)[0] = 0
         /\ \A n \in 0 .. Len(s) : Level(s)[n] \in Nat
         /\ \A n \in 1 .. Len(s) :
              /\ s[n].kind = "open" => Level(s)[n] = Level(s)[n - 1] + 1
              /\ s[n].kind = "close" => Level(s)[n] = IF Level(s)[n - 1] = 0 THEN 0 ELSE Level(s)[n - 1] - 1
              /\ s[n].kind \notin {"open", "close"} => Level(s)[n] = Level(s)[n - 1]
<1> DEFINE N == Len(s)
           after(n, v) == CASE s[n].kind = "open" -> v + 1
                            [] s[n].kind = "close" -> Max({0, v - 1})
                            [] OTHER -> v
           equation(f) == f = [n \in 0 .. N |-> IF n = 0 THEN 0 ELSE after(n, f[n - 1])]
           Solves(f, k) == \A n \in 0 .. k : f[n] = IF n = 0 THEN 0 ELSE after(n, f[n - 1])
           T == {k \in 0 .. N : \E f : Solves(f, k)}
<1> HIDE DEF after
<1>1. 0 \in T
  <2> DEFINE f == [n \in 0 .. N |-> 0]
  <2>1. Solves(f, 0)
    OBVIOUS
  <2> HIDE DEF f, Solves
  <2> QED
    BY <2>1
<1>2. ASSUME NEW k \in 0 .. N, k + 1 \in 0 .. N, k \in T
      PROVE  k + 1 \in T
  <2>1. PICK f : Solves(f, k)
    BY <1>2
  <2> DEFINE g == [n \in 0 .. N |-> IF n = k + 1 THEN after(k + 1, f[k]) ELSE f[n]]
  <2>2. ASSUME NEW n \in 0 .. k + 1
        PROVE  g[n] = IF n = 0 THEN 0 ELSE after(n, g[n - 1])
    <3>1. n \in 0 .. N /\ (n # 0 => n - 1 \in 0 .. N /\ n - 1 # k + 1)
      BY <1>2
    <3>2. CASE n = k + 1
      <4>1. n # 0 /\ n - 1 = k
        BY <3>2
      <4>2. g[n] = after(k + 1, f[k]) /\ g[n - 1] = f[k]
        BY <3>1, <3>2, <4>1
      <4> HIDE DEF g
      <4> QED
        BY <3>2, <4>1, <4>2
    <3>3. CASE n # k + 1
      <4>1. n \in 0 .. k /\ g[n] = f[n] /\ (n # 0 => g[n - 1] = f[n - 1])
        BY <3>1, <3>3
      <4> HIDE DEF g
      <4> QED
        BY <2>1, <4>1
    <3> QED
      BY <3>2, <3>3
  <2>3. Solves(g, k + 1)
    <3> HIDE DEF g
    <3> QED
      BY <2>2
  <2> HIDE DEF g, Solves
  <2> QED
    BY <1>2, <2>3
<1>3. \A k \in 0 .. N : k \in T
  <2> HIDE DEF T
  <2> QED
    BY <1>1, <1>2, Upward
<1>4. PICK f : Solves(f, N)
  BY <1>3
<1> DEFINE g == [n \in 0 .. N |-> f[n]]
<1>5. \A n \in 0 .. N : g[n] = IF n = 0 THEN 0 ELSE after(n, g[n - 1])
  <2> SUFFICES ASSUME NEW n \in 0 .. N PROVE g[n] = IF n = 0 THEN 0 ELSE after(n, g[n - 1])
    OBVIOUS
  <2>1. g[n] = f[n] /\ (n # 0 => g[n - 1] = f[n - 1])
    OBVIOUS
  <2> HIDE DEF g
  <2> QED
    BY <1>4, <2>1
<1>6. equation(g)
  <2>1. g = [n \in 0 .. N |-> g[n]]
    OBVIOUS
  <2> HIDE DEF g
  <2> QED
    BY <1>5, <2>1
<1>7. equation(Level(s))
  <2>1. \E h : equation(h)
    <3> HIDE DEF equation, g
    <3> QED
      BY <1>6
  <2> QED
    BY <2>1 DEF Level, after
<1> DEFINE l == Level(s)
<1>8. l[0] = 0 /\ \A n \in 1 .. N : l[n] = after(n, l[n - 1])
  <2> HIDE DEF l
  <2>1. l = [n \in 0 .. N |-> IF n = 0 THEN 0 ELSE after(n, l[n - 1])]
    BY <1>7 DEF l
  <2>2. \A n \in 0 .. N : l[n] = IF n = 0 THEN 0 ELSE after(n, l[n - 1])
    BY <2>1
  <2> QED
    BY <2>2
<1> HIDE DEF l
<1>9. \A n \in 0 .. N : l[n] \in Nat
  <2> DEFINE U == {n \in 0 .. N : l[n] \in Nat}
  <2>1. 0 \in U
    BY <1>8
  <2>2. ASSUME NEW n \in 0 .. N, n + 1 \in 0 .. N, n \in U
        PROVE  n + 1 \in U
    <3>1. n + 1 \in 1 .. N /\ (n + 1) - 1 = n /\ l[n] \in Nat
      BY <2>2
    <3>2. l[n + 1] = after(n + 1, l[n])
      BY <1>8, <3>1
    <3>3. after(n + 1, l[n]) \in Nat
      BY <3>1, OneLess DEF after
    <3> QED
      BY <2>2, <3>2, <3>3
  <2>3. \A n \in 0 .. N : n \in U
    <3> HIDE DEF U
    <3> QED
      BY <2>1, <2>2, Upward
  <2> QED
    BY <2>3
<1>10. ASSUME NEW n \in 1 .. N
       PROVE  /\ s[n].kind = "open" => l[n] = l[n - 1] + 1
              /\ s[n].kind = "close" => l[n] = IF l[n - 1] = 0 THEN 0 ELSE l[n - 1] - 1
              /\ s[n].kind \notin {"open", "close"} => l[n] = l[n - 1]
  <2>1. l[n] = after(n, l[n - 1]) /\ l[n - 1] \in Nat
    BY <1>8, <1>9
  <2> QED
    BY <2>1, OneLess DEF after
<1> QED
  BY <1>8, <1>9, <1>10 DEF l

LEMMA TopIs ==
  ASSUME NEW s, Len(s) \in Nat, NEW i \in 1 .. Len(s)
  PROVE  /\ i \in Top(s) <=> Level(s)[i - 1] = 0
         /\ i \in Top(s) /\ s[i].kind # "open" => Level(s)[i] = 0
         /\ i \in Top(s) /\ s[i].kind = "open" => i \in Collections(s) /\ Level(s)[i] = 1
<1>1. i \in Top(s) <=> Level(s)[i - 1] = 0
  BY DEF Top
<1>2. /\ s[i].kind = "open" => Level(s)[i] = Level(s)[i - 1] + 1
      /\ s[i].kind = "close" => Level(s)[i] = IF Level(s)[i - 1] = 0 THEN 0 ELSE Level(s)[i - 1] - 1
      /\ s[i].kind \notin {"open", "close"} => Level(s)[i] = Level(s)[i - 1]
  BY LevelIs
<1> QED
  BY <1>1, <1>2 DEF Collections

(* The collection that begins with the i-th item ends with the e-th one.   *)
EndsAt(s, i, e) ==
  /\ i \in Collections(s) /\ e \in 1 .. Len(s) /\ i < e /\ Level(s)[e] = 0
  /\ \A k \in i .. e - 1 : Level(s)[k] > 0

LEMMA EndsAtIs ==
  ASSUME NEW s, Len(s) \in Nat, NEW i, NEW e, EndsAt(s, i, e)
  PROVE  /\ i \in 1 .. Len(s) /\ s[i].kind = "open" /\ Level(s)[i - 1] = 0
         /\ s[e].kind = "close" /\ Level(s)[e - 1] > 0
         /\ \A j \in Top(s) : j <= i \/ j > e
<1>1. i \in 1 .. Len(s) /\ s[i].kind = "open" /\ Level(s)[i - 1] = 0
  BY DEF EndsAt, Collections, Top
<1>2. e \in 1 .. Len(s) /\ i < e /\ e - 1 \in i .. e - 1 /\ e - 1 \in 0 .. Len(s)
  BY <1>1 DEF EndsAt
<1>3. Level(s)[e - 1] > 0 /\ Level(s)[e] = 0
  BY <1>2 DEF EndsAt
<1>4. /\ Level(s)[e - 1] \in Nat
      /\ s[e].kind = "open" => Level(s)[e] = Level(s)[e - 1] + 1
      /\ s[e].kind \notin {"open", "close"} => Level(s)[e] = Level(s)[e - 1]
  BY <1>2, LevelIs
<1>5. s[e].kind = "close"
  BY <1>3, <1>4
<1>6. ASSUME NEW j \in Top(s), ~(j <= i \/ j > e)
      PROVE  FALSE
  <2>1. j \in 1 .. Len(s) /\ Level(s)[j - 1] = 0
    BY DEF Top
  <2>2. j - 1 \in i .. e - 1
    BY <1>1, <1>2, <1>6, <2>1
  <2>3. Level(s)[j - 1] > 0
    BY <2>2 DEF EndsAt
  <2> QED
    BY <2>1, <2>3
<1> QED
  BY <1>1, <1>3, <1>5, <1>6

(* In a descriptor d, or the begin of one, the first m items of s are at   *)
(* the offsets p; the last one may be cut off.                             *)
LaidOut(d, s, p, m) ==
  /\ d \in Seq(Byte) /\ Len(s) \in Nat /\ m \in 0 .. Len(s)
  /\ p \in [0 .. m -> Nat] /\ p[0] = 0 /\ p[m] >= Len(d)
  /\ \A k \in 1 .. m :
       /\ p[k - 1] < Len(d) /\ p[k] = p[k - 1] + ItemSize(d, p[k - 1]) /\ p[k - 1] < p[k]
       /\ s[k].kind = "open" <=> Command(At(d, p[k - 1])) = Collection
       /\ s[k].kind = "close" <=> Command(At(d, p[k - 1])) = EndCollection

(* The end of a collection is found, or there is none.                     *)
LEMMA EndIsFound ==
  ASSUME NEW d, NEW s, NEW p, NEW m, LaidOut(d, s, p, m), NEW i \in Collections(s), i <= m
  PROVE  \/ \E e \in 1 .. m : EndsAt(s, i, e) /\ EndOfCollection(d, p[i - 1]) = p[e - 1]
         \/ /\ EndOfCollection(d, p[i - 1]) >= Len(d)
            /\ ~ \E e \in 1 .. m : EndsAt(s, i, e)
<1> DEFINE l == Level(s)
<1>1. /\ Len(d) \in Nat /\ Len(s) \in Nat /\ m \in 0 .. Len(s) /\ m \in Nat
      /\ i \in 1 .. m /\ i \in Nat /\ s[i].kind = "open" /\ l[i - 1] = 0
      /\ i \in 1 .. Len(s)
  BY DEF LaidOut, Collections, Top
<1>2. PICK f : /\ Walks(f, d)
               /\ \A start \in Nat : EndOfCollection(d, start) = f[<<start, 0>>]
  BY WalkIs DEF LaidOut
<1>3. /\ \A n \in 0 .. Len(s) : l[n] \in Nat
      /\ \A n \in 1 .. Len(s) :
           /\ s[n].kind = "open" => l[n] = l[n - 1] + 1
           /\ s[n].kind = "close" => l[n] = IF l[n - 1] = 0 THEN 0 ELSE l[n - 1] - 1
           /\ s[n].kind \notin {"open", "close"} => l[n] = l[n - 1]
  BY <1>1, LevelIs
<1> HIDE DEF l
<1>4. ASSUME NEW n \in 1 .. m, l[n - 1] > 0 \/ s[n].kind = "open"
      PROVE  f[<<p[n - 1], l[n - 1]>>] = IF l[n] = 0 THEN p[n - 1] ELSE f[<<p[n], l[n]>>]
  <2> DEFINE x == <<p[n - 1], l[n - 1]>>
  <2>1. n \in 1 .. Len(s) /\ n - 1 \in 0 .. Len(s) /\ n - 1 \in 0 .. m
    BY <1>1
  <2>2. x \in Nat \X Int /\ x[1] = p[n - 1] /\ x[2] = l[n - 1] /\ p[n - 1] \in Nat /\ l[n - 1] \in Nat
    BY <1>3, <2>1 DEF LaidOut
  <2>3. ~(p[n - 1] >= Len(d)) /\ p[n] = p[n - 1] + ItemSize(d, p[n - 1])
    BY <1>1, <2>2 DEF LaidOut
  <2>4. /\ s[n].kind = "open" <=> Command(At(d, p[n - 1])) = Collection
        /\ s[n].kind = "close" <=> Command(At(d, p[n - 1])) = EndCollection
    BY DEF LaidOut
  <2> HIDE DEF x
  <2>5. LevelThen(d, x) = l[n]
    <3>1. CASE s[n].kind = "open"
      BY <1>3, <2>1, <2>2, <2>4, <3>1 DEF LevelThen
    <3>2. CASE s[n].kind = "close"
      <4>1. l[n] = l[n - 1] - 1
        BY <1>3, <1>4, <2>1, <2>2, <3>2
      <4> QED
        BY <2>2, <2>4, <3>2, <4>1 DEF LevelThen, Collection, EndCollection
    <3>3. CASE s[n].kind \notin {"open", "close"}
      BY <1>3, <2>1, <2>2, <2>4, <3>3 DEF LevelThen
    <3> QED
      BY <3>1, <3>2, <3>3
  <2> QED
    BY <1>2, <2>2, <2>3, <2>5 DEF Walks, x
<1> DEFINE T == {k \in i .. m : (\A j \in i .. k : l[j] > 0)
                                => f[<<p[i - 1], 0>>] = f[<<p[k], l[k]>>]}
<1>5. l[i] = 1
  BY <1>1, <1>3
<1>6. i \in T
  <2>1. f[<<p[i - 1], 0>>] = f[<<p[i], l[i]>>]
    BY <1>1, <1>4, <1>5
  <2> QED
    BY <1>1, <2>1
<1>7. ASSUME NEW k \in i .. m, k + 1 \in i .. m, k \in T
      PROVE  k + 1 \in T
  <2> SUFFICES ASSUME \A j \in i .. k + 1 : l[j] > 0
               PROVE  f[<<p[i - 1], 0>>] = f[<<p[k + 1], l[k + 1]>>]
    BY <1>7
  <2>1. k \in i .. k + 1 /\ k + 1 \in i .. k + 1 /\ (\A j \in i .. k : j \in i .. k + 1)
    BY <1>1, <1>7
  <2>2. f[<<p[i - 1], 0>>] = f[<<p[k], l[k]>>]
    BY <1>7, <2>1
  <2>3. k + 1 \in 1 .. m /\ (k + 1) - 1 = k /\ l[k] > 0 /\ l[k + 1] > 0 /\ ~(l[k + 1] = 0)
    BY <1>1, <1>7, <2>1
  <2>4. f[<<p[k], l[k]>>] = f[<<p[k + 1], l[k + 1]>>]
    BY <1>4, <2>3
  <2> QED
    BY <2>2, <2>4
<1>8. \A k \in i .. m : k \in T
  <2> HIDE DEF T
  <2> QED
    BY <1>1, <1>6, <1>7, Upward
<1>9. EndOfCollection(d, p[i - 1]) = f[<<p[i - 1], 0>>]
  <2>1. p[i - 1] \in Nat
    BY <1>1 DEF LaidOut
  <2> QED
    BY <1>2, <2>1
<1>10. CASE \A j \in i .. m : l[j] > 0
  <2>1. f[<<p[i - 1], 0>>] = f[<<p[m], l[m]>>]
    BY <1>1, <1>8, <1>10
  <2>2. p[m] \in Nat /\ p[m] >= Len(d) /\ l[m] \in Nat
    BY <1>1, <1>3 DEF LaidOut
  <2>3. f[<<p[m], l[m]>>] = p[m]
    <3> DEFINE x == <<p[m], l[m]>>
    <3>1. x \in Nat \X Int /\ x[1] = p[m]
      BY <2>2
    <3> HIDE DEF x
    <3> QED
      BY <1>2, <2>2, <3>1 DEF Walks, x
  <2>4. ~ \E e \in 1 .. m : EndsAt(s, i, e)
    <3>1. ASSUME NEW e \in 1 .. m, EndsAt(s, i, e) PROVE FALSE
      <4>1. e \in i .. m /\ l[e] = 0
        BY <1>1, <3>1 DEF EndsAt, l
      <4> QED
        BY <1>10, <4>1
    <3> QED
      BY <3>1
  <2> QED
    BY <1>9, <2>1, <2>2, <2>3, <2>4
<1>11. CASE \E j \in i .. m : ~(l[j] > 0)
  <2> DEFINE Zero == {j \in i .. m : ~(l[j] > 0)}
  <2>1. PICK e \in Zero : \A x \in Zero : e <= x
    <3>1. Zero \subseteq Nat /\ Zero # {}
      BY <1>1, <1>11
    <3> HIDE DEF Zero
    <3> QED
      BY <3>1, SomeLeast
  <2>2. e \in i .. m /\ ~(l[e] > 0) /\ e \in 1 .. Len(s) /\ e \in 1 .. m /\ e \in Nat
    BY <1>1, <2>1
  <2>3. l[e] = 0 /\ e # i /\ e - 1 \in i .. m /\ i < e
    <3>1. l[e] \in Nat
      BY <1>3, <2>2
    <3> QED
      BY <1>1, <1>5, <2>2, <3>1
  <2>4. \A k \in i .. e - 1 : l[k] > 0
    <3> SUFFICES ASSUME NEW k \in i .. e - 1, ~(l[k] > 0) PROVE FALSE
      OBVIOUS
    <3>1. k \in Zero /\ ~(e <= k)
      BY <1>1, <2>2
    <3> HIDE DEF Zero
    <3> QED
      BY <2>1, <3>1
  <2>5. EndsAt(s, i, e)
    BY <2>2, <2>3, <2>4 DEF EndsAt, l
  <2>6. f[<<p[i - 1], 0>>] = f[<<p[e - 1], l[e - 1]>>]
    BY <1>8, <2>3, <2>4
  <2>7. l[e - 1] > 0
    BY <1>1, <2>2, <2>3, <2>4
  <2>8. f[<<p[e - 1], l[e - 1]>>] = p[e - 1]
    BY <1>4, <2>2, <2>3, <2>7
  <2> QED
    BY <1>9, <2>2, <2>5, <2>6, <2>8
<1> QED
  BY <1>10, <1>11

LEMMA CollectionsIs ==
  ASSUME NEW s, Len(s) \in Nat
  PROVE  /\ Collections(s) \subseteq 1 .. Len(s) /\ IsFiniteSet(Collections(s))
         /\ Cardinality(Collections(s)) \in Nat
<1>1. Collections(s) \subseteq 1 .. Len(s)
  BY DEF Collections, Top
<1>2. IsFiniteSet(1 .. Len(s))
  BY FS_Interval
<1> QED
  BY <1>1, <1>2, FS_Subset, FS_CardinalityType

(* The collections that begin after the k-th item.                         *)
Later(s, k) == {c \in Collections(s) : c > k}

LEMMA LaterIs ==
  ASSUME NEW s, Len(s) \in Nat, NEW k \in Nat
  PROVE  /\ IsFiniteSet(Later(s, k)) /\ Cardinality(Later(s, k)) \in Nat
         /\ Cardinality(Later(s, k)) <= Cardinality(Collections(s))
         /\ \A c \in Later(s, k) : Cardinality(Later(s, c)) + 1 <= Cardinality(Later(s, k))
<1>1. IsFiniteSet(Collections(s)) /\ Collections(s) \subseteq Nat
  BY CollectionsIs
<1>2. Later(s, k) \subseteq Collections(s)
  BY DEF Later
<1>3. IsFiniteSet(Later(s, k)) /\ Cardinality(Later(s, k)) <= Cardinality(Collections(s))
  BY <1>1, <1>2, FS_Subset
<1>4. Cardinality(Later(s, k)) \in Nat
  BY <1>3, FS_CardinalityType
<1>5. ASSUME NEW c \in Later(s, k)
      PROVE  Cardinality(Later(s, c)) + 1 <= Cardinality(Later(s, k))
  <2> DEFINE S == Later(s, c)
             R == S \cup {c}
  <2>1. c \in Nat /\ c > k
    BY <1>1 DEF Later
  <2>2. R \subseteq Later(s, k) /\ c \notin S
    BY <1>1, <2>1 DEF Later
  <2>3. IsFiniteSet(S)
    BY <1>3, <2>2, FS_Subset
  <2>4. Cardinality(R) = Cardinality(S) + 1
    BY <2>2, <2>3, FS_AddElement
  <2>5. Cardinality(R) <= Cardinality(Later(s, k))
    BY <1>3, <2>2, FS_Subset
  <2> QED
    BY <2>4, <2>5
<1> QED
  BY <1>3, <1>4, <1>5

(* An item that begins no collection is passed by, whatever is known.      *)
LEMMA PastIs ==
  ASSUME NEW d \in Seq(Byte), NEW x \in ScanArgs, x[1] < Len(d),
         Command(At(d, x[1])) # Collection
  PROVE  /\ ~Begins(d, x)
         /\ \E page, usage \in Known : Past(d, x) = <<x[1] + ItemSize(d, x[1]), page, usage>>
<1> DEFINE cmd == Command(At(d, x[1]))
           item == ItemSize(d, x[1])
           size == item - 1
<1>1. x[1] \in Nat /\ x[2] \in Known /\ x[3] \in Known
  BY DEF ScanArgs
<1>2. item \in Nat \ {0} /\ size \in Nat /\ x[1] + size + 1 = x[1] + item
  BY <1>1, ItemIs
<1>3. \A n, k \in Nat : <<GetBytes(d, n, k)>> \in Known
  BY BytesIs, KnownIs
<1>4. cmd # Collection
  OBVIOUS
<1>5. Past(d, x) = CASE cmd = UsagePage -> <<x[1] + size + 1, <<GetBytes(d, size, x[1])>>, x[3]>>
                     [] cmd = Usage /\ size = 4 ->
                          <<x[1] + 5, <<GetBytes(d, 2, x[1] + 2)>>, <<GetBytes(d, 2, x[1])>>>>
                     [] cmd = Usage /\ size # 4 -> <<x[1] + size + 1, x[2], <<GetBytes(d, size, x[1])>>>>
                     [] cmd = Collection -> <<EndOfCollection(d, x[1])
                                                + ItemSize(d, EndOfCollection(d, x[1])), x[2], x[3]>>
                     [] OTHER -> <<x[1] + size + 1, x[2], x[3]>>
  BY DEF Past
<1> HIDE DEF cmd, item
<1>6. CASE cmd = UsagePage
  BY <1>1, <1>2, <1>3, <1>4, <1>5, <1>6 DEF Begins, cmd, item, UsagePage, Usage, Collection
<1>7. CASE cmd = Usage /\ size = 4
  <2>1. x[1] + 5 = x[1] + item /\ x[1] + 2 \in Nat
    BY <1>1, <1>2, <1>7
  <2>2. Past(d, x) = <<x[1] + item, <<GetBytes(d, 2, x[1] + 2)>>, <<GetBytes(d, 2, x[1])>>>>
    <3>1. Past(d, x) = <<x[1] + 5, <<GetBytes(d, 2, x[1] + 2)>>, <<GetBytes(d, 2, x[1])>>>>
      <4> HIDE DEF size
      <4> QED
        BY <1>4, <1>5, <1>7 DEF UsagePage, Usage
    <3> QED
      BY ONLY <2>1, <3>1
  <2> DEFINE pg == <<GetBytes(d, 2, x[1] + 2)>>
             us == <<GetBytes(d, 2, x[1])>>
  <2>3. pg \in Known /\ us \in Known
    BY <1>1, <1>3, <2>1
  <2> HIDE DEF pg, us
  <2>4. Past(d, x) = <<x[1] + item, pg, us>>
    BY <2>2 DEF pg, us
  <2> QED
    BY <1>4, <2>3, <2>4 DEF Begins, cmd, item
<1>8. CASE cmd = Usage /\ size # 4
  BY <1>1, <1>2, <1>3, <1>4, <1>5, <1>8 DEF Begins, cmd, item, UsagePage, Usage, Collection
<1>9. CASE cmd \notin {UsagePage, Usage}
  <2>1. Past(d, x) = <<x[1] + size + 1, x[2], x[3]>>
    BY <1>4, <1>5, <1>9
  <2> QED
    BY <1>1, <1>2, <1>4, <2>1 DEF Begins, cmd, item
<1> QED
  BY <1>6, <1>7, <1>8, <1>9

(* A call that goes on behind the k-th item, outside of all collections,   *)
(* finds no pair, or that of a collection that ends.                       *)
LEMMA CallFinds ==
  ASSUME NEW d, NEW s, NEW p, NEW m, LaidOut(d, s, p, m), NEW start \in Nat,
         NEW f, Scans(f, d, start),
         NEW k \in 0 .. m, Level(s)[k] = 0, NEW page \in Known, NEW usage \in Known
  PROVE  \/ /\ f[<<p[k], page, usage>>].pos >= Len(d)
            /\ start # 0 => Len(f[<<p[k], page, usage>>].pair) < 2
         \/ \E c \in Collections(s), e \in 1 .. m :
              c > k /\ EndsAt(s, c, e) /\ f[<<p[k], page, usage>>].pos = p[e - 1]
<1> DEFINE Finds(n, r) == \/ r.pos >= Len(d) /\ (start # 0 => Len(r.pair) < 2)
                          \/ \E c \in Collections(s), e \in 1 .. m :
                               c > n /\ EndsAt(s, c, e) /\ r.pos = p[e - 1]
           Good(n) == Level(s)[n] = 0 => \A pg, us \in Known : Finds(n, f[<<p[n], pg, us>>])
           T == {n \in 0 .. m : \A j \in n .. m : Good(j)}
<1>1. /\ d \in Seq(Byte) /\ Len(d) \in Nat /\ Len(s) \in Nat /\ m \in 0 .. Len(s) /\ m \in Nat
      /\ p \in [0 .. m -> Nat] /\ p[m] >= Len(d)
      /\ \A n \in 1 .. m : p[n - 1] < Len(d) /\ p[n] = p[n - 1] + ItemSize(d, p[n - 1])
  BY DEF LaidOut
<1>2. ASSUME NEW n \in 0 .. m, \A j \in n + 1 .. m : Good(j), Level(s)[n] = 0,
             NEW pg \in Known, NEW us \in Known
      PROVE  Finds(n, f[<<p[n], pg, us>>])
  <2> DEFINE x == <<p[n], pg, us>>
             r == f[x]
  <2>1. x \in ScanArgs /\ x[1] = p[n] /\ x[2] = pg /\ x[3] = us /\ p[n] \in Nat
    BY <1>1 DEF ScanArgs
  <2> HIDE DEF x
  <2>2. r = IF x[1] >= Len(d) THEN AtEnd(start, x)
            ELSE IF Begins(d, x) THEN AtBegin(d, x) ELSE f[Past(d, x)]
    BY <2>1 DEF Scans
  <2> HIDE DEF r
  <2>3. CASE p[n] >= Len(d)
    <3>1. r = AtEnd(start, x)
      BY <2>1, <2>2, <2>3
    <3>2. r.pos = p[n] /\ (start # 0 => r.pair = <<>>)
      BY <2>1, <3>1 DEF AtEnd
    <3> QED
      BY <2>3, <3>2 DEF x, r
  <2>4. CASE ~(p[n] >= Len(d))
    <3> DEFINE i == n + 1
    <3>1. i \in 1 .. m /\ i \in 1 .. Len(s) /\ i - 1 = n /\ p[n] < Len(d) /\ i \in n + 1 .. m /\ i > n
      BY <1>1, <2>1, <2>4
    <3> HIDE DEF i
    <3>2. i \in Top(s)
      BY <1>1, <1>2, <3>1, TopIs
    <3>3. r = IF Begins(d, x) THEN AtBegin(d, x) ELSE f[Past(d, x)]
      BY <2>1, <2>2, <2>4
    <3>4. CASE s[i].kind = "open"
      <4>1. i \in Collections(s) /\ i <= m /\ Command(At(d, x[1])) = Collection
        BY <1>1, <2>1, <3>1, <3>2, <3>4, TopIs DEF LaidOut
      <4> DEFINE end == EndOfCollection(d, x[1])
      <4>2. CASE end >= Len(d)
        <5>1. r = AtBegin(d, x)
          BY <3>3, <4>1, <4>2 DEF Begins
        <5>2. r.pair = <<>> /\ r.pos = end
          BY <4>2, <5>1 DEF AtBegin
        <5> QED
          BY <4>2, <5>2 DEF x, r
      <4>3. CASE ~(end >= Len(d))
        <5>1. PICK e \in 1 .. m : EndsAt(s, i, e) /\ end = p[e - 1]
          BY <2>1, <3>1, <4>1, <4>3, EndIsFound
        <5>2. e > n /\ e \in n + 1 .. m /\ Level(s)[e] = 0 /\ p[e] = end + ItemSize(d, end)
          BY <1>1, <3>1, <5>1 DEF EndsAt
        <5>3. CASE Begins(d, x)
          <6>1. r.pos = p[e - 1]
            BY <3>3, <5>1, <5>3 DEF AtBegin
          <6> QED
            BY <3>1, <4>1, <5>1, <6>1 DEF x, r
        <5>4. CASE ~Begins(d, x)
          <6>1. Past(d, x) = <<p[e], pg, us>>
            BY <2>1, <4>1, <5>2 DEF Past, UsagePage, Usage, Collection
          <6>2. Finds(e, f[<<p[e], pg, us>>])
            BY <1>2, <5>2
          <6>3. \A c \in Collections(s) : c > e => c > n
            <7>1. Collections(s) \subseteq Nat
              BY <1>1, CollectionsIs
            <7> QED
              BY <5>2, <7>1
          <6>4. Finds(n, f[<<p[e], pg, us>>])
            BY <6>2, <6>3
          <6> QED
            BY <3>3, <5>4, <6>1, <6>4 DEF x, r
        <5> QED
          BY <5>3, <5>4
      <4> QED
        BY <4>2, <4>3
    <3>5. CASE s[i].kind # "open"
      <4>1. Command(At(d, x[1])) # Collection /\ Level(s)[i] = 0 /\ p[i] = p[n] + ItemSize(d, p[n])
        BY <1>1, <2>1, <3>1, <3>2, <3>5, TopIs DEF LaidOut
      <4>2. PICK pg2 \in Known, us2 \in Known : Past(d, x) = <<p[i], pg2, us2>> /\ ~Begins(d, x)
        BY <1>1, <2>1, <3>1, <4>1, PastIs
      <4>3. Finds(i, f[<<p[i], pg2, us2>>])
        BY <1>2, <3>1, <4>1
      <4>4. \A c \in Collections(s) : c > i => c > n
        <5>1. Collections(s) \subseteq Nat
          BY <1>1, CollectionsIs
        <5> QED
          BY <3>1, <5>1
      <4>5. Finds(n, f[<<p[i], pg2, us2>>])
        BY <4>3, <4>4
      <4> QED
        BY <3>3, <4>2, <4>5 DEF x, r
    <3> QED
      BY <3>4, <3>5
  <2> QED
    BY <2>3, <2>4
<1> HIDE DEF Finds
<1>3. m \in T
  <2>1. \A j \in m .. m : j = m /\ j \in 0 .. m
    BY <1>1
  <2>2. m \in 0 .. m /\ \A j \in m + 1 .. m : Good(j)
    BY <1>1
  <2>3. Good(m)
    BY <1>2, <2>2
  <2> HIDE DEF Good
  <2> QED
    BY <1>1, <2>1, <2>3
<1>4. ASSUME NEW n \in 0 .. m, n - 1 \in 0 .. m, n \in T
      PROVE  n - 1 \in T
  <2>1. \A j \in (n - 1) + 1 .. m : Good(j)
    <3>1. \A j \in (n - 1) + 1 .. m : j \in n .. m
      BY <1>1, <1>4
    <3> HIDE DEF Good
    <3> QED
      BY <1>4, <3>1
  <2>2. Good(n - 1)
    BY ONLY <1>2, <1>4, <2>1
  <2>3. \A j \in n - 1 .. m : j = n - 1 \/ j \in (n - 1) + 1 .. m
    BY <1>1, <1>4
  <2> HIDE DEF Good
  <2> QED
    BY <1>4, <2>1, <2>2, <2>3
<1>5. \A n \in 0 .. m : n \in T
  <2>1. 0 <= m => m \in T
    BY <1>3
  <2> HIDE DEF T
  <2>2. 0 \in Nat
    OBVIOUS
  <2> QED
    BY ONLY <1>1, <1>4, <2>1, <2>2, Downward
<1>6. Good(k)
  <2>1. k \in T
    <3> HIDE DEF T
    <3> QED
      BY <1>5
  <2>2. k \in k .. m
    BY <1>1
  <2> HIDE DEF Good
  <2> QED
    BY <2>1, <2>2
<1> QED
  BY <1>6 DEF Finds

(* No call finds more than the collections that begin behind the last one. *)
LEMMA MoreIs ==
  ASSUME NEW d, NEW s, NEW p, NEW m, LaidOut(d, s, p, m),
         NEW f, Calls(f, d), \A x \in Nat \X Known : f[x] \in Seq(Nat \X Nat)
  PROVE  \A c \in Collections(s), e \in 1 .. m :
           EndsAt(s, c, e) => \A page \in Known : Len(f[<<p[e - 1], page>>]) <= Cardinality(Later(s, c))
<1> DEFINE Good(c) == \A e \in 1 .. m : EndsAt(s, c, e) =>
                        \A page \in Known : Len(f[<<p[e - 1], page>>]) <= Cardinality(Later(s, c))
           Bad == {n \in Nat : \E c \in Collections(s) : ~Good(c) /\ n = Len(s) - c}
<1>1. /\ d \in Seq(Byte) /\ Len(d) \in Nat /\ Len(s) \in Nat /\ m \in 0 .. Len(s) /\ m \in Nat
      /\ p \in [0 .. m -> Nat]
      /\ \A n \in 1 .. m : /\ p[n - 1] < Len(d) /\ p[n] = p[n - 1] + ItemSize(d, p[n - 1])
                           /\ p[n - 1] < p[n]
                           /\ s[n].kind = "open" <=> Command(At(d, p[n - 1])) = Collection
  BY DEF LaidOut
<1>2. Collections(s) \subseteq 1 .. Len(s)
  BY <1>1, CollectionsIs
<1>3. SUFFICES ASSUME NEW c \in Collections(s), \A k \in Collections(s) : k > c => Good(k)
               PROVE  Good(c)
  <2>1. SUFFICES ASSUME Bad # {} PROVE FALSE
    <3> HIDE DEF Good
    <3>1. ASSUME NEW k \in Collections(s), ~Good(k) PROVE Len(s) - k \in Bad
      <4>1. Len(s) - k \in Nat
        BY <1>1, <1>2
      <4> QED
        BY <3>1, <4>1
    <3>2. \A k \in Collections(s) : Good(k)
      BY <2>1, <3>1
    <3> QED
      BY <3>2 DEF Good
  <2>2. PICK n \in Bad : \A x \in Bad : n <= x
    <3>1. Bad \subseteq Nat
      OBVIOUS
    <3> HIDE DEF Bad
    <3> QED
      BY <2>1, <3>1, SomeLeast
  <2> HIDE DEF Good
  <2>3. PICK c \in Collections(s) : ~Good(c) /\ n = Len(s) - c
    BY <2>2
  <2>4. ASSUME NEW k \in Collections(s), k > c, ~Good(k) PROVE FALSE
    <3>1. Len(s) - k \in Nat /\ ~(n <= Len(s) - k)
      <4>1. k \in 1 .. Len(s) /\ c \in 1 .. Len(s)
        BY <1>2
      <4> QED
        BY ONLY <1>1, <2>3, <2>4, <4>1
    <3>2. Len(s) - k \in Bad
      BY <2>4, <3>1
    <3> QED
      BY <2>2, <3>1, <3>2
  <2> QED
    BY <1>3, <2>3, <2>4
<1> SUFFICES ASSUME NEW e \in 1 .. m, EndsAt(s, c, e), NEW page \in Known
             PROVE  Len(f[<<p[e - 1], page>>]) <= Cardinality(Later(s, c))
  OBVIOUS
<1> HIDE DEF Good
<1>4. c \in 1 .. Len(s) /\ c \in Nat /\ c < e /\ s[e].kind = "close" /\ Level(s)[e] = 0
  <2>1. Len(s) \in Nat
    BY <1>1
  <2>2. c \in 1 .. Len(s) /\ s[e].kind = "close"
    BY <2>1, EndsAtIs
  <2>3. c < e /\ Level(s)[e] = 0
    BY DEF EndsAt
  <2> QED
    BY ONLY <2>1, <2>2, <2>3
<1> DEFINE start == p[e - 1]
           x == <<start, page>>
           left == <<>>
<1>5. start \in Nat /\ start < Len(d) /\ start # 0 /\ ~(start >= Len(d)) /\ e \in 0 .. m
  <2>1. e - 1 \in 1 .. m /\ e - 1 \in 0 .. m /\ (e - 1) - 1 \in 0 .. m /\ e \in 0 .. m
    <3>1. m \in Nat /\ Len(s) \in Nat /\ e \in 1 .. m
      BY <1>1
    <3>2. c >= 1 /\ c \in Nat /\ c < e
      BY ONLY <1>4, <3>1
    <3> QED
      BY ONLY <3>1, <3>2
  <2> DEFINE a == p[(e - 1) - 1]
  <2>2. a < start /\ a \in Nat /\ start \in Nat /\ start < Len(d)
    BY <1>1, <2>1
  <2>3. e \in 0 .. m /\ Len(d) \in Nat
    BY <1>1, <2>1
  <2> HIDE DEF a, start
  <2> QED
    BY ONLY <2>2, <2>3
<1>6. PICK g : Scans(g, d, start) /\ NextUsage(d, start, page) = g[<<start, page, left>>]
  <2> HIDE DEF start
  <2> QED
    BY <1>1, <1>5, ScanIs
<1>7. PICK pg \in Known, us \in Known : NextUsage(d, start, page) = g[<<p[e], pg, us>>]
  <2> DEFINE y == <<start, page, left>>
  <2>1. y \in ScanArgs /\ y[1] = start
    BY <1>5, KnownIs DEF ScanArgs
  <2>2. Command(At(d, start)) # Collection /\ p[e] = start + ItemSize(d, start)
    BY <1>1, <1>4
  <2> HIDE DEF y, start
  <2>3. PICK pg \in Known, us \in Known : Past(d, y) = <<p[e], pg, us>> /\ ~Begins(d, y)
    BY <1>1, <1>5, <2>1, <2>2, PastIs
  <2>4. g[y] = g[Past(d, y)]
    BY <1>5, <1>6, <2>1, <2>3 DEF Scans
  <2> QED
    BY <1>6, <2>3, <2>4 DEF y
<1>8. \/ NextUsage(d, start, page).pos >= Len(d) /\ Len(NextUsage(d, start, page).pair) < 2
      \/ \E k \in Collections(s), i \in 1 .. m :
           k > e /\ EndsAt(s, k, i) /\ NextUsage(d, start, page).pos = p[i - 1]
  <2> HIDE DEF start
  <2> QED
    BY ONLY <1>4, <1>5, <1>6, <1>7, CallFinds, LaidOut(d, s, p, m)
<1>9. x \in Nat \X Known /\ x[1] = start /\ x[2] = page
  BY <1>5
<1>10. Cardinality(Later(s, c)) \in Nat /\ \A k \in Later(s, c) :
          Cardinality(Later(s, k)) \in Nat /\ Cardinality(Later(s, k)) + 1 <= Cardinality(Later(s, c))
  <2>1. Later(s, c) \subseteq Nat
    BY <1>2 DEF Later
  <2> QED
    BY <1>1, <1>4, <2>1, LaterIs
<1>11. Pair(d, x) = NextUsage(d, start, page).pair
         /\ Resume(d, x) = <<NextUsage(d, start, page).pos, NextUsage(d, start, page).page>>
  BY <1>9 DEF Pair, Resume
<1> HIDE DEF x, start
<1>12. f[x] = IF Len(Pair(d, x)) < 2 THEN <<>> ELSE <<Pair(d, x)>> \o f[Resume(d, x)]
  BY <1>9 DEF Calls
<1>13. CASE Len(Pair(d, x)) < 2
  <2>1. Len(f[x]) = 0
    BY <1>12, <1>13
  <2> QED
    BY <1>10, <2>1 DEF x, start
<1>14. CASE ~(Len(Pair(d, x)) < 2)
  <2>1. PICK k \in Collections(s), i \in 1 .. m :
          k > e /\ EndsAt(s, k, i) /\ NextUsage(d, start, page).pos = p[i - 1]
    BY <1>8, <1>11, <1>14
  <2>2. k > c /\ k \in Later(s, c)
    BY <1>1, <1>2, <1>4, <2>1 DEF Later
  <2> DEFINE y == Resume(d, x)
             rest == f[y]
             pair == Pair(d, x)
  <2>3. y \in Nat \X Known /\ y = <<p[i - 1], y[2]>> /\ y[2] \in Known /\ pair \in Nat \X Nat
    <3>1. y \in Nat \X Known /\ pair \in Nat \X Nat
      BY <1>1, <1>9, <1>14, CallIs
    <3>2. y = <<p[i - 1], NextUsage(d, start, page).page>>
      BY <1>11, <2>1
    <3> HIDE DEF y, pair
    <3> QED
      BY <3>1, <3>2
  <2> HIDE DEF y, pair
  <2>4. Len(rest) <= Cardinality(Later(s, k))
    BY <1>3, <2>1, <2>2, <2>3 DEF Good
  <2>5. rest \in Seq(Nat \X Nat)
    BY <2>3
  <2> HIDE DEF rest
  <2>6. Len(<<pair>> \o rest) = 1 + Len(rest) /\ Len(rest) \in Nat
    BY <2>5
  <2>7. f[x] = <<pair>> \o rest
    BY <1>12, <1>14 DEF rest, pair, y
  <2>8. Len(f[x]) <= Cardinality(Later(s, c))
    BY <1>10, <2>2, <2>4, <2>6, <2>7
  <2> QED
    BY <2>8 DEF x, start
<1> QED
  BY <1>13, <1>14

LEMMA AtLeastOne ==
  ASSUME NEW n \in Nat
  PROVE  Max({1, n}) \in Nat /\ 1 <= Max({1, n}) /\ n <= Max({1, n})
<1>1. {1, n} \subseteq Nat /\ {1, n} # {} /\ \A x \in {1, n} : x <= n + 1
  OBVIOUS
<1>2. n + 1 \in Nat
  OBVIOUS
<1>3. Max({1, n}) \in {1, n} /\ \A x \in {1, n} : x <= Max({1, n})
  BY ONLY <1>1, <1>2, GreatestIs
<1> QED
  BY <1>3

LEMMA NoMoreThanBegin ==
  ASSUME NEW d, NEW s, NEW p, NEW m, LaidOut(d, s, p, m)
  PROVE  Len(DeviceUsages(d)) \in 1 .. Max({1, Cardinality(Collections(s))})
<1>1. /\ d \in Seq(Byte) /\ Len(d) \in Nat /\ Len(s) \in Nat /\ m \in 0 .. Len(s) /\ m \in Nat
      /\ 0 \in 0 .. m /\ p[0] = 0 /\ p \in [0 .. m -> Nat]
  BY DEF LaidOut
<1>2. PICK f : /\ Calls(f, d) /\ \A x \in Nat \X Known : f[x] \in Seq(Nat \X Nat)
               /\ DeviceUsages(d) = <<FirstUsage(d)>> \o f[Resume(d, FirstCall)]
  BY <1>1, CallsIs
<1> DEFINE n == Cardinality(Collections(s))
           call == NextUsage(d, 0, <<>>)
           y == Resume(d, FirstCall)
           rest == f[y]
<1>3. n \in Nat /\ 0 \in Nat
  BY <1>1, CollectionsIs
<1>4. y = <<call.pos, call.page>> /\ y \in Nat \X Known /\ FirstUsage(d) \in Nat \X Nat
  BY <1>1, FirstCallIs DEF Resume, FirstCall
<1>5. \/ call.pos >= Len(d)
      \/ \E k \in Collections(s), i \in 1 .. m : k > 0 /\ EndsAt(s, k, i) /\ call.pos = p[i - 1]
  <2>1. <<>> \in Known /\ Level(s)[0] = 0
    BY <1>1, KnownIs, LevelIs
  <2>2. PICK g : Scans(g, d, 0) /\ call = g[<<0, <<>>, <<>>>>]
    BY <1>1, <1>3, <2>1, ScanIs
  <2>3. call = g[<<p[0], <<>>, <<>>>>]
    BY <1>1, <2>2
  <2> DEFINE none == <<>>
  <2>4. none \in Known /\ 0 \in 0 .. m /\ call = g[<<p[0], none, none>>]
    BY <1>1, <2>1, <2>3
  <2> HIDE DEF call, none
  <2>5. \/ g[<<p[0], none, none>>].pos >= Len(d)
        \/ \E k \in Collections(s), i \in 1 .. m :
             k > 0 /\ EndsAt(s, k, i) /\ g[<<p[0], none, none>>].pos = p[i - 1]
    BY ONLY LaidOut(d, s, p, m), <1>3, <2>1, <2>2, <2>4, CallFinds
  <2> QED
    BY <2>4, <2>5
<1>6. Len(rest) + 1 <= n \/ rest = <<>>
  <2>1. CASE call.pos >= Len(d)
    <3>1. y[1] >= Len(d)
      BY <1>4, <2>1
    <3> HIDE DEF y, call
    <3>2. Len(Pair(d, y)) < 2
      <4>1. y[1] \in Nat /\ (~(Len(Pair(d, y)) < 2) => y[1] < Len(d))
        BY <1>1, <1>4, CallIs
      <4> QED
        BY <1>1, <3>1, <4>1
    <3> QED
      BY <1>2, <1>4, <3>2 DEF Calls
  <2>2. ASSUME NEW k \in Collections(s), NEW i \in 1 .. m, k > 0, EndsAt(s, k, i), call.pos = p[i - 1]
        PROVE  Len(rest) + 1 <= n
    <3>1. y = <<p[i - 1], y[2]>> /\ y[2] \in Known
      BY <1>4, <2>2
    <3> HIDE DEF y
    <3>2. Len(rest) <= Cardinality(Later(s, k))
      BY <1>2, <2>2, <3>1, MoreIs
    <3>3. rest \in Seq(Nat \X Nat)
      BY <1>2, <1>4
    <3>4. k \in Later(s, 0) /\ k \in Nat
      BY <1>1, <2>2, CollectionsIs DEF Later
    <3> HIDE DEF rest
    <3>5. /\ Cardinality(Later(s, k)) \in Nat /\ Cardinality(Later(s, 0)) \in Nat
          /\ Cardinality(Later(s, 0)) <= n /\ Cardinality(Later(s, k)) + 1 <= Cardinality(Later(s, 0))
      BY <1>1, <1>3, <3>4, LaterIs
    <3>6. Len(rest) \in Nat
      BY <3>3
    <3> QED
      BY <1>3, <3>2, <3>5, <3>6
  <2> QED
    BY <1>5, <2>1, <2>2
<1>7. rest \in Seq(Nat \X Nat)
  BY <1>2, <1>4
<1> DEFINE pair == FirstUsage(d)
<1>8. DeviceUsages(d) = <<pair>> \o rest /\ pair \in Nat \X Nat
  BY <1>2, <1>4
<1> HIDE DEF y, rest, n, pair
<1>9. Len(<<pair>> \o rest) = 1 + Len(rest) /\ Len(rest) \in Nat
  BY <1>7
<1>10. Max({1, n}) \in Nat /\ 1 <= Max({1, n}) /\ n <= Max({1, n})
  BY <1>3, AtLeastOne
<1>11. rest = <<>> => Len(rest) = 0
  OBVIOUS
<1>12. Len(DeviceUsages(d)) \in 1 .. Max({1, n})
  BY <1>3, <1>6, <1>8, <1>9, <1>10, <1>11
<1> QED
  BY <1>12 DEF n

(* An item at offset b of a descriptor, that may be cut off.               *)
ItemAt(d, b, item) ==
  /\ b < Len(d)
  /\ \A o \in 1 .. Len(item.bytes) : b + o <= Len(d) => d[b + o] = item.bytes[o]

LEMMA SizeIs ==
  ASSUME NEW d \in Seq(Byte), NEW b \in Nat, NEW item, IsItem(item), ItemAt(d, b, item)
  PROVE  /\ Len(item.bytes) \in Nat \ {0} /\ At(d, b) = item.bytes[1]
         /\ ItemSize(d, b) \in Nat \ {0}
         /\ b + Len(item.bytes) <= Len(d) => ItemSize(d, b) = Len(item.bytes)
         /\ b + Len(item.bytes) >= Len(d) => b + ItemSize(d, b) >= Len(d)
<1> DEFINE bytes == item.bytes
           L == Len(d)
           B == Len(bytes)
           I == ItemSize(d, b)
<1>1. /\ bytes \in Seq(Byte) /\ B > 0 /\ B \in Nat /\ L \in Nat /\ b < L
      /\ LongItem(bytes[1]) => B > 2 /\ B = 3 + bytes[2]
      /\ ~LongItem(bytes[1]) => B = 1 + ShortLength(bytes[1])
  BY DEF IsItem, ItemAt, Byte
<1>2. At(d, b) = bytes[1]
  <2>1. 1 \in 1 .. B /\ b + 1 <= L
    BY <1>1
  <2> QED
    BY <2>1 DEF ItemAt, At
<1>3. I \in Nat \ {0}
  BY <1>1, ItemIs
<1>4. ASSUME b + 1 < L, LongItem(bytes[1]) PROVE I = B
  <2>1. 2 \in 1 .. B /\ b + 2 <= L
    BY <1>1, <1>4
  <2>2. d[(b + 1) + 1] = bytes[2]
    <3>1. (b + 1) + 1 = b + 2
      OBVIOUS
    <3>2. d[b + 2] = bytes[2]
      BY <2>1 DEF ItemAt
    <3> QED
      BY <3>1, <3>2
  <2>3. I = bytes[2] + 3 /\ bytes[2] \in Nat
    <3>1. bytes[2] \in Byte
      BY <1>1, <2>1
    <3>2. I = At(d, b + 1) + 3
      BY <1>2, <1>4 DEF ItemSize
    <3>3. At(d, b + 1) = bytes[2]
      BY <2>2 DEF At
    <3> HIDE DEF I, bytes
    <3>4. Byte \subseteq Nat
      BY ONLY DEF Byte
    <3> QED
      BY <3>1, <3>2, <3>3, <3>4
  <2> HIDE DEF B, I, bytes
  <2> QED
    BY <1>1, <1>4, <2>3
<1>5. ASSUME ~LongItem(bytes[1]) PROVE I = B
  <2>1. I = ShortLength(bytes[1]) + 1
    BY <1>2, <1>5 DEF ItemSize
  <2>2. ShortLength(bytes[1]) \in Nat
    <3>1. bytes[1] \in Byte
      BY <1>1
    <3> HIDE DEF bytes
    <3>2. Byte \subseteq Nat
      BY ONLY DEF Byte
    <3> QED
      BY <3>1, <3>2, LengthIs
  <2> HIDE DEF B, I, bytes
  <2> QED
    BY <1>1, <1>5, <2>1, <2>2
<1>6. LongItem(bytes[1]) => B > 2
  BY <1>1
<1> HIDE DEF B, I, bytes, L
<1>7. b + B <= L => I = B
  BY <1>1, <1>4, <1>5, <1>6
<1>8. b + B >= L => b + I >= L
  <2>1. CASE b + 1 < L /\ LongItem(bytes[1])
    BY <1>4, <2>1
  <2>2. CASE ~(b + 1 < L)
    BY <1>1, <1>3, <2>2
  <2>3. CASE ~LongItem(bytes[1])
    BY <1>5, <2>3
  <2> QED
    BY <2>1, <2>2, <2>3
<1> QED
  BY <1>1, <1>2, <1>3, <1>7, <1>8 DEF B, I, bytes, L

(* The kind of an item.                                                    *)
LEMMA KindIs ==
  ASSUME NEW item, IsItem(item), NEW cmd, cmd = Command(item.bytes[1])
  PROVE  /\ item.kind = "page" <=> cmd = UsagePage
         /\ item.kind = "long" <=> cmd = Usage /\ Len(item.bytes) = 5
         /\ item.kind = "usage" <=> cmd = Usage /\ Len(item.bytes) # 5
         /\ item.kind = "open" <=> cmd = Collection
         /\ item.kind = "close" <=> cmd = EndCollection
<1> DEFINE five == Len(item.bytes) = 5
<1>1. item.kind = CASE cmd = UsagePage -> "page"
                    [] cmd = Usage -> IF five THEN "long" ELSE "usage"
                    [] cmd = Collection -> "open"
                    [] cmd = EndCollection -> "close"
                    [] OTHER -> "other"
  BY DEF IsItem
<1> HIDE DEF five
<1>2. CASE cmd = 4
  BY <1>1, <1>2 DEF UsagePage, Usage, Collection, EndCollection
<1>3. CASE cmd = 8 /\ five
  BY <1>1, <1>3 DEF UsagePage, Usage, Collection, EndCollection, five
<1>4. CASE cmd = 8 /\ ~five
  BY <1>1, <1>4 DEF UsagePage, Usage, Collection, EndCollection, five
<1>5. CASE cmd = 160
  BY <1>1, <1>5 DEF UsagePage, Usage, Collection, EndCollection
<1>6. CASE cmd = 192
  BY <1>1, <1>6 DEF UsagePage, Usage, Collection, EndCollection
<1>7. CASE cmd \notin {4, 8, 160, 192}
  BY <1>1, <1>7 DEF UsagePage, Usage, Collection, EndCollection
<1> QED
  BY <1>2, <1>3, <1>4, <1>5, <1>6, <1>7

Pieces(s) == [i \in 1 .. Len(s) |-> s[i].bytes]

LEMMA PiecesIs ==
  ASSUME NEW s, IsBlock(s)
  PROVE  /\ Len(s) \in Nat /\ Pieces(s) \in Seq(Seq(Byte)) /\ Len(Pieces(s)) = Len(s)
         /\ BytesOf(s) = FlattenSeq(Pieces(s)) /\ BytesOf(s) \in Seq(Byte)
         /\ \A i \in 1 .. Len(s) : IsItem(s[i]) /\ Pieces(s)[i] = s[i].bytes /\ s[i].bytes \in Seq(Byte)
<1>1. Len(s) \in Nat /\ \A i \in 1 .. Len(s) : IsItem(s[i])
  BY DEF IsBlock
<1>2. \A i \in 1 .. Len(s) : s[i].bytes \in Seq(Byte)
  BY <1>1 DEF IsItem, Byte
<1>3. Pieces(s) \in [1 .. Len(s) -> Seq(Byte)]
  BY <1>2 DEF Pieces
<1>4. Pieces(s) \in Seq(Seq(Byte)) /\ Len(Pieces(s)) = Len(s)
  BY <1>1, <1>3
<1>5. BytesOf(s) = FlattenSeq(Pieces(s))
  BY DEF BytesOf, Pieces
<1>6. FlattenSeq(Pieces(s)) \in Seq(Byte)
  BY <1>4, FlattenIs
<1>7. \A i \in 1 .. Len(s) : Pieces(s)[i] = s[i].bytes
  BY DEF Pieces
<1> QED
  BY <1>1, <1>2, <1>4, <1>5, <1>6, <1>7

(* The items of a descriptor are at their offsets, also in what is left of *)
(* it when it is cut off.                                                  *)
LEMMA ItemsAt ==
  ASSUME NEW s, IsBlock(s), NEW p, Offsets(p, Pieces(s)), NEW n \in 0 .. Len(BytesOf(s)),
         NEW d, d = SubSeq(BytesOf(s), 1, n)
  PROVE  /\ d \in Seq(Byte) /\ Len(d) = n /\ Len(s) \in Nat
         /\ p \in [0 .. Len(s) -> Nat] /\ p[0] = 0 /\ p[Len(s)] = Len(BytesOf(s))
         /\ \A k \in 1 .. Len(s) : /\ p[k] = p[k - 1] + Len(s[k].bytes) /\ p[k - 1] < p[k]
                                   /\ p[k - 1] < n => ItemAt(d, p[k - 1], s[k])
<1> DEFINE whole == BytesOf(s)
           P == Pieces(s)
<1>1. /\ Len(s) \in Nat /\ Len(P) = Len(s) /\ whole = FlattenSeq(P) /\ whole \in Seq(Byte)
      /\ \A i \in 1 .. Len(s) : IsItem(s[i]) /\ P[i] = s[i].bytes /\ s[i].bytes \in Seq(Byte)
  BY PiecesIs
<1> HIDE DEF whole, P
<1>2. /\ p \in [0 .. Len(s) -> Nat] /\ p[0] = 0 /\ p[Len(s)] = Len(whole)
      /\ \A k \in 1 .. Len(s) :
           /\ p[k] = p[k - 1] + Len(s[k].bytes)
           /\ \A o \in 1 .. Len(s[k].bytes) : whole[p[k - 1] + o] = s[k].bytes[o]
  <2>1. /\ p \in [0 .. Len(P) -> Nat] /\ p[0] = 0 /\ p[Len(P)] = Len(FlattenSeq(P))
        /\ \A k \in 1 .. Len(P) :
             /\ p[k] = p[k - 1] + Len(P[k])
             /\ \A o \in 1 .. Len(P[k]) : FlattenSeq(P)[p[k - 1] + o] = P[k][o]
    BY DEF Offsets, P
  <2>2. ASSUME NEW k \in 1 .. Len(s)
        PROVE  /\ p[k] = p[k - 1] + Len(s[k].bytes)
               /\ \A o \in 1 .. Len(s[k].bytes) : whole[p[k - 1] + o] = s[k].bytes[o]
    <3>1. k \in 1 .. Len(P) /\ P[k] = s[k].bytes /\ whole = FlattenSeq(P)
      BY <1>1
    <3> QED
      BY <2>1, <3>1
  <2> QED
    BY <1>1, <2>1, <2>2
<1>3. d \in Seq(Byte) /\ Len(d) = n /\ \A i \in 1 .. n : d[i] = whole[i]
  BY <1>1 DEF whole
<1>4. ASSUME NEW k \in 1 .. Len(s)
      PROVE  p[k - 1] < p[k] /\ (p[k - 1] < n => ItemAt(d, p[k - 1], s[k]))
  <2>1. p[k - 1] \in Nat /\ p[k] \in Nat
    <3>1. k - 1 \in 0 .. Len(s) /\ k \in 0 .. Len(s)
      BY <1>1
    <3> QED
      BY <1>2, <3>1
  <2>2. Len(s[k].bytes) > 0 /\ Len(s[k].bytes) \in Nat
    BY <1>1 DEF IsItem
  <2> DEFINE b == p[k - 1]
             B == Len(s[k].bytes)
  <2>3. b \in Nat /\ B \in Nat /\ B > 0 /\ p[k] = b + B
    BY <1>2, <2>1, <2>2
  <2>4. \A o \in 1 .. B : whole[b + o] = s[k].bytes[o]
    BY <1>2
  <2> HIDE DEF b, B
  <2>5. b < p[k]
    BY <2>3
  <2>6. b < n => ItemAt(d, b, s[k])
    <3>1. ASSUME NEW o \in 1 .. B, b + o <= n PROVE d[b + o] = s[k].bytes[o]
      <4>1. b + o \in 1 .. n
        BY <2>3, <3>1
      <4> QED
        BY <1>3, <2>4, <4>1
    <3> QED
      BY <1>3, <3>1 DEF ItemAt, B
  <2> QED
    BY <2>5, <2>6 DEF b
<1> QED
  BY <1>1, <1>2, <1>3, <1>4 DEF whole

LEMMA CutIsLaidOut ==
  ASSUME NEW s, IsBlock(s), NEW n \in 0 .. Len(BytesOf(s))
  PROVE  \E p, m : LaidOut(SubSeq(BytesOf(s), 1, n), s, p, m)
<1> DEFINE d == SubSeq(BytesOf(s), 1, n)
<1>1. PICK q : Offsets(q, Pieces(s))
  BY PiecesIs, FlattenAt
<1>2. /\ d \in Seq(Byte) /\ Len(d) = n /\ Len(s) \in Nat
      /\ q \in [0 .. Len(s) -> Nat] /\ q[0] = 0 /\ q[Len(s)] = Len(BytesOf(s))
      /\ \A k \in 1 .. Len(s) : /\ q[k] = q[k - 1] + Len(s[k].bytes) /\ q[k - 1] < q[k]
                                /\ q[k - 1] < n => ItemAt(d, q[k - 1], s[k])
  BY <1>1, ItemsAt
<1>3. Len(BytesOf(s)) \in Nat /\ n \in Nat /\ n <= Len(BytesOf(s)) /\ \A k \in 1 .. Len(s) : IsItem(s[k])
  BY PiecesIs
<1> DEFINE Reached == {k \in 0 .. Len(s) : q[k] >= n}
<1>4. PICK m \in Reached : \A k \in Reached : m <= k
  <2>1. Len(s) \in Reached
    BY <1>2, <1>3
  <2>2. Reached \subseteq Nat
    BY <1>2
  <2>3. Reached # {}
    <3> HIDE DEF Reached
    <3> QED
      BY <2>1
  <2> HIDE DEF Reached
  <2> QED
    BY <2>2, <2>3, SomeLeast
<1>5. m \in 0 .. Len(s) /\ m \in Nat /\ q[m] >= n
  BY <1>2, <1>4
<1>6. ASSUME NEW k \in 0 .. m - 1 PROVE q[k] < n /\ q[k] \in Nat /\ k \in 0 .. Len(s)
  <2>1. k \in 0 .. Len(s) /\ ~(m <= k)
    BY <1>2, <1>5
  <2>2. q[k] \in Nat /\ ~(q[k] >= n)
    BY <1>2, <1>4, <2>1
  <2> QED
    BY <1>3, <2>1, <2>2
<1> HIDE DEF d, Reached
<1>7. ASSUME NEW k \in 1 .. m
      PROVE  /\ k - 1 \in 0 .. m - 1 /\ q[k - 1] < n /\ q[k - 1] \in Nat
             /\ ItemSize(d, q[k - 1]) \in Nat \ {0}
             /\ At(d, q[k - 1]) = s[k].bytes[1] /\ IsItem(s[k])
             /\ k # m => q[k] = q[k - 1] + ItemSize(d, q[k - 1])
             /\ k = m => q[k - 1] + ItemSize(d, q[k - 1]) >= n
  <2>1. k - 1 \in 0 .. m - 1 /\ k \in 1 .. Len(s) /\ (k # m => k \in 0 .. m - 1)
    BY <1>2, <1>5
  <2>2. q[k - 1] < n /\ q[k - 1] \in Nat /\ ItemAt(d, q[k - 1], s[k]) /\ IsItem(s[k])
    BY <1>2, <1>3, <1>6, <2>1
  <2> DEFINE b == q[k - 1]
             B == Len(s[k].bytes)
  <2>3. /\ B \in Nat \ {0} /\ At(d, b) = s[k].bytes[1] /\ ItemSize(d, b) \in Nat \ {0}
        /\ b + B <= n => ItemSize(d, b) = B
        /\ b + B >= n => b + ItemSize(d, b) >= n
    BY <1>2, <2>2, SizeIs
  <2>4. q[k] = b + B
    BY <1>2, <2>1
  <2>5. k # m => q[k] < n
    BY <1>6, <2>1
  <2>6. b \in Nat /\ b < n
    BY <2>2
  <2> HIDE DEF b, B
  <2>7. k # m => q[k] = b + ItemSize(d, b)
    BY <1>3, <2>3, <2>4, <2>5, <2>6
  <2>8. k = m => b + ItemSize(d, b) >= n
    BY <1>5, <2>3, <2>4
  <2> QED
    BY <2>1, <2>2, <2>3, <2>7, <2>8 DEF b
<1> DEFINE p == [k \in 0 .. m |-> IF k = m /\ m # 0 THEN q[m - 1] + ItemSize(d, q[m - 1]) ELSE q[k]]
<1>8. /\ \A k \in 0 .. m - 1 : p[k] = q[k]
      /\ m = 0 => p[m] = q[m]
      /\ m # 0 => p[m] = q[m - 1] + ItemSize(d, q[m - 1]) /\ m \in 1 .. m /\ 0 \in 0 .. m - 1
  BY <1>5
<1>9. p \in [0 .. m -> Nat] /\ p[0] = 0 /\ p[m] >= n
  <2>1. m = 0 => p[0] = 0 /\ p[m] >= n
    BY <1>2, <1>5, <1>8
  <2>2. m # 0 => p[0] = 0 /\ p[m] \in Nat /\ p[m] >= n
    BY <1>2, <1>7, <1>8
  <2>3. ASSUME NEW k \in 0 .. m PROVE p[k] \in Nat
    <3>1. k = m \/ k \in 0 .. m - 1
      BY <1>5
    <3> HIDE DEF p
    <3> QED
      BY <1>6, <1>8, <2>1, <2>2, <3>1
  <2>4. p = [k \in 0 .. m |-> p[k]]
    OBVIOUS
  <2> HIDE DEF p
  <2> QED
    BY <2>1, <2>2, <2>3, <2>4
<1> HIDE DEF p
<1>10. ASSUME NEW k \in 1 .. m
       PROVE  /\ p[k - 1] < n /\ p[k] = p[k - 1] + ItemSize(d, p[k - 1]) /\ p[k - 1] < p[k]
              /\ s[k].kind = "open" <=> Command(At(d, p[k - 1])) = Collection
              /\ s[k].kind = "close" <=> Command(At(d, p[k - 1])) = EndCollection
  <2>1. p[k - 1] = q[k - 1] /\ (k # m => p[k] = q[k]) /\ m # 0
    <3>1. k - 1 \in 0 .. m - 1 /\ (k # m => k \in 0 .. m - 1) /\ m # 0
      BY <1>5
    <3> QED
      BY <1>8, <3>1
  <2> DEFINE b == p[k - 1]
             I == ItemSize(d, b)
  <2>2. b < n /\ b \in Nat /\ I \in Nat \ {0} /\ p[k] = b + I
    BY <1>7, <1>8, <2>1
  <2>3. At(d, b) = s[k].bytes[1] /\ IsItem(s[k])
    BY <1>7, <2>1
  <2>4. /\ s[k].kind = "open" <=> Command(At(d, b)) = Collection
        /\ s[k].kind = "close" <=> Command(At(d, b)) = EndCollection
    BY <2>3, KindIs
  <2> HIDE DEF b, I
  <2>5. b < p[k]
    BY <2>2
  <2> QED
    BY <2>2, <2>4, <2>5 DEF b, I
<1>11. LaidOut(d, s, p, m)
  BY <1>2, <1>5, <1>9, <1>10 DEF LaidOut
<1> QED
  BY <1>11 DEF d

(* A descriptor that is cut off anywhere has no more usages than           *)
(* collections that begin, or one for the device.                          *)
THEOREM CutInventsNothing ==
  ASSUME NEW s, IsBlock(s), NEW n \in 0 .. Len(BytesOf(s))
  PROVE  NoneInvented(s, SubSeq(BytesOf(s), 1, n))
<1>1. PICK p, m : LaidOut(SubSeq(BytesOf(s), 1, n), s, p, m)
  BY CutIsLaidOut
<1>2. SubSeq(BytesOf(s), 1, n) \in Seq(Byte)
  BY <1>1 DEF LaidOut
<1> QED
  BY <1>1, <1>2, NoMoreThanBegin, UsageIs DEF NoneInvented

-----------------------------------------------------------------------------
(* A descriptor as a whole: its items are at the offsets p.                *)
Whole(d, s, p) == IsBlock(s) /\ d = BytesOf(s) /\ Offsets(p, Pieces(s))

LEMMA WholeIs ==
  ASSUME NEW d, NEW s, NEW p, Whole(d, s, p)
  PROVE  /\ d \in Seq(Byte) /\ Len(d) \in Nat /\ Len(s) \in Nat
         /\ p \in [0 .. Len(s) -> Nat] /\ p[0] = 0 /\ p[Len(s)] = Len(d)
         /\ \A k \in 1 .. Len(s) :
              /\ IsItem(s[k]) /\ ItemAt(d, p[k - 1], s[k]) /\ At(d, p[k - 1]) = s[k].bytes[1]
              /\ p[k - 1] \in Nat /\ p[k] \in Nat /\ p[k - 1] < p[k] /\ p[k] <= Len(d) /\ p[k - 1] < Len(d)
              /\ p[k] = p[k - 1] + Len(s[k].bytes) /\ ItemSize(d, p[k - 1]) = Len(s[k].bytes)
         /\ LaidOut(d, s, p, Len(s))
<1> DEFINE n == Len(BytesOf(s))
<1>1. IsBlock(s) /\ d = BytesOf(s) /\ BytesOf(s) \in Seq(Byte) /\ n \in Nat /\ n \in 0 .. n
  <2>1. IsBlock(s) /\ d = BytesOf(s) /\ BytesOf(s) \in Seq(Byte)
    BY PiecesIs DEF Whole
  <2>2. n \in Nat
    BY <2>1
  <2> HIDE DEF n
  <2> QED
    BY <2>1, <2>2
<1>2. d = SubSeq(BytesOf(s), 1, n)
  BY <1>1, SubSeqFull
<1>3. /\ d \in Seq(Byte) /\ Len(d) = n /\ Len(s) \in Nat
      /\ p \in [0 .. Len(s) -> Nat] /\ p[0] = 0 /\ p[Len(s)] = Len(BytesOf(s))
      /\ \A k \in 1 .. Len(s) : /\ p[k] = p[k - 1] + Len(s[k].bytes) /\ p[k - 1] < p[k]
                                /\ p[k - 1] < n => ItemAt(d, p[k - 1], s[k])
  BY <1>1, <1>2, ItemsAt DEF Whole
<1>4. \A k \in 1 .. Len(s) : IsItem(s[k])
  BY <1>1, PiecesIs
<1> HIDE DEF n
<1>5. \A k, m \in 0 .. Len(s) : k <= m => p[k] <= p[m]
  <2>1. ASSUME NEW k \in 1 .. Len(s) PROVE p[k - 1] <= p[k]
    <3>1. p[k - 1] < p[k] /\ p[k - 1] \in Nat /\ p[k] \in Nat
      <4>1. k - 1 \in 0 .. Len(s) /\ k \in 0 .. Len(s)
        BY <1>3
      <4> QED
        BY <1>3, <4>1
    <3> QED
      BY <3>1
  <2> QED
    BY <1>3, <2>1, Growing
<1>6. ASSUME NEW k \in 1 .. Len(s)
      PROVE  /\ IsItem(s[k]) /\ ItemAt(d, p[k - 1], s[k]) /\ At(d, p[k - 1]) = s[k].bytes[1]
             /\ p[k - 1] \in Nat /\ p[k] \in Nat /\ p[k - 1] < p[k] /\ p[k] <= Len(d) /\ p[k - 1] < Len(d)
             /\ p[k] = p[k - 1] + Len(s[k].bytes) /\ ItemSize(d, p[k - 1]) = Len(s[k].bytes)
  <2>1. k - 1 \in 0 .. Len(s) /\ k \in 0 .. Len(s) /\ k <= Len(s) /\ Len(s) \in 0 .. Len(s)
    BY <1>3
  <2> DEFINE b == p[k - 1]
             e == p[k]
             B == Len(s[k].bytes)
  <2>2. b \in Nat /\ e \in Nat /\ e <= n /\ b < e /\ e = b + B /\ (b < n => ItemAt(d, b, s[k]))
    <3>1. p[Len(s)] = n
      BY <1>3 DEF n
    <3> QED
      BY <1>3, <1>5, <2>1, <3>1
  <2>3. IsItem(s[k])
    BY <1>4
  <2> HIDE DEF b, e, B
  <2>4. b < n
    BY <1>1, <2>2
  <2>5. At(d, b) = s[k].bytes[1] /\ (b + Len(s[k].bytes) <= Len(d) => ItemSize(d, b) = Len(s[k].bytes))
    BY <1>3, <2>2, <2>3, <2>4, SizeIs
  <2>6. ItemSize(d, b) = B
    BY <1>3, <2>2, <2>5 DEF B
  <2> QED
    BY <1>3, <2>2, <2>3, <2>4, <2>5, <2>6 DEF b, e, B
<1>7. ASSUME NEW k \in 1 .. Len(s)
      PROVE  /\ p[k - 1] < Len(d) /\ p[k] = p[k - 1] + ItemSize(d, p[k - 1]) /\ p[k - 1] < p[k]
             /\ s[k].kind = "open" <=> Command(At(d, p[k - 1])) = Collection
             /\ s[k].kind = "close" <=> Command(At(d, p[k - 1])) = EndCollection
  BY <1>6, KindIs
<1>8. Len(s) \in 0 .. Len(s) /\ p[Len(s)] >= Len(d)
  BY <1>1, <1>3 DEF n
<1>9. LaidOut(d, s, p, Len(s))
  BY <1>3, <1>7, <1>8 DEF LaidOut
<1> QED
  BY <1>1, <1>3, <1>6, <1>9 DEF n

(* The bytes that are the value of an item.                                *)
LEMMA ValueIs ==
  ASSUME NEW d, NEW s, NEW p, Whole(d, s, p), NEW k \in 1 .. Len(s),
         NEW b, b = p[k - 1], NEW bytes, bytes = s[k].bytes
  PROVE  /\ GetBytes(d, Len(bytes) - 1, b) = Value(bytes)
         /\ Len(bytes) = 5 => /\ GetBytes(d, 2, b) = bytes[2] + 256 * bytes[3]
                              /\ GetBytes(d, 2, b + 2) = bytes[4] + 256 * bytes[5]
<1> DEFINE B == Len(bytes)
           L == Len(d)
<1>1. /\ b \in Nat /\ b + B <= L /\ L \in Nat /\ B \in Nat /\ B > 0
      /\ \A o \in 1 .. B : b + o <= L => d[b + o] = bytes[o]
  <2>1. ItemAt(d, b, s[k]) /\ IsItem(s[k]) /\ b \in Nat /\ p[k] = b + B /\ p[k] <= L /\ L \in Nat
    BY WholeIs
  <2> QED
    BY <2>1 DEF IsItem, ItemAt
<1> HIDE DEF B, L
<1>2. ASSUME NEW o \in 1 .. B PROVE d[b + o] = bytes[o]
  <2>1. b + o <= L
    BY ONLY <1>1
  <2> QED
    BY <1>1, <2>1
<1>3. ASSUME NEW o \in Nat, o + 1 \in 1 .. B PROVE At(d, b + o) = bytes[o + 1]
  <2>1. (b + o) + 1 = b + (o + 1)
    BY ONLY <1>1
  <2> QED
    BY <1>2, <1>3, <2>1 DEF At
<1>4. GetBytes(d, B - 1, b) = Value(bytes)
  <2>1. ~(b + (B - 1) >= L)
    BY ONLY <1>1
  <2>2. CASE B = 1
    BY <1>1, <2>1, <2>2 DEF GetBytes, Value, L, B
  <2>3. CASE B = 2
    <3>1. At(d, b + 1) = bytes[2]
      BY <1>3, <2>3
    <3>2. GetBytes(d, B - 1, b) = At(d, b + 1)
      BY <2>1, <2>3 DEF GetBytes, L
    <3>3. Value(bytes) = bytes[2]
      BY <2>3 DEF Value, B
    <3> QED
      BY <3>1, <3>2, <3>3
  <2>4. CASE B > 2
    <3>1. At(d, b + 1) = bytes[2] /\ At(d, b + 2) = bytes[3]
      <4>1. 1 + 1 \in 1 .. B /\ 2 + 1 \in 1 .. B
        BY ONLY <1>1, <2>4
      <4> QED
        BY <1>3, <4>1
    <3>2. ~(B - 1 = 0) /\ ~(B - 1 = 1) /\ ~(B = 1) /\ ~(B = 2)
      BY <1>1, <2>4
    <3>3. GetBytes(d, B - 1, b) = At(d, b + 1) + 256 * At(d, b + 2)
      BY <2>1, <3>2 DEF GetBytes, L
    <3>4. Value(bytes) = bytes[2] + 256 * bytes[3]
      BY <3>2 DEF Value, B
    <3> QED
      BY <3>1, <3>3, <3>4
  <2> QED
    BY <1>1, <2>2, <2>3, <2>4
<1>5. ASSUME B = 5
      PROVE  /\ GetBytes(d, 2, b) = bytes[2] + 256 * bytes[3]
             /\ GetBytes(d, 2, b + 2) = bytes[4] + 256 * bytes[5]
  <2>1. ~(b + 2 >= L) /\ ~((b + 2) + 2 >= L)
    BY ONLY <1>1, <1>5
  <2>2. At(d, b + 1) = bytes[2] /\ At(d, b + 2) = bytes[3] /\ At(d, b + 3) = bytes[4] /\ At(d, b + 4) = bytes[5]
    <3>1. 1 + 1 \in 1 .. B /\ 2 + 1 \in 1 .. B /\ 3 + 1 \in 1 .. B /\ 4 + 1 \in 1 .. B
      BY <1>5
    <3> QED
      BY <1>3, <3>1
  <2>3. (b + 2) + 1 = b + 3 /\ (b + 2) + 2 = b + 4
    BY <1>1
  <2>4. GetBytes(d, 2, b) = At(d, b + 1) + 256 * At(d, b + 2)
    BY <2>1 DEF GetBytes, L
  <2>5. GetBytes(d, 2, b + 2) = At(d, b + 3) + 256 * At(d, b + 4)
    BY <2>1, <2>3 DEF GetBytes, L
  <2> QED
    BY <2>2, <2>4, <2>5
<1> QED
  BY <1>4, <1>5 DEF B

(* What is known after an item.                                            *)
PageThen(item, page) == IF item.kind \in {"page", "long"} THEN <<item.page>> ELSE page

UsageThen(item, usage) == IF item.kind \in {"usage", "long"} THEN <<item.usage>> ELSE usage

LEMMA ItemPast ==
  ASSUME NEW d, NEW s, NEW p, Whole(d, s, p), NEW k \in 1 .. Len(s),
         NEW page \in Known, NEW usage \in Known, NEW x, x = <<p[k - 1], page, usage>>
  PROVE  /\ s[k].kind # "open" =>
              Past(d, x) = <<p[k], PageThen(s[k], page), UsageThen(s[k], usage)>>
         /\ UsbPast(d, x) = <<p[k], PageThen(s[k], page), UsageThen(s[k], usage)>>
         /\ PageThen(s[k], page) \in Known /\ UsageThen(s[k], usage) \in Known
<1> DEFINE b == p[k - 1]
           item == s[k]
           bytes == item.bytes
           B == Len(bytes)
           cmd == Command(At(d, b))
           size == B - 1
<1>1. /\ IsItem(item) /\ At(d, b) = bytes[1] /\ ItemSize(d, b) = B /\ p[k] = b + B /\ B \in Nat /\ B > 0
      /\ b \in Nat /\ d \in Seq(Byte) /\ b + B <= Len(d) /\ Len(d) \in Nat /\ ItemAt(d, b, item)
  <2>1. /\ IsItem(item) /\ At(d, b) = bytes[1] /\ ItemSize(d, b) = B /\ p[k] = b + B
        /\ b \in Nat /\ d \in Seq(Byte) /\ p[k] <= Len(d) /\ Len(d) \in Nat /\ ItemAt(d, b, item)
    BY WholeIs
  <2>2. B \in Nat /\ B > 0
    BY <2>1 DEF IsItem
  <2> QED
    BY <2>1, <2>2
<1>2. /\ GetBytes(d, size, b) = Value(bytes)
      /\ B = 5 => /\ GetBytes(d, 2, b) = bytes[2] + 256 * bytes[3]
                  /\ GetBytes(d, 2, b + 2) = bytes[4] + 256 * bytes[5]
  BY ValueIs
<1>3. /\ item.kind = "page" <=> cmd = UsagePage
      /\ item.kind = "long" <=> cmd = Usage /\ B = 5
      /\ item.kind = "usage" <=> cmd = Usage /\ B # 5
      /\ item.kind = "open" <=> cmd = Collection
  BY <1>1, KindIs
<1>4. /\ item.kind = "page" => item.page = Value(bytes)
      /\ item.kind = "usage" => item.usage = Value(bytes)
      /\ item.kind = "long" => item.usage = bytes[2] + 256 * bytes[3] /\ item.page = bytes[4] + 256 * bytes[5]
  BY <1>1 DEF IsItem
<1>5. IF LongItem(bytes[1]) THEN B > 2 ELSE B = 1 + ShortLength(bytes[1])
  BY <1>1 DEF IsItem
<1>6. size = B - 1 /\ x[1] = b /\ x[2] = page /\ x[3] = usage /\ cmd = Command(At(d, b))
  OBVIOUS
<1> HIDE DEF b, item, bytes, B, cmd, size
<1>16. /\ ItemSize(d, b) - 1 = size /\ size \in Nat /\ b + 2 \in Nat
       /\ x[1] + size + 1 = p[k] /\ b + size + 1 = p[k]
       /\ size = 4 <=> B = 5
       /\ size = 4 => x[1] + 5 = p[k]
  BY ONLY <1>1, <1>6
<1>17. (cmd \in {UsagePage, Usage} => UsbDataLength(d, b) = size) /\ UsbNextItem(d, b) = p[k]
  <2>1. CASE LongItem(bytes[1])
    <3>1. b + 1 < Len(d)
      BY ONLY <1>1, <1>5, <2>1
    <3> DEFINE v == At(d, b + 1)
    <3>2. v \in Nat
      BY <1>1, <3>1, ByteAt
    <3>3. ItemSize(d, b) = v + 3 /\ UsbDataLength(d, b) = v /\ UsbNextItem(d, b) = b + UsbDataLength(d, b) + 3
      BY <1>1, <2>1, <3>1 DEF ItemSize, UsbDataLength, UsbNextItem
    <3>4. cmd \notin {UsagePage, Usage}
      <4> DEFINE key == At(d, b)
      <4>1. key \in Nat /\ key >= 240 /\ cmd = key - (key % 4)
        BY <1>1, <1>6, <2>1, ByteAt DEF LongItem, Command
      <4> HIDE DEF key
      <4>2. cmd > 200
        BY ONLY <4>1
      <4> QED
        BY ONLY <4>2 DEF UsagePage, Usage
    <3> HIDE DEF v
    <3>5. UsbNextItem(d, b) = p[k]
      BY ONLY <1>1, <3>2, <3>3
    <3> QED
      BY <3>4, <3>5
  <2>2. CASE ~LongItem(bytes[1])
    <3> DEFINE v == ShortLength(At(d, b))
    <3>1. v \in Nat
      <4>1. At(d, b) \in Nat
        <5>1. b < Len(d)
          BY ONLY <1>1
        <5> QED
          BY <1>1, <5>1, ByteAt
      <4> QED
        BY <4>1, LengthIs
    <3>2. ItemSize(d, b) = v + 1 /\ UsbDataLength(d, b) = v /\ UsbNextItem(d, b) = b + UsbDataLength(d, b) + 1
      BY <1>1, <2>2 DEF ItemSize, UsbDataLength, UsbNextItem
    <3> HIDE DEF v
    <3> QED
      BY ONLY <1>1, <1>16, <3>1, <3>2
  <2> QED
    BY <2>1, <2>2
<1> DEFINE after == <<p[k], PageThen(item, page), UsageThen(item, usage)>>
           value == GetBytes(d, size, b)
           own == GetBytes(d, 2, b)
           ownPage == GetBytes(d, 2, b + 2)
<1>7. value \in Nat /\ own \in Nat /\ ownPage \in Nat
  BY <1>1, <1>16, BytesIs
<1>8. Past(d, x) = CASE cmd = UsagePage -> <<x[1] + size + 1, <<value>>, usage>>
                     [] cmd = Usage /\ size = 4 -> <<x[1] + 5, <<ownPage>>, <<own>>>>
                     [] cmd = Usage /\ size # 4 -> <<x[1] + size + 1, page, <<value>>>>
                     [] cmd = Collection -> <<EndOfCollection(d, b) + ItemSize(d, EndOfCollection(d, b)), page, usage>>
                     [] OTHER -> <<x[1] + size + 1, page, usage>>
  BY <1>6, <1>16 DEF Past, value, own, ownPage
<1>9. UsbPast(d, x) = IF cmd = UsagePage THEN <<p[k], <<value>>, usage>>
                      ELSE IF cmd = Usage /\ size = 4 THEN <<p[k], <<ownPage>>, <<own>>>>
                      ELSE IF cmd = Usage THEN <<p[k], page, <<value>>>> ELSE <<p[k], page, usage>>
  <2> DEFINE u == UsbDataLength(d, b)
             long == cmd = Usage /\ u = 4
  <2>1. UsbPast(d, x) = <<p[k], IF cmd = UsagePage THEN <<GetBytes(d, u, b)>>
                                ELSE IF long THEN <<ownPage>> ELSE page,
                          IF cmd = Usage THEN <<GetBytes(d, IF long THEN 2 ELSE u, b)>> ELSE usage>>
    BY <1>6, <1>17 DEF UsbPast, ownPage
  <2>2. cmd \in {UsagePage, Usage} => u = size
    BY <1>17
  <2>3. UsagePage # Usage
    BY DEF UsagePage, Usage
  <2> HIDE DEF u
  <2> QED
    BY <2>1, <2>2, <2>3 DEF value, own
<1>10. /\ item.kind = "page" => item.page = value
       /\ item.kind = "usage" => item.usage = value
       /\ item.kind = "long" => item.usage = own /\ item.page = ownPage
  BY <1>2, <1>3, <1>4 DEF value, own, ownPage
<1>11. x[1] + size + 1 = p[k] /\ (size = 4 => x[1] + 5 = p[k]) /\ (size = 4 <=> B = 5)
  BY <1>16
<1>12. PageThen(item, page) \in Known /\ UsageThen(item, usage) \in Known
  <2> HIDE DEF value, own, ownPage
  <2> QED
    BY <1>7, <1>10, KnownIs DEF PageThen, UsageThen
<1> HIDE DEF value, own, ownPage
<1>13. CASE item.kind = "page"
  <2>1. cmd = UsagePage
    BY <1>3, <1>13
  <2>2. after = <<p[k], <<value>>, usage>>
    BY <1>10, <1>13 DEF PageThen, UsageThen
  <2>3. Past(d, x) = <<p[k], <<value>>, usage>>
    BY <1>8, <1>11, <2>1 DEF UsagePage, Usage, Collection
  <2>4. UsbPast(d, x) = <<p[k], <<value>>, usage>>
    BY <1>9, <2>1 DEF UsagePage, Usage
  <2> QED
    BY <1>12, <2>2, <2>3, <2>4 DEF item
<1>14. CASE item.kind = "long"
  <2>1. cmd = Usage /\ size = 4
    BY <1>3, <1>11, <1>14
  <2>2. after = <<p[k], <<ownPage>>, <<own>>>>
    BY <1>10, <1>14 DEF PageThen, UsageThen
  <2>3. Past(d, x) = <<x[1] + 5, <<ownPage>>, <<own>>>>
    BY <1>8, <2>1 DEF UsagePage, Usage, Collection
  <2>4. UsbPast(d, x) = <<p[k], <<ownPage>>, <<own>>>>
    BY <1>9, <2>1 DEF UsagePage, Usage, own
  <2> QED
    BY <1>11, <1>12, <2>1, <2>2, <2>3, <2>4 DEF item
<1>15. CASE item.kind = "usage"
  <2>1. cmd = Usage /\ size # 4
    BY <1>3, <1>11, <1>15
  <2>2. after = <<p[k], page, <<value>>>>
    BY <1>10, <1>15 DEF PageThen, UsageThen
  <2>3. Past(d, x) = <<p[k], page, <<value>>>>
    BY <1>8, <1>11, <2>1 DEF UsagePage, Usage, Collection
  <2>4. UsbPast(d, x) = <<p[k], page, <<value>>>>
    BY <1>9, <2>1 DEF UsagePage, Usage, value
  <2> QED
    BY <1>12, <2>2, <2>3, <2>4 DEF item
<1>18. CASE item.kind \notin {"page", "long", "usage"}
  <2>1. cmd \notin {UsagePage, Usage}
    BY <1>3, <1>18
  <2>2. after = <<p[k], page, usage>>
    BY <1>18 DEF PageThen, UsageThen
  <2>3. item.kind # "open" => cmd # Collection
    BY <1>3
  <2>4. item.kind # "open" => Past(d, x) = <<p[k], page, usage>>
    BY <1>8, <1>11, <2>1, <2>3
  <2>5. UsbPast(d, x) = <<p[k], page, usage>>
    BY <1>9, <2>1
  <2> QED
    BY <1>12, <2>2, <2>4, <2>5 DEF item
<1> QED
  BY <1>13, <1>14, <1>15, <1>18

-----------------------------------------------------------------------------
(* The page and the usage that are stated before the i-th item, as they    *)
(* are known to a call.                                                    *)
PageAt(s, i) == IF PagesFor(s, i) = {} THEN <<>> ELSE <<s[Max(PagesFor(s, i))].page>>

UsageAt(s, i) == IF UsagesFor(s, i) = {} THEN <<>> ELSE <<s[Max(UsagesFor(s, i))].usage>>

Before(s, p, i) == <<p[i - 1], PageAt(s, i), UsageAt(s, i)>>

LEMMA NewGreatest ==
  ASSUME NEW S, S \subseteq Nat, NEW n \in Nat, \A x \in S : x < n
  PROVE  Max(S \cup {n}) = n
<1> DEFINE T == S \cup {n}
<1>1. T \subseteq Nat /\ T # {} /\ \A x \in T : x <= n
  BY SMT
<1>2. Max(T) \in T /\ \A x \in T : x <= Max(T)
  <2> HIDE DEF T
  <2> QED
    BY <1>1, GreatestIs
<1>3. Max(T) <= n /\ n <= Max(T) /\ Max(T) \in Nat
  <2>1. n \in T
    OBVIOUS
  <2> HIDE DEF T
  <2> QED
    BY <1>1, <1>2, <2>1
<1> QED
  BY <1>3

(* An item that is in no collection and begins none.                       *)
LEMMA ForNext ==
  ASSUME NEW s, Len(s) \in Nat, NEW i \in Top(s), s[i].kind # "open"
  PROVE  /\ PagesFor(s, i + 1) = PagesFor(s, i) \cup (IF s[i].kind \in {"page", "long"} THEN {i} ELSE {})
         /\ UsagesFor(s, i + 1) = UsagesFor(s, i) \cup (IF s[i].kind \in {"usage", "long"} THEN {i} ELSE {})
<1>1. Top(s) \subseteq 1 .. Len(s) /\ i \in 1 .. Len(s)
  BY DEF Top
<1>2. ASSUME NEW j \in Top(s)
      PROVE  /\ j < i + 1 <=> j < i \/ j = i
             /\ i .. (i + 1) - 1 = {i} /\ ~(i < i)
             /\ j < i => (\A k \in j .. (i + 1) - 1 : s[k].kind # "open") <=>
                         (\A k \in j .. i - 1 : s[k].kind # "open")
  <2>1. j \in Int /\ i \in Int
    BY <1>1
  <2>2. j < i => \A k : k \in j .. (i + 1) - 1 <=> k \in j .. i - 1 \/ k = i
    BY <2>1
  <2>3. i .. (i + 1) - 1 = {i}
    BY <2>1
  <2> QED
    BY <2>1, <2>2, <2>3
<1>3. ASSUME NEW j \in Top(s)
      PROVE  j \in UsagesFor(s, i + 1) <=> \/ j \in UsagesFor(s, i)
                                           \/ j = i /\ s[i].kind \in {"usage", "long"}
  <2>1. CASE j < i
    BY <1>2, <2>1 DEF UsagesFor
  <2>2. CASE j = i
    BY <1>2, <2>2 DEF UsagesFor
  <2>3. CASE ~(j < i) /\ j # i
    BY <1>2, <2>3 DEF UsagesFor
  <2> QED
    BY <2>1, <2>2, <2>3
<1>4. ASSUME NEW j \in Top(s)
      PROVE  j \in PagesFor(s, i + 1) <=> \/ j \in PagesFor(s, i)
                                          \/ j = i /\ s[i].kind \in {"page", "long"}
  BY <1>2 DEF PagesFor
<1>5. \A k : UsagesFor(s, k) \subseteq Top(s) /\ PagesFor(s, k) \subseteq Top(s)
  BY DEF UsagesFor, PagesFor
<1> QED
  BY <1>3, <1>4, <1>5

LEMMA KnownNext ==
  ASSUME NEW s, Len(s) \in Nat, NEW i \in Top(s), s[i].kind # "open"
  PROVE  /\ PageAt(s, i + 1) = PageThen(s[i], PageAt(s, i))
         /\ UsageAt(s, i + 1) = UsageThen(s[i], UsageAt(s, i))
<1>1. Top(s) \subseteq Nat /\ i \in Nat
  BY DEF Top
<1>2. /\ PagesFor(s, i + 1) = PagesFor(s, i) \cup (IF s[i].kind \in {"page", "long"} THEN {i} ELSE {})
      /\ UsagesFor(s, i + 1) = UsagesFor(s, i) \cup (IF s[i].kind \in {"usage", "long"} THEN {i} ELSE {})
  BY ForNext
<1>3. /\ PagesFor(s, i) \subseteq Nat /\ \A x \in PagesFor(s, i) : x < i
      /\ UsagesFor(s, i) \subseteq Nat /\ \A x \in UsagesFor(s, i) : x < i
  BY <1>1 DEF PagesFor, UsagesFor
<1>4. Max(PagesFor(s, i) \cup {i}) = i /\ Max(UsagesFor(s, i) \cup {i}) = i
  BY <1>1, <1>3, NewGreatest
<1>5. PageAt(s, i + 1) = PageThen(s[i], PageAt(s, i))
  <2>1. CASE s[i].kind \in {"page", "long"}
    <3>1. PagesFor(s, i + 1) = PagesFor(s, i) \cup {i}
      BY <1>2, <2>1
    <3> QED
      BY <1>4, <2>1, <3>1 DEF PageAt, PageThen
  <2>2. CASE s[i].kind \notin {"page", "long"}
    <3>1. PagesFor(s, i + 1) = PagesFor(s, i)
      BY <1>2, <2>2
    <3> QED
      BY <2>2, <3>1 DEF PageAt, PageThen
  <2> QED
    BY <2>1, <2>2
<1>6. UsageAt(s, i + 1) = UsageThen(s[i], UsageAt(s, i))
  <2>1. CASE s[i].kind \in {"usage", "long"}
    <3>1. UsagesFor(s, i + 1) = UsagesFor(s, i) \cup {i}
      BY <1>2, <2>1
    <3> QED
      BY <1>4, <2>1, <3>1 DEF UsageAt, UsageThen
  <2>2. CASE s[i].kind \notin {"usage", "long"}
    <3>1. UsagesFor(s, i + 1) = UsagesFor(s, i)
      BY <1>2, <2>2
    <3> QED
      BY <2>2, <3>1 DEF UsageAt, UsageThen
  <2> QED
    BY <2>1, <2>2
<1> QED
  BY <1>5, <1>6

(* Behind a collection.                                                    *)
LEMMA KnownAfter ==
  ASSUME NEW s, Len(s) \in Nat, NEW c, NEW e, EndsAt(s, c, e)
  PROVE  PageAt(s, e + 1) = PageAt(s, c) /\ UsageAt(s, e + 1) = <<>>
<1>1. /\ c \in 1 .. Len(s) /\ e \in 1 .. Len(s) /\ c < e /\ s[c].kind = "open"
      /\ \A j \in Top(s) : j <= c \/ j > e
      /\ Top(s) \subseteq 1 .. Len(s)
  BY EndsAtIs DEF EndsAt, Top
<1>2. ASSUME NEW j \in Top(s)
      PROVE  j < e + 1 <=> j < c \/ j = c
  <2>1. j \in Int /\ c \in Int /\ e \in Int
    BY <1>1
  <2>2. j <= c \/ j > e
    BY <1>1
  <2> QED
    BY <1>1, <2>1, <2>2
<1>3. PagesFor(s, e + 1) = PagesFor(s, c)
  <2>1. ASSUME NEW j \in Top(s) PROVE j \in PagesFor(s, e + 1) <=> j \in PagesFor(s, c)
    BY <1>1, <1>2 DEF PagesFor
  <2>2. PagesFor(s, e + 1) \subseteq Top(s) /\ PagesFor(s, c) \subseteq Top(s)
    BY DEF PagesFor
  <2> QED
    BY <2>1, <2>2
<1>4. UsagesFor(s, e + 1) = {}
  <2>1. ASSUME NEW j \in UsagesFor(s, e + 1) PROVE FALSE
    <3>1. j \in Top(s) /\ j < e + 1 /\ \A k \in j .. (e + 1) - 1 : s[k].kind # "open"
      BY DEF UsagesFor
    <3>2. j \in Int /\ j <= c
      BY <1>1, <1>2, <3>1
    <3>3. c \in j .. (e + 1) - 1
      BY <1>1, <3>2
    <3> QED
      BY <1>1, <3>1, <3>3
  <2> QED
    BY <2>1
<1> QED
  BY <1>3, <1>4 DEF PageAt, UsageAt

LEMMA KnownAt ==
  ASSUME NEW d, NEW s, NEW p, Whole(d, s, p), NEW i \in Nat
  PROVE  PageAt(s, i) \in Known /\ UsageAt(s, i) \in Known
<1>1. Len(s) \in Nat /\ Top(s) \subseteq 1 .. Len(s)
  BY WholeIs DEF Top
<1>2. PagesFor(s, i) \subseteq 1 .. Len(s) /\ UsagesFor(s, i) \subseteq 1 .. Len(s)
  BY <1>1 DEF PagesFor, UsagesFor
<1>3. ASSUME NEW S, S \subseteq 1 .. Len(s), S # {} PROVE Max(S) \in S
  <2>1. S \subseteq Nat /\ \A x \in S : x <= Len(s)
    BY <1>1, <1>3
  <2> QED
    BY <1>1, <1>3, <2>1, GreatestIs
<1>4. ASSUME NEW k \in 1 .. Len(s)
      PROVE  /\ s[k].kind \in {"page", "long"} => <<s[k].page>> \in Known
             /\ s[k].kind \in {"usage", "long"} => <<s[k].usage>> \in Known
  <2> DEFINE none == <<>>
  <2>1. none \in Known
    BY KnownIs
  <2> DEFINE x == <<p[k - 1], none, none>>
  <2>2. x = <<p[k - 1], none, none>>
    OBVIOUS
  <2> HIDE DEF none, x
  <2>3. PageThen(s[k], none) \in Known /\ UsageThen(s[k], none) \in Known
    BY <2>1, <2>2, ItemPast
  <2> QED
    BY <2>3 DEF PageThen, UsageThen
<1>5. PageAt(s, i) \in Known
  <2>1. CASE PagesFor(s, i) # {}
    <3>1. Max(PagesFor(s, i)) \in PagesFor(s, i)
      BY <1>2, <1>3, <2>1
    <3> QED
      BY <1>2, <1>4, <2>1, <3>1 DEF PageAt, PagesFor
  <2> QED
    BY <2>1, KnownIs DEF PageAt
<1>6. UsageAt(s, i) \in Known
  <2>1. CASE UsagesFor(s, i) # {}
    <3>1. Max(UsagesFor(s, i)) \in UsagesFor(s, i)
      BY <1>2, <1>3, <2>1
    <3> QED
      BY <1>2, <1>4, <2>1, <3>1 DEF UsageAt, UsagesFor
  <2> QED
    BY <2>1, KnownIs DEF UsageAt
<1> QED
  BY <1>5, <1>6

LEMMA BothKnown ==
  ASSUME NEW a, NEW b, <<a>> \in Known, <<b>> \in Known
  PROVE  <<a>> \o <<b>> = <<a, b>> /\ Len(<<a>> \o <<b>>) = 2
<1>1. <<a>> \in Seq(Nat) /\ <<b>> \in Seq(Nat)
  BY DEF Known
<1>2. a \in Nat /\ b \in Nat
  BY <1>1
<1> DEFINE pair == <<a>> \o <<b>>
<1>3. pair \in Seq(Nat) /\ Len(pair) = 2 /\ pair[1] = a /\ pair[2] = b
  BY <1>2
<1>4. <<a, b>> \in Seq(Nat) /\ Len(<<a, b>>) = 2 /\ <<a, b>>[1] = a /\ <<a, b>>[2] = b
  BY <1>2
<1> HIDE DEF pair
<1>5. \A i \in 1 .. Len(pair) : pair[i] = <<a, b>>[i]
  <2>1. \A i \in 1 .. 2 : i = 1 \/ i = 2
    OBVIOUS
  <2> QED
    BY <1>3, <1>4, <2>1
<1>6. pair = <<a, b>>
  BY <1>3, <1>4, <1>5, SeqEqual
<1> QED
  BY <1>3, <1>6 DEF pair

LEMMA BeforeIs ==
  ASSUME NEW d, NEW s, NEW p, Whole(d, s, p), NEW i \in 1 .. Len(s) + 1
  PROVE  /\ Before(s, p, i) \in ScanArgs /\ Before(s, p, i)[1] = p[i - 1]
         /\ Before(s, p, i)[2] = PageAt(s, i) /\ Before(s, p, i)[3] = UsageAt(s, i)
         /\ i = Len(s) + 1 => p[i - 1] = Len(d)
         /\ i # Len(s) + 1 => i \in 1 .. Len(s) /\ p[i - 1] \in Nat /\ p[i - 1] < Len(d) /\ ~(p[i - 1] >= Len(d))
<1> DEFINE page == PageAt(s, i)
           usage == UsageAt(s, i)
           b == p[i - 1]
<1>1. Len(s) \in Nat /\ p \in [0 .. Len(s) -> Nat] /\ p[Len(s)] = Len(d) /\ Len(d) \in Nat
  BY WholeIs
<1>2. i \in Nat /\ i - 1 \in 0 .. Len(s) /\ (i # Len(s) + 1 => i \in 1 .. Len(s))
      /\ (i = Len(s) + 1 => i - 1 = Len(s))
  BY <1>1
<1>3. b \in Nat /\ page \in Known /\ usage \in Known
  BY <1>1, <1>2, KnownAt
<1>4. Before(s, p, i) = <<b, page, usage>>
  BY DEF Before
<1>5. i # Len(s) + 1 => b < Len(d)
  BY <1>2, WholeIs
<1>6. i = Len(s) + 1 => b = Len(d)
  BY <1>1, <1>2
<1> HIDE DEF b, page, usage
<1>7. b < Len(d) => ~(b >= Len(d))
  BY <1>1, <1>3
<1>8. Before(s, p, i) \in ScanArgs /\ Before(s, p, i)[1] = b
        /\ Before(s, p, i)[2] = page /\ Before(s, p, i)[3] = usage
  BY <1>3, <1>4 DEF ScanArgs
<1> QED
  BY <1>2, <1>3, <1>5, <1>6, <1>7, <1>8 DEF b, page, usage

(* An item that begins no collection is one step of a call.                *)
LEMMA OneStep ==
  ASSUME NEW d, NEW s, NEW p, Whole(d, s, p), NEW start \in Nat, NEW g, Scans(g, d, start),
         NEW i \in 1 .. Len(s), s[i].kind # "open", NEW page \in Known, NEW usage \in Known
  PROVE  g[<<p[i - 1], page, usage>>] = g[<<p[i], PageThen(s[i], page), UsageThen(s[i], usage)>>]
<1> DEFINE x == <<p[i - 1], page, usage>>
           b == p[i - 1]
<1>1. /\ d \in Seq(Byte) /\ Len(d) \in Nat /\ b \in Nat /\ b < Len(d)
      /\ s[i].kind = "open" <=> Command(At(d, b)) = Collection
  <2>1. IsItem(s[i]) /\ At(d, b) = s[i].bytes[1] /\ b \in Nat /\ b < Len(d)
    BY WholeIs
  <2> QED
    BY <2>1, WholeIs, KindIs
<1>2. x = <<b, page, usage>>
  OBVIOUS
<1> HIDE DEF x
<1>3. Past(d, x) = <<p[i], PageThen(s[i], page), UsageThen(s[i], usage)>>
  BY <1>2, ItemPast
<1> HIDE DEF b
<1>4. x \in ScanArgs /\ x[1] = b
  BY <1>1, <1>2 DEF ScanArgs
<1>5. ~Begins(d, x) /\ ~(b >= Len(d))
  <2>1. ~(b >= Len(d))
    BY ONLY <1>1
  <2> QED
    BY <1>1, <1>4, <2>1 DEF Begins
<1>6. g[x] = g[Past(d, x)]
  BY <1>4, <1>5 DEF Scans
<1> QED
  BY <1>3, <1>6 DEF x

(* A call goes on to the next collection, or to the end.                   *)
LEMMA GoesOn ==
  ASSUME NEW d, NEW s, NEW p, Whole(d, s, p), NEW start \in Nat, NEW g, Scans(g, d, start),
         NEW i \in 1 .. Len(s) + 1, Level(s)[i - 1] = 0,
         NEW t \in i .. Len(s) + 1, \A c \in Collections(s) : c < i \/ c >= t
  PROVE  Level(s)[t - 1] = 0 /\ g[Before(s, p, i)] = g[Before(s, p, t)]
<1> DEFINE N == Len(s)
           T == {k \in i .. t : Level(s)[k - 1] = 0 /\ g[Before(s, p, i)] = g[Before(s, p, k)]}
<1>1. N \in Nat /\ i \in Nat /\ t \in Nat /\ i >= 1 /\ i <= t /\ t <= N + 1 /\ t \in i .. t
  BY WholeIs
<1>2. i \in T
  BY <1>1
<1> HIDE DEF N
<1>3. ASSUME NEW k \in i .. t, k + 1 \in i .. t, k \in T
      PROVE  k + 1 \in T
  <2>1. k \in 1 .. N /\ k \in Nat /\ k < t /\ k >= i /\ (k + 1) - 1 = k /\ Level(s)[k - 1] = 0
    <3>1. k \in 1 .. N /\ k \in Nat /\ k < t /\ k >= i /\ (k + 1) - 1 = k
      BY ONLY <1>1, <1>3
    <3> QED
      BY <1>3, <3>1
  <2>2. k \in Top(s)
    BY <1>1, <2>1, TopIs DEF N
  <2>3. k \notin Collections(s)
    <3>1. ~(k < i \/ k >= t)
      BY ONLY <1>1, <2>1
    <3> QED
      BY <3>1
  <2>4. s[k].kind # "open" /\ Level(s)[k] = 0
    BY <1>1, <2>1, <2>2, <2>3, TopIs DEF N
  <2>5. g[Before(s, p, k)] = g[Before(s, p, k + 1)]
    <3>1. Before(s, p, k) = <<p[k - 1], PageAt(s, k), UsageAt(s, k)>>
      BY DEF Before
    <3>2. Before(s, p, k + 1) = <<p[k], PageThen(s[k], PageAt(s, k)), UsageThen(s[k], UsageAt(s, k))>>
      BY <1>1, <2>1, <2>2, <2>4, KnownNext DEF Before, N
    <3>3. PageAt(s, k) \in Known /\ UsageAt(s, k) \in Known
      BY <2>1, KnownAt
    <3> QED
      BY <2>1, <2>4, <3>1, <3>2, <3>3, OneStep DEF N
  <2> QED
    BY <1>3, <2>1, <2>4, <2>5
<1>4. \A k \in i .. t : k \in T
  <2>1. i <= t => i \in T
    BY <1>2
  <2> HIDE DEF T
  <2> QED
    BY ONLY <1>1, <1>3, <2>1, Upward
<1>5. t \in T
  <2> HIDE DEF T
  <2> QED
    BY <1>1, <1>4
<1> QED
  BY <1>5

(* Where every collection ends.                                            *)
LEMMA AllEnd ==
  ASSUME NEW s, Len(s) \in Nat, Level(s)[Len(s)] = 0, NEW c \in Collections(s)
  PROVE  \E e \in 1 .. Len(s) : EndsAt(s, c, e)
<1> DEFINE l == Level(s)
           N == Len(s)
           Zero == {j \in c .. N : l[j] = 0}
<1>1. c \in 1 .. N /\ c \in Nat /\ N \in Nat /\ s[c].kind = "open" /\ l[c] = 1 /\ N \in c .. N
  <2>1. c \in Top(s) /\ s[c].kind = "open" /\ c \in 1 .. N
    BY DEF Collections, Top
  <2> QED
    BY <2>1, TopIs
<1>2. \A j \in 0 .. N : l[j] \in Nat
  BY LevelIs
<1> HIDE DEF l
<1>3. l[N] = 0
  BY DEF l
<1> HIDE DEF N
<1>4. PICK e \in Zero : \A j \in Zero : e <= j
  <2>1. N \in Zero /\ Zero \subseteq Nat
    BY <1>1, <1>3
  <2> HIDE DEF Zero
  <2> QED
    BY <2>1, SomeLeast
<1>5. e \in 1 .. N /\ l[e] = 0 /\ c < e /\ e \in Nat /\ e \in c .. N
  <2>1. e \in c .. N /\ l[e] = 0
    BY <1>4
  <2>2. e # c
    BY <1>1, <2>1
  <2> QED
    BY <1>1, <2>1, <2>2
<1>6. ASSUME NEW k \in c .. e - 1 PROVE l[k] > 0
  <2>1. k \in c .. N /\ k \in 0 .. N /\ ~(e <= k)
    BY <1>1, <1>5
  <2>2. k \notin Zero
    <3> HIDE DEF Zero
    <3> QED
      BY <1>4, <2>1
  <2>3. l[k] # 0 /\ l[k] \in Nat
    BY <1>2, <2>1, <2>2
  <2> QED
    BY <2>3
<1> QED
  BY <1>5, <1>6 DEF EndsAt, l, N

(* The first collection from the i-th item on is c; what a call finds there*)
(* when it ends with the e-th item.                                        *)
Following(s, i, c) == /\ i \in 1 .. Len(s) + 1 /\ Level(s)[i - 1] = 0
                      /\ c \in Collections(s) /\ c >= i
                      /\ \A k \in Collections(s) : k < i \/ k >= c

FoundAt(s, p, c, e) == [pair |-> UsageOf(s, c), pos |-> p[e - 1], page |-> PageAt(s, c)]

(* A call from before the i-th item finds the usage of the next collection.*)
LEMMA NextFound ==
  ASSUME NEW d, NEW s, NEW p, Whole(d, s, p), Proper(s), NEW start \in Nat, NEW g, Scans(g, d, start),
         NEW i, NEW c, Following(s, i, c)
  PROVE  \E e \in 1 .. Len(s) : EndsAt(s, c, e) /\ g[Before(s, p, i)] = FoundAt(s, p, c, e)
<1>00. /\ i \in 1 .. Len(s) + 1 /\ Level(s)[i - 1] = 0
       /\ c \in Collections(s) /\ c >= i /\ \A k \in Collections(s) : k < i \/ k >= c
  BY DEF Following
<1>0. /\ d \in Seq(Byte) /\ Len(d) \in Nat /\ Len(s) \in Nat /\ LaidOut(d, s, p, Len(s)) /\ i \in Nat
      /\ Len(s) + 1 \in i .. Len(s) + 1 /\ Len(s) + 1 \in 1 .. Len(s) + 1
      /\ Collections(s) \subseteq 1 .. Len(s) /\ Level(s)[Len(s)] = 0
  BY <1>00, WholeIs, CollectionsIs DEF Proper
<1> DEFINE x == Before(s, p, c)
           page == s[Max(PagesFor(s, c))].page
           usage == s[Max(UsagesFor(s, c))].usage
<1>1. c \in 1 .. Len(s) /\ c \in i .. Len(s) + 1 /\ c \in 1 .. Len(s) + 1 /\ c # Len(s) + 1
      /\ c <= Len(s)
  BY <1>0, <1>00
<1>2. g[Before(s, p, i)] = g[x]
  BY <1>1, <1>00, GoesOn
<1>3. x \in ScanArgs /\ x[1] = p[c - 1] /\ x[2] = PageAt(s, c) /\ x[3] = UsageAt(s, c)
        /\ ~(p[c - 1] >= Len(d))
  BY <1>1, <1>00, BeforeIs
<1>4. x[2] = <<page>> /\ x[3] = <<usage>>
  <2>1. PagesFor(s, c) # {} /\ UsagesFor(s, c) # {}
    <3>1. Cardinality(UsagesFor(s, c)) = 1
      BY <1>00 DEF Proper
    <3>2. UsagesFor(s, c) # {} /\ PagesFor(s, c) # {}
      <4> DEFINE U == UsagesFor(s, c)
      <4> HIDE DEF U
      <4>1. Cardinality(U) = 1
        BY <3>1 DEF U
      <4>2. U = {} => Cardinality(U) = 0
        BY FS_EmptySet
      <4>3. U # {}
        BY <4>1, <4>2
      <4> QED
        BY <1>00, <4>3 DEF U, Proper
    <3> QED
      BY <3>2
  <2> QED
    BY <1>3, <2>1 DEF PageAt, UsageAt
<1>5. PICK e \in 1 .. Len(s) : EndsAt(s, c, e) /\ EndOfCollection(d, p[c - 1]) = p[e - 1]
  <2>1. \E e \in 1 .. Len(s) : EndsAt(s, c, e)
    BY <1>0, <1>00, AllEnd
  <2> QED
    BY <1>0, <1>00, <1>1, <2>1, EndIsFound
<1>6. p[e - 1] < Len(d) /\ p[e - 1] \in Nat /\ ~(p[e - 1] >= Len(d))
  <2> DEFINE b == p[e - 1]
  <2>1. b < Len(d) /\ b \in Nat
    BY WholeIs
  <2> HIDE DEF b
  <2>2. ~(b >= Len(d))
    BY <1>0, <2>1
  <2> QED
    BY <2>1, <2>2 DEF b
<1>7. x[2] \o x[3] = <<page, usage>> /\ Len(x[2] \o x[3]) = 2 /\ UsageOf(s, c) = <<page, usage>>
  <2> HIDE DEF x, page, usage
  <2>1. x[2] \o x[3] = <<page, usage>> /\ Len(x[2] \o x[3]) = 2
    <3>1. x[2] \in Known /\ x[3] \in Known
      BY <1>3 DEF ScanArgs
    <3> QED
      BY <1>4, <3>1, BothKnown
  <2> QED
    BY <2>1 DEF UsageOf, page, usage
<1>8. Command(At(d, p[c - 1])) = Collection
  <2>1. s[c].kind = "open" /\ IsItem(s[c]) /\ At(d, p[c - 1]) = s[c].bytes[1]
    BY <1>1, <1>00, WholeIs DEF Collections
  <2> QED
    BY <2>1, KindIs
<1> HIDE DEF x, page, usage
<1>9. Begins(d, x)
  BY <1>3, <1>7, <1>8 DEF Begins
<1>10. g[x] = AtBegin(d, x)
  BY <1>3, <1>9 DEF Scans
<1>11. AtBegin(d, x) = [pair |-> x[2] \o x[3], pos |-> p[e - 1], page |-> PageAt(s, c)]
  BY <1>3, <1>5, <1>6 DEF AtBegin
<1> QED
  BY <1>2, <1>5, <1>7, <1>10, <1>11 DEF FoundAt

LEMMA NoneFound ==
  ASSUME NEW d, NEW s, NEW p, Whole(d, s, p), Proper(s), NEW start \in Nat, NEW g, Scans(g, d, start),
         NEW i \in 1 .. Len(s) + 1, Level(s)[i - 1] = 0, start # 0, \A k \in Collections(s) : k < i
  PROVE  g[Before(s, p, i)].pair = <<>>
<1>0. /\ d \in Seq(Byte) /\ Len(d) \in Nat /\ Len(s) \in Nat /\ LaidOut(d, s, p, Len(s)) /\ i \in Nat
      /\ Len(s) + 1 \in i .. Len(s) + 1 /\ Len(s) + 1 \in 1 .. Len(s) + 1
      /\ Collections(s) \subseteq 1 .. Len(s) /\ Level(s)[Len(s)] = 0
  BY WholeIs, CollectionsIs DEF Proper
<1> DEFINE t == Len(s) + 1
           x == Before(s, p, t)
<1>1. g[Before(s, p, i)] = g[x]
  BY <1>0, GoesOn
<1>2. x \in ScanArgs /\ x[1] = Len(d)
  BY <1>0, BeforeIs
<1> HIDE DEF x
<1>3. x[1] >= Len(d)
  BY <1>0, <1>2
<1>4. g[x] = AtEnd(start, x)
  BY <1>2, <1>3 DEF Scans
<1> QED
  BY <1>1, <1>4 DEF AtEnd

-----------------------------------------------------------------------------
(* The collections in their order.                                         *)
UpTo(s, c) == {j \in Collections(s) : j <= c}

LEMMA RankIs ==
  ASSUME NEW s, Len(s) \in Nat
  PROVE  /\ \A c \in Collections(s) : /\ Cardinality(UpTo(s, c)) \in 1 .. Cardinality(Collections(s))
                                      /\ TopUsages(s)[Cardinality(UpTo(s, c))] = UsageOf(s, c)
                                      /\ (\A k \in Collections(s) : k >= c) => Cardinality(UpTo(s, c)) = 1
                                      /\ (\A k \in Collections(s) : k <= c) =>
                                           Cardinality(UpTo(s, c)) = Cardinality(Collections(s))
         /\ \A b, c \in Collections(s) :
              b < c /\ (\A k \in Collections(s) : k <= b \/ k >= c) =>
                Cardinality(UpTo(s, c)) = Cardinality(UpTo(s, b)) + 1
<1> DEFINE C == Collections(s)
           K == Cardinality(C)
           rank(c) == Cardinality(UpTo(s, c))
<1>1. IsFiniteSet(C) /\ K \in Nat /\ C \subseteq 1 .. Len(s) /\ C \subseteq Nat
  BY CollectionsIs
<1>2. ASSUME NEW c \in C
      PROVE  /\ IsFiniteSet(UpTo(s, c)) /\ rank(c) \in Nat /\ rank(c) <= K
             /\ c \in UpTo(s, c) /\ UpTo(s, c) \subseteq C
  <2>1. UpTo(s, c) \subseteq C /\ c \in UpTo(s, c)
    BY <1>1 DEF UpTo
  <2>2. IsFiniteSet(UpTo(s, c)) /\ rank(c) <= K
    BY <1>1, <2>1, FS_Subset
  <2> QED
    BY <2>1, <2>2, FS_CardinalityType
<1>3. ASSUME NEW b \in C, NEW c \in C, b < c
      PROVE  /\ rank(b) + 1 <= rank(c)
             /\ (\A k \in C : k <= b \/ k >= c) => rank(c) = rank(b) + 1
  <2> DEFINE B == UpTo(s, b)
             R == B \cup {c}
  <2>1. c \notin B /\ R \subseteq UpTo(s, c)
    <3>1. b \in Nat /\ c \in Nat
      BY <1>1
    <3>2. \A j \in C : j <= b => j <= c
      BY <1>1, <1>3
    <3>3. ~(c <= b) /\ c <= c
      BY ONLY <1>3, <3>1
    <3> QED
      BY <3>2, <3>3 DEF UpTo
  <2>2. IsFiniteSet(B) /\ IsFiniteSet(UpTo(s, c))
    BY <1>2
  <2>3. Cardinality(R) = Cardinality(B) + 1
    BY <2>1, <2>2, FS_AddElement
  <2>4. Cardinality(R) <= rank(c)
    BY <2>1, <2>2, FS_Subset
  <2>5. ASSUME \A k \in C : k <= b \/ k >= c
        PROVE  UpTo(s, c) = R
    <3>1. ASSUME NEW j \in UpTo(s, c) PROVE j \in R
      <4>1. j \in C /\ j <= c /\ j \in Nat /\ c \in Nat
        BY <1>1 DEF UpTo
      <4>2. j <= b \/ j = c
        BY <2>5, <4>1
      <4> QED
        BY <4>1, <4>2 DEF UpTo
    <3> QED
      BY <2>1, <3>1
  <2> QED
    BY <2>3, <2>4, <2>5
<1> HIDE DEF C
<1>4. ASSUME NEW c \in C PROVE rank(c) >= 1 /\ ((\A k \in C : k >= c) => rank(c) = 1)
  <2>1. rank(c) # 0
    <3>1. rank(c) = 0 => UpTo(s, c) = {}
      BY <1>2, FS_EmptySet
    <3> QED
      BY <1>2, <3>1
  <2>2. ASSUME \A k \in C : k >= c PROVE UpTo(s, c) = {c}
    <3>1. ASSUME NEW j \in UpTo(s, c) PROVE j = c
      <4>1. j \in C /\ j <= c /\ j \in Nat /\ c \in Nat /\ j >= c
        BY <1>1, <2>2 DEF UpTo, C
      <4> QED
        BY <4>1
    <3> QED
      BY <1>2, <3>1
  <2>3. Cardinality({c}) = 1
    BY FS_Singleton
  <2> QED
    BY <1>2, <2>1, <2>2, <2>3
<1>5. ASSUME NEW c \in C, \A k \in C : k <= c PROVE rank(c) = K
  <2>1. UpTo(s, c) = C
    BY <1>5 DEF UpTo, C
  <2> QED
    BY <2>1
<1>6. ASSUME NEW c \in C PROVE rank(c) \in 1 .. K /\ TopUsages(s)[rank(c)] = UsageOf(s, c)
  <2> DEFINE r == rank(c)
             nth == CHOOSE i \in C : Cardinality({j \in C : j <= i}) = r
  <2>1. r \in 1 .. K
    BY <1>1, <1>2, <1>4
  <2>2. \A i \in C : Cardinality({j \in C : j <= i}) = rank(i)
    BY DEF UpTo, C
  <2>3. nth \in C /\ rank(nth) = r
    <3>1. \E i \in C : Cardinality({j \in C : j <= i}) = r
      BY <2>2
    <3>2. nth \in C /\ Cardinality({j \in C : j <= nth}) = r
      <4> HIDE DEF r
      <4> QED
        BY <3>1
    <3> HIDE DEF nth
    <3> QED
      BY <2>2, <3>2
  <2> HIDE DEF nth
  <2>4. nth = c
    <3>1. ~(nth < c) /\ ~(c < nth)
      <4>1. nth < c => rank(nth) + 1 <= rank(c)
        BY <1>3, <2>3
      <4>2. c < nth => rank(c) + 1 <= rank(nth)
        BY <1>3, <2>3
      <4>3. rank(nth) = rank(c) /\ rank(c) \in Nat
        BY <1>2, <2>3
      <4> HIDE DEF r
      <4> QED
        BY <4>1, <4>2, <4>3
    <3>2. nth \in Nat /\ c \in Nat
      BY <1>1, <2>3
    <3> QED
      BY <3>1, <3>2
  <2>5. TopUsages(s)[r] = UsageOf(s, nth)
    <3> HIDE DEF r
    <3> QED
      BY <2>1 DEF TopUsages, nth, C
  <2> QED
    BY <2>1, <2>4, <2>5
<1> HIDE DEF rank
<1>7. \A c \in C : /\ rank(c) \in 1 .. K /\ TopUsages(s)[rank(c)] = UsageOf(s, c)
                   /\ (\A k \in C : k >= c) => rank(c) = 1
                   /\ (\A k \in C : k <= c) => rank(c) = K
  BY <1>4, <1>5, <1>6
<1>8. \A b, c \in C : b < c /\ (\A k \in C : k <= b \/ k >= c) => rank(c) = rank(b) + 1
  BY <1>3
<1> QED
  BY <1>7, <1>8 DEF C, rank

(* What follows the r-th of a sequence.                                    *)
Rest(u, r) == [n \in 1 .. Len(u) - r |-> u[r + n]]

LEMMA RestIs ==
  ASSUME NEW S, NEW u \in Seq(S), NEW r \in 0 .. Len(u)
  PROVE  /\ r # Len(u) => <<u[r + 1]>> \o Rest(u, r + 1) = Rest(u, r)
         /\ r = Len(u) => Rest(u, r) = <<>>
         /\ Rest(u, 0) = u
<1> DEFINE N == Len(u)
<1>1. N \in Nat /\ r \in Nat /\ r <= N /\ \A i \in 1 .. N : u[i] \in S
  OBVIOUS
<1> HIDE DEF N
<1>2. \A k \in 0 .. N : Rest(u, k) \in Seq(S) /\ Len(Rest(u, k)) = N - k
                         /\ \A n \in 1 .. N - k : Rest(u, k)[n] = u[k + n]
  <2> SUFFICES ASSUME NEW k \in 0 .. N
               PROVE  Rest(u, k) \in Seq(S) /\ Len(Rest(u, k)) = N - k
                        /\ \A n \in 1 .. N - k : Rest(u, k)[n] = u[k + n]
    OBVIOUS
  <2>1. N - k \in Nat /\ \A n \in 1 .. N - k : k + n \in 1 .. N
    BY <1>1
  <2>2. Rest(u, k) \in [1 .. N - k -> S] /\ \A n \in 1 .. N - k : Rest(u, k)[n] = u[k + n]
    BY <1>1, <2>1 DEF Rest, N
  <2> QED
    BY <2>1, <2>2
<1>3. ASSUME r # N
      PROVE  <<u[r + 1]>> \o Rest(u, r + 1) = Rest(u, r)
  <2> DEFINE first == u[r + 1]
             rest == Rest(u, r + 1)
             all == Rest(u, r)
  <2>1. first \in S /\ r + 1 \in 0 .. N /\ r \in 0 .. N
    BY <1>1, <1>3
  <2>2. /\ rest \in Seq(S) /\ Len(rest) = N - (r + 1) /\ all \in Seq(S) /\ Len(all) = N - r
        /\ \A n \in 1 .. N - (r + 1) : rest[n] = u[(r + 1) + n]
        /\ \A n \in 1 .. N - r : all[n] = u[r + n]
    BY <1>2, <2>1
  <2>3. all[1] = first
    <3>1. 1 \in 1 .. N - r
      BY <1>1, <1>3
    <3> QED
      BY <2>2, <3>1
  <2> HIDE DEF first, rest, all
  <2>4. <<first>> \o rest \in Seq(S) /\ Len(<<first>> \o rest) = N - r
    <3>1. <<first>> \in Seq(S) /\ Len(<<first>>) = 1
      BY <2>1
    <3>2. <<first>> \o rest \in Seq(S) /\ Len(<<first>> \o rest) = 1 + Len(rest)
      BY <2>2, <3>1
    <3> QED
      BY <1>1, <2>2, <3>2
  <2>5. ASSUME NEW n \in 1 .. N - r PROVE (<<first>> \o rest)[n] = all[n]
    <3>1. CASE n = 1
      BY <2>1, <2>2, <2>3, <3>1
    <3>2. CASE n # 1
      <4>1. n - 1 \in 1 .. N - (r + 1) /\ (r + 1) + (n - 1) = r + n
        BY <1>1, <3>2
      <4>2. rest[n - 1] = all[n]
        BY <2>2, <4>1
      <4>3. (<<first>> \o rest)[n] = rest[n - 1]
        <5>1. n \in 2 .. 1 + Len(rest)
          BY <1>1, <2>2, <3>2
        <5> QED
          BY <2>1, <2>2, <5>1
      <4> QED
        BY <4>2, <4>3
    <3> QED
      BY <3>1, <3>2
  <2>6. <<first>> \o rest = all
    BY <2>2, <2>4, <2>5, SeqEqual
  <2> QED
    BY <2>6 DEF first, rest, all
<1>4. r = N => Rest(u, r) = <<>>
  BY <1>1, <1>2
<1>5. Rest(u, 0) = u
  <2>1. 0 \in 0 .. N /\ N - 0 = N /\ \A n \in 1 .. N : 0 + n = n
    BY <1>1
  <2>2. Rest(u, 0) \in Seq(S) /\ Len(Rest(u, 0)) = Len(u) /\ \A n \in 1 .. Len(u) : Rest(u, 0)[n] = u[n]
    <3>1. Rest(u, 0) \in Seq(S) /\ Len(Rest(u, 0)) = N
      BY <1>2, <2>1
    <3>2. ASSUME NEW n \in 1 .. N PROVE Rest(u, 0)[n] = u[n]
      <4>1. n \in 1 .. N - 0 /\ 0 + n = n
        BY <2>1
      <4> QED
        BY <1>2, <2>1, <4>1
    <3> QED
      BY <3>1, <3>2 DEF N
  <2> QED
    BY <2>2, SeqEqual
<1> QED
  BY <1>3, <1>4, <1>5 DEF N

LEMMA TopUsagesIs ==
  ASSUME NEW s, Len(s) \in Nat
  PROVE  \E S : TopUsages(s) \in Seq(S) /\ Len(TopUsages(s)) = Cardinality(Collections(s))
<1> DEFINE K == Cardinality(Collections(s))
           u == TopUsages(s)
           S == {u[n] : n \in 1 .. K}
<1>1. K \in Nat
  BY CollectionsIs
<1>2. u = [n \in 1 .. K |-> u[n]]
  BY DEF TopUsages
<1> HIDE DEF u, K
<1>3. u \in [1 .. K -> S]
  BY <1>2
<1> HIDE DEF S
<1>4. u \in Seq(S) /\ Len(u) = K
  BY <1>1, <1>3
<1> QED
  BY <1>4 DEF u, K

(* Induction over the collections, from the last one.                      *)
LEMMA LastFirst ==
  ASSUME NEW s, Len(s) \in Nat, NEW T,
         \A c \in Collections(s) : (\A k \in Collections(s) : k > c => k \in T) => c \in T
  PROVE  \A c \in Collections(s) : c \in T
<1> DEFINE Bad == {n \in Nat : \E c \in Collections(s) : c \notin T /\ n = Len(s) - c}
<1>1. Collections(s) \subseteq 1 .. Len(s)
  BY CollectionsIs
<1>2. ASSUME NEW c \in Collections(s), c \notin T PROVE Len(s) - c \in Bad
  <2>1. Len(s) - c \in Nat
    BY <1>1
  <2> QED
    BY <1>2, <2>1
<1>3. SUFFICES ASSUME Bad # {} PROVE FALSE
  <2>1. Bad = {}
    BY <1>3
  <2> HIDE DEF Bad
  <2> QED
    BY <1>2, <2>1
<1>4. PICK n \in Bad : \A x \in Bad : n <= x
  <2>1. Bad \subseteq Nat
    OBVIOUS
  <2> HIDE DEF Bad
  <2> QED
    BY <1>3, <2>1, SomeLeast
<1>5. PICK c \in Collections(s) : c \notin T /\ n = Len(s) - c
  BY <1>4
<1> HIDE DEF Bad
<1>6. ASSUME NEW k \in Collections(s), k > c, k \notin T PROVE FALSE
  <2>1. Len(s) - k \in Bad
    BY <1>2, <1>6
  <2>2. n <= Len(s) - k
    BY <1>4, <2>1
  <2>3. k \in 1 .. Len(s) /\ c \in 1 .. Len(s)
    BY <1>1
  <2> QED
    BY ONLY <1>5, <1>6, <2>2, <2>3, Len(s) \in Nat
<1> QED
  BY <1>5, <1>6

(* The calls that follow the one that has found the collection c find the  *)
(* usages of all those behind it.                                          *)
LEMMA OthersFound ==
  ASSUME NEW d, NEW s, NEW p, Whole(d, s, p), Proper(s),
         NEW f, Calls(f, d), \A x \in Nat \X Known : f[x] \in Seq(Nat \X Nat)
  PROVE  \A c \in Collections(s), e \in 1 .. Len(s) :
           EndsAt(s, c, e) => f[<<p[e - 1], PageAt(s, c)>>] = Rest(TopUsages(s), Cardinality(UpTo(s, c)))
<1> DEFINE u == TopUsages(s)
           K == Cardinality(Collections(s))
           rank(c) == Cardinality(UpTo(s, c))
           Good(c) == \A e \in 1 .. Len(s) :
                        EndsAt(s, c, e) => f[<<p[e - 1], PageAt(s, c)>>] = Rest(u, rank(c))
           T == {c \in Collections(s) : Good(c)}
<1>1. /\ d \in Seq(Byte) /\ Len(d) \in Nat /\ Len(s) \in Nat /\ p \in [0 .. Len(s) -> Nat]
      /\ Collections(s) \subseteq 1 .. Len(s) /\ K \in Nat
  BY WholeIs, CollectionsIs
<1>2. PICK S : u \in Seq(S) /\ Len(u) = K
  BY <1>1, TopUsagesIs
<1> HIDE DEF u, K, rank
<1>3. ASSUME NEW c \in Collections(s), \A k \in Collections(s) : k > c => k \in T,
             NEW e \in 1 .. Len(s), EndsAt(s, c, e)
      PROVE  f[<<p[e - 1], PageAt(s, c)>>] = Rest(u, rank(c))
  <2> DEFINE start == p[e - 1]
             page == PageAt(s, c)
             none == <<>>
             x == <<start, page>>
             call == NextUsage(d, start, page)
  <2>1. /\ c \in 1 .. Len(s) /\ c \in Nat /\ e \in Nat /\ c < e /\ s[e].kind = "close" /\ Level(s)[e] = 0
        /\ e + 1 \in 1 .. Len(s) + 1 /\ (e + 1) - 1 = e
        /\ \A j \in Top(s) : j <= c \/ j > e
    <3>1. /\ c \in 1 .. Len(s) /\ e \in 1 .. Len(s) /\ c < e /\ s[e].kind = "close" /\ Level(s)[e] = 0
          /\ \A j \in Top(s) : j <= c \/ j > e
      BY <1>1, <1>3, EndsAtIs DEF EndsAt
    <3>2. c \in Nat /\ e \in Nat /\ e + 1 \in 1 .. Len(s) + 1 /\ (e + 1) - 1 = e
      BY ONLY <1>1, <3>1
    <3> QED
      BY <3>1, <3>2
  <2>2. start \in Nat /\ start # 0
    <3> DEFINE a == p[(e - 1) - 1]
    <3>1. e - 1 \in 1 .. Len(s)
      BY <1>1, <2>1
    <3>2. a \in Nat /\ start \in Nat /\ a < start
      BY <3>1, WholeIs
    <3> HIDE DEF a, start
    <3> QED
      BY ONLY <3>2
  <2>3. page \in Known /\ none \in Known
    BY <2>1, KnownAt, KnownIs
  <2> HIDE DEF start, page, none, call
  <2>4. PICK g : Scans(g, d, start) /\ call = g[<<start, page, none>>]
    BY <1>1, <2>2, <2>3, ScanIs DEF call, none
  <2>5. call = g[Before(s, p, e + 1)]
    <3>1. PageThen(s[e], page) = page /\ UsageThen(s[e], none) = none
      BY <2>1 DEF PageThen, UsageThen
    <3>2. g[<<start, page, none>>] = g[<<p[e], page, none>>]
      <4>1. s[e].kind # "open" /\ e \in 1 .. Len(s)
        BY <1>3, <2>1
      <4>2. g[<<start, page, none>>] = g[<<p[e], PageThen(s[e], page), UsageThen(s[e], none)>>]
        <5> DEFINE place == p[e - 1]
        <5>1. place = start
          BY DEF start
        <5>2. g[<<place, page, none>>] = g[<<p[e], PageThen(s[e], page), UsageThen(s[e], none)>>]
          BY <2>2, <2>3, <2>4, <4>1, OneStep
        <5> HIDE DEF place
        <5> QED
          BY <5>1, <5>2
      <4> QED
        BY <3>1, <4>2
    <3>3. PageAt(s, e + 1) = page /\ UsageAt(s, e + 1) = none
      BY <1>1, <1>3, KnownAfter DEF page, none
    <3>4. Before(s, p, e + 1) = <<p[e], page, none>>
      BY <2>1, <3>3 DEF Before
    <3> QED
      BY <2>4, <3>2, <3>4
  <2>6. x \in Nat \X Known /\ x[1] = start /\ x[2] = page
    BY <2>2, <2>3
  <2> HIDE DEF x
  <2>7. /\ f[x] = IF Len(Pair(d, x)) < 2 THEN <<>> ELSE <<Pair(d, x)>> \o f[Resume(d, x)]
        /\ Pair(d, x) = call.pair /\ Resume(d, x) = <<call.pos, call.page>>
    BY <2>6 DEF Calls, Pair, Resume, call
  <2>8. rank(c) \in 1 .. K
    BY <1>1, RankIs DEF rank, K
  <2>9. CASE \A k \in Collections(s) : k <= c
    <3>1. \A k \in Collections(s) : k < e + 1
      BY <1>1, <2>1, <2>9
    <3>2. call.pair = <<>>
      <4>1. g[Before(s, p, e + 1)].pair = <<>>
        BY <2>1, <2>2, <2>4, <3>1, NoneFound
      <4> QED
        BY <2>5, <4>1
    <3>3. f[x] = <<>>
      BY <2>7, <3>2
    <3>4. rank(c) = K
      BY <1>1, <2>9, RankIs DEF rank, K
    <3>5. Rest(u, K) = <<>>
      <4>1. K \in 0 .. Len(u) /\ K = Len(u)
        BY <1>1, <1>2
      <4> QED
        BY <1>2, <4>1, RestIs
    <3> QED
      BY <3>3, <3>4, <3>5 DEF x, start, page
  <2>10. CASE \E k \in Collections(s) : ~(k <= c)
    <3> DEFINE L == {k \in Collections(s) : k > c}
    <3>1. PICK n \in L : \A k \in L : n <= k
      <4>1. L \subseteq Nat /\ L # {}
        BY <1>1, <2>1, <2>10
      <4> HIDE DEF L
      <4> QED
        BY <4>1, SomeLeast
    <3>2. n \in Collections(s) /\ n > c /\ n \in Nat /\ \A k \in Collections(s) : k <= c \/ k >= n
      BY <1>1, <2>1, <3>1
    <3>3. n >= e + 1 /\ \A k \in Collections(s) : k < e + 1 \/ k >= n
      <4>1. n \in Top(s)
        BY <3>2 DEF Collections
      <4>2. n > e
        BY <2>1, <3>2, <4>1
      <4> QED
        BY <1>1, <2>1, <3>2, <4>2
    <3>4. PICK i \in 1 .. Len(s) :
            /\ EndsAt(s, n, i)
            /\ call = [pair |-> UsageOf(s, n), pos |-> p[i - 1], page |-> PageAt(s, n)]
      <4>1. \E i \in 1 .. Len(s) :
              /\ EndsAt(s, n, i)
              /\ g[Before(s, p, e + 1)] = [pair |-> UsageOf(s, n), pos |-> p[i - 1], page |-> PageAt(s, n)]
        <5> DEFINE next == e + 1
        <5>1. Following(s, next, n)
          BY <2>1, <3>2, <3>3 DEF Following
        <5> HIDE DEF next
        <5>2. \E i \in 1 .. Len(s) : EndsAt(s, n, i) /\ g[Before(s, p, next)] = FoundAt(s, p, n, i)
          BY <2>2, <2>4, <5>1, NextFound
        <5> QED
          BY <5>2 DEF next, FoundAt
      <4> QED
        BY <2>5, <4>1
    <3>5. Len(UsageOf(s, n)) = 2
      BY DEF UsageOf
    <3>6. f[x] = <<UsageOf(s, n)>> \o f[<<p[i - 1], PageAt(s, n)>>]
      <4>1. call.pair = UsageOf(s, n) /\ call.pos = p[i - 1] /\ call.page = PageAt(s, n)
        BY <3>4
      <4>2. Len(Pair(d, x)) = 2 /\ ~(2 < 2)
        BY <2>7, <3>5, <4>1
      <4> QED
        BY <2>7, <4>1, <4>2
    <3>7. f[<<p[i - 1], PageAt(s, n)>>] = Rest(u, rank(n))
      BY <1>3, <3>2, <3>4
    <3>8. rank(n) = rank(c) + 1 /\ rank(n) \in 1 .. K /\ u[rank(n)] = UsageOf(s, n)
      BY <1>1, <3>2, RankIs DEF rank, K, u
    <3> DEFINE r == rank(c)
    <3>9. r \in 0 .. K /\ r # K /\ rank(n) = r + 1
      BY <1>1, <2>8, <3>8
    <3> HIDE DEF r
    <3>10. <<u[r + 1]>> \o Rest(u, r + 1) = Rest(u, r)
      BY <1>2, <3>9, RestIs
    <3> QED
      BY <3>6, <3>7, <3>8, <3>9, <3>10 DEF r, x, start, page
  <2> QED
    BY <2>9, <2>10
<1>4. \A c \in Collections(s) : (\A k \in Collections(s) : k > c => k \in T) => c \in T
  BY <1>3
<1>5. \A c \in Collections(s) : c \in T
  <2> HIDE DEF T
  <2> QED
    BY <1>1, <1>4, LastFirst
<1> QED
  BY <1>5 DEF u, rank

(* The first collection of a proper descriptor.                            *)
LEMMA FirstIs ==
  ASSUME NEW s, Len(s) \in Nat, Proper(s)
  PROVE  /\ Min(Collections(s)) \in Collections(s)
         /\ \A k \in Collections(s) : k >= Min(Collections(s))
         /\ Cardinality(UpTo(s, Min(Collections(s)))) = 1
         /\ TopUsages(s)[1] = UsageOf(s, Min(Collections(s)))
<1> DEFINE C == Collections(s)
           c == Min(C)
<1>1. C \subseteq Nat /\ C # {}
  BY CollectionsIs DEF Proper
<1>2. c \in C /\ \A k \in C : c <= k
  <2> HIDE DEF C
  <2> QED
    BY <1>1, SomeLeast
<1> HIDE DEF c
<1>3. \A k \in C : k >= c
  BY <1>1, <1>2
<1>4. Cardinality(UpTo(s, c)) = 1 /\ TopUsages(s)[Cardinality(UpTo(s, c))] = UsageOf(s, c)
  BY <1>2, <1>3, RankIs
<1> QED
  BY <1>2, <1>3, <1>4 DEF c

(* Of a proper descriptor Linux and NetBSD list the usage of every         *)
(* top-level collection, whatever is inside of it, in their order.         *)
THEOREM EveryUsageListed ==
  ASSUME NEW s, IsBlock(s), Proper(s)
  PROVE  DeviceUsages(BytesOf(s)) = TopUsages(s)
<1> DEFINE d == BytesOf(s)
           u == TopUsages(s)
           c == Min(Collections(s))
           none == <<>>
           call == NextUsage(d, 0, none)
<1>1. PICK p : Whole(d, s, p)
  <2>1. PICK p : Offsets(p, Pieces(s))
    BY PiecesIs, FlattenAt
  <2> QED
    BY <2>1 DEF Whole
<1> HIDE DEF d
<1>2. /\ d \in Seq(Byte) /\ Len(s) \in Nat /\ p \in [0 .. Len(s) -> Nat] /\ p[0] = 0
      /\ Collections(s) \subseteq 1 .. Len(s) /\ Level(s)[0] = 0
      /\ 1 \in 1 .. Len(s) + 1 /\ 1 - 1 = 0
  BY <1>1, WholeIs, CollectionsIs, LevelIs
<1>3. /\ c \in Collections(s) /\ \A k \in Collections(s) : k >= c
      /\ Cardinality(UpTo(s, c)) = 1 /\ u[1] = UsageOf(s, c)
  BY <1>2, FirstIs
<1> HIDE DEF c
<1>4. PICK f : /\ Calls(f, d) /\ \A x \in Nat \X Known : f[x] \in Seq(Nat \X Nat)
               /\ DeviceUsages(d) = <<FirstUsage(d)>> \o f[Resume(d, FirstCall)]
  BY <1>2, CallsIs
<1>5. none \in Known
  BY KnownIs
<1> HIDE DEF none
<1>6. PICK g : Scans(g, d, 0) /\ call = g[<<0, none, none>>]
  <2>1. 0 \in Nat
    OBVIOUS
  <2> QED
    BY <1>2, <1>5, <2>1, ScanIs DEF none
<1>7. Before(s, p, 1) = <<0, none, none>>
  <2>1. PagesFor(s, 1) = {} /\ UsagesFor(s, 1) = {}
    <3>1. \A j \in Top(s) : ~(j < 1)
      BY <1>2 DEF Top
    <3> QED
      BY <3>1 DEF PagesFor, UsagesFor
  <2> QED
    BY <1>2, <2>1 DEF Before, PageAt, UsageAt, none
<1>8. PICK e \in 1 .. Len(s) :
        /\ EndsAt(s, c, e)
        /\ call = [pair |-> UsageOf(s, c), pos |-> p[e - 1], page |-> PageAt(s, c)]
  <2>1. c >= 1 /\ \A k \in Collections(s) : k < 1 \/ k >= c
    BY <1>2, <1>3
  <2>2. 0 \in Nat
    OBVIOUS
  <2> QED
    <3>1. \E e \in 1 .. Len(s) :
            /\ EndsAt(s, c, e)
            /\ g[Before(s, p, 1)] = [pair |-> UsageOf(s, c), pos |-> p[e - 1], page |-> PageAt(s, c)]
      <4> DEFINE first == 1
      <4>1. Following(s, first, c)
        BY <1>2, <1>3, <2>1 DEF Following
      <4> HIDE DEF first
      <4>2. \E e \in 1 .. Len(s) : EndsAt(s, c, e) /\ g[Before(s, p, first)] = FoundAt(s, p, c, e)
        BY <1>1, <1>6, <2>2, <4>1, NextFound
      <4> QED
        BY <4>2 DEF first, FoundAt
    <3> HIDE DEF call
    <3> QED
      BY <1>6, <1>7, <3>1
<1>9. Pair(d, FirstCall) = UsageOf(s, c) /\ Resume(d, FirstCall) = <<p[e - 1], PageAt(s, c)>>
  <2>1. FirstCall[1] = 0 /\ FirstCall[2] = none
    BY DEF FirstCall, none
  <2> QED
    BY <1>8, <2>1 DEF Pair, Resume
<1>10. FirstUsage(d) = UsageOf(s, c)
  <2>1. Len(UsageOf(s, c)) = 2
    BY DEF UsageOf
  <2> QED
    BY <1>9, <2>1 DEF FirstUsage
<1>11. f[Resume(d, FirstCall)] = Rest(u, 1)
  BY <1>1, <1>3, <1>4, <1>8, <1>9, OthersFound
<1>12. PICK S : u \in Seq(S) /\ Len(u) \in Nat /\ Len(u) # 0
  <2>1. PICK S : u \in Seq(S) /\ Len(u) = Cardinality(Collections(s))
    BY <1>2, TopUsagesIs
  <2>2. 1 \in 1 .. Cardinality(Collections(s)) /\ Cardinality(Collections(s)) \in Nat
    BY <1>2, <1>3, RankIs, CollectionsIs
  <2> QED
    BY <2>1, <2>2
<1> HIDE DEF u
<1>13. <<u[0 + 1]>> \o Rest(u, 0 + 1) = Rest(u, 0) /\ Rest(u, 0) = u
  <2>1. 0 \in 0 .. Len(u) /\ 0 # Len(u)
    BY <1>12
  <2> QED
    BY <1>12, <2>1, RestIs
<1>14. 0 + 1 = 1
  OBVIOUS
<1> QED
  BY <1>3, <1>4, <1>10, <1>11, <1>13, <1>14 DEF d, u

-----------------------------------------------------------------------------
(* Nothing before the first collection is inside of one.                   *)
LEMMA BeforeFirst ==
  ASSUME NEW s, Len(s) \in Nat, NEW c \in Collections(s), \A k \in Collections(s) : k >= c
  PROVE  /\ \A t \in 1 .. c : Level(s)[t - 1] = 0
         /\ \A t \in 1 .. c - 1 : t \in Top(s) /\ s[t].kind # "open"
         /\ \A t \in 1 .. c : PagesFor(s, t) \subseteq PagesFor(s, c) /\ UsagesFor(s, t) \subseteq UsagesFor(s, c)
<1> DEFINE T == {k \in 1 .. c : Level(s)[k - 1] = 0}
<1>1. c \in 1 .. Len(s) /\ c \in Nat /\ 1 <= c /\ 1 \in Nat /\ Level(s)[0] = 0 /\ 1 - 1 = 0 /\ 1 \in 1 .. c
  BY CollectionsIs, LevelIs
<1>2. ASSUME NEW k \in 1 .. c - 1, Level(s)[k - 1] = 0
      PROVE  k \in Top(s) /\ s[k].kind # "open" /\ Level(s)[k] = 0
  <2>1. k \in 1 .. Len(s) /\ ~(k >= c)
    BY <1>1
  <2>2. k \in Top(s)
    BY <1>2, <2>1, TopIs
  <2>3. s[k].kind # "open"
    BY <2>1, <2>2 DEF Collections
  <2> QED
    BY <2>1, <2>2, <2>3, TopIs
<1>3. ASSUME NEW k \in 1 .. c, k + 1 \in 1 .. c, k \in T
      PROVE  k + 1 \in T
  <2>1. k \in 1 .. c - 1 /\ (k + 1) - 1 = k
    BY <1>1, <1>3
  <2> QED
    BY <1>2, <1>3, <2>1
<1>4. \A k \in 1 .. c : k \in T
  <2>1. 1 <= c => 1 \in T
    BY <1>1
  <2> HIDE DEF T
  <2> QED
    BY ONLY <1>1, <1>3, <2>1, Upward
<1>5. \A t \in 1 .. c : Level(s)[t - 1] = 0
  BY <1>4
<1>6. \A t \in 1 .. c - 1 : t \in Top(s) /\ s[t].kind # "open"
  <2>1. \A t \in 1 .. c - 1 : t \in 1 .. c
    BY <1>1
  <2> QED
    BY <1>2, <1>5, <2>1
<1>7. ASSUME NEW t \in 1 .. c
      PROVE  PagesFor(s, t) \subseteq PagesFor(s, c) /\ UsagesFor(s, t) \subseteq UsagesFor(s, c)
  <2>1. Top(s) \subseteq 1 .. Len(s)
    BY DEF Top
  <2>2. \A j \in Top(s) : j < t => j < c /\ \A k \in j .. c - 1 : k \in 1 .. c - 1
    BY <1>1, <2>1
  <2> QED
    BY <1>6, <2>2 DEF PagesFor, UsagesFor
<1> QED
  BY <1>5, <1>6, <1>7

LEMMA OnlyOne ==
  ASSUME NEW S, IsFiniteSet(S), Cardinality(S) = 1, NEW R, R \subseteq S, R # {}
  PROVE  R = S
<1>1. \E x : S = {x}
  BY FS_Singleton
<1> QED
  BY <1>1

(* Where libusb stops: both are known, and what is told is what is known   *)
(* where the first collection begins.                                      *)
LEMMA SameTold ==
  ASSUME NEW s, Len(s) \in Nat, Proper(s), PageComesFirst(s), NEW t \in 1 .. Min(Collections(s)),
         PagesFor(s, t) # {}, UsagesFor(s, t) # {}
  PROVE  <<s[Max(PagesFor(s, t))].page, s[Max(UsagesFor(s, t))].usage>> = UsageOf(s, Min(Collections(s)))
<1> DEFINE c == Min(Collections(s))
           P == PagesFor(s, c)
           U == UsagesFor(s, c)
           Q == PagesFor(s, t)
           V == UsagesFor(s, t)
<1>1. c \in Collections(s) /\ \A k \in Collections(s) : k >= c
  BY FirstIs
<1>2. c \in 1 .. Len(s) /\ c \in Nat /\ Top(s) \subseteq 1 .. Len(s) /\ t \in 1 .. c /\ t \in Nat
  BY <1>1, CollectionsIs DEF Top
<1>3. Q \subseteq P /\ V \subseteq U /\ Q # {} /\ V # {}
  BY <1>1, <1>2, BeforeFirst
<1>4. Cardinality(U) = 1 /\ P # {} /\ (Max(P) <= Max(U) \/ Cardinality(P) = 1)
  BY <1>1 DEF Proper, PageComesFirst
<1>5. IsFiniteSet(P) /\ IsFiniteSet(U) /\ P \subseteq Nat /\ U \subseteq Nat /\ \A x \in P : x <= Len(s)
  <2>1. P \subseteq 1 .. Len(s) /\ U \subseteq 1 .. Len(s) /\ IsFiniteSet(1 .. Len(s))
    <3>1. IsFiniteSet(1 .. Len(s))
      <4> DEFINE n == Len(s)
      <4>1. n \in Int /\ 1 \in Int
        OBVIOUS
      <4> HIDE DEF n
      <4>2. IsFiniteSet(1 .. n)
        BY <4>1, FS_Interval
      <4> QED
        BY <4>2 DEF n
    <3>2. P \subseteq Top(s) /\ U \subseteq Top(s)
      BY DEF PagesFor, UsagesFor
    <3> QED
      BY <1>2, <3>1, <3>2
  <2> HIDE DEF P, U
  <2>2. IsFiniteSet(P) /\ IsFiniteSet(U)
    BY <2>1, FS_Subset
  <2>3. P \subseteq Nat /\ U \subseteq Nat /\ \A x \in P : x <= Len(s)
    BY <2>1
  <2> QED
    BY <2>2, <2>3
<1>6. \A x \in P : x \in Q <=> x < t
  BY DEF PagesFor
<1>7. \A x \in V : x < t
  BY DEF UsagesFor
<1> HIDE DEF c
<1>8. UsageOf(s, c) = <<s[Max(P)].page, s[Max(U)].usage>>
  BY DEF UsageOf
<1> HIDE DEF P, U, Q, V
<1>9. V = U
  BY <1>3, <1>4, <1>5, OnlyOne
<1>10. Max(Q) = Max(P)
  <2>1. CASE Cardinality(P) = 1
    <3>1. Q = P
      BY <1>3, <1>5, <2>1, OnlyOne
    <3> QED
      BY <3>1
  <2>2. CASE Max(P) <= Max(U)
    <3>1. Max(U) \in U
      <4>1. \E x : U = {x}
        BY <1>4, <1>5, FS_Singleton
      <4>2. U # {} /\ \E n \in Nat : \A x \in U : x <= n
        BY <1>5, <4>1
      <4> QED
        BY <1>5, <4>2, GreatestIs
    <3>2. Max(P) \in P /\ \A x \in P : x <= Max(P)
      BY <1>2, <1>4, <1>5, GreatestIs
    <3>3. Max(P) \in Nat /\ Max(U) \in Nat /\ Max(P) < t
      <4> DEFINE a == Max(P)
                 b == Max(U)
      <4>1. a \in Nat /\ b \in Nat /\ b < t /\ a <= b
        BY <1>5, <1>7, <1>9, <2>2, <3>1, <3>2
      <4> HIDE DEF a, b
      <4>2. a < t
        BY ONLY <1>2, <4>1
      <4> QED
        BY <4>1, <4>2 DEF a, b
    <3>4. Max(P) \in Q
      BY <1>6, <3>2, <3>3
    <3>5. Max(Q) \in Q /\ \A x \in Q : x <= Max(Q)
      <4>1. Q \subseteq Nat /\ \A x \in Q : x <= Len(s)
        BY <1>3, <1>5
      <4> QED
        BY <1>2, <1>3, <4>1, GreatestIs
    <3>6. Max(P) <= Max(Q) /\ Max(Q) <= Max(P) /\ Max(Q) \in Nat
      BY <1>3, <1>5, <3>2, <3>4, <3>5
    <3> QED
      BY ONLY <3>3, <3>6
  <2> QED
    BY <1>4, <2>1, <2>2
<1> QED
  BY <1>8, <1>9, <1>10 DEF Q, V, c

(* libusb lists the usage of the first top-level collection of a proper    *)
(* descriptor whose page does not change after the usage.                  *)
THEOREM FirstUsageListed ==
  ASSUME NEW s, IsBlock(s), Proper(s), PageComesFirst(s)
  PROVE  GetUsage(BytesOf(s)) = TopUsages(s)[1]
<1> DEFINE d == BytesOf(s)
           c == Min(Collections(s))
           none == <<>>
           Both(t) == PagesFor(s, t) # {} /\ UsagesFor(s, t) # {}
           K == {t \in 1 .. c : Both(t)}
<1>1. PICK p : Whole(d, s, p)
  <2>1. PICK p : Offsets(p, Pieces(s))
    BY PiecesIs, FlattenAt
  <2> QED
    BY <2>1 DEF Whole
<1> HIDE DEF d
<1>2. /\ d \in Seq(Byte) /\ Len(s) \in Nat /\ p \in [0 .. Len(s) -> Nat] /\ p[0] = 0
      /\ Collections(s) \subseteq 1 .. Len(s) /\ 1 - 1 = 0
  BY <1>1, WholeIs, CollectionsIs
<1>3. /\ c \in Collections(s) /\ \A k \in Collections(s) : k >= c
      /\ TopUsages(s)[1] = UsageOf(s, c)
  BY <1>2, FirstIs
<1>4. c \in 1 .. Len(s) /\ c \in Nat /\ c \in 1 .. c /\ Both(c)
  <2>1. c \in 1 .. Len(s) /\ c \in Nat /\ c \in 1 .. c
    BY <1>2, <1>3
  <2>2. PagesFor(s, c) # {} /\ Cardinality(UsagesFor(s, c)) = 1
    BY <1>3 DEF Proper
  <2>3. Cardinality({}) = 0
    BY FS_EmptySet
  <2> HIDE DEF c
  <2>4. UsagesFor(s, c) # {}
    <3> DEFINE U == UsagesFor(s, c)
    <3> HIDE DEF U
    <3>1. Cardinality(U) = 1
      BY <2>2 DEF U
    <3>2. U # {}
      BY <2>3, <3>1
    <3> QED
      BY <3>2 DEF U
  <2> QED
    BY <2>1, <2>2, <2>4
<1>5. PICK m \in K : \A t \in K : m <= t
  <2>1. c \in K /\ K \subseteq Nat
    BY <1>4
  <2> HIDE DEF K
  <2> QED
    BY <2>1, SomeLeast
<1>6. m \in 1 .. c /\ m \in Nat /\ Both(m) /\ \A t \in 1 .. m - 1 : ~Both(t)
  <2>1. m \in 1 .. c /\ m \in Nat /\ Both(m)
    BY <1>5
  <2>2. \A t \in 1 .. m - 1 : t \in 1 .. c /\ ~(m <= t)
    BY <1>4, <2>1
  <2> HIDE DEF Both
  <2> QED
    BY <1>5, <2>1, <2>2
<1>7. <<s[Max(PagesFor(s, m))].page, s[Max(UsagesFor(s, m))].usage>> = UsageOf(s, c)
  BY <1>2, <1>6, SameTold
<1>8. none \in Known
  BY KnownIs
<1>9. /\ \A t \in 1 .. c : Level(s)[t - 1] = 0
      /\ \A t \in 1 .. c - 1 : t \in Top(s) /\ s[t].kind # "open"
  BY <1>2, <1>3, BeforeFirst
<1> HIDE DEF none, c, K
<1>10. PICK g : UsbScans(g, d) /\ GetUsage(d) = g[<<0, none, none>>]
  BY <1>2, UsbScanIs DEF none
<1>11. Before(s, p, 1) = <<0, none, none>>
  <2>1. PagesFor(s, 1) = {} /\ UsagesFor(s, 1) = {}
    <3>1. \A j \in Top(s) : ~(j < 1)
      BY <1>2 DEF Top
    <3> QED
      BY <3>1 DEF PagesFor, UsagesFor
  <2> QED
    BY <1>2, <2>1 DEF Before, PageAt, UsageAt, none
<1>12. ASSUME NEW t \in 1 .. m - 1
       PROVE  g[Before(s, p, t)] = g[Before(s, p, t + 1)]
  <2> DEFINE x == Before(s, p, t)
  <2>1. /\ t \in 1 .. Len(s) /\ t \in 1 .. Len(s) + 1 /\ t # Len(s) + 1 /\ t \in Nat /\ (t + 1) - 1 = t
        /\ t \in Top(s) /\ s[t].kind # "open" /\ ~Both(t)
    <3>1. t \in 1 .. Len(s) /\ t \in 1 .. Len(s) + 1 /\ t # Len(s) + 1 /\ t \in Nat /\ (t + 1) - 1 = t
          /\ t \in 1 .. c - 1
      BY <1>2, <1>4, <1>6
    <3> QED
      BY <1>6, <1>9, <3>1
  <2>2. /\ x \in ScanArgs /\ x[1] = p[t - 1] /\ x[2] = PageAt(s, t) /\ x[3] = UsageAt(s, t)
        /\ ~(p[t - 1] >= Len(d))
    BY <1>1, <2>1, BeforeIs
  <2>3. x = <<p[t - 1], PageAt(s, t), UsageAt(s, t)>> /\ PageAt(s, t) \in Known /\ UsageAt(s, t) \in Known
    BY <1>1, <2>1, KnownAt DEF Before
  <2> HIDE DEF x
  <2>4. ~UsbEnds(d, x)
    <3>1. x[2] = <<>> \/ x[3] = <<>>
      BY <2>1, <2>2 DEF PageAt, UsageAt
    <3> QED
      BY <2>2, <3>1 DEF UsbEnds
  <2>5. g[x] = g[UsbPast(d, x)]
    BY <1>10, <2>2, <2>4 DEF UsbScans
  <2>6. UsbPast(d, x) = <<p[t], PageThen(s[t], PageAt(s, t)), UsageThen(s[t], UsageAt(s, t))>>
    BY <1>1, <2>1, <2>3, ItemPast
  <2>7. Before(s, p, t + 1) = <<p[t], PageThen(s[t], PageAt(s, t)), UsageThen(s[t], UsageAt(s, t))>>
    BY <1>2, <2>1, KnownNext DEF Before
  <2> QED
    BY <2>5, <2>6, <2>7 DEF x
<1>13. g[Before(s, p, 1)] = g[Before(s, p, m)]
  <2> DEFINE T == {t \in 1 .. m : g[Before(s, p, 1)] = g[Before(s, p, t)]}
  <2>1. ASSUME NEW t \in 1 .. m, t + 1 \in 1 .. m, t \in T PROVE t + 1 \in T
    <3>1. t \in 1 .. m - 1
      BY <1>6, <2>1
    <3> QED
      BY <1>12, <2>1, <3>1
  <2>2. (1 <= m => 1 \in T) /\ m \in 1 .. m /\ 1 \in Nat
    BY <1>6
  <2>3. \A t \in 1 .. m : t \in T
    <3> HIDE DEF T
    <3> QED
      BY ONLY <1>6, <2>1, <2>2, Upward
  <2>4. m \in T
    <3> HIDE DEF T
    <3> QED
      BY <2>2, <2>3
  <2> QED
    BY <2>4
<1>14. g[Before(s, p, m)] = UsageOf(s, c)
  <2> DEFINE x == Before(s, p, m)
             page == s[Max(PagesFor(s, m))].page
             usage == s[Max(UsagesFor(s, m))].usage
  <2>1. x \in ScanArgs /\ x[2] = PageAt(s, m) /\ x[3] = UsageAt(s, m)
    <3>1. m \in 1 .. Len(s) + 1
      BY <1>2, <1>4, <1>6
    <3> QED
      BY <1>1, <3>1, BeforeIs
  <2>2. x[2] = <<page>> /\ x[3] = <<usage>>
    BY <1>6, <2>1 DEF PageAt, UsageAt
  <2>3. UsageOf(s, c) = <<page, usage>>
    BY <1>7
  <2> HIDE DEF x, page, usage
  <2>4. UsbEnds(d, x) /\ Told(x) = <<page, usage>>
    BY <2>2 DEF UsbEnds, Told
  <2>5. g[x] = Told(x)
    BY <1>10, <2>1, <2>4 DEF UsbScans
  <2> QED
    BY <2>3, <2>4, <2>5 DEF x
<1> QED
  BY <1>3, <1>10, <1>11, <1>13, <1>14 DEF d

-----------------------------------------------------------------------------
(* Blocks that follow each other are items that follow each other.         *)
LEMMA BlocksFlat ==
  ASSUME NEW bs \in Seq(Blocks)
  PROVE  IsBlock(FlattenSeq(bs))
<1> DEFINE n == Len(bs)
           S == UNION {Range(bs[k]) : k \in 1 .. n}
           s == FlattenSeq(bs)
<1>1. n \in Nat /\ \A k \in 1 .. n : bs[k] \in Blocks /\ IsBlock(bs[k])
  BY BlocksAssumption
<1>2. \A x \in S : IsItem(x)
  <2>1. ASSUME NEW k \in 1 .. n, NEW x \in Range(bs[k]) PROVE IsItem(x)
    <3> DEFINE b == bs[k]
    <3>1. Len(b) \in Nat /\ DOMAIN b = 1 .. Len(b) /\ \A i \in 1 .. Len(b) : IsItem(b[i])
      <4>1. b \in Seq(Range(b)) /\ \A i \in 1 .. Len(b) : IsItem(b[i])
        BY <1>1 DEF IsBlock
      <4> DEFINE R == Range(b)
      <4> HIDE DEF b, R
      <4> QED
        BY <4>1 DEF R
    <3> HIDE DEF b
    <3>2. PICK i \in DOMAIN b : x = b[i]
      BY <2>1 DEF Range, b
    <3> QED
      BY <3>1, <3>2
  <2> QED
    BY <2>1
<1>3. ASSUME NEW k \in 1 .. n PROVE bs[k] \in Seq(S)
  <2> DEFINE R == Range(bs[k])
  <2>1. bs[k] \in Seq(R) /\ R \subseteq S
    BY <1>1, <1>3 DEF IsBlock
  <2> HIDE DEF R, S
  <2> QED
    BY <2>1
<1> HIDE DEF S
<1>4. bs \in Seq(Seq(S))
  <2>1. bs \in [1 .. n -> Seq(S)]
    BY <1>1, <1>3
  <2> QED
    BY <1>1, <2>1
<1>5. s \in Seq(S)
  BY <1>4, FlattenIs
<1> HIDE DEF s
<1>6. Len(s) \in Nat /\ \A i \in 1 .. Len(s) : IsItem(s[i])
  BY <1>2, <1>5
<1>7. s \in Seq(Range(s))
  <2>1. s = [i \in 1 .. Len(s) |-> s[i]]
    BY <1>5
  <2>2. \A i \in 1 .. Len(s) : s[i] \in Range(s)
    BY <2>1 DEF Range
  <2> DEFINE R == Range(s)
  <2> HIDE DEF R
  <2>3. s \in [1 .. Len(s) -> R]
    BY <2>1, <2>2 DEF R
  <2>4. s \in Seq(R)
    BY <1>6, <2>3
  <2> QED
    BY <2>4 DEF R
<1>8. IsBlock(s)
  BY <1>6, <1>7 DEF IsBlock
<1> QED
  BY <1>8 DEF s

(* What the parsers find, whatever blocks a descriptor is made of.         *)
LEMMA FoundInBlocks == blocks \in Seq(Blocks) => DescriptorUsages
<1> SUFFICES ASSUME blocks \in Seq(Blocks) PROVE DescriptorUsages
  OBVIOUS
<1> DEFINE s == FlattenSeq(blocks)
           before == SubSeq(blocks, 1, Len(blocks) - 1)
           least == Len(BytesOf(FlattenSeq(before)))
<1>1. IsBlock(s)
  BY BlocksFlat
<1>2. least \in Nat
  <2>1. before \in Seq(Blocks)
    <3> DEFINE n == Len(blocks) - 1
    <3>1. n \in Int /\ n <= Len(blocks)
      OBVIOUS
    <3>2. \A i \in 1 .. n : blocks[i] \in Blocks
      BY <3>1
    <3> HIDE DEF n
    <3> QED
      BY <3>1, <3>2, SubSeqProperties DEF n
  <2> HIDE DEF before
  <2>2. IsBlock(FlattenSeq(before))
    BY <2>1, BlocksFlat
  <2>3. BytesOf(FlattenSeq(before)) \in Seq(Byte)
    BY <2>2, PiecesIs
  <2> QED
    BY <2>3
<1> HIDE DEF s, least
<1>3. AllFound(s, BytesOf(s))
  BY <1>1, EveryUsageListed, FirstUsageListed DEF AllFound
<1>4. Len(BytesOf(s)) \in Nat
  <2>1. BytesOf(s) \in Seq(Byte)
    BY <1>1, PiecesIs
  <2> QED
    BY <2>1
<1>5. ASSUME NEW n \in least .. Len(BytesOf(s))
      PROVE  NoneInvented(s, SubSeq(BytesOf(s), 1, n))
  <2>1. n \in 0 .. Len(BytesOf(s))
    BY <1>2, <1>4
  <2> QED
    BY <1>1, <2>1, CutInventsNothing
<1> QED
  BY <1>3, <1>5 DEF DescriptorUsages, s, least

(* What the implementations list a device with is what its descriptor      *)
(* means, for descriptors of any items and any length: get_next_hid_usage  *)
(* finds the usage of every top-level collection, get_usage the first one, *)
(* and neither invents any when the descriptor is cut off.                 *)
THEOREM DescriptorUsagesAlways == Spec => []DescriptorUsages
<1> DEFINE Made == blocks \in Seq(Blocks)
<1>1. Init => Made
  BY DEF Init, ParserInit
<1>2. Made /\ [Next]_vars => Made'
  <2> SUFFICES ASSUME Made, [Next]_vars PROVE Made'
    OBVIOUS
  <2>1. CASE UNCHANGED blocks
    BY <2>1
  <2>2. CASE AddBlock
    BY <2>2 DEF AddBlock
  <2> QED
    BY <2>1, <2>2 DEF Next, vars
<1>3. Made => DescriptorUsages
  BY FoundInBlocks
<1> QED
  BY <1>1, <1>2, <1>3, PTL DEF Spec
=============================================================================
