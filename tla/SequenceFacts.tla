--------------------------- MODULE SequenceFacts ----------------------------
(***************************************************************************)
(* Facts about sequences and induction that the proofs about the exporter  *)
(* and the lanes rest on.                                                  *)
(***************************************************************************)
EXTENDS SequencesExt, WellFoundedInduction, TLAPS

(* Every set of natural numbers that is not empty has a least member.      *)
LEMMA SmallestOf ==
  ASSUME NEW T, T \subseteq Nat, T # {}
  PROVE  \E n \in T : \A m \in T : n <= m
<1> DEFINE R == OpToRel(<, Nat)
<1>1. IsWellFoundedOn(R, Nat)
  BY NatLessThanWellFounded, Zenon
<1>2. \E x \in T : \A y \in T : ~ (<<y, x>> \in R)
  <2> HIDE DEF R
  <2> QED BY <1>1, WFMin
<1>3. PICK x \in T : \A y \in T : ~ (<<y, x>> \in R)
  BY <1>2
<1>4. \A y \in T : ~(y < x)
  BY <1>3 DEF OpToRel
<1> QED BY <1>4

(* Induction in the form of sets: no operator is a parameter, so a proof   *)
(* cites it with the set of the numbers the claim holds for.               *)
LEMMA SetInduction ==
  ASSUME NEW S, 0 \in S, \A n \in Nat : n \in S => n + 1 \in S
  PROVE  Nat \subseteq S
<1> SUFFICES ASSUME ~(Nat \subseteq S) PROVE FALSE
  OBVIOUS
<1>1. PICK n \in Nat \ S : \A m \in Nat \ S : n <= m
  BY SmallestOf
<1>2. n - 1 \in Nat \ S
  BY <1>1
<1> QED BY <1>1, <1>2

(* The elements of two sequences joined.                                   *)
LEMMA ConcatElements ==
  ASSUME NEW E, NEW a \in Seq(E), NEW b \in Seq(E)
  PROVE  /\ a \o b \in Seq(E)
         /\ DOMAIN (a \o b) = 1 .. Len(a) + Len(b)
         /\ \A k \in 1 .. Len(a) : (a \o b)[k] = a[k]
         /\ \A k \in Len(a) + 1 .. Len(a) + Len(b) : (a \o b)[k] = b[k - Len(a)]
OBVIOUS

Flattening(g, seqs) ==
    /\ DOMAIN g = 0 .. Len(seqs)
    /\ g[0] = <<>>
    /\ \A i \in 1 .. Len(seqs) : g[i] = g[i - 1] \o seqs[i]

(* FlattenSeq of the community modules is the last of its partial results. *)
LEMMA FlattenUnfolds ==
  ASSUME NEW E, NEW seqs \in Seq(Seq(E))
  PROVE  \E g \in [0 .. Len(seqs) -> Seq(E)] :
            Flattening(g, seqs) /\ FlattenSeq(seqs) = g[Len(seqs)]
<1> DEFINE N == Len(seqs)
           Rec(f, n) == f = [i \in 1 .. n |-> IF i = 1 THEN seqs[i] ELSE f[i - 1] \o seqs[i]]
<1>0. N \in Nat /\ \A i \in 1 .. N : seqs[i] \in Seq(E)
  OBVIOUS
<1>1. \A n \in Nat : \E f : Rec(f, n)
  <2> DEFINE S == {n \in Nat : \E f : Rec(f, n)}
  <2>1. 0 \in S
    <3>1. Rec([i \in 1 .. 0 |-> <<>>], 0)
      OBVIOUS
    <3> QED BY <3>1
  <2>2. ASSUME NEW n \in Nat, n \in S PROVE n + 1 \in S
    <3>1. PICK f : Rec(f, n)
      BY <2>2
    <3>2. \A i \in 1 .. n : f[i] = IF i = 1 THEN seqs[i] ELSE f[i - 1] \o seqs[i]
      BY <3>1
    <3> DEFINE h == [i \in 1 .. n + 1 |-> IF i <= n THEN f[i]
                         ELSE IF i = 1 THEN seqs[i] ELSE f[n] \o seqs[i]]
    <3>3. ASSUME NEW i \in 1 .. n + 1
          PROVE  h[i] = IF i = 1 THEN seqs[i] ELSE h[i - 1] \o seqs[i]
      <4>1. i \in 2 .. n + 1 => i - 1 \in 1 .. n + 1 /\ h[i - 1] = f[i - 1]
        OBVIOUS
      <4>2. h[i] = IF i <= n THEN f[i] ELSE IF i = 1 THEN seqs[i] ELSE f[n] \o seqs[i]
        OBVIOUS
      <4> HIDE DEF h
      <4>3. CASE i <= n
        BY <3>2, <4>1, <4>2, <4>3
      <4>4. CASE i = n + 1
        BY <4>1, <4>2, <4>4
      <4> QED BY <4>3, <4>4
    <3>4. DOMAIN h = 1 .. n + 1 /\ h = [i \in 1 .. n + 1 |-> h[i]]
      OBVIOUS
    <3>5. Rec(h, n + 1)
      <4> HIDE DEF h
      <4> QED BY <3>3, <3>4, Zenon
    <3> HIDE DEF h, Rec
    <3> QED BY <3>5
  <2>3. Nat \subseteq S
    <3> HIDE DEF S
    <3> QED BY <2>1, <2>2, SetInduction
  <2> QED BY <2>3
<1> DEFINE flat == CHOOSE f : Rec(f, N)
<1>2. Rec(flat, N)
  <2> HIDE DEF Rec
  <2> QED BY <1>0, <1>1
<1>3. N # 0 => FlattenSeq(seqs) = flat[N]
  BY DEF FlattenSeq
<1> HIDE DEF flat
<1> DEFINE g == [i \in 0 .. N |-> IF i = 0 THEN <<>> ELSE flat[i]]
<1>4. DOMAIN g = 0 .. N /\ g[0] = <<>> /\ \A i \in 1 .. N : g[i] = flat[i]
  BY <1>0
<1>5. ASSUME NEW i \in 1 .. N PROVE flat[i] = IF i = 1 THEN seqs[i] ELSE flat[i - 1] \o seqs[i]
  BY <1>2, <1>0
<1> HIDE DEF g
<1>6. ASSUME NEW i \in 1 .. N PROVE g[i] = g[i - 1] \o seqs[i]
  <2>1. CASE i = 1
    BY <2>1, <1>0, <1>4, <1>5
  <2>2. CASE i # 1
    <3>1. i - 1 \in 1 .. N /\ i - 1 # 0
      BY <2>2, <1>0
    <3> QED BY <2>2, <3>1, <1>4, <1>5
  <2> QED BY <2>1, <2>2
<1>7. \A i \in 0 .. N : g[i] \in Seq(E)
  <2> DEFINE S == {n \in Nat : n <= N => g[n] \in Seq(E)}
  <2>1. 0 \in S
    <3>1. g[0] \in Seq(E)
      BY <1>4
    <3> QED BY <3>1
  <2>2. ASSUME NEW n \in Nat, n \in S PROVE n + 1 \in S
    <3> SUFFICES ASSUME n + 1 <= N PROVE g[n + 1] \in Seq(E)
      OBVIOUS
    <3>1. g[n] \in Seq(E) /\ n + 1 \in 1 .. N
      BY <2>2, <1>0
    <3>2. g[n + 1] = g[(n + 1) - 1] \o seqs[n + 1]
      BY <3>1, <1>6
    <3>3. (n + 1) - 1 = n
      OBVIOUS
    <3> QED BY <3>1, <3>2, <3>3, <1>0
  <2>3. Nat \subseteq S
    <3> HIDE DEF S
    <3> QED BY <2>1, <2>2, SetInduction
  <2> QED BY <2>3
<1>8. FlattenSeq(seqs) = g[N]
  <2>1. CASE N = 0
    BY <2>1, <1>4 DEF FlattenSeq
  <2>2. CASE N # 0
    BY <2>2, <1>3, <1>4, <1>0
  <2> QED BY <2>1, <2>2
<1>9. g \in [0 .. N -> Seq(E)]
  BY <1>4, <1>7 DEF g
<1> QED BY <1>4, <1>6, <1>8, <1>9 DEF Flattening

(* G and I say which group and which place in it every element comes from.  *)
Places(flat, n, seqs, G, I) ==
    /\ \A k \in DOMAIN flat : /\ G[k] \in 1 .. n
                             /\ I[k] \in DOMAIN seqs[G[k]]
                             /\ flat[k] = seqs[G[k]][I[k]]
    /\ \A i \in 1 .. n : \A j \in DOMAIN seqs[i] :
          \E k \in DOMAIN flat : G[k] = i /\ I[k] = j
    /\ \A k, l \in DOMAIN flat :
          k < l => G[k] < G[l] \/ (G[k] = G[l] /\ I[k] < I[l])

(* Places of a flattened sequence when one more is joined to its end.      *)
LEMMA PlacesConcat ==
  ASSUME NEW m \in Nat, NEW p \in Nat, NEW n \in Nat, NEW seqs, NEW G, NEW I,
         NEW a, NEW c, DOMAIN a = 1 .. m, DOMAIN seqs[n + 1] = 1 .. p, DOMAIN c = 1 .. m + p,
         \A k \in 1 .. m : c[k] = a[k],
         \A k \in m + 1 .. m + p : c[k] = seqs[n + 1][k - m],
         \A k \in 1 .. m : G[k] \in Nat /\ I[k] \in Nat,
         Places(a, n, seqs, G, I)
  PROVE  \E H, J \in [DOMAIN c -> Nat] : Places(c, n + 1, seqs, H, J)
<1> DEFINE H == [k \in 1 .. m + p |-> IF k <= m THEN G[k] ELSE n + 1]
           J == [k \in 1 .. m + p |-> IF k <= m THEN I[k] ELSE k - m]
<1>1. /\ \A k \in 1 .. m : H[k] = G[k] /\ J[k] = I[k]
      /\ \A k \in m + 1 .. m + p : H[k] = n + 1 /\ J[k] = k - m
  OBVIOUS
<1>2. H \in [DOMAIN c -> Nat] /\ J \in [DOMAIN c -> Nat]
  OBVIOUS
<1> HIDE DEF H, J
<1>3. ASSUME NEW k \in DOMAIN c
      PROVE  H[k] \in 1 .. n + 1 /\ J[k] \in DOMAIN seqs[H[k]] /\ c[k] = seqs[H[k]][J[k]]
  <2>1. CASE k \in 1 .. m
    <3>1. G[k] \in 1 .. n /\ I[k] \in DOMAIN seqs[G[k]] /\ a[k] = seqs[G[k]][I[k]]
      BY <2>1 DEF Places
    <3> QED BY <2>1, <3>1, <1>1
  <2>2. CASE k \in m + 1 .. m + p
    <3>1. H[k] = n + 1 /\ J[k] = k - m /\ c[k] = seqs[n + 1][k - m] /\ k - m \in 1 .. p
      BY <2>2, <1>1
    <3> QED BY <3>1
  <2> QED BY <2>1, <2>2
<1>4. ASSUME NEW i \in 1 .. n + 1, NEW j \in DOMAIN seqs[i]
      PROVE  \E k \in DOMAIN c : H[k] = i /\ J[k] = j
  <2>1. CASE i \in 1 .. n
    <3>1. PICK k \in DOMAIN a : G[k] = i /\ I[k] = j
      BY <2>1 DEF Places
    <3>2. H[k] = i /\ J[k] = j /\ k \in DOMAIN c
      BY <3>1, <1>1
    <3> QED BY <3>2
  <2>2. CASE i = n + 1
    <3>1. j \in 1 .. p
      BY <2>2
    <3>2. m + j \in m + 1 .. m + p /\ (m + j) - m = j
      BY <3>1
    <3>3. H[m + j] = i /\ J[m + j] = j /\ m + j \in DOMAIN c
      BY <2>2, <3>2, <1>1
    <3> QED BY <3>3
  <2> QED BY <2>1, <2>2
<1>5. ASSUME NEW k \in DOMAIN c, NEW l \in DOMAIN c, k < l
      PROVE  H[k] < H[l] \/ (H[k] = H[l] /\ J[k] < J[l])
  <2>1. CASE l \in 1 .. m
    <3>1. k \in 1 .. m
      BY <2>1, <1>5
    <3>2. G[k] < G[l] \/ (G[k] = G[l] /\ I[k] < I[l])
      BY <2>1, <3>1, <1>5 DEF Places
    <3> QED BY <2>1, <3>1, <3>2, <1>1
  <2>2. CASE l \in m + 1 .. m + p /\ k \in m + 1 .. m + p
    BY <2>2, <1>1, <1>5
  <2>3. CASE l \in m + 1 .. m + p /\ k \in 1 .. m
    <3>1. G[k] \in 1 .. n
      BY <2>3 DEF Places
    <3> QED BY <2>3, <3>1, <1>1
  <2> QED BY <2>1, <2>2, <2>3
<1>6. Places(c, n + 1, seqs, H, J)
  BY <1>3, <1>4, <1>5 DEF Places
<1> QED BY <1>2, <1>6

(* Every element of a flattened sequence comes from one place of one of    *)
(* the sequences, every such place is met, and in the order of the         *)
(* sequences.                                                              *)
LEMMA FlattenPlaces ==
  ASSUME NEW E, NEW seqs \in Seq(Seq(E))
  PROVE  /\ FlattenSeq(seqs) \in Seq(E)
         /\ \E G, I \in [DOMAIN FlattenSeq(seqs) -> Nat] :
               Places(FlattenSeq(seqs), Len(seqs), seqs, G, I)
<1> DEFINE N == Len(seqs)
<1>0. N \in Nat /\ \A i \in 1 .. N : seqs[i] \in Seq(E)
  OBVIOUS
<1>1. PICK g \in [0 .. N -> Seq(E)] : Flattening(g, seqs) /\ FlattenSeq(seqs) = g[N]
  BY FlattenUnfolds
<1> DEFINE Placed(n) == \E G, I \in [DOMAIN g[n] -> Nat] : Places(g[n], n, seqs, G, I)
           S == {n \in Nat : n <= N => Placed(n)}
<1>2. Placed(0)
  <2>1. g[0] = <<>> /\ DOMAIN g[0] = {}
    BY <1>1 DEF Flattening
  <2>2. Places(g[0], 0, seqs, <<>>, <<>>)
    BY <2>1 DEF Places
  <2>3. <<>> \in [DOMAIN g[0] -> Nat]
    BY <2>1
  <2> QED BY <2>2, <2>3
<1>3. ASSUME NEW n \in Nat, n + 1 <= N, Placed(n) PROVE Placed(n + 1)
  <2>1. PICK G \in [DOMAIN g[n] -> Nat], I \in [DOMAIN g[n] -> Nat] : Places(g[n], n, seqs, G, I)
    BY <1>3
  <2> DEFINE m == Len(g[n])
             p == Len(seqs[n + 1])
  <2>1a. n \in 0 .. N /\ n + 1 \in 1 .. N
    BY <1>0, <1>3
  <2>1b. g[n] \in Seq(E) /\ seqs[n + 1] \in Seq(E)
    BY <1>0, <2>1a
  <2>2. /\ m \in Nat /\ p \in Nat
        /\ DOMAIN g[n] = 1 .. m /\ DOMAIN seqs[n + 1] = 1 .. p
    BY <2>1b
  <2>3. g[n + 1] = g[n] \o seqs[n + 1]
    <3>1. n + 1 \in 1 .. N /\ (n + 1) - 1 = n
      BY <1>0, <1>3
    <3> QED BY <3>1, <1>1 DEF Flattening
  <2>4. /\ DOMAIN g[n + 1] = 1 .. m + p
        /\ \A k \in 1 .. m : g[n + 1][k] = g[n][k]
        /\ \A k \in m + 1 .. m + p : g[n + 1][k] = seqs[n + 1][k - m]
    <3> DEFINE a == g[n]
               b == seqs[n + 1]
               c == g[n + 1]
    <3> SUFFICES /\ DOMAIN c = 1 .. Len(a) + Len(b)
                 /\ \A k \in 1 .. Len(a) : c[k] = a[k]
                 /\ \A k \in Len(a) + 1 .. Len(a) + Len(b) : c[k] = b[k - Len(a)]
      OBVIOUS
    <3>1. a \in Seq(E) /\ b \in Seq(E) /\ c = a \o b
      BY <2>1b, <2>3
    <3> HIDE DEF a, b, c
    <3> QED BY <3>1, ConcatElements
  <2>5. \A k \in 1 .. m : G[k] \in Nat /\ I[k] \in Nat
    BY <2>2
  <2>6. \E H, J \in [DOMAIN g[n + 1] -> Nat] : Places(g[n + 1], n + 1, seqs, H, J)
    <3> HIDE DEF m, p
    <3> QED BY <2>1, <2>2, <2>4, <2>5, PlacesConcat, ZenonT(40)
  <2> QED BY <2>6
<1> HIDE DEF Placed
<1>4. Nat \subseteq S
  <2>1. 0 \in S
    BY <1>2
  <2>2. ASSUME NEW n \in Nat, n \in S PROVE n + 1 \in S
    BY <2>2, <1>0, <1>3
  <2> HIDE DEF S
  <2> QED BY <2>1, <2>2, SetInduction
<1>5. Placed(N)
  BY <1>0, <1>4
<1>6. g[N] \in Seq(E)
  BY <1>0
<1> QED BY <1>1, <1>5, <1>6 DEF Placed

(* Induction over sequences, in the same form.                              *)
LEMMA SequenceInduction ==
  ASSUME NEW E, NEW S, <<>> \in S, \A s \in Seq(E), x \in E : s \in S => Append(s, x) \in S
  PROVE  Seq(E) \subseteq S
<1> DEFINE N == {n \in Nat : \A s \in Seq(E) : Len(s) = n => s \in S}
<1>1. 0 \in N
  <2>1. \A s \in Seq(E) : Len(s) = 0 => s = <<>>
    OBVIOUS
  <2> QED BY <2>1
<1>2. ASSUME NEW n \in Nat, n \in N PROVE n + 1 \in N
  <2> SUFFICES ASSUME NEW s \in Seq(E), Len(s) = n + 1 PROVE s \in S
    OBVIOUS
  <2> DEFINE t == [i \in 1 .. n |-> s[i]]
             x == s[n + 1]
  <2>1. t \in Seq(E) /\ Len(t) = n /\ x \in E /\ \A i \in 1 .. n : t[i] = s[i]
    BY <1>2
  <2> HIDE DEF t
  <2>2. s = Append(t, x)
    BY <2>1
  <2>3. t \in S
    BY <1>2, <2>1
  <2> HIDE DEF x
  <2> QED BY <2>1, <2>2, <2>3
<1>3. Nat \subseteq N
  <2> HIDE DEF N
  <2> QED BY <1>1, <1>2, SetInduction
<1> SUFFICES ASSUME NEW s \in Seq(E) PROVE s \in S
  OBVIOUS
<1>4. Len(s) \in Nat
  OBVIOUS
<1> QED BY <1>3, <1>4

(* FlattenSeq by recursion on the end of a sequence of sequences.           *)
LEMMA FlattenAppend ==
  ASSUME NEW E
  PROVE  /\ FlattenSeq(<<>>) = <<>>
         /\ \A seqs \in Seq(Seq(E)), s \in Seq(E) :
               /\ FlattenSeq(seqs) \in Seq(E)
               /\ FlattenSeq(Append(seqs, s)) = FlattenSeq(seqs) \o s
<1>1. FlattenSeq(<<>>) = <<>>
  <2>1. <<>> \in Seq(Seq(E)) /\ Len(<<>>) = 0
    OBVIOUS
  <2>2. PICK g \in [0 .. 0 -> Seq(E)] : Flattening(g, <<>>) /\ FlattenSeq(<<>>) = g[0]
    BY <2>1, FlattenUnfolds
  <2> QED BY <2>2 DEF Flattening
<1>2. ASSUME NEW seqs \in Seq(Seq(E)), NEW s \in Seq(E)
      PROVE  FlattenSeq(seqs) \in Seq(E) /\ FlattenSeq(Append(seqs, s)) = FlattenSeq(seqs) \o s
  <2> DEFINE more == Append(seqs, s)
  <2>0. PICK n \in Nat : n = Len(seqs)
    OBVIOUS
  <2>1. /\ more \in Seq(Seq(E)) /\ Len(more) = n + 1
        /\ more[n + 1] = s /\ \A i \in 1 .. n : seqs[i] = more[i]
    BY <2>0
  <2>2. PICK g \in [0 .. n -> Seq(E)] : Flattening(g, seqs) /\ FlattenSeq(seqs) = g[n]
    BY <2>0, FlattenUnfolds
  <2> HIDE DEF more
  <2>3. PICK h \in [0 .. Len(more) -> Seq(E)] : Flattening(h, more) /\ FlattenSeq(more) = h[Len(more)]
    BY <2>1, FlattenUnfolds
  <2>4. g[n] = h[n]
    <3> DEFINE S == {k \in Nat : k <= n => g[k] = h[k]}
    <3>1. 0 \in S
      BY <2>2, <2>3 DEF Flattening
    <3>2. ASSUME NEW k \in Nat, k \in S PROVE k + 1 \in S
      <4> SUFFICES ASSUME k + 1 <= n PROVE g[k + 1] = h[k + 1]
        OBVIOUS
      <4>1. k + 1 \in 1 .. Len(seqs) /\ k + 1 \in 1 .. Len(more) /\ k + 1 \in 1 .. n /\ (k + 1) - 1 = k
        BY <2>0, <2>1
      <4>2. g[k + 1] = g[(k + 1) - 1] \o seqs[k + 1] /\ h[k + 1] = h[(k + 1) - 1] \o more[k + 1]
        BY <2>2, <2>3, <4>1 DEF Flattening
      <4>3. g[k] = h[k]
        BY <3>2, <4>1
      <4>4. seqs[k + 1] = more[k + 1]
        BY <2>1, <4>1
      <4> QED BY <4>1, <4>2, <4>3, <4>4
    <3>3. Nat \subseteq S
      <4> HIDE DEF S
      <4> QED BY <3>1, <3>2, SetInduction
    <3> QED BY <3>3
  <2>5. h[n + 1] = h[n] \o more[n + 1]
    <3>1. n + 1 \in 1 .. Len(more) /\ (n + 1) - 1 = n
      BY <2>1
    <3>2. h[n + 1] = h[(n + 1) - 1] \o more[n + 1]
      BY <2>3, <3>1 DEF Flattening
    <3> QED BY <3>1, <3>2
  <2>6. g[n] \in Seq(E)
    <3>1. n \in 0 .. n
      OBVIOUS
    <3> QED BY <3>1, <2>2
  <2>7. FlattenSeq(more) = g[n] \o s
    BY <2>1, <2>3, <2>4, <2>5
  <2> QED BY <2>2, <2>6, <2>7 DEF more
<1> QED BY <1>1, <1>2

(* Flattening distributes over concatenation.                               *)
LEMMA FlattenConcat ==
  ASSUME NEW E, NEW a \in Seq(Seq(E)), NEW b \in Seq(Seq(E))
  PROVE  FlattenSeq(a \o b) = FlattenSeq(a) \o FlattenSeq(b)
<1> DEFINE S == {s \in Seq(Seq(E)) : FlattenSeq(a \o s) = FlattenSeq(a) \o FlattenSeq(s)}
<1>0. FlattenSeq(<<>>) = <<>> /\ \A s \in Seq(Seq(E)) : FlattenSeq(s) \in Seq(E)
  <2>1. FlattenSeq(<<>>) = <<>>
    BY FlattenAppend
  <2>2. ASSUME NEW s \in Seq(Seq(E)) PROVE FlattenSeq(s) \in Seq(E)
    <3>1. <<>> \in Seq(E)
      OBVIOUS
    <3> QED BY <3>1, FlattenAppend
  <2> QED BY <2>1, <2>2
<1>1. <<>> \in S
  <2>1. a \o <<>> = a /\ <<>> \in Seq(Seq(E))
    OBVIOUS
  <2>2. FlattenSeq(a) \o <<>> = FlattenSeq(a)
    <3>1. FlattenSeq(a) \in Seq(E)
      BY <1>0
    <3> HIDE DEF S
    <3> QED BY <3>1
  <2> QED BY <1>0, <2>1, <2>2
<1>2. ASSUME NEW s \in Seq(Seq(E)), NEW x \in Seq(E), s \in S PROVE Append(s, x) \in S
  <2>1. a \o Append(s, x) = Append(a \o s, x) /\ a \o s \in Seq(Seq(E)) /\ Append(s, x) \in Seq(Seq(E))
    BY SMTT(40)
  <2>2. FlattenSeq(a \o Append(s, x)) = FlattenSeq(a \o s) \o x
    BY <2>1, FlattenAppend
  <2>3. FlattenSeq(Append(s, x)) = FlattenSeq(s) \o x
    BY FlattenAppend
  <2> DEFINE u == FlattenSeq(a)
             v == FlattenSeq(s)
  <2>4. u \in Seq(E) /\ v \in Seq(E) /\ FlattenSeq(a \o s) = u \o v
    BY <1>0, <1>2
  <2> HIDE DEF u, v
  <2>5. (u \o v) \o x = u \o (v \o x)
    BY <2>4
  <2>6. FlattenSeq(a \o Append(s, x)) = u \o FlattenSeq(Append(s, x))
    BY <2>2, <2>3, <2>4, <2>5 DEF v
  <2> QED BY <2>1, <2>6 DEF u
<1>3. Seq(Seq(E)) \subseteq S
  <2> HIDE DEF S
  <2> QED BY <1>1, <1>2, SequenceInduction
<1> QED BY <1>3
=============================================================================
