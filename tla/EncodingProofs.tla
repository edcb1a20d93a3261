---------------------------- MODULE EncodingProofs ----------------------------
(***************************************************************************)
(* Theorems about what one log call writes, for any finite contexts, any   *)
(* calls, any texts and numbers, any compiled features and any filters:    *)
(* the JSON line reads back as what was given, the last value of a key     *)
(* wins, the four forms of a record agree, and a call that is compiled out *)
(* writes nothing.                                                         *)
(***************************************************************************)
EXTENDS Encoding, SequenceFacts, FiniteSetTheorems

(* A set of numbers up to n has a greatest one, and Max is it.              *)
LEMMA MaxOf ==
  ASSUME NEW n \in Nat, NEW S, S \subseteq 1 .. n, S # {}
  PROVE  Max(S) \in S /\ \A i \in S : i <= Max(S)
<1> DEFINE T == {k \in Nat : \A i \in S : i <= k}
<1>1. n \in T /\ T \subseteq Nat
  OBVIOUS
<1> HIDE DEF T
<1>2. PICK k \in T : \A j \in T : k <= j
  BY <1>1, SmallestOf
<1> USE DEF T
<1>3. k \in S
  <2> SUFFICES ASSUME k \notin S PROVE FALSE
    OBVIOUS
  <2>1. PICK i \in S : TRUE
    OBVIOUS
  <2>2. k - 1 \in Nat /\ \A j \in S : j <= k - 1
    <3>1. \A j \in S : j <= k /\ j # k /\ j >= 1
      BY <1>2
    <3> QED BY <1>1, <1>2, <2>1, <3>1
  <2> QED BY <1>2, <2>2
<1>4. \E i \in S : \A j \in S : i >= j
  BY <1>2, <1>3
<1>5. Max(S) \in S /\ \A j \in S : Max(S) >= j
  BY <1>4 DEF Max
<1> QED BY <1>5

-----------------------------------------------------------------------------
(* Insertions into a map, one after the other.                              *)
Insertion(it, base, members, s) ==
    IF s = {} THEN base
    ELSE Over(One(members[Max(s)].key, members[Max(s)].value), it[s \ {Max(s)}])
Inserting(it, base, members, D) == it = [s \in SUBSET D |-> Insertion(it, base, members, s)]

(* What it holds of every set of places.                                    *)
LEMMA InsertingAt ==
  ASSUME NEW it, NEW base, NEW members, NEW D, Inserting(it, base, members, D), NEW s \in SUBSET D
  PROVE  it[s] = Insertion(it, base, members, s)
BY DEF Inserting

(* Inserted is such a fold over the places of the sequence.                 *)
LEMMA InsertedFolds ==
  ASSUME NEW base, NEW members
  PROVE  Inserted(base, members) = (CHOOSE it : Inserting(it, base, members, DOMAIN members))[DOMAIN members]
BY DEF Inserted, FoldLeft, MapThenFoldSet, Inserting, Insertion

(* There is one, for every number of places.                                *)
LEMMA InsertingExists ==
  ASSUME NEW base, NEW members, NEW n \in Nat
  PROVE  \E it : Inserting(it, base, members, 1 .. n)
<1> DEFINE S == {m \in Nat : \E it : Inserting(it, base, members, 1 .. m)}
<1>1. 0 \in S
  <2>1. SUBSET (1 .. 0) = {{}}
    OBVIOUS
  <2>2. Inserting([s \in SUBSET (1 .. 0) |-> base], base, members, 1 .. 0)
    BY <2>1 DEF Inserting, Insertion
  <2> QED BY <2>2
<1>2. ASSUME NEW m \in Nat, m \in S PROVE m + 1 \in S
  <2>1. PICK it : Inserting(it, base, members, 1 .. m)
    BY <1>2
  <2> DEFINE last == m + 1
             Next1(s) == Over(One(members[last].key, members[last].value), it[s \ {last}])
             it2 == [s \in SUBSET (1 .. last) |-> IF last \in s THEN Next1(s) ELSE it[s]]
  <2>2. ASSUME NEW s \in SUBSET (1 .. last) PROVE it2[s] = Insertion(it2, base, members, s)
    <3>1. CASE s = {}
      <4>1. it2[s] = it[s] /\ s \in SUBSET (1 .. m)
        BY <3>1
      <4> QED BY <2>1, <3>1, <4>1 DEF Inserting, Insertion
    <3>2. CASE last \in s
      <4>1. Max(s) = last
        <5>1. s \subseteq 1 .. last /\ last \in Nat /\ s # {}
          BY <3>2
        <5>2. Max(s) \in s /\ \A i \in s : i <= Max(s)
          BY <5>1, MaxOf
        <5>3. Max(s) \in Nat /\ last \in Nat /\ Max(s) <= last /\ last <= Max(s)
          <6>1. last \in s /\ last \in Nat /\ Max(s) \in 1 .. last /\ last <= Max(s)
            BY <3>2, <5>1, <5>2, Zenon
          <6> HIDE DEF it2, last, S
          <6> QED BY <6>1
        <5> HIDE DEF it2, last
        <5> QED BY <5>3
      <4>2. s \ {last} \in SUBSET (1 .. m) /\ s \ {last} \in SUBSET (1 .. last) /\ last \notin s \ {last}
        OBVIOUS
      <4>3. it2[s \ {last}] = it[s \ {last}]
        BY <4>2
      <4>4. it2[s] = Next1(s)
        BY <3>2
      <4> HIDE DEF it2, last
      <4> QED BY <3>2, <4>1, <4>3, <4>4 DEF Insertion
    <3>3. CASE s # {} /\ last \notin s
      <4>1. s \in SUBSET (1 .. m) /\ s \subseteq 1 .. m
        BY <3>3
      <4>2. Max(s) \in s
        BY <3>3, <4>1, MaxOf
      <4>3. s \ {Max(s)} \in SUBSET (1 .. m) /\ s \ {Max(s)} \in SUBSET (1 .. last) /\ last \notin s \ {Max(s)}
        BY <3>3, <4>1
      <4>4. it2[s \ {Max(s)}] = it[s \ {Max(s)}] /\ it2[s] = it[s]
        BY <3>3, <4>3
      <4>5. it[s] = Insertion(it, base, members, s)
        BY <2>1, <4>1 DEF Inserting
      <4> HIDE DEF it2
      <4> QED BY <3>3, <4>4, <4>5 DEF Insertion
    <3> QED BY <3>1, <3>2, <3>3
  <2>3. it2 = [s \in SUBSET (1 .. last) |-> it2[s]]
    OBVIOUS
  <2> HIDE DEF it2
  <2>4. Inserting(it2, base, members, 1 .. last)
    BY <2>2, <2>3 DEF Inserting
  <2>5. m + 1 \in Nat /\ \E it3 : Inserting(it3, base, members, 1 .. m + 1)
    BY <2>4
  <2> QED BY <2>5
<1> HIDE DEF S
<1>3. Nat \subseteq S
  BY <1>1, <1>2, SetInduction
<1> QED BY <1>3 DEF S

(* The map after the insertions is the last of such a fold.                *)
LEMMA InsertedIsLast ==
  ASSUME NEW E, NEW base, NEW s \in Seq(E)
  PROVE  \E it : Inserting(it, base, s, 1 .. Len(s)) /\ Inserted(base, s) = it[1 .. Len(s)]
<1> DEFINE it == CHOOSE it : Inserting(it, base, s, DOMAIN s)
<1>1. DOMAIN s = 1 .. Len(s) /\ Len(s) \in Nat
  OBVIOUS
<1>2. Inserting(it, base, s, DOMAIN s)
  BY <1>1, InsertingExists
<1>3. Inserted(base, s) = it[DOMAIN s]
  BY InsertedFolds
<1> HIDE DEF it
<1> QED BY <1>1, <1>2, <1>3

(* No insertion leaves the map alone, and one more insertion is one more    *)
(* binding over what was there.                                             *)
LEMMA InsertedNone ==
  ASSUME NEW base
  PROVE  Inserted(base, <<>>) = base
<1>1. <<>> \in Seq({}) /\ 1 .. Len(<<>>) = {}
  OBVIOUS
<1>2. PICK it : Inserting(it, base, <<>>, {}) /\ Inserted(base, <<>>) = it[{}]
  BY <1>1, InsertedIsLast
<1> QED BY <1>2 DEF Inserting, Insertion

(* One insertion more covers what the earlier ones left.                    *)
LEMMA InsertedMore ==
  ASSUME NEW E, NEW base, NEW s \in Seq(E), NEW x \in E
  PROVE  Inserted(base, Append(s, x)) = Over(One(x.key, x.value), Inserted(base, s))
<1> DEFINE n == Len(s)
           t == Append(s, x)
<1>1. /\ n \in Nat /\ t \in Seq(E) /\ Len(t) = n + 1 /\ t[n + 1] = x
      /\ \A i \in 1 .. n : t[i] = s[i]
  OBVIOUS
<1>2. PICK f : Inserting(f, base, s, 1 .. n) /\ Inserted(base, s) = f[1 .. n]
  BY InsertedIsLast
<1> HIDE DEF t
<1>3. PICK g : Inserting(g, base, t, 1 .. n + 1) /\ Inserted(base, t) = g[1 .. n + 1]
  <2>1. \E it : Inserting(it, base, t, 1 .. Len(t)) /\ Inserted(base, t) = it[1 .. Len(t)]
    BY <1>1, InsertedIsLast
  <2> QED BY <1>1, <2>1
<1> HIDE DEF n
<1> DEFINE S == {k \in Nat : k <= n => f[1 .. k] = g[1 .. k]}
           Step(h, m, k) == h[1 .. k + 1] = Over(One(m[k + 1].key, m[k + 1].value), h[1 .. k])
<1>4. ASSUME NEW k \in Nat PROVE Max(1 .. k + 1) = k + 1 /\ (1 .. k + 1) \ {k + 1} = 1 .. k /\ 1 .. k + 1 # {}
  <2>1. Max(1 .. k + 1) \in 1 .. k + 1 /\ \A i \in 1 .. k + 1 : i <= Max(1 .. k + 1)
    <3>1. k + 1 \in Nat /\ k + 1 \in 1 .. k + 1
      OBVIOUS
    <3> HIDE DEF S
    <3> QED BY <3>1, MaxOf
  <2>2. k + 1 \in 1 .. k + 1
    OBVIOUS
  <2>3. k + 1 <= Max(1 .. k + 1) /\ Max(1 .. k + 1) <= k + 1 /\ Max(1 .. k + 1) \in Nat
    BY <2>1, <2>2
  <2> QED BY <2>3
<1>5. ASSUME NEW k \in Nat, k < n PROVE Step(f, s, k) /\ Step(g, t, k)
  <2>1. 1 .. k + 1 \in SUBSET (1 .. n) /\ 1 .. k + 1 \in SUBSET (1 .. n + 1)
    BY <1>1, <1>5
  <2> DEFINE up == 1 .. k + 1
  <2>2. up \in SUBSET (1 .. n) /\ up \in SUBSET (1 .. n + 1)
    BY <2>1
  <2> HIDE DEF S, up
  <2>3. f[up] = Insertion(f, base, s, up)
    <3>1. Inserting(f, base, s, 1 .. n) /\ up \in SUBSET (1 .. n)
      BY <1>2, <2>2
    <3> QED BY <3>1, InsertingAt
  <2>4. g[up] = Insertion(g, base, t, up)
    <3>1. Inserting(g, base, t, 1 .. n + 1) /\ up \in SUBSET (1 .. n + 1)
      BY <1>3, <2>2
    <3> QED BY <3>1, InsertingAt
  <2> QED BY <1>4, <2>3, <2>4 DEF Insertion, up
<1>6. Step(g, t, n)
  <2>1. g[1 .. n + 1] = Insertion(g, base, t, 1 .. n + 1)
    BY <1>3, InsertingAt
  <2> QED BY <1>1, <1>4, <2>1 DEF Insertion
<1>7. 0 \in S
  <2>1. 1 .. 0 = {} /\ {} \in SUBSET (1 .. n) /\ {} \in SUBSET (1 .. n + 1)
    OBVIOUS
  <2>2. f[{}] = base /\ g[{}] = base
    BY <1>2, <1>3, <2>1 DEF Inserting, Insertion
  <2> QED BY <2>1, <2>2
<1>8. ASSUME NEW k \in Nat, k \in S PROVE k + 1 \in S
  <2>1. ASSUME k + 1 <= n PROVE f[1 .. k + 1] = g[1 .. k + 1]
    <3>1. k < n /\ f[1 .. k] = g[1 .. k] /\ k + 1 \in 1 .. n
      BY <1>1, <1>8, <2>1
    <3>2. t[k + 1] = s[k + 1]
      BY <1>1, <3>1
    <3> QED BY <1>5, <3>1, <3>2
  <2> QED BY <2>1
<1>9. f[1 .. n] = g[1 .. n]
  <2> HIDE DEF S
  <2>1. Nat \subseteq S
    BY <1>7, <1>8, SetInduction
  <2> QED BY <1>1, <2>1 DEF S
<1>10. Inserted(base, t) = Over(One(x.key, x.value), Inserted(base, s))
  BY <1>1, <1>2, <1>3, <1>6, <1>9
<1> QED BY <1>10 DEF t

-----------------------------------------------------------------------------
(* Members: the keys of a line and the last value of each.                  *)
IsLast(members, k, i) ==
    i \in DOMAIN members /\ members[i].key = k /\ \A j \in DOMAIN members : members[j].key = k => j <= i

(* Every key of a line has a last place, and the value there is the one a   *)
(* reader keeps.                                                            *)
LEMMA LastIs ==
  ASSUME NEW E, NEW s \in Seq(E), NEW k
  PROVE  /\ \A i : IsLast(s, k, i) => LastOf(s, k) = s[i].value /\ k \in KeysOf(s)
         /\ k \in KeysOf(s) => \E i : IsLast(s, k, i)
<1> DEFINE S == {i \in DOMAIN s : s[i].key = k}
<1>1. S \subseteq 1 .. Len(s) /\ Len(s) \in Nat /\ DOMAIN s = 1 .. Len(s)
  OBVIOUS
<1>2. S # {} => Max(S) \in S /\ \A i \in S : i <= Max(S)
  <2> HIDE DEF S
  <2> QED BY <1>1, MaxOf
<1>3. ASSUME NEW i, IsLast(s, k, i) PROVE LastOf(s, k) = s[i].value /\ k \in KeysOf(s)
  <2>1. i \in S /\ \A j \in S : j <= i
    BY <1>3 DEF IsLast
  <2>2. Max(S) = i
    <3> HIDE DEF S
    <3>1. Max(S) \in S /\ i \in S /\ i <= Max(S) /\ Max(S) <= i
      BY <1>2, <2>1, Zenon
    <3>2. S \subseteq Nat
      BY <1>1
    <3>3. i \in Nat /\ Max(S) \in Nat
      BY <3>1, <3>2, Zenon
    <3> QED BY <3>1, <3>3
  <2>3. LastOf(s, k) = s[Max(S)].value
    BY DEF LastOf
  <2> QED BY <1>3, <2>2, <2>3 DEF IsLast, KeysOf
<1>4. ASSUME k \in KeysOf(s) PROVE \E i : IsLast(s, k, i)
  <2>1. S # {}
    BY <1>4 DEF KeysOf
  <2>2. IsLast(s, k, Max(S))
    BY <1>2, <2>1 DEF IsLast
  <2> QED BY <2>2
<1> QED BY <1>3, <1>4

(* Of two lines joined, a reader keeps the second one's value of a key the  *)
(* second has.                                                              *)
LEMMA LastOfConcat ==
  ASSUME NEW E, NEW a \in Seq(E), NEW b \in Seq(E)
  PROVE  /\ KeysOf(a \o b) = KeysOf(a) \cup KeysOf(b)
         /\ \A k \in KeysOf(b) : LastOf(a \o b, k) = LastOf(b, k)
         /\ \A k \in KeysOf(a) \ KeysOf(b) : LastOf(a \o b, k) = LastOf(a, k)
<1> DEFINE c == a \o b
           n == Len(a)
           m == Len(b)
<1>1. /\ c \in Seq(E) /\ DOMAIN c = 1 .. n + m /\ DOMAIN a = 1 .. n /\ DOMAIN b = 1 .. m
      /\ n \in Nat /\ m \in Nat
      /\ \A i \in 1 .. n : c[i] = a[i]
      /\ \A i \in n + 1 .. n + m : c[i] = b[i - n]
  BY ConcatElements
<1>2. \A i \in 1 .. m : i + n \in n + 1 .. n + m /\ c[i + n] = b[i]
  <2> TAKE i \in 1 .. m
  <2>1. i + n \in n + 1 .. n + m /\ (i + n) - n = i
    BY <1>1
  <2> QED BY <1>1, <2>1
<1> HIDE DEF c, n, m
<1>3. KeysOf(c) = KeysOf(a) \cup KeysOf(b)
  <2>1. ASSUME NEW k \in KeysOf(c) PROVE k \in KeysOf(a) \cup KeysOf(b)
    <3>1. PICK i \in 1 .. n + m : c[i].key = k
      BY <1>1 DEF KeysOf
    <3>2. CASE i \in 1 .. n
      BY <1>1, <3>1, <3>2 DEF KeysOf
    <3>3. CASE i \in n + 1 .. n + m
      <4>1. i - n \in 1 .. m
        BY <1>1, <3>3
      <4> QED BY <1>1, <3>1, <3>3, <4>1 DEF KeysOf
    <3>4. i \in 1 .. n \/ i \in n + 1 .. n + m
      BY <1>1, <3>1
    <3> QED BY <3>2, <3>3, <3>4
  <2>2. ASSUME NEW k \in KeysOf(a) PROVE k \in KeysOf(c)
    <3>1. PICK i \in 1 .. n : a[i].key = k
      BY <1>1 DEF KeysOf
    <3>2. i \in 1 .. n + m /\ c[i] = a[i]
      BY <1>1
    <3> QED BY <1>1, <3>1, <3>2 DEF KeysOf
  <2>3. ASSUME NEW k \in KeysOf(b) PROVE k \in KeysOf(c)
    <3>1. PICK i \in 1 .. m : b[i].key = k
      BY <1>1 DEF KeysOf
    <3>2. i + n \in 1 .. n + m /\ c[i + n] = b[i]
      BY <1>1, <1>2
    <3> QED BY <1>1, <3>1, <3>2 DEF KeysOf
  <2> QED BY <2>1, <2>2, <2>3
<1>4. ASSUME NEW k \in KeysOf(b) PROVE LastOf(c, k) = LastOf(b, k)
  <2>1. PICK i : IsLast(b, k, i)
    BY LastIs
  <2>2. i \in 1 .. m /\ b[i].key = k /\ i + n \in 1 .. n + m /\ c[i + n] = b[i]
    BY <1>1, <1>2, <2>1 DEF IsLast
  <2>3. ASSUME NEW j \in DOMAIN c, c[j].key = k PROVE j <= i + n
    <3>1. CASE j \in 1 .. n
      BY <1>1, <2>2, <3>1
    <3>2. CASE j \in n + 1 .. n + m
      <4>1. j - n \in 1 .. m
        BY <1>1, <3>2
      <4>2. b[j - n].key = k
        BY <1>1, <2>3, <3>2
      <4>3. j - n <= i
        BY <1>1, <2>1, <4>1, <4>2 DEF IsLast
      <4> QED BY <1>1, <2>2, <3>2, <4>3
    <3> QED BY <1>1, <3>1, <3>2
  <2>4. IsLast(c, k, i + n)
    BY <1>1, <2>2, <2>3 DEF IsLast
  <2>5. LastOf(c, k) = c[i + n].value
    BY <1>1, <2>4, LastIs
  <2>6. LastOf(b, k) = b[i].value
    BY <2>1, LastIs
  <2> QED BY <2>2, <2>5, <2>6
<1>5. ASSUME NEW k \in KeysOf(a) \ KeysOf(b) PROVE LastOf(c, k) = LastOf(a, k)
  <2>1. PICK i : IsLast(a, k, i)
    BY LastIs
  <2>2. i \in 1 .. n /\ a[i].key = k /\ i \in 1 .. n + m /\ c[i] = a[i]
    BY <1>1, <2>1 DEF IsLast
  <2>3. ASSUME NEW j \in DOMAIN c, c[j].key = k PROVE j <= i
    <3>1. CASE j \in 1 .. n
      BY <1>1, <2>1, <2>3, <3>1 DEF IsLast
    <3>2. CASE j \in n + 1 .. n + m
      <4>1. j - n \in 1 .. m
        BY <1>1, <3>2
      <4>2. b[j - n].key = k
        BY <1>1, <2>3, <3>2
      <4> QED BY <1>1, <1>5, <4>1, <4>2 DEF KeysOf
    <3> QED BY <1>1, <3>1, <3>2
  <2>4. IsLast(c, k, i)
    BY <1>1, <2>2, <2>3 DEF IsLast
  <2>5. LastOf(c, k) = c[i].value
    BY <1>1, <2>4, LastIs
  <2>6. LastOf(a, k) = a[i].value
    BY <2>1, LastIs
  <2> QED BY <2>2, <2>5, <2>6
<1> QED BY <1>3, <1>4, <1>5 DEF c

(* The empty line has no key, a line of one member that member's.           *)
LEMMA LastOfOne ==
  ASSUME NEW E, NEW x \in E
  PROVE  /\ KeysOf(<<>>) = {}
         /\ <<x>> \in Seq(E) /\ KeysOf(<<x>>) = {x.key} /\ LastOf(<<x>>, x.key) = x.value
<1> DEFINE s == <<x>>
<1>1. DOMAIN s = {1} /\ s[1] = x /\ s \in Seq(E)
  OBVIOUS
<1> HIDE DEF s
<1>2. IsLast(s, x.key, 1)
  BY <1>1 DEF IsLast
<1>3. LastOf(s, x.key) = s[1].value
  BY <1>1, <1>2, LastIs
<1>4. KeysOf(s) = {x.key}
  BY <1>1 DEF KeysOf
<1>5. KeysOf(<<>>) = {}
  BY DEF KeysOf
<1> QED BY <1>1, <1>3, <1>4, <1>5 DEF s

(* One member more.                                                         *)
LEMMA LastOfAppend ==
  ASSUME NEW E, NEW s \in Seq(E), NEW x \in E
  PROVE  /\ KeysOf(Append(s, x)) = KeysOf(s) \cup {x.key}
         /\ LastOf(Append(s, x), x.key) = x.value
         /\ \A k \in KeysOf(s) \ {x.key} : LastOf(Append(s, x), k) = LastOf(s, k)
<1>1. Append(s, x) = s \o <<x>>
  OBVIOUS
<1>2. <<x>> \in Seq(E) /\ KeysOf(<<x>>) = {x.key} /\ LastOf(<<x>>, x.key) = x.value
  BY LastOfOne
<1>3. /\ KeysOf(s \o <<x>>) = KeysOf(s) \cup KeysOf(<<x>>)
      /\ \A k \in KeysOf(<<x>>) : LastOf(s \o <<x>>, k) = LastOf(<<x>>, k)
      /\ \A k \in KeysOf(s) \ KeysOf(<<x>>) : LastOf(s \o <<x>>, k) = LastOf(s, k)
  <2> DEFINE b == <<x>>
  <2>1. b \in Seq(E)
    BY <1>2
  <2> HIDE DEF b
  <2>2. /\ KeysOf(s \o b) = KeysOf(s) \cup KeysOf(b)
        /\ \A k \in KeysOf(b) : LastOf(s \o b, k) = LastOf(b, k)
        /\ \A k \in KeysOf(s) \ KeysOf(b) : LastOf(s \o b, k) = LastOf(s, k)
    BY <2>1, LastOfConcat
  <2> QED BY <2>2 DEF b
<1> QED BY <1>1, <1>2, <1>3, Zenon

(* Members whose values were changed one by one keep their keys, and the    *)
(* last one of each stays the last.                                         *)
LEMMA LastOfMapped ==
  ASSUME NEW E, NEW F, NEW s \in Seq(E), NEW t \in Seq(F), DOMAIN t = DOMAIN s,
         \A i \in DOMAIN s : t[i].key = s[i].key
  PROVE  /\ KeysOf(t) = KeysOf(s)
         /\ \A k \in KeysOf(s) : \E i \in DOMAIN s :
               /\ LastOf(s, k) = s[i].value /\ LastOf(t, k) = t[i].value
               /\ s[i].key = k
<1>1. KeysOf(t) = KeysOf(s)
  BY DEF KeysOf
<1>2. ASSUME NEW k \in KeysOf(s)
      PROVE  \E i \in DOMAIN s : /\ LastOf(s, k) = s[i].value /\ LastOf(t, k) = t[i].value
                                 /\ s[i].key = k
  <2>1. PICK i : IsLast(s, k, i)
    BY LastIs
  <2>2. IsLast(t, k, i) /\ i \in DOMAIN s /\ s[i].key = k
    BY <2>1 DEF IsLast
  <2>3. LastOf(s, k) = s[i].value
    BY <2>1, LastIs
  <2>4. LastOf(t, k) = t[i].value
    BY <2>2, LastIs
  <2> QED BY <2>2, <2>3, <2>4
<1> QED BY <1>1, <1>2

(* What a map holds after a sequence of insertions.                         *)
LEMMA InsertedIs ==
  ASSUME NEW E, NEW base, NEW s \in Seq(E)
  PROVE  /\ DOMAIN Inserted(base, s) = KeysOf(s) \cup DOMAIN base
         /\ \A k \in KeysOf(s) : Inserted(base, s)[k] = LastOf(s, k)
         /\ \A k \in DOMAIN base \ KeysOf(s) : Inserted(base, s)[k] = base[k]
<1> DEFINE Holds(q) == /\ DOMAIN Inserted(base, q) = KeysOf(q) \cup DOMAIN base
                       /\ \A k \in KeysOf(q) : Inserted(base, q)[k] = LastOf(q, k)
                       /\ \A k \in DOMAIN base \ KeysOf(q) : Inserted(base, q)[k] = base[k]
           S == {q \in Seq(E) : Holds(q)}
<1>1. <<>> \in S
  <2>1. <<>> \in Seq(E) /\ KeysOf(<<>>) = {}
    BY DEF KeysOf
  <2>2. Inserted(base, <<>>) = base
    BY InsertedNone
  <2>3. Holds(<<>>)
    BY <2>1, <2>2
  <2> QED BY <2>1, <2>3
<1>2. ASSUME NEW q \in Seq(E), NEW x \in E, q \in S PROVE Append(q, x) \in S
  <2> DEFINE new == Inserted(base, Append(q, x))
             old == Inserted(base, q)
  <2>1. new = Over(One(x.key, x.value), old)
    <3> HIDE DEF S
    <3> QED BY InsertedMore
  <2>2. /\ KeysOf(Append(q, x)) = KeysOf(q) \cup {x.key}
        /\ LastOf(Append(q, x), x.key) = x.value
        /\ \A k \in KeysOf(q) \ {x.key} : LastOf(Append(q, x), k) = LastOf(q, k)
    BY LastOfAppend
  <2>3. Holds(q)
    BY <1>2
  <2>4. /\ DOMAIN new = {x.key} \cup DOMAIN old
        /\ new[x.key] = x.value
        /\ \A k \in DOMAIN old \ {x.key} : new[k] = old[k]
    BY <2>1 DEF Over, One
  <2> HIDE DEF new
  <2>5. Holds(Append(q, x))
    BY <2>2, <2>3, <2>4 DEF new
  <2>6. Append(q, x) \in Seq(E)
    OBVIOUS
  <2> QED BY <2>5, <2>6
<1> HIDE DEF S
<1>3. Seq(E) \subseteq S
  BY <1>1, <1>2, SequenceInduction
<1> QED BY <1>3 DEF S

-----------------------------------------------------------------------------
(* A finite set in some order: a sequence of its elements, each there once. *)
LEMMA SetInSequence ==
  ASSUME NEW S, IsFiniteSet(S)
  PROVE  /\ SetToSeq(S) \in Seq(S)
         /\ {SetToSeq(S)[i] : i \in DOMAIN SetToSeq(S)} = S
         /\ \A i, j \in DOMAIN SetToSeq(S) : SetToSeq(S)[i] = SetToSeq(S)[j] => i = j
<1> DEFINE n == Cardinality(S)
           f == SetToSeq(S)
<1>1. n \in Nat /\ ExistsBijection(1 .. n, S)
  BY FS_CardinalityType
<1>2. PICK g \in [1 .. n -> S] : /\ \A i, j \in 1 .. n : g[i] = g[j] => i = j
                                 /\ \A x \in S : \E i \in 1 .. n : g[i] = x
  BY <1>1 DEF ExistsBijection, Bijection, Injection, Surjection, IsInjective
<1>3. IsInjective(g)
  BY <1>2 DEF IsInjective
<1>4. f \in [1 .. n -> S] /\ IsInjective(f)
  BY <1>3 DEF SetToSeq
<1> HIDE DEF f
<1>5. f \in Injection(1 .. n, S)
  BY <1>4 DEF Injection, IsInjective
<1>6. f \in Surjection(1 .. n, S)
  <2>1. IsFiniteSet(1 .. n) /\ Cardinality(1 .. n) = n
    <3>1. 1 \in Int /\ n \in Int /\ Cardinality(1 .. n) = (IF 1 > n THEN 0 ELSE n - 1 + 1)
      BY <1>1, FS_Interval
    <3>2. IsFiniteSet(1 .. n)
      BY <1>1, FS_Interval
    <3> HIDE DEF n
    <3> QED BY <1>1, <3>1, <3>2
  <2> HIDE DEF n
  <2> QED BY <1>5, <2>1, FS_Injection DEF n
<1> HIDE DEF n
<1>7. DOMAIN f = 1 .. n /\ f \in Seq(S) /\ {f[i] : i \in DOMAIN f} = S
  <2>1. DOMAIN f = 1 .. n /\ f \in Seq(S)
    BY <1>1, <1>4
  <2>2. \A y \in S : \E i \in 1 .. n : f[i] = y
    BY <1>6 DEF Surjection
  <2> QED BY <1>4, <2>1, <2>2
<1> QED BY <1>4, <1>7 DEF f, IsInjective

-----------------------------------------------------------------------------
IsLine(members) == \E E : members \in Seq(E)

(* Lines joined.                                                            *)
LEMMA LinesJoined ==
  ASSUME NEW a, NEW b, IsLine(a), IsLine(b)
  PROVE  /\ IsLine(a \o b)
         /\ KeysOf(a \o b) = KeysOf(a) \cup KeysOf(b)
         /\ \A k \in KeysOf(b) : LastOf(a \o b, k) = LastOf(b, k)
         /\ \A k \in KeysOf(a) \ KeysOf(b) : LastOf(a \o b, k) = LastOf(a, k)
         /\ DOMAIN (a \o b) = 1 .. Len(a) + Len(b)
         /\ \A i \in DOMAIN a : (a \o b)[i] = a[i]
         /\ \A i \in DOMAIN b : i + Len(a) \in DOMAIN (a \o b) /\ (a \o b)[i + Len(a)] = b[i]
         /\ \A i \in DOMAIN (a \o b) :
               i \in DOMAIN a \/ (i - Len(a) \in DOMAIN b /\ (a \o b)[i] = b[i - Len(a)])
<1>1. PICK A : a \in Seq(A)
  BY DEF IsLine
<1>2. PICK B : b \in Seq(B)
  BY DEF IsLine
<1> DEFINE E == A \cup B
<1>3. a \in Seq(E) /\ b \in Seq(E)
  BY <1>1, <1>2
<1> HIDE DEF E
<1>4. /\ KeysOf(a \o b) = KeysOf(a) \cup KeysOf(b)
      /\ \A k \in KeysOf(b) : LastOf(a \o b, k) = LastOf(b, k)
      /\ \A k \in KeysOf(a) \ KeysOf(b) : LastOf(a \o b, k) = LastOf(a, k)
  BY <1>3, LastOfConcat
<1>5. /\ a \o b \in Seq(E)
      /\ DOMAIN (a \o b) = 1 .. Len(a) + Len(b)
      /\ \A k \in 1 .. Len(a) : (a \o b)[k] = a[k]
      /\ \A k \in Len(a) + 1 .. Len(a) + Len(b) : (a \o b)[k] = b[k - Len(a)]
      /\ DOMAIN a = 1 .. Len(a) /\ DOMAIN b = 1 .. Len(b) /\ Len(a) \in Nat /\ Len(b) \in Nat
  BY <1>3, ConcatElements
<1> DEFINE c == a \o b
           n == Len(a)
           m == Len(b)
<1>6. IsLine(c)
  BY <1>5 DEF IsLine
<1> HIDE DEF c, n, m
<1>7. /\ DOMAIN c = 1 .. n + m /\ DOMAIN a = 1 .. n /\ DOMAIN b = 1 .. m /\ n \in Nat /\ m \in Nat
      /\ \A k \in 1 .. n : c[k] = a[k]
      /\ \A k \in n + 1 .. n + m : c[k] = b[k - n]
  BY <1>5 DEF c, n, m
<1>8. \A i \in DOMAIN b : i + n \in DOMAIN c /\ c[i + n] = b[i]
  <2> TAKE i \in DOMAIN b
  <2>1. i + n \in n + 1 .. n + m /\ (i + n) - n = i /\ i + n \in 1 .. n + m
    BY <1>7
  <2> QED BY <1>7, <2>1
<1>9. \A i \in DOMAIN c : i \in DOMAIN a \/ (i - n \in DOMAIN b /\ c[i] = b[i - n])
  <2> TAKE i \in DOMAIN c
  <2>1. i \in 1 .. n \/ i \in n + 1 .. n + m
    BY <1>7
  <2>2. i \in n + 1 .. n + m => i - n \in 1 .. m
    BY <1>7
  <2> QED BY <1>7, <2>1, <2>2
<1> QED BY <1>4, <1>6, <1>7, <1>8, <1>9 DEF c, n, m

(* The empty line.                                                          *)
LEMMA EmptyLine == IsLine(<<>>) /\ KeysOf(<<>>) = {} /\ DOMAIN <<>> = {} /\ Len(<<>>) = 0
<1>1. <<>> \in Seq({}) /\ DOMAIN <<>> = {} /\ Len(<<>>) = 0
  OBVIOUS
<1> QED BY <1>1 DEF IsLine, KeysOf

(* A line of one member.                                                    *)
LEMMA OneMember ==
  ASSUME NEW key, NEW value
  PROVE  /\ IsLine(<<Member(key, value)>>) /\ KeysOf(<<Member(key, value)>>) = {key}
         /\ LastOf(<<Member(key, value)>>, key) = value
         /\ DOMAIN <<Member(key, value)>> = {1} /\ Len(<<Member(key, value)>>) = 1
         /\ <<Member(key, value)>>[1] = Member(key, value)
<1> DEFINE x == Member(key, value)
<1>1. x.key = key /\ x.value = value
  BY DEF Member
<1> HIDE DEF x
<1>2. DOMAIN <<x>> = {1} /\ Len(<<x>>) = 1 /\ <<x>>[1] = x /\ <<x>> \in Seq({x}) /\ x \in {x}
  OBVIOUS
<1>3. KeysOf(<<x>>) = {x.key} /\ LastOf(<<x>>, x.key) = x.value
  BY <1>2, LastOfOne
<1> QED BY <1>1, <1>2, <1>3 DEF IsLine, x

(* Every key of a line has a last member.                                   *)
LEMMA LastMember ==
  ASSUME NEW s, IsLine(s), NEW k \in KeysOf(s)
  PROVE  \E i \in DOMAIN s : s[i].key = k /\ LastOf(s, k) = s[i].value
<1>1. PICK E : s \in Seq(E)
  BY DEF IsLine
<1>2. PICK i : IsLast(s, k, i)
  BY <1>1, LastIs
<1>3. LastOf(s, k) = s[i].value
  BY <1>1, <1>2, LastIs
<1> QED BY <1>2, <1>3 DEF IsLast

(* The members of a map: its keys, each with its value.                     *)
LEMMA MembersOf ==
  ASSUME NEW map, IsFiniteSet(DOMAIN map)
  PROVE  /\ IsLine(Members(map))
         /\ KeysOf(Members(map)) = DOMAIN map
         /\ \A k \in DOMAIN map : LastOf(Members(map), k) = map[k]
         /\ \A i \in DOMAIN Members(map) : \E k \in DOMAIN map : Members(map)[i] = Member(k, map[k])
<1> DEFINE keys == SetToSeq(DOMAIN map)
           s == Members(map)
           E == {Member(k, map[k]) : k \in DOMAIN map}
<1>1. /\ keys \in Seq(DOMAIN map)
      /\ {keys[i] : i \in DOMAIN keys} = DOMAIN map
  BY SetInSequence
<1>2. s = [i \in DOMAIN keys |-> Member(keys[i], map[keys[i]])]
  BY DEF Members
<1> HIDE DEF keys, s, E
<1>3. \A k : Member(k, map[k]).key = k /\ Member(k, map[k]).value = map[k]
  BY DEF Member
<1>4. DOMAIN s = DOMAIN keys /\ \A i \in DOMAIN keys : s[i] = Member(keys[i], map[keys[i]]) /\ keys[i] \in DOMAIN map
  BY <1>1, <1>2
<1>5. s \in Seq(E)
  <2>1. DOMAIN s = 1 .. Len(keys) /\ Len(keys) \in Nat
    BY <1>1, <1>4
  <2>2. \A i \in DOMAIN s : s[i] \in E
    BY <1>4 DEF E
  <2> QED BY <1>2, <1>4, <2>1, <2>2
<1>6. KeysOf(s) = DOMAIN map
  <2>1. \A k \in DOMAIN map : \E i \in DOMAIN keys : keys[i] = k
    BY <1>1
  <2>2. \A i \in DOMAIN s : s[i].key = keys[i]
    BY <1>3, <1>4
  <2>3. KeysOf(s) = {s[i].key : i \in DOMAIN s}
    BY DEF KeysOf
  <2>4. \A k \in KeysOf(s) : k \in DOMAIN map
    BY <1>4, <2>2, <2>3
  <2>5. ASSUME NEW k \in DOMAIN map PROVE k \in KeysOf(s)
    <3>1. PICK i \in DOMAIN keys : keys[i] = k
      BY <2>1
    <3> QED BY <1>4, <2>2, <2>3, <3>1
  <2> QED BY <2>4, <2>5
<1>7. IsLine(s)
  BY <1>5 DEF IsLine
<1>8. ASSUME NEW k \in DOMAIN map PROVE LastOf(s, k) = map[k]
  <2>1. PICK i \in DOMAIN s : s[i].key = k /\ LastOf(s, k) = s[i].value
    BY <1>6, <1>7, LastMember
  <2>2. s[i] = Member(keys[i], map[keys[i]])
    BY <1>4
  <2> QED BY <1>3, <2>1, <2>2
<1> QED BY <1>4, <1>6, <1>7, <1>8 DEF s

(* An optional field.                                                       *)
LEMMA OptionalIs ==
  ASSUME NEW map, NEW key, NEW name
  PROVE  /\ IsLine(Optional(map, key, name))
         /\ KeysOf(Optional(map, key, name)) = IF key \in DOMAIN map THEN {name} ELSE {}
         /\ \A i \in DOMAIN Optional(map, key, name) :
               key \in DOMAIN map /\ Optional(map, key, name)[i] = Member(name, map[key])
<1>1. CASE key \in DOMAIN map
  <2>1. Optional(map, key, name) = <<Member(name, map[key])>>
    BY <1>1 DEF Optional
  <2>2. /\ IsLine(<<Member(name, map[key])>>) /\ KeysOf(<<Member(name, map[key])>>) = {name}
        /\ DOMAIN <<Member(name, map[key])>> = {1}
        /\ <<Member(name, map[key])>>[1] = Member(name, map[key])
    BY OneMember
  <2> QED BY <1>1, <2>1, <2>2
<1>2. CASE key \notin DOMAIN map
  <2>1. Optional(map, key, name) = <<>>
    BY <1>2 DEF Optional
  <2> QED BY <1>2, <2>1, EmptyLine
<1> QED BY <1>1, <1>2

-----------------------------------------------------------------------------
(* The decimal digits of a number.                                          *)
DigitsOf(d, m) == IF m < 10 THEN <<48 + m>> ELSE d[m \div 10] \o <<48 + (m % 10)>>
IsDigits(d, n) == d = [m \in 0 .. n |-> DigitsOf(d, m)]

(* Dividing by ten ends, and leaves one digit.                              *)
LEMMA TenthBelow ==
  ASSUME NEW m \in Nat, m >= 10
  PROVE  m \div 10 \in Nat /\ m \div 10 < m /\ m % 10 \in 0 .. 9
OBVIOUS

(* A number is written in bytes.                                            *)
LEMMA DigitsType ==
  ASSUME NEW n \in Nat
  PROVE  Digits(n) \in Seq(Byte)
<1> DEFINE S == {k \in Nat : \E d : IsDigits(d, k)}
<1>1. 0 \in S
  <2>1. 0 .. 0 = {0}
    OBVIOUS
  <2>2. IsDigits([m \in {0} |-> <<48 + m>>], 0)
    BY <2>1 DEF IsDigits, DigitsOf
  <2> QED BY <2>2
<1>2. ASSUME NEW k \in Nat, k \in S PROVE k + 1 \in S
  <2>1. PICK d : IsDigits(d, k)
    BY <1>2
  <2> DEFINE e == [m \in 0 .. k + 1 |-> IF m <= k THEN d[m] ELSE DigitsOf(d, m)]
  <2>2. \A m \in 0 .. k : e[m] = d[m] /\ d[m] = DigitsOf(d, m)
    <3>1. \A m \in 0 .. k : e[m] = d[m]
      OBVIOUS
    <3>2. \A m \in 0 .. k : d[m] = DigitsOf(d, m)
      BY <2>1 DEF IsDigits
    <3> QED BY <3>1, <3>2
  <2>3. \A m \in 0 .. k + 1 : m >= 10 => m \div 10 \in 0 .. k
    BY TenthBelow
  <2>4. \A m \in 0 .. k + 1 : e[m] = DigitsOf(d, m)
    <3> TAKE m \in 0 .. k + 1
    <3>1. CASE m <= k
      <4>1. m \in 0 .. k
        BY <3>1
      <4> HIDE DEF e
      <4> QED BY <2>2, <4>1
    <3>2. CASE ~(m <= k)
      BY <3>2
    <3> QED BY <3>1, <3>2
  <2>5. \A m \in 0 .. k + 1 : DigitsOf(e, m) = DigitsOf(d, m)
    <3> TAKE m \in 0 .. k + 1
    <3>1. CASE m < 10
      BY <3>1 DEF DigitsOf
    <3>2. CASE m >= 10
      <4>1. e[m \div 10] = d[m \div 10] /\ ~(m < 10)
        BY <2>2, <2>3, <3>2
      <4> HIDE DEF e
      <4> QED BY <4>1 DEF DigitsOf
    <3> QED BY <3>1, <3>2
  <2>6. e = [m \in 0 .. k + 1 |-> DigitsOf(e, m)]
    <3>1. e = [m \in 0 .. k + 1 |-> e[m]]
      OBVIOUS
    <3> HIDE DEF e
    <3> QED BY <2>4, <2>5, <3>1
  <2> HIDE DEF e
  <2>7. IsDigits(e, k + 1)
    BY <2>6 DEF IsDigits
  <2> QED BY <2>7
<1> HIDE DEF S
<1>3. n \in S
  BY <1>1, <1>2, SetInduction
<1> DEFINE d == CHOOSE d : IsDigits(d, n)
<1>4. Digits(n) = d[n]
  BY DEF Digits, IsDigits, DigitsOf
<1>5. \A m \in 0 .. n : d[m] = DigitsOf(d, m)
  <2>1. IsDigits(d, n)
    BY <1>3 DEF S
  <2> HIDE DEF d
  <2> QED BY <2>1 DEF IsDigits
<1> HIDE DEF d
<1> DEFINE T == {k \in Nat : \A j \in 0 .. k : j <= n => d[j] \in Seq(Byte)}
<1>6. ASSUME NEW m \in 0 .. n, m < 10 PROVE d[m] \in Seq(Byte)
  <2>1. d[m] = <<48 + m>>
    BY <1>5, <1>6 DEF DigitsOf
  <2>2. 48 + m \in Byte
    BY <1>6 DEF Byte
  <2> HIDE DEF T
  <2> QED BY <2>1, <2>2
<1>7. 0 \in T
  BY <1>6
<1>8. ASSUME NEW k \in Nat, k \in T PROVE k + 1 \in T
  <2>1. ASSUME NEW j \in 0 .. k + 1, j <= n PROVE d[j] \in Seq(Byte)
    <3>1. CASE j < 10
      BY <1>6, <2>1, <3>1
    <3>2. CASE j >= 10
      <4>1. j \in Nat /\ j \div 10 \in 0 .. k /\ j \div 10 <= n /\ j % 10 \in 0 .. 9
        BY <2>1, <3>2, TenthBelow
      <4>2. d[j \div 10] \in Seq(Byte)
        BY <1>8, <4>1
      <4>3. d[j] = d[j \div 10] \o <<48 + (j % 10)>>
        <5>1. j \in 0 .. n /\ ~(j < 10)
          BY <2>1, <3>2
        <5>2. d[j] = DigitsOf(d, j)
          BY <1>5, <5>1
        <5> QED BY <5>1, <5>2, Zenon DEF DigitsOf
      <4>4. 48 + (j % 10) \in Byte
        BY <4>1 DEF Byte
      <4> DEFINE a == d[j \div 10]
                 c == 48 + (j % 10)
      <4>5. a \in Seq(Byte) /\ c \in Byte /\ d[j] = a \o <<c>>
        BY <4>2, <4>3, <4>4
      <4> HIDE DEF a, c, T
      <4> QED BY <4>5
    <3> QED BY <2>1, <3>1, <3>2
  <2> QED BY <2>1
<1>9. n \in T
  <2> HIDE DEF T
  <2> QED BY <1>7, <1>8, SetInduction
<1> QED BY <1>4, <1>9

-----------------------------------------------------------------------------
(* Reading: what stands from a place on, told from what stands from later   *)
(* places on.                                                               *)
ReadFrom(f, bytes, i) ==
    LET end == Len(bytes) + 1
    IN IF i >= end THEN IF i = end THEN <<>> ELSE <<Broken>>
       ELSE IF bytes[i] # 92
            THEN <<IF JSON_ESCAPE_TABLE(bytes[i]) THEN Broken ELSE bytes[i]>> \o f[i + 1]
       ELSE IF i + 1 < end /\ bytes[i + 1] \in DOMAIN SingleEscape
            THEN <<SingleEscape[bytes[i + 1]]>> \o f[i + 2]
       ELSE IF i + 5 < end /\ SubSeq(bytes, i + 1, i + 3) = <<117, 48, 48>>
            THEN <<16 * HexValue(bytes[i + 4]) + HexValue(bytes[i + 5])>> \o f[i + 6]
       ELSE <<Broken>>
Reading(f, bytes) == f = [i \in 1 .. Len(bytes) + 1 + 6 |-> ReadFrom(f, bytes, i)]
Reader(bytes) == CHOOSE f : Reading(f, bytes)

(* What a line reads as is what its recursive reader computes.              *)
LEMMA ReadIsReader ==
  ASSUME NEW bytes
  PROVE  ReadString(bytes) = Reader(bytes)[1]
BY DEF ReadString, Reader, Reading, ReadFrom

(* One character in front of text.                                          *)
LEMMA Prefixed ==
  ASSUME NEW x \in Nat, NEW s \in Seq(Nat)
  PROVE  <<x>> \o s \in Seq(Nat)
OBVIOUS

(* The two-character escapes, and the byte each stands for.                 *)
LEMMA EscapeValues ==
  /\ DOMAIN SingleEscape = {34, 92, 110, 114, 116}
  /\ \A b \in DOMAIN SingleEscape : SingleEscape[b] \in Nat
  /\ SingleEscape[34] = 34 /\ SingleEscape[92] = 92 /\ SingleEscape[110] = 10
  /\ SingleEscape[114] = 13 /\ SingleEscape[116] = 9
BY DEF SingleEscape

(* A digit of an escape reads as a number, whatever the byte.               *)
LEMMA HexValues == \A b \in Byte : HexValue(b) \in Nat
BY DEF HexValue, Byte, Broken

(* What stands from a place on is a text, and told from later places alone. *)
LEMMA ReadFromType ==
  ASSUME NEW bytes \in Seq(Byte), NEW i \in Nat, i >= 1, NEW f,
         i <= Len(bytes) => \A j \in {i + 1, i + 2, i + 6} : f[j] \in Seq(Nat)
  PROVE  /\ ReadFrom(f, bytes, i) \in Seq(Nat)
         /\ \A g : (i <= Len(bytes) => \A j \in {i + 1, i + 2, i + 6} : g[j] = f[j])
                     => ReadFrom(g, bytes, i) = ReadFrom(f, bytes, i)
<1> DEFINE end == Len(bytes) + 1
<1>1. end \in Nat /\ \A k \in 1 .. Len(bytes) : bytes[k] \in Byte
  OBVIOUS
<1>2. CASE i >= end
  <2>1. ~(i <= Len(bytes))
    BY <1>2
  <2>2. <<>> \in Seq(Nat) /\ <<Broken>> \in Seq(Nat)
    BY DEF Broken
  <2>3. \A g : ReadFrom(g, bytes, i) = IF i = end THEN <<>> ELSE <<Broken>>
    BY <1>2 DEF ReadFrom
  <2> QED BY <2>2, <2>3
<1>3. CASE ~(i >= end)
  <2>1. i <= Len(bytes) /\ i \in 1 .. Len(bytes) /\ bytes[i] \in Byte
    BY <1>1, <1>3
  <2>2. f[i + 1] \in Seq(Nat) /\ f[i + 2] \in Seq(Nat) /\ f[i + 6] \in Seq(Nat)
    BY <2>1
  <2>3. ASSUME NEW g, \A j \in {i + 1, i + 2, i + 6} : g[j] = f[j]
        PROVE  ReadFrom(g, bytes, i) = ReadFrom(f, bytes, i)
    <3>1. g[i + 1] = f[i + 1] /\ g[i + 2] = f[i + 2] /\ g[i + 6] = f[i + 6]
      BY <2>3
    <3> QED BY <3>1, Zenon DEF ReadFrom
  <2>4. ReadFrom(f, bytes, i) \in Seq(Nat)
    <3>1. CASE bytes[i] # 92
      <4> DEFINE x == IF JSON_ESCAPE_TABLE(bytes[i]) THEN Broken ELSE bytes[i]
      <4>1. x \in Nat
        <5>1. Broken \in Nat /\ bytes[i] \in Nat
          <6>1. \A b \in Byte : b \in Nat
            BY DEF Byte
          <6>2. Broken \in Nat
            BY DEF Broken
          <6> QED BY <2>1, <6>1, <6>2, Zenon
        <5> QED BY <5>1
      <4>2. ReadFrom(f, bytes, i) = <<x>> \o f[i + 1]
        BY <1>3, <3>1 DEF ReadFrom
      <4> HIDE DEF x
      <4> QED BY <2>2, <4>1, <4>2, Prefixed
    <3>2. CASE bytes[i] = 92 /\ i + 1 < end /\ bytes[i + 1] \in DOMAIN SingleEscape
      <4> DEFINE x == SingleEscape[bytes[i + 1]]
      <4>1. x \in Nat
        BY <3>2, EscapeValues
      <4>2. ReadFrom(f, bytes, i) = <<x>> \o f[i + 2]
        BY <1>3, <3>2 DEF ReadFrom
      <4> HIDE DEF x
      <4> QED BY <2>2, <4>1, <4>2, Prefixed
    <3>3. CASE /\ bytes[i] = 92 /\ ~(i + 1 < end /\ bytes[i + 1] \in DOMAIN SingleEscape)
               /\ i + 5 < end /\ SubSeq(bytes, i + 1, i + 3) = <<117, 48, 48>>
      <4> DEFINE x == 16 * HexValue(bytes[i + 4]) + HexValue(bytes[i + 5])
      <4>1. i + 4 \in 1 .. Len(bytes) /\ i + 5 \in 1 .. Len(bytes)
        BY <1>1, <3>3
      <4>2. HexValue(bytes[i + 4]) \in Nat /\ HexValue(bytes[i + 5]) \in Nat
        BY <1>1, <4>1, HexValues
      <4>3. x \in Nat
        BY <4>2
      <4>4. ReadFrom(f, bytes, i) = <<x>> \o f[i + 6]
        BY <1>3, <3>3 DEF ReadFrom
      <4> HIDE DEF x
      <4> QED BY <2>2, <4>3, <4>4, Prefixed
    <3>4. CASE /\ bytes[i] = 92 /\ ~(i + 1 < end /\ bytes[i + 1] \in DOMAIN SingleEscape)
               /\ ~(i + 5 < end /\ SubSeq(bytes, i + 1, i + 3) = <<117, 48, 48>>)
      <4>1. ReadFrom(f, bytes, i) = <<Broken>>
        BY <1>3, <3>4 DEF ReadFrom
      <4> QED BY <4>1 DEF Broken
    <3> QED BY <3>1, <3>2, <3>3, <3>4
  <2> QED BY <2>1, <2>3, <2>4
<1> QED BY <1>2, <1>3

(* There is a reader for every text.                                        *)
LEMMA ReaderReads ==
  ASSUME NEW bytes \in Seq(Byte)
  PROVE  /\ Reader(bytes) \in [1 .. Len(bytes) + 7 -> Seq(Nat)]
         /\ \A i \in 1 .. Len(bytes) + 7 : Reader(bytes)[i] = ReadFrom(Reader(bytes), bytes, i)
<1> DEFINE N == Len(bytes) + 7
           Part(f, lo) == /\ f \in [lo .. N -> Seq(Nat)]
                          /\ \A i \in lo .. N : f[i] = ReadFrom(f, bytes, i)
           S == {k \in Nat : k < N => \E f : Part(f, N - k)}
<1>1. N \in Nat /\ N >= 7 /\ Len(bytes) = N - 7 /\ Len(bytes) + 1 + 6 = N
  OBVIOUS
<1> HIDE DEF N
<1>2. 0 \in S
  <2>1. N - 0 = N /\ N .. N = {N} /\ ~(N <= Len(bytes))
    BY <1>1
  <2> DEFINE f == [i \in {N} |-> <<Broken>>]
  <2>2. ReadFrom(f, bytes, N) = <<Broken>>
    BY <1>1 DEF ReadFrom
  <2>3. <<Broken>> \in Seq(Nat)
    BY DEF Broken
  <2>4. Part(f, N)
    BY <2>1, <2>2, <2>3
  <2> QED BY <2>1, <2>4
<1>3. ASSUME NEW k \in Nat, k \in S PROVE k + 1 \in S
  <2> SUFFICES ASSUME k + 1 < N PROVE \E f : Part(f, N - (k + 1))
    OBVIOUS
  <2> DEFINE lo == N - k
             new == N - (k + 1)
  <2>1. lo \in Nat /\ new \in Nat /\ new >= 1 /\ lo = new + 1 /\ lo <= N
    BY <1>1
  <2>2. PICK f : Part(f, lo)
    <3>1. k < N
      BY <1>1
    <3> QED BY <1>3, <3>1
  <2> HIDE DEF S, lo, new
  <2> DEFINE x == ReadFrom(f, bytes, new)
             g == [i \in new .. N |-> IF i = new THEN x ELSE f[i]]
  <2>3. ASSUME NEW i \in new .. N, i <= Len(bytes), NEW j \in {i + 1, i + 2, i + 6}
        PROVE  j \in lo .. N /\ g[j] = f[j] /\ f[j] \in Seq(Nat)
    <3>1. j \in lo .. N /\ j \in new .. N /\ j # new
      BY <1>1, <2>1, <2>3
    <3> QED BY <2>2, <3>1
  <2>4. ASSUME NEW i \in new .. N
        PROVE  ReadFrom(f, bytes, i) \in Seq(Nat) /\ ReadFrom(g, bytes, i) = ReadFrom(f, bytes, i)
    <3>1. i \in Nat /\ i >= 1
      BY <2>1
    <3>2. i <= Len(bytes) => \A j \in {i + 1, i + 2, i + 6} : f[j] \in Seq(Nat) /\ g[j] = f[j]
      BY <2>3
    <3> HIDE DEF g
    <3> QED BY <3>1, <3>2, ReadFromType
  <2>5. \A i \in new .. N : g[i] = ReadFrom(f, bytes, i)
    <3> TAKE i \in new .. N
    <3>1. i = new \/ i \in lo .. N
      BY <1>1, <2>1
    <3>2. g[new] = x /\ (i # new => g[i] = f[i])
      BY <1>1, <2>1
    <3> QED BY <2>2, <3>1, <3>2
  <2>6. Part(g, new)
    <3>1. g \in [new .. N -> Seq(Nat)]
      <4>1. DOMAIN g = new .. N /\ g = [i \in new .. N |-> g[i]]
        OBVIOUS
      <4> HIDE DEF g
      <4> QED BY <2>4, <2>5, <4>1
    <3> HIDE DEF g
    <3> QED BY <2>4, <2>5, <3>1
  <2> QED BY <2>6 DEF new
<1>4. \E f : Part(f, 1)
  <2>1. N - 1 \in Nat /\ N - 1 < N /\ N - (N - 1) = 1
    BY <1>1
  <2>2. N - 1 \in S
    <3> HIDE DEF S
    <3> QED BY <1>2, <1>3, <2>1, SetInduction
  <2> QED BY <2>1, <2>2
<1>5. PICK f : Part(f, 1)
  BY <1>4
<1>6. Reading(f, bytes)
  <2>1. f = [i \in 1 .. N |-> f[i]]
    BY <1>5
  <2>2. f = [i \in 1 .. N |-> ReadFrom(f, bytes, i)]
    BY <1>5, <2>1
  <2> QED BY <1>1, <2>2 DEF Reading
<1>7. Reading(Reader(bytes), bytes)
  BY <1>6 DEF Reader
<1>8. \A i \in 1 .. N : Reader(bytes)[i] = ReadFrom(Reader(bytes), bytes, i)
  BY <1>1, <1>7 DEF Reading
<1>9. DOMAIN Reader(bytes) = 1 .. N /\ Reader(bytes) = [i \in 1 .. N |-> Reader(bytes)[i]]
  BY <1>1, <1>7 DEF Reading
<1> DEFINE F == Reader(bytes)
           T == {k \in Nat : k < N => \A i \in N - k .. N : F[i] \in Seq(Nat)}
<1>10. ASSUME NEW i \in 1 .. N, i <= Len(bytes) => \A j \in {i + 1, i + 2, i + 6} : F[j] \in Seq(Nat)
       PROVE  F[i] \in Seq(Nat)
  <2>1. i \in Nat /\ i >= 1 /\ F[i] = ReadFrom(F, bytes, i)
    BY <1>8
  <2> HIDE DEF F, T
  <2> QED BY <1>10, <2>1, ReadFromType
<1>11. 0 \in T
  <2>1. N \in 1 .. N /\ ~(N <= Len(bytes)) /\ N - 0 = N /\ N .. N = {N}
    BY <1>1
  <2>2. F[N] \in Seq(Nat)
    BY <1>10, <2>1
  <2> HIDE DEF F
  <2> QED BY <2>1, <2>2
<1>12. ASSUME NEW k \in Nat, k \in T PROVE k + 1 \in T
  <2> SUFFICES ASSUME k + 1 < N, NEW i \in N - (k + 1) .. N PROVE F[i] \in Seq(Nat)
    OBVIOUS
  <2>1. \A j \in N - k .. N : F[j] \in Seq(Nat)
    BY <1>12, <1>1
  <2>2. i \in 1 .. N
    BY <1>1
  <2>3. ASSUME i <= Len(bytes), NEW j \in {i + 1, i + 2, i + 6} PROVE F[j] \in Seq(Nat)
    <3>1. j \in N - k .. N
      BY <1>1, <2>3
    <3> QED BY <2>1, <3>1
  <2> HIDE DEF F, T
  <2> QED BY <1>10, <2>2, <2>3
<1>13. \A i \in 1 .. N : F[i] \in Seq(Nat)
  <2>1. N - 1 \in Nat /\ N - 1 < N /\ N - (N - 1) = 1
    BY <1>1
  <2> HIDE DEF F
  <2>2. N - 1 \in T
    <3> HIDE DEF T
    <3> QED BY <1>11, <1>12, <2>1, SetInduction
  <2> QED BY <2>1, <2>2
<1> HIDE DEF T
<1>14. F \in [1 .. N -> Seq(Nat)]
  <2>1. DOMAIN F = 1 .. N /\ F = [i \in 1 .. N |-> F[i]]
    BY <1>9
  <2> HIDE DEF F
  <2> QED BY <1>13, <2>1
<1> QED BY <1>8, <1>14 DEF N

-----------------------------------------------------------------------------
At(e, bytes, i) == i + Len(e) <= Len(bytes) + 1 /\ \A k \in 1 .. Len(e) : bytes[(i - 1) + k] = e[k]

(* Text e reads as v: wherever it stands in a line, the reader gets v and   *)
(* goes on behind it.                                                       *)
Readable(e, v) ==
    \A bytes \in Seq(Byte), i \in Nat \ {0} :
        At(e, bytes, i) => Reader(bytes)[i] = v \o Reader(bytes)[i + Len(e)]

(* Nothing reads as nothing.                                                *)
LEMMA ReadableEmpty == Readable(<<>>, <<>>)
<1> SUFFICES ASSUME NEW bytes \in Seq(Byte), NEW i \in Nat \ {0}, i + 0 <= Len(bytes) + 1
             PROVE  Reader(bytes)[i] = <<>> \o Reader(bytes)[i + 0]
  BY DEF Readable, At
<1>1. i \in 1 .. Len(bytes) + 7 /\ i + 0 = i
  OBVIOUS
<1>2. Reader(bytes)[i] \in Seq(Nat)
  BY <1>1, ReaderReads
<1> DEFINE s == Reader(bytes)[i]
<1>3. s \in Seq(Nat) /\ <<>> \o s = s
  <2>1. s \in Seq(Nat)
    BY <1>2
  <2> HIDE DEF s
  <2> QED BY <2>1
<1> QED BY <1>1, <1>3

(* Two sequences of one, joined, are the pair.                              *)
LEMMA JoinOnes ==
  ASSUME NEW E, NEW x \in E, NEW y \in E
  PROVE  <<x>> \o <<y>> = <<x, y>>
<1> DEFINE c == <<x>> \o <<y>>
<1>1. c \in Seq(E) /\ Len(c) = 2 /\ c[1] = x /\ c[2] = y
  OBVIOUS
<1> HIDE DEF c
<1>2. c = <<x, y>>
  BY <1>1
<1> QED BY <1>2 DEF c

(* Joining texts is associative.                                            *)
LEMMA JoinAssociates ==
  ASSUME NEW a \in Seq(Nat), NEW b \in Seq(Nat), NEW c \in Seq(Nat)
  PROVE  a \o (b \o c) = (a \o b) \o c
BY SMTT(30)

(* Two texts read one after the other.                                      *)
LEMMA ReadableConcat ==
  ASSUME NEW e \in Seq(Byte), NEW v \in Seq(Nat), Readable(e, v),
         NEW d \in Seq(Byte), NEW w \in Seq(Nat), Readable(d, w)
  PROVE  Readable(e \o d, v \o w)
<1>0. ASSUME NEW s \in Seq(Nat) PROVE v \o (w \o s) = (v \o w) \o s
  BY JoinAssociates, Zenon
<1> DEFINE c == e \o d
<1>1. /\ c \in Seq(Byte) /\ Len(c) = Len(e) + Len(d) /\ Len(e) \in Nat /\ Len(d) \in Nat
      /\ \A k \in 1 .. Len(e) : c[k] = e[k]
      /\ \A k \in Len(e) + 1 .. Len(e) + Len(d) : c[k] = d[k - Len(e)]
  OBVIOUS
<1> HIDE DEF c
<1> SUFFICES ASSUME NEW bytes \in Seq(Byte), NEW i \in Nat \ {0}, At(c, bytes, i)
             PROVE  Reader(bytes)[i] = (v \o w) \o Reader(bytes)[i + Len(c)]
  BY DEF Readable, c
<1>2. /\ i + Len(c) <= Len(bytes) + 1
      /\ \A k \in 1 .. Len(c) : bytes[(i - 1) + k] = c[k]
  BY DEF At
<1>3. At(e, bytes, i)
  <2>1. i + Len(e) <= Len(bytes) + 1
    BY <1>1, <1>2
  <2>2. \A k \in 1 .. Len(e) : k \in 1 .. Len(c)
    BY <1>1
  <2> QED BY <1>1, <1>2, <2>1, <2>2 DEF At
<1> DEFINE j == i + Len(e)
<1>4. j \in Nat \ {0} /\ j + Len(d) = i + Len(c)
  BY <1>1
<1>5. At(d, bytes, j)
  <2>1. j + Len(d) <= Len(bytes) + 1
    BY <1>2, <1>4
  <2>2. ASSUME NEW k \in 1 .. Len(d) PROVE bytes[(j - 1) + k] = d[k]
    <3>1. /\ Len(e) + k \in Len(e) + 1 .. Len(e) + Len(d) /\ Len(e) + k \in 1 .. Len(c)
          /\ (Len(e) + k) - Len(e) = k /\ (i - 1) + (Len(e) + k) = (j - 1) + k
      BY <1>1
    <3>2. bytes[(i - 1) + (Len(e) + k)] = c[Len(e) + k]
      BY <1>2, <3>1
    <3>3. c[Len(e) + k] = d[(Len(e) + k) - Len(e)]
      BY <1>1, <3>1
    <3> HIDE DEF j
    <3> QED BY <3>1, <3>2, <3>3, Zenon
  <2> HIDE DEF j
  <2> QED BY <2>1, <2>2 DEF At
<1>6. Reader(bytes)[i] = v \o Reader(bytes)[j]
  BY <1>3 DEF Readable
<1>7. Reader(bytes)[j] = w \o Reader(bytes)[j + Len(d)]
  <2> HIDE DEF j
  <2> QED BY <1>4, <1>5 DEF Readable
<1>8. Reader(bytes)[i + Len(c)] \in Seq(Nat)
  <2>1. i + Len(c) \in 1 .. Len(bytes) + 7
    BY <1>1, <1>2
  <2> QED BY <2>1, ReaderReads
<1> DEFINE s == Reader(bytes)[i + Len(c)]
<1>9. Reader(bytes)[i] = v \o (w \o s)
  BY <1>4, <1>6, <1>7
<1>10. s \in Seq(Nat)
  BY <1>8
<1>11. v \o (w \o s) = (v \o w) \o s
  <2> HIDE DEF s
  <2> QED BY <1>0, <1>10, Zenon
<1> QED BY <1>9, <1>11

(* A character that is not escaped reads as itself.                         *)
LEMMA ReadablePlain ==
  ASSUME NEW b \in Byte, ~JSON_ESCAPE_TABLE(b)
  PROVE  Readable(<<b>>, <<b>>)
<1> DEFINE e == <<b>>
<1>1. Len(e) = 1 /\ e[1] = b /\ b # 92
  BY DEF JSON_ESCAPE_TABLE
<1> SUFFICES ASSUME NEW bytes \in Seq(Byte), NEW i \in Nat \ {0}, At(e, bytes, i)
             PROVE  Reader(bytes)[i] = <<b>> \o Reader(bytes)[i + Len(e)]
  BY DEF Readable
<1> HIDE DEF e
<1>2. i + 1 <= Len(bytes) + 1 /\ bytes[(i - 1) + 1] = b /\ (i - 1) + 1 = i
  BY <1>1 DEF At
<1>3. i \in 1 .. Len(bytes) + 7 /\ ~(i >= Len(bytes) + 1)
  BY <1>2
<1>4. Reader(bytes)[i] = ReadFrom(Reader(bytes), bytes, i)
  BY <1>3, ReaderReads
<1>5. bytes[i] = b
  BY <1>2, Zenon
<1>6. ReadFrom(Reader(bytes), bytes, i) = <<b>> \o Reader(bytes)[i + 1]
  BY <1>1, <1>3, <1>5, Zenon DEF ReadFrom
<1> QED BY <1>1, <1>4, <1>6

(* A character of the short escapes.                                        *)
LEMMA ReadableShort ==
  ASSUME NEW x \in DOMAIN SingleEscape
  PROVE  Readable(<<92, x>>, <<SingleEscape[x]>>)
<1> DEFINE e == <<92, x>>
<1>1. Len(e) = 2 /\ e[1] = 92 /\ e[2] = x
  OBVIOUS
<1> SUFFICES ASSUME NEW bytes \in Seq(Byte), NEW i \in Nat \ {0}, At(e, bytes, i)
             PROVE  Reader(bytes)[i] = <<SingleEscape[x]>> \o Reader(bytes)[i + Len(e)]
  BY DEF Readable
<1> HIDE DEF e
<1>2. i + 2 <= Len(bytes) + 1 /\ bytes[(i - 1) + 1] = 92 /\ bytes[(i - 1) + 2] = x
  BY <1>1 DEF At
<1>3. /\ i \in 1 .. Len(bytes) + 7 /\ ~(i >= Len(bytes) + 1) /\ i + 1 < Len(bytes) + 1
      /\ (i - 1) + 1 = i /\ (i - 1) + 2 = i + 1
  BY <1>2
<1>4. Reader(bytes)[i] = ReadFrom(Reader(bytes), bytes, i)
  BY <1>3, ReaderReads
<1>5. bytes[i] = 92 /\ bytes[i + 1] = x
  BY <1>2, <1>3, Zenon
<1>6. ReadFrom(Reader(bytes), bytes, i) = <<SingleEscape[x]>> \o Reader(bytes)[i + 2]
  BY <1>3, <1>5, Zenon DEF ReadFrom
<1> QED BY <1>1, <1>4, <1>6

(* A character written by its number.                                       *)
LEMMA ReadableHex ==
  ASSUME NEW g, NEW h
  PROVE  Readable(<<92, 117, 48, 48, g, h>>, <<16 * HexValue(g) + HexValue(h)>>)
<1> DEFINE e == <<92, 117, 48, 48, g, h>>
<1>1. Len(e) = 6 /\ e[1] = 92 /\ e[2] = 117 /\ e[3] = 48 /\ e[4] = 48 /\ e[5] = g /\ e[6] = h
  OBVIOUS
<1> SUFFICES ASSUME NEW bytes \in Seq(Byte), NEW i \in Nat \ {0}, At(e, bytes, i)
             PROVE  Reader(bytes)[i] = <<16 * HexValue(g) + HexValue(h)>> \o Reader(bytes)[i + Len(e)]
  BY DEF Readable
<1> HIDE DEF e
<1>2. i + 6 <= Len(bytes) + 1 /\ \A k \in 1 .. 6 : bytes[(i - 1) + k] = e[k]
  BY <1>1 DEF At
<1>3. /\ i \in 1 .. Len(bytes) + 7 /\ ~(i >= Len(bytes) + 1) /\ i + 5 < Len(bytes) + 1
      /\ \A k \in 1 .. 6 : bytes[(i - 1) + k] = e[k]
      /\ (i - 1) + 1 = i /\ (i - 1) + 2 = i + 1 /\ (i - 1) + 3 = i + 2
      /\ (i - 1) + 4 = i + 3 /\ (i - 1) + 5 = i + 4 /\ (i - 1) + 6 = i + 5
  BY <1>2
<1>4. Reader(bytes)[i] = ReadFrom(Reader(bytes), bytes, i)
  BY <1>3, ReaderReads
<1>5. /\ bytes[i] = 92 /\ bytes[i + 1] = 117 /\ bytes[i + 2] = 48
      /\ bytes[i + 3] = 48 /\ bytes[i + 4] = g /\ bytes[i + 5] = h
  <2>1. 1 \in 1 .. 6 /\ 2 \in 1 .. 6 /\ 3 \in 1 .. 6 /\ 4 \in 1 .. 6 /\ 5 \in 1 .. 6 /\ 6 \in 1 .. 6
    OBVIOUS
  <2>2. bytes[i] = e[1] /\ bytes[i + 1] = e[2]
    BY <1>3, <2>1, Zenon
  <2>3. bytes[i + 2] = e[3] /\ bytes[i + 3] = e[4]
    BY <1>3, <2>1, Zenon
  <2>4. bytes[i + 4] = e[5] /\ bytes[i + 5] = e[6]
    BY <1>3, <2>1, Zenon
  <2>5. bytes[i] = 92 /\ bytes[i + 1] = 117
    BY <1>1, <2>2
  <2>6. bytes[i + 2] = 48 /\ bytes[i + 3] = 48
    BY <1>1, <2>3
  <2>7. bytes[i + 4] = g /\ bytes[i + 5] = h
    BY <1>1, <2>4
  <2> QED BY <2>5, <2>6, <2>7
<1>6. bytes[i + 1] \notin DOMAIN SingleEscape
  BY <1>5, EscapeValues
<1>7. SubSeq(bytes, i + 1, i + 3) = <<117, 48, 48>>
  <2> DEFINE t == SubSeq(bytes, i + 1, i + 3)
  <2>1. i + 1 \in Nat /\ i + 3 \in Nat /\ i + 1 >= 1 /\ i + 3 <= Len(bytes)
    BY <1>3
  <2>2. /\ t \in Seq(Byte) /\ Len(t) = 3
        /\ t[1] = bytes[i + 1] /\ t[2] = bytes[i + 2] /\ t[3] = bytes[i + 3]
    BY <2>1
  <2> HIDE DEF t
  <2>3. t = <<117, 48, 48>>
    BY <1>5, <2>2
  <2> QED BY <2>3 DEF t
<1>8. ReadFrom(Reader(bytes), bytes, i)
        = <<16 * HexValue(g) + HexValue(h)>> \o Reader(bytes)[i + 6]
  BY <1>3, <1>5, <1>6, <1>7, Zenon DEF ReadFrom
<1> QED BY <1>1, <1>4, <1>8

-----------------------------------------------------------------------------
(* What escaping makes of one byte reads as a text, and as the byte itself  *)
(* if that is ASCII.                                                        *)
LEMMA EscapedByteReads ==
  ASSUME NEW b \in Byte
  PROVE  /\ EscapedByte(b) \in Seq(Byte)
         /\ \E v \in Seq(Byte) : Readable(EscapedByte(b), v) /\ (b < 128 => v = <<b>>)
<1>0. b \in Int /\ 0 <= b /\ b <= 255 /\ \A k \in 0 .. 255 : k \in Byte
  BY DEF Byte
<1>1. CASE b \in {34, 92}
  <2>1. EscapedByte(b) = <<92, b>> /\ 92 \in Byte
    BY <1>1 DEF EscapedByte, Byte
  <2>2. b \in DOMAIN SingleEscape /\ SingleEscape[b] = b
    BY <1>1, EscapeValues
  <2>3. Readable(<<92, b>>, <<b>>)
    BY <2>2, ReadableShort
  <2>4. <<92, b>> \in Seq(Byte) /\ <<b>> \in Seq(Byte)
    BY <2>1
  <2> QED BY <2>1, <2>3, <2>4
<1>2. CASE b \in {9, 10, 13}
  <2>1. \E x \in {110, 114, 116} : EscapedByte(b) = <<92, x>> /\ SingleEscape[x] = b
    <3>1. CASE b = 10
      BY <3>1, EscapeValues DEF EscapedByte
    <3>2. CASE b = 13
      BY <3>2, EscapeValues DEF EscapedByte
    <3>3. CASE b = 9
      BY <3>3, EscapeValues DEF EscapedByte
    <3> QED BY <1>2, <3>1, <3>2, <3>3
  <2>2. PICK x \in {110, 114, 116} : EscapedByte(b) = <<92, x>> /\ SingleEscape[x] = b
    BY <2>1
  <2>3. x \in DOMAIN SingleEscape
    BY EscapeValues
  <2>4. Readable(<<92, x>>, <<b>>)
    BY <2>2, <2>3, ReadableShort
  <2>5. x \in Byte /\ 92 \in Byte
    BY DEF Byte
  <2>6. <<92, x>> \in Seq(Byte) /\ <<b>> \in Seq(Byte)
    BY <2>5
  <2> QED BY <2>2, <2>4, <2>6
<1>3. CASE b < 32 /\ b \notin {9, 10, 13}
  <2> DEFINE q == b \div 16
             r == b % 16
  <2>1. q \in {0, 1} /\ r \in 0 .. 15 /\ b = 16 * q + r
    BY <1>0, <1>3
  <2> HIDE DEF q, r
  <2>2. EscapedByte(b) = <<92, 117, 48, 48, HexDigit(q), HexDigit(r)>>
    <3>1. b \notin {34, 92} /\ b # 10 /\ b # 13 /\ b # 9
      BY <1>0, <1>3
    <3> QED BY <1>3, <3>1 DEF EscapedByte, q, r
  <2>3. \A k \in 0 .. 15 : HexDigit(k) \in Byte /\ HexValue(HexDigit(k)) = k
    BY DEF HexDigit, HexValue, Byte
  <2>4. q \in 0 .. 15
    BY <2>1
  <2>5. 16 * HexValue(HexDigit(q)) + HexValue(HexDigit(r)) = b
    BY <2>1, <2>3, <2>4
  <2> DEFINE g == HexDigit(q)
             h == HexDigit(r)
  <2>6. g \in Byte /\ h \in Byte
    BY <2>1, <2>3, <2>4
  <2>7. 16 * HexValue(g) + HexValue(h) = b
    BY <2>5
  <2>8. EscapedByte(b) = <<92, 117, 48, 48, g, h>>
    BY <2>2
  <2> HIDE DEF g, h
  <2>9. Readable(<<92, 117, 48, 48, g, h>>, <<b>>)
    <3>1. Readable(<<92, 117, 48, 48, g, h>>, <<16 * HexValue(g) + HexValue(h)>>)
      BY ReadableHex
    <3> QED BY <2>7, <3>1
  <2>10. <<92, 117, 48, 48, g, h>> \in Seq(Byte) /\ <<b>> \in Seq(Byte)
    <3>1. 92 \in Byte /\ 117 \in Byte /\ 48 \in Byte
      BY DEF Byte
    <3> QED BY <2>6, <3>1
  <2> QED BY <2>8, <2>9, <2>10
<1>4. CASE b >= 32 /\ b \notin {34, 92}
  <2>1. EscapedByte(b) = PushChar(b)
    <3>1. b # 10 /\ b # 13 /\ b # 9 /\ ~(b < 32 /\ b \notin {9, 10, 13})
      BY <1>0, <1>4
    <3> QED BY <1>4, <3>1 DEF EscapedByte
  <2>2. CASE b < 128
    <3>1. EscapedByte(b) = <<b>>
      BY <2>1, <2>2 DEF PushChar
    <3>2. ~JSON_ESCAPE_TABLE(b)
      BY <1>0, <1>4 DEF JSON_ESCAPE_TABLE
    <3>3. Readable(<<b>>, <<b>>) /\ <<b>> \in Seq(Byte)
      BY <3>2, ReadablePlain
    <3> QED BY <3>1, <3>3
  <2>3. CASE ~(b < 128)
    <3> DEFINE x == 192 + b \div 64
               y == 128 + (b % 64)
    <3>1. x \in 192 .. 195 /\ y \in 128 .. 191
      BY <1>0
    <3>2. EscapedByte(b) = <<x, y>>
      BY <2>1, <2>3 DEF PushChar
    <3> HIDE DEF x, y
    <3>3. x \in Byte /\ y \in Byte /\ ~JSON_ESCAPE_TABLE(x) /\ ~JSON_ESCAPE_TABLE(y)
      BY <3>1 DEF Byte, JSON_ESCAPE_TABLE
    <3>4. Readable(<<x>>, <<x>>) /\ Readable(<<y>>, <<y>>)
      BY <3>3, ReadablePlain
    <3>5. /\ <<x>> \in Seq(Byte) /\ <<y>> \in Seq(Byte) /\ <<x>> \o <<y>> = <<x, y>>
          /\ <<x, y>> \in Seq(Byte) /\ <<x>> \in Seq(Nat) /\ <<y>> \in Seq(Nat)
      <4>1. x \in Nat /\ y \in Nat
        BY <3>1
      <4>2. <<x>> \o <<y>> = <<x, y>>
        BY <3>3, JoinOnes
      <4>3. <<x>> \in Seq(Byte) /\ <<y>> \in Seq(Byte) /\ <<x, y>> \in Seq(Byte)
        BY <3>3
      <4>4. <<x>> \in Seq(Nat) /\ <<y>> \in Seq(Nat)
        BY <4>1
      <4> QED BY <4>2, <4>3, <4>4, Zenon
    <3> DEFINE cx == <<x>>
               cy == <<y>>
    <3>6. Readable(cx \o cy, cx \o cy)
      <4>1. cx \in Seq(Byte) /\ cy \in Seq(Byte) /\ cx \in Seq(Nat) /\ cy \in Seq(Nat)
        BY <3>5
      <4>2. Readable(cx, cx) /\ Readable(cy, cy)
        BY <3>4
      <4> HIDE DEF cx, cy
      <4> QED BY <4>1, <4>2, ReadableConcat
    <3>7. Readable(<<x, y>>, <<x, y>>)
      BY <3>5, <3>6
    <3> QED BY <2>3, <3>2, <3>5, <3>7
  <2> QED BY <2>2, <2>3
<1>5. b \in {34, 92} \/ b \in {9, 10, 13} \/ (b < 32 /\ b \notin {9, 10, 13}) \/ (b >= 32 /\ b \notin {34, 92})
  BY <1>0
<1> QED BY <1>1, <1>2, <1>3, <1>4, <1>5

-----------------------------------------------------------------------------
(* Pieces of text, each with what it reads as.                              *)
Piece == {p \in [e : Seq(Byte), v : Seq(Byte)] : Readable(p.e, p.v)}
Written(s) == [i \in DOMAIN s |-> s[i].e]
ReadAs(s) == [i \in DOMAIN s |-> s[i].v]

(* Pieces joined read as what they read as, joined.                         *)
LEMMA PiecesRead ==
  ASSUME NEW s \in Seq(Piece)
  PROVE  /\ Written(s) \in Seq(Seq(Byte)) /\ ReadAs(s) \in Seq(Seq(Byte))
         /\ FlattenSeq(Written(s)) \in Seq(Byte) /\ FlattenSeq(ReadAs(s)) \in Seq(Byte)
         /\ Readable(FlattenSeq(Written(s)), FlattenSeq(ReadAs(s)))
<1>0. \A p \in Piece : p.e \in Seq(Byte) /\ p.v \in Seq(Byte) /\ Readable(p.e, p.v)
  BY DEF Piece
<1> HIDE DEF Piece
<1>1. \A t \in Seq(Piece) : Written(t) \in Seq(Seq(Byte)) /\ ReadAs(t) \in Seq(Seq(Byte))
  <2> TAKE t \in Seq(Piece)
  <2>1. DOMAIN t = 1 .. Len(t) /\ Len(t) \in Nat /\ \A i \in DOMAIN t : t[i] \in Piece
    OBVIOUS
  <2>2. \A i \in DOMAIN t : t[i].e \in Seq(Byte) /\ t[i].v \in Seq(Byte)
    BY <1>0, <2>1
  <2> QED BY <2>1, <2>2 DEF Written, ReadAs
<1>2. ASSUME NEW q \in Seq(Seq(Byte)) PROVE FlattenSeq(q) \in Seq(Byte)
  <2>1. <<>> \in Seq(Byte)
    OBVIOUS
  <2> QED BY <2>1, FlattenAppend
<1>3. Seq(Byte) \subseteq Seq(Nat)
  <2>1. \A b \in Byte : b \in Nat
    BY DEF Byte
  <2> QED BY <2>1
<1> DEFINE S == {t \in Seq(Piece) : Readable(FlattenSeq(Written(t)), FlattenSeq(ReadAs(t)))}
<1>4. <<>> \in S
  <2>1. Written(<<>>) = <<>> /\ ReadAs(<<>>) = <<>> /\ <<>> \in Seq(Piece)
    BY DEF Written, ReadAs
  <2>2. FlattenSeq(<<>>) = <<>>
    BY FlattenAppend
  <2> QED BY <2>1, <2>2, ReadableEmpty
<1>5. ASSUME NEW t \in Seq(Piece), NEW p \in Piece, t \in S PROVE Append(t, p) \in S
  <2> DEFINE u == Append(t, p)
             a == Written(t)
             b == ReadAs(t)
  <2>1. u \in Seq(Piece) /\ DOMAIN u = 1 .. Len(t) + 1 /\ u[Len(t) + 1] = p
        /\ DOMAIN t = 1 .. Len(t) /\ Len(t) \in Nat /\ \A i \in 1 .. Len(t) : u[i] = t[i]
    OBVIOUS
  <2> HIDE DEF u
  <2>2. Written(u) = Append(a, p.e) /\ ReadAs(u) = Append(b, p.v)
    BY <1>0, <1>1, <2>1 DEF Written, ReadAs
  <2>3. a \in Seq(Seq(Byte)) /\ b \in Seq(Seq(Byte)) /\ p.e \in Seq(Byte) /\ p.v \in Seq(Byte)
    BY <1>0, <1>1
  <2> DEFINE x == FlattenSeq(a)
             y == FlattenSeq(b)
  <2>4. Readable(x, y) /\ Readable(p.e, p.v)
    BY <1>0, <1>5
  <2>5. x \in Seq(Byte) /\ y \in Seq(Byte)
    BY <1>2, <2>3
  <2> HIDE DEF a, b, S
  <2>6. FlattenSeq(Append(a, p.e)) = x \o p.e /\ FlattenSeq(Append(b, p.v)) = y \o p.v
    BY <2>3, FlattenAppend
  <2> HIDE DEF x, y
  <2>7. Readable(x \o p.e, y \o p.v)
    <3>1. y \in Seq(Nat) /\ p.v \in Seq(Nat)
      BY <1>3, <2>3, <2>5
    <3> QED BY <2>3, <2>4, <2>5, <3>1, ReadableConcat
  <2>8. Readable(FlattenSeq(Written(u)), FlattenSeq(ReadAs(u)))
    BY <2>2, <2>6, <2>7
  <2> QED BY <2>1, <2>8 DEF S, u
<1> HIDE DEF S
<1>6. s \in S
  BY <1>4, <1>5, SequenceInduction
<1> QED BY <1>1, <1>2, <1>6 DEF S

(* A sequence is its elements, one by one.                                  *)
LEMMA FlattenOnes ==
  ASSUME NEW E, NEW s \in Seq(E)
  PROVE  [i \in DOMAIN s |-> <<s[i]>>] \in Seq(Seq(E)) /\ FlattenSeq([i \in DOMAIN s |-> <<s[i]>>]) = s
<1> DEFINE Ones(t) == [i \in DOMAIN t |-> <<t[i]>>]
           S == {t \in Seq(E) : FlattenSeq(Ones(t)) = t}
<1>1. \A t \in Seq(E) : Ones(t) \in Seq(Seq(E))
  <2> TAKE t \in Seq(E)
  <2>1. DOMAIN t = 1 .. Len(t) /\ Len(t) \in Nat /\ \A i \in DOMAIN t : t[i] \in E
    OBVIOUS
  <2>2. \A i \in DOMAIN t : <<t[i]>> \in Seq(E)
    BY <2>1
  <2> QED BY <2>1, <2>2
<1>2. <<>> \in S
  <2>1. Ones(<<>>) = <<>> /\ <<>> \in Seq(E)
    OBVIOUS
  <2>2. FlattenSeq(<<>>) = <<>>
    BY FlattenAppend
  <2> QED BY <2>1, <2>2
<1>3. ASSUME NEW t \in Seq(E), NEW x \in E, t \in S PROVE Append(t, x) \in S
  <2>1. Ones(Append(t, x)) = Append(Ones(t), <<x>>)
    OBVIOUS
  <2>2. Ones(t) \in Seq(Seq(E)) /\ <<x>> \in Seq(E)
    BY <1>1
  <2>3. FlattenSeq(Ones(t)) = t
    BY <1>3
  <2> DEFINE o == Ones(t)
             y == <<x>>
  <2> HIDE DEF Ones, S
  <2>4. FlattenSeq(Append(o, y)) = FlattenSeq(o) \o y
    <3> HIDE DEF o, y
    <3>1. o \in Seq(Seq(E)) /\ y \in Seq(E)
      BY <2>2 DEF o, y
    <3> QED BY <3>1, FlattenAppend
  <2>5. t \o <<x>> = Append(t, x) /\ Append(t, x) \in Seq(E)
    OBVIOUS
  <2>6. FlattenSeq(Ones(Append(t, x))) = Append(t, x)
    BY <2>1, <2>3, <2>4, <2>5, Zenon
  <2> QED BY <2>5, <2>6 DEF S
<1> HIDE DEF S
<1>4. s \in S
  BY <1>2, <1>3, SequenceInduction
<1>5. FlattenSeq(Ones(s)) = s
  BY <1>4 DEF S
<1> QED BY <1>1, <1>5

(* What every byte of a text is, every byte of its pieces is.               *)
LEMMA FlattenHolds ==
  ASSUME NEW E, NEW s \in Seq(Seq(E)), NEW P, \A k \in DOMAIN FlattenSeq(s) : FlattenSeq(s)[k] \in P
  PROVE  \A i \in DOMAIN s : \A k \in DOMAIN s[i] : s[i][k] \in P
<1> DEFINE Held(t) == (\A k \in DOMAIN FlattenSeq(t) : FlattenSeq(t)[k] \in P)
                         => \A i \in DOMAIN t : \A k \in DOMAIN t[i] : t[i][k] \in P
           S == {t \in Seq(Seq(E)) : Held(t)}
<1>1. <<>> \in S
  <2>1. <<>> \in Seq(Seq(E)) /\ DOMAIN <<>> = {}
    OBVIOUS
  <2> QED BY <2>1
<1>2. ASSUME NEW t \in Seq(Seq(E)), NEW x \in Seq(E), t \in S PROVE Append(t, x) \in S
  <2> DEFINE f == FlattenSeq(t)
             u == Append(t, x)
  <2>1. f \in Seq(E) /\ FlattenSeq(u) = f \o x
    BY FlattenAppend
  <2>2. Held(t)
    BY <1>2
  <2>3. /\ u \in Seq(Seq(E)) /\ DOMAIN u = 1 .. Len(t) + 1 /\ u[Len(t) + 1] = x
        /\ DOMAIN t = 1 .. Len(t) /\ Len(t) \in Nat /\ \A i \in 1 .. Len(t) : u[i] = t[i]
    OBVIOUS
  <2> HIDE DEF f, S, u
  <2>4. ASSUME \A k \in DOMAIN FlattenSeq(u) : FlattenSeq(u)[k] \in P
        PROVE  \A i \in DOMAIN u : \A k \in DOMAIN u[i] : u[i][k] \in P
    <3>1. /\ DOMAIN (f \o x) = 1 .. Len(f) + Len(x)
          /\ \A k \in 1 .. Len(f) : (f \o x)[k] = f[k]
          /\ \A k \in Len(f) + 1 .. Len(f) + Len(x) : (f \o x)[k] = x[k - Len(f)]
          /\ DOMAIN f = 1 .. Len(f) /\ DOMAIN x = 1 .. Len(x) /\ Len(f) \in Nat /\ Len(x) \in Nat
      BY <2>1, ConcatElements
    <3> DEFINE c == f \o x
    <3>2. \A k \in DOMAIN c : c[k] \in P
      BY <2>1, <2>4
    <3> HIDE DEF c
    <3>3. \A k \in DOMAIN f : f[k] \in P
      <4> TAKE k \in DOMAIN f
      <4>1. k \in DOMAIN c /\ c[k] = f[k]
        BY <3>1 DEF c
      <4> QED BY <3>2, <4>1
    <3>4. \A k \in DOMAIN x : x[k] \in P
      <4> TAKE k \in DOMAIN x
      <4>1. Len(f) + k \in Len(f) + 1 .. Len(f) + Len(x) /\ (Len(f) + k) - Len(f) = k
            /\ Len(f) + k \in 1 .. Len(f) + Len(x)
        BY <3>1
      <4>2. Len(f) + k \in DOMAIN c /\ c[Len(f) + k] = x[k]
        BY <3>1, <4>1 DEF c
      <4> QED BY <3>2, <4>2
    <3>5. \A i \in DOMAIN t : \A k \in DOMAIN t[i] : t[i][k] \in P
      BY <2>2, <3>3 DEF f
    <3> TAKE i \in DOMAIN u
    <3>6. i = Len(t) + 1 \/ i \in DOMAIN t
      BY <2>3
    <3> QED BY <2>3, <3>4, <3>5, <3>6
  <2>5. u \in S
    BY <2>3, <2>4 DEF S
  <2> QED BY <2>5 DEF u
<1> HIDE DEF S
<1>3. s \in S
  BY <1>1, <1>2, SequenceInduction
<1> QED BY <1>3 DEF S

-----------------------------------------------------------------------------
(* What write_json_escaped makes of a text reads as a text, and as the text *)
(* itself if escaping keeps it.                                             *)
LEMMA EscapedReads ==
  ASSUME NEW bytes \in Seq(Byte)
  PROVE  /\ write_json_escaped(bytes) \in Seq(Byte)
         /\ \E v \in Seq(Byte) : Readable(write_json_escaped(bytes), v) /\ (Kept(bytes) => v = bytes)
<1>0. \A i \in DOMAIN bytes : bytes[i] \in Byte /\ <<bytes[i]>> \in Seq(Byte)
  OBVIOUS
<1>00. bytes \in Seq(Byte) /\ DOMAIN bytes = 1 .. Len(bytes) /\ Len(bytes) \in Nat
  OBVIOUS
<1>1. CASE ~NeedsEscape(bytes)
  <2> DEFINE s == [i \in DOMAIN bytes |-> [e |-> <<bytes[i]>>, v |-> <<bytes[i]>>]]
  <2>1. ASSUME NEW i \in DOMAIN bytes PROVE [e |-> <<bytes[i]>>, v |-> <<bytes[i]>>] \in Piece
    <3>1. Readable(<<bytes[i]>>, <<bytes[i]>>)
      BY <1>0, <1>1, ReadablePlain DEF NeedsEscape
    <3> QED BY <1>0, <3>1 DEF Piece
  <2>2. s \in Seq(Piece)
    BY <1>00, <2>1
  <2>3. Written(s) = [i \in DOMAIN bytes |-> <<bytes[i]>>] /\ ReadAs(s) = [i \in DOMAIN bytes |-> <<bytes[i]>>]
    BY DEF Written, ReadAs
  <2> HIDE DEF s
  <2>4. FlattenSeq(Written(s)) = bytes /\ FlattenSeq(ReadAs(s)) = bytes
    BY <2>3, FlattenOnes
  <2>5. Readable(bytes, bytes)
    BY <2>2, <2>4, PiecesRead
  <2>6. write_json_escaped(bytes) = bytes
    BY <1>1 DEF write_json_escaped
  <2> QED BY <2>5, <2>6
<1>2. CASE NeedsEscape(bytes)
  <2> DEFINE Read(b) == CHOOSE v \in Seq(Byte) : Readable(EscapedByte(b), v) /\ (b < 128 => v = <<b>>)
             s == [i \in DOMAIN bytes |-> [e |-> EscapedByte(bytes[i]), v |-> Read(bytes[i])]]
  <2>1. ASSUME NEW b \in Byte
        PROVE  /\ EscapedByte(b) \in Seq(Byte) /\ Read(b) \in Seq(Byte)
               /\ Readable(EscapedByte(b), Read(b)) /\ (b < 128 => Read(b) = <<b>>)
    BY EscapedByteReads
  <2> HIDE DEF Read
  <2>2. ASSUME NEW i \in DOMAIN bytes
        PROVE  [e |-> EscapedByte(bytes[i]), v |-> Read(bytes[i])] \in Piece
    BY <1>0, <2>1 DEF Piece
  <2>3. s \in Seq(Piece)
    BY <1>00, <2>2
  <2>4. /\ Written(s) = [i \in DOMAIN bytes |-> EscapedByte(bytes[i])]
        /\ ReadAs(s) = [i \in DOMAIN bytes |-> Read(bytes[i])]
    BY DEF Written, ReadAs
  <2> HIDE DEF s
  <2>5. write_json_escaped(bytes) = FlattenSeq(Written(s))
    BY <1>2, <2>4 DEF write_json_escaped
  <2>6. /\ FlattenSeq(Written(s)) \in Seq(Byte) /\ FlattenSeq(ReadAs(s)) \in Seq(Byte)
        /\ Readable(FlattenSeq(Written(s)), FlattenSeq(ReadAs(s)))
    BY <2>3, PiecesRead
  <2>7. ASSUME Kept(bytes) PROVE FlattenSeq(ReadAs(s)) = bytes
    <3>1. \A i \in DOMAIN bytes : bytes[i] < 128
      BY <1>2, <2>7 DEF Kept
    <3>2. \A i \in DOMAIN bytes : Read(bytes[i]) = <<bytes[i]>>
      BY <1>0, <2>1, <3>1
    <3>3. ReadAs(s) = [i \in DOMAIN bytes |-> <<bytes[i]>>]
      BY <2>4, <3>2
    <3> QED BY <3>3, FlattenOnes
  <2> QED BY <2>5, <2>6, <2>7
<1> QED BY <1>1, <1>2

(* The same of the pieces Display writes.                                   *)
LEMMA ChunksRead ==
  ASSUME NEW chunks \in Seq(Seq(Byte))
  PROVE  /\ JsonEscapingWriter(chunks) \in Seq(Byte)
         /\ \E v \in Seq(Byte) : /\ Readable(JsonEscapingWriter(chunks), v)
                                 /\ (\A j \in DOMAIN chunks : Kept(chunks[j])) => v = FlattenSeq(chunks)
<1> DEFINE Read(b) == CHOOSE v \in Seq(Byte) : Readable(write_json_escaped(b), v) /\ (Kept(b) => v = b)
           s == [i \in DOMAIN chunks |-> [e |-> write_json_escaped(chunks[i]), v |-> Read(chunks[i])]]
<1>0. /\ \A i \in DOMAIN chunks : chunks[i] \in Seq(Byte)
      /\ DOMAIN chunks = 1 .. Len(chunks) /\ Len(chunks) \in Nat
  OBVIOUS
<1>1. ASSUME NEW b \in Seq(Byte)
      PROVE  /\ write_json_escaped(b) \in Seq(Byte) /\ Read(b) \in Seq(Byte)
             /\ Readable(write_json_escaped(b), Read(b)) /\ (Kept(b) => Read(b) = b)
  BY EscapedReads
<1> HIDE DEF Read
<1>2. ASSUME NEW i \in DOMAIN chunks
      PROVE  [e |-> write_json_escaped(chunks[i]), v |-> Read(chunks[i])] \in Piece
  BY <1>0, <1>1 DEF Piece
<1>3. s \in Seq(Piece)
  BY <1>0, <1>2
<1>4. /\ Written(s) = [i \in DOMAIN chunks |-> write_json_escaped(chunks[i])]
      /\ ReadAs(s) = [i \in DOMAIN chunks |-> Read(chunks[i])]
  BY DEF Written, ReadAs
<1> HIDE DEF s
<1>5. JsonEscapingWriter(chunks) = FlattenSeq(Written(s))
  BY <1>4 DEF JsonEscapingWriter
<1>6. /\ FlattenSeq(Written(s)) \in Seq(Byte) /\ FlattenSeq(ReadAs(s)) \in Seq(Byte)
      /\ Readable(FlattenSeq(Written(s)), FlattenSeq(ReadAs(s)))
  BY <1>3, PiecesRead
<1>7. ASSUME \A j \in DOMAIN chunks : Kept(chunks[j]) PROVE FlattenSeq(ReadAs(s)) = FlattenSeq(chunks)
  <2>1. \A i \in DOMAIN chunks : Read(chunks[i]) = chunks[i]
    BY <1>0, <1>1, <1>7
  <2>2. ReadAs(s) = chunks
    BY <1>0, <1>4, <2>1
  <2> QED BY <2>2
<1> QED BY <1>5, <1>6, <1>7

(* The whole of a readable line.                                            *)
LEMMA ReadStringIs ==
  ASSUME NEW e \in Seq(Byte), NEW v \in Seq(Byte), Readable(e, v)
  PROVE  ReadString(e) = v /\ Broken \notin ToSet(ReadString(e))
<1>1. At(e, e, 1)
  BY DEF At
<1>2. Reader(e)[1] = v \o Reader(e)[1 + Len(e)]
  BY <1>1 DEF Readable
<1>3. Reader(e)[1 + Len(e)] = <<>>
  <2>1. 1 + Len(e) \in 1 .. Len(e) + 7 /\ 1 + Len(e) >= Len(e) + 1 /\ 1 + Len(e) = Len(e) + 1
    OBVIOUS
  <2>2. Reader(e)[1 + Len(e)] = ReadFrom(Reader(e), e, 1 + Len(e))
    BY <2>1, ReaderReads
  <2> QED BY <2>1, <2>2 DEF ReadFrom
<1>4. v \o <<>> = v
  OBVIOUS
<1>5. ReadString(e) = v
  BY <1>2, <1>3, <1>4, ReadIsReader
<1>6. \A i \in DOMAIN v : v[i] \in Byte
  OBVIOUS
<1>7. Broken \notin Byte
  BY DEF Broken, Byte
<1> QED BY <1>5, <1>6, <1>7 DEF ToSet

(* A text escaping keeps is kept piece by piece.                            *)
LEMMA KeptPieces ==
  ASSUME NEW chunks \in Seq(Seq(Byte)), Kept(FlattenSeq(chunks))
  PROVE  \A j \in DOMAIN chunks : Kept(chunks[j])
<1> DEFINE t == FlattenSeq(chunks)
<1>0. \A j \in DOMAIN chunks : chunks[j] \in Seq(Byte)
  OBVIOUS
<1>01. t \in Seq(Byte)
  <2>1. <<>> \in Seq(Byte)
    OBVIOUS
  <2> QED BY <2>1, FlattenAppend
<1>1. CASE ~NeedsEscape(t)
  <2> DEFINE P == {b \in Byte : ~JSON_ESCAPE_TABLE(b)}
  <2>1. \A k \in DOMAIN t : t[k] \in P
    <3> HIDE DEF t
    <3> QED BY <1>1, <1>01 DEF NeedsEscape
  <2> HIDE DEF P
  <2>2. \A j \in DOMAIN chunks : \A k \in DOMAIN chunks[j] : chunks[j][k] \in P
    BY <2>1, FlattenHolds
  <2>3. \A j \in DOMAIN chunks : ~NeedsEscape(chunks[j])
    BY <2>2 DEF P, NeedsEscape
  <2> QED BY <2>3 DEF Kept
<1>2. CASE \A k \in DOMAIN t : t[k] < 128
  <2> DEFINE P == {b \in Byte : b < 128}
  <2>1. \A k \in DOMAIN t : t[k] \in P
    <3> HIDE DEF t
    <3> QED BY <1>2, <1>01
  <2> HIDE DEF P
  <2>2. \A j \in DOMAIN chunks : \A k \in DOMAIN chunks[j] : chunks[j][k] \in P
    BY <2>1, FlattenHolds
  <2>3. \A j \in DOMAIN chunks : \A k \in DOMAIN chunks[j] : chunks[j][k] < 128
    BY <2>2 DEF P
  <2> QED BY <2>3 DEF Kept
<1> QED BY <1>1, <1>2 DEF Kept

-----------------------------------------------------------------------------
Value == TextValue \cup Number

(* A context, or what was given to one: its maps, and what they hold.       *)
Context(c) ==
    /\ DOMAIN c = Kinds
    /\ DOMAIN c.field \subseteq Field
    /\ \A kind \in Kinds : IsFiniteSet(DOMAIN c[kind])
    /\ \A kind \in {"field", "additional"} : \A k \in DOMAIN c[kind] : c[kind][k] \in TextValue
    /\ \A k \in DOMAIN c.request : c.request[k] \in Value

Enabled == call \in Calls /\ {call.level, AudienceOf(call)} \subseteq features

(* The macro's values that have been evaluated: the audience and the        *)
(* message came first.                                                      *)
Given == IF Len(evaluated) < 2 THEN 0 ELSE Len(evaluated) - 2
PartlyEvaluated ==
    /\ Len(evaluated) \in 1 .. Len(Arguments(call))
    /\ evaluated = <<"audience">> \o SubSeq(Arguments(call), 1, Len(evaluated) - 1)
    /\ given.additional = Inserted(ctx.additional, SubSeq(KvDisplay(Kvs(call)), 1, Given))

Evaluated ==
    /\ Enabled
    /\ evaluated = <<"audience">> \o Arguments(call)
    /\ given.additional = KvMap(Kvs(call), ctx.additional)

NothingWritten == display = <<>> /\ json = <<>> /\ record = None
TextWritten == Evaluated /\ display = write_display_direct /\ json = write_json_direct
RecordBuilt == TextWritten /\ record = from_direct

(* Where the call stands, what it has evaluated and what it has written.    *)
Progress ==
    \/ /\ pc = "context" /\ evaluated = <<>> /\ given.additional = ctx.additional
       /\ NothingWritten /\ attributes = NoKeys
    \/ /\ pc = "audience" /\ call \in Calls /\ call.level \in features
       /\ evaluated = <<>> /\ given.additional = ctx.additional
       /\ NothingWritten /\ attributes = NoKeys
    \/ pc = "arguments" /\ Enabled /\ PartlyEvaluated /\ NothingWritten /\ attributes = NoKeys
    \/ pc \in {"should_log", "text"} /\ Evaluated /\ NothingWritten /\ attributes = NoKeys
    \/ pc = "record" /\ TextWritten /\ record = None /\ attributes = NoKeys
    \/ pc = "sink" /\ RecordBuilt /\ attributes = NoKeys
    \/ /\ pc = "done" /\ call \in Calls /\ ~Enabled /\ NothingWritten /\ attributes = NoKeys
       /\ evaluated = IF call.level \in features THEN <<"audience">> ELSE <<>>
    \/ pc = "done" /\ Evaluated /\ NothingWritten /\ attributes = NoKeys
    \/ pc = "done" /\ RecordBuilt /\ ~Accepts(record) /\ attributes = NoKeys
    \/ pc = "done" /\ RecordBuilt /\ Accepts(record) /\ attributes = Mapped(record)

IInv ==
    /\ Context(ctx)
    /\ DOMAIN given = Kinds /\ given.field = ctx.field /\ given.request = ctx.request
    /\ Progress

-----------------------------------------------------------------------------
(* What is left of a sequence's start.                                      *)
LEMMA StartOf ==
  ASSUME NEW E, NEW s \in Seq(E), NEW m \in 0 .. Len(s)
  PROVE  /\ SubSeq(s, 1, m) \in Seq(E) /\ Len(SubSeq(s, 1, m)) = m
         /\ SubSeq(s, 1, 0) = <<>> /\ SubSeq(s, 1, Len(s)) = s
         /\ m < Len(s) => /\ m + 1 \in DOMAIN s
                          /\ SubSeq(s, 1, m + 1) = Append(SubSeq(s, 1, m), s[m + 1])
OBVIOUS

(* The key-value arguments of a call.                                       *)
Kv == [key : STRING, value : Seq(Seq(Byte))]

(* The macro's values of a call: a sequence of keys with their values.      *)
LEMMA KvsType ==
  ASSUME NEW c \in Calls
  PROVE  /\ Kvs(c) \in Seq(Kv)
         /\ DOMAIN Kvs(c) = 1 .. Len(Kvs(c)) /\ Len(Kvs(c)) \in Nat
         /\ \A i \in DOMAIN Kvs(c) : Kvs(c)[i].value \in Seq(Seq(Byte))
<1>1. c.rest \in Seq(Item)
  BY EncodingAssumption
<1> DEFINE r == c.rest
           q == [i \in DOMAIN r |-> IF IsAudience(r[i]) THEN <<>> ELSE <<r[i]>>]
<1>2. r \in Seq(Item) /\ DOMAIN r = 1 .. Len(r) /\ Len(r) \in Nat /\ \A i \in DOMAIN r : r[i] \in Item
  BY <1>1
<1>3. Kvs(c) = FlattenSeq(q)
  BY DEF Kvs
<1> HIDE DEF r
<1>4. \A x \in Item : ~IsAudience(x) => x \in Kv
  BY DEF Item, IsAudience, Kv
<1>5. \A x \in Kv : <<x>> \in Seq(Kv)
  OBVIOUS
<1>6. \A i \in DOMAIN r : q[i] \in Seq(Kv)
  <2> TAKE i \in DOMAIN r
  <2>1. CASE IsAudience(r[i])
    BY <2>1
  <2>2. CASE ~IsAudience(r[i])
    BY <1>2, <1>4, <1>5, <2>2
  <2> QED BY <2>1, <2>2
<1>7. q \in Seq(Seq(Kv))
  <2>1. DOMAIN q = 1 .. Len(r) /\ q = [i \in 1 .. Len(r) |-> q[i]]
    BY <1>2
  <2> HIDE DEF q
  <2> QED BY <1>2, <1>6, <2>1
<1> HIDE DEF q
<1>8. Kvs(c) \in Seq(Kv)
  <2>1. <<>> \in Seq(Kv)
    OBVIOUS
  <2> QED BY <1>3, <1>7, <2>1, FlattenAppend
<1> DEFINE k == Kvs(c)
<1>9. k \in Seq(Kv)
  BY <1>8
<1> HIDE DEF k
<1>10. DOMAIN k = 1 .. Len(k) /\ Len(k) \in Nat /\ \A i \in DOMAIN k : k[i] \in Kv
  BY <1>9
<1>11. \A x \in Kv : x.value \in Seq(Seq(Byte))
  BY DEF Kv
<1> QED BY <1>8, <1>10, <1>11 DEF k

(* The audience of a call is one of the three.                              *)
LEMMA AudienceType ==
  ASSUME NEW c \in Calls
  PROVE  AudienceOf(c) \in Audience
<1> DEFINE r == c.rest
           named == {i \in DOMAIN r : IsAudience(r[i])}
<1>1. r \in Seq(Item)
  BY EncodingAssumption
<1>2. AudienceOf(c) = IF named = {} THEN "Internal" ELSE r[Max(named)].audience
  BY DEF AudienceOf
<1> HIDE DEF r
<1>3. DOMAIN r = 1 .. Len(r) /\ Len(r) \in Nat /\ \A i \in DOMAIN r : r[i] \in Item
  BY <1>1
<1>4. CASE named = {}
  BY <1>2, <1>4 DEF Audience
<1>5. CASE named # {}
  <2>1. named \subseteq 1 .. Len(r)
    BY <1>3
  <2>2. Max(named) \in named
    <3> HIDE DEF named
    <3> QED BY <1>3, <1>5, <2>1, MaxOf
  <2> DEFINE i == Max(named)
  <2>3. i \in DOMAIN r /\ IsAudience(r[i]) /\ AudienceOf(c) = r[i].audience
    BY <1>2, <1>5, <2>2
  <2> HIDE DEF i, named
  <2>4. r[i] \in Item
    BY <1>3, <2>3
  <2>5. \A x \in Item : IsAudience(x) => x.audience \in Audience
    BY DEF Item, IsAudience
  <2> QED BY <2>3, <2>4, <2>5
<1> QED BY <1>4, <1>5

(* What a call's arguments are, in order.                                   *)
Argument == STRING \cup {"msg", "ctx"}

(* A call has two arguments beside the macro's values.                      *)
LEMMA ArgumentsOf ==
  ASSUME NEW c \in Calls
  PROVE  /\ Arguments(c) \in Seq(Argument)
         /\ Len(Arguments(c)) = Len(Kvs(c)) + 2
<1> DEFINE k == Kvs(c)
           names == [i \in DOMAIN k |-> k[i].key]
<1>1. k \in Seq(Kv)
  BY KvsType
<1>2. Arguments(c) = (<<"msg">> \o names) \o <<"ctx">>
  BY DEF Arguments
<1> HIDE DEF k
<1>3. DOMAIN k = 1 .. Len(k) /\ Len(k) \in Nat /\ \A i \in DOMAIN k : k[i] \in Kv
  BY <1>1
<1>4. \A x \in Kv : x.key \in STRING
  BY DEF Kv
<1>5. names \in Seq(Argument) /\ Len(names) = Len(k)
  <2>1. \A i \in DOMAIN k : k[i].key \in Argument
    BY <1>3, <1>4 DEF Argument
  <2> QED BY <1>3, <2>1
<1> HIDE DEF names
<1>6. <<"msg">> \in Seq(Argument) /\ <<"ctx">> \in Seq(Argument) /\ Len(<<"msg">>) = 1 /\ Len(<<"ctx">>) = 1
  <2>1. "msg" \in Argument /\ "ctx" \in Argument
    BY DEF Argument
  <2> QED BY <2>1
<1>7. <<"msg">> \o names \in Seq(Argument) /\ Len(<<"msg">> \o names) = Len(k) + 1
  BY <1>3, <1>5, <1>6
<1> DEFINE h == <<"msg">> \o names
<1>8. h \o <<"ctx">> \in Seq(Argument) /\ Len(h \o <<"ctx">>) = Len(k) + 2
  <2>1. h \in Seq(Argument) /\ Len(h) = Len(k) + 1
    BY <1>7
  <2> HIDE DEF h
  <2> QED BY <1>3, <1>6, <2>1
<1> QED BY <1>2, <1>8 DEF k

(* The macro's values as Display writes them.                               *)
LEMMA KvDisplayOf ==
  ASSUME NEW c \in Calls
  PROVE  /\ IsLine(KvDisplay(Kvs(c)))
         /\ DOMAIN KvDisplay(Kvs(c)) = DOMAIN Kvs(c) /\ Len(KvDisplay(Kvs(c))) = Len(Kvs(c))
         /\ \A i \in DOMAIN Kvs(c) :
               /\ KvDisplay(Kvs(c))[i].key = Kvs(c)[i].key
               /\ KvDisplay(Kvs(c))[i].value = Text(Formatted(Kvs(c)[i].value))
               /\ Formatted(Kvs(c)[i].value) \in Seq(Byte)
<1> DEFINE k == Kvs(c)
           d == KvDisplay(k)
           E == {Member(k[i].key, Text(Formatted(k[i].value))) : i \in DOMAIN k}
<1>1. DOMAIN k = 1 .. Len(k) /\ Len(k) \in Nat /\ \A i \in DOMAIN k : k[i].value \in Seq(Seq(Byte))
  BY KvsType
<1> HIDE DEF k
<1>2. d = [i \in DOMAIN k |-> Member(k[i].key, Text(Formatted(k[i].value)))]
  BY DEF KvDisplay
<1> HIDE DEF d
<1>3. d \in Seq(E) /\ DOMAIN d = DOMAIN k /\ Len(d) = Len(k)
  BY <1>1, <1>2
<1>4. \A i \in DOMAIN k : /\ d[i].key = k[i].key
                          /\ d[i].value = Text(Formatted(k[i].value))
  BY <1>2 DEF Member
<1>5. \A i \in DOMAIN k : Formatted(k[i].value) \in Seq(Byte)
  <2>1. <<>> \in Seq(Byte)
    OBVIOUS
  <2>2. \A s \in Seq(Seq(Byte)) : FlattenSeq(s) \in Seq(Byte)
    BY <2>1, FlattenAppend
  <2> QED BY <1>1, <2>2 DEF Formatted
<1> QED BY <1>3, <1>4, <1>5 DEF IsLine, k, d

-----------------------------------------------------------------------------
(* The context a build leaves.                                              *)
LEMMA BuildsContext ==
  ASSUME NEW build \in Builds, NEW c, Context(c)
  PROVE  /\ Context(Merged(c, build))
         /\ Context([c EXCEPT !.request = build.request])
<1>1. /\ DOMAIN build = Kinds /\ DOMAIN build.field \subseteq Field
      /\ \A kind \in Kinds : IsFiniteSet(DOMAIN build[kind])
      /\ \A kind \in {"field", "additional"} : \A k \in DOMAIN build[kind] : build[kind][k] \in TextValue
      /\ \A k \in DOMAIN build.request : build.request[k] \in Value
  BY EncodingAssumption DEF Value
<1>2. /\ DOMAIN c = Kinds /\ DOMAIN c.field \subseteq Field
      /\ \A kind \in Kinds : IsFiniteSet(DOMAIN c[kind])
      /\ \A kind \in {"field", "additional"} : \A k \in DOMAIN c[kind] : c[kind][k] \in TextValue
      /\ \A k \in DOMAIN c.request : c.request[k] \in Value
  BY DEF Context
<1>3. "field" \in Kinds /\ "request" \in Kinds /\ "additional" \in Kinds
  BY DEF Kinds
<1>4. ASSUME NEW new, NEW old, NEW T, \A k \in DOMAIN new : new[k] \in T, \A k \in DOMAIN old : old[k] \in T
      PROVE  DOMAIN Over(new, old) = DOMAIN new \cup DOMAIN old /\ \A k \in DOMAIN Over(new, old) : Over(new, old)[k] \in T
  <2>1. DOMAIN Over(new, old) = DOMAIN new \cup DOMAIN old
    BY DEF Over
  <2>2. ASSUME NEW k \in DOMAIN new \cup DOMAIN old PROVE Over(new, old)[k] \in T
    <3>1. Over(new, old)[k] = IF k \in DOMAIN new THEN new[k] ELSE old[k]
      BY <2>2 DEF Over
    <3> QED BY <1>4, <2>2, <3>1
  <2> QED BY <2>1, <2>2
<1> DEFINE m == Merged(c, build)
<1>5. DOMAIN m = Kinds /\ \A kind \in Kinds : m[kind] = Over(build[kind], c[kind])
  BY DEF Merged
<1> HIDE DEF m
<1>6. \A kind \in Kinds : DOMAIN m[kind] = DOMAIN build[kind] \cup DOMAIN c[kind]
  <2>1. \A new, old : DOMAIN Over(new, old) = DOMAIN new \cup DOMAIN old
    BY DEF Over
  <2> QED BY <1>5, <2>1, Zenon
<1>7. \A kind \in Kinds : IsFiniteSet(DOMAIN m[kind])
  <2> TAKE kind \in Kinds
  <2>1. IsFiniteSet(DOMAIN build[kind]) /\ IsFiniteSet(DOMAIN c[kind])
    BY <1>1, <1>2
  <2>2. IsFiniteSet(DOMAIN build[kind] \cup DOMAIN c[kind])
    BY <2>1, FS_Union
  <2> QED BY <1>6, <2>2
<1>8. DOMAIN m.field \subseteq Field
  BY <1>1, <1>2, <1>3, <1>6
<1>9. ASSUME NEW kind \in {"field", "additional"} PROVE \A k \in DOMAIN m[kind] : m[kind][k] \in TextValue
  <2>1. m[kind] = Over(build[kind], c[kind])
    BY <1>3, <1>5
  <2>2. /\ \A k \in DOMAIN build[kind] : build[kind][k] \in TextValue
        /\ \A k \in DOMAIN c[kind] : c[kind][k] \in TextValue
    BY <1>1, <1>2
  <2> QED BY <1>4, <2>1, <2>2
<1>10. \A k \in DOMAIN m.request : m.request[k] \in Value
  <2>1. m.request = Over(build.request, c.request)
    BY <1>3, <1>5
  <2> QED BY <1>1, <1>2, <1>4, <2>1
<1>11. Context(m)
  BY <1>5, <1>7, <1>8, <1>9, <1>10 DEF Context
<1> DEFINE n == [c EXCEPT !.request = build.request]
<1>12. /\ DOMAIN n = Kinds /\ n.request = build.request /\ n["request"] = build["request"]
       /\ \A kind \in {"field", "additional"} : n[kind] = c[kind]
  BY <1>2, <1>3
<1> HIDE DEF n
<1>13. n.field = c.field
  BY <1>12
<1>14. \A kind \in Kinds : IsFiniteSet(DOMAIN n[kind])
  <2> TAKE kind \in Kinds
  <2>1. CASE kind = "request"
    BY <1>1, <1>12, <2>1
  <2>2. CASE kind # "request"
    BY <1>2, <1>12, <2>2 DEF Kinds
  <2> QED BY <2>1, <2>2
<1>15. Context(n)
  BY <1>1, <1>2, <1>12, <1>13, <1>14 DEF Context
<1> QED BY <1>11, <1>15 DEF m, n

-----------------------------------------------------------------------------
(* Where the call stands tells what it has evaluated and written.           *)
LEMMA ProgressAt ==
  ASSUME Progress
  PROVE  /\ pc = "context" =>
              evaluated = <<>> /\ given.additional = ctx.additional /\ NothingWritten /\ attributes = NoKeys
         /\ pc = "audience" =>
              /\ call \in Calls /\ call.level \in features
              /\ evaluated = <<>> /\ given.additional = ctx.additional
              /\ NothingWritten /\ attributes = NoKeys
         /\ pc = "arguments" => Enabled /\ PartlyEvaluated /\ NothingWritten /\ attributes = NoKeys
         /\ pc \in {"should_log", "text"} => Evaluated /\ NothingWritten /\ attributes = NoKeys
         /\ pc = "record" => TextWritten /\ record = None /\ attributes = NoKeys
         /\ pc = "sink" => RecordBuilt /\ attributes = NoKeys
BY DEF Progress

(* What the formats and the record are made of does not change once the     *)
(* macro is expanded.                                                       *)
LEMMA CallFrozen ==
  ASSUME UNCHANGED <<features, ctx, call>>
  PROVE  /\ write_display_direct' = write_display_direct /\ write_json_direct' = write_json_direct
         /\ from_direct' = from_direct /\ Enabled' = Enabled
<1>1. features' = features /\ ctx' = ctx /\ call' = call
  OBVIOUS
<1>2. WithLocation' = WithLocation
  BY <1>1 DEF WithLocation
<1>3. KvJson' = KvJson
  BY <1>1 DEF KvJson
<1>4. write_display_direct' = write_display_direct
  BY <1>1, <1>2 DEF write_display_direct
<1>5. write_json_direct' = write_json_direct
  BY <1>1, <1>2, <1>3 DEF write_json_direct
<1>6. from_direct' = from_direct
  BY <1>1, <1>2 DEF from_direct
<1>7. Enabled' = Enabled
  BY <1>1 DEF Enabled
<1> QED BY <1>4, <1>5, <1>6, <1>7

(* The initial state has it.                                                *)
LEMMA InitIInv == Init => IInv
<1> SUFFICES ASSUME Init PROVE IInv
  OBVIOUS
<1>1. Context(Empty)
  <2>1. DOMAIN Empty = Kinds /\ \A kind \in Kinds : DOMAIN Empty[kind] = {}
    BY DEF Empty, NoKeys
  <2>2. "field" \in Kinds /\ "request" \in Kinds /\ "additional" \in Kinds
    BY DEF Kinds
  <2>3. DOMAIN Empty.field = {} /\ DOMAIN Empty.request = {} /\ DOMAIN Empty["additional"] = {}
        /\ DOMAIN Empty["field"] = {}
    BY <2>1, <2>2
  <2>4. \A kind \in Kinds : IsFiniteSet(DOMAIN Empty[kind])
    BY <2>1, FS_EmptySet
  <2> QED BY <2>1, <2>3, <2>4 DEF Context
<1>2. DOMAIN Empty = Kinds
  BY DEF Empty
<1>3. Progress
  BY DEF Init, Progress, NothingWritten
<1> QED BY <1>1, <1>2, <1>3 DEF Init, IInv

(* Building the context sets what is given alike.                           *)
LEMMA KeepBuildContext ==
  ASSUME IInv, BuildContext
  PROVE  IInv'
<1>1. PICK build \in Builds : /\ ctx' = Merged(ctx, build)
                              /\ given' = [kind \in Kinds |-> Over(build[kind], given[kind])]
  BY DEF BuildContext
<1>2. /\ Context(ctx) /\ DOMAIN given = Kinds /\ given.field = ctx.field /\ given.request = ctx.request
      /\ pc = "context" /\ pc' = pc /\ evaluated' = evaluated
      /\ display' = display /\ json' = json /\ record' = record /\ attributes' = attributes
      /\ evaluated = <<>> /\ given.additional = ctx.additional /\ NothingWritten /\ attributes = NoKeys
  BY ProgressAt DEF IInv, BuildContext
<1>3. Context(ctx')
  BY <1>1, <1>2, BuildsContext
<1>4. "field" \in Kinds /\ "request" \in Kinds /\ "additional" \in Kinds
  BY DEF Kinds
<1>5. /\ DOMAIN given' = Kinds /\ given'.field = ctx'.field /\ given'.request = ctx'.request
      /\ given'.additional = ctx'.additional
  BY <1>1, <1>2, <1>4 DEF Merged
<1>6. Progress'
  BY <1>2, <1>5 DEF Progress, NothingWritten
<1> QED BY <1>3, <1>5, <1>6 DEF IInv

(* with_request: what the context carries is what was given.                *)
LEMMA KeepWithRequest ==
  ASSUME IInv, WithRequest
  PROVE  IInv'
<1>1. PICK build \in Builds : /\ ctx' = [ctx EXCEPT !.request = build.request]
                              /\ given' = [given EXCEPT !.request = build.request]
  BY DEF WithRequest
<1>2. /\ Context(ctx) /\ DOMAIN given = Kinds /\ given.field = ctx.field /\ given.request = ctx.request
      /\ pc = "context" /\ pc' = pc /\ evaluated' = evaluated
      /\ display' = display /\ json' = json /\ record' = record /\ attributes' = attributes
      /\ evaluated = <<>> /\ given.additional = ctx.additional /\ NothingWritten /\ attributes = NoKeys
  BY ProgressAt DEF IInv, WithRequest
<1>3. Context(ctx')
  BY <1>1, <1>2, BuildsContext
<1>4. "field" \in Kinds /\ "request" \in Kinds /\ "additional" \in Kinds /\ DOMAIN ctx = Kinds
  BY <1>2 DEF Kinds, Context
<1>5. /\ DOMAIN given' = Kinds /\ given'.field = ctx'.field /\ given'.request = ctx'.request
      /\ given'.additional = ctx'.additional
  BY <1>1, <1>2, <1>4
<1>6. Progress'
  BY <1>2, <1>5 DEF Progress, NothingWritten
<1> QED BY <1>3, <1>5, <1>6 DEF IInv

(* Expanding the macro and evaluating its audience.                         *)
LEMMA KeepExpand ==
  ASSUME IInv, Expand
  PROVE  IInv'
<1>1. /\ Context(ctx) /\ DOMAIN given = Kinds /\ given.field = ctx.field /\ given.request = ctx.request
      /\ pc = "context" /\ call' \in Calls
      /\ pc' = (IF call'.level \in features THEN "audience" ELSE "done")
      /\ UNCHANGED <<evaluated, given, features, filter, builds, ctx, display, json, record, attributes>>
      /\ evaluated = <<>> /\ given.additional = ctx.additional /\ NothingWritten /\ attributes = NoKeys
  BY ProgressAt DEF IInv, Expand, UnchangedContext, UnchangedOutput
<1>2. NothingWritten'
  BY <1>1 DEF NothingWritten
<1>3. Progress'
  <2>1. CASE call'.level \in features
    BY <1>1, <1>2, <2>1 DEF Progress
  <2>2. CASE call'.level \notin features
    <3>1. ~Enabled'
      BY <1>1, <2>2 DEF Enabled
    <3> QED BY <1>1, <1>2, <2>2, <3>1 DEF Progress
  <2> QED BY <2>1, <2>2
<1> QED BY <1>1, <1>3 DEF IInv

(* The audience is evaluated first, where the level is compiled in.         *)
LEMMA KeepEvaluateAudience ==
  ASSUME IInv, EvaluateAudience
  PROVE  IInv'
<1>1. /\ Context(ctx) /\ DOMAIN given = Kinds /\ given.field = ctx.field /\ given.request = ctx.request
      /\ pc = "audience" /\ evaluated' = Append(evaluated, "audience")
      /\ pc' = (IF AudienceOf(call) \in features THEN "arguments" ELSE "done")
      /\ UNCHANGED <<call, given, features, filter, builds, ctx, display, json, record, attributes>>
      /\ call \in Calls /\ call.level \in features
      /\ evaluated = <<>> /\ given.additional = ctx.additional /\ NothingWritten /\ attributes = NoKeys
  BY ProgressAt DEF IInv, EvaluateAudience, UnchangedContext, UnchangedOutput
<1>2. NothingWritten'
  BY <1>1 DEF NothingWritten
<1>3. evaluated' = <<"audience">>
  BY <1>1
<1>4. Progress'
  <2>1. CASE AudienceOf(call) \in features
    <3>1. Enabled'
      BY <1>1, <2>1 DEF Enabled
    <3>2. PartlyEvaluated'
      <4> DEFINE a == Arguments(call)
                 d == KvDisplay(Kvs(call))
      <4>1. a \in Seq(Argument) /\ Len(a) = Len(Kvs(call)) + 2 /\ Len(Kvs(call)) \in Nat
        BY <1>1, ArgumentsOf, KvsType
      <4>2. Len(evaluated') = 1 /\ Given' = 0
        BY <1>3 DEF Given
      <4>3. SubSeq(a, 1, 1 - 1) = <<>> /\ <<"audience">> \o <<>> = <<"audience">>
        <5>1. 1 - 1 = 0
          OBVIOUS
        <5>2. SubSeq(a, 1, 0) = <<>>
          <6> HIDE DEF a
          <6>1. 0 \in 0 .. Len(a)
            BY <4>1
          <6> QED BY <4>1, <6>1, StartOf
        <5>3. <<"audience">> \o <<>> = <<"audience">>
          OBVIOUS
        <5> QED BY <5>1, <5>2, <5>3
      <4>4. Inserted(ctx.additional, SubSeq(d, 1, 0)) = ctx.additional
        <5>1. SubSeq(d, 1, 0) = <<>>
          <6>1. IsLine(d)
            BY <1>1, KvDisplayOf
          <6>2. PICK E : d \in Seq(E)
            BY <6>1 DEF IsLine
          <6> HIDE DEF d
          <6>3. 0 \in 0 .. Len(d)
            BY <6>2
          <6> QED BY <6>2, <6>3, StartOf
        <5> QED BY <5>1, InsertedNone
      <4>5. 1 \in 1 .. Len(a)
        BY <4>1
      <4> QED BY <1>1, <1>3, <4>2, <4>3, <4>4, <4>5 DEF PartlyEvaluated
    <3> QED BY <1>1, <1>2, <2>1, <3>1, <3>2 DEF Progress
  <2>2. CASE AudienceOf(call) \notin features
    <3>1. ~Enabled'
      BY <1>1, <2>2 DEF Enabled
    <3> QED BY <1>1, <1>2, <1>3, <2>2, <3>1 DEF Progress
  <2> QED BY <2>1, <2>2
<1> QED BY <1>1, <1>4 DEF IInv

(* One argument more has been evaluated, and its value given.               *)
LEMMA KeepEvaluateArgument ==
  ASSUME IInv, EvaluateArgument
  PROVE  IInv'
<1> DEFINE n == Len(evaluated)
           a == Arguments(call)
           K == Kvs(call)
           d == KvDisplay(K)
           more == IF n - 1 \in DOMAIN K
                   THEN [given EXCEPT !.additional =
                           Over(One(K[n - 1].key, [text |-> Formatted(K[n - 1].value)]), @)]
                   ELSE given
<1>1. /\ Context(ctx) /\ DOMAIN given = Kinds /\ given.field = ctx.field /\ given.request = ctx.request
      /\ pc = "arguments" /\ evaluated' = Append(evaluated, a[n])
      /\ given' = more
      /\ pc' = (IF n = Len(a) THEN "should_log" ELSE "arguments")
      /\ UNCHANGED <<call, features, filter, builds, ctx, display, json, record, attributes>>
      /\ Enabled /\ PartlyEvaluated /\ NothingWritten /\ attributes = NoKeys
  BY ProgressAt DEF IInv, EvaluateArgument, UnchangedContext, UnchangedOutput
<1>2. NothingWritten' /\ Enabled'
  BY <1>1, CallFrozen DEF NothingWritten
<1>3. call \in Calls
  BY <1>1 DEF Enabled
<1>4. /\ a \in Seq(Argument) /\ Len(a) = Len(K) + 2 /\ Len(K) \in Nat /\ DOMAIN K = 1 .. Len(K)
      /\ IsLine(d) /\ DOMAIN d = DOMAIN K /\ Len(d) = Len(K)
      /\ \A i \in DOMAIN K : d[i].key = K[i].key /\ d[i].value = Text(Formatted(K[i].value))
  BY <1>3, ArgumentsOf, KvsType, KvDisplayOf
<1>5. /\ n \in 1 .. Len(a) /\ evaluated = <<"audience">> \o SubSeq(a, 1, n - 1)
      /\ given.additional = Inserted(ctx.additional, SubSeq(d, 1, Given))
      /\ Given = IF n < 2 THEN 0 ELSE n - 2
  BY <1>1 DEF PartlyEvaluated, Given
<1> HIDE DEF n, a, K, d
<1>6. evaluated' = <<"audience">> \o SubSeq(a, 1, n) /\ Len(evaluated') = n + 1
  <2>1. n - 1 \in 0 .. Len(a) /\ n - 1 < Len(a) /\ n - 1 + 1 = n /\ n \in 0 .. Len(a)
    BY <1>4, <1>5
  <2> DEFINE b == SubSeq(a, 1, n - 1)
             x == a[n]
             F == Argument \cup {"audience"}
  <2>2. /\ b \in Seq(Argument) /\ Len(b) = n - 1 /\ n \in DOMAIN a
        /\ SubSeq(a, 1, n) = Append(b, x)
    <3>1. LET m == n - 1 IN
            /\ SubSeq(a, 1, m) \in Seq(Argument) /\ Len(SubSeq(a, 1, m)) = m
            /\ m + 1 \in DOMAIN a /\ SubSeq(a, 1, m + 1) = Append(SubSeq(a, 1, m), a[m + 1])
      BY <1>4, <2>1, StartOf
    <3> QED BY <2>1, <3>1
  <2>3. x \in Argument
    BY <1>4, <2>2
  <2>4. b \in Seq(F) /\ x \in F /\ "audience" \in F /\ evaluated = <<"audience">> \o b
    BY <1>5, <2>2, <2>3
  <2>5. evaluated' = Append(<<"audience">> \o b, x)
    BY <1>1, <2>4
  <2> HIDE DEF b, x, F
  <2>6. /\ Append(<<"audience">> \o b, x) = <<"audience">> \o Append(b, x)
        /\ Len(<<"audience">> \o Append(b, x)) = Len(b) + 2
    BY <2>4
  <2>7. evaluated' = <<"audience">> \o SubSeq(a, 1, n)
    BY <2>2, <2>5, <2>6, Zenon
  <2>8. Len(evaluated') = Len(b) + 2
    BY <2>5, <2>6, Zenon
  <2>9. n \in Int /\ Len(b) = n - 1
    BY <1>4, <1>5, <2>2
  <2> QED BY <2>7, <2>8, <2>9
<1>7. /\ DOMAIN given' = Kinds /\ given'.field = ctx.field /\ given'.request = ctx.request
      /\ given'.additional =
           IF n - 1 \in DOMAIN K
           THEN Over(One(K[n - 1].key, [text |-> Formatted(K[n - 1].value)]), given.additional)
           ELSE given.additional
  <2>1. "field" \in Kinds /\ "request" \in Kinds /\ "additional" \in Kinds
    BY DEF Kinds
  <2>2. CASE n - 1 \in DOMAIN K
    BY <1>1, <2>1, <2>2
  <2>3. CASE n - 1 \notin DOMAIN K
    BY <1>1, <2>1, <2>3
  <2> QED BY <2>2, <2>3
<1> HIDE DEF more
<1> DEFINE base == ctx.additional
<1>8. ASSUME n < Len(a)
      PROVE  given'.additional = Inserted(base, SubSeq(d, 1, IF n + 1 < 2 THEN 0 ELSE n + 1 - 2))
  <2>1. PICK E : d \in Seq(E)
    BY <1>4 DEF IsLine
  <2>2. CASE n = 1
    <3>1. n - 1 \notin DOMAIN K /\ Given = 0 /\ (IF n + 1 < 2 THEN 0 ELSE n + 1 - 2) = 0
      BY <1>4, <1>5, <2>2
    <3> QED BY <1>5, <1>7, <3>1
  <2>3. CASE n >= 2
    <3> DEFINE m == n - 2
               new == [text |-> Formatted(K[n - 1].value)]
    <3>1. /\ n - 1 \in DOMAIN K /\ Given = m /\ (IF n + 1 < 2 THEN 0 ELSE n + 1 - 2) = m + 1
          /\ m \in 0 .. Len(d) /\ m < Len(d) /\ n - 1 = m + 1
      BY <1>4, <1>5, <1>8, <2>3
    <3> HIDE DEF m
    <3>2. /\ SubSeq(d, 1, m) \in Seq(E) /\ m + 1 \in DOMAIN d
          /\ SubSeq(d, 1, m + 1) = Append(SubSeq(d, 1, m), d[m + 1])
      BY <2>1, <3>1, StartOf
    <3>3. d[m + 1] \in E
      BY <2>1, <3>2
    <3> DEFINE s == SubSeq(d, 1, m)
               x == d[m + 1]
    <3>4. Inserted(base, Append(s, x)) = Over(One(x.key, x.value), Inserted(base, s))
      <4>1. s \in Seq(E) /\ x \in E
        BY <3>2, <3>3
      <4> HIDE DEF s, x, base
      <4> QED BY <4>1, InsertedMore
    <3>5. x.key = K[n - 1].key /\ x.value = new
      BY <1>4, <3>1 DEF Text
    <3>6. given.additional = Inserted(base, s)
      BY <1>5, <3>1
    <3>7. given'.additional = Over(One(K[n - 1].key, new), given.additional)
      BY <1>7, <3>1
    <3>8. given'.additional = Inserted(base, SubSeq(d, 1, m + 1))
      <4>1. SubSeq(d, 1, m + 1) = Append(s, x)
        BY <3>2
      <4> HIDE DEF s, x, base, new
      <4> QED BY <3>4, <3>5, <3>6, <3>7, <4>1
    <3> HIDE DEF s, x, base, new
    <3> QED BY <3>1, <3>8
  <2> QED BY <1>5, <2>2, <2>3
<1>9. ASSUME n = Len(a) PROVE given'.additional = Inserted(base, d)
  <2>1. PICK E : d \in Seq(E)
    BY <1>4 DEF IsLine
  <2>2. n - 1 \notin DOMAIN K /\ Given = Len(d) /\ Len(d) \in 0 .. Len(d)
    <3>1. n = Len(K) + 2 /\ Len(K) \in Nat /\ Len(d) = Len(K) /\ DOMAIN K = 1 .. Len(K)
      BY <1>4, <1>9
    <3>2. n - 1 \notin DOMAIN K /\ ~(n < 2) /\ n - 2 = Len(d) /\ Len(d) \in 0 .. Len(d)
      BY <3>1
    <3> QED BY <1>5, <3>2
  <2>3. SubSeq(d, 1, Len(d)) = d
    BY <2>1, <2>2, StartOf
  <2> QED BY <1>5, <1>7, <2>2, <2>3
<1> HIDE DEF base
<1>10. Progress'
  <2>1. CASE n < Len(a)
    <3>1. n + 1 \in 1 .. Len(a) /\ n + 1 - 1 = n /\ n # Len(a)
      BY <1>4, <1>5, <2>1
    <3>2. Given' = IF n + 1 < 2 THEN 0 ELSE n + 1 - 2
      <4>1. Given' = IF Len(evaluated') < 2 THEN 0 ELSE Len(evaluated') - 2
        BY DEF Given
      <4>2. Len(evaluated') = n + 1
        BY <1>6
      <4>3. n \in Int
        BY <1>4, <1>5
      <4> QED BY <4>1, <4>2, <4>3
    <3>3. a' = a /\ d' = d
      BY <1>1 DEF a, d, K
    <3>4. /\ Len(evaluated') \in 1 .. Len(a)
          /\ evaluated' = <<"audience">> \o SubSeq(a, 1, Len(evaluated') - 1)
          /\ given'.additional = Inserted(ctx.additional, SubSeq(d, 1, Given'))
      <4>1. Len(evaluated') = n + 1 /\ evaluated' = <<"audience">> \o SubSeq(a, 1, n)
        BY <1>6
      <4>2. given'.additional = Inserted(base, SubSeq(d, 1, Given'))
        BY <1>8, <2>1, <3>2
      <4>3. Len(evaluated') - 1 = n
        BY <1>4, <1>5, <4>1
      <4> QED BY <3>1, <4>1, <4>2, <4>3 DEF base
    <3>5. PartlyEvaluated'
      BY <1>1, <3>3, <3>4 DEF PartlyEvaluated, a, d, K
    <3> QED BY <1>1, <1>2, <2>1, <3>1, <3>5 DEF Progress
  <2>2. CASE n = Len(a)
    <3>1. evaluated' = <<"audience">> \o a
      <4>1. Len(a) \in 0 .. Len(a)
        BY <1>4
      <4>2. SubSeq(a, 1, Len(a)) = a
        BY <1>4, <4>1, StartOf
      <4> QED BY <1>6, <2>2, <4>2
    <3>2. given'.additional = KvMap(Kvs(call), ctx.additional)
      BY <1>9, <2>2 DEF KvMap, base, d, K
    <3>3. Evaluated'
      BY <1>1, <1>2, <3>1, <3>2 DEF Evaluated, a
    <3> QED BY <1>1, <1>2, <2>2, <3>3 DEF Progress
  <2> QED BY <1>4, <1>5, <2>1, <2>2
<1> QED BY <1>1, <1>7, <1>10 DEF IInv

(* should_log comes behind the arguments and writes nothing.                *)
LEMMA KeepShouldLog ==
  ASSUME IInv, ShouldLog
  PROVE  IInv'
<1>1. /\ Context(ctx) /\ DOMAIN given = Kinds /\ given.field = ctx.field /\ given.request = ctx.request
      /\ pc' \in {"text", "done"}
      /\ UNCHANGED <<call, evaluated, given, features, filter, builds, ctx, display, json, record, attributes>>
      /\ Evaluated /\ NothingWritten /\ attributes = NoKeys
  BY ProgressAt DEF IInv, ShouldLog, UnchangedContext, UnchangedOutput
<1>2. NothingWritten' /\ Evaluated'
  BY <1>1, CallFrozen DEF NothingWritten, Evaluated
<1>3. Progress'
  BY <1>1, <1>2 DEF Progress
<1> QED BY <1>1, <1>3 DEF IInv

(* The lines, the record and the attributes are written from a call that    *)
(* stays as it is.                                                          *)
LEMMA KeepWriteText ==
  ASSUME IInv, WriteText
  PROVE  IInv'
<1>1. /\ Context(ctx) /\ DOMAIN given = Kinds /\ given.field = ctx.field /\ given.request = ctx.request
      /\ pc' = "record" /\ display' = write_display_direct /\ json' = write_json_direct
      /\ UNCHANGED <<call, evaluated, given, features, filter, builds, ctx, record, attributes>>
      /\ Evaluated /\ NothingWritten /\ attributes = NoKeys
  BY ProgressAt DEF IInv, WriteText, UnchangedContext
<1>2. Evaluated'
  BY <1>1, CallFrozen DEF Evaluated
<1>3. TextWritten'
  BY <1>1, <1>2, CallFrozen DEF TextWritten
<1>4. Progress'
  BY <1>1, <1>3 DEF Progress, NothingWritten
<1> QED BY <1>1, <1>4 DEF IInv

(* from_direct builds the record from what was evaluated and written.       *)
LEMMA KeepBuildRecord ==
  ASSUME IInv, BuildRecord
  PROVE  IInv'
<1>1. /\ Context(ctx) /\ DOMAIN given = Kinds /\ given.field = ctx.field /\ given.request = ctx.request
      /\ pc' = "sink" /\ record' = from_direct
      /\ UNCHANGED <<call, evaluated, given, features, filter, builds, ctx, display, json, attributes>>
      /\ TextWritten /\ attributes = NoKeys
  BY ProgressAt DEF IInv, BuildRecord, UnchangedContext
<1>2. RecordBuilt'
  BY <1>1, CallFrozen DEF RecordBuilt, TextWritten, Evaluated
<1>3. Progress'
  BY <1>1, <1>2 DEF Progress
<1> QED BY <1>1, <1>3 DEF IInv

(* A record the exporter does not accept gets no attributes.                *)
LEMMA KeepFiltered ==
  ASSUME IInv, Filtered
  PROVE  IInv'
<1>1. /\ Context(ctx) /\ DOMAIN given = Kinds /\ given.field = ctx.field /\ given.request = ctx.request
      /\ pc' = "done" /\ ~Accepts(record)
      /\ UNCHANGED <<call, evaluated, given, features, filter, builds, ctx, display, json, record, attributes>>
      /\ RecordBuilt /\ attributes = NoKeys
  BY ProgressAt DEF IInv, Filtered, UnchangedContext, UnchangedOutput
<1>2. RecordBuilt'
  BY <1>1, CallFrozen DEF RecordBuilt, TextWritten, Evaluated
<1>3. ~Accepts(record)'
  BY <1>1 DEF Accepts
<1>4. Progress'
  BY <1>1, <1>2, <1>3 DEF Progress
<1> QED BY <1>1, <1>4 DEF IInv

(* The mapper turns the record that was built into attributes.              *)
LEMMA KeepMap ==
  ASSUME IInv, Map
  PROVE  IInv'
<1>1. /\ Context(ctx) /\ DOMAIN given = Kinds /\ given.field = ctx.field /\ given.request = ctx.request
      /\ pc' = "done" /\ Accepts(record) /\ attributes' = Mapped(record)
      /\ UNCHANGED <<call, evaluated, given, features, filter, builds, ctx, display, json, record>>
      /\ RecordBuilt /\ attributes = NoKeys
  BY ProgressAt DEF IInv, Map, UnchangedContext
<1>2. RecordBuilt'
  BY <1>1, CallFrozen DEF RecordBuilt, TextWritten, Evaluated
<1>3. Accepts(record)' /\ attributes' = Mapped(record')
  BY <1>1 DEF Accepts
<1>4. Progress'
  BY <1>1, <1>2, <1>3 DEF Progress
<1> QED BY <1>1, <1>4 DEF IInv

(* And so has every state, whatever the application logs.                   *)
THEOREM IInvHolds == Spec => []IInv
<1>1. Init => IInv
  BY InitIInv
<1>2. IInv /\ [Next]_vars => IInv'
  <2> SUFFICES ASSUME IInv, [Next]_vars PROVE IInv'
    OBVIOUS
  <2>1. CASE UNCHANGED vars
    <3>1. UNCHANGED <<features, filter, builds, ctx, call, pc, evaluated, display, json, record,
                      attributes, given>>
      BY <2>1 DEF vars
    <3>2. Progress'
      <4>1. /\ Evaluated' = Evaluated /\ Enabled' = Enabled /\ NothingWritten' = NothingWritten
            /\ TextWritten' = TextWritten /\ RecordBuilt' = RecordBuilt
        BY <3>1, CallFrozen DEF Evaluated, NothingWritten, TextWritten, RecordBuilt
      <4>2. PartlyEvaluated' = PartlyEvaluated
        BY <3>1 DEF PartlyEvaluated, Given
      <4>3. Accepts(record)' = Accepts(record)
        BY <3>1 DEF Accepts
      <4>4. Progress
        BY DEF IInv
      <4> QED BY <3>1, <4>1, <4>2, <4>3, <4>4 DEF Progress
    <3> QED BY <3>1, <3>2 DEF IInv
  <2> QED BY <2>1, KeepBuildContext, KeepWithRequest, KeepExpand, KeepEvaluateAudience,
             KeepEvaluateArgument, KeepShouldLog, KeepWriteText, KeepBuildRecord, KeepFiltered,
             KeepMap DEF Next
<1> QED BY <1>1, <1>2, PTL DEF Spec

-----------------------------------------------------------------------------
(* The keys of a line are finite in number.                                 *)
LEMMA KeysFinite ==
  ASSUME NEW s, IsLine(s)
  PROVE  IsFiniteSet(KeysOf(s))
<1>1. PICK E : s \in Seq(E)
  BY DEF IsLine
<1>2. DOMAIN s = 1 .. Len(s) /\ Len(s) \in Nat
  BY <1>1
<1> DEFINE f == [i \in DOMAIN s |-> s[i].key]
<1>3. f \in Surjection(1 .. Len(s), KeysOf(s))
  BY <1>2 DEF Surjection, KeysOf
<1>4. IsFiniteSet(1 .. Len(s))
  BY <1>2, FS_Interval
<1> HIDE DEF f
<1> QED BY <1>3, <1>4, FS_Surjection

(* So are the fields.                                                       *)
LEMMA FieldsFinite ==
  ASSUME NEW S, S \subseteq Field
  PROVE  IsFiniteSet(S)
<1>1. IsFiniteSet({"feature"})
  BY FS_Singleton
<1>2. IsFiniteSet({"feature"} \cup {"function"})
  BY <1>1, FS_AddElement
<1>3. IsFiniteSet(({"feature"} \cup {"function"}) \cup {"error_code"})
  BY <1>2, FS_AddElement
<1>4. IsFiniteSet((({"feature"} \cup {"function"}) \cup {"error_code"}) \cup {"error_category"})
  BY <1>3, FS_AddElement
<1>5. Field = (({"feature"} \cup {"function"}) \cup {"error_code"}) \cup {"error_category"}
  BY DEF Field
<1>6. IsFiniteSet(Field)
  BY <1>4, <1>5
<1> QED BY <1>6, FS_Subset

(* The OTLP names of the fields differ, and none is that of another         *)
(* attribute.                                                               *)
LEMMA NamesDiffer ==
  /\ \A f, g \in Field : AttributeName[f] = AttributeName[g] => f = g
  /\ \A f \in Field : AttributeName[f] \notin {"eden.audience", "code.file.path", "code.line.number"}
BY DEF Field, AttributeName

(* What write_display makes of members: the same keys, each with its text.  *)
LEMMA PlainLine ==
  ASSUME NEW s, IsLine(s)
  PROVE  /\ IsLine(PlainMembers(s)) /\ KeysOf(PlainMembers(s)) = KeysOf(s)
         /\ \A k \in KeysOf(s) : LastOf(PlainMembers(s), k) = Plain(LastOf(s, k))
<1>1. PICK E : s \in Seq(E)
  BY DEF IsLine
<1> DEFINE t == PlainMembers(s)
           F == {Member(s[i].key, Plain(s[i].value)) : i \in DOMAIN s}
<1>2. t = [i \in DOMAIN s |-> Member(s[i].key, Plain(s[i].value))]
  BY DEF PlainMembers
<1> HIDE DEF t
<1>3. t \in Seq(F) /\ DOMAIN t = DOMAIN s
  BY <1>1, <1>2
<1>4. \A i \in DOMAIN s : t[i].key = s[i].key /\ t[i].value = Plain(s[i].value)
  BY <1>2 DEF Member
<1>5. IsLine(t)
  BY <1>3 DEF IsLine
<1> HIDE DEF F
<1>6. /\ KeysOf(t) = KeysOf(s)
      /\ \A k \in KeysOf(s) : \E i \in DOMAIN s : LastOf(s, k) = s[i].value /\ LastOf(t, k) = t[i].value
  BY <1>1, <1>3, <1>4, LastOfMapped
<1>7. \A k \in KeysOf(s) : LastOf(t, k) = Plain(LastOf(s, k))
  BY <1>4, <1>6
<1> QED BY <1>5, <1>6, <1>7 DEF t

(* And what the JSON line makes of them.                                    *)
LEMMA JsonLine ==
  ASSUME NEW s, IsLine(s)
  PROVE  /\ IsLine(JsonMembers(s)) /\ KeysOf(JsonMembers(s)) = KeysOf(s)
         /\ \A k \in KeysOf(s) : LastOf(JsonMembers(s), k) = JsonValue(LastOf(s, k))
         /\ DOMAIN JsonMembers(s) = DOMAIN s /\ Len(JsonMembers(s)) = Len(s) /\ Len(s) \in Nat
         /\ \A i \in DOMAIN s : JsonMembers(s)[i].value = JsonValue(s[i].value)
<1>1. PICK E : s \in Seq(E)
  BY DEF IsLine
<1> DEFINE t == JsonMembers(s)
           F == {Member(s[i].key, JsonValue(s[i].value)) : i \in DOMAIN s}
<1>2. t = [i \in DOMAIN s |-> Member(s[i].key, JsonValue(s[i].value))]
  BY DEF JsonMembers
<1> HIDE DEF t
<1>3. t \in Seq(F) /\ DOMAIN t = DOMAIN s /\ Len(t) = Len(s) /\ Len(s) \in Nat
  BY <1>1, <1>2
<1>4. \A i \in DOMAIN s : t[i].key = s[i].key /\ t[i].value = JsonValue(s[i].value)
  BY <1>2 DEF Member
<1>5. IsLine(t)
  BY <1>3 DEF IsLine
<1> HIDE DEF F
<1>6. /\ KeysOf(t) = KeysOf(s)
      /\ \A k \in KeysOf(s) : \E i \in DOMAIN s : LastOf(s, k) = s[i].value /\ LastOf(t, k) = t[i].value
  BY <1>1, <1>3, <1>4, LastOfMapped
<1>7. \A k \in KeysOf(s) : LastOf(t, k) = JsonValue(LastOf(s, k))
  BY <1>4, <1>6
<1> QED BY <1>3, <1>4, <1>5, <1>6, <1>7 DEF t

-----------------------------------------------------------------------------
(* What the attributes of a record are: the record's own, its fields, its   *)
(* request and its additional data, the first of them that has the key.     *)
Located(log) == IF log.location = None THEN {} ELSE {"code.file.path", "code.line.number"}
FieldNames(fields) == {AttributeName[f] : f \in DOMAIN fields}

(* The members one of the application's two methods writes: its keys        *)
(* differ, each has the value of its field, and there are finitely many.    *)
LEMMA KeyedByIs ==
  ASSUME NEW keyOf \in {DisplayKey, JsonKey}, NEW request, IsFiniteSet(DOMAIN request)
  PROVE  LET w == KeyedBy(keyOf, request)
         IN  /\ IsFiniteSet(DOMAIN w)
             /\ \A f \in DOMAIN request \cap DOMAIN keyOf :
                   keyOf[f] \in DOMAIN w /\ w[keyOf[f]] = request[f]
             /\ \A k \in DOMAIN w : \E f \in DOMAIN request : w[k] = request[f]
<1> DEFINE written == DOMAIN request \cap DOMAIN keyOf
           w == KeyedBy(keyOf, request)
           Of(k) == CHOOSE f \in written : keyOf[f] = k
<1>1. /\ DOMAIN w = {keyOf[f] : f \in written}
      /\ \A k \in DOMAIN w : w[k] = request[Of(k)]
  BY DEF KeyedBy
<1>2. \A f, g \in DOMAIN keyOf : keyOf[f] = keyOf[g] => f = g
  BY EncodingAssumption DEF IsInjective
<1>3. IsFiniteSet(DOMAIN w)
  <2>1. IsFiniteSet(written)
    BY FS_Subset
  <2> DEFINE key == [f \in written |-> keyOf[f]]
             keys == {keyOf[f] : f \in written}
  <2>2. key \in Surjection(written, keys)
    <3> HIDE DEF written
    <3> QED BY DEF Surjection
  <2> HIDE DEF key, keys, written, w, Of
  <2>3. IsFiniteSet(keys)
    BY <2>1, <2>2, FS_Surjection
  <2> QED BY <1>1, <2>3 DEF keys
<1>4. \A k \in DOMAIN w : Of(k) \in written /\ keyOf[Of(k)] = k
  BY <1>1
<1> HIDE DEF w, Of
<1>5. ASSUME NEW f \in written PROVE keyOf[f] \in DOMAIN w /\ w[keyOf[f]] = request[f]
  <2>1. keyOf[f] \in DOMAIN w
    BY <1>1
  <2>2. Of(keyOf[f]) = f
    BY <1>2, <1>4, <2>1
  <2> QED BY <1>1, <2>1, <2>2
<1>6. \A k \in DOMAIN w : \E f \in DOMAIN request : w[k] = request[f]
  BY <1>1, <1>4
<1> QED BY <1>3, <1>5, <1>6 DEF w

(* What a record's or a context's request gives to the other two formats.   *)
RequestOf(log) == KeyedBy(JsonKey, log.request)

(* The mapper's attributes: the record's own and the code location win      *)
(* over the request's, and those over the additional data.                  *)
LEMMA MappedIs ==
  ASSUME NEW log, IsFiniteSet(DOMAIN log.additional), IsFiniteSet(DOMAIN log.request),
         DOMAIN log.field \subseteq Field
  PROVE  LET own == Located(log) \cup {"eden.audience"} \cup FieldNames(log.field)
             m == Mapped(log)
         IN  /\ DOMAIN m = own \cup DOMAIN RequestOf(log) \cup DOMAIN log.additional
             /\ \A f \in DOMAIN log.field : m[AttributeName[f]] = log.field[f]
             /\ m["eden.audience"] = [name |-> AudienceText[log.audience]]
             /\ log.location # None => m["code.file.path"] = [text |-> log.location.file]
             /\ \A k \in DOMAIN RequestOf(log) \ own : m[k] = AttributeValue(RequestOf(log)[k])
             /\ \A k \in DOMAIN log.additional \ (own \cup DOMAIN RequestOf(log)) : m[k] = log.additional[k]
<1> DEFINE fields == SetToSeq(DOMAIN log.field)
           Q == [key \in DOMAIN RequestOf(log) |-> AttributeValue(RequestOf(log)[key])]
           la == Members(log.additional)
           lq == Members(Q)
           aud == [name |-> AudienceText[log.audience]]
           lu == <<Member("eden.audience", aud)>>
           lf == [i \in DOMAIN fields |-> Member(AttributeName[fields[i]], log.field[fields[i]])]
           ll == IF log.location = None THEN <<>>
                 ELSE <<Member("code.file.path", [text |-> log.location.file]),
                        Member("code.line.number", [number |-> log.location.line])>>
           x2 == la \o lq
           x3 == x2 \o lu
           x4 == x3 \o lf
           x5 == x4 \o ll
<1>0. IsFiniteSet(DOMAIN RequestOf(log))
  BY KeyedByIs DEF RequestOf
<1>1. Mapped(log) = Inserted(NoKeys, x5)
  BY DEF Mapped, RequestOf
<1>2. IsLine(la) /\ KeysOf(la) = DOMAIN log.additional
      /\ \A k \in DOMAIN log.additional : LastOf(la, k) = log.additional[k]
  BY MembersOf
<1>3. IsLine(lq) /\ KeysOf(lq) = DOMAIN RequestOf(log)
      /\ \A k \in DOMAIN RequestOf(log) : LastOf(lq, k) = AttributeValue(RequestOf(log)[k])
  <2>1. DOMAIN Q = DOMAIN RequestOf(log) /\ \A k \in DOMAIN RequestOf(log) : Q[k] = AttributeValue(RequestOf(log)[k])
    OBVIOUS
  <2> HIDE DEF Q
  <2>2. IsLine(Members(Q)) /\ KeysOf(Members(Q)) = DOMAIN Q
        /\ \A k \in DOMAIN Q : LastOf(Members(Q), k) = Q[k]
    BY <1>0, <2>1, MembersOf
  <2> QED BY <2>1, <2>2
<1>4. IsLine(lu) /\ KeysOf(lu) = {"eden.audience"} /\ LastOf(lu, "eden.audience") = aud
  <2> HIDE DEF aud
  <2> QED BY OneMember
<1>5. /\ IsLine(lf) /\ KeysOf(lf) = FieldNames(log.field)
      /\ \A f \in DOMAIN log.field : LastOf(lf, AttributeName[f]) = log.field[f]
  <2>1. IsFiniteSet(DOMAIN log.field)
    BY FieldsFinite
  <2>2. fields \in Seq(DOMAIN log.field) /\ {fields[i] : i \in DOMAIN fields} = DOMAIN log.field
    BY <2>1, SetInSequence
  <2> HIDE DEF fields
  <2>3. /\ DOMAIN fields = 1 .. Len(fields) /\ Len(fields) \in Nat
        /\ \A i \in DOMAIN fields : fields[i] \in DOMAIN log.field
    BY <2>2
  <2> DEFINE E == {Member(AttributeName[f], log.field[f]) : f \in DOMAIN log.field}
  <2>4. lf \in Seq(E)
    BY <2>3
  <2>5. /\ DOMAIN lf = DOMAIN fields
        /\ \A i \in DOMAIN fields : /\ lf[i].key = AttributeName[fields[i]]
                                    /\ lf[i].value = log.field[fields[i]]
    BY DEF Member
  <2> HIDE DEF E, lf
  <2>6. IsLine(lf)
    BY <2>4 DEF IsLine
  <2>7. KeysOf(lf) = FieldNames(log.field)
    <3>1. KeysOf(lf) = {lf[i].key : i \in DOMAIN lf}
      BY DEF KeysOf
    <3>2. \A k \in KeysOf(lf) : k \in FieldNames(log.field)
      BY <2>3, <2>5, <3>1 DEF FieldNames
    <3>3. ASSUME NEW k \in FieldNames(log.field) PROVE k \in KeysOf(lf)
      <4>1. PICK f \in DOMAIN log.field : k = AttributeName[f]
        BY DEF FieldNames
      <4>2. PICK i \in DOMAIN fields : fields[i] = f
        BY <2>2
      <4> QED BY <2>5, <3>1, <4>1, <4>2
    <3> QED BY <3>2, <3>3
  <2>8. ASSUME NEW f \in DOMAIN log.field PROVE LastOf(lf, AttributeName[f]) = log.field[f]
    <3>1. AttributeName[f] \in KeysOf(lf)
      BY <2>7 DEF FieldNames
    <3>2. PICK i \in DOMAIN lf : lf[i].key = AttributeName[f] /\ LastOf(lf, AttributeName[f]) = lf[i].value
      BY <2>6, <3>1, LastMember
    <3>3. fields[i] = f
      <4>1. fields[i] \in Field /\ f \in Field /\ AttributeName[fields[i]] = AttributeName[f]
        BY <2>3, <2>5, <3>2
      <4> QED BY <4>1, NamesDiffer
    <3> QED BY <2>5, <3>2, <3>3
  <2> QED BY <2>6, <2>7, <2>8
<1>6. /\ IsLine(ll) /\ KeysOf(ll) = Located(log)
      /\ log.location # None => LastOf(ll, "code.file.path") = [text |-> log.location.file]
  <2>1. CASE log.location = None
    BY <2>1, EmptyLine DEF Located
  <2>2. CASE log.location # None
    <3> DEFINE u == [text |-> log.location.file]
               v == [number |-> log.location.line]
               a == Member("code.file.path", u)
               b == Member("code.line.number", v)
               oa == <<a>>
               ob == <<b>>
    <3>1. /\ IsLine(oa) /\ KeysOf(oa) = {"code.file.path"} /\ LastOf(oa, "code.file.path") = u
          /\ IsLine(ob) /\ KeysOf(ob) = {"code.line.number"}
      <4> HIDE DEF u, v
      <4> QED BY OneMember
    <3>2. ll = oa \o ob
      <4>1. ll = <<a, b>>
        BY <2>2
      <4> HIDE DEF a, b, ll
      <4>2. a \in {a, b} /\ b \in {a, b}
        OBVIOUS
      <4> QED BY <4>1, <4>2, JoinOnes
    <3> HIDE DEF oa, ob, u, v, a, b, ll
    <3>3. /\ IsLine(oa \o ob) /\ KeysOf(oa \o ob) = {"code.file.path", "code.line.number"}
          /\ LastOf(oa \o ob, "code.file.path") = u
      <4>1. "code.file.path" \in KeysOf(oa) \ KeysOf(ob)
        BY <3>1
      <4>2. /\ IsLine(oa \o ob) /\ KeysOf(oa \o ob) = KeysOf(oa) \cup KeysOf(ob)
            /\ \A k \in KeysOf(oa) \ KeysOf(ob) : LastOf(oa \o ob, k) = LastOf(oa, k)
        BY <3>1, LinesJoined
      <4> QED BY <3>1, <4>1, <4>2
    <3> QED BY <2>2, <3>2, <3>3 DEF Located, u
  <2> QED BY <2>1, <2>2
<1> HIDE DEF fields, Q, la, lq, lu, lf, ll, x2, x3, x4, x5, aud
<1>7. /\ IsLine(x2) /\ KeysOf(x2) = KeysOf(la) \cup KeysOf(lq)
      /\ \A k \in KeysOf(lq) : LastOf(x2, k) = LastOf(lq, k)
      /\ \A k \in KeysOf(la) \ KeysOf(lq) : LastOf(x2, k) = LastOf(la, k)
  BY <1>2, <1>3, LinesJoined DEF x2
<1>8. /\ IsLine(x3) /\ KeysOf(x3) = KeysOf(x2) \cup KeysOf(lu)
      /\ \A k \in KeysOf(lu) : LastOf(x3, k) = LastOf(lu, k)
      /\ \A k \in KeysOf(x2) \ KeysOf(lu) : LastOf(x3, k) = LastOf(x2, k)
  BY <1>4, <1>7, LinesJoined DEF x3
<1>9. /\ IsLine(x4) /\ KeysOf(x4) = KeysOf(x3) \cup KeysOf(lf)
      /\ \A k \in KeysOf(lf) : LastOf(x4, k) = LastOf(lf, k)
      /\ \A k \in KeysOf(x3) \ KeysOf(lf) : LastOf(x4, k) = LastOf(x3, k)
  BY <1>5, <1>8, LinesJoined DEF x4
<1>10. /\ IsLine(x5) /\ KeysOf(x5) = KeysOf(x4) \cup KeysOf(ll)
       /\ \A k \in KeysOf(ll) : LastOf(x5, k) = LastOf(ll, k)
       /\ \A k \in KeysOf(x4) \ KeysOf(ll) : LastOf(x5, k) = LastOf(x4, k)
  BY <1>6, <1>9, LinesJoined DEF x5
<1> DEFINE m == Mapped(log)
           own == Located(log) \cup {"eden.audience"} \cup FieldNames(log.field)
<1>11. DOMAIN m = KeysOf(x5) /\ \A k \in KeysOf(x5) : m[k] = LastOf(x5, k)
  <2>1. PICK E : x5 \in Seq(E)
    BY <1>10 DEF IsLine
  <2>2. DOMAIN NoKeys = {}
    BY DEF NoKeys
  <2>3. /\ DOMAIN Inserted(NoKeys, x5) = KeysOf(x5) \cup DOMAIN NoKeys
        /\ \A k \in KeysOf(x5) : Inserted(NoKeys, x5)[k] = LastOf(x5, k)
    <3> DEFINE base == NoKeys
    <3> HIDE DEF m, own, base
    <3>1. /\ DOMAIN Inserted(base, x5) = KeysOf(x5) \cup DOMAIN base
          /\ \A k \in KeysOf(x5) : Inserted(base, x5)[k] = LastOf(x5, k)
          /\ \A k \in DOMAIN base \ KeysOf(x5) : Inserted(base, x5)[k] = base[k]
      BY <2>1, InsertedIs, Zenon
    <3> QED BY <3>1 DEF base
  <2> QED BY <1>1, <2>2, <2>3
<1> HIDE DEF m
<1>12. /\ Located(log) \subseteq {"code.file.path", "code.line.number"}
       /\ \A k \in FieldNames(log.field) : k \notin {"eden.audience", "code.file.path", "code.line.number"}
       /\ log.location # None => "code.file.path" \in Located(log)
       /\ "eden.audience" \notin {"code.file.path", "code.line.number"}
  BY NamesDiffer DEF Located, FieldNames
<1>13. DOMAIN m = own \cup DOMAIN RequestOf(log) \cup DOMAIN log.additional
  BY <1>2, <1>3, <1>4, <1>5, <1>6, <1>7, <1>8, <1>9, <1>10, <1>11
<1>14. \A k \in Located(log) : m[k] = LastOf(ll, k)
  BY <1>6, <1>10, <1>11
<1>15. \A k \in KeysOf(x4) \ Located(log) : m[k] = LastOf(x4, k)
  BY <1>6, <1>10, <1>11
<1>16. ASSUME NEW f \in DOMAIN log.field PROVE m[AttributeName[f]] = log.field[f]
  <2> DEFINE k == AttributeName[f]
  <2>1. k \in FieldNames(log.field)
    BY DEF FieldNames
  <2>2. LastOf(lf, k) = log.field[f]
    BY <1>5
  <2> HIDE DEF k
  <2>3. k \in KeysOf(lf) /\ k \in KeysOf(x4) \ Located(log)
    BY <1>5, <1>9, <1>12, <2>1
  <2>4. m[k] = LastOf(x4, k) /\ LastOf(x4, k) = LastOf(lf, k)
    BY <1>9, <1>15, <2>3
  <2> QED BY <2>2, <2>4 DEF k
<1>17. m["eden.audience"] = aud
  <2>1. "eden.audience" \in KeysOf(lu) /\ "eden.audience" \in KeysOf(x3) \ KeysOf(lf)
    BY <1>4, <1>5, <1>8, <1>12
  <2>2. "eden.audience" \in KeysOf(x4) \ Located(log)
    BY <1>9, <1>12, <2>1
  <2> QED BY <1>4, <1>8, <1>9, <1>15, <2>1, <2>2
<1>18. ASSUME NEW k \in KeysOf(x2), k \notin own PROVE m[k] = LastOf(x2, k)
  <2>1. k \in KeysOf(x2) \ KeysOf(lu)
    BY <1>4, <1>18
  <2>2. k \in KeysOf(x3) \ KeysOf(lf)
    BY <1>5, <1>8, <1>18, <2>1
  <2>3. k \in KeysOf(x4) \ Located(log)
    BY <1>9, <1>18, <2>2
  <2> QED BY <1>8, <1>9, <1>15, <2>1, <2>2, <2>3
<1>19. ASSUME NEW k \in DOMAIN RequestOf(log) \ own PROVE m[k] = AttributeValue(RequestOf(log)[k])
  BY <1>3, <1>7, <1>18
<1>20. ASSUME NEW k \in DOMAIN log.additional \ (own \cup DOMAIN RequestOf(log))
       PROVE  m[k] = log.additional[k]
  BY <1>2, <1>3, <1>7, <1>18
<1>21. log.location # None => m["code.file.path"] = [text |-> log.location.file]
  BY <1>6, <1>12, <1>14
<1> HIDE DEF own
<1>22. /\ DOMAIN m = own \cup DOMAIN RequestOf(log) \cup DOMAIN log.additional
       /\ \A f \in DOMAIN log.field : m[AttributeName[f]] = log.field[f]
       /\ m["eden.audience"] = aud
       /\ log.location # None => m["code.file.path"] = [text |-> log.location.file]
       /\ \A k \in DOMAIN RequestOf(log) \ own : m[k] = AttributeValue(RequestOf(log)[k])
       /\ \A k \in DOMAIN log.additional \ (own \cup DOMAIN RequestOf(log)) : m[k] = log.additional[k]
  BY <1>13, <1>16, <1>17, <1>19, <1>20, <1>21, Zenon
<1> QED BY <1>22 DEF m, own, aud

-----------------------------------------------------------------------------
(* What a display line holds: its own names, and of any other key the       *)
(* macro's value, or else the additional data, or else the request's.       *)
FieldKeys(fields) ==
    (IF "feature" \in DOMAIN fields THEN {"feature"} ELSE {})
    \cup (IF "function" \in DOMAIN fields THEN {"fn"} ELSE {})
    \cup (IF "error_code" \in DOMAIN fields THEN {"error"} ELSE {})
LocationKey(location) == IF location = None THEN {} ELSE {"location"}

(* The keys of a display line, and the last value of each that is not the   *)
(* line's own.                                                              *)
LEMMA DisplayIs ==
  ASSUME NEW fields, NEW request, NEW additional, NEW kvs, NEW message, NEW location,
         IsFiniteSet(DOMAIN request), IsFiniteSet(DOMAIN additional), IsLine(kvs)
  PROVE  LET line == write_display(fields, request, additional, kvs, message, location)
         IN  /\ IsLine(line)
             /\ KeysOf(line) = ((FieldKeys(fields) \cup {"msg"} \cup LocationKey(location))
                                  \cup DOMAIN request) \cup (DOMAIN additional \cup KeysOf(kvs))
             /\ \A k \in KeysOf(kvs) \ OwnNames : LastOf(line, k) = Plain(LastOf(kvs, k))
             /\ \A k \in DOMAIN additional \ (OwnNames \cup KeysOf(kvs)) :
                   LastOf(line, k) = Plain(additional[k])
             /\ \A k \in DOMAIN request \ ((OwnNames \cup KeysOf(kvs)) \cup DOMAIN additional) :
                   LastOf(line, k) = Plain(request[k])
<1> DEFINE o1 == Optional(fields, "feature", "feature")
           o2 == Optional(fields, "function", "fn")
           lr == Members(request)
           o3 == Optional(fields, "error_code", "error")
           la == Members(additional)
           lm == <<Member("msg", Text(message))>>
           x2 == o1 \o o2
           x3 == x2 \o lr
           x4 == x3 \o o3
           x5 == x4 \o la
           x6 == x5 \o kvs
           x7 == x6 \o lm
           p == PlainMembers(x7)
           ll == IF location = None THEN <<>> ELSE <<Member("location", location)>>
           line == p \o ll
<1>1. line = write_display(fields, request, additional, kvs, message, location)
  BY DEF write_display
<1>2. /\ IsLine(o1) /\ KeysOf(o1) = IF "feature" \in DOMAIN fields THEN {"feature"} ELSE {}
      /\ IsLine(o2) /\ KeysOf(o2) = IF "function" \in DOMAIN fields THEN {"fn"} ELSE {}
      /\ IsLine(o3) /\ KeysOf(o3) = IF "error_code" \in DOMAIN fields THEN {"error"} ELSE {}
  BY OptionalIs
<1>3. IsLine(lr) /\ KeysOf(lr) = DOMAIN request /\ \A k \in DOMAIN request : LastOf(lr, k) = request[k]
  BY MembersOf
<1>4. IsLine(la) /\ KeysOf(la) = DOMAIN additional
      /\ \A k \in DOMAIN additional : LastOf(la, k) = additional[k]
  BY MembersOf
<1>5. IsLine(lm) /\ KeysOf(lm) = {"msg"}
  BY OneMember
<1>6. IsLine(ll) /\ KeysOf(ll) = LocationKey(location)
  BY EmptyLine, OneMember DEF LocationKey
<1> HIDE DEF o1, o2, lr, o3, la, lm, x2, x3, x4, x5, x6, x7, p, ll, line
<1>12. IsLine(x2) /\ KeysOf(x2) = KeysOf(o1) \cup KeysOf(o2)
  BY <1>2, LinesJoined DEF x2
<1>13. /\ IsLine(x3) /\ KeysOf(x3) = KeysOf(x2) \cup KeysOf(lr)
       /\ \A k \in KeysOf(lr) : LastOf(x3, k) = LastOf(lr, k)
  BY <1>3, <1>12, LinesJoined DEF x3
<1>14. /\ IsLine(x4) /\ KeysOf(x4) = KeysOf(x3) \cup KeysOf(o3)
       /\ \A k \in KeysOf(x3) \ KeysOf(o3) : LastOf(x4, k) = LastOf(x3, k)
  BY <1>2, <1>13, LinesJoined DEF x4
<1>15. /\ IsLine(x5) /\ KeysOf(x5) = KeysOf(x4) \cup KeysOf(la)
       /\ \A k \in KeysOf(la) : LastOf(x5, k) = LastOf(la, k)
       /\ \A k \in KeysOf(x4) \ KeysOf(la) : LastOf(x5, k) = LastOf(x4, k)
  BY <1>4, <1>14, LinesJoined DEF x5
<1>16. /\ IsLine(x6) /\ KeysOf(x6) = KeysOf(x5) \cup KeysOf(kvs)
       /\ \A k \in KeysOf(kvs) : LastOf(x6, k) = LastOf(kvs, k)
       /\ \A k \in KeysOf(x5) \ KeysOf(kvs) : LastOf(x6, k) = LastOf(x5, k)
  BY <1>15, LinesJoined DEF x6
<1>17. /\ IsLine(x7) /\ KeysOf(x7) = KeysOf(x6) \cup KeysOf(lm)
       /\ \A k \in KeysOf(x6) \ KeysOf(lm) : LastOf(x7, k) = LastOf(x6, k)
  BY <1>5, <1>16, LinesJoined DEF x7
<1>18. /\ IsLine(p) /\ KeysOf(p) = KeysOf(x7)
       /\ \A k \in KeysOf(x7) : LastOf(p, k) = Plain(LastOf(x7, k))
  BY <1>17, PlainLine DEF p
<1>19. /\ IsLine(line) /\ KeysOf(line) = KeysOf(p) \cup KeysOf(ll)
       /\ \A k \in KeysOf(p) \ KeysOf(ll) : LastOf(line, k) = LastOf(p, k)
  BY <1>6, <1>18, LinesJoined DEF line
<1>20. /\ \A k : k \notin OwnNames => k \notin KeysOf(lm) /\ k \notin KeysOf(ll) /\ k \notin KeysOf(o3)
  BY <1>2, <1>5, <1>6 DEF OwnNames, LocationKey
<1>21. \A k \in KeysOf(x6) : k \notin OwnNames => LastOf(line, k) = Plain(LastOf(x6, k))
  BY <1>17, <1>18, <1>19, <1>20
<1>22. KeysOf(line) = ((FieldKeys(fields) \cup {"msg"} \cup LocationKey(location))
                         \cup DOMAIN request) \cup (DOMAIN additional \cup KeysOf(kvs))
  <2>1. KeysOf(x2) \cup KeysOf(o3) = FieldKeys(fields)
    BY <1>2, <1>12 DEF FieldKeys
  <2>2. KeysOf(line) = (((((KeysOf(x2) \cup DOMAIN request) \cup KeysOf(o3)) \cup DOMAIN additional)
                           \cup KeysOf(kvs)) \cup {"msg"}) \cup LocationKey(location)
    BY <1>3, <1>4, <1>5, <1>6, <1>13, <1>14, <1>15, <1>16, <1>17, <1>18, <1>19
  <2> QED BY <2>1, <2>2
<1>23. ASSUME NEW k \in KeysOf(kvs) \ OwnNames PROVE LastOf(line, k) = Plain(LastOf(kvs, k))
  BY <1>16, <1>21
<1>24. ASSUME NEW k \in DOMAIN additional \ (OwnNames \cup KeysOf(kvs))
       PROVE  LastOf(line, k) = Plain(additional[k])
  <2>1. k \in KeysOf(x6) /\ LastOf(x6, k) = LastOf(x5, k) /\ LastOf(x5, k) = additional[k]
    BY <1>4, <1>15, <1>16
  <2> QED BY <1>21, <2>1
<1>25. ASSUME NEW k \in DOMAIN request \ ((OwnNames \cup KeysOf(kvs)) \cup DOMAIN additional)
       PROVE  LastOf(line, k) = Plain(request[k])
  <2>1. k \in KeysOf(x3) \ KeysOf(o3) /\ LastOf(x3, k) = request[k]
    BY <1>3, <1>13, <1>20
  <2>2. k \in KeysOf(x4) \ KeysOf(la) /\ LastOf(x4, k) = request[k]
    BY <1>4, <1>14, <2>1
  <2>3. k \in KeysOf(x5) \ KeysOf(kvs) /\ LastOf(x5, k) = request[k]
    BY <1>15, <2>2
  <2>4. k \in KeysOf(x6) /\ LastOf(x6, k) = request[k]
    BY <1>16, <2>3
  <2> QED BY <1>21, <2>4
<1>26. /\ IsLine(line)
       /\ KeysOf(line) = ((FieldKeys(fields) \cup {"msg"} \cup LocationKey(location))
                            \cup DOMAIN request) \cup (DOMAIN additional \cup KeysOf(kvs))
       /\ \A k \in KeysOf(kvs) \ OwnNames : LastOf(line, k) = Plain(LastOf(kvs, k))
       /\ \A k \in DOMAIN additional \ (OwnNames \cup KeysOf(kvs)) : LastOf(line, k) = Plain(additional[k])
       /\ \A k \in DOMAIN request \ ((OwnNames \cup KeysOf(kvs)) \cup DOMAIN additional) :
             LastOf(line, k) = Plain(request[k])
  BY <1>19, <1>22, <1>23, <1>24, <1>25, Zenon
<1> QED BY <1>1, <1>26, Zenon

-----------------------------------------------------------------------------
(* A value written by JsonFieldWriter reads as a text, and as what the      *)
(* display line shows if escaping keeps that.                               *)
LEMMA JsonValueReads ==
  ASSUME NEW value \in Value, NEW key
  PROVE  /\ Broken \notin ToSet(Reads(Member(key, JsonValue(value))))
         /\ Kept(Plain(value)) => Reads(Member(key, JsonValue(value))) = Plain(value)
<1> DEFINE m == Member(key, JsonValue(value))
<1>0. m.value = JsonValue(value)
  BY DEF Member
<1> HIDE DEF m
<1>1. CASE value \in Number
  <2>1. "number" \in DOMAIN value /\ value.number \in Nat
    BY <1>1 DEF Number
  <2>2. JsonValue(value) = value /\ Plain(value) = Digits(value.number)
    BY <2>1 DEF JsonValue, Plain
  <2>3. Reads(m) = Digits(value.number)
    BY <1>0, <2>1, <2>2 DEF Reads
  <2> DEFINE d == Digits(value.number)
  <2>4. d \in Seq(Byte)
    BY <2>1, DigitsType
  <2> HIDE DEF d
  <2>5. \A i \in DOMAIN d : d[i] \in Byte
    BY <2>4
  <2>6. Broken \notin Byte
    BY DEF Broken, Byte
  <2>7. Broken \notin ToSet(d)
    BY <2>5, <2>6 DEF ToSet
  <2> QED BY <2>2, <2>3, <2>7 DEF d, m
<1>2. CASE value \in TextValue
  <2>1. "number" \notin DOMAIN value /\ value.text \in Seq(Byte)
    BY <1>2 DEF TextValue
  <2> DEFINE e == write_json_escaped(value.text)
             t == Text(e)
  <2>2. JsonValue(value) = t /\ Plain(value) = value.text
    BY <2>1 DEF JsonValue, Plain
  <2>3. "number" \notin DOMAIN t /\ t.text = e
    BY DEF Text
  <2> HIDE DEF t
  <2>4. Reads(m) = ReadString(e)
    BY <1>0, <2>2, <2>3 DEF Reads
  <2>5. /\ e \in Seq(Byte)
        /\ \E v \in Seq(Byte) : Readable(e, v) /\ (Kept(value.text) => v = value.text)
    BY <2>1, EscapedReads
  <2> HIDE DEF e
  <2>6. PICK v \in Seq(Byte) : Readable(e, v) /\ (Kept(value.text) => v = value.text)
    BY <2>5
  <2>7. ReadString(e) = v /\ Broken \notin ToSet(ReadString(e))
    BY <2>5, <2>6, ReadStringIs
  <2> QED BY <2>2, <2>4, <2>6, <2>7 DEF m
<1> QED BY <1>1, <1>2 DEF Value

(* The same of the pieces of a value given to the macro.                    *)
LEMMA ChunksReadBack ==
  ASSUME NEW chunks \in Seq(Seq(Byte)), NEW m, m.value = Text(JsonEscapingWriter(chunks))
  PROVE  /\ Broken \notin ToSet(Reads(m))
         /\ (\A j \in DOMAIN chunks : Kept(chunks[j])) => Reads(m) = Formatted(chunks)
         /\ Kept(Formatted(chunks)) => Reads(m) = Formatted(chunks)
<1> DEFINE e == JsonEscapingWriter(chunks)
           t == Text(e)
<1>1. "number" \notin DOMAIN t /\ t.text = e
  BY DEF Text
<1>2. m.value = t
  OBVIOUS
<1> HIDE DEF t
<1>3. Reads(m) = ReadString(e)
  BY <1>1, <1>2 DEF Reads
<1>4. /\ e \in Seq(Byte)
      /\ \E v \in Seq(Byte) : /\ Readable(e, v)
                              /\ (\A j \in DOMAIN chunks : Kept(chunks[j])) => v = FlattenSeq(chunks)
  BY ChunksRead
<1> HIDE DEF e
<1>5. PICK v \in Seq(Byte) : /\ Readable(e, v)
                             /\ (\A j \in DOMAIN chunks : Kept(chunks[j])) => v = FlattenSeq(chunks)
  BY <1>4
<1>6. ReadString(e) = v /\ Broken \notin ToSet(ReadString(e))
  BY <1>4, <1>5, ReadStringIs
<1>7. Kept(Formatted(chunks)) => \A j \in DOMAIN chunks : Kept(chunks[j])
  BY KeptPieces DEF Formatted
<1> QED BY <1>3, <1>5, <1>6, <1>7 DEF Formatted

(* A line whose values are texts and numbers.                               *)
TypedLine(s) == IsLine(s) /\ \A i \in DOMAIN s : s[i].value \in Value

(* Typed lines joined are one.                                              *)
LEMMA TypedJoined ==
  ASSUME NEW a, NEW b, TypedLine(a), TypedLine(b)
  PROVE  TypedLine(a \o b)
<1>1. IsLine(a) /\ IsLine(b) /\ (\A i \in DOMAIN a : a[i].value \in Value)
      /\ \A i \in DOMAIN b : b[i].value \in Value
  BY DEF TypedLine
<1> DEFINE c == a \o b
<1>2. /\ IsLine(c)
      /\ KeysOf(c) = KeysOf(a) \cup KeysOf(b)
      /\ \A k \in KeysOf(b) : LastOf(c, k) = LastOf(b, k)
      /\ \A k \in KeysOf(a) \ KeysOf(b) : LastOf(c, k) = LastOf(a, k)
      /\ DOMAIN c = 1 .. Len(a) + Len(b)
      /\ \A i \in DOMAIN a : c[i] = a[i]
      /\ \A i \in DOMAIN b : i + Len(a) \in DOMAIN c /\ c[i + Len(a)] = b[i]
      /\ \A i \in DOMAIN c : i \in DOMAIN a \/ (i - Len(a) \in DOMAIN b /\ c[i] = b[i - Len(a)])
  BY <1>1, LinesJoined, Zenon
<1> HIDE DEF c
<1>3. /\ IsLine(c)
      /\ \A i \in DOMAIN a : c[i] = a[i]
      /\ \A i \in DOMAIN c : i \in DOMAIN a \/ (i - Len(a) \in DOMAIN b /\ c[i] = b[i - Len(a)])
  BY <1>2, Zenon
<1>4. \A i \in DOMAIN c : c[i].value \in Value
  BY <1>1, <1>3
<1> QED BY <1>3, <1>4 DEF TypedLine, c

(* Members of a map of such values, an optional one and a single one.       *)
LEMMA TypedMembers ==
  ASSUME NEW map, IsFiniteSet(DOMAIN map), \A k \in DOMAIN map : map[k] \in Value
  PROVE  /\ TypedLine(Members(map))
         /\ \A key, name : TypedLine(Optional(map, key, name))
<1>1. \A x, y : Member(x, y).value = y
  BY DEF Member
<1>2. IsLine(Members(map))
      /\ \A i \in DOMAIN Members(map) : \E k \in DOMAIN map : Members(map)[i] = Member(k, map[k])
  BY MembersOf
<1>3. TypedLine(Members(map))
  BY <1>1, <1>2 DEF TypedLine
<1>4. ASSUME NEW key, NEW name PROVE TypedLine(Optional(map, key, name))
  <2>1. IsLine(Optional(map, key, name))
        /\ \A i \in DOMAIN Optional(map, key, name) :
               key \in DOMAIN map /\ Optional(map, key, name)[i] = Member(name, map[key])
    BY OptionalIs
  <2> QED BY <1>1, <2>1 DEF TypedLine
<1> QED BY <1>3, <1>4

(* No member, and one with a value, is a typed line.                        *)
LEMMA TypedOne ==
  /\ TypedLine(<<>>)
  /\ \A key : \A value \in Value : TypedLine(<<Member(key, value)>>)
<1>1. TypedLine(<<>>)
  BY EmptyLine DEF TypedLine
<1>2. ASSUME NEW key, NEW value \in Value PROVE TypedLine(<<Member(key, value)>>)
  <2> DEFINE s == <<Member(key, value)>>
  <2>1. IsLine(s) /\ DOMAIN s = {1} /\ s[1] = Member(key, value)
    BY OneMember
  <2>2. Member(key, value).value = value
    BY DEF Member
  <2> HIDE DEF s
  <2>3. TypedLine(s)
    BY <2>1, <2>2 DEF TypedLine
  <2> QED BY <2>3 DEF s
<1> QED BY <1>1, <1>2

-----------------------------------------------------------------------------
(* The record of a call: the context and, over its additional data, the     *)
(* macro's values, which is what the application gave.                      *)
LEMMA RecordIs ==
  ASSUME IInv, RecordBuilt
  PROVE  /\ call \in Calls /\ Context(ctx) /\ display = write_display_direct /\ json = write_json_direct
         /\ record.level = call.level /\ record.audience = AudienceOf(call)
         /\ record.message = call.msg
         /\ record.location = (IF WithLocation THEN Location ELSE None)
         /\ record.field = ctx.field /\ record.field = given.field
         /\ record.request = ctx.request /\ record.request = given.request
         /\ record.additional = KvMap(Kvs(call), ctx.additional)
         /\ record.additional = given.additional
         /\ given.additional = KvMap(Kvs(call), ctx.additional)
<1>1. /\ call \in Calls /\ display = write_display_direct /\ json = write_json_direct
      /\ record = from_direct /\ given.additional = KvMap(Kvs(call), ctx.additional)
  BY DEF RecordBuilt, TextWritten, Evaluated, Enabled
<1>2. Context(ctx) /\ given.field = ctx.field /\ given.request = ctx.request
  BY DEF IInv
<1>3. /\ record.level = call.level /\ record.audience = AudienceOf(call)
      /\ record.message = call.msg
      /\ record.location = (IF WithLocation THEN Location ELSE None)
      /\ record.field = ctx.field /\ record.request = ctx.request
      /\ record.additional = KvMap(Kvs(call), ctx.additional)
  BY <1>1, Zenon DEF from_direct
<1> QED BY <1>1, <1>2, <1>3, Zenon

(* The additional data of a context with the macro's values: what it holds. *)
LEMMA AdditionalIs ==
  ASSUME NEW c \in Calls, NEW base, IsFiniteSet(DOMAIN base)
  PROVE  LET kvs == KvDisplay(Kvs(c))
             m == KvMap(Kvs(c), base)
         IN  /\ DOMAIN m = KeysOf(kvs) \cup DOMAIN base /\ IsFiniteSet(DOMAIN m)
             /\ \A k \in KeysOf(kvs) : m[k] = LastOf(kvs, k)
             /\ \A k \in DOMAIN base \ KeysOf(kvs) : m[k] = base[k]
<1> DEFINE kvs == KvDisplay(Kvs(c))
           m == KvMap(Kvs(c), base)
<1>1. IsLine(kvs)
  BY KvDisplayOf
<1>2. m = Inserted(base, kvs)
  BY DEF KvMap
<1> HIDE DEF kvs, m
<1>3. PICK E : kvs \in Seq(E)
  BY <1>1 DEF IsLine
<1>4. /\ DOMAIN Inserted(base, kvs) = KeysOf(kvs) \cup DOMAIN base
      /\ \A k \in KeysOf(kvs) : Inserted(base, kvs)[k] = LastOf(kvs, k)
      /\ \A k \in DOMAIN base \ KeysOf(kvs) : Inserted(base, kvs)[k] = base[k]
  BY <1>3, InsertedIs, Zenon
<1>5. IsFiniteSet(KeysOf(kvs))
  BY <1>1, KeysFinite
<1>6. IsFiniteSet(KeysOf(kvs) \cup DOMAIN base)
  BY <1>5, FS_Union
<1>7. /\ DOMAIN m = KeysOf(kvs) \cup DOMAIN base /\ IsFiniteSet(DOMAIN m)
      /\ \A k \in KeysOf(kvs) : m[k] = LastOf(kvs, k)
      /\ \A k \in DOMAIN base \ KeysOf(kvs) : m[k] = base[k]
  BY <1>2, <1>4, <1>6, Zenon
<1> QED BY <1>7, Zenon DEF kvs, m

(* So the record is one MappedIs is about, and its attributes are some.     *)
LEMMA RecordMaps ==
  ASSUME IInv, RecordBuilt
  PROVE  /\ IsFiniteSet(DOMAIN record.additional) /\ IsFiniteSet(DOMAIN record.request)
         /\ DOMAIN record.field \subseteq Field
         /\ Mapped(record) # NoKeys
<1>1. /\ call \in Calls /\ Context(ctx) /\ record.field = ctx.field /\ record.request = ctx.request
      /\ record.additional = KvMap(Kvs(call), ctx.additional)
  BY RecordIs, Zenon
<1>2. /\ IsFiniteSet(DOMAIN ctx.request) /\ IsFiniteSet(DOMAIN ctx.additional)
      /\ DOMAIN ctx.field \subseteq Field
  <2>1. IsFiniteSet(DOMAIN ctx["request"]) /\ IsFiniteSet(DOMAIN ctx["additional"])
    BY <1>1 DEF Context, Kinds
  <2> QED BY <1>1, <2>1 DEF Context
<1>3. IsFiniteSet(DOMAIN KvMap(Kvs(call), ctx.additional))
  BY <1>1, <1>2, AdditionalIs
<1>4. /\ IsFiniteSet(DOMAIN record.additional) /\ IsFiniteSet(DOMAIN record.request)
      /\ DOMAIN record.field \subseteq Field
  BY <1>1, <1>2, <1>3, Zenon
<1>5. "eden.audience" \in DOMAIN Mapped(record)
  <2> DEFINE own == Located(record) \cup {"eden.audience"} \cup FieldNames(record.field)
  <2>1. DOMAIN Mapped(record) = own \cup DOMAIN RequestOf(record) \cup DOMAIN record.additional
    BY <1>4, MappedIs
  <2>2. "eden.audience" \in own
    OBVIOUS
  <2> HIDE DEF own
  <2> QED BY <2>1, <2>2, Zenon
<1>6. DOMAIN NoKeys = {}
  BY DEF NoKeys
<1> QED BY <1>4, <1>5, <1>6

(* The two ends of a call that count.                                       *)
LEMMA AttributesMapped ==
  ASSUME IInv, attributes # NoKeys
  PROVE  RecordBuilt /\ attributes = Mapped(record)
BY Zenon DEF IInv, Progress

(* Where a JSON line stands, both texts of the call were written.           *)
LEMMA JsonWritten ==
  ASSUME IInv, json # <<>>
  PROVE  TextWritten
BY Zenon DEF IInv, Progress, NothingWritten, RecordBuilt, Evaluated

-----------------------------------------------------------------------------
(* A call that is compiled out evaluates no argument and writes nothing;    *)
(* one that is not evaluates each once, and its record has attributes if    *)
(* and only if the exporter accepts it.                                     *)
LEMMA DisabledFree == IInv => DisabledIsFree
<1> SUFFICES ASSUME IInv, pc = "done"
             PROVE  IF {call.level, AudienceOf(call)} \subseteq features
                    THEN /\ evaluated = <<"audience">> \o Arguments(call)
                         /\ display # <<>> =>
                              (attributes # NoKeys <=>
                                 /\ Rank(call.level) >= Rank(filter.min_level)
                                 /\ AudienceOf(call) \in filter.audiences)
                    ELSE /\ evaluated = IF call.level \in features THEN <<"audience">> ELSE <<>>
                         /\ display = <<>> /\ json = <<>> /\ record = None
  BY DEF DisabledIsFree
<1> DEFINE Compiled == IF call.level \in features THEN <<"audience">> ELSE <<>>
<1>1. \/ /\ call \in Calls /\ ~Enabled /\ NothingWritten /\ attributes = NoKeys
         /\ evaluated = Compiled
      \/ Evaluated /\ NothingWritten /\ attributes = NoKeys
      \/ RecordBuilt /\ ~Accepts(record) /\ attributes = NoKeys
      \/ RecordBuilt /\ Accepts(record) /\ attributes = Mapped(record)
  BY Zenon DEF IInv, Progress
<1>2. Evaluated => /\ {call.level, AudienceOf(call)} \subseteq features
                   /\ evaluated = <<"audience">> \o Arguments(call)
  BY Zenon DEF Evaluated, Enabled
<1>3. RecordBuilt => Evaluated
  BY DEF RecordBuilt, TextWritten
<1>4. RecordBuilt => (Accepts(record) <=> /\ Rank(call.level) >= Rank(filter.min_level)
                                          /\ AudienceOf(call) \in filter.audiences)
  <2> SUFFICES ASSUME RecordBuilt
               PROVE  Accepts(record) <=> /\ Rank(call.level) >= Rank(filter.min_level)
                                          /\ AudienceOf(call) \in filter.audiences
    OBVIOUS
  <2>1. record.level = call.level /\ record.audience = AudienceOf(call)
    BY RecordIs, Zenon
  <2> QED BY <2>1, Zenon DEF Accepts
<1>5. CASE call \in Calls /\ ~Enabled /\ evaluated = Compiled /\ NothingWritten
  <2>1. ~({call.level, AudienceOf(call)} \subseteq features)
    BY <1>5, Zenon DEF Enabled
  <2> QED BY <1>5, <2>1, Zenon DEF NothingWritten
<1>6. CASE Evaluated /\ NothingWritten
  BY <1>2, <1>6, Zenon DEF NothingWritten
<1>7. CASE RecordBuilt /\ ~Accepts(record) /\ attributes = NoKeys
  BY <1>2, <1>3, <1>4, <1>7, Zenon
<1>8. CASE RecordBuilt /\ Accepts(record) /\ attributes = Mapped(record)
  <2>1. attributes # NoKeys
    BY <1>8, RecordMaps, Zenon
  <2> QED BY <1>2, <1>3, <1>4, <1>8, <2>1, Zenon
<1> QED BY <1>1, <1>5, <1>6, <1>7, <1>8, Zenon

-----------------------------------------------------------------------------
(* The attributes are what the application gave last.                       *)
LEMMA LatestWins == IInv => LatestValueWins
<1> DEFINE located == IF WithLocation THEN {"code.file.path", "code.line.number"} ELSE {}
           fields == {AttributeName[f] : f \in DOMAIN given.field}
           intrinsic == fields \cup located \cup {"eden.audience"}
           FieldOf(key) == CHOOSE f \in Field : AttributeName[f] = key
           Latest(key) ==
                IF key \in fields THEN given.field[FieldOf(key)]
                ELSE IF key \in DOMAIN RequestOf(given) THEN AttributeValue(RequestOf(given)[key])
                ELSE given.additional[key]
<1>0. SUFFICES ASSUME IInv, attributes # NoKeys
               PROVE  /\ DOMAIN attributes = intrinsic \cup DOMAIN RequestOf(given) \cup DOMAIN given.additional
                      /\ \A key \in DOMAIN attributes \ (located \cup {"eden.audience"}) :
                           attributes[key] = Latest(key)
                      /\ attributes["eden.audience"].name = AudienceText[AudienceOf(call)]
                      /\ WithLocation => attributes["code.file.path"].text = Location.file
  BY DEF LatestValueWins, RequestOf
<1>1. RecordBuilt /\ attributes = Mapped(record)
  BY <1>0, AttributesMapped
<1>2. /\ record.field = given.field /\ RequestOf(record) = RequestOf(given)
      /\ record.additional = given.additional /\ record.audience = AudienceOf(call)
      /\ record.location = (IF WithLocation THEN Location ELSE None)
  BY <1>0, <1>1, RecordIs, Zenon DEF RequestOf
<1>3. /\ IsFiniteSet(DOMAIN record.additional) /\ IsFiniteSet(DOMAIN record.request)
      /\ DOMAIN record.field \subseteq Field
  BY <1>0, <1>1, RecordMaps, Zenon
<1> DEFINE own == Located(record) \cup {"eden.audience"} \cup FieldNames(record.field)
<1>4. /\ DOMAIN attributes = own \cup DOMAIN RequestOf(record) \cup DOMAIN record.additional
      /\ \A f \in DOMAIN record.field : attributes[AttributeName[f]] = record.field[f]
      /\ attributes["eden.audience"] = [name |-> AudienceText[record.audience]]
      /\ record.location # None => attributes["code.file.path"] = [text |-> record.location.file]
      /\ \A k \in DOMAIN RequestOf(record) \ own : attributes[k] = AttributeValue(RequestOf(record)[k])
      /\ \A k \in DOMAIN record.additional \ (own \cup DOMAIN RequestOf(record)) :
            attributes[k] = record.additional[k]
  BY <1>1, <1>3, MappedIs
<1>5. Located(record) = located /\ FieldNames(record.field) = fields
      /\ (WithLocation => record.location # None /\ record.location.file = Location.file)
  BY <1>2, EncodingAssumption DEF Located, FieldNames
<1>6. own = intrinsic
  BY <1>5
<1>7. DOMAIN given.field \subseteq Field
  BY <1>2, <1>3
<1> HIDE DEF own, located, intrinsic
<1>8. ASSUME NEW key \in fields PROVE attributes[key] = Latest(key)
  <2>1. PICK f \in DOMAIN given.field : key = AttributeName[f]
    OBVIOUS
  <2>2. FieldOf(key) = f
    <3>1. f \in Field /\ AttributeName[f] = key
      BY <1>7, <2>1
    <3>2. \A g \in Field : AttributeName[g] = key => g = f
      BY <3>1, NamesDiffer
    <3>3. FieldOf(key) \in Field /\ AttributeName[FieldOf(key)] = key
      BY <3>1
    <3> QED BY <3>2, <3>3
  <2>3. attributes[key] = given.field[f]
    BY <1>2, <1>4, <2>1
  <2> HIDE DEF FieldOf
  <2> QED BY <2>2, <2>3
<1> HIDE DEF FieldOf
<1>9. ASSUME NEW key \in DOMAIN attributes \ (located \cup {"eden.audience"}), key \notin fields
      PROVE  attributes[key] = Latest(key)
  <2>1. key \notin own
    BY <1>6, <1>9 DEF intrinsic
  <2>2. CASE key \in DOMAIN RequestOf(given)
    <3>1. attributes[key] = AttributeValue(RequestOf(given)[key])
      BY <1>2, <1>4, <2>1, <2>2
    <3> QED BY <1>9, <2>2, <3>1
  <2>3. CASE key \notin DOMAIN RequestOf(given)
    <3>1. attributes[key] = given.additional[key]
      BY <1>2, <1>4, <2>1, <2>3
    <3> QED BY <1>9, <2>3, <3>1
  <2> QED BY <2>2, <2>3
<1> HIDE DEF fields, Latest
<1>10. DOMAIN attributes = intrinsic \cup DOMAIN RequestOf(given) \cup DOMAIN given.additional
  BY <1>2, <1>4, <1>6
<1>11. attributes["eden.audience"].name = AudienceText[AudienceOf(call)]
  BY <1>2, <1>4
<1>12. WithLocation => attributes["code.file.path"].text = Location.file
  BY <1>4, <1>5
<1> QED BY <1>8, <1>9, <1>10, <1>11, <1>12

-----------------------------------------------------------------------------
(* The JSON line of a call: the context's members, the macro's values and   *)
(* the end.                                                                 *)
ContextMembers ==
    Optional(ctx.field, "feature", "feature") \o Optional(ctx.field, "function", "fn")
    \o Members(RequestOf(ctx))
    \o Optional(ctx.field, "error_code", "error_code")
    \o Optional(ctx.field, "error_category", "error_category")
    \o Members(ctx.additional)
Place == IF WithLocation
         THEN <<Member("file", Text(Location.file)), Member("line", [number |-> Location.line])>>
         ELSE <<>>
EndMembers == Place \o <<Member("msg", Text(call.msg))>>

(* What reads of a member depends on its value alone.                       *)
LEMMA SameReads ==
  ASSUME NEW m, NEW n, m.value = n.value
  PROVE  Reads(m) = Reads(n)
BY Zenon DEF Reads

(* A line a reader accepts.                                                 *)
GoodLine(s) == IsLine(s) /\ \A i \in DOMAIN s : Broken \notin ToSet(Reads(s[i]))

(* Lines whose members all read back, joined, are one.                      *)
LEMMA GoodJoined ==
  ASSUME NEW a, NEW b, GoodLine(a), GoodLine(b)
  PROVE  GoodLine(a \o b)
<1>1. IsLine(a) /\ IsLine(b)
  BY DEF GoodLine
<1> DEFINE c == a \o b
<1>2. /\ IsLine(c)
      /\ KeysOf(c) = KeysOf(a) \cup KeysOf(b)
      /\ \A k \in KeysOf(b) : LastOf(c, k) = LastOf(b, k)
      /\ \A k \in KeysOf(a) \ KeysOf(b) : LastOf(c, k) = LastOf(a, k)
      /\ DOMAIN c = 1 .. Len(a) + Len(b)
      /\ \A i \in DOMAIN a : c[i] = a[i]
      /\ \A i \in DOMAIN b : i + Len(a) \in DOMAIN c /\ c[i + Len(a)] = b[i]
      /\ \A i \in DOMAIN c : i \in DOMAIN a \/ (i - Len(a) \in DOMAIN b /\ c[i] = b[i - Len(a)])
  BY <1>1, LinesJoined, Zenon
<1> HIDE DEF c
<1>3. \A i \in DOMAIN c : (\E j \in DOMAIN a : c[i] = a[j]) \/ \E j \in DOMAIN b : c[i] = b[j]
  BY <1>2, Zenon
<1>4. GoodLine(c)
  BY <1>2, <1>3, Zenon DEF GoodLine
<1> QED BY <1>4 DEF c

(* The JSON members of texts and numbers are one.                           *)
LEMMA TypedJson ==
  ASSUME NEW s, TypedLine(s)
  PROVE  GoodLine(JsonMembers(s))
<1>1. IsLine(s) /\ \A i \in DOMAIN s : s[i].value \in Value
  BY DEF TypedLine
<1> DEFINE t == JsonMembers(s)
<1>2. IsLine(t) /\ DOMAIN t = DOMAIN s /\ \A i \in DOMAIN s : t[i].value = JsonValue(s[i].value)
  BY <1>1, JsonLine
<1> HIDE DEF t
<1>3. ASSUME NEW i \in DOMAIN t PROVE Broken \notin ToSet(Reads(t[i]))
  <2> DEFINE v == s[i].value
             m == Member("msg", JsonValue(v))
  <2>1. v \in Value /\ t[i].value = JsonValue(v)
    BY <1>1, <1>2
  <2>2. m.value = JsonValue(v)
    BY DEF Member
  <2> HIDE DEF v
  <2>3. Broken \notin ToSet(Reads(m))
    BY <2>1, JsonValueReads
  <2> HIDE DEF m
  <2>4. Reads(t[i]) = Reads(m)
    BY <2>1, <2>2, SameReads
  <2> QED BY <2>3, <2>4
<1> QED BY <1>2, <1>3 DEF GoodLine, t

(* What the context's members hold.                                         *)
LEMMA ContextMembersIs ==
  ASSUME Context(ctx)
  PROVE  /\ TypedLine(ContextMembers)
         /\ DOMAIN ctx.additional \cup DOMAIN RequestOf(ctx) \subseteq KeysOf(ContextMembers)
         /\ \A k \in DOMAIN ctx.additional : LastOf(ContextMembers, k) = ctx.additional[k]
         /\ \A k \in DOMAIN RequestOf(ctx) \ (OwnNames \cup DOMAIN ctx.additional) :
               LastOf(ContextMembers, k) = RequestOf(ctx)[k]
<1> DEFINE o1 == Optional(ctx.field, "feature", "feature")
           o2 == Optional(ctx.field, "function", "fn")
           lr == Members(RequestOf(ctx))
           o3 == Optional(ctx.field, "error_code", "error_code")
           o4 == Optional(ctx.field, "error_category", "error_category")
           la == Members(ctx.additional)
           x2 == o1 \o o2
           x3 == x2 \o lr
           x4 == x3 \o o3
           x5 == x4 \o o4
           x6 == x5 \o la
<1>1. ContextMembers = x6
  BY DEF ContextMembers
<1>2. /\ IsFiniteSet(DOMAIN ctx.field) /\ IsFiniteSet(DOMAIN RequestOf(ctx)) /\ IsFiniteSet(DOMAIN ctx.additional)
      /\ \A k \in DOMAIN ctx.field : ctx.field[k] \in Value
      /\ \A k \in DOMAIN RequestOf(ctx) : RequestOf(ctx)[k] \in Value
      /\ \A k \in DOMAIN ctx.additional : ctx.additional[k] \in Value
  <2>1. \A kind \in Kinds : IsFiniteSet(DOMAIN ctx[kind])
    BY DEF Context
  <2>2. \A kind \in {"field", "additional"} : \A k \in DOMAIN ctx[kind] : ctx[kind][k] \in TextValue
    BY DEF Context
  <2>3. \A k \in DOMAIN ctx.request : ctx.request[k] \in Value
    BY DEF Context
  <2>4. IsFiniteSet(DOMAIN ctx.request)
    BY <2>1 DEF Kinds
  <2>5. /\ IsFiniteSet(DOMAIN RequestOf(ctx))
        /\ \A k \in DOMAIN RequestOf(ctx) : RequestOf(ctx)[k] \in Value
    BY <2>3, <2>4, KeyedByIs DEF RequestOf
  <2> QED BY <2>1, <2>2, <2>5 DEF Kinds, Value
<1>3. TypedLine(o1) /\ TypedLine(o2) /\ TypedLine(o3) /\ TypedLine(o4)
  BY <1>2, TypedMembers
<1>4. TypedLine(lr) /\ TypedLine(la)
  BY <1>2, TypedMembers
<1>5. KeysOf(o3) \subseteq OwnNames /\ KeysOf(o4) \subseteq OwnNames
  <2>1. KeysOf(o3) \subseteq {"error_code"} /\ KeysOf(o4) \subseteq {"error_category"}
    BY OptionalIs
  <2> QED BY <2>1 DEF OwnNames
<1>6. KeysOf(lr) = DOMAIN RequestOf(ctx) /\ \A k \in DOMAIN RequestOf(ctx) : LastOf(lr, k) = RequestOf(ctx)[k]
  BY <1>2, MembersOf
<1>7. KeysOf(la) = DOMAIN ctx.additional /\ \A k \in DOMAIN ctx.additional : LastOf(la, k) = ctx.additional[k]
  BY <1>2, MembersOf
<1> HIDE DEF o1, o2, lr, o3, o4, la, x2, x3, x4, x5, x6
<1>8. TypedLine(x2)
  BY <1>3, TypedJoined DEF x2
<1>9. TypedLine(x3)
  BY <1>4, <1>8, TypedJoined DEF x3
<1>10. TypedLine(x4)
  BY <1>3, <1>9, TypedJoined DEF x4
<1>11. TypedLine(x5)
  BY <1>3, <1>10, TypedJoined DEF x5
<1>12. TypedLine(x6)
  BY <1>4, <1>11, TypedJoined DEF x6
<1>13. /\ IsLine(x2) /\ IsLine(x3) /\ IsLine(x4) /\ IsLine(x5)
       /\ IsLine(lr) /\ IsLine(o3) /\ IsLine(o4) /\ IsLine(la)
  BY <1>3, <1>4, <1>8, <1>9, <1>10, <1>11, Zenon DEF TypedLine
<1>14. /\ KeysOf(x3) = KeysOf(x2) \cup KeysOf(lr)
       /\ \A k \in KeysOf(lr) : LastOf(x3, k) = LastOf(lr, k)
  BY <1>13, LinesJoined DEF x3
<1>15. /\ KeysOf(x4) = KeysOf(x3) \cup KeysOf(o3)
       /\ \A k \in KeysOf(x3) \ KeysOf(o3) : LastOf(x4, k) = LastOf(x3, k)
  BY <1>13, LinesJoined DEF x4
<1>16. /\ KeysOf(x5) = KeysOf(x4) \cup KeysOf(o4)
       /\ \A k \in KeysOf(x4) \ KeysOf(o4) : LastOf(x5, k) = LastOf(x4, k)
  BY <1>13, LinesJoined DEF x5
<1>17. /\ KeysOf(x6) = KeysOf(x5) \cup KeysOf(la)
       /\ \A k \in KeysOf(la) : LastOf(x6, k) = LastOf(la, k)
       /\ \A k \in KeysOf(x5) \ KeysOf(la) : LastOf(x6, k) = LastOf(x5, k)
  BY <1>13, LinesJoined DEF x6
<1>18. DOMAIN ctx.additional \cup DOMAIN RequestOf(ctx) \subseteq KeysOf(x6)
  BY <1>6, <1>7, <1>14, <1>15, <1>16, <1>17
<1>19. \A k \in DOMAIN ctx.additional : LastOf(x6, k) = ctx.additional[k]
  BY <1>7, <1>17
<1>20. ASSUME NEW k \in DOMAIN RequestOf(ctx) \ (OwnNames \cup DOMAIN ctx.additional)
       PROVE  LastOf(x6, k) = RequestOf(ctx)[k]
  <2>1. k \in KeysOf(x3) \ KeysOf(o3) /\ LastOf(x3, k) = RequestOf(ctx)[k]
    BY <1>5, <1>6, <1>14
  <2>2. k \in KeysOf(x4) \ KeysOf(o4) /\ LastOf(x4, k) = RequestOf(ctx)[k]
    BY <1>5, <1>15, <2>1
  <2>3. k \in KeysOf(x5) \ KeysOf(la) /\ LastOf(x5, k) = RequestOf(ctx)[k]
    BY <1>7, <1>16, <2>2
  <2> QED BY <1>17, <2>3
<1> QED BY <1>1, <1>12, <1>18, <1>19, <1>20

(* And what the end holds: the message comes last.                          *)
LEMMA EndMembersIs ==
  ASSUME call \in Calls
  PROVE  /\ TypedLine(EndMembers) /\ KeysOf(EndMembers) \subseteq OwnNames
         /\ Len(EndMembers) \in DOMAIN EndMembers /\ EndMembers[Len(EndMembers)].value = Text(call.msg)
<1> DEFINE t == Text(call.msg)
           lm == <<Member("msg", t)>>
<1>1. call.msg \in Seq(Byte)
  BY EncodingAssumption
<1>2. t \in Value
  BY <1>1 DEF Text, Value, TextValue
<1>3. EndMembers = Place \o lm
  BY DEF EndMembers
<1> HIDE DEF t
<1>4. /\ TypedLine(lm) /\ KeysOf(lm) = {"msg"} /\ IsLine(lm)
      /\ DOMAIN lm = {1} /\ Len(lm) = 1 /\ lm[1] = Member("msg", t)
  BY <1>2, TypedOne, OneMember
<1>5. Member("msg", t).value = t
  BY DEF Member
<1>6. TypedLine(Place) /\ KeysOf(Place) \subseteq {"file", "line"}
  <2>1. CASE WithLocation
    <3> DEFINE u == Text(Location.file)
               v == [number |-> Location.line]
               a == Member("file", u)
               b == Member("line", v)
               oa == <<a>>
               ob == <<b>>
    <3>1. u \in Value /\ v \in Value
      <4>1. <<102>> \in Seq(Byte) /\ 7 \in Nat
        BY DEF Byte
      <4>2. Location.file = <<102>> /\ Location.line = 7
        BY DEF Location
      <4> QED BY <4>1, <4>2 DEF Value, TextValue, Number, Text
    <3>2. /\ TypedLine(oa) /\ KeysOf(oa) = {"file"}
          /\ TypedLine(ob) /\ KeysOf(ob) = {"line"}
      <4> HIDE DEF u, v
      <4> QED BY <3>1, TypedOne, OneMember
    <3>3. Place = oa \o ob
      <4>1. Place = <<a, b>>
        BY <2>1 DEF Place
      <4> HIDE DEF a, b
      <4>2. a \in {a, b} /\ b \in {a, b}
        OBVIOUS
      <4> QED BY <4>1, <4>2, JoinOnes
    <3> HIDE DEF oa, ob, u, v, a, b
    <3>4. TypedLine(oa \o ob)
      BY <3>2, TypedJoined
    <3>5. KeysOf(oa \o ob) = KeysOf(oa) \cup KeysOf(ob)
      <4>1. IsLine(oa) /\ IsLine(ob)
        BY <3>2 DEF TypedLine
      <4> QED BY <4>1, LinesJoined
    <3> QED BY <3>2, <3>3, <3>4, <3>5
  <2>2. CASE ~WithLocation
    <3>1. Place = <<>>
      BY <2>2 DEF Place
    <3> QED BY <3>1, TypedOne, EmptyLine
  <2> QED BY <2>1, <2>2
<1> HIDE DEF lm
<1> DEFINE c == Place \o lm
<1>7. TypedLine(c)
  BY <1>4, <1>6, TypedJoined
<1>8. IsLine(Place)
  BY <1>6 DEF TypedLine
<1>9. /\ IsLine(c)
      /\ KeysOf(c) = KeysOf(Place) \cup KeysOf(lm)
      /\ \A k \in KeysOf(lm) : LastOf(c, k) = LastOf(lm, k)
      /\ \A k \in KeysOf(Place) \ KeysOf(lm) : LastOf(c, k) = LastOf(Place, k)
      /\ DOMAIN c = 1 .. Len(Place) + Len(lm)
      /\ \A i \in DOMAIN Place : c[i] = Place[i]
      /\ \A i \in DOMAIN lm : i + Len(Place) \in DOMAIN c /\ c[i + Len(Place)] = lm[i]
      /\ \A i \in DOMAIN c : i \in DOMAIN Place \/ (i - Len(Place) \in DOMAIN lm /\ c[i] = lm[i - Len(Place)])
  BY <1>4, <1>8, LinesJoined, Zenon
<1> HIDE DEF c
<1>10. KeysOf(c) \subseteq OwnNames
  BY <1>4, <1>6, <1>9 DEF OwnNames
<1>11. Len(c) = Len(Place) + 1
  <2>1. PICK P : Place \in Seq(P)
    BY <1>8 DEF IsLine
  <2>2. PICK C : c \in Seq(C)
    BY <1>9 DEF IsLine
  <2>3. Len(Place) \in Nat
    BY <2>1
  <2>4. DOMAIN c = 1 .. Len(c) /\ Len(c) \in Nat
    BY <2>2
  <2>5. 1 .. Len(c) = 1 .. Len(Place) + 1
    BY <1>4, <1>9, <2>4
  <2> DEFINE n == Len(c)
             m == Len(Place) + 1
  <2>6. n \in Nat /\ m \in Nat /\ 1 .. n = 1 .. m /\ 1 <= m
    <3>1. n \in Nat
      BY <2>4
    <3>2. 1 .. n = 1 .. m
      BY <2>5
    <3>3. m \in Nat /\ 1 <= m
      BY <2>3
    <3> QED BY <3>1, <3>2, <3>3, Zenon
  <2> HIDE DEF n, m
  <2>7. m \in 1 .. n /\ (1 <= n => n \in 1 .. m)
    BY <2>6
  <2>8. n = m
    BY <2>6, <2>7
  <2> QED BY <2>8 DEF n, m
<1>12. Len(c) \in DOMAIN c /\ c[Len(c)] = Member("msg", t)
  <2>1. Len(Place) \in Nat
    <3>1. PICK P : Place \in Seq(P)
      BY <1>8 DEF IsLine
    <3> QED BY <3>1
  <2>2. 1 + Len(Place) \in DOMAIN c /\ c[1 + Len(Place)] = Member("msg", t)
    BY <1>4, <1>9
  <2>3. 1 + Len(Place) = Len(c)
    BY <1>11, <2>1
  <2> QED BY <2>2, <2>3
<1> QED BY <1>3, <1>5, <1>7, <1>10, <1>12 DEF c, t

-----------------------------------------------------------------------------
(* The macro's values in the JSON line: each escaped piece by piece, under  *)
(* the key it has in the display line, and the same one of them is the last *)
(* of its key in both.                                                      *)
LEMMA KvJsonIs ==
  ASSUME call \in Calls
  PROVE  /\ GoodLine(KvJson) /\ DOMAIN KvJson = DOMAIN Kvs(call)
         /\ \A i \in DOMAIN Kvs(call) :
               /\ Kvs(call)[i].value \in Seq(Seq(Byte))
               /\ KvJson[i].key = Kvs(call)[i].key
               /\ KvJson[i].value = Text(JsonEscapingWriter(Kvs(call)[i].value))
         /\ KeysOf(KvJson) = KeysOf(KvDisplay(Kvs(call)))
         /\ \A k \in KeysOf(KvDisplay(Kvs(call))) : \E chunks \in Seq(Seq(Byte)) :
               /\ LastOf(KvDisplay(Kvs(call)), k) = Text(Formatted(chunks))
               /\ LastOf(KvJson, k) = Text(JsonEscapingWriter(chunks))
<1> DEFINE K == Kvs(call)
           d == KvDisplay(K)
           j == KvJson
           E == {Member(K[i].key, Text(JsonEscapingWriter(K[i].value))) : i \in DOMAIN K}
<1>1. DOMAIN K = 1 .. Len(K) /\ Len(K) \in Nat /\ \A i \in DOMAIN K : K[i].value \in Seq(Seq(Byte))
  BY KvsType
<1>2. j = [i \in DOMAIN K |-> Member(K[i].key, Text(JsonEscapingWriter(K[i].value)))]
  BY DEF KvJson
<1>3. /\ IsLine(d) /\ DOMAIN d = DOMAIN K
      /\ \A i \in DOMAIN K : d[i].key = K[i].key /\ d[i].value = Text(Formatted(K[i].value))
  BY KvDisplayOf
<1> HIDE DEF K, d, j
<1>4. j \in Seq(E) /\ DOMAIN j = DOMAIN K
  BY <1>1, <1>2
<1>5. \A i \in DOMAIN K : j[i].key = K[i].key /\ j[i].value = Text(JsonEscapingWriter(K[i].value))
  BY <1>2 DEF Member
<1> HIDE DEF E
<1>6. \A i \in DOMAIN j : Broken \notin ToSet(Reads(j[i]))
  BY <1>1, <1>4, <1>5, ChunksReadBack
<1>7. GoodLine(j)
  BY <1>4, <1>6 DEF GoodLine, IsLine
<1>8. PICK D : d \in Seq(D)
  BY <1>3 DEF IsLine
<1>9. /\ KeysOf(j) = KeysOf(d)
      /\ \A k \in KeysOf(d) : \E i \in DOMAIN d :
            /\ LastOf(d, k) = d[i].value /\ LastOf(j, k) = j[i].value
            /\ d[i].key = k
  <2>1. DOMAIN j = DOMAIN d /\ \A i \in DOMAIN d : j[i].key = d[i].key
    BY <1>3, <1>4, <1>5
  <2> QED BY <1>4, <1>8, <2>1, LastOfMapped
<1>10. ASSUME NEW k \in KeysOf(d)
       PROVE  \E chunks \in Seq(Seq(Byte)) : /\ LastOf(d, k) = Text(Formatted(chunks))
                                             /\ LastOf(j, k) = Text(JsonEscapingWriter(chunks))
  <2>1. PICK i \in DOMAIN d : LastOf(d, k) = d[i].value /\ LastOf(j, k) = j[i].value
    BY <1>9
  <2>2. i \in DOMAIN K /\ K[i].value \in Seq(Seq(Byte))
    BY <1>1, <1>3
  <2>3. d[i].value = Text(Formatted(K[i].value)) /\ j[i].value = Text(JsonEscapingWriter(K[i].value))
    BY <1>3, <1>5, <2>2
  <2> QED BY <2>1, <2>2, <2>3, Zenon
<1> QED BY <1>1, <1>4, <1>5, <1>7, <1>9, <1>10 DEF K, d, j

(* The JSON line.                                                           *)
LEMMA JsonIs ==
  ASSUME call \in Calls, Context(ctx)
  PROVE  LET kvs == KeysOf(KvDisplay(Kvs(call)))
         IN  /\ \A i \in DOMAIN write_json_direct : Broken \notin ToSet(Reads(write_json_direct[i]))
             /\ Last(write_json_direct).value = Text(write_json_escaped(call.msg))
             /\ \A i \in DOMAIN Kvs(call) : \E m \in ToSet(write_json_direct) :
                   m.key = Kvs(call)[i].key /\ m.value = Text(JsonEscapingWriter(Kvs(call)[i].value))
             /\ \A k \in kvs \ OwnNames : LastOf(write_json_direct, k) = LastOf(KvJson, k)
             /\ \A k \in DOMAIN ctx.additional \ (OwnNames \cup kvs) :
                   LastOf(write_json_direct, k) = JsonValue(ctx.additional[k])
             /\ \A k \in DOMAIN RequestOf(ctx) \ ((OwnNames \cup kvs) \cup DOMAIN ctx.additional) :
                   LastOf(write_json_direct, k) = JsonValue(RequestOf(ctx)[k])
<1> DEFINE kvs == KeysOf(KvDisplay(Kvs(call)))
           h == ContextMembers
           e == EndMembers
           jh == JsonMembers(h)
           je == JsonMembers(e)
           j == KvJson
           x == jh \o j
           line == x \o je
<1>1. write_json_direct = line
  BY DEF write_json_direct, ContextMembers, RequestOf, EndMembers, Place
<1>2. /\ TypedLine(h)
      /\ DOMAIN ctx.additional \cup DOMAIN RequestOf(ctx) \subseteq KeysOf(h)
      /\ \A k \in DOMAIN ctx.additional : LastOf(h, k) = ctx.additional[k]
      /\ \A k \in DOMAIN RequestOf(ctx) \ (OwnNames \cup DOMAIN ctx.additional) :
            LastOf(h, k) = RequestOf(ctx)[k]
  BY ContextMembersIs
<1>3. /\ TypedLine(e) /\ KeysOf(e) \subseteq OwnNames
      /\ Len(e) \in DOMAIN e /\ e[Len(e)].value = Text(call.msg)
  BY EndMembersIs
<1>4. GoodLine(j) /\ KeysOf(j) = kvs /\ DOMAIN j = DOMAIN Kvs(call)
      /\ \A i \in DOMAIN Kvs(call) :
            j[i].key = Kvs(call)[i].key /\ j[i].value = Text(JsonEscapingWriter(Kvs(call)[i].value))
  BY KvJsonIs
<1>5. IsLine(h) /\ IsLine(e)
  BY <1>2, <1>3 DEF TypedLine
<1> HIDE DEF h, e
<1>6. GoodLine(jh) /\ GoodLine(je)
  BY <1>2, <1>3, TypedJson
<1>7. /\ IsLine(jh) /\ KeysOf(jh) = KeysOf(h)
      /\ \A k \in KeysOf(h) : LastOf(jh, k) = JsonValue(LastOf(h, k))
  BY <1>5, JsonLine
<1>8. /\ IsLine(je) /\ KeysOf(je) = KeysOf(e)
      /\ DOMAIN je = DOMAIN e /\ Len(je) = Len(e) /\ Len(e) \in Nat
      /\ \A i \in DOMAIN e : je[i].value = JsonValue(e[i].value)
  BY <1>5, JsonLine
<1>9. IsLine(j)
  BY <1>4 DEF GoodLine
<1> HIDE DEF kvs, jh, je, j, x, line
<1>10. GoodLine(x)
  BY <1>4, <1>6, GoodJoined DEF x
<1>11. GoodLine(line)
  BY <1>6, <1>10, GoodJoined DEF line
<1>12. IsLine(x)
  BY <1>10 DEF GoodLine
<1>13. /\ IsLine(x)
       /\ KeysOf(x) = KeysOf(jh) \cup KeysOf(j)
       /\ \A k \in KeysOf(j) : LastOf(x, k) = LastOf(j, k)
       /\ \A k \in KeysOf(jh) \ KeysOf(j) : LastOf(x, k) = LastOf(jh, k)
       /\ DOMAIN x = 1 .. Len(jh) + Len(j)
       /\ \A i \in DOMAIN jh : x[i] = jh[i]
       /\ \A i \in DOMAIN j : i + Len(jh) \in DOMAIN x /\ x[i + Len(jh)] = j[i]
       /\ \A i \in DOMAIN x : i \in DOMAIN jh \/ (i - Len(jh) \in DOMAIN j /\ x[i] = j[i - Len(jh)])
  BY <1>7, <1>9, LinesJoined, Zenon DEF x
<1>14. /\ IsLine(line)
       /\ KeysOf(line) = KeysOf(x) \cup KeysOf(je)
       /\ \A k \in KeysOf(je) : LastOf(line, k) = LastOf(je, k)
       /\ \A k \in KeysOf(x) \ KeysOf(je) : LastOf(line, k) = LastOf(x, k)
       /\ DOMAIN line = 1 .. Len(x) + Len(je)
       /\ \A i \in DOMAIN x : line[i] = x[i]
       /\ \A i \in DOMAIN je : i + Len(x) \in DOMAIN line /\ line[i + Len(x)] = je[i]
       /\ \A i \in DOMAIN line : i \in DOMAIN x \/ (i - Len(x) \in DOMAIN je /\ line[i] = je[i - Len(x)])
  BY <1>8, <1>12, LinesJoined, Zenon DEF line
<1>15. \A i \in DOMAIN line : Broken \notin ToSet(Reads(line[i]))
  BY <1>11 DEF GoodLine
<1>16. Last(line).value = Text(write_json_escaped(call.msg))
  <2>1. Len(line) = Len(x) + Len(je) /\ Len(x) \in Nat
    <3>1. PICK X : x \in Seq(X)
      BY <1>12 DEF IsLine
    <3>2. PICK Y : je \in Seq(Y)
      BY <1>8 DEF IsLine
    <3> DEFINE Z == X \cup Y
    <3>3. x \in Seq(Z) /\ je \in Seq(Z)
      BY <3>1, <3>2
    <3> HIDE DEF Z
    <3> QED BY <3>3 DEF line
  <2>2. Len(je) + Len(x) = Len(line)
    BY <1>8, <2>1
  <2>3. line[Len(je) + Len(x)] = je[Len(je)]
    BY <1>3, <1>8, <1>14, Zenon
  <2>4. line[Len(line)] = je[Len(je)]
    BY <2>2, <2>3, Zenon
  <2>5. je[Len(je)].value = JsonValue(Text(call.msg))
    BY <1>3, <1>8, Zenon
  <2>6. JsonValue(Text(call.msg)) = Text(write_json_escaped(call.msg))
    BY DEF JsonValue, Text
  <2> QED BY <2>4, <2>5, <2>6, Zenon DEF Last
<1>17. ASSUME NEW i \in DOMAIN Kvs(call)
       PROVE  \E m \in ToSet(line) :
                 m.key = Kvs(call)[i].key /\ m.value = Text(JsonEscapingWriter(Kvs(call)[i].value))
  <2>1. i + Len(jh) \in DOMAIN x /\ x[i + Len(jh)] = j[i]
    BY <1>4, <1>13, Zenon
  <2>2. i + Len(jh) \in DOMAIN line /\ line[i + Len(jh)] = j[i]
    <3> DEFINE p == i + Len(jh)
    <3>1. p \in DOMAIN x /\ x[p] = j[i]
      BY <2>1
    <3>2. \A q \in DOMAIN x : line[q] = x[q]
      BY <1>14, Zenon
    <3>3. DOMAIN x \subseteq DOMAIN line
      <4>1. PICK X : x \in Seq(X)
        BY <1>12 DEF IsLine
      <4>2. DOMAIN x = 1 .. Len(x) /\ Len(x) \in Nat
        BY <4>1
      <4>3. PICK Y : je \in Seq(Y)
        BY <1>8 DEF IsLine
      <4>4. Len(je) \in Nat
        BY <4>3
      <4>5. DOMAIN line = 1 .. Len(x) + Len(je)
        BY <1>14, Zenon
      <4> DEFINE n == Len(x)
                 m == Len(je)
      <4>6. n \in Nat /\ m \in Nat
        BY <4>2, <4>4
      <4> HIDE DEF n, m
      <4>7. 1 .. n \subseteq 1 .. n + m
        BY <4>6
      <4> QED BY <4>2, <4>5, <4>7, Zenon DEF n, m
    <3> HIDE DEF p
    <3>4. p \in DOMAIN line /\ line[p] = j[i]
      BY <3>1, <3>2, <3>3, Zenon
    <3> QED BY <3>4 DEF p
  <2>3. j[i] \in ToSet(line)
    <3>1. \E p \in DOMAIN line : line[p] = j[i]
      BY <2>2, Zenon
    <3> QED BY <3>1 DEF ToSet
  <2> QED BY <1>4, <2>3
<1>18. ASSUME NEW k \in KeysOf(x) \ OwnNames PROVE LastOf(line, k) = LastOf(x, k)
  BY <1>3, <1>8, <1>14
<1>19. ASSUME NEW k \in kvs \ OwnNames PROVE LastOf(line, k) = LastOf(j, k)
  <2>1. k \in KeysOf(x) \ OwnNames /\ LastOf(x, k) = LastOf(j, k)
    BY <1>4, <1>13
  <2> QED BY <1>18, <2>1
<1>20. ASSUME NEW k \in DOMAIN ctx.additional \ (OwnNames \cup kvs)
       PROVE  LastOf(line, k) = JsonValue(ctx.additional[k])
  <2>1. k \in KeysOf(jh) \ KeysOf(j) /\ LastOf(jh, k) = JsonValue(ctx.additional[k])
    BY <1>2, <1>4, <1>7
  <2>2. k \in KeysOf(x) \ OwnNames /\ LastOf(x, k) = LastOf(jh, k)
    BY <1>13, <2>1
  <2> QED BY <1>18, <2>1, <2>2
<1>21. ASSUME NEW k \in DOMAIN RequestOf(ctx) \ ((OwnNames \cup kvs) \cup DOMAIN ctx.additional)
       PROVE  LastOf(line, k) = JsonValue(RequestOf(ctx)[k])
  <2>1. k \in KeysOf(jh) \ KeysOf(j) /\ LastOf(jh, k) = JsonValue(RequestOf(ctx)[k])
    BY <1>2, <1>4, <1>7
  <2>2. k \in KeysOf(x) \ OwnNames /\ LastOf(x, k) = LastOf(jh, k)
    BY <1>13, <2>1
  <2> QED BY <1>18, <2>1, <2>2
<1>22. /\ \A i \in DOMAIN line : Broken \notin ToSet(Reads(line[i]))
       /\ Last(line).value = Text(write_json_escaped(call.msg))
       /\ \A i \in DOMAIN Kvs(call) : \E m \in ToSet(line) :
             m.key = Kvs(call)[i].key /\ m.value = Text(JsonEscapingWriter(Kvs(call)[i].value))
       /\ \A k \in kvs \ OwnNames : LastOf(line, k) = LastOf(KvJson, k)
       /\ \A k \in DOMAIN ctx.additional \ (OwnNames \cup kvs) :
             LastOf(line, k) = JsonValue(ctx.additional[k])
       /\ \A k \in DOMAIN RequestOf(ctx) \ ((OwnNames \cup kvs) \cup DOMAIN ctx.additional) :
             LastOf(line, k) = JsonValue(RequestOf(ctx)[k])
  BY <1>15, <1>16, <1>17, <1>19, <1>20, <1>21, Zenon DEF j
<1> QED BY <1>1, <1>22, Zenon DEF kvs

-----------------------------------------------------------------------------
(* A JSON line is text a reader accepts, and reads as what was given.       *)
LEMMA ReadsBack == IInv => JsonReadsBack
<1>0. SUFFICES ASSUME IInv, json # <<>>
               PROVE  /\ \A i \in DOMAIN json : Broken \notin ToSet(Reads(json[i]))
                      /\ Kept(call.msg) => ReadString(Last(json).value.text) = call.msg
                      /\ \A i \in DOMAIN Kvs(call) :
                           (\A j \in DOMAIN Kvs(call)[i].value : Kept(Kvs(call)[i].value[j])) =>
                              \E m \in ToSet(json) :
                                 /\ m.key = Kvs(call)[i].key
                                 /\ Reads(m) = Formatted(Kvs(call)[i].value)
  BY DEF JsonReadsBack
<1>1. json = write_json_direct /\ call \in Calls /\ Context(ctx)
  BY <1>0, JsonWritten DEF TextWritten, Evaluated, Enabled, IInv
<1>2. /\ \A i \in DOMAIN json : Broken \notin ToSet(Reads(json[i]))
      /\ Last(json).value = Text(write_json_escaped(call.msg))
      /\ \A i \in DOMAIN Kvs(call) : \E m \in ToSet(json) :
            m.key = Kvs(call)[i].key /\ m.value = Text(JsonEscapingWriter(Kvs(call)[i].value))
  BY <1>1, JsonIs
<1>3. ASSUME Kept(call.msg) PROVE ReadString(Last(json).value.text) = call.msg
  <2> DEFINE e == write_json_escaped(call.msg)
  <2>1. Last(json).value.text = e
    BY <1>2 DEF Text
  <2>2. call.msg \in Seq(Byte)
    BY <1>1, EncodingAssumption
  <2>3. e \in Seq(Byte) /\ \E v \in Seq(Byte) : Readable(e, v) /\ (Kept(call.msg) => v = call.msg)
    BY <2>2, EscapedReads
  <2> HIDE DEF e
  <2>4. Readable(e, call.msg)
    BY <1>3, <2>3
  <2>5. ReadString(e) = call.msg
    BY <2>2, <2>3, <2>4, ReadStringIs
  <2> QED BY <2>1, <2>5
<1>4. ASSUME NEW i \in DOMAIN Kvs(call),
             \A j \in DOMAIN Kvs(call)[i].value : Kept(Kvs(call)[i].value[j])
      PROVE  \E m \in ToSet(json) : /\ m.key = Kvs(call)[i].key
                                    /\ Reads(m) = Formatted(Kvs(call)[i].value)
  <2> DEFINE chunks == Kvs(call)[i].value
  <2>1. chunks \in Seq(Seq(Byte))
    BY <1>1, KvsType
  <2>2. PICK m \in ToSet(json) : m.key = Kvs(call)[i].key /\ m.value = Text(JsonEscapingWriter(chunks))
    BY <1>2
  <2>3. \A j \in DOMAIN chunks : Kept(chunks[j])
    BY <1>4
  <2> HIDE DEF chunks
  <2>4. Reads(m) = Formatted(chunks)
    BY <2>1, <2>2, <2>3, ChunksReadBack
  <2> QED BY <2>2, <2>4 DEF chunks
<1> QED BY <1>2, <1>3, <1>4

(* Values and their text.                                                   *)
LEMMA PlainAttribute ==
  ASSUME NEW value
  PROVE  Plain(AttributeValue(value)) = Plain(value)
<1>1. CASE "number" \in DOMAIN value /\ value.number > MaxI64
  <2> DEFINE d == Digits(value.number)
             t == [text |-> d]
  <2>1. AttributeValue(value) = t
    BY <1>1 DEF AttributeValue
  <2>2. Plain(value) = d
    BY <1>1 DEF Plain
  <2>3. "number" \notin DOMAIN t /\ t.text = d
    OBVIOUS
  <2> HIDE DEF t, d
  <2>4. Plain(t) = d
    BY <2>3 DEF Plain
  <2> QED BY <2>1, <2>2, <2>4
<1>2. CASE ~("number" \in DOMAIN value /\ value.number > MaxI64)
  BY <1>2 DEF AttributeValue
<1> QED BY <1>1, <1>2

(* Text is shown as it is.                                                  *)
LEMMA PlainText ==
  ASSUME NEW bytes
  PROVE  Plain(Text(bytes)) = bytes
<1> DEFINE t == Text(bytes)
<1>1. "number" \notin DOMAIN t /\ t.text = bytes
  BY DEF Text
<1> HIDE DEF t
<1>2. Plain(t) = bytes
  BY <1>1 DEF Plain
<1> QED BY <1>2 DEF t

(* The writers of a call agree.                                             *)
LEMMA WritersAgree == IInv => FormatsAgree
<1> DEFINE emitted == write_display(record.field, KeyedBy(DisplayKey, record.request),
                                    record.additional, <<>>, record.message, record.location)
           Shown(key, text) == LastOf(display, key) = text /\ LastOf(emitted, key) = text
           Told(key, text) ==
              /\ Plain(attributes[key]) = text
              /\ Kept(text) => Reads(Member(key, LastOf(json, key))) = text
<1>0. SUFFICES ASSUME IInv, attributes # NoKeys
               PROVE  /\ KeysOf(emitted) = KeysOf(display)
                      /\ \A f \in DOMAIN given.request \cap DOMAIN DisplayKey :
                            DisplayKey[f] \notin OwnNames \cup DOMAIN given.additional =>
                               Shown(DisplayKey[f], Plain(given.request[f]))
                      /\ \A f \in DOMAIN given.request \cap DOMAIN JsonKey :
                            JsonKey[f] \notin OwnNames \cup DOMAIN given.additional =>
                               Told(JsonKey[f], Plain(given.request[f]))
                      /\ \A key \in DOMAIN given.additional \ OwnNames :
                            /\ Shown(key, Plain(given.additional[key]))
                            /\ key \notin DOMAIN KeyedBy(JsonKey, given.request) =>
                                  Told(key, Plain(given.additional[key]))
  BY DEF FormatsAgree
<1>1. RecordBuilt /\ attributes = Mapped(record)
  BY <1>0, AttributesMapped
<1> DEFINE K == KvDisplay(Kvs(call))
           kvs == KeysOf(K)
           F == given.field
           G == given.request
           D == KeyedBy(DisplayKey, given.request)
           R == KeyedBy(JsonKey, given.request)
           B == ctx.additional
           A == given.additional
           place == IF WithLocation THEN Location ELSE None
<1>2. /\ call \in Calls /\ Context(ctx) /\ display = write_display_direct /\ json = write_json_direct
      /\ ctx.field = F /\ ctx.request = G
      /\ record.message = call.msg /\ record.location = place /\ record.audience = AudienceOf(call)
      /\ record.field = F /\ record.request = G /\ record.additional = A
      /\ A = KvMap(Kvs(call), B)
  BY <1>0, <1>1, RecordIs, Zenon
<1>3. /\ IsFiniteSet(DOMAIN G) /\ IsFiniteSet(DOMAIN B) /\ DOMAIN F \subseteq Field
      /\ \A k \in DOMAIN G : G[k] \in Value
      /\ \A k \in DOMAIN B : B[k] \in Value
  <2>1. \A kind \in Kinds : IsFiniteSet(DOMAIN ctx[kind])
    BY <1>2 DEF Context
  <2>2. \A kind \in {"field", "additional"} : \A k \in DOMAIN ctx[kind] : ctx[kind][k] \in TextValue
    BY <1>2 DEF Context
  <2>3. \A k \in DOMAIN ctx.request : ctx.request[k] \in Value
    BY <1>2 DEF Context
  <2>4. DOMAIN ctx.field \subseteq Field
    BY <1>2 DEF Context
  <2>5. IsFiniteSet(DOMAIN ctx.request) /\ IsFiniteSet(DOMAIN ctx.additional)
    BY <2>1 DEF Kinds
  <2>6. \A k \in DOMAIN ctx.additional : ctx.additional[k] \in Value
    BY <2>2 DEF Value
  <2> QED BY <1>2, <2>3, <2>4, <2>5, <2>6
<1>31. /\ IsFiniteSet(DOMAIN D) /\ IsFiniteSet(DOMAIN R)
       /\ \A f \in DOMAIN G \cap DOMAIN DisplayKey :
             DisplayKey[f] \in DOMAIN D /\ D[DisplayKey[f]] = G[f]
       /\ \A f \in DOMAIN G \cap DOMAIN JsonKey :
             JsonKey[f] \in DOMAIN R /\ R[JsonKey[f]] = G[f]
       /\ \A k \in DOMAIN R : R[k] \in Value
  BY <1>3, KeyedByIs
<1>4. /\ DOMAIN A = kvs \cup DOMAIN B /\ IsFiniteSet(DOMAIN A)
      /\ \A k \in kvs : A[k] = LastOf(K, k)
      /\ \A k \in DOMAIN B \ kvs : A[k] = B[k]
  BY <1>2, <1>3, AdditionalIs
<1>5. IsLine(K)
  BY <1>2, KvDisplayOf
<1>6. /\ KeysOf(display) = ((FieldKeys(F) \cup {"msg"} \cup LocationKey(place)) \cup DOMAIN D)
                              \cup (DOMAIN B \cup kvs)
      /\ \A k \in kvs \ OwnNames : LastOf(display, k) = Plain(LastOf(K, k))
      /\ \A k \in DOMAIN B \ (OwnNames \cup kvs) : LastOf(display, k) = Plain(B[k])
      /\ \A k \in DOMAIN D \ ((OwnNames \cup kvs) \cup DOMAIN B) : LastOf(display, k) = Plain(D[k])
  <2>1. display = write_display(F, D, B, K, call.msg, place)
    BY <1>2, Zenon DEF write_display_direct
  <2> HIDE DEF K, kvs, F, D, B, place
  <2> DEFINE line == write_display(F, D, B, K, call.msg, place)
  <2>2. /\ IsLine(line)
        /\ KeysOf(line) = ((FieldKeys(F) \cup {"msg"} \cup LocationKey(place)) \cup DOMAIN D)
                             \cup (DOMAIN B \cup KeysOf(K))
        /\ \A k \in KeysOf(K) \ OwnNames : LastOf(line, k) = Plain(LastOf(K, k))
        /\ \A k \in DOMAIN B \ (OwnNames \cup KeysOf(K)) : LastOf(line, k) = Plain(B[k])
        /\ \A k \in DOMAIN D \ ((OwnNames \cup KeysOf(K)) \cup DOMAIN B) : LastOf(line, k) = Plain(D[k])
    BY <1>3, <1>31, <1>5, DisplayIs
  <2> QED BY <2>1, <2>2, Zenon DEF kvs
<1>7. /\ KeysOf(emitted) = ((FieldKeys(F) \cup {"msg"} \cup LocationKey(place)) \cup DOMAIN D)
                              \cup (DOMAIN A \cup {})
      /\ \A k \in DOMAIN A \ OwnNames : LastOf(emitted, k) = Plain(A[k])
      /\ \A k \in DOMAIN D \ (OwnNames \cup DOMAIN A) : LastOf(emitted, k) = Plain(D[k])
  <2> DEFINE line == write_display(F, D, A, <<>>, call.msg, place)
  <2>1. emitted = line
    BY <1>2, Zenon
  <2> HIDE DEF emitted, F, D, A, place
  <2>2. IsLine(<<>>) /\ KeysOf(<<>>) = {}
    BY EmptyLine
  <2>3. /\ IsLine(line)
        /\ KeysOf(line) = ((FieldKeys(F) \cup {"msg"} \cup LocationKey(place)) \cup DOMAIN D)
                             \cup (DOMAIN A \cup KeysOf(<<>>))
        /\ \A k \in KeysOf(<<>>) \ OwnNames : LastOf(line, k) = Plain(LastOf(<<>>, k))
        /\ \A k \in DOMAIN A \ (OwnNames \cup KeysOf(<<>>)) : LastOf(line, k) = Plain(A[k])
        /\ \A k \in DOMAIN D \ ((OwnNames \cup KeysOf(<<>>)) \cup DOMAIN A) : LastOf(line, k) = Plain(D[k])
    BY <1>3, <1>31, <1>4, <2>2, DisplayIs
  <2> HIDE DEF line
  <2> QED BY <2>1, <2>2, <2>3
<1>8. /\ \A k \in kvs \ OwnNames : LastOf(json, k) = LastOf(KvJson, k)
      /\ \A k \in DOMAIN B \ (OwnNames \cup kvs) : LastOf(json, k) = JsonValue(B[k])
      /\ \A k \in DOMAIN R \ ((OwnNames \cup kvs) \cup DOMAIN B) : LastOf(json, k) = JsonValue(R[k])
  BY <1>2, JsonIs DEF RequestOf
<1>9. \A k \in kvs : \E chunks \in Seq(Seq(Byte)) :
         LastOf(K, k) = Text(Formatted(chunks)) /\ LastOf(KvJson, k) = Text(JsonEscapingWriter(chunks))
  BY <1>2, KvJsonIs
<1>10. /\ \A k \in DOMAIN R \ OwnNames : attributes[k] = AttributeValue(R[k])
       /\ \A k \in DOMAIN A \ (OwnNames \cup DOMAIN R) : attributes[k] = A[k]
  <2>1. /\ IsFiniteSet(DOMAIN record.additional) /\ IsFiniteSet(DOMAIN record.request)
        /\ DOMAIN record.field \subseteq Field
    BY <1>0, <1>1, RecordMaps, Zenon
  <2> DEFINE own == Located(record) \cup {"eden.audience"} \cup FieldNames(record.field)
  <2>2. /\ \A k \in DOMAIN RequestOf(record) \ own : attributes[k] = AttributeValue(RequestOf(record)[k])
        /\ \A k \in DOMAIN record.additional \ (own \cup DOMAIN RequestOf(record)) :
              attributes[k] = record.additional[k]
    BY <1>1, <2>1, MappedIs
  <2>3. own \subseteq OwnNames
    <3>1. FieldNames(record.field) \subseteq {AttributeName[f] : f \in Field}
      BY <2>1 DEF FieldNames
    <3>2. Located(record) \subseteq {"code.file.path", "code.line.number"}
      BY DEF Located
    <3> QED BY <3>1, <3>2 DEF OwnNames
  <2> HIDE DEF own, A
  <2>4. RequestOf(record) = R /\ record.additional = A
    BY <1>2 DEF RequestOf
  <2> HIDE DEF R
  <2> QED BY <2>2, <2>3, <2>4
<1> HIDE DEF K, kvs, F, G, D, R, B, A, place, emitted
<1>12. KeysOf(emitted) = KeysOf(display)
  BY <1>4, <1>6, <1>7
<1>13. ASSUME NEW f \in DOMAIN G \cap DOMAIN DisplayKey, DisplayKey[f] \notin OwnNames \cup DOMAIN A
       PROVE  Shown(DisplayKey[f], Plain(G[f]))
  <2> DEFINE key == DisplayKey[f]
  <2>1. key \in DOMAIN D /\ D[key] = G[f]
    BY <1>31
  <2>2. key \notin OwnNames /\ key \notin DOMAIN A /\ key \notin kvs /\ key \notin DOMAIN B
    BY <1>4, <1>13
  <2> HIDE DEF key
  <2>3. LastOf(display, key) = Plain(D[key]) /\ LastOf(emitted, key) = Plain(D[key])
    BY <1>6, <1>7, <2>1, <2>2
  <2> QED BY <2>1, <2>3, Zenon DEF key
<1>14. ASSUME NEW f \in DOMAIN G \cap DOMAIN JsonKey, JsonKey[f] \notin OwnNames \cup DOMAIN A
       PROVE  Told(JsonKey[f], Plain(G[f]))
  <2> DEFINE key == JsonKey[f]
  <2>1. key \in DOMAIN R /\ R[key] = G[f]
    BY <1>31
  <2>2. key \notin OwnNames /\ key \notin DOMAIN A /\ key \notin kvs /\ key \notin DOMAIN B
    BY <1>4, <1>14
  <2> HIDE DEF key
  <2>3. /\ attributes[key] = AttributeValue(R[key])
        /\ LastOf(json, key) = JsonValue(R[key]) /\ R[key] \in Value
    BY <1>31, <1>8, <1>10, <2>1, <2>2
  <2>4. Plain(attributes[key]) = Plain(R[key])
    BY <2>3, PlainAttribute, Zenon
  <2>5. Kept(Plain(R[key])) => Reads(Member(key, LastOf(json, key))) = Plain(R[key])
    BY <2>3, JsonValueReads, Zenon
  <2> QED BY <2>1, <2>4, <2>5, Zenon DEF key
<1>15. ASSUME NEW key \in DOMAIN A \ OwnNames
       PROVE  /\ Shown(key, Plain(A[key]))
              /\ key \notin DOMAIN R => Told(key, Plain(A[key]))
  <2>1. key \notin OwnNames /\ key \in DOMAIN A /\ LastOf(emitted, key) = Plain(A[key])
        /\ (key \notin DOMAIN R => attributes[key] = A[key])
    BY <1>7, <1>10
  <2>2. CASE key \in kvs
    <3>1. PICK chunks \in Seq(Seq(Byte)) : /\ LastOf(K, key) = Text(Formatted(chunks))
                                           /\ LastOf(KvJson, key) = Text(JsonEscapingWriter(chunks))
      BY <1>9, <2>2
    <3>2. /\ A[key] = LastOf(K, key) /\ LastOf(display, key) = Plain(LastOf(K, key))
          /\ LastOf(json, key) = LastOf(KvJson, key)
      BY <1>4, <1>6, <1>8, <2>1, <2>2
    <3> DEFINE m == Member(key, LastOf(json, key))
    <3>3. m.value = Text(JsonEscapingWriter(chunks))
      BY <3>1, <3>2 DEF Member
    <3> HIDE DEF m
    <3>4. Kept(Formatted(chunks)) => Reads(m) = Formatted(chunks)
      BY <3>3, ChunksReadBack
    <3>5. Plain(A[key]) = Formatted(chunks)
      BY <3>1, <3>2, PlainText, Zenon
    <3> QED BY <2>1, <3>2, <3>4, <3>5, Zenon DEF m
  <2>3. CASE key \in DOMAIN B \ kvs
    <3>1. /\ A[key] = B[key] /\ LastOf(display, key) = Plain(B[key])
          /\ LastOf(json, key) = JsonValue(B[key]) /\ B[key] \in Value
      BY <1>3, <1>4, <1>6, <1>8, <2>1, <2>3
    <3>2. Kept(Plain(B[key])) => Reads(Member(key, JsonValue(B[key]))) = Plain(B[key])
      BY <3>1, JsonValueReads
    <3> QED BY <2>1, <3>1, <3>2, Zenon
  <2> QED BY <1>4, <2>2, <2>3
<1> QED BY <1>12, <1>13, <1>14, <1>15 DEF G, A, R

-----------------------------------------------------------------------------
(* Every JSON line of every call is text a reader accepts, and the message  *)
(* and each of the macro's values read back as they are if escaping leaves  *)
(* their pieces alone or they are ASCII (write_json_escaped,                *)
(* JsonEscapingWriter).                                                     *)
THEOREM JsonLinesRead == Spec => []JsonReadsBack
<1>1. IInv => JsonReadsBack
  BY ReadsBack
<1> QED BY <1>1, IInvHolds, PTL

(* The attributes of every exported record are the latest value the         *)
(* application gave for each key, in the mapper's order of precedence       *)
(* (merge, from_direct, map_log).                                           *)
THEOREM LatestValuesWin == Spec => []LatestValueWins
<1>1. IInv => LatestValueWins
  BY LatestWins
<1> QED BY <1>1, IInvHolds, PTL

(* Whatever keys the application's two methods give to request fields, both *)
(* display lines of a call, its JSON line and its attributes hold what was  *)
(* last given of every request field and of all additional data, except     *)
(* under names of the line's own and under keys that a request field and    *)
(* additional data share (write_display, write_json, from_direct, map_log). *)
THEOREM FourWritersAgree == Spec => []FormatsAgree
<1>1. IInv => FormatsAgree
  BY WritersAgree
<1> QED BY <1>1, IInvHolds, PTL

(* A call whose level is compiled out evaluates nothing, one whose audience *)
(* is compiled out evaluates that alone, and neither writes anything; any   *)
(* other evaluates each argument once, and the exporter maps exactly the    *)
(* written records it accepts (gen_body, Accepts).                          *)
THEOREM DisabledCostsNothing == Spec => []DisabledIsFree
<1>1. IInv => DisabledIsFree
  BY DisabledFree
<1> QED BY <1>1, IInvHolds, PTL
===============================================================================
