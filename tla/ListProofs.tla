----------------------------- MODULE ListProofs -----------------------------
(***************************************************************************)
(* What becomes of lists of any length: what is freed of the devices        *)
(* (Cleanup), what a reader finds in the file they are written to           *)
(* (Results), what is drawn of a network (Topology), where a request goes   *)
(* by the routes and the ARP cache (Targets), and which scan a command line *)
(* begins (CommandLine), with the properties of Algorithms that follow.     *)
(***************************************************************************)
EXTENDS Algorithms, TLAPS, FiniteSetTheorems

ReadLoop ==
  INSTANCE LeftFold WITH Step <- ReadToken, Base <- [place |-> <<>>, fields |-> <<>>]

FileLoop == INSTANCE LeftFold WITH Step <- WriteNext, Base <- NoFile

-----------------------------------------------------------------------------
(* Sequences of any kind, and joined ones.                                  *)

IsSeq(s) == \E R : s \in Seq(R)

Elements(s) == {s[i] : i \in DOMAIN s}

\* What must not stand before what: a block that is freed twice, a slot before
\* a subslot of it.
Wrong(x, y) ==
  \/ x = y
  \/ x[1] = "slot" /\ y[1] = "subslot" /\ x[2] = y[2] /\ x[3] = y[3]

RightOrder(s) == \A i, j \in DOMAIN s : i < j => ~Wrong(s[i], s[j])

LEMMA SeqIs ==
  ASSUME NEW s, IsSeq(s)
  PROVE  Len(s) \in Nat /\ DOMAIN s = 1..Len(s)
  BY DEF IsSeq

\* Both parts are in their places.
LEMMA JoinIs ==
  ASSUME NEW a, IsSeq(a), NEW b, IsSeq(b)
  PROVE  /\ IsSeq(a \o b) /\ Len(a \o b) = Len(a) + Len(b)
         /\ \A i \in 1..Len(a) : (a \o b)[i] = a[i]
         /\ \A i \in 1..Len(b) : (a \o b)[Len(a) + i] = b[i]
<1>1. PICK A : a \in Seq(A)
  BY DEF IsSeq
<1>2. PICK B : b \in Seq(B)
  BY DEF IsSeq
<1> DEFINE R == A \cup B
<1>3. a \in Seq(R) /\ b \in Seq(R)
  BY <1>1, <1>2
<1> HIDE DEF R
<1>4. a \o b \in Seq(R) /\ Len(a \o b) = Len(a) + Len(b)
  BY <1>3
<1>5. \A i \in 1..Len(a) : (a \o b)[i] = a[i]
  BY <1>3
<1>6. \A i \in 1..Len(b) : (a \o b)[Len(a) + i] = b[i]
  BY <1>3
<1>7. QED
  BY <1>4, <1>5, <1>6 DEF IsSeq

\* Nothing is lost and nothing comes in.
LEMMA JoinElements ==
  ASSUME NEW a, IsSeq(a), NEW b, IsSeq(b)
  PROVE  Elements(a \o b) = Elements(a) \cup Elements(b)
<1> DEFINE m == Len(a)
           n == Len(b)
           c == a \o b
<1>1. /\ m \in Nat /\ DOMAIN a = 1..m /\ n \in Nat /\ DOMAIN b = 1..n
      /\ DOMAIN c = 1..(m + n)
      /\ \A i \in 1..m : c[i] = a[i]
      /\ \A i \in 1..n : c[m + i] = b[i]
  BY SeqIs, JoinIs
<1> HIDE DEF m, n, c
<1>2. ASSUME NEW i \in 1..m PROVE i \in DOMAIN c
  BY <1>1
<1>3. ASSUME NEW i \in 1..n PROVE m + i \in DOMAIN c
  BY <1>1
<1>4. ASSUME NEW k \in DOMAIN c
      PROVE  k \in 1..m \/ (k - m \in 1..n /\ m + (k - m) = k)
  BY <1>1
<1>5. Elements(a) \subseteq Elements(c)
  BY <1>1, <1>2 DEF Elements
<1>6. Elements(b) \subseteq Elements(c)
  BY <1>1, <1>3 DEF Elements
<1>7. ASSUME NEW k \in DOMAIN c PROVE c[k] \in Elements(a) \cup Elements(b)
  BY <1>1, <1>4 DEF Elements
<1>8. Elements(c) \subseteq Elements(a) \cup Elements(b)
  BY <1>7 DEF Elements
<1>9. QED
  BY <1>5, <1>6, <1>8 DEF c

\* What is wrong in the whole is between the parts.
LEMMA JoinWrong ==
  ASSUME NEW a, IsSeq(a), RightOrder(a), NEW b, IsSeq(b), RightOrder(b),
         NEW i \in DOMAIN (a \o b), NEW j \in DOMAIN (a \o b), i < j,
         Wrong((a \o b)[i], (a \o b)[j])
  PROVE  (a \o b)[i] \in Elements(a) /\ (a \o b)[j] \in Elements(b)
<1> DEFINE m == Len(a)
           n == Len(b)
           c == a \o b
<1>1. /\ m \in Nat /\ DOMAIN a = 1..m /\ n \in Nat /\ DOMAIN b = 1..n
      /\ DOMAIN c = 1..(m + n)
      /\ \A k \in 1..m : c[k] = a[k]
      /\ \A k \in 1..n : c[m + k] = b[k]
  BY SeqIs, JoinIs
<1>2. i \in DOMAIN c /\ j \in DOMAIN c /\ i < j /\ Wrong(c[i], c[j])
  OBVIOUS
<1> HIDE DEF m, n, c
<1>3. i \in 1..m /\ j \notin 1..m
  <2>1. CASE j \in 1..m
    <3>1. i \in 1..m
      BY <1>1, <1>2, <2>1
    <3>2. QED
      BY <1>1, <1>2, <2>1, <3>1 DEF RightOrder
  <2>2. CASE i \notin 1..m
    <3>1. /\ i - m \in 1..n /\ m + (i - m) = i /\ j - m \in 1..n /\ m + (j - m) = j
          /\ i - m < j - m
      <4>1. m \in Nat /\ n \in Nat /\ i \in 1..(m + n) /\ j \in 1..(m + n) /\ i < j
        BY <1>1, <1>2
      <4>2. i > m /\ j > m
        BY <2>2, <4>1
      <4>3. QED
        BY <4>1, <4>2
    <3>2. c[i] = b[i - m] /\ c[j] = b[j - m]
      BY <1>1, <3>1
    <3>3. QED
      BY <1>1, <1>2, <3>1, <3>2 DEF RightOrder
  <2>3. QED
    BY <2>1, <2>2
<1>4. j - m \in 1..n /\ m + (j - m) = j
  BY <1>1, <1>2, <1>3
<1>5. c[i] \in Elements(a) /\ c[j] \in Elements(b)
  BY <1>1, <1>3, <1>4 DEF Elements
<1>6. QED
  BY <1>5 DEF c

\* So a whole is right whose parts are, and are right to each other.
LEMMA JoinOrder ==
  ASSUME NEW a, IsSeq(a), RightOrder(a), NEW b, IsSeq(b), RightOrder(b),
         \A x \in Elements(a), y \in Elements(b) : ~Wrong(x, y)
  PROVE  RightOrder(a \o b)
<1>1. ASSUME NEW i \in DOMAIN (a \o b), NEW j \in DOMAIN (a \o b), i < j,
             Wrong((a \o b)[i], (a \o b)[j])
      PROVE  FALSE
  BY <1>1, JoinWrong
<1>2. QED
  BY <1>1 DEF RightOrder

-----------------------------------------------------------------------------
(* FlattenSeq: any number of sequences that are joined.                    *)

\* The recursive function behind it.
Flattens(f, seqs, n) ==
  f = [i \in 1..n |-> IF i = 1 THEN seqs[i] ELSE f[i - 1] \o seqs[i]]

\* There is one, by induction over its domain.
LEMMA FlattensExists ==
  ASSUME NEW seqs, NEW n \in Nat
  PROVE  \E f : Flattens(f, seqs, n)
<1> DEFINE S == {m \in 0..n : \E f : Flattens(f, seqs, m)}
<1>1. 0 \in S
  <2> DEFINE f == [i \in 1..0 |-> seqs[i]]
  <2>1. f = [i \in 1..0 |-> IF i = 1 THEN seqs[i] ELSE f[i - 1] \o seqs[i]]
    OBVIOUS
  <2> HIDE DEF f
  <2>2. Flattens(f, seqs, 0)
    BY <2>1 DEF Flattens
  <2>3. QED
    BY <2>2
<1>2. ASSUME NEW m \in 0..(n - 1), m \in S PROVE m + 1 \in S
  <2>1. PICK f : Flattens(f, seqs, m)
    BY <1>2
  <2>2. m \in Nat /\ m + 1 \in 0..n
    OBVIOUS
  <2> DEFINE more == IF m + 1 = 1 THEN seqs[m + 1] ELSE f[m] \o seqs[m + 1]
             g == [i \in 1..(m + 1) |-> IF i = m + 1 THEN more ELSE f[i]]
  <2>3. ASSUME NEW i \in 1..(m + 1)
        PROVE  g[i] = IF i = 1 THEN seqs[i] ELSE g[i - 1] \o seqs[i]
    <3>1. CASE i = m + 1
      <4>1. i # 1 => g[m] = f[m] /\ i - 1 = m
        BY <2>2, <3>1
      <4>2. g[i] = more
        BY <3>1
      <4> HIDE DEF g
      <4>3. QED
        BY <3>1, <4>1, <4>2
    <3>2. CASE i # m + 1
      <4>1. i \in 1..m /\ (i # 1 => i - 1 \in 1..m /\ i - 1 \in 1..(m + 1) /\ i - 1 # m + 1)
        BY <2>2, <3>2
      <4>2. g[i] = f[i] /\ (i # 1 => g[i - 1] = f[i - 1])
        BY <3>2, <4>1
      <4> HIDE DEF g
      <4>3. f[i] = IF i = 1 THEN seqs[i] ELSE f[i - 1] \o seqs[i]
        BY <2>1, <4>1 DEF Flattens
      <4>4. QED
        BY <4>2, <4>3
    <3>3. QED
      BY <3>1, <3>2
  <2>4. g = [i \in 1..(m + 1) |-> g[i]]
    OBVIOUS
  <2> HIDE DEF g
  <2>5. Flattens(g, seqs, m + 1)
    BY <2>3, <2>4 DEF Flattens
  <2>6. QED
    BY <2>2, <2>5
<1> HIDE DEF S
<1>3. n \in S
  BY <1>1, <1>2, ReadLoop!Induction
<1>4. QED
  BY <1>3 DEF S

\* It joins one after the other.
LEMMA FlattenSteps ==
  ASSUME NEW seqs, NEW n \in Nat, Len(seqs) = n, n = 0 => seqs = <<>>,
         n > 0 => IsSeq(seqs[1])
  PROVE  \E joined :
           /\ joined[0] = <<>>
           /\ \A k \in 0..(n - 1) : joined[k + 1] = joined[k] \o seqs[k + 1]
           /\ FlattenSeq(seqs) = joined[n]
<1>1. CASE n = 0
  <2> DEFINE joined == [k \in {0} |-> <<>>]
  <2>1. joined[0] = <<>> /\ FlattenSeq(seqs) = joined[n] /\ 0..(n - 1) = {}
    BY <1>1 DEF FlattenSeq
  <2>2. QED
    BY <2>1
<1>2. CASE n > 0
  <2> DEFINE f == CHOOSE f : Flattens(f, seqs, n)
             joined == [k \in 0..n |-> IF k = 0 THEN <<>> ELSE f[k]]
  <2>1. Flattens(f, seqs, n)
    BY FlattensExists
  <2>2. FlattenSeq(seqs) = f[n]
    BY <1>2 DEF FlattenSeq, Flattens
  <2> HIDE DEF f
  <2>3. f[1] = seqs[1]
    BY <1>2, <2>1 DEF Flattens
  <2>4. ASSUME NEW k \in 0..(n - 1)
        PROVE  joined[k + 1] = joined[k] \o seqs[k + 1]
    <3>1. k \in Nat /\ k + 1 \in 1..n /\ k + 1 \in 0..n /\ k + 1 # 0 /\ k \in 0..n
      OBVIOUS
    <3>2. CASE k = 0
      <4>1. joined[k + 1] = seqs[1] /\ joined[k] = <<>>
        BY <2>3, <3>1, <3>2
      <4>2. <<>> \o seqs[1] = seqs[1]
        BY <1>2 DEF IsSeq
      <4> HIDE DEF joined
      <4>3. QED
        BY <3>2, <4>1, <4>2
    <3>3. CASE k # 0
      <4>1. \A i \in 1..n : i # 1 => f[i] = f[i - 1] \o seqs[i]
        BY <2>1 DEF Flattens
      <4>2. (k + 1) - 1 = k /\ k + 1 # 1
        BY <3>1, <3>3
      <4>3. joined[k + 1] = f[k + 1] /\ joined[k] = f[k]
        BY <3>1, <3>3
      <4> HIDE DEF joined
      <4>4. QED
        BY <3>1, <4>1, <4>2, <4>3
    <3>4. QED
      BY <3>2, <3>3
  <2>5. joined[0] = <<>> /\ joined[n] = f[n]
    BY <1>2
  <2> HIDE DEF joined
  <2>6. QED
    BY <2>2, <2>4, <2>5
<1>3. n = 0 \/ n > 0
  OBVIOUS
<1>4. QED
  BY <1>1, <1>2, <1>3

\* By induction over the parts, with the lemmas about two of them.
LEMMA FlattenIs ==
  ASSUME NEW seqs, NEW n \in Nat, Len(seqs) = n, n = 0 => seqs = <<>>,
         \A i \in 1..n : IsSeq(seqs[i])
  PROVE  /\ IsSeq(FlattenSeq(seqs))
         /\ Elements(FlattenSeq(seqs)) = UNION {Elements(seqs[i]) : i \in 1..n}
         /\ (/\ \A i \in 1..n : RightOrder(seqs[i])
             /\ \A i, j \in 1..n : i < j =>
                  \A x \in Elements(seqs[i]), y \in Elements(seqs[j]) : ~Wrong(x, y))
            => RightOrder(FlattenSeq(seqs))
<1> DEFINE right == /\ \A i \in 1..n : RightOrder(seqs[i])
                    /\ \A i, j \in 1..n : i < j =>
                         \A x \in Elements(seqs[i]), y \in Elements(seqs[j]) : ~Wrong(x, y)
           upTo(k) == UNION {Elements(seqs[i]) : i \in 1..k}
<1>1. n > 0 => IsSeq(seqs[1])
  OBVIOUS
<1>2. PICK joined :
        /\ joined[0] = <<>>
        /\ \A k \in 0..(n - 1) : joined[k + 1] = joined[k] \o seqs[k + 1]
        /\ FlattenSeq(seqs) = joined[n]
  BY <1>1, FlattenSteps
<1> DEFINE S == {k \in 0..n : /\ IsSeq(joined[k]) /\ Elements(joined[k]) = upTo(k)
                              /\ right => RightOrder(joined[k])}
<1>3. 0 \in S
  <2> DEFINE none == <<>>
  <2>1. IsSeq(none) /\ DOMAIN none = {} /\ 1..0 = {} /\ 0 \in 0..n
    BY DEF IsSeq
  <2> HIDE DEF none
  <2>2. Elements(none) = upTo(0) /\ RightOrder(none)
    BY <2>1 DEF Elements, RightOrder
  <2>3. joined[0] = none
    BY <1>2 DEF none
  <2>4. QED
    BY <2>1, <2>2, <2>3
<1>4. ASSUME NEW k \in 0..(n - 1), k \in S PROVE k + 1 \in S
  <2> DEFINE a == joined[k]
             b == seqs[k + 1]
  <2>1. k + 1 \in 1..n /\ k \in Nat /\ k + 1 \in 0..n
    OBVIOUS
  <2>2. /\ IsSeq(a) /\ Elements(a) = upTo(k) /\ (right => RightOrder(a))
        /\ IsSeq(b) /\ joined[k + 1] = a \o b
    BY <1>2, <1>4, <2>1
  <2> HIDE DEF a
  <2>3. IsSeq(a \o b) /\ Elements(a \o b) = upTo(k) \cup Elements(b)
    <3> HIDE DEF b, upTo, right
    <3>1. QED
      BY <2>2, JoinIs, JoinElements
  <2>4. \A i \in 1..(k + 1) : i \in 1..k \/ i = k + 1
    BY <2>1
  <2>5. k + 1 \in 1..(k + 1) /\ 1..k \subseteq 1..(k + 1)
    BY <2>1
  <2>6. upTo(k + 1) = upTo(k) \cup Elements(b)
    BY <2>4, <2>5
  <2>7. ASSUME right PROVE RightOrder(a \o b)
    <3>1. RightOrder(b)
      BY <2>1, <2>7
    <3>2. ASSUME NEW x \in Elements(a), NEW y \in Elements(b) PROVE ~Wrong(x, y)
      <4>1. PICK i \in 1..k : x \in Elements(seqs[i])
        BY <2>2
      <4>2. i \in 1..n /\ i < k + 1
        BY <2>1
      <4>3. QED
        BY <2>1, <2>7, <4>1, <4>2
    <3>3. QED
      BY <2>2, <2>7, <3>1, <3>2, JoinOrder
  <2> HIDE DEF right, upTo
  <2>8. QED
    BY <2>1, <2>2, <2>3, <2>6, <2>7
<1> HIDE DEF S
<1>5. n \in S
  BY <1>3, <1>4, ReadLoop!Induction
<1>6. QED
  BY <1>2, <1>5 DEF S

-----------------------------------------------------------------------------
(* What is freed of a list (linkedList.c:218-290).                         *)

\* The items of a list of n that go.
FreedSet(n) == IF n = 1 THEN {1} ELSE 2..n

\* Each of them goes once.
LEMMA FreedItemsAre ==
  ASSUME NEW n \in Nat
  PROVE  LET F == FreedItems(n) IN
         /\ IsSeq(F) /\ Elements(F) = FreedSet(n)
         /\ \A i, j \in DOMAIN F : F[i] = F[j] => i = j
<1>1. CASE n = 1
  <2> DEFINE F == <<1>>
  <2>1. /\ F \in Seq(Nat) /\ DOMAIN F = {1} /\ F[1] = 1
    OBVIOUS
  <2> HIDE DEF F
  <2>2. /\ IsSeq(F) /\ Elements(F) = {1}
        /\ \A i, j \in DOMAIN F : F[i] = F[j] => i = j
    BY <2>1 DEF IsSeq, Elements
  <2>3. FreedItems(n) = F
    BY <1>1 DEF FreedItems, F
  <2>4. QED
    BY <1>1, <2>2, <2>3 DEF FreedSet
<1>2. CASE n # 1
  <2> DEFINE F == [i \in 1..(n - 1) |-> n + 1 - i]
  <2>1. \A i \in 1..(n - 1) : F[i] = n + 1 - i /\ n + 1 - i \in 2..n
    OBVIOUS
  <2>2. ASSUME NEW u \in 2..n PROVE n + 1 - u \in 1..(n - 1) /\ F[n + 1 - u] = u
    OBVIOUS
  <2>3. DOMAIN F = 1..(n - 1)
    OBVIOUS
  <2>4. IsSeq(F)
    <3>1. CASE n = 0
      <4>1. F = <<>>
        BY <3>1
      <4>2. QED
        BY <4>1 DEF IsSeq
    <3>2. CASE n # 0
      <4>1. n - 1 \in Nat
        BY <3>2
      <4>2. F \in [1..(n - 1) -> Nat]
        OBVIOUS
      <4> HIDE DEF F
      <4>3. F \in Seq(Nat)
        BY <4>1, <4>2
      <4>4. QED
        BY <4>3 DEF IsSeq
    <3>3. QED
      BY <3>1, <3>2
  <2> HIDE DEF F
  <2>5. Elements(F) = 2..n
    BY <2>1, <2>2, <2>3 DEF Elements
  <2>6. ASSUME NEW i \in DOMAIN F, NEW j \in DOMAIN F, F[i] = F[j]
        PROVE  i = j
    <3>1. n + 1 - i = n + 1 - j /\ i \in Int /\ j \in Int
      BY <2>1, <2>3, <2>6
    <3>2. QED
      BY <3>1
  <2>7. FreedItems(n) = F
    BY <1>2 DEF FreedItems, FromTheEnd, F
  <2>8. QED
    BY <1>2, <2>4, <2>5, <2>6, <2>7 DEF FreedSet
<1>3. QED
  BY <1>1, <1>2

\* A sequence for each place of another one.
LEMMA MappedIs ==
  ASSUME NEW F, IsSeq(F), NEW G, G = [i \in DOMAIN F |-> G[i]]
  PROVE  IsSeq(G) /\ Len(G) = Len(F) /\ DOMAIN G = DOMAIN F
<1>1. Len(F) \in Nat /\ DOMAIN F = 1..Len(F)
  BY SeqIs
<1>2. DOMAIN G = 1..Len(F)
  BY <1>1
<1>3. G \in [1..Len(F) -> Elements(G)]
  BY <1>1, <1>2 DEF Elements
<1>4. G \in Seq(Elements(G)) /\ Len(G) = Len(F)
  BY <1>1, <1>3
<1>5. QED
  BY <1>1, <1>2, <1>4 DEF IsSeq

LEMMA SingleIs ==
  ASSUME NEW x
  PROVE  IsSeq(<<x>>) /\ Elements(<<x>>) = {x} /\ RightOrder(<<x>>)
<1> DEFINE s == <<x>>
<1>1. s \in Seq({x}) /\ DOMAIN s = {1} /\ s[1] = x
  OBVIOUS
<1> HIDE DEF s
<1>2. IsSeq(s) /\ Elements(s) = {x} /\ RightOrder(s)
  BY <1>1 DEF IsSeq, Elements, RightOrder
<1>3. QED
  BY <1>2 DEF s

LEMMA NoneIs == IsSeq(<<>>) /\ Elements(<<>>) = {} /\ RightOrder(<<>>)
<1> DEFINE s == <<>>
<1>1. s \in Seq({}) /\ DOMAIN s = {}
  OBVIOUS
<1> HIDE DEF s
<1>2. IsSeq(s) /\ Elements(s) = {} /\ RightOrder(s)
  BY <1>1 DEF IsSeq, Elements, RightOrder
<1>3. QED
  BY <1>2 DEF s

\* empty_SubSlotList frees subslots of its slot, each once.
LEMMA SubSlotsFreed ==
  ASSUME NEW d, NEW s, NEW count \in Nat
  PROVE  LET freed == EmptySubSlotList(d, s, count) IN
         /\ IsSeq(freed) /\ RightOrder(freed)
         /\ \A x \in Elements(freed) :
              \E u \in FreedSet(count) : x = <<"subslot", d, s, u>>
<1> DEFINE F == FreedItems(count)
           G == EmptySubSlotList(d, s, count)
<1>1. /\ IsSeq(F) /\ Elements(F) = FreedSet(count)
      /\ \A i, j \in DOMAIN F : F[i] = F[j] => i = j
  BY FreedItemsAre
<1>2. G = [i \in DOMAIN F |-> <<"subslot", d, s, F[i]>>]
  BY DEF EmptySubSlotList
<1> HIDE DEF F, G
<1>3. IsSeq(G) /\ DOMAIN G = DOMAIN F
  BY <1>1, <1>2, MappedIs
<1>4. \A i \in DOMAIN F : G[i] = <<"subslot", d, s, F[i]>> /\ G[i][1] = "subslot"
                          /\ G[i][4] = F[i]
  BY <1>2
<1>5. \A x \in Elements(G) : \E u \in FreedSet(count) : x = <<"subslot", d, s, u>>
  BY <1>1, <1>3, <1>4 DEF Elements
<1>6. ASSUME NEW i \in DOMAIN G, NEW j \in DOMAIN G, i < j PROVE ~Wrong(G[i], G[j])
  <2>1. i # j /\ i \in DOMAIN F /\ j \in DOMAIN F
    <3>1. i \in Nat /\ j \in Nat
      BY <1>3, SeqIs
    <3>2. QED
      BY <1>3, <1>6, <3>1
  <2>2. G[i] # G[j]
    BY <1>1, <1>4, <2>1
  <2>3. G[i][1] # "slot"
    BY <1>4, <2>1
  <2>4. QED
    BY <2>2, <2>3 DEF Wrong
<1>7. QED
  BY <1>3, <1>5, <1>6 DEF RightOrder, G

\* A block of a device: a slot or a subslot.
OfDevice(x, d) == x[1] \in {"slot", "subslot"} /\ x[2] = d

\* empty_SlotList frees the slots that are to go, each behind its subslots.
LEMMA SlotsFreed ==
  ASSUME NEW d, NEW slots \in Seq(Nat)
  PROVE  LET freed == EmptySlotList(d, slots) IN
         /\ IsSeq(freed) /\ RightOrder(freed)
         /\ \A x \in Elements(freed) : OfDevice(x, d)
         /\ \A s \in FreedSet(Len(slots)) : <<"slot", d, s>> \in Elements(freed)
<1> DEFINE n == Len(slots)
           F == FreedItems(n)
           subslots(s) == IF n > 1 THEN EmptySubSlotList(d, s, slots[s]) ELSE <<>>
           piece(s) == subslots(s) \o << <<"slot", d, s>> >>
           pieces == [i \in DOMAIN F |-> piece(F[i])]
<1>1. n \in Nat /\ \A s \in 1..n : slots[s] \in Nat
  OBVIOUS
<1>2. EmptySlotList(d, slots) = FlattenSeq(pieces)
  BY DEF EmptySlotList
<1>3. /\ IsSeq(F) /\ Elements(F) = FreedSet(n)
      /\ \A i, j \in DOMAIN F : F[i] = F[j] => i = j
  BY <1>1, FreedItemsAre
<1> HIDE DEF F
<1>4. Len(F) \in Nat /\ DOMAIN F = 1..Len(F)
  BY <1>3, SeqIs
<1>5. \A i \in DOMAIN F : F[i] \in FreedSet(n)
  BY <1>3 DEF Elements
<1>6. ASSUME NEW s \in FreedSet(n)
      PROVE  /\ IsSeq(subslots(s)) /\ RightOrder(subslots(s))
             /\ \A x \in Elements(subslots(s)) :
                  x[1] = "subslot" /\ x[2] = d /\ x[3] = s
  <2>1. CASE n > 1
    <3>1. s \in 1..n
      BY <1>1, <2>1 DEF FreedSet
    <3>2. slots[s] \in Nat
      BY <1>1, <3>1
    <3>3. /\ IsSeq(EmptySubSlotList(d, s, slots[s]))
          /\ RightOrder(EmptySubSlotList(d, s, slots[s]))
          /\ \A x \in Elements(EmptySubSlotList(d, s, slots[s])) :
               \E u \in FreedSet(slots[s]) : x = <<"subslot", d, s, u>>
      BY <3>2, SubSlotsFreed
    <3>4. \A u : LET x == <<"subslot", d, s, u>> IN
                 x[1] = "subslot" /\ x[2] = d /\ x[3] = s
      OBVIOUS
    <3>5. subslots(s) = EmptySubSlotList(d, s, slots[s])
      BY <2>1
    <3> HIDE DEF subslots
    <3>6. QED
      BY <3>3, <3>4, <3>5
  <2>2. CASE ~(n > 1)
    <3>1. subslots(s) = <<>>
      BY <2>2
    <3> HIDE DEF subslots
    <3>2. QED
      BY <3>1, NoneIs
  <2>3. QED
    BY <2>1, <2>2
<1> HIDE DEF subslots
<1>7. ASSUME NEW s \in FreedSet(n)
      PROVE  /\ IsSeq(piece(s)) /\ RightOrder(piece(s))
             /\ \A x \in Elements(piece(s)) : OfDevice(x, d) /\ x[3] = s
             /\ <<"slot", d, s>> \in Elements(piece(s))
  <2> DEFINE slot == <<"slot", d, s>>
             a == subslots(s)
             b == <<slot>>
  <2>1. slot[1] = "slot" /\ slot[2] = d /\ slot[3] = s
    OBVIOUS
  <2> HIDE DEF slot
  <2>2. IsSeq(b) /\ RightOrder(b) /\ Elements(b) = {slot}
    BY SingleIs
  <2>3. /\ IsSeq(a) /\ RightOrder(a)
        /\ \A x \in Elements(a) : x[1] = "subslot" /\ x[2] = d /\ x[3] = s
    BY <1>6
  <2> HIDE DEF a, b
  <2>4. \A x \in Elements(a), y \in Elements(b) : ~Wrong(x, y)
    BY <2>1, <2>2, <2>3 DEF Wrong
  <2>5. /\ IsSeq(a \o b) /\ RightOrder(a \o b)
        /\ Elements(a \o b) = Elements(a) \cup {slot}
    BY <2>2, <2>3, <2>4, JoinIs, JoinElements, JoinOrder
  <2>6. \A x \in Elements(a \o b) : OfDevice(x, d) /\ x[3] = s
    BY <2>1, <2>3, <2>5 DEF OfDevice
  <2>7. piece(s) = a \o b
    BY DEF a, b, slot
  <2> HIDE DEF piece
  <2>8. QED
    BY <2>5, <2>6, <2>7 DEF slot
<1> HIDE DEF piece
<1>8. \A i \in DOMAIN F : pieces[i] = piece(F[i])
  OBVIOUS
<1>9. Len(pieces) = Len(F) /\ DOMAIN pieces = 1..Len(F)
  BY <1>3, <1>4, MappedIs
<1>10. Len(F) = 0 => pieces = <<>>
  <2>1. CASE Len(F) = 0
    <3>1. IsSeq(pieces)
      BY <1>3, MappedIs
    <3> HIDE DEF pieces
    <3>2. QED
      BY <1>9, <2>1, <3>1 DEF IsSeq
  <2>2. QED
    BY <2>1
<1> HIDE DEF pieces, n
<1>11. ASSUME NEW i \in 1..Len(F)
       PROVE  /\ IsSeq(pieces[i]) /\ RightOrder(pieces[i])
              /\ \A x \in Elements(pieces[i]) : OfDevice(x, d) /\ x[3] = F[i]
  <2>1. i \in DOMAIN F
    BY <1>4
  <2>2. pieces[i] = piece(F[i]) /\ F[i] \in FreedSet(n)
    BY <1>5, <1>8, <2>1
  <2>3. QED
    BY <1>7, <2>2
<1>12. /\ IsSeq(FlattenSeq(pieces))
       /\ Elements(FlattenSeq(pieces)) = UNION {Elements(pieces[i]) : i \in 1..Len(F)}
       /\ (/\ \A i \in 1..Len(F) : RightOrder(pieces[i])
           /\ \A i, j \in 1..Len(F) : i < j =>
                \A x \in Elements(pieces[i]), y \in Elements(pieces[j]) : ~Wrong(x, y))
          => RightOrder(FlattenSeq(pieces))
  <2>1. \A i \in 1..Len(F) : IsSeq(pieces[i])
    BY <1>11
  <2>2. QED
    BY <1>4, <1>9, <1>10, <2>1, FlattenIs
<1>13. ASSUME NEW i \in 1..Len(F), NEW j \in 1..Len(F), i < j,
              NEW x \in Elements(pieces[i]), NEW y \in Elements(pieces[j])
       PROVE  ~Wrong(x, y)
  <2>1. F[i] # F[j]
    BY <1>3, <1>4, <1>13
  <2>2. x[3] = F[i] /\ y[3] = F[j]
    BY <1>11, <1>13
  <2>3. QED
    BY <2>1, <2>2 DEF Wrong
<1>14. RightOrder(FlattenSeq(pieces))
  BY <1>12, <1>11, <1>13
<1>15. \A x \in Elements(FlattenSeq(pieces)) : OfDevice(x, d)
  BY <1>11, <1>12
<1>16. ASSUME NEW s \in FreedSet(n)
       PROVE  <<"slot", d, s>> \in Elements(FlattenSeq(pieces))
  <2>1. PICK i \in DOMAIN F : F[i] = s
    BY <1>3 DEF Elements
  <2>2. <<"slot", d, s>> \in Elements(pieces[i])
    BY <1>7, <1>8, <2>1
  <2>3. QED
    BY <1>4, <1>12, <2>1, <2>2
<1>17. QED
  BY <1>2, <1>12, <1>14, <1>15, <1>16 DEF n

-----------------------------------------------------------------------------
(* empty_list (linkedList.c:106-156).                                      *)

\* A list of any devices with any slots.
IsList(list) ==
  /\ \E R : list \in Seq(R)
  /\ \A d \in DOMAIN list : list[d].slots \in Seq(Nat)

\* What the loop frees, and what is freed of a single device.
FreedByLoop(list) ==
  FlattenSeq([d \in 1..(Len(list) - 1) |->
    EmptySlotList(d, list[d].slots) \o << <<"node", d>> >>])

FreedAsSingle(list) ==
  FreeString("name", 1, list[1].name)
    \o FreeString("hardware", 1, list[1].hardware)
    \o EmptySlotList(Len(list), Last(list).slots)
    \o << <<"node", 1>> >>

\* The loop frees the nodes but the last, each behind its slots.
LEMMA LoopFrees ==
  ASSUME NEW list, IsList(list), Len(list) > 0
  PROVE  LET freed == FreedByLoop(list)
             n == Len(list) - 1
         IN  /\ IsSeq(freed) /\ RightOrder(freed)
             /\ \A x \in Elements(freed) : \E d \in 1..n :
                  OfDevice(x, d) \/ x = <<"node", d>>
             /\ \A d \in 1..n : <<"node", d>> \in Elements(freed)
             /\ \A d \in 1..n : \A s \in FreedSet(Len(list[d].slots)) :
                  <<"slot", d, s>> \in Elements(freed)
<1> DEFINE n == Len(list) - 1
           slots(d) == EmptySlotList(d, list[d].slots)
           piece(d) == slots(d) \o << <<"node", d>> >>
           pieces == [d \in 1..n |-> piece(d)]
<1>1. n \in Nat /\ \A d \in 1..n : d \in DOMAIN list /\ d \in Nat
  BY DEF IsList
<1>2. Len(pieces) = n /\ \A d \in 1..n : pieces[d] = piece(d)
  BY <1>1
<1>3. n = 0 => pieces = <<>>
  <2> HIDE DEF piece, n
  <2>1. n = 0 => [d \in 1..n |-> piece(d)] = <<>>
    OBVIOUS
  <2>2. QED
    BY <2>1
<1>4. FreedByLoop(list) = FlattenSeq(pieces)
  BY DEF FreedByLoop
<1> HIDE DEF pieces, n
<1>5. ASSUME NEW d \in 1..n
      PROVE  /\ IsSeq(slots(d)) /\ RightOrder(slots(d))
             /\ \A x \in Elements(slots(d)) : OfDevice(x, d)
             /\ \A s \in FreedSet(Len(list[d].slots)) :
                  <<"slot", d, s>> \in Elements(slots(d))
  <2>1. list[d].slots \in Seq(Nat)
    BY <1>1 DEF IsList
  <2>2. QED
    BY <2>1, SlotsFreed
<1> HIDE DEF slots
<1>6. ASSUME NEW d \in 1..n
      PROVE  /\ IsSeq(piece(d)) /\ RightOrder(piece(d))
             /\ \A x \in Elements(piece(d)) : OfDevice(x, d) \/ x = <<"node", d>>
             /\ <<"node", d>> \in Elements(piece(d))
             /\ Elements(slots(d)) \subseteq Elements(piece(d))
  <2> DEFINE node == <<"node", d>>
             a == slots(d)
             b == <<node>>
  <2>1. node[1] = "node"
    OBVIOUS
  <2> HIDE DEF node
  <2>2. IsSeq(b) /\ RightOrder(b) /\ Elements(b) = {node}
    BY SingleIs
  <2>3. IsSeq(a) /\ RightOrder(a) /\ \A x \in Elements(a) : OfDevice(x, d)
    BY <1>5
  <2> HIDE DEF a, b
  <2>4. \A x \in Elements(a), y \in Elements(b) : ~Wrong(x, y)
    BY <2>1, <2>2, <2>3 DEF Wrong, OfDevice
  <2>5. /\ IsSeq(a \o b) /\ RightOrder(a \o b)
        /\ Elements(a \o b) = Elements(a) \cup {node}
    BY <2>2, <2>3, <2>4, JoinIs, JoinElements, JoinOrder
  <2>6. piece(d) = a \o b
    BY DEF a, b, node
  <2> HIDE DEF piece
  <2>7. QED
    BY <2>3, <2>5, <2>6 DEF node, a
<1> HIDE DEF piece
<1>7. /\ IsSeq(FlattenSeq(pieces))
      /\ Elements(FlattenSeq(pieces)) = UNION {Elements(pieces[i]) : i \in 1..n}
      /\ (/\ \A i \in 1..n : RightOrder(pieces[i])
          /\ \A i, j \in 1..n : i < j =>
               \A x \in Elements(pieces[i]), y \in Elements(pieces[j]) : ~Wrong(x, y))
         => RightOrder(FlattenSeq(pieces))
  <2>1. \A i \in 1..n : IsSeq(pieces[i])
    BY <1>2, <1>6
  <2>2. QED
    BY <1>1, <1>2, <1>3, <2>1, FlattenIs
<1>8. ASSUME NEW i \in 1..n, NEW j \in 1..n, i < j,
             NEW x \in Elements(pieces[i]), NEW y \in Elements(pieces[j])
      PROVE  ~Wrong(x, y)
  <2>1. i # j
    BY <1>1, <1>8
  <2>2. /\ OfDevice(x, i) \/ x = <<"node", i>>
        /\ OfDevice(y, j) \/ y = <<"node", j>>
    BY <1>2, <1>6, <1>8
  <2>3. x[2] = i /\ y[2] = j
    BY <2>2 DEF OfDevice
  <2>4. QED
    BY <2>1, <2>3 DEF Wrong
<1>9. RightOrder(FlattenSeq(pieces))
  BY <1>2, <1>6, <1>7, <1>8
<1>10. \A d \in 1..n : Elements(piece(d)) \subseteq Elements(FlattenSeq(pieces))
  BY <1>2, <1>7
<1>11. \A x \in Elements(FlattenSeq(pieces)) : \E d \in 1..n : x \in Elements(piece(d))
  BY <1>2, <1>7
<1>12. QED
  BY <1>4, <1>5, <1>6, <1>7, <1>9, <1>10, <1>11 DEF n

LEMMA StringFreed ==
  ASSUME NEW what \in {"name", "hardware"}, NEW string
  PROVE  LET freed == FreeString(what, 1, string) IN
         /\ IsSeq(freed) /\ RightOrder(freed)
         /\ Elements(freed) = IF string = Null THEN {} ELSE {<<what, 1, string>>}
<1>1. CASE string = Null
  BY <1>1, NoneIs DEF FreeString
<1>2. CASE string # Null
  BY <1>2, SingleIs DEF FreeString
<1>3. QED
  BY <1>1, <1>2

\* What is freed as of a single device: the strings of the first node, the slots
\* of the last, the first node.
LEMMA SingleFrees ==
  ASSUME NEW list, IsList(list), Len(list) > 0
  PROVE  LET freed == FreedAsSingle(list)
             n == Len(list)
             hardware == list[1].hardware
         IN  /\ IsSeq(freed) /\ RightOrder(freed)
             /\ \A x \in Elements(freed) :
                  \/ OfDevice(x, n) \/ x = <<"node", 1>>
                  \/ x[1] = "name"
                  \/ hardware # Null /\ x = <<"hardware", 1, hardware>>
             /\ <<"node", 1>> \in Elements(freed)
             /\ hardware # Null => <<"hardware", 1, hardware>> \in Elements(freed)
             /\ \A s \in FreedSet(Len(list[n].slots)) : <<"slot", n, s>> \in Elements(freed)
<1> DEFINE n == Len(list)
           hardware == list[1].hardware
           name == list[1].name
           node == <<"node", 1>>
           a == FreeString("name", 1, name)
           b == FreeString("hardware", 1, hardware)
           c == EmptySlotList(n, Last(list).slots)
           d == <<node>>
<1>1. Last(list) = list[n] /\ n \in DOMAIN list
  BY DEF Last, IsList
<1>2. list[n].slots \in Seq(Nat)
  BY <1>1 DEF IsList
<1> HIDE DEF hardware, name
<1>3. /\ IsSeq(a) /\ RightOrder(a) /\ \A x \in Elements(a) : x[1] = "name"
  <2>1. /\ IsSeq(a) /\ RightOrder(a)
        /\ Elements(a) = IF name = Null THEN {} ELSE {<<"name", 1, name>>}
    BY StringFreed
  <2> HIDE DEF a
  <2>2. QED
    BY <2>1
<1>4. /\ IsSeq(b) /\ RightOrder(b)
      /\ Elements(b) = IF hardware = Null THEN {} ELSE {<<"hardware", 1, hardware>>}
  BY StringFreed
<1>5. \A x \in Elements(b) : x[1] = "hardware"
  <2> HIDE DEF b
  <2>1. QED
    BY <1>4
<1>6. /\ IsSeq(c) /\ RightOrder(c) /\ \A x \in Elements(c) : OfDevice(x, n)
      /\ \A s \in FreedSet(Len(list[n].slots)) : <<"slot", n, s>> \in Elements(c)
  BY <1>1, <1>2, SlotsFreed
<1>7. node[1] = "node"
  OBVIOUS
<1> HIDE DEF node
<1>8. IsSeq(d) /\ RightOrder(d) /\ Elements(d) = {node}
  BY SingleIs
<1>9. FreedAsSingle(list) = a \o b \o c \o d
  BY DEF FreedAsSingle, name, hardware, node
<1> HIDE DEF a, b, c, d, n
<1>10. /\ IsSeq(a \o b) /\ RightOrder(a \o b)
       /\ Elements(a \o b) = Elements(a) \cup Elements(b)
  <2>1. \A x \in Elements(a), y \in Elements(b) : ~Wrong(x, y)
    BY <1>3, <1>5 DEF Wrong
  <2>2. QED
    BY <1>3, <1>4, <2>1, JoinIs, JoinElements, JoinOrder
<1> DEFINE ab == a \o b
<1>11. /\ IsSeq(ab) /\ RightOrder(ab) /\ Elements(ab) = Elements(a) \cup Elements(b)
       /\ \A x \in Elements(ab) : x[1] \in {"name", "hardware"}
  BY <1>3, <1>5, <1>10
<1> HIDE DEF ab
<1> DEFINE abc == ab \o c
<1>12. /\ IsSeq(abc) /\ RightOrder(abc)
       /\ Elements(abc) = Elements(a) \cup Elements(b) \cup Elements(c)
       /\ \A x \in Elements(abc) : x[1] \in {"name", "hardware", "slot", "subslot"}
  <2>1. \A x \in Elements(ab), y \in Elements(c) : ~Wrong(x, y)
    BY <1>6, <1>11 DEF Wrong, OfDevice
  <2>2. /\ IsSeq(abc) /\ RightOrder(abc) /\ Elements(abc) = Elements(ab) \cup Elements(c)
    BY <1>6, <1>11, <2>1, JoinIs, JoinElements, JoinOrder
  <2> HIDE DEF abc
  <2>3. QED
    BY <1>6, <1>11, <2>2 DEF OfDevice
<1> HIDE DEF abc
<1>13. /\ IsSeq(abc \o d) /\ RightOrder(abc \o d)
       /\ Elements(abc \o d) = Elements(abc) \cup {node}
  <2>1. \A x \in Elements(abc), y \in Elements(d) : ~Wrong(x, y)
    BY <1>7, <1>8, <1>12 DEF Wrong
  <2>2. RightOrder(abc \o d)
    BY <1>8, <1>12, <2>1, JoinOrder
  <2>3. IsSeq(abc \o d)
    BY <1>8, <1>12, JoinIs
  <2>4. Elements(abc \o d) = Elements(abc) \cup Elements(d)
    BY <1>8, <1>12, JoinElements
  <2>5. QED
    BY <1>8, <2>2, <2>3, <2>4
<1>14. FreedAsSingle(list) = abc \o d
  BY <1>9 DEF abc, ab
<1> DEFINE freed == FreedAsSingle(list)
<1>15. /\ IsSeq(freed) /\ RightOrder(freed)
       /\ Elements(freed)
            = Elements(a) \cup Elements(b) \cup Elements(c) \cup {node}
  BY <1>12, <1>13, <1>14
<1> HIDE DEF freed
<1>16. \A x \in Elements(freed) :
         \/ OfDevice(x, n) \/ x = node
         \/ x[1] = "name"
         \/ hardware # Null /\ x = <<"hardware", 1, hardware>>
  BY <1>3, <1>4, <1>6, <1>15
<1>17. /\ node \in Elements(freed)
       /\ hardware # Null => <<"hardware", 1, hardware>> \in Elements(freed)
       /\ \A s \in FreedSet(Len(list[n].slots)) : <<"slot", n, s>> \in Elements(freed)
  BY <1>4, <1>6, <1>15
<1>18. QED
  BY <1>15, <1>16, <1>17 DEF freed, n, node, hardware

\* The node of a single device may have gone in the loop.
LEMMA WholeWrong ==
  ASSUME NEW list, IsList(list), Len(list) > 0,
         NEW x \in Elements(FreedByLoop(list)), NEW y \in Elements(FreedAsSingle(list)),
         Wrong(x, y)
  PROVE  Len(list) > 1 /\ x = <<"node", 1>> /\ y = <<"node", 1>>
<1> DEFINE n == Len(list)
           node == <<"node", 1>>
<1>1. n \in Nat
  BY DEF IsList
<1>2. PICK d \in 1..(n - 1) : OfDevice(x, d) \/ x = <<"node", d>>
  BY LoopFrees
<1>3. \/ OfDevice(y, n) \/ y = node
      \/ y[1] = "name"
      \/ y[1] = "hardware"
  <2>1. \A h : <<"hardware", 1, h>>[1] = "hardware"
    OBVIOUS
  <2>2. QED
    BY <2>1, SingleFrees
<1>4. d # n /\ n > 1
  BY <1>1
<1>5. CASE OfDevice(x, d)
  <2>1. node[1] = "node"
    OBVIOUS
  <2>2. x[1] # "node" /\ x[1] # "name" /\ x[1] # "hardware"
    BY <1>5 DEF OfDevice
  <2>3. x = y \/ (y[1] = "subslot" /\ x[2] = y[2])
    BY DEF Wrong
  <2>4. OfDevice(y, n)
    BY <1>3, <2>1, <2>2, <2>3
  <2>5. x[2] = y[2] /\ x[2] = d /\ y[2] = n
    BY <1>5, <2>3, <2>4 DEF OfDevice
  <2>6. QED
    BY <1>4, <2>5
<1>6. CASE x = <<"node", d>>
  <2>1. x[1] = "node"
    BY <1>6
  <2>2. x = y
    BY <2>1 DEF Wrong
  <2>3. y = node
    BY <1>3, <2>1, <2>2 DEF OfDevice
  <2>4. QED
    BY <1>4, <2>2, <2>3
<1>7. QED
  BY <1>2, <1>5, <1>6

\* The nodes in both parts.
LEMMA NodesFreed ==
  ASSUME NEW list, IsList(list), Len(list) > 0, NEW d \in DOMAIN list
  PROVE  /\ <<"node", d>> \in Elements(FreedByLoop(list)) <=> d < Len(list)
         /\ <<"node", d>> \in Elements(FreedAsSingle(list)) <=> d = 1
<1> DEFINE n == Len(list)
           node == <<"node", d>>
<1>1. n \in Nat /\ d \in 1..n
  BY DEF IsList
<1>2. d \in 1..(n - 1) <=> d < n
  BY <1>1
<1>3. node[1] = "node" /\ \A e : node = <<"node", e>> => d = e
  OBVIOUS
<1> HIDE DEF n, node
<1>4. ~OfDevice(node, d) /\ \A e : ~OfDevice(node, e)
  BY <1>3 DEF OfDevice
<1>5. \A h : node # <<"hardware", 1, h>>
  <2>1. \A h : <<"hardware", 1, h>>[1] = "hardware"
    OBVIOUS
  <2>2. QED
    BY <1>3, <2>1
<1>6. node \in Elements(FreedByLoop(list)) => d < n
  <2>1. ASSUME node \in Elements(FreedByLoop(list)) PROVE d < n
    <3>1. PICK e \in 1..(n - 1) : OfDevice(node, e) \/ node = <<"node", e>>
      BY <2>1, LoopFrees DEF n
    <3>2. d = e
      BY <1>3, <1>4, <3>1
    <3>3. QED
      BY <1>2, <3>1, <3>2
  <2>2. QED
    BY <2>1
<1>7. d < n => node \in Elements(FreedByLoop(list))
  BY <1>2, LoopFrees DEF n, node
<1>8. node \in Elements(FreedAsSingle(list)) => d = 1
  <2>1. ASSUME node \in Elements(FreedAsSingle(list)) PROVE d = 1
    <3>1. \A x \in Elements(FreedAsSingle(list)) :
            \/ OfDevice(x, n) \/ x = <<"node", 1>>
            \/ x[1] = "name"
            \/ \E h : x = <<"hardware", 1, h>>
      <4> DEFINE h0 == list[1].hardware
      <4>1. \A x \in Elements(FreedAsSingle(list)) :
              \/ OfDevice(x, n) \/ x = <<"node", 1>>
              \/ x[1] = "name"
              \/ x = <<"hardware", 1, h0>>
        BY SingleFrees DEF n
      <4> HIDE DEF h0
      <4>2. QED
        BY <4>1
    <3>2. \/ OfDevice(node, n) \/ node = <<"node", 1>>
          \/ node[1] = "name"
          \/ \E h : node = <<"hardware", 1, h>>
      BY <2>1, <3>1
    <3>3. QED
      BY <1>3, <1>4, <1>5, <3>2
  <2>2. QED
    BY <2>1
<1>9. d = 1 => node \in Elements(FreedAsSingle(list))
  BY SingleFrees DEF node
<1>10. QED
  BY <1>6, <1>7, <1>8, <1>9 DEF n, node

\* The literal in both parts.
LEMMA LiteralFreed ==
  ASSUME NEW list, IsList(list), Len(list) > 0, NEW d
  PROVE  /\ <<"hardware", d, "literal">> \notin Elements(FreedByLoop(list))
         /\ <<"hardware", d, "literal">> \in Elements(FreedAsSingle(list))
              <=> d = 1 /\ list[1].hardware = "literal"
<1> DEFINE n == Len(list)
           literal == <<"hardware", d, "literal">>
           hardware == list[1].hardware
<1>1. /\ literal[1] = "hardware"
      /\ \A h : literal = <<"hardware", 1, h>> => d = 1 /\ h = "literal"
      /\ \A e : literal # <<"node", e>>
      /\ \A h : d = 1 /\ h = "literal" => literal = <<"hardware", 1, h>>
  OBVIOUS
<1>2. "literal" # Null
  BY NullAssumption
<1>3. \A x \in Elements(FreedByLoop(list)) : \E e \in 1..(n - 1) :
        OfDevice(x, e) \/ x = <<"node", e>>
  BY LoopFrees
<1>4. /\ \A x \in Elements(FreedAsSingle(list)) :
           \/ OfDevice(x, n) \/ x = <<"node", 1>>
           \/ x[1] = "name"
           \/ hardware # Null /\ x = <<"hardware", 1, hardware>>
      /\ hardware # Null => <<"hardware", 1, hardware>> \in Elements(FreedAsSingle(list))
  BY SingleFrees
<1> HIDE DEF literal, hardware, n
<1>5. \A e : ~OfDevice(literal, e)
  BY <1>1 DEF OfDevice
<1>6. literal \notin Elements(FreedByLoop(list))
  BY <1>1, <1>3, <1>5
<1>7. literal \in Elements(FreedAsSingle(list)) => literal = <<"hardware", 1, hardware>>
  BY <1>1, <1>4, <1>5
<1>8. literal \in Elements(FreedAsSingle(list)) <=> d = 1 /\ hardware = "literal"
  <2>1. ASSUME d = 1, hardware = "literal"
        PROVE  literal \in Elements(FreedAsSingle(list))
    <3>1. literal = <<"hardware", 1, hardware>>
      BY <1>1, <2>1
    <3>2. QED
      BY <1>2, <1>4, <2>1, <3>1
  <2>2. QED
    BY <1>1, <1>7, <2>1
<1>9. QED
  BY <1>6, <1>8 DEF literal, hardware

\* What is freed of a list with devices.
LEMMA FreedOf ==
  ASSUME NEW list, IsList(list), Len(list) > 0, NEW oldPointer \in BOOLEAN
  PROVE  LET freed == EmptyList(list, oldPointer)
             n == Len(list)
             whole == n = 1 \/ ~oldPointer
         IN  /\ IsSeq(freed)
             /\ whole => freed = FreedByLoop(list) \o FreedAsSingle(list)
             /\ \A i, j \in DOMAIN freed : i < j /\ Wrong(freed[i], freed[j]) =>
                  n > 1 /\ whole /\ freed[i] = <<"node", 1>> /\ freed[j] = <<"node", 1>>
             /\ \A d \in DOMAIN list :
                  <<"node", d>> \in Elements(freed) <=> d < n \/ (whole /\ d = 1)
             /\ \A d : <<"hardware", d, "literal">> \in Elements(freed)
                         <=> whole /\ d = 1 /\ list[1].hardware = "literal"
             /\ \A d \in DOMAIN list : <<"node", d>> \in Elements(freed) =>
                  \A s \in FreedSet(Len(list[d].slots)) : <<"slot", d, s>> \in Elements(freed)
<1> DEFINE n == Len(list)
           whole == n = 1 \/ ~oldPointer
           loop == FreedByLoop(list)
           last == FreedAsSingle(list)
           freed == EmptyList(list, oldPointer)
           node(d) == <<"node", d>>
           literal(d) == <<"hardware", d, "literal">>
<1>1. list # <<>> /\ n \in Nat /\ n > 0 /\ DOMAIN list = 1..n
  BY DEF IsList
<1>2. freed = IF whole THEN loop \o last ELSE loop
  BY <1>1 DEF EmptyList, FreedByLoop, FreedAsSingle
<1>3. /\ IsSeq(loop) /\ RightOrder(loop)
      /\ \A d \in 1..(n - 1) : \A s \in FreedSet(Len(list[d].slots)) :
           <<"slot", d, s>> \in Elements(loop)
  BY LoopFrees
<1>4. /\ IsSeq(last) /\ RightOrder(last)
      /\ \A s \in FreedSet(Len(list[n].slots)) : <<"slot", n, s>> \in Elements(last)
  BY SingleFrees
<1>5. ASSUME NEW d \in DOMAIN list
      PROVE  /\ node(d) \in Elements(loop) <=> d < n
             /\ node(d) \in Elements(last) <=> d = 1
  BY NodesFreed
<1>6. ASSUME NEW d
      PROVE  /\ literal(d) \notin Elements(loop)
             /\ literal(d) \in Elements(last) <=> d = 1 /\ list[1].hardware = "literal"
  BY LiteralFreed
<1>7. \A x \in Elements(loop), y \in Elements(last) : Wrong(x, y) =>
        n > 1 /\ x = node(1) /\ y = node(1)
  BY WholeWrong
<1> HIDE DEF loop, last, freed, literal, node, n
<1>8. IsSeq(freed) /\ Elements(freed) = IF whole THEN Elements(loop) \cup Elements(last)
                                        ELSE Elements(loop)
  BY <1>2, <1>3, <1>4, JoinIs, JoinElements
<1>9. ASSUME NEW i \in DOMAIN freed, NEW j \in DOMAIN freed, i < j,
             Wrong(freed[i], freed[j])
      PROVE  n > 1 /\ whole /\ freed[i] = node(1) /\ freed[j] = node(1)
  <2>1. CASE whole
    <3>1. freed = loop \o last
      BY <1>2, <2>1
    <3>2. freed[i] \in Elements(loop) /\ freed[j] \in Elements(last)
      BY <1>3, <1>4, <1>9, <3>1, JoinWrong
    <3>3. QED
      BY <1>7, <1>9, <2>1, <3>2
  <2>2. CASE ~whole
    BY <1>2, <1>3, <1>9, <2>2 DEF RightOrder
  <2>3. QED
    BY <2>1, <2>2
<1>10. ASSUME NEW d \in DOMAIN list
       PROVE  node(d) \in Elements(freed) <=> d < n \/ (whole /\ d = 1)
  BY <1>5, <1>8
<1>11. ASSUME NEW d
       PROVE  literal(d) \in Elements(freed)
                <=> whole /\ d = 1 /\ list[1].hardware = "literal"
  BY <1>6, <1>8
<1>12. ASSUME NEW d \in DOMAIN list, node(d) \in Elements(freed),
              NEW s \in FreedSet(Len(list[d].slots))
       PROVE  <<"slot", d, s>> \in Elements(freed)
  <2>1. CASE d < n
    <3>1. d \in 1..(n - 1)
      BY <1>1, <2>1
    <3>2. <<"slot", d, s>> \in Elements(loop)
      BY <1>3, <3>1
    <3>3. QED
      BY <1>8, <3>2
  <2>2. CASE whole /\ d = 1 /\ ~(d < n)
    <3>1. d = n
      BY <1>1, <2>2
    <3>2. <<"slot", d, s>> \in Elements(last)
      BY <1>4, <3>1
    <3>3. QED
      BY <1>8, <2>2, <3>2
  <2>3. QED
    BY <1>10, <1>12, <2>1, <2>2
<1>13. QED
  BY <1>2, <1>8, <1>9, <1>10, <1>11, <1>12 DEF node, literal, n, freed, loop, last

\* The first node, when it goes twice.
LEMMA FreedTwice ==
  ASSUME NEW list, IsList(list), Len(list) > 1
  PROVE  LET freed == FreedByLoop(list) \o FreedAsSingle(list) IN
         Cardinality({i \in DOMAIN freed : freed[i] = <<"node", 1>>}) = 2
<1> DEFINE loop == FreedByLoop(list)
           last == FreedAsSingle(list)
           m == Len(loop)
           k == Len(last)
           freed == loop \o last
           node == <<"node", 1>>
<1>1. 1 \in DOMAIN list /\ 1 < Len(list) /\ Len(list) > 0
  BY DEF IsList
<1>2. /\ IsSeq(loop) /\ RightOrder(loop) /\ IsSeq(last) /\ RightOrder(last)
  BY <1>1, LoopFrees, SingleFrees
<1>3. node \in Elements(loop) /\ node \in Elements(last)
  BY <1>1, NodesFreed
<1>4. /\ m \in Nat /\ DOMAIN loop = 1..m /\ k \in Nat /\ DOMAIN last = 1..k
      /\ DOMAIN freed = 1..(m + k)
      /\ \A i \in 1..m : freed[i] = loop[i]
      /\ \A i \in 1..k : freed[m + i] = last[i]
  BY <1>2, SeqIs, JoinIs
<1> HIDE DEF loop, last, m, k, freed, node
<1>5. PICK p \in 1..m : loop[p] = node
  BY <1>3, <1>4 DEF Elements
<1>6. PICK q \in 1..k : last[q] = node
  BY <1>3, <1>4 DEF Elements
<1>7. ASSUME NEW i \in 1..m, loop[i] = node PROVE i = p
  <2>1. ~(i < p) /\ ~(p < i)
    BY <1>2, <1>4, <1>5, <1>7 DEF RightOrder, Wrong
  <2>2. i \in Int /\ p \in Int
    BY <1>4
  <2>3. QED
    BY <2>1, <2>2
<1>8. ASSUME NEW i \in 1..k, last[i] = node PROVE i = q
  <2>1. ~(i < q) /\ ~(q < i)
    BY <1>2, <1>4, <1>6, <1>8 DEF RightOrder, Wrong
  <2>2. i \in Int /\ q \in Int
    BY <1>4
  <2>3. QED
    BY <2>1, <2>2
<1> DEFINE at == {i \in DOMAIN freed : freed[i] = node}
<1>9. p \in at /\ m + q \in at /\ p # m + q
  <2>1. p \in DOMAIN freed /\ m + q \in DOMAIN freed /\ p # m + q
    BY <1>4
  <2>2. QED
    BY <1>4, <1>5, <1>6, <2>1
<1>10. ASSUME NEW i \in at PROVE i \in {p, m + q}
  <2>1. CASE i \in 1..m
    BY <1>4, <1>7, <2>1
  <2>2. CASE i \notin 1..m
    <3>1. i - m \in 1..k /\ m + (i - m) = i
      BY <1>4, <2>2
    <3>2. last[i - m] = node
      BY <1>4, <3>1
    <3>3. i - m = q
      BY <1>8, <3>1, <3>2
    <3>4. QED
      BY <3>1, <3>3
  <2>3. QED
    BY <2>1, <2>2
<1>11. at = {p} \cup {m + q}
  <2> HIDE DEF at
  <2>1. QED
    BY <1>9, <1>10
<1>12. Cardinality({p} \cup {m + q}) = 2
  <2>1. IsFiniteSet({p}) /\ Cardinality({p}) = 1 /\ m + q \notin {p}
    BY <1>9, FS_Singleton
  <2>2. Cardinality({p} \cup {m + q}) = Cardinality({p}) + 1
    BY <2>1, FS_AddElement
  <2>3. Cardinality({p} \cup {m + q}) = 1 + 1
    BY <2>1, <2>2, Zenon
  <2>4. 1 + 1 = 2
    OBVIOUS
  <2>5. QED
    BY <2>3, <2>4, Zenon
<1>13. QED
  BY <1>11, <1>12 DEF freed, loop, last, node

(***************************************************************************)
(* Whatever devices, slots and subslots are in the list that empty_list     *)
(* gets (linkedList.c:106-156), and whatever is left in the memory it has   *)
(* freed: no block goes twice but the first node, in the one case that      *)
(* FreedOnce names, and no slot before its subslots.                        *)
(***************************************************************************)
THEOREM BlocksFreedOnce ==
  ASSUME NEW list, IsList(list), NEW oldPointer \in BOOLEAN
  PROVE  FreedRight(list, oldPointer)
<1> DEFINE freed == EmptyList(list, oldPointer)
           at(block) == {i \in DOMAIN freed : freed[i] = block}
           devices == DOMAIN list
           n == Len(list)
           again == n > 1 /\ ~oldPointer
           whole == n = 1 \/ ~oldPointer
           node(d) == <<"node", d>>
           literal(d) == <<"hardware", d, "literal">>
           slot(d, s) == <<"slot", d, s>>
           subslot(d, s, u) == <<"subslot", d, s, u>>
<1>1. n \in Nat /\ devices = 1..n /\ (n = 0 <=> list = <<>>)
  BY DEF IsList
<1>2. /\ \A d, s, u : /\ slot(d, s)[1] = "slot" /\ slot(d, s)[2] = d /\ slot(d, s)[3] = s
                      /\ subslot(d, s, u)[1] = "subslot"
                      /\ subslot(d, s, u)[2] = d /\ subslot(d, s, u)[3] = s
      /\ \A d : node(d)[1] = "node"
  OBVIOUS
<1>3. CASE list = <<>>
  <2>1. n = 0 /\ devices = {}
    BY <1>1, <1>3
  <2>2. freed = <<>>
    BY <1>3 DEF EmptyList
  <2>3. DOMAIN freed = {}
    BY <2>2
  <2> HIDE DEF freed, devices, n, node
  <2>4. /\ \A i, j \in DOMAIN freed :
             i < j /\ freed[i] = freed[j] => again /\ freed[i] = node(1)
        /\ ~again /\ n # 1
    BY <2>1, <2>3
  <2>5. {d \in devices : at(node(d)) # {}} = IF n = 1 THEN {1} ELSE devices \ {n}
    BY <2>1
  <2>6. QED
    BY <1>3, <2>1, <2>4, <2>5 DEF FreedRight, freed, devices, n, node
<1>4. CASE list # <<>>
  <2>1. n > 0
    BY <1>1, <1>4
  <2>2. /\ IsSeq(freed)
        /\ whole => freed = FreedByLoop(list) \o FreedAsSingle(list)
        /\ \A i, j \in DOMAIN freed : i < j /\ Wrong(freed[i], freed[j]) =>
             n > 1 /\ whole /\ freed[i] = node(1) /\ freed[j] = node(1)
        /\ \A d \in devices : node(d) \in Elements(freed) <=> d < n \/ (whole /\ d = 1)
        /\ \A d : literal(d) \in Elements(freed)
                    <=> whole /\ d = 1 /\ list[1].hardware = "literal"
        /\ \A d \in devices : node(d) \in Elements(freed) =>
             \A s \in FreedSet(Len(list[d].slots)) : slot(d, s) \in Elements(freed)
    BY <2>1, FreedOf
  <2>3. ASSUME again PROVE Cardinality(at(node(1))) = 2
    <3>1. freed = FreedByLoop(list) \o FreedAsSingle(list) /\ Len(list) > 1
      BY <2>2, <2>3
    <3> DEFINE joined == FreedByLoop(list) \o FreedAsSingle(list)
    <3>2. Cardinality({i \in DOMAIN joined : joined[i] = node(1)}) = 2
      BY <3>1, FreedTwice
    <3>3. freed = joined
      BY <3>1
    <3> HIDE DEF joined, freed, node
    <3>4. QED
      BY <3>2, <3>3
  <2> HIDE DEF freed, devices, n, node, literal, slot, subslot
  <2>4. ASSUME NEW block PROVE at(block) # {} <=> block \in Elements(freed)
    BY DEF Elements
  <2>5. again <=> n > 1 /\ whole
    BY <1>1
  <2>6. ASSUME NEW i \in DOMAIN freed, NEW j \in DOMAIN freed, i < j,
               freed[i] = freed[j]
        PROVE  again /\ freed[i] = node(1)
    BY <2>2, <2>5, <2>6 DEF Wrong
  <2>7. {d \in devices : at(node(d)) # {}} = IF n = 1 THEN {1} ELSE devices \ {n}
    <3>1. ASSUME NEW d \in devices
          PROVE  at(node(d)) # {} <=> d \in IF n = 1 THEN {1} ELSE devices \ {n}
      <4>1. at(node(d)) # {} <=> d < n \/ (whole /\ d = 1)
        BY <2>2, <2>4
      <4>2. d \in Int /\ d >= 1 /\ d <= n
        BY <1>1
      <4>3. d < n \/ (whole /\ d = 1) <=> IF n = 1 THEN d = 1 ELSE d # n
        BY <1>1, <4>2
      <4>4. QED
        BY <4>1, <4>3
    <3>2. n = 1 => 1 \in devices
      BY <1>1
    <3> HIDE DEF at
    <3>3. QED
      BY <3>1, <3>2
  <2>8. (\E d \in devices : at(literal(d)) # {}) <=>
           list # <<>> /\ list[1].hardware = "literal" /\ (n = 1 \/ again)
    <3>1. 1 \in devices
      BY <1>1, <2>1
    <3>2. n = 1 \/ again <=> whole
      BY <1>1, <2>1
    <3>3. (\E d \in devices : literal(d) \in Elements(freed)) <=>
             list[1].hardware = "literal" /\ whole
      BY <2>2, <3>1
    <3> HIDE DEF again, whole, at
    <3>4. QED
      BY <1>4, <2>4, <3>2, <3>3
  <2>9. ASSUME NEW d \in devices, NEW s \in DOMAIN list[d].slots
        PROVE  /\ s > 1 /\ at(node(d)) # {} => at(slot(d, s)) # {}
               /\ \A u \in 1..list[d].slots[s] :
                    \A i \in at(subslot(d, s, u)), j \in at(slot(d, s)) : i < j
    <3>1. ASSUME s > 1, at(node(d)) # {} PROVE at(slot(d, s)) # {}
      <4> DEFINE slots == list[d].slots
                 count == Len(slots)
      <4>1. slots \in Seq(Nat) /\ s \in DOMAIN slots
        BY DEF IsList, devices
      <4> HIDE DEF slots
      <4>2. count \in Nat /\ s \in 1..count
        BY <4>1
      <4> HIDE DEF count
      <4>3. s \in 2..count /\ count # 1
        BY <3>1, <4>2
      <4>4. s \in FreedSet(count)
        BY <4>3 DEF FreedSet
      <4>5. slot(d, s) \in Elements(freed)
        BY <2>2, <2>4, <3>1, <4>4 DEF count, slots
      <4>6. QED
        BY <2>4, <4>5
    <3>2. ASSUME NEW u, NEW i \in at(subslot(d, s, u)), NEW j \in at(slot(d, s))
          PROVE  i < j
      <4>1. /\ i \in DOMAIN freed /\ freed[i] = subslot(d, s, u)
            /\ j \in DOMAIN freed /\ freed[j] = slot(d, s)
        BY <3>2
      <4>2. i \in Nat /\ j \in Nat
        BY <2>2, <4>1, SeqIs
      <4>3. i # j
        BY <1>2, <4>1 DEF slot, subslot
      <4>4. ~(j < i)
        <5>1. Wrong(freed[j], freed[i])
          BY <1>2, <4>1 DEF Wrong, slot, subslot
        <5>2. freed[j] # node(1)
          BY <1>2, <4>1 DEF slot, node
        <5>3. QED
          BY <2>2, <4>1, <5>1, <5>2
      <4>5. QED
        BY <4>2, <4>3, <4>4
    <3>3. QED
      BY <3>1, <3>2
  <2>10. QED
    BY <2>3, <2>6, <2>7, <2>8, <2>9
       DEF FreedRight, freed, devices, n, node, literal, slot, subslot
<1>5. QED
  BY <1>3, <1>4

\* empty_list of the lists of the runs (linkedList.c:106-156).
THEOREM CleanupRight == Spec => []FreedOnce
<1>1. ASSUME input \in CleanupInputs PROVE FreedRight(input.list, input.oldPointer)
  <2> DEFINE Device == [name : {"heap", Null}, hardware : {"heap", "literal"},
                        slots : {<<>>, <<2>>, <<1, 3>>, <<2, 0, 1>>}]
             list == input.list
             old == input.oldPointer
  <2>1. list \in SeqOf(Device, 2) /\ old \in BOOLEAN
    BY <1>1 DEF CleanupInputs
  <2>2. \A d \in Device : d.slots \in Seq(Nat)
    <3>1. {<<>>, <<2>>, <<1, 3>>, <<2, 0, 1>>} \subseteq Seq(Nat)
      OBVIOUS
    <3>2. QED
      BY <3>1
  <2> HIDE DEF Device, list, old
  <2>3. list \in Seq(Device) /\ \A i \in DOMAIN list : list[i] \in Device
    <3>1. PICK m \in 0..2 : list \in [1..m -> Device]
      BY <2>1 DEF SeqOf
    <3>2. m \in Nat
      OBVIOUS
    <3>3. QED
      BY <3>1, <3>2
  <2>4. IsList(list)
    BY <2>2, <2>3 DEF IsList
  <2>5. FreedRight(list, old)
    BY <2>1, <2>4, BlocksFreedOnce
  <2>6. QED
    BY <2>5 DEF list, old
<1>2. FreedOnce <=> (algorithm = "cleanup" => FreedRight(input.list, input.oldPointer))
  BY Zenon DEF FreedOnce, FreedRight
<1>3. Init => FreedOnce
  <2>1. Init /\ algorithm = "cleanup" => input \in CleanupInputs
    BY DEF Init
  <2>2. QED
    BY <1>1, <1>2, <2>1
<1>4. FreedOnce /\ [Next]_vars => FreedOnce'
  <2> DEFINE right(in) == FreedRight(in.list, in.oldPointer)
  <2>1. /\ FreedOnce <=> (algorithm = "cleanup" => right(input))
        /\ FreedOnce' <=> (algorithm' = "cleanup" => right(input'))
    BY Zenon DEF FreedOnce, FreedRight
  <2> HIDE DEF right
  <2>2. [Next]_vars => algorithm' = algorithm /\ input' = input
    BY DEF Next, vars
  <2>3. QED
    BY <2>1, <2>2
<1>5. QED
  BY <1>3, <1>4, PTL DEF Spec

-----------------------------------------------------------------------------
(* What a reader makes of a text does not depend on where the text stands.  *)

\* A reader goes on with a text.
ReadOn(reader, text) == ReadLoop!FoldedFrom(reader, text)

\* Fields that have been read inside of place.
At(place, fields) ==
  [i \in DOMAIN fields |-> <<place \o fields[i][1], fields[i][2]>>]

HavePlaces(fields) == IsSeq(fields) /\ \A i \in DOMAIN fields : IsSeq(fields[i][1])

\* In any place, a reader of text has read these fields there in the end, and is back.
Tells(text, fields) ==
  /\ IsSeq(text) /\ HavePlaces(fields)
  /\ \A place, read : IsSeq(place) /\ IsSeq(read) =>
       ReadOn([place |-> place, fields |-> read], text)
         = [place |-> place, fields |-> read \o At(place, fields)]

LEMMA SameSeq ==
  ASSUME NEW a, IsSeq(a), NEW b, IsSeq(b), Len(a) = Len(b),
         \A i \in 1..Len(a) : a[i] = b[i]
  PROVE  a = b
<1>1. PICK A : a \in Seq(A)
  BY DEF IsSeq
<1>2. PICK B : b \in Seq(B)
  BY DEF IsSeq
<1>3. a = [i \in 1..Len(a) |-> a[i]] /\ b = [i \in 1..Len(b) |-> b[i]]
  BY <1>1, <1>2
<1>4. QED
  BY <1>3

\* c has the elements of a, and behind them those of b.
Joins(c, a, b) ==
  /\ IsSeq(c) /\ Len(c) = Len(a) + Len(b)
  /\ \A i \in 1..Len(a) : c[i] = a[i]
  /\ \A i \in 1..Len(b) : c[Len(a) + i] = b[i]

LEMMA JoinOf ==
  ASSUME NEW a, IsSeq(a), NEW b, IsSeq(b)
  PROVE  Joins(a \o b, a, b) /\ IsSeq(a \o b)
  BY JoinIs DEF Joins

LEMMA JoinAgain ==
  ASSUME NEW a, IsSeq(a), NEW b, IsSeq(b), NEW c, IsSeq(c)
  PROVE  (a \o b) \o c = a \o (b \o c)
<1> DEFINE ab == a \o b
           bc == b \o c
           s == ab \o c
           t == a \o bc
           m == Len(a)
           n == Len(b)
           k == Len(c)
<1>1. m \in Nat /\ n \in Nat /\ k \in Nat
  BY SeqIs
<1>2. Joins(ab, a, b) /\ IsSeq(ab)
  BY JoinOf
<1>3. Joins(bc, b, c) /\ IsSeq(bc)
  BY JoinOf
<1> HIDE DEF ab, bc
<1>4. Joins(s, ab, c) /\ IsSeq(s)
  BY <1>2, JoinOf
<1>5. Joins(t, a, bc) /\ IsSeq(t)
  BY <1>3, JoinOf
<1> HIDE DEF s, t, m, n, k
<1>6. Len(s) = m + n + k /\ Len(t) = m + n + k
  BY <1>1, <1>2, <1>3, <1>4, <1>5 DEF Joins, m, n, k
<1>7. ASSUME NEW i \in 1..Len(s) PROVE s[i] = t[i]
  <2>1. CASE i \in 1..m
    <3>1. i \in 1..Len(ab)
      BY <1>1, <1>2, <2>1 DEF Joins, m, n, k
    <3>2. QED
      BY <1>2, <1>4, <1>5, <2>1, <3>1 DEF Joins, m, n, k
  <2>2. CASE i \in m + 1..m + n
    <3> DEFINE j == i - m
    <3>1. j \in 1..n /\ i = m + j /\ i \in 1..Len(ab) /\ j \in 1..Len(bc)
      BY <1>1, <1>2, <1>3, <2>2 DEF Joins, m, n, k
    <3> HIDE DEF j
    <3>2. QED
      BY <1>2, <1>3, <1>4, <1>5, <3>1 DEF Joins, m, n, k
  <2>3. CASE i \in m + n + 1..m + n + k
    <3> DEFINE j == i - (m + n)
    <3>1. /\ j \in 1..k /\ i = Len(ab) + j /\ i = m + (n + j)
          /\ n + j \in 1..Len(bc)
      BY <1>1, <1>2, <1>3, <2>3 DEF Joins, m, n, k
    <3> HIDE DEF j
    <3>2. QED
      BY <1>3, <1>4, <1>5, <3>1 DEF Joins, m, n, k
  <2>4. QED
    BY <1>1, <1>6, <2>1, <2>2, <2>3
<1>8. s = t
  BY <1>4, <1>5, <1>6, <1>7, SameSeq
<1>9. QED
  BY <1>8 DEF s, t, ab, bc

\* b behind a, as an operator of its own, which the provers take as it stands.
Joined(a, b) == a \o b

LEMMA JoinedIs ==
  ASSUME NEW a, IsSeq(a), NEW b, IsSeq(b)
  PROVE  IsSeq(Joined(a, b))
  BY JoinOf DEF Joined

LEMMA JoinedAgain ==
  ASSUME NEW a, IsSeq(a), NEW b, IsSeq(b), NEW c, IsSeq(c)
  PROVE  Joined(Joined(a, b), c) = Joined(a, Joined(b, c))
  BY JoinAgain DEF Joined

\* a and b behind p, and with c, or c and d, behind them: however they are joined.
InPlace(p, a, b, c) == (p \o (a \o b)) \o c = p \o (a \o (b \o c))

DeepInPlace(p, a, b, c, d) ==
  ((p \o (a \o b)) \o c) \o d = p \o (a \o (b \o (c \o d)))

LEMMA PlaceJoined ==
  ASSUME NEW p, IsSeq(p), NEW a, IsSeq(a), NEW b, IsSeq(b), NEW c, IsSeq(c)
  PROVE  InPlace(p, a, b, c)
<1>1. Joined(Joined(p, Joined(a, b)), c) = Joined(p, Joined(a, Joined(b, c)))
  BY JoinedIs, JoinedAgain
<1>2. QED
  BY <1>1, Zenon DEF Joined, InPlace

LEMMA DeepPlaceJoined ==
  ASSUME NEW p, IsSeq(p), NEW a, IsSeq(a), NEW b, IsSeq(b), NEW c, IsSeq(c),
         NEW d, IsSeq(d)
  PROVE  DeepInPlace(p, a, b, c, d)
<1>1. Joined(Joined(p, Joined(a, b)), c) = Joined(p, Joined(a, Joined(b, c)))
  BY JoinedIs, JoinedAgain
<1>2. Joined(Joined(p, Joined(a, Joined(b, c))), d)
        = Joined(p, Joined(Joined(a, Joined(b, c)), d))
  BY JoinedIs, JoinedAgain
<1>3. Joined(Joined(a, Joined(b, c)), d) = Joined(a, Joined(b, Joined(c, d)))
  BY JoinedIs, JoinedAgain
<1>4. Joined(Joined(Joined(p, Joined(a, b)), c), d)
        = Joined(p, Joined(a, Joined(b, Joined(c, d))))
  BY <1>1, <1>2, <1>3
<1>5. QED
  BY <1>4, Zenon DEF Joined, DeepInPlace

LEMMA NoneJoined ==
  ASSUME NEW s, IsSeq(s)
  PROVE  <<>> \o s = s /\ s \o <<>> = s
  BY DEF IsSeq

LEMMA LastAppended ==
  ASSUME NEW s, IsSeq(s), NEW x
  PROVE  /\ IsSeq(Append(s, x)) /\ Append(s, x) # <<>>
         /\ Last(Append(s, x)) = x /\ Front(Append(s, x)) = s
         /\ Append(s, x) = s \o <<x>>
<1>1. PICK R : s \in Seq(R)
  BY DEF IsSeq
<1> DEFINE T == R \cup {x}
           t == Append(s, x)
<1>2. s \in Seq(T) /\ x \in T
  BY <1>1
<1> HIDE DEF T
<1>3. t \in Seq(T) /\ Len(t) = Len(s) + 1 /\ t[Len(s) + 1] = x
  BY <1>2
<1>4. Len(s) \in Nat
  BY SeqIs
<1>5. t # <<>>
  BY <1>3, <1>4
<1>6. Last(t) = x
  BY <1>3 DEF Last
<1>7. Front(t) = SubSeq(t, 1, Len(s))
  BY <1>3, <1>4 DEF Front
<1>8. SubSeq(t, 1, Len(s)) = s
  BY <1>2
<1>9. t = s \o <<x>>
  BY <1>2
<1>10. QED
  BY <1>3, <1>5, <1>6, <1>7, <1>8, <1>9 DEF IsSeq

LEMMA ReadJoined ==
  ASSUME NEW reader, NEW a, IsSeq(a), NEW b, IsSeq(b)
  PROVE  ReadOn(reader, a \o b) = ReadOn(ReadOn(reader, a), b)
<1>1. PICK A : a \in Seq(A)
  BY DEF IsSeq
<1>2. PICK B : b \in Seq(B)
  BY DEF IsSeq
<1> DEFINE R == A \cup B
<1>3. a \in Seq(R) /\ b \in Seq(R)
  BY <1>1, <1>2
<1> HIDE DEF R
<1>4. QED
  BY <1>3, ReadLoop!FoldOfJoined DEF ReadOn

LEMMA ReadOne ==
  ASSUME NEW reader, NEW token
  PROVE  ReadOn(reader, <<token>>) = ReadToken(reader, token)
  BY ReadLoop!FoldOfOne DEF ReadOn

\* at is fields inside of place.
IsAt(at, place, fields) ==
  /\ HavePlaces(at) /\ Len(at) = Len(fields) /\ DOMAIN at = DOMAIN fields
  /\ \A i \in DOMAIN fields : at[i] = <<place \o fields[i][1], fields[i][2]>>

LEMMA AtIs ==
  ASSUME NEW place, IsSeq(place), NEW fields, HavePlaces(fields)
  PROVE  /\ IsAt(At(place, fields), place, fields)
         /\ HavePlaces(At(place, fields)) /\ IsSeq(At(place, fields))
<1> DEFINE at == At(place, fields)
<1>1. at = [i \in DOMAIN fields |-> at[i]]
  BY DEF At
<1>2. \A i \in DOMAIN fields : at[i] = <<place \o fields[i][1], fields[i][2]>>
  BY DEF At
<1> HIDE DEF at
<1>3. IsSeq(fields)
  BY DEF HavePlaces
<1>4. IsSeq(at) /\ Len(at) = Len(fields) /\ DOMAIN at = DOMAIN fields
  BY <1>1, <1>3, MappedIs
<1>5. ASSUME NEW i \in DOMAIN fields PROVE IsSeq(at[i][1])
  <2>1. IsSeq(fields[i][1])
    BY DEF HavePlaces
  <2> DEFINE inner == place \o fields[i][1]
  <2>2. IsSeq(inner)
    BY <2>1, JoinOf
  <2>3. at[i] = <<inner, fields[i][2]>>
    BY <1>2
  <2> HIDE DEF inner
  <2>4. at[i][1] = inner
    BY <2>3
  <2>5. QED
    BY <2>2, <2>4
<1>6. HavePlaces(at)
  BY <1>4, <1>5 DEF HavePlaces
<1>7. IsAt(at, place, fields)
  BY <1>2, <1>4, <1>6 DEF IsAt
<1>8. QED
  BY <1>4, <1>6, <1>7 DEF at

LEMMA AtJoined ==
  ASSUME NEW place, IsSeq(place), NEW f, HavePlaces(f), NEW g, HavePlaces(g)
  PROVE  HavePlaces(f \o g) /\ At(place, f \o g) = At(place, f) \o At(place, g)
<1> DEFINE h == f \o g
           m == Len(f)
           n == Len(g)
<1>1. /\ IsSeq(f) /\ IsSeq(g) /\ m \in Nat /\ n \in Nat
      /\ DOMAIN f = 1..m /\ DOMAIN g = 1..n
  BY SeqIs DEF HavePlaces
<1>2. Joins(h, f, g) /\ IsSeq(h)
  BY <1>1, JoinOf
<1> HIDE DEF h, m, n
<1>3. /\ Len(h) = m + n /\ DOMAIN h = 1..(m + n)
      /\ \A i \in 1..m : h[i] = f[i]
      /\ \A i \in 1..n : h[m + i] = g[i]
  BY <1>2, SeqIs DEF Joins, m, n
<1>4. ASSUME NEW i \in 1..(m + n)
      PROVE  \/ i \in 1..m
             \/ \E j \in 1..n : i = m + j
  <2>1. CASE i \notin 1..m
    <3>1. i - m \in 1..n /\ i = m + (i - m)
      BY <1>1, <2>1
    <3>2. QED
      BY <3>1
  <2>2. QED
    BY <2>1
<1>5. ASSUME NEW i \in DOMAIN h PROVE IsSeq(h[i][1])
  <2>1. CASE i \in 1..m
    <3>1. h[i] = f[i] /\ i \in DOMAIN f
      BY <1>1, <1>3, <2>1
    <3>2. QED
      BY <3>1 DEF HavePlaces
  <2>2. CASE \E j \in 1..n : i = m + j
    <3>1. PICK j \in 1..n : i = m + j
      BY <2>2
    <3>2. h[i] = g[j] /\ j \in DOMAIN g
      BY <1>1, <1>3, <3>1
    <3>3. QED
      BY <3>2 DEF HavePlaces
  <2>3. QED
    BY <1>3, <1>4, <2>1, <2>2
<1>6. HavePlaces(h)
  BY <1>2, <1>5 DEF HavePlaces
<1> DEFINE a == At(place, f)
           b == At(place, g)
           c == At(place, h)
           ab == a \o b
<1>7. IsAt(a, place, f) /\ IsSeq(a)
  BY AtIs
<1>8. IsAt(b, place, g) /\ IsSeq(b)
  BY AtIs
<1>9. IsAt(c, place, h) /\ IsSeq(c)
  BY <1>6, AtIs
<1> HIDE DEF a, b, c
<1>10. Joins(ab, a, b) /\ IsSeq(ab)
  BY <1>7, <1>8, JoinOf
<1> HIDE DEF ab
<1>11. Len(a) = m /\ Len(b) = n /\ Len(c) = m + n /\ Len(ab) = m + n
  BY <1>3, <1>7, <1>8, <1>9, <1>10 DEF IsAt, Joins, m, n
<1>12. ASSUME NEW i \in 1..Len(c) PROVE c[i] = ab[i]
  <2>1. c[i] = <<place \o h[i][1], h[i][2]>>
    BY <1>3, <1>9, <1>11 DEF IsAt
  <2>2. CASE i \in 1..m
    <3>1. h[i] = f[i] /\ i \in DOMAIN f /\ ab[i] = a[i]
      BY <1>1, <1>3, <1>10, <1>11, <2>2 DEF Joins
    <3>2. a[i] = <<place \o f[i][1], f[i][2]>>
      BY <1>7, <3>1 DEF IsAt
    <3>3. QED
      BY <2>1, <3>1, <3>2
  <2>3. CASE \E j \in 1..n : i = m + j
    <3>1. PICK j \in 1..n : i = m + j
      BY <2>3
    <3>2. h[i] = g[j] /\ j \in DOMAIN g /\ ab[i] = b[j]
      BY <1>1, <1>3, <1>10, <1>11, <3>1 DEF Joins
    <3>3. b[j] = <<place \o g[j][1], g[j][2]>>
      BY <1>8, <3>2 DEF IsAt
    <3>4. QED
      BY <2>1, <3>2, <3>3
  <2>4. QED
    BY <1>4, <1>11, <2>2, <2>3
<1>13. c = ab
  BY <1>9, <1>10, <1>11, <1>12, SameSeq
<1>14. QED
  BY <1>6, <1>13 DEF h, a, b, c, ab

LEMMA AtAgain ==
  ASSUME NEW p, IsSeq(p), NEW q, IsSeq(q), NEW fields, HavePlaces(fields)
  PROVE  At(p, At(q, fields)) = At(p \o q, fields)
<1> DEFINE pq == p \o q
           inner == At(q, fields)
           all == At(p, inner)
           once == At(pq, fields)
<1>1. IsSeq(pq)
  BY JoinOf
<1>2. IsAt(inner, q, fields) /\ HavePlaces(inner)
  BY AtIs
<1> HIDE DEF inner, pq
<1>3. IsAt(all, p, inner) /\ IsSeq(all)
  BY <1>2, AtIs
<1>4. IsAt(once, pq, fields) /\ IsSeq(once)
  BY <1>1, AtIs
<1> HIDE DEF all, once
<1>5. ASSUME NEW i \in DOMAIN fields PROVE all[i] = once[i]
  <2> DEFINE x == fields[i][1]
             qx == q \o x
  <2>1. IsSeq(x)
    BY DEF HavePlaces
  <2> HIDE DEF x
  <2>2. pq \o x = p \o qx
    BY <2>1, JoinAgain DEF pq
  <2>3. inner[i] = <<qx, fields[i][2]>> /\ once[i] = <<pq \o x, fields[i][2]>>
    BY <1>2, <1>4 DEF IsAt, x
  <2>4. all[i] = <<p \o inner[i][1], inner[i][2]>>
    BY <1>2, <1>3 DEF IsAt
  <2> HIDE DEF qx
  <2>5. all[i] = <<p \o qx, fields[i][2]>>
    BY <2>3, <2>4
  <2>6. QED
    BY <2>2, <2>3, <2>5
<1>6. DOMAIN fields = 1..Len(fields)
  BY SeqIs DEF HavePlaces
<1>7. Len(all) = Len(fields) /\ Len(once) = Len(fields)
  BY <1>2, <1>3, <1>4 DEF IsAt
<1>8. all = once
  BY <1>3, <1>4, <1>5, <1>6, <1>7, SameSeq
<1>9. QED
  BY <1>8 DEF all, once, inner, pq

-----------------------------------------------------------------------------
(* What the parts of a device's text tell.                                  *)

LEMMA NothingTold == Tells(<<>>, <<>>)
<1>1. IsSeq(<<>>) /\ DOMAIN <<>> = {}
  BY NoneIs
<1>2. HavePlaces(<<>>)
  BY <1>1 DEF HavePlaces
<1>3. ASSUME NEW place, NEW read, IsSeq(place), IsSeq(read)
      PROVE  ReadOn([place |-> place, fields |-> read], <<>>)
               = [place |-> place, fields |-> read \o At(place, <<>>)]
  <2>1. At(place, <<>>) = <<>>
    BY DEF At
  <2>2. read \o <<>> = read
    BY <1>3, NoneJoined
  <2>3. QED
    BY <2>1, <2>2, ReadLoop!FoldOfOne DEF ReadOn
<1>4. QED
  BY <1>1, <1>2, <1>3 DEF Tells

\* One text behind another tells what both tell.
LEMMA BothTold ==
  ASSUME NEW s, NEW f, Tells(s, f), NEW t, NEW g, Tells(t, g)
  PROVE  Tells(s \o t, f \o g)
<1>1. IsSeq(s) /\ IsSeq(t) /\ HavePlaces(f) /\ HavePlaces(g)
  BY DEF Tells
<1>2. IsSeq(s \o t)
  BY <1>1, JoinOf
<1>3. HavePlaces(f \o g)
  BY <1>1, NoneIs, AtJoined
<1>4. ASSUME NEW place, NEW read, IsSeq(place), IsSeq(read)
      PROVE  ReadOn([place |-> place, fields |-> read], s \o t)
               = [place |-> place, fields |-> read \o At(place, f \o g)]
  <2> DEFINE a == At(place, f)
             b == At(place, g)
             between == read \o a
             before == [place |-> place, fields |-> read]
             middle == [place |-> place, fields |-> between]
  <2>1. IsSeq(a) /\ IsSeq(b)
    BY <1>1, <1>4, AtIs
  <2>2. IsSeq(between)
    BY <1>4, <2>1, JoinOf
  <2>3. ReadOn(before, s) = middle
    BY <1>4 DEF Tells
  <2>4. At(place, f \o g) = a \o b
    BY <1>1, <1>4, AtJoined
  <2>5. between \o b = read \o (a \o b)
    BY <1>4, <2>1, JoinAgain
  <2>6. ReadOn(before, s \o t) = ReadOn(ReadOn(before, s), t)
    BY <1>1, ReadJoined
  <2> HIDE DEF between, a, b
  <2>7. ReadOn(middle, t) = [place |-> place, fields |-> between \o b]
    BY <1>4, <2>2 DEF Tells, b
  <2>8. QED
    BY <2>3, <2>4, <2>5, <2>6, <2>7
<1>5. QED
  BY <1>2, <1>3, <1>4 DEF Tells

\* A tag around a text is the outermost of the places that the text tells.
LEMMA ElementTold ==
  ASSUME NEW text, NEW fields, Tells(text, fields), NEW tag
  PROVE  Tells(Element(tag, text), At(<<tag>>, fields))
<1> DEFINE open == <<Open(tag)>>
           close == <<Close(tag)>>
           head == open \o text
           all == head \o close
           inner == At(<<tag>>, fields)
<1>1. IsSeq(open) /\ IsSeq(close) /\ IsSeq(<<tag>>) /\ IsSeq(text) /\ HavePlaces(fields)
  BY SingleIs DEF Tells
<1>2. IsSeq(head)
  BY <1>1, JoinOf
<1>3. IsSeq(all)
  BY <1>1, <1>2, JoinOf
<1>4. HavePlaces(inner)
  BY <1>1, AtIs
<1>5. ASSUME NEW place, NEW read, IsSeq(place), IsSeq(read)
      PROVE  ReadOn([place |-> place, fields |-> read], all)
               = [place |-> place, fields |-> read \o At(place, inner)]
  <2> DEFINE in == Append(place, tag)
             before == [place |-> place, fields |-> read]
             inside == [place |-> in, fields |-> read]
             more == read \o At(in, fields)
             last == [place |-> in, fields |-> more]
             after == [place |-> place, fields |-> more]
  <2>1. /\ IsSeq(in) /\ in # <<>> /\ Last(in) = tag /\ Front(in) = place
        /\ in = place \o <<tag>>
    BY <1>5, LastAppended
  <2>2. ReadOn(before, open) = inside
    <3>1. ReadOn(before, open) = ReadToken(before, Open(tag))
      BY ReadOne
    <3>2. Open(tag)[1] = "open" /\ Open(tag)[2] = tag
      BY DEF Open
    <3>3. QED
      BY <3>1, <3>2 DEF ReadToken
  <2>3. ReadOn(last, close) = after
    <3>1. ReadOn(last, close) = ReadToken(last, Close(tag))
      BY ReadOne
    <3>2. Close(tag)[1] = "close" /\ Close(tag)[2] = tag
      BY DEF Close
    <3> HIDE DEF in, more
    <3>3. ReadToken(last, Close(tag))
            = [last EXCEPT !.place = IF @ # <<>> /\ Last(@) = tag
                                     THEN Front(@) ELSE Append(@, "broken")]
      BY <3>2 DEF ReadToken
    <3>4. last.place # <<>> /\ Last(last.place) = tag /\ Front(last.place) = place
      BY <2>1
    <3>5. QED
      BY <3>1, <3>3, <3>4
  <2> HIDE DEF in
  <2>4. ReadOn(inside, text) = last
    BY <1>5, <2>1 DEF Tells
  <2>5. At(in, fields) = At(place, inner)
    BY <1>1, <1>5, <2>1, AtAgain
  <2>6. ReadOn(before, head) = ReadOn(ReadOn(before, open), text)
    BY <1>1, ReadJoined
  <2>7. ReadOn(before, all) = ReadOn(ReadOn(before, head), close)
    BY <1>1, <1>2, ReadJoined
  <2>8. QED
    BY <2>2, <2>3, <2>4, <2>5, <2>6, <2>7
<1>6. Tells(all, inner)
  BY <1>3, <1>4, <1>5 DEF Tells
<1>7. QED
  BY <1>6 DEF Element

LEMMA ElementBegins ==
  ASSUME NEW text, IsSeq(text), NEW tag
  PROVE  Len(Element(tag, text)) >= 1 /\ Element(tag, text)[1] = Open(tag)
<1> DEFINE open == <<Open(tag)>>
           close == <<Close(tag)>>
           head == open \o text
           all == head \o close
<1>1. IsSeq(open) /\ IsSeq(close) /\ Len(open) = 1 /\ open[1] = Open(tag) /\ Len(close) = 1
  BY SingleIs
<1>2. all = Element(tag, text)
  BY Zenon DEF Element
<1> HIDE DEF open, close
<1>3. Joins(head, open, text) /\ IsSeq(head) /\ Len(text) \in Nat
  BY <1>1, JoinOf, SeqIs
<1> HIDE DEF head
<1>4. Joins(all, head, close)
  BY <1>1, <1>3, JoinOf
<1> HIDE DEF all
<1>5. Len(all) >= 1 /\ all[1] = Open(tag)
  BY <1>1, <1>3, <1>4 DEF Joins
<1>6. QED
  BY <1>2, <1>5

\* A field is told when it is of a tree; a tree's fields are never left empty.
TreeField(tag, value) == IF tag \in InTree THEN << <<<<tag>>, value>> >> ELSE <<>>

LEMMA TokenTold ==
  ASSUME NEW tag, NEW value
  PROVE  Tells(<< <<"field", tag, value>> >>, TreeField(tag, value))
<1> DEFINE token == <<"field", tag, value>>
           text == <<token>>
           one == << <<<<tag>>, value>> >>
<1>1. token[1] = "field" /\ token[2] = tag /\ token[3] = value
  OBVIOUS
<1>2. IsSeq(text)
  BY SingleIs
<1>3. HavePlaces(TreeField(tag, value))
  <2>1. IsSeq(one) /\ DOMAIN one = {1} /\ one[1][1] = <<tag>> /\ IsSeq(<<tag>>)
    BY SingleIs
  <2>2. HavePlaces(one)
    BY <2>1 DEF HavePlaces
  <2>3. HavePlaces(<<>>)
    BY NothingTold DEF Tells
  <2>4. QED
    BY <2>2, <2>3 DEF TreeField
<1> HIDE DEF token
<1>4. ASSUME NEW place, NEW read, IsSeq(place), IsSeq(read)
      PROVE  ReadOn([place |-> place, fields |-> read], text)
               = [place |-> place, fields |-> read \o At(place, TreeField(tag, value))]
  <2> DEFINE before == [place |-> place, fields |-> read]
             new == <<Append(place, tag), value>>
  <2>1. ReadOn(before, text) = ReadToken(before, token)
    BY ReadOne
  <2>2. CASE tag \in InTree
    <3>1. ReadToken(before, token) = [place |-> place, fields |-> Append(read, new)]
      BY <1>1, <2>2 DEF ReadToken
    <3>2. place \o <<tag>> = Append(place, tag)
      BY <1>4, LastAppended
    <3>3. At(place, one) = <<new>>
      <4>1. /\ DOMAIN one = {1} /\ Len(one) = 1
            /\ one[1][1] = <<tag>> /\ one[1][2] = value
        OBVIOUS
      <4>2. HavePlaces(one)
        BY <1>3, <2>2 DEF TreeField
      <4> HIDE DEF one
      <4>3. IsAt(At(place, one), place, one) /\ IsSeq(At(place, one))
        BY <1>4, <4>2, AtIs
      <4> DEFINE at == At(place, one)
      <4>4. Len(at) = 1 /\ at[1] = <<place \o <<tag>>, value>>
        BY <4>1, <4>3 DEF IsAt
      <4> HIDE DEF at
      <4>5. at[1] = new
        BY <3>2, <4>4
      <4> HIDE DEF new
      <4>6. IsSeq(<<new>>) /\ Len(<<new>>) = 1 /\ <<new>>[1] = new
        BY SingleIs
      <4> DEFINE s == <<new>>
      <4> HIDE DEF s
      <4>7. at = s
        BY <4>3, <4>4, <4>5, <4>6, SameSeq DEF at, s
      <4>8. QED
        BY <4>7 DEF at, s
    <3> HIDE DEF new
    <3>4. Append(read, new) = read \o <<new>>
      BY <1>4, LastAppended
    <3>5. TreeField(tag, value) = one
      BY <2>2 DEF TreeField
    <3>6. QED
      BY <2>1, <3>1, <3>3, <3>4, <3>5
  <2>3. CASE tag \notin InTree
    <3>1. ReadToken(before, token) = before
      BY <1>1, <2>3 DEF ReadToken
    <3>2. TreeField(tag, value) = <<>>
      BY <2>3 DEF TreeField
    <3>3. At(place, <<>>) = <<>> /\ read \o <<>> = read
      BY <1>4, NoneJoined DEF At
    <3>4. QED
      BY <2>1, <3>1, <3>2, <3>3
  <2>4. QED
    BY <2>2, <2>3
<1>5. Tells(text, TreeField(tag, value))
  BY <1>2, <1>3, <1>4 DEF Tells
<1>6. QED
  BY <1>5 DEF text, token

LEMMA FieldTold ==
  ASSUME NEW tag, NEW value
  PROVE  /\ Tells(Field(tag, value), TreeField(tag, value))
         /\ Tells(Empty(tag), <<>>)
<1> DEFINE token == <<"empty", tag>>
<1>1. token[1] = "empty"
  OBVIOUS
<1> HIDE DEF token
<1>2. ASSUME NEW place, NEW read, IsSeq(place), IsSeq(read)
      PROVE  ReadOn([place |-> place, fields |-> read], <<token>>)
               = [place |-> place, fields |-> read \o At(place, <<>>)]
  <2> DEFINE before == [place |-> place, fields |-> read]
  <2>1. ReadOn(before, <<token>>) = ReadToken(before, token)
    BY ReadOne
  <2>2. ReadToken(before, token) = before
    BY <1>1 DEF ReadToken
  <2>3. At(place, <<>>) = <<>> /\ read \o <<>> = read
    BY <1>2, NoneJoined DEF At
  <2>4. QED
    BY <2>1, <2>2, <2>3
<1>3. Tells(<<token>>, <<>>)
  BY <1>2, SingleIs, NothingTold DEF Tells
<1>4. Tells(Empty(tag), <<>>)
  BY <1>3 DEF Empty, token
<1>5. CASE <<tag, value>> \in Nothing
  <2>1. tag \notin InTree
    BY <1>5 DEF Nothing, InTree
  <2>2. Field(tag, value) = Empty(tag) /\ TreeField(tag, value) = <<>>
    BY <1>5, <2>1, Zenon DEF Field, TreeField
  <2>3. QED
    BY <1>4, <2>2
<1>6. CASE <<tag, value>> \notin Nothing
  <2>1. Field(tag, value) = << <<"field", tag, value>> >>
    BY <1>6, Zenon DEF Field
  <2>2. QED
    BY <1>4, <2>1, TokenTold
<1>7. QED
  BY <1>5, <1>6

-----------------------------------------------------------------------------
(* Parts one after another.                                                 *)

\* joined has the first parts as one, as far as they are joined.
Joining(joined, parts) ==
  /\ joined[0] = <<>>
  /\ \A k \in 0..(Len(parts) - 1) : joined[k + 1] = joined[k] \o parts[k + 1]
  /\ FlattenSeq(parts) = joined[Len(parts)]

AllSeqs(parts) == IsSeq(parts) /\ \A i \in DOMAIN parts : IsSeq(parts[i])

LEMMA PartsJoin ==
  ASSUME NEW parts, AllSeqs(parts)
  PROVE  /\ \E joined : Joining(joined, parts)
         /\ Len(parts) \in Nat /\ DOMAIN parts = 1..Len(parts)
<1> DEFINE n == Len(parts)
<1>1. IsSeq(parts) /\ n \in Nat /\ DOMAIN parts = 1..n
  BY SeqIs DEF AllSeqs
<1>2. n = 0 => parts = <<>>
  BY <1>1 DEF IsSeq
<1>3. n > 0 => IsSeq(parts[1])
  BY <1>1 DEF AllSeqs
<1>4. PICK joined :
        /\ joined[0] = <<>>
        /\ \A k \in 0..(n - 1) : joined[k + 1] = joined[k] \o parts[k + 1]
        /\ FlattenSeq(parts) = joined[n]
  BY <1>1, <1>2, <1>3, FlattenSteps
<1>5. Joining(joined, parts)
  BY <1>4 DEF Joining
<1>6. QED
  BY <1>1, <1>5

LEMMA PartsTold ==
  ASSUME NEW texts, NEW trees, IsSeq(texts), IsSeq(trees), Len(texts) = Len(trees),
         \A i \in DOMAIN texts : Tells(texts[i], trees[i])
  PROVE  Tells(FlattenSeq(texts), FlattenSeq(trees))
<1> DEFINE n == Len(texts)
<1>1. n \in Nat /\ DOMAIN texts = 1..n /\ DOMAIN trees = 1..n
  BY SeqIs
<1>2. AllSeqs(texts) /\ AllSeqs(trees)
  BY <1>1 DEF AllSeqs, Tells, HavePlaces
<1>3. PICK t : Joining(t, texts)
  BY <1>2, PartsJoin
<1>4. PICK f : Joining(f, trees)
  BY <1>2, PartsJoin
<1> DEFINE S == {k \in Nat : Tells(t[k], f[k])}
<1>5. 0 \in S
  BY <1>3, <1>4, NothingTold DEF Joining
<1>6. ASSUME NEW k \in 0..(n - 1), k \in S PROVE k + 1 \in S
  <2>1. Tells(texts[k + 1], trees[k + 1])
    BY <1>1
  <2>2. t[k + 1] = t[k] \o texts[k + 1]
    BY <1>3 DEF Joining
  <2>3. f[k + 1] = f[k] \o trees[k + 1]
    BY <1>4 DEF Joining
  <2>4. Tells(t[k] \o texts[k + 1], f[k] \o trees[k + 1])
    BY <1>6, <2>1, BothTold
  <2>5. Tells(t[k + 1], f[k + 1])
    BY <2>2, <2>3, <2>4, Zenon
  <2>6. QED
    BY <2>5
<1> HIDE DEF S, n
<1>7. n \in S
  BY <1>1, <1>5, <1>6, ReadLoop!Induction
<1>8. QED
  BY <1>3, <1>4, <1>7 DEF S, n, Joining

LEMMA LeadOnly ==
  ASSUME NEW parts, AllSeqs(parts), parts # <<>>,
         \A i \in DOMAIN parts : i # 1 => parts[i] = <<>>
  PROVE  FlattenSeq(parts) = parts[1]
<1> DEFINE n == Len(parts)
<1>1. PICK joined : Joining(joined, parts)
  BY PartsJoin
<1>2. n \in Nat /\ DOMAIN parts = 1..n
  BY PartsJoin
<1>3. n # 0
  BY <1>2 DEF AllSeqs, IsSeq
<1>4. IsSeq(parts[1])
  BY <1>2, <1>3 DEF AllSeqs
<1> DEFINE S == {k \in Nat : k # 0 => joined[k] = parts[1]}
<1>5. 0 \in S
  OBVIOUS
<1>6. ASSUME NEW k \in 0..(n - 1), k \in S PROVE k + 1 \in S
  <2>1. joined[k + 1] = joined[k] \o parts[k + 1]
    BY <1>1 DEF Joining
  <2>2. CASE k = 0
    <3>1. joined[k] = <<>> /\ k + 1 = 1
      BY <1>1, <2>2 DEF Joining
    <3>2. <<>> \o parts[1] = parts[1]
      BY <1>4, NoneJoined
    <3>3. QED
      BY <2>1, <3>1, <3>2
  <2>3. CASE k # 0
    <3>1. parts[k + 1] = <<>>
      BY <1>2, <2>3
    <3>2. joined[k] = parts[1]
      BY <1>6, <2>3
    <3>3. parts[1] \o <<>> = parts[1]
      BY <1>4, NoneJoined
    <3>4. QED
      BY <2>1, <3>1, <3>2, <3>3
  <2>4. QED
    BY <2>2, <2>3
<1> HIDE DEF S, n
<1>7. n \in S
  BY <1>2, <1>5, <1>6, ReadLoop!Induction
<1>8. QED
  BY <1>1, <1>3, <1>7 DEF S, n, Joining

LEMMA NothingJoined ==
  ASSUME NEW parts, IsSeq(parts), \A i \in DOMAIN parts : parts[i] = <<>>
  PROVE  FlattenSeq(parts) = <<>>
<1>1. AllSeqs(parts)
  BY NoneIs DEF AllSeqs
<1>2. CASE parts # <<>>
  <2>1. FlattenSeq(parts) = parts[1]
    BY <1>1, <1>2, LeadOnly
  <2>2. 1 \in DOMAIN parts
    BY <1>2 DEF IsSeq
  <2>3. QED
    BY <2>1, <2>2
<1>3. CASE parts = <<>>
  BY <1>3 DEF FlattenSeq
<1>4. QED
  BY <1>2, <1>3

LEMMA SinglesJoined ==
  ASSUME NEW s, IsSeq(s), NEW parts, parts = [i \in DOMAIN s |-> <<s[i]>>]
  PROVE  FlattenSeq(parts) = s
<1> DEFINE n == Len(s)
<1>1. n \in Nat /\ DOMAIN s = 1..n
  BY SeqIs
<1>2. DOMAIN parts = DOMAIN s /\ \A i \in DOMAIN s : parts[i] = <<s[i]>>
  OBVIOUS
<1>3. parts = [i \in DOMAIN s |-> parts[i]]
  BY <1>2
<1>4. IsSeq(parts) /\ Len(parts) = n
  BY <1>3, MappedIs
<1>5. AllSeqs(parts)
  BY <1>2, <1>4, SingleIs DEF AllSeqs
<1>6. PICK joined : Joining(joined, parts)
  BY <1>5, PartsJoin
<1> DEFINE S == {k \in Nat : joined[k] = SubSeq(s, 1, k)}
<1>7. PICK R : s \in Seq(R)
  BY DEF IsSeq
<1>8. 0 \in S
  <2>1. SubSeq(s, 1, 0) = <<>>
    BY <1>7
  <2>2. QED
    BY <1>6, <2>1 DEF Joining
<1>9. ASSUME NEW k \in 0..(n - 1), k \in S PROVE k + 1 \in S
  <2>1. joined[k + 1] = joined[k] \o parts[k + 1]
    BY <1>4, <1>6 DEF Joining
  <2>2. parts[k + 1] = <<s[k + 1]>>
    BY <1>1, <1>2
  <2>3. SubSeq(s, 1, k + 1) = SubSeq(s, 1, k) \o <<s[k + 1]>>
    BY <1>7
  <2>4. joined[k] = SubSeq(s, 1, k)
    BY <1>9
  <2>5. joined[k + 1] = SubSeq(s, 1, k + 1)
    BY <2>1, <2>2, <2>3, <2>4, Zenon
  <2>6. QED
    BY <2>5
<1> HIDE DEF S
<1>10. n \in S
  BY <1>1, <1>8, <1>9, ReadLoop!Induction
<1>11. SubSeq(s, 1, n) = s
  BY <1>7
<1>12. QED
  BY <1>4, <1>6, <1>10, <1>11 DEF S, Joining

LEMMA AtJoining ==
  ASSUME NEW place, IsSeq(place), NEW trees, IsSeq(trees),
         \A i \in DOMAIN trees : HavePlaces(trees[i]),
         NEW placed, placed = [i \in DOMAIN trees |-> At(place, trees[i])]
  PROVE  /\ HavePlaces(FlattenSeq(trees))
         /\ At(place, FlattenSeq(trees)) = FlattenSeq(placed)
<1> DEFINE n == Len(trees)
<1>1. n \in Nat /\ DOMAIN trees = 1..n
  BY SeqIs
<1>2. /\ DOMAIN placed = DOMAIN trees
      /\ \A i \in DOMAIN trees : placed[i] = At(place, trees[i])
  OBVIOUS
<1>3. placed = [i \in DOMAIN trees |-> placed[i]]
  BY <1>2
<1>4. IsSeq(placed) /\ Len(placed) = n
  BY <1>3, MappedIs
<1>5. AllSeqs(trees)
  BY DEF AllSeqs, HavePlaces
<1>6. AllSeqs(placed)
  BY <1>2, <1>4, AtIs DEF AllSeqs
<1>7. PICK f : Joining(f, trees)
  BY <1>5, PartsJoin
<1>8. PICK g : Joining(g, placed)
  BY <1>6, PartsJoin
<1> DEFINE S == {k \in Nat : HavePlaces(f[k]) /\ At(place, f[k]) = g[k]}
<1>9. 0 \in S
  <2>1. f[0] = <<>> /\ g[0] = <<>>
    BY <1>7, <1>8 DEF Joining
  <2>2. HavePlaces(<<>>) /\ At(place, <<>>) = <<>>
    BY NothingTold DEF Tells, At
  <2>3. QED
    BY <2>1, <2>2
<1>10. ASSUME NEW k \in 0..(n - 1), k \in S PROVE k + 1 \in S
  <2>1. HavePlaces(trees[k + 1]) /\ placed[k + 1] = At(place, trees[k + 1])
    BY <1>1, <1>2
  <2>2. f[k + 1] = f[k] \o trees[k + 1]
    BY <1>7 DEF Joining
  <2>3. g[k + 1] = g[k] \o placed[k + 1]
    BY <1>4, <1>8 DEF Joining
  <2>4. HavePlaces(f[k]) /\ At(place, f[k]) = g[k]
    BY <1>10
  <2> DEFINE a == f[k]
             b == trees[k + 1]
  <2> HIDE DEF a, b
  <2>5. HavePlaces(a) /\ HavePlaces(b)
    BY <2>1, <2>4 DEF a, b
  <2>6. HavePlaces(a \o b) /\ At(place, a \o b) = At(place, a) \o At(place, b)
    BY <2>5, AtJoined
  <2>7. HavePlaces(f[k + 1]) /\ At(place, f[k + 1]) = g[k + 1]
    BY <2>1, <2>2, <2>3, <2>4, <2>6, Zenon DEF a, b
  <2>8. QED
    BY <2>7
<1> HIDE DEF S, n
<1>11. n \in S
  BY <1>1, <1>9, <1>10, ReadLoop!Induction
<1>12. QED
  BY <1>4, <1>7, <1>8, <1>11 DEF S, n, Joining

-----------------------------------------------------------------------------
(* What is told of a device.                                                *)

LEMMA AndNothing ==
  ASSUME NEW s, NEW f, Tells(s, f), NEW t, Tells(t, <<>>)
  PROVE  Tells(s \o t, f) /\ Tells(t \o s, f)
<1>1. f \o <<>> = f /\ <<>> \o f = f
  BY NoneJoined DEF Tells, HavePlaces
<1>2. Tells(s \o t, f \o <<>>)
  BY BothTold
<1>3. Tells(t \o s, <<>> \o f)
  BY BothTold
<1>4. QED
  BY <1>1, <1>2, <1>3

LEMMA FieldsTold ==
  ASSUME NEW values, NEW tags, IsSeq(tags), tags # <<>>,
         \A i \in DOMAIN tags : i # 1 => tags[i] \notin InTree
  PROVE  Tells(FieldsOf(values, tags), TreeField(tags[1], values[tags[1]]))
<1> DEFINE texts == [i \in DOMAIN tags |-> Field(tags[i], values[tags[i]])]
           trees == [i \in DOMAIN tags |-> TreeField(tags[i], values[tags[i]])]
<1>1. /\ texts = [i \in DOMAIN tags |-> texts[i]]
      /\ \A i \in DOMAIN tags : texts[i] = Field(tags[i], values[tags[i]])
  OBVIOUS
<1>2. /\ trees = [i \in DOMAIN tags |-> trees[i]]
      /\ \A i \in DOMAIN tags : trees[i] = TreeField(tags[i], values[tags[i]])
  OBVIOUS
<1>3. FieldsOf(values, tags) = FlattenSeq(texts)
  BY DEF FieldsOf
<1> HIDE DEF texts, trees
<1>4. IsSeq(texts) /\ Len(texts) = Len(tags) /\ DOMAIN texts = DOMAIN tags
  BY <1>1, MappedIs
<1>5. IsSeq(trees) /\ Len(trees) = Len(tags) /\ DOMAIN trees = DOMAIN tags
  BY <1>2, MappedIs
<1>6. ASSUME NEW i \in DOMAIN tags PROVE Tells(texts[i], trees[i])
  BY <1>1, <1>2, FieldTold
<1>7. Tells(FlattenSeq(texts), FlattenSeq(trees))
  BY <1>4, <1>5, <1>6, PartsTold
<1>8. ASSUME NEW i \in DOMAIN tags, i # 1 PROVE trees[i] = <<>>
  BY <1>2, <1>8 DEF TreeField
<1>9. AllSeqs(trees)
  BY <1>5, <1>6 DEF AllSeqs, Tells, HavePlaces
<1>10. Len(tags) \in Nat /\ DOMAIN tags = 1..Len(tags) /\ Len(tags) # 0
  BY DEF IsSeq
<1>11. trees # <<>> /\ 1 \in DOMAIN tags
  BY <1>5, <1>10
<1>12. FlattenSeq(trees) = trees[1]
  BY <1>5, <1>8, <1>9, <1>11, LeadOnly
<1>13. QED
  BY <1>2, <1>3, <1>7, <1>11, <1>12

LEMMA OneTag ==
  ASSUME NEW values, NEW tag
  PROVE  Tells(FieldsOf(values, <<tag>>), TreeField(tag, values[tag]))
<1> DEFINE tags == <<tag>>
<1>1. IsSeq(tags) /\ tags # <<>> /\ tags[1] = tag /\ DOMAIN tags = {1}
  BY SingleIs
<1> HIDE DEF tags
<1>2. QED
  BY <1>1, FieldsTold DEF tags

LEMMA TagsOfSubslot ==
  ASSUME NEW values
  PROVE  /\ Tells(FieldsOf(values, <<"subslotNumber", "ownPortID", "submoduleIndetificationNumber">>),
                   << <<<<"subslotNumber">>, values["subslotNumber"]>> >>)
         /\ Tells(FieldsOf(values, PeerTags), <<>>)
         /\ Tells(FieldsOf(values, <<"MAUType", "portstate">>), <<>>)
<1> DEFINE a == <<"subslotNumber", "ownPortID", "submoduleIndetificationNumber">>
           b == <<"MAUType", "portstate">>
           peers == {"peerChassisId", "peerPortID", "peerMACAddress"}
           firsts == {"subslotNumber", "ownPortID", "submoduleIndetificationNumber"}
<1>1. /\ a # <<>> /\ a[1] = "subslotNumber"
      /\ \A i \in DOMAIN a : i # 1 => a[i] \notin InTree
  BY DEF InTree
<1>2. /\ PeerTags # <<>> /\ PeerTags[1] \notin InTree
      /\ \A i \in DOMAIN PeerTags : PeerTags[i] \notin InTree
  BY DEF InTree, PeerTags
<1>3. /\ b # <<>> /\ b[1] \notin InTree
      /\ \A i \in DOMAIN b : b[i] \notin InTree
  BY DEF InTree
<1>4. IsSeq(a) /\ IsSeq(b) /\ IsSeq(PeerTags)
  <2>1. a \in Seq(firsts)
    OBVIOUS
  <2>2. b \in Seq({"MAUType", "portstate"})
    OBVIOUS
  <2>3. PeerTags \in Seq(peers)
    BY DEF PeerTags
  <2> HIDE DEF a, b, firsts, peers
  <2>4. QED
    BY <2>1, <2>2, <2>3 DEF IsSeq
<1> HIDE DEF a, b
<1>5. Tells(FieldsOf(values, a), TreeField(a[1], values[a[1]]))
  BY <1>1, <1>4, FieldsTold
<1>6. Tells(FieldsOf(values, b), TreeField(b[1], values[b[1]]))
  BY <1>3, <1>4, FieldsTold
<1>7. Tells(FieldsOf(values, PeerTags), TreeField(PeerTags[1], values[PeerTags[1]]))
  BY <1>2, <1>4, FieldsTold
<1>8. "subslotNumber" \in InTree
  BY DEF InTree
<1>9. QED
  BY <1>1, <1>2, <1>3, <1>5, <1>6, <1>7, <1>8 DEF TreeField, a, b

\* t is s behind an element.
LEMMA Prepended ==
  ASSUME NEW a, NEW s, IsSeq(s), NEW t, IsSeq(t), Len(t) = Len(s) + 1, t[1] = a,
         \A i \in 1..Len(s) : t[i + 1] = s[i]
  PROVE  <<a>> \o s = t
<1> DEFINE one == <<a>>
           u == one \o s
<1>1. IsSeq(one) /\ Len(one) = 1 /\ one[1] = a
  BY SingleIs
<1> HIDE DEF one
<1>2. Joins(u, one, s) /\ IsSeq(u)
  BY <1>1, JoinOf
<1> HIDE DEF u
<1>3. Len(s) \in Nat
  BY SeqIs
<1>4. Len(u) = Len(t)
  BY <1>1, <1>2, <1>3 DEF Joins
<1>5. ASSUME NEW i \in 1..Len(u) PROVE u[i] = t[i]
  <2>1. CASE i = 1
    BY <1>1, <1>2, <2>1 DEF Joins
  <2>2. CASE i # 1
    <3> DEFINE j == i - 1
    <3>1. j \in 1..Len(s) /\ i = 1 + j /\ i = j + 1
      BY <1>3, <1>4, <2>2
    <3> HIDE DEF j
    <3>2. u[1 + j] = s[j]
      BY <1>1, <1>2, <3>1 DEF Joins
    <3>3. t[j + 1] = s[j]
      BY <3>1
    <3>4. QED
      BY <3>1, <3>2, <3>3
  <2>3. QED
    BY <2>1, <2>2
<1>6. u = t
  BY <1>2, <1>4, <1>5, SameSeq
<1>7. QED
  BY <1>6 DEF u, one

LEMMA TwoAre ==
  ASSUME NEW a, NEW b
  PROVE  <<a>> \o <<b>> = <<a, b>>
<1> DEFINE s == <<b>>
           t == <<a, b>>
<1>1. s \in Seq({b}) /\ t \in Seq({a, b})
  OBVIOUS
<1>2. Len(s) = 1 /\ Len(t) = 2 /\ t[1] = a
  OBVIOUS
<1>3. \A i \in 1..1 : t[i + 1] = s[i]
  OBVIOUS
<1> HIDE DEF s, t
<1>4. IsSeq(s) /\ IsSeq(t)
  BY <1>1 DEF IsSeq
<1>5. t[1] = a /\ Len(t) = Len(s) + 1 /\ \A i \in 1..Len(s) : t[i + 1] = s[i]
  BY <1>2, <1>3
<1>6. <<a>> \o s = t
  BY <1>4, <1>5, Prepended
<1>7. QED
  BY <1>6 DEF s, t

LEMMA TripleIs ==
  ASSUME NEW a, NEW b, NEW c
  PROVE  <<a>> \o <<b, c>> = <<a, b, c>>
<1> DEFINE s == <<b, c>>
           t == <<a, b, c>>
<1>1. s \in Seq({b, c}) /\ t \in Seq({a, b, c})
  OBVIOUS
<1>2. Len(s) = 2 /\ Len(t) = 3 /\ t[1] = a
  OBVIOUS
<1>3. \A i \in 1..2 : t[i + 1] = s[i]
  OBVIOUS
<1> HIDE DEF s, t
<1>4. IsSeq(s) /\ IsSeq(t)
  BY <1>1 DEF IsSeq
<1>5. t[1] = a /\ Len(t) = Len(s) + 1 /\ \A i \in 1..Len(s) : t[i + 1] = s[i]
  BY <1>2, <1>3
<1>6. <<a>> \o s = t
  BY <1>4, <1>5, Prepended
<1>7. QED
  BY <1>6 DEF s, t

LEMMA FourAre ==
  ASSUME NEW a, NEW b, NEW c, NEW d
  PROVE  <<a>> \o <<b, c, d>> = <<a, b, c, d>>
<1> DEFINE s == <<b, c, d>>
           t == <<a, b, c, d>>
<1>1. s \in Seq({b, c, d}) /\ t \in Seq({a, b, c, d})
  OBVIOUS
<1>2. Len(s) = 3 /\ Len(t) = 4 /\ t[1] = a
  OBVIOUS
<1>3. \A i \in 1..3 : t[i + 1] = s[i]
  OBVIOUS
<1> HIDE DEF s, t
<1>4. IsSeq(s) /\ IsSeq(t)
  BY <1>1 DEF IsSeq
<1>5. t[1] = a /\ Len(t) = Len(s) + 1 /\ \A i \in 1..Len(s) : t[i + 1] = s[i]
  BY <1>2, <1>3
<1>6. <<a>> \o s = t
  BY <1>4, <1>5, Prepended
<1>7. QED
  BY <1>6 DEF s, t

LEMMA FiveAre ==
  ASSUME NEW a, NEW b, NEW c, NEW d, NEW e
  PROVE  <<a>> \o <<b, c, d, e>> = <<a, b, c, d, e>>
<1> DEFINE s == <<b, c, d, e>>
           t == <<a, b, c, d, e>>
<1>1. s \in Seq({b, c, d, e}) /\ t \in Seq({a, b, c, d, e})
  OBVIOUS
<1>2. Len(s) = 4 /\ Len(t) = 5 /\ t[1] = a
  OBVIOUS
<1>3. \A i \in 1..4 : t[i + 1] = s[i]
  OBVIOUS
<1> HIDE DEF s, t
<1>4. IsSeq(s) /\ IsSeq(t)
  BY <1>1 DEF IsSeq
<1>5. t[1] = a /\ Len(t) = Len(s) + 1 /\ \A i \in 1..Len(s) : t[i + 1] = s[i]
  BY <1>2, <1>3
<1>6. <<a>> \o s = t
  BY <1>4, <1>5, Prepended
<1>7. QED
  BY <1>6 DEF s, t

LEMMA AtOne ==
  ASSUME NEW p, IsSeq(p), NEW q, IsSeq(q), NEW value
  PROVE  At(p, << <<q, value>> >>) = << <<p \o q, value>> >> /\ HavePlaces(<< <<q, value>> >>)
<1> DEFINE one == << <<q, value>> >>
           pq == p \o q
           new == << <<pq, value>> >>
           at == At(p, one)
<1>1. /\ IsSeq(one) /\ DOMAIN one = {1} /\ Len(one) = 1
      /\ one[1][1] = q /\ one[1][2] = value
  BY SingleIs
<1>2. IsSeq(new) /\ Len(new) = 1 /\ new[1] = <<pq, value>>
  BY SingleIs
<1> HIDE DEF one, new
<1>3. HavePlaces(one)
  BY <1>1 DEF HavePlaces
<1>4. IsAt(at, p, one) /\ IsSeq(at)
  BY <1>3, AtIs
<1> HIDE DEF at
<1>5. Len(at) = 1 /\ at[1] = <<pq, value>>
  BY <1>1, <1>4 DEF IsAt
<1> HIDE DEF pq
<1>6. at = new
  BY <1>2, <1>4, <1>5, SameSeq
<1>7. QED
  BY <1>3, <1>6 DEF at, one, new, pq

LEMMA SubslotTold ==
  ASSUME NEW subslot
  PROVE  Tells(SubslotText(subslot),
               << <<<<"Submodule", "subslotNumber">>, subslot["subslotNumber"]>> >>)
<1> DEFINE value == subslot["subslotNumber"]
           one == << <<<<"subslotNumber">>, value>> >>
           a == FieldsOf(subslot, <<"subslotNumber", "ownPortID", "submoduleIndetificationNumber">>)
           b == IF subslot["peerChassisId"] # Nil /\ subslot["peerMACAddress"] # Nil
                THEN FieldsOf(subslot, PeerTags) ELSE <<>>
           c == FieldsOf(subslot, <<"MAUType", "portstate">>)
<1>1. Tells(a, one) /\ Tells(b, <<>>) /\ Tells(c, <<>>)
  BY TagsOfSubslot, NothingTold
<1>2. SubslotText(subslot) = Element("Submodule", (a \o b) \o c)
  BY DEF SubslotText
<1> HIDE DEF a, b, c
<1>3. Tells(a \o b, one)
  BY <1>1, AndNothing
<1>4. Tells((a \o b) \o c, one)
  BY <1>1, <1>3, AndNothing
<1>5. Tells(SubslotText(subslot), At(<<"Submodule">>, one))
  BY <1>2, <1>4, ElementTold
<1> DEFINE p == <<"Submodule">>
           q == <<"subslotNumber">>
           place == <<"Submodule", "subslotNumber">>
<1>6. IsSeq(p) /\ IsSeq(q)
  BY SingleIs
<1>7. p \o q = place
  BY TwoAre
<1>8. At(p, one) = << <<place, value>> >>
  <2> HIDE DEF p, q, place, value
  <2>1. At(p, << <<q, value>> >>) = << <<p \o q, value>> >>
    BY <1>6, AtOne
  <2>2. one = << <<q, value>> >>
    BY DEF q
  <2>3. QED
    BY <1>7, <2>1, <2>2
<1>9. QED
  BY <1>5, <1>8

\* What a slot's text tells of its subslots, and of the slot.
SubslotsTree(slot) ==
  [i \in DOMAIN slot.subslotList |->
    <<<<"Submodule", "subslotNumber">>, slot.subslotList[i]["subslotNumber"]>>]

SlotTree(slot) ==
  At(<<"Module">>,
     << <<<<"slotNumber">>, slot["slotNumber"]>> >>
       \o At(<<"Submodules">>, SubslotsTree(slot)))

LEMMA SubslotsTold ==
  ASSUME NEW slot, IsSeq(slot.subslotList)
  PROVE  /\ Tells(ListOf("Submodules", [i \in DOMAIN slot.subslotList |->
                                          SubslotText(slot.subslotList[i])]),
                  At(<<"Submodules">>, SubslotsTree(slot)))
         /\ HavePlaces(SubslotsTree(slot))
<1> DEFINE list == slot.subslotList
           texts == [i \in DOMAIN list |-> SubslotText(list[i])]
           tree == SubslotsTree(slot)
           trees == [i \in DOMAIN list |-> <<tree[i]>>]
<1>1. /\ texts = [i \in DOMAIN list |-> texts[i]]
      /\ \A i \in DOMAIN list : texts[i] = SubslotText(list[i])
  OBVIOUS
<1>2. /\ tree = [i \in DOMAIN list |-> tree[i]]
      /\ \A i \in DOMAIN list :
           tree[i] = <<<<"Submodule", "subslotNumber">>, list[i]["subslotNumber"]>>
  BY DEF SubslotsTree
<1>3. /\ trees = [i \in DOMAIN list |-> trees[i]]
      /\ \A i \in DOMAIN list : trees[i] = <<tree[i]>>
  OBVIOUS
<1>4. ListOf("Submodules", texts)
        = IF texts = <<>> THEN <<>> ELSE Element("Submodules", FlattenSeq(texts))
  BY DEF ListOf
<1> HIDE DEF texts, tree
<1>5. IsSeq(texts) /\ Len(texts) = Len(list) /\ DOMAIN texts = DOMAIN list
  BY <1>1, MappedIs
<1>6. IsSeq(tree) /\ DOMAIN tree = DOMAIN list
  BY <1>2, MappedIs
<1>7. FlattenSeq(trees) = tree
  BY <1>6, SinglesJoined
<1> HIDE DEF trees
<1>8. IsSeq(trees) /\ Len(trees) = Len(list) /\ DOMAIN trees = DOMAIN list
  BY <1>3, MappedIs
<1>9. ASSUME NEW i \in DOMAIN list PROVE Tells(texts[i], trees[i])
  BY <1>1, <1>2, <1>3, SubslotTold
<1>10. Tells(FlattenSeq(texts), tree)
  BY <1>5, <1>7, <1>8, <1>9, PartsTold
<1>11. CASE texts = <<>>
  <2>1. DOMAIN tree = {}
    BY <1>5, <1>6, <1>11
  <2>2. At(<<"Submodules">>, tree) = <<>>
    BY <2>1 DEF At
  <2>3. QED
    BY <1>4, <1>10, <1>11, <2>2, NothingTold DEF Tells, texts, tree
<1>12. CASE texts # <<>>
  <2>1. Tells(Element("Submodules", FlattenSeq(texts)), At(<<"Submodules">>, tree))
    BY <1>10, ElementTold
  <2>2. QED
    BY <1>4, <1>10, <1>12, <2>1 DEF Tells, texts, tree
<1>13. QED
  BY <1>11, <1>12

LEMMA ModuleTold ==
  ASSUME NEW data
  PROVE  Tells(ModuleText(data), <<>>)
<1> DEFINE tags == {"vendorId", "orderId", "IMserialNumber", "HardwareRevision",
                    "softwareVersion", "IMprofilID", "IMprofilSpecificType",
                    "IMversion", "IMsupported"}
           texts == [i \in DOMAIN ModuleTags |-> Empty(ModuleTags[i])]
           none == [i \in DOMAIN ModuleTags |-> <<>>]
<1>1. ModuleTags \in Seq(tags)
  BY DEF ModuleTags
<1>2. tags \cap InTree = {}
  BY DEF InTree
<1>3. ModuleTags # <<>> /\ 1 \in DOMAIN ModuleTags
  BY DEF ModuleTags
<1> HIDE DEF tags
<1>4. IsSeq(ModuleTags)
  BY <1>1 DEF IsSeq
<1>5. \A i \in DOMAIN ModuleTags : ModuleTags[i] \notin InTree
  BY <1>1, <1>2
<1>6. Tells(FieldsOf(data, ModuleTags), <<>>)
  BY <1>3, <1>4, <1>5, FieldsTold DEF TreeField
<1>7. /\ texts = [i \in DOMAIN ModuleTags |-> texts[i]]
      /\ \A i \in DOMAIN ModuleTags : texts[i] = Empty(ModuleTags[i])
  OBVIOUS
<1>8. /\ none = [i \in DOMAIN ModuleTags |-> none[i]]
      /\ \A i \in DOMAIN ModuleTags : none[i] = <<>>
  OBVIOUS
<1>9. ModuleText(data) \in {FieldsOf(data, ModuleTags), FlattenSeq(texts)}
  BY DEF ModuleText
<1> HIDE DEF texts, none
<1>10. IsSeq(texts) /\ Len(texts) = Len(ModuleTags) /\ DOMAIN texts = DOMAIN ModuleTags
  BY <1>4, <1>7, MappedIs
<1>11. IsSeq(none) /\ Len(none) = Len(ModuleTags) /\ DOMAIN none = DOMAIN ModuleTags
  BY <1>4, <1>8, MappedIs
<1>12. \A i \in DOMAIN texts : Tells(texts[i], none[i])
  BY <1>7, <1>8, <1>10, FieldTold
<1>13. FlattenSeq(none) = <<>>
  BY <1>8, <1>11, NothingJoined
<1>14. Tells(FlattenSeq(texts), <<>>)
  BY <1>10, <1>11, <1>12, <1>13, PartsTold
<1>15. QED
  BY <1>6, <1>9, <1>14

LEMMA SlotTold ==
  ASSUME NEW slot, IsSeq(slot.subslotList)
  PROVE  Tells(SlotText(slot), SlotTree(slot)) /\ HavePlaces(SlotTree(slot))
<1> DEFINE tags == <<"slotNumber", "moduleIdentificationNumber">>
           one == << <<<<"slotNumber">>, slot["slotNumber"]>> >>
           a == FieldsOf(slot, tags)
           b == ModuleText(slot.moduledata)
           c == Field("numberOfSubslots", slot.numberOfSubmodules)
           d == ListOf("Submodules", [i \in DOMAIN slot.subslotList |->
                                       SubslotText(slot.subslotList[i])])
           tree == At(<<"Submodules">>, SubslotsTree(slot))
<1>1. Tells(a, one)
  <2>1. /\ tags # <<>> /\ tags[1] = "slotNumber"
        /\ \A i \in DOMAIN tags : i # 1 => tags[i] \notin InTree
    BY DEF InTree
  <2>2. tags \in Seq({"slotNumber", "moduleIdentificationNumber"})
    OBVIOUS
  <2>3. "slotNumber" \in InTree
    BY DEF InTree
  <2> HIDE DEF tags
  <2>4. Tells(a, TreeField(tags[1], slot[tags[1]]))
    BY <2>1, <2>2, FieldsTold DEF IsSeq
  <2>5. QED
    BY <2>1, <2>3, <2>4 DEF TreeField
<1>2. Tells(b, <<>>)
  BY ModuleTold
<1>3. Tells(c, <<>>)
  <2>1. "numberOfSubslots" \notin InTree
    BY DEF InTree
  <2>2. QED
    BY <2>1, FieldTold DEF TreeField
<1>4. Tells(d, tree)
  BY SubslotsTold
<1>5. SlotText(slot) = Element("Module", ((a \o b) \o c) \o d)
  BY Zenon DEF SlotText
<1>6. SlotTree(slot) = At(<<"Module">>, one \o tree)
  BY Zenon DEF SlotTree
<1> HIDE DEF a, b, c, d, one, tree
<1>7. Tells(a \o b, one)
  BY <1>1, <1>2, AndNothing
<1>8. Tells((a \o b) \o c, one)
  BY <1>3, <1>7, AndNothing
<1>9. Tells(((a \o b) \o c) \o d, one \o tree)
  BY <1>4, <1>8, BothTold
<1>10. Tells(SlotText(slot), SlotTree(slot))
  BY <1>5, <1>6, <1>9, ElementTold
<1>11. QED
  BY <1>10 DEF Tells

\* What a device's text tells.
SlotTrees(device) == [i \in DOMAIN device.slotList |-> SlotTree(device.slotList[i])]

DeviceTree(device) ==
  At(<<"Device">>,
     << <<<<"ip-address">>, device["ip-address"]>> >>
       \o At(<<"Modules">>, FlattenSeq(SlotTrees(device))))

\* A device has a list of slots, each with a list of subslots; whatever is in them.
HasTree(device) ==
  /\ IsSeq(device.slotList)
  /\ \A i \in DOMAIN device.slotList : IsSeq(device.slotList[i].subslotList)

LEMMA SlotTreesAre ==
  ASSUME NEW device, HasTree(device)
  PROVE  /\ IsSeq(SlotTrees(device)) /\ Len(SlotTrees(device)) = Len(device.slotList)
         /\ DOMAIN SlotTrees(device) = DOMAIN device.slotList
         /\ \A i \in DOMAIN device.slotList :
              SlotTrees(device)[i] = SlotTree(device.slotList[i])
<1> DEFINE trees == SlotTrees(device)
<1>1. /\ trees = [i \in DOMAIN device.slotList |-> trees[i]]
      /\ \A i \in DOMAIN device.slotList : trees[i] = SlotTree(device.slotList[i])
  BY DEF SlotTrees
<1> HIDE DEF trees
<1>2. IsSeq(trees) /\ Len(trees) = Len(device.slotList)
      /\ DOMAIN trees = DOMAIN device.slotList
  BY <1>1, MappedIs DEF HasTree
<1>3. QED
  BY <1>1, <1>2 DEF trees

LEMMA SlotsTold ==
  ASSUME NEW device, HasTree(device)
  PROVE  /\ Tells(SlotsText(device), At(<<"Modules">>, FlattenSeq(SlotTrees(device))))
         /\ HavePlaces(FlattenSeq(SlotTrees(device)))
<1> DEFINE slots == device.slotList
           texts == [i \in DOMAIN slots |-> SlotText(slots[i])]
           trees == SlotTrees(device)
           number == Field("numberOfSlots", device.numberOfSlots)
<1>1. /\ texts = [i \in DOMAIN slots |-> texts[i]]
      /\ \A i \in DOMAIN slots : texts[i] = SlotText(slots[i])
  OBVIOUS
<1>2. SlotsText(device) = IF slots = <<>> THEN <<>>
                          ELSE Element("Modules", number \o FlattenSeq(texts))
  BY DEF SlotsText
<1> HIDE DEF texts
<1>3. IsSeq(texts) /\ Len(texts) = Len(slots) /\ DOMAIN texts = DOMAIN slots
  BY <1>1, MappedIs DEF HasTree
<1>4. /\ IsSeq(trees) /\ Len(trees) = Len(slots) /\ DOMAIN trees = DOMAIN slots
      /\ \A i \in DOMAIN slots : trees[i] = SlotTree(slots[i])
  BY SlotTreesAre
<1> HIDE DEF trees
<1>5. ASSUME NEW i \in DOMAIN slots PROVE Tells(texts[i], trees[i])
  <2>1. IsSeq(slots[i].subslotList)
    BY DEF HasTree
  <2>2. QED
    BY <1>1, <1>4, <2>1, SlotTold
<1>6. Tells(FlattenSeq(texts), FlattenSeq(trees))
  BY <1>3, <1>4, <1>5, PartsTold
<1>7. HavePlaces(FlattenSeq(trees))
  BY <1>6 DEF Tells
<1>8. CASE slots = <<>>
  <2>1. trees = <<>>
    BY <1>4, <1>8, NoneIs, SameSeq
  <2>2. FlattenSeq(trees) = <<>> /\ At(<<"Modules">>, <<>>) = <<>>
    BY <2>1 DEF FlattenSeq, At
  <2>3. QED
    BY <1>2, <1>7, <1>8, <2>2, NothingTold DEF trees
<1>9. CASE slots # <<>>
  <2>1. "numberOfSlots" \notin InTree
    BY DEF InTree
  <2>2. Tells(number, <<>>)
    BY <2>1, FieldTold DEF TreeField
  <2>3. Tells(number \o FlattenSeq(texts), FlattenSeq(trees))
    BY <1>6, <2>2, AndNothing
  <2>4. Tells(Element("Modules", number \o FlattenSeq(texts)),
              At(<<"Modules">>, FlattenSeq(trees)))
    BY <2>3, ElementTold
  <2>5. QED
    BY <1>2, <1>7, <1>9, <2>4 DEF trees
<1>10. QED
  BY <1>8, <1>9

LEMMA DeviceTold ==
  ASSUME NEW device, HasTree(device), NEW gatewayMac
  PROVE  /\ Tells(DeviceText(device, gatewayMac), DeviceTree(device))
         /\ Len(DeviceText(device, gatewayMac)) >= 1
         /\ DeviceText(device, gatewayMac)[1] = Open("Device")
<1> DEFINE one == << <<<<"ip-address">>, device["ip-address"]>> >>
           ip == FieldsOf(device, <<"ip-address">>)
           mac == IF device["mac-address"] = gatewayMac THEN Empty("mac-address")
                  ELSE FieldsOf(device, <<"mac-address">>)
           net == FieldsOf(device, <<"subnetmask", "defaultGateway">>)
           ids == FieldsOf(device, <<"vendorId", "deviceId">>)
           role == IF device["deviceRole"] = 0 THEN <<>>
                   ELSE FieldsOf(device, <<"deviceRole">>)
           about == FieldsOf(device, <<"nameOfStation", "softwareVersion",
                                       "HardwareRevision", "deviceType", "orderId", "UDP_Port">>)
           slots == SlotsText(device)
           tree == At(<<"Modules">>, FlattenSeq(SlotTrees(device)))
<1>1. Tells(ip, one)
  <2>1. "ip-address" \in InTree
    BY DEF InTree
  <2>2. Tells(ip, TreeField("ip-address", device["ip-address"]))
    BY OneTag
  <2>3. QED
    BY <2>1, <2>2 DEF TreeField
<1>2. Tells(mac, <<>>)
  <2>1. "mac-address" \notin InTree
    BY DEF InTree
  <2>2. Tells(FieldsOf(device, <<"mac-address">>), <<>>)
    BY <2>1, OneTag DEF TreeField
  <2>3. Tells(Empty("mac-address"), <<>>)
    BY FieldTold
  <2>4. QED
    BY <2>2, <2>3
<1>3. Tells(net, <<>>)
  <2> DEFINE tags == <<"subnetmask", "defaultGateway">>
  <2>1. /\ tags # <<>> /\ tags[1] \notin InTree
        /\ \A i \in DOMAIN tags : tags[i] \notin InTree
    BY DEF InTree
  <2>2. tags \in Seq({"subnetmask", "defaultGateway"})
    OBVIOUS
  <2> HIDE DEF tags
  <2>3. QED
    BY <2>1, <2>2, FieldsTold DEF IsSeq, TreeField, tags
<1>4. Tells(ids, <<>>)
  <2> DEFINE tags == <<"vendorId", "deviceId">>
  <2>1. /\ tags # <<>> /\ tags[1] \notin InTree
        /\ \A i \in DOMAIN tags : tags[i] \notin InTree
    BY DEF InTree
  <2>2. tags \in Seq({"vendorId", "deviceId"})
    OBVIOUS
  <2> HIDE DEF tags
  <2>3. QED
    BY <2>1, <2>2, FieldsTold DEF IsSeq, TreeField, tags
<1>5. Tells(role, <<>>)
  <2>1. "deviceRole" \notin InTree
    BY DEF InTree
  <2>2. Tells(FieldsOf(device, <<"deviceRole">>), <<>>)
    BY <2>1, OneTag DEF TreeField
  <2>3. QED
    BY <2>2, NothingTold
<1>6. Tells(about, <<>>)
  <2> DEFINE tags == <<"nameOfStation", "softwareVersion", "HardwareRevision",
                       "deviceType", "orderId", "UDP_Port">>
  <2>1. /\ tags # <<>> /\ tags[1] \notin InTree
        /\ \A i \in DOMAIN tags : tags[i] \notin InTree
    BY DEF InTree
  <2>2. tags \in Seq({"nameOfStation", "softwareVersion", "HardwareRevision",
                      "deviceType", "orderId", "UDP_Port"})
    OBVIOUS
  <2> HIDE DEF tags
  <2>3. QED
    BY <2>1, <2>2, FieldsTold DEF IsSeq, TreeField, tags
<1>7. Tells(slots, tree)
  BY SlotsTold
<1> DEFINE address == (ip \o mac) \o net
<1>8. AddressText(device, gatewayMac) = address
  BY Zenon DEF AddressText
<1>9. DeviceText(device, gatewayMac)
        = Element("Device",
            (((AddressText(device, gatewayMac) \o ids) \o role) \o about) \o slots)
  BY Zenon DEF DeviceText
<1>10. DeviceTree(device) = At(<<"Device">>, one \o tree)
  BY Zenon DEF DeviceTree
<1> HIDE DEF ip, mac, net, ids, role, about, slots, one, tree
<1>11. Tells(address, one)
  BY <1>1, <1>2, <1>3, AndNothing
<1> HIDE DEF address
<1>12. Tells(address \o ids, one)
  BY <1>4, <1>11, AndNothing
<1>13. Tells((address \o ids) \o role, one)
  BY <1>5, <1>12, AndNothing
<1>14. Tells(((address \o ids) \o role) \o about, one)
  BY <1>6, <1>13, AndNothing
<1>15. Tells((((address \o ids) \o role) \o about) \o slots, one \o tree)
  BY <1>7, <1>14, BothTold
<1> DEFINE content == (((address \o ids) \o role) \o about) \o slots
<1>16. IsSeq(content)
  BY <1>15 DEF Tells
<1>17. DeviceText(device, gatewayMac) = Element("Device", content)
  BY <1>8, <1>9
<1> HIDE DEF content
<1>18. /\ Len(DeviceText(device, gatewayMac)) >= 1
       /\ DeviceText(device, gatewayMac)[1] = Open("Device")
  BY <1>16, <1>17, ElementBegins
<1>19. Tells(DeviceText(device, gatewayMac), DeviceTree(device))
  BY <1>10, <1>15, <1>17, ElementTold DEF content
<1>20. QED
  BY <1>18, <1>19

-----------------------------------------------------------------------------
(* The tree of a device is what its text tells in the file.                 *)

LEMMA SlotInFile ==
  ASSUME NEW slot, IsSeq(slot.subslotList), NEW place, IsSeq(place)
  PROVE  At(place, At(<<"Modules">>, SlotTree(slot)))
           = << <<place \o <<"Modules", "Module", "slotNumber">>, slot["slotNumber"]>> >>
               \o [i \in DOMAIN slot.subslotList |->
                     <<place \o <<"Modules", "Module", "Submodules", "Submodule",
                                  "subslotNumber">>,
                       slot.subslotList[i]["subslotNumber"]>>]
<1> DEFINE list == slot.subslotList
           value == slot["slotNumber"]
           modules == <<"Modules">>
           module == <<"Module">>
           submodules == <<"Submodules">>
           number == <<"slotNumber">>
           number2 == <<"Module", "slotNumber">>
           number3 == <<"Modules", "Module", "slotNumber">>
           sub == <<"Submodule", "subslotNumber">>
           sub3 == <<"Submodules", "Submodule", "subslotNumber">>
           sub4 == <<"Module", "Submodules", "Submodule", "subslotNumber">>
           sub5 == <<"Modules", "Module", "Submodules", "Submodule", "subslotNumber">>
           tree == SubslotsTree(slot)
           deep == At(submodules, tree)
           one == << <<number, value>> >>
           all == [i \in DOMAIN list |-> <<place \o sub5, list[i]["subslotNumber"]>>]
<1>1. /\ module \o number = number2 /\ modules \o number2 = number3
      /\ submodules \o sub = sub3 /\ module \o sub3 = sub4 /\ modules \o sub4 = sub5
  <2>1. module \o number = number2
    BY TwoAre, Zenon
  <2>2. modules \o number2 = number3
    BY TripleIs, Zenon
  <2>3. submodules \o sub = sub3
    BY TripleIs, Zenon
  <2>4. module \o sub3 = sub4
    BY FourAre, Zenon
  <2>5. modules \o sub4 = sub5
    BY FiveAre, Zenon
  <2>6. QED
    BY <2>1, <2>2, <2>3, <2>4, <2>5
<1>2. IsSeq(modules) /\ IsSeq(module) /\ IsSeq(submodules) /\ IsSeq(number)
  BY SingleIs
<1>3. IsSeq(sub)
  <2>1. sub \in Seq({"Submodule", "subslotNumber"})
    OBVIOUS
  <2> HIDE DEF sub
  <2>2. QED
    BY <2>1 DEF IsSeq
<1>4. /\ tree = [i \in DOMAIN list |-> tree[i]]
      /\ \A i \in DOMAIN list : tree[i] = <<sub, list[i]["subslotNumber"]>>
  BY DEF SubslotsTree
<1>5. /\ all = [i \in DOMAIN list |-> all[i]]
      /\ \A i \in DOMAIN list : all[i] = <<place \o sub5, list[i]["subslotNumber"]>>
  OBVIOUS
<1>6. SlotTree(slot) = At(module, one \o deep)
  BY Zenon DEF SlotTree
<1> HIDE DEF modules, module, submodules, number, number2, number3, sub, sub3, sub4, sub5,
             tree, all, value
<1>7. HavePlaces(tree) /\ IsSeq(tree) /\ Len(tree) = Len(list) /\ DOMAIN tree = DOMAIN list
  BY <1>4, MappedIs, SubslotsTold DEF tree
<1>8. IsSeq(all) /\ Len(all) = Len(list) /\ DOMAIN all = DOMAIN list
  BY <1>5, MappedIs
<1>9. HavePlaces(one)
  BY <1>2, AtOne
<1>10. HavePlaces(deep)
  BY <1>2, <1>7, AtIs
<1> DEFINE where == place \o (modules \o module)
<1>11. IsSeq(modules \o module)
  BY <1>2, JoinOf
<1>12. IsSeq(where)
  BY <1>11, JoinOf
<1>13. HavePlaces(one \o deep)
  BY <1>2, <1>9, <1>10, AtJoined
<1>14. At(place, At(modules, At(module, one \o deep))) = At(where, one \o deep)
  <2> DEFINE both == one \o deep
             mm == modules \o module
  <2>1. HavePlaces(both)
    BY <1>13
  <2> HIDE DEF both, mm
  <2>2. At(modules, At(module, both)) = At(mm, both)
    BY <1>2, <2>1, AtAgain DEF mm
  <2>3. At(place, At(mm, both)) = At(place \o mm, both)
    BY <1>11, <2>1, AtAgain DEF mm
  <2>4. QED
    BY <2>2, <2>3 DEF both, mm
<1>15. At(where, one \o deep) = At(where, one) \o At(where, deep)
  <2> HIDE DEF where, one, deep
  <2>1. QED
    BY <1>9, <1>10, <1>12, AtJoined
<1>16. At(where, one) = << <<where \o number, value>> >>
  <2> HIDE DEF where
  <2>1. QED
    BY <1>2, <1>12, AtOne
<1>17. where \o number = place \o number3
  <2>1. InPlace(place, modules, module, number)
    BY <1>2, PlaceJoined
  <2>2. where \o number = place \o (modules \o (module \o number))
    BY <2>1, Zenon DEF InPlace
  <2>3. QED
    BY <1>1, <2>2
<1>18. At(where, deep) = At(where \o submodules, tree)
  <2> HIDE DEF where
  <2>1. QED
    BY <1>2, <1>7, <1>12, AtAgain
<1> DEFINE there == where \o submodules
<1>19. IsSeq(there)
  <2> HIDE DEF where
  <2>1. QED
    BY <1>2, <1>12, JoinOf
<1>20. there \o sub = place \o sub5
  <2>1. DeepInPlace(place, modules, module, submodules, sub)
    BY <1>2, <1>3, DeepPlaceJoined
  <2>2. there \o sub = place \o (modules \o (module \o (submodules \o sub)))
    BY <2>1, Zenon DEF DeepInPlace
  <2>3. QED
    BY <1>1, <2>2
<1> HIDE DEF there
<1>21. At(there, tree) = all
  <2> DEFINE at == At(there, tree)
  <2>1. IsAt(at, there, tree) /\ IsSeq(at)
    BY <1>7, <1>19, AtIs
  <2> HIDE DEF at
  <2>2. Len(at) = Len(list)
    BY <1>7, <2>1 DEF IsAt
  <2>3. ASSUME NEW i \in DOMAIN list PROVE at[i] = all[i]
    <3>1. at[i] = <<there \o tree[i][1], tree[i][2]>>
      BY <1>7, <2>1 DEF IsAt
    <3>2. tree[i] = <<sub, list[i]["subslotNumber"]>>
      BY <1>4
    <3>3. tree[i][1] = sub /\ tree[i][2] = list[i]["subslotNumber"]
      BY <3>2
    <3>4. QED
      BY <1>5, <1>20, <3>1, <3>3
  <2>4. DOMAIN list = 1..Len(list)
    BY SeqIs
  <2>5. at = all
    BY <1>8, <2>1, <2>2, <2>3, <2>4, SameSeq
  <2>6. QED
    BY <2>5 DEF at
<1>22. At(place, At(modules, SlotTree(slot))) = << <<place \o number3, value>> >> \o all
  <2> HIDE DEF where, one, deep
  <2>1. QED
    BY <1>6, <1>14, <1>15, <1>16, <1>17, <1>18, <1>21, Zenon DEF there
<1>23. QED
  BY <1>22 DEF modules, number3, value, all, sub5

\* What TreeOf has of a slot.
SlotOfTree(slot) ==
  << << <<"DeviceCollection", "Device">> \o <<"Modules", "Module", "slotNumber">>,
        slot["slotNumber"]>> >>
    \o [i \in DOMAIN slot.subslotList |->
          << <<"DeviceCollection", "Device">>
               \o <<"Modules", "Module", "Submodules", "Submodule", "subslotNumber">>,
             slot.subslotList[i]["subslotNumber"]>>]

LEMMA DeviceInFile ==
  ASSUME NEW device, HasTree(device)
  PROVE  /\ At(<<"DeviceCollection">>, DeviceTree(device)) = TreeOf(device)
         /\ HavePlaces(DeviceTree(device))
<1> DEFINE slots == device.slotList
           value == device["ip-address"]
           collection == <<"DeviceCollection">>
           in == <<"Device">>
           place == <<"DeviceCollection", "Device">>
           modules == <<"Modules">>
           ip == <<"ip-address">>
           one == << <<ip, value>> >>
           trees == SlotTrees(device)
           flat == FlattenSeq(trees)
           inside == At(modules, flat)
           once == [i \in DOMAIN trees |-> At(modules, trees[i])]
           twice == [i \in DOMAIN once |-> At(place, once[i])]
           all == [i \in DOMAIN slots |-> SlotOfTree(slots[i])]
<1>1. TreeOf(device) = << <<place \o ip, value>> >> \o FlattenSeq(all)
  BY DEF TreeOf, SlotOfTree
<1>2. DeviceTree(device) = At(in, one \o inside)
  BY Zenon DEF DeviceTree
<1>3. collection \o in = place
  BY TwoAre, Zenon
<1>4. IsSeq(collection) /\ IsSeq(in) /\ IsSeq(modules) /\ IsSeq(ip)
  BY SingleIs
<1>5. ASSUME NEW slot, IsSeq(slot.subslotList)
      PROVE  At(place, At(modules, SlotTree(slot))) = SlotOfTree(slot)
  <2>1. IsSeq(place)
    <3>1. IsSeq(collection \o in)
      BY <1>4, JoinOf
    <3>2. QED
      BY <1>3, <3>1
  <2> DEFINE where == <<"DeviceCollection", "Device">>
  <2>2. IsSeq(where)
    BY <2>1
  <2> HIDE DEF where
  <2>3. At(where, At(<<"Modules">>, SlotTree(slot)))
           = << <<where \o <<"Modules", "Module", "slotNumber">>, slot["slotNumber"]>> >>
               \o [i \in DOMAIN slot.subslotList |->
                     <<where \o <<"Modules", "Module", "Submodules", "Submodule",
                                  "subslotNumber">>,
                       slot.subslotList[i]["subslotNumber"]>>]
    BY <1>5, <2>2, SlotInFile
  <2>4. QED
    BY <2>3, Zenon DEF where, SlotOfTree
<1>6. /\ once = [i \in DOMAIN trees |-> once[i]]
      /\ DOMAIN once = DOMAIN trees
      /\ \A i \in DOMAIN trees : once[i] = At(modules, trees[i])
  OBVIOUS
<1>7. /\ DOMAIN twice = DOMAIN once
      /\ \A i \in DOMAIN once : twice[i] = At(place, once[i])
      /\ twice = [i \in DOMAIN once |-> At(place, once[i])]
      /\ twice = [i \in DOMAIN once |-> twice[i]]
  OBVIOUS
<1>8. /\ DOMAIN all = DOMAIN slots
      /\ \A i \in DOMAIN slots : all[i] = SlotOfTree(slots[i])
      /\ all = [i \in DOMAIN slots |-> all[i]]
  OBVIOUS
<1>9. once = [i \in DOMAIN trees |-> At(modules, trees[i])]
  OBVIOUS
<1> HIDE DEF collection, in, place, modules, ip, value, all, once, twice
<1>10. /\ IsSeq(trees) /\ Len(trees) = Len(slots) /\ DOMAIN trees = DOMAIN slots
       /\ \A i \in DOMAIN slots : trees[i] = SlotTree(slots[i])
  BY SlotTreesAre
<1>11. IsSeq(place)
  <2>1. IsSeq(collection \o in)
    BY <1>4, JoinOf
  <2>2. QED
    BY <1>3, <2>1
<1>12. HavePlaces(one) /\ At(place, one) = << <<place \o ip, value>> >>
  BY <1>4, <1>11, AtOne
<1> HIDE DEF trees, one
<1>13. \A i \in DOMAIN slots : IsSeq(slots[i].subslotList)
  BY DEF HasTree
<1>14. \A i \in DOMAIN trees : HavePlaces(trees[i])
  BY <1>10, <1>13, SlotTold
<1>15. HavePlaces(flat) /\ inside = FlattenSeq(once)
  BY <1>4, <1>9, <1>10, <1>14, AtJoining
<1>16. IsSeq(once) /\ Len(once) = Len(trees)
  BY <1>6, <1>10, MappedIs
<1>17. \A i \in DOMAIN once : HavePlaces(once[i])
  BY <1>4, <1>6, <1>14, AtIs
<1>18. HavePlaces(FlattenSeq(once)) /\ At(place, FlattenSeq(once)) = FlattenSeq(twice)
  BY <1>7, <1>11, <1>16, <1>17, AtJoining
<1>19. twice = all
  <2>1. IsSeq(twice) /\ Len(twice) = Len(once)
    BY <1>7, <1>16, MappedIs
  <2>2. IsSeq(all) /\ Len(all) = Len(slots)
    BY <1>8, <1>10, MappedIs DEF HasTree
  <2>3. ASSUME NEW i \in DOMAIN slots PROVE twice[i] = all[i]
    <3>1. once[i] = At(modules, SlotTree(slots[i]))
      BY <1>6, <1>10
    <3>2. twice[i] = At(place, At(modules, SlotTree(slots[i])))
      BY <1>6, <1>7, <1>10, <3>1
    <3>3. At(place, At(modules, SlotTree(slots[i]))) = SlotOfTree(slots[i])
      BY <1>5, <1>13 DEF place, modules
    <3>4. QED
      BY <1>8, <3>2, <3>3
  <2>4. DOMAIN slots = 1..Len(slots)
    BY SeqIs DEF HasTree
  <2>5. QED
    BY <1>10, <1>16, <2>1, <2>2, <2>3, <2>4, SameSeq
<1> HIDE DEF inside
<1>20. HavePlaces(inside) /\ At(place, inside) = FlattenSeq(all)
  BY <1>15, <1>18, <1>19
<1> DEFINE both == one \o inside
<1>21. HavePlaces(both) /\ At(place, both) = At(place, one) \o At(place, inside)
  BY <1>11, <1>12, <1>20, AtJoined
<1> HIDE DEF both
<1>22. At(collection, At(in, both)) = At(collection \o in, both)
  BY <1>4, <1>21, AtAgain
<1>23. HavePlaces(At(in, both))
  BY <1>4, <1>21, AtIs
<1>24. DeviceTree(device) = At(in, both)
  BY <1>2 DEF both
<1>25. At(collection, DeviceTree(device)) = TreeOf(device)
  BY <1>1, <1>3, <1>12, <1>20, <1>21, <1>22, <1>24
<1>26. QED
  BY <1>23, <1>24, <1>25 DEF collection

-----------------------------------------------------------------------------
(* The file as a reader finds it.                                           *)

DocumentOf(text) == (TopOfFile \o text) \o <<Close("DeviceCollection")>>

\* The first token of the file tells nothing.
LEMMA TopTold == Tells(<< <<"xml">> >>, <<>>)
<1> DEFINE token == <<"xml">>
<1>1. token[1] = "xml"
  OBVIOUS
<1> HIDE DEF token
<1>2. ASSUME NEW place, NEW read, IsSeq(place), IsSeq(read)
      PROVE  ReadOn([place |-> place, fields |-> read], <<token>>)
               = [place |-> place, fields |-> read \o At(place, <<>>)]
  <2> DEFINE before == [place |-> place, fields |-> read]
  <2>1. ReadOn(before, <<token>>) = ReadToken(before, token)
    BY ReadOne
  <2>2. ReadToken(before, token) = before
    BY <1>1 DEF ReadToken
  <2>3. At(place, <<>>) = <<>> /\ read \o <<>> = read
    BY <1>2, NoneJoined DEF At
  <2>4. QED
    BY <2>1, <2>2, <2>3
<1>3. Tells(<<token>>, <<>>)
  BY <1>2, SingleIs, NothingTold DEF Tells
<1>4. QED
  BY <1>3 DEF token

LEMMA ReaderIs ==
  ASSUME NEW file
  PROVE  Reader(file) = ReadOn([place |-> <<>>, fields |-> <<>>], file)
  BY DEF Reader, ReadOn, ReadLoop!FoldedFrom, FoldLeft,
         ReadLoop!FoldLeft, MapThenFoldSet,
         ReadLoop!MapThenFoldSet, Max, ReadLoop!Max

LEMMA DocumentRead ==
  ASSUME NEW text, NEW fields, Tells(text, fields)
  PROVE  Reader(DocumentOf(text))
           = [place |-> <<>>, fields |-> At(<<"DeviceCollection">>, fields)]
<1> DEFINE top == << <<"xml">> >>
           open == <<Open("DeviceCollection")>>
           close == <<Close("DeviceCollection")>>
           element == Element("DeviceCollection", text)
           told == At(<<"DeviceCollection">>, fields)
           none == <<>>
<1>1. Tells(top, <<>>)
  BY TopTold
<1>2. Tells(element, told)
  BY ElementTold
<1>3. TopOfFile = top \o open
  <2>1. << <<"xml">> >> \o <<Open("DeviceCollection")>>
          = << <<"xml">>, Open("DeviceCollection")>>
    BY TwoAre
  <2>2. QED
    BY <2>1, Zenon DEF TopOfFile
<1>4. IsSeq(top) /\ IsSeq(open) /\ IsSeq(close) /\ IsSeq(text) /\ IsSeq(none)
  BY SingleIs, NoneIs DEF Tells
<1>5. element = (open \o text) \o close
  BY Zenon DEF Element
<1>6. DocumentOf(text) = (TopOfFile \o text) \o close
  BY Zenon DEF DocumentOf
<1>7. IsSeq(told)
  BY <1>2 DEF Tells, HavePlaces
<1>8. At(none, told) = told /\ none \o told = told
  <2> DEFINE place == <<"DeviceCollection">>
  <2>1. IsSeq(place)
    BY SingleIs
  <2> HIDE DEF place, none
  <2>2. At(none, At(place, fields)) = At(none \o place, fields)
    BY <1>4, <2>1, AtAgain DEF Tells
  <2>3. none \o place = place
    BY <2>1, NoneJoined DEF none
  <2>4. At(none, At(place, fields)) = At(place, fields)
    BY <2>2, <2>3
  <2>5. none \o told = told
    BY <1>7, NoneJoined DEF none
  <2>6. QED
    BY <2>4, <2>5 DEF place
<1> HIDE DEF top, open, close, element, told
<1>9. DocumentOf(text) = top \o element
  <2>1. Joined(Joined(Joined(top, open), text), close)
          = Joined(top, Joined(Joined(open, text), close))
    <3>1. Joined(Joined(top, open), text) = Joined(top, Joined(open, text))
      BY <1>4, JoinedAgain
    <3>2. Joined(Joined(top, Joined(open, text)), close)
            = Joined(top, Joined(Joined(open, text), close))
      BY <1>4, JoinedIs, JoinedAgain
    <3>3. QED
      BY <3>1, <3>2
  <2>2. ((top \o open) \o text) \o close = top \o ((open \o text) \o close)
    BY <2>1, Zenon DEF Joined
  <2>3. QED
    BY <1>3, <1>5, <1>6, <2>2
<1>10. Tells(DocumentOf(text), told)
  BY <1>1, <1>2, <1>9, AndNothing
<1>11. ReadOn([place |-> none, fields |-> none], DocumentOf(text))
         = [place |-> none, fields |-> none \o At(none, told)]
  BY <1>4, <1>10 DEF Tells
<1>12. QED
  BY <1>8, <1>11, ReaderIs DEF told

-----------------------------------------------------------------------------
(* What a call writes.                                                      *)

\* The first tokens of a file, and those behind its last.
LEMMA Cut ==
  ASSUME NEW h, IsSeq(h), NEW o, IsSeq(o)
  PROVE  /\ SubSeq(h \o o, 1, Len(h)) = h
         /\ \A m \in Nat : m > Len(h) + Len(o) =>
              SubSeq(h \o o, m, Len(h \o o)) = <<>>
<1>1. PICK H : h \in Seq(H)
  BY DEF IsSeq
<1>2. PICK O : o \in Seq(O)
  BY DEF IsSeq
<1> DEFINE R == H \cup O
           s == h \o o
           n == Len(h)
           first == SubSeq(s, 1, n)
<1>3. h \in Seq(R) /\ o \in Seq(R)
  BY <1>1, <1>2
<1> HIDE DEF R
<1>4. s \in Seq(R) /\ Len(s) = n + Len(o) /\ n \in Nat /\ Len(o) \in Nat
  BY <1>3
<1>5. \A i \in 1..n : s[i] = h[i]
  BY <1>3
<1> HIDE DEF s, n
<1>6. first \in Seq(R) /\ Len(first) = n /\ \A i \in 1..n : first[i] = s[i]
  BY <1>4
<1> HIDE DEF first
<1>7. first = h
  BY <1>3, <1>5, <1>6, SameSeq DEF IsSeq, n
<1>8. ASSUME NEW m \in Nat, m > n + Len(o) PROVE SubSeq(s, m, Len(s)) = <<>>
  BY <1>4, <1>8
<1>9. QED
  BY <1>7, <1>8 DEF first, s, n

LEMMA OverwriteIs ==
  ASSUME NEW h, IsSeq(h), NEW o, IsSeq(o), NEW text, IsSeq(text), Len(o) <= Len(text)
  PROVE  Overwrite(h \o o, Len(h), text) = h \o text
<1> DEFINE s == h \o o
           n == Len(h)
           m == n + Len(text) + 1
           t == h \o text
<1>1. n \in Nat /\ Len(o) \in Nat /\ Len(text) \in Nat
  BY SeqIs
<1>2. SubSeq(s, 1, n) = h
  BY Cut
<1>3. m \in Nat /\ m > Len(h) + Len(o)
  BY <1>1
<1>4. SubSeq(s, m, Len(s)) = <<>>
  BY <1>3, Cut
<1>5. IsSeq(t)
  BY JoinOf
<1>6. Overwrite(s, n, text) = (SubSeq(s, 1, n) \o text) \o SubSeq(s, m, Len(s))
  BY Zenon DEF Overwrite
<1> HIDE DEF s, n, m
<1>7. t \o <<>> = t
  BY <1>5, NoneJoined
<1>8. Overwrite(s, n, text) = t
  BY <1>2, <1>4, <1>6, <1>7
<1>9. QED
  BY <1>8 DEF s, n

\* The disk when the devices with this text have been written.
DiskWith(text) ==
  [exists |-> TRUE, file |-> DocumentOf(text), endpos |-> Len(TopOfFile \o text),
   writable |-> TRUE]

LEMMA TopIs == IsSeq(TopOfFile)
<1>1. TopOfFile \in Seq({<<"xml">>, Open("DeviceCollection")})
  BY DEF TopOfFile
<1>2. QED
  BY <1>1 DEF IsSeq

LEMMA WriteFirst ==
  ASSUME NEW device, HasTree(device)
  PROVE  WriteNext(NoFile, device) = DiskWith(DeviceText(device, "gateway"))
<1> DEFINE text == DeviceText(device, "gateway")
           close == <<Close("DeviceCollection")>>
           more == text \o close
           top == TopOfFile
           from == [exists |-> TRUE, file |-> TopOfFile, endpos |-> Len(TopOfFile),
                    writable |-> TRUE]
<1>1. IsSeq(text) /\ IsSeq(close) /\ IsSeq(top)
  BY TopIs, SingleIs, DeviceTold DEF Tells
<1>2. IsSeq(more)
  BY <1>1, JoinOf
<1>3. WriteNext(NoFile, device)
        = [from EXCEPT !.file = Overwrite(top, Len(top), more),
                       !.endpos = Len(top) + Len(text)]
  <2> DEFINE made == IF NoFile.exists THEN NoFile
                    ELSE [NoFile EXCEPT !.exists = TRUE, !.file = TopOfFile,
                                        !.endpos = Len(TopOfFile)]
             size == Len(text)
             put == Overwrite(top, Len(top), more)
  <2>1. made = from /\ NoFile.writable
    BY DEF NoFile
  <2>2. WriteNext(NoFile, device)
          = IF ~NoFile.writable THEN NoFile
            ELSE [made EXCEPT !.file = Overwrite(made.file, made.endpos, more),
                              !.endpos = made.endpos + size]
    BY Zenon DEF WriteNext, WriteToFile, WritePosition
  <2> HIDE DEF made, more, size
  <2>3. WriteNext(NoFile, device)
          = [from EXCEPT !.file = Overwrite(from.file, from.endpos, more),
                         !.endpos = from.endpos + size]
    BY <2>1, <2>2
  <2>4. Overwrite(from.file, from.endpos, more) = put /\ from.endpos + size = Len(top) + size
    OBVIOUS
  <2> HIDE DEF from, put
  <2>5. WriteNext(NoFile, device) = [from EXCEPT !.file = put, !.endpos = Len(top) + size]
    BY <2>3, <2>4, Zenon
  <2>6. QED
    BY <2>5 DEF put, size
<1> HIDE DEF text, close, top
<1>4. Overwrite(top, Len(top), more) = top \o more
  <2>1. top \o <<>> = top
    BY <1>1, NoneJoined
  <2>2. IsSeq(<<>>) /\ Len(<<>>) = 0 /\ Len(more) \in Nat
    BY <1>2, NoneIs, SeqIs
  <2> HIDE DEF more
  <2>3. Len(<<>>) <= Len(more)
    BY <2>2
  <2>4. Overwrite(top \o <<>>, Len(top), more) = top \o more
    BY <1>1, <1>2, <2>2, <2>3, OverwriteIs
  <2>5. QED
    BY <2>1, <2>4
<1>5. top \o more = (top \o text) \o close
  <2>1. Joined(Joined(top, text), close) = Joined(top, Joined(text, close))
    BY <1>1, JoinedAgain
  <2>2. QED
    BY <2>1, Zenon DEF Joined
<1>6. Len(top \o text) = Len(top) + Len(text)
  BY <1>1, JoinOf DEF Joins
<1>7. WriteNext(NoFile, device)
        = [exists |-> TRUE, file |-> (top \o text) \o close, endpos |-> Len(top \o text),
           writable |-> TRUE]
  BY <1>3, <1>4, <1>5, <1>6
<1>8. QED
  BY <1>7 DEF DiskWith, DocumentOf, text, close, top

LEMMA WriteMore ==
  ASSUME NEW before, IsSeq(before), NEW device, HasTree(device)
  PROVE  WriteNext(DiskWith(before), device)
           = DiskWith(before \o DeviceText(device, "gateway"))
<1> DEFINE text == DeviceText(device, "gateway")
           close == <<Close("DeviceCollection")>>
           more == text \o close
           head == TopOfFile \o before
           file == head \o close
           from == [exists |-> TRUE, file |-> file, endpos |-> Len(head), writable |-> TRUE]
<1>1. IsSeq(text) /\ IsSeq(close) /\ IsSeq(TopOfFile)
  BY TopIs, SingleIs, DeviceTold DEF Tells
<1>2. IsSeq(more) /\ IsSeq(head)
  BY <1>1, JoinOf
<1>3. DiskWith(before) = from
  BY Zenon DEF DiskWith, DocumentOf
<1>4. Len(close) <= Len(more)
  <2>1. Joins(more, text, close) /\ Len(text) \in Nat /\ Len(close) \in Nat
    BY <1>1, JoinOf, SeqIs
  <2> HIDE DEF more, text, close
  <2>2. QED
    BY <2>1 DEF Joins
<1> HIDE DEF file, text, close
<1>5. WriteNext(from, device)
        = [from EXCEPT !.file = Overwrite(file, Len(head), more),
                       !.endpos = Len(head) + Len(text)]
  BY DEF WriteNext, WriteToFile, WritePosition, text, close
<1>6. Overwrite(file, Len(head), more) = head \o more
  <2> HIDE DEF head, more
  <2>1. QED
    BY <1>1, <1>2, <1>4, OverwriteIs DEF file
<1> DEFINE top == TopOfFile
           both == before \o text
<1>7. IsSeq(both)
  BY <1>1, JoinOf
<1>8. head \o text = top \o both
  <2>1. Joined(Joined(top, before), text) = Joined(top, Joined(before, text))
    BY <1>1, JoinedAgain
  <2>2. QED
    BY <2>1, Zenon DEF Joined
<1>9. head \o more = (top \o both) \o close
  <2>1. Joined(Joined(Joined(top, before), text), close)
          = Joined(Joined(top, before), Joined(text, close))
    BY <1>1, JoinedIs, JoinedAgain
  <2>2. (head \o text) \o close = head \o more
    BY <2>1, Zenon DEF Joined
  <2>3. QED
    BY <1>8, <2>2
<1>10. Len(head \o text) = Len(head) + Len(text)
  BY <1>1, <1>2, JoinOf DEF Joins
<1> HIDE DEF head, more, both
<1>11. WriteNext(from, device)
         = [exists |-> TRUE, file |-> (top \o both) \o close, endpos |-> Len(top \o both),
            writable |-> TRUE]
  BY <1>5, <1>6, <1>8, <1>9, <1>10
<1>12. QED
  BY <1>3, <1>11 DEF DiskWith, DocumentOf, text, close, both

-----------------------------------------------------------------------------
(* What the calls of a run write.                                           *)

HaveTrees(devices) == IsSeq(devices) /\ \A i \in DOMAIN devices : HasTree(devices[i])

TextsOf(devices) == [i \in DOMAIN devices |-> DeviceText(devices[i], "gateway")]

LEMMA WrittenIs ==
  ASSUME NEW disk, NEW devices
  PROVE  Written(disk, devices) = FileLoop!FoldedFrom(disk, devices)
  BY DEF Written, FileLoop!FoldedFrom, FoldLeft,
         FileLoop!FoldLeft, MapThenFoldSet,
         FileLoop!MapThenFoldSet, Max, FileLoop!Max

\* The disk from call to call.
Writes(state, disk, devices) ==
  /\ state[0] = disk
  /\ \A k \in 0..(Len(devices) - 1) : state[k + 1] = WriteNext(state[k], devices[k + 1])
  /\ Written(disk, devices) = state[Len(devices)]

LEMMA WriteSteps ==
  ASSUME NEW disk, NEW devices, IsSeq(devices)
  PROVE  \E state : Writes(state, disk, devices)
<1>1. PICK R : devices \in Seq(R)
  BY DEF IsSeq
<1>2. PICK state : FileLoop!StatesOf(state, disk, devices)
  BY <1>1, FileLoop!FoldStepsFrom
<1>3. Writes(state, disk, devices)
  BY <1>2, WrittenIs DEF Writes, FileLoop!StatesOf
<1>4. QED
  BY <1>3

LEMMA NoneWritten ==
  ASSUME NEW disk
  PROVE  Written(disk, <<>>) = disk
  BY WrittenIs, FileLoop!FoldOfOne

(***************************************************************************)
(* A file that can not be opened: all stays (fileHandler.c:148-171).        *)
(***************************************************************************)
LEMMA FileStays ==
  ASSUME NEW disk, ~disk.writable, NEW devices, IsSeq(devices)
  PROVE  Written(disk, devices) = disk
<1> DEFINE n == Len(devices)
<1>1. n \in Nat
  BY SeqIs
<1>2. PICK state : Writes(state, disk, devices)
  BY WriteSteps
<1> DEFINE S == {k \in Nat : state[k] = disk}
<1>3. 0 \in S
  BY <1>2 DEF Writes
<1>4. ASSUME NEW k \in 0..(n - 1), k \in S PROVE k + 1 \in S
  <2>1. WriteNext(disk, devices[k + 1]) = disk
    BY DEF WriteNext, WriteToFile
  <2>2. state[k + 1] = disk
    BY <1>2, <1>4, <2>1 DEF Writes
  <2>3. QED
    BY <2>2
<1> HIDE DEF S, n
<1>5. n \in S
  BY <1>1, <1>3, <1>4, ReadLoop!Induction
<1>6. QED
  BY <1>2, <1>5 DEF S, n, Writes

LEMMA TextsAre ==
  ASSUME NEW devices, HaveTrees(devices)
  PROVE  /\ AllSeqs(TextsOf(devices)) /\ Len(TextsOf(devices)) = Len(devices)
         /\ DOMAIN TextsOf(devices) = DOMAIN devices
         /\ \A i \in DOMAIN devices :
              TextsOf(devices)[i] = DeviceText(devices[i], "gateway")
<1> DEFINE texts == TextsOf(devices)
<1>1. /\ texts = [i \in DOMAIN devices |-> texts[i]]
      /\ \A i \in DOMAIN devices : texts[i] = DeviceText(devices[i], "gateway")
  BY DEF TextsOf
<1> HIDE DEF texts
<1>2. IsSeq(texts) /\ Len(texts) = Len(devices) /\ DOMAIN texts = DOMAIN devices
  BY <1>1, MappedIs DEF HaveTrees
<1>3. ASSUME NEW i \in DOMAIN devices PROVE IsSeq(texts[i])
  <2>1. HasTree(devices[i])
    BY DEF HaveTrees
  <2>2. Tells(DeviceText(devices[i], "gateway"), DeviceTree(devices[i]))
    BY <2>1, DeviceTold
  <2>3. QED
    BY <1>1, <2>2 DEF Tells
<1>4. AllSeqs(texts)
  BY <1>2, <1>3 DEF AllSeqs
<1>5. QED
  BY <1>1, <1>2, <1>4 DEF texts

\* The first run leaves the devices' texts in the file, one behind the other.
LEMMA FirstRun ==
  ASSUME NEW devices, HaveTrees(devices), devices # <<>>
  PROVE  Written(NoFile, devices) = DiskWith(FlattenSeq(TextsOf(devices)))
<1> DEFINE n == Len(devices)
           texts == TextsOf(devices)
<1>1. /\ IsSeq(devices) /\ n \in Nat /\ DOMAIN devices = 1..n
      /\ \A i \in 1..n : HasTree(devices[i])
  BY SeqIs DEF HaveTrees
<1>2. n # 0
  BY <1>1 DEF IsSeq
<1>3. /\ AllSeqs(texts) /\ Len(texts) = n
      /\ \A i \in DOMAIN devices : texts[i] = DeviceText(devices[i], "gateway")
  BY TextsAre
<1>4. PICK state : Writes(state, NoFile, devices)
  BY <1>1, WriteSteps
<1> HIDE DEF texts
<1>5. PICK joined : Joining(joined, texts)
  BY <1>3, PartsJoin
<1> DEFINE S == {k \in Nat : /\ IsSeq(joined[k])
                             /\ state[k] = IF k = 0 THEN NoFile ELSE DiskWith(joined[k])}
<1>6. 0 \in S
  BY <1>4, <1>5, NoneIs DEF Writes, Joining
<1>7. ASSUME NEW k \in 0..(n - 1), k \in S PROVE k + 1 \in S
  <2> DEFINE device == devices[k + 1]
             text == DeviceText(device, "gateway")
             before == joined[k]
  <2>1. k + 1 \in 1..n /\ k + 1 # 0 /\ k + 1 \in Nat
    BY <1>1
  <2>2. HasTree(device) /\ texts[k + 1] = text
    BY <1>1, <1>3, <2>1
  <2>3. IsSeq(before)
    BY <1>7
  <2>4. state[k] = IF k = 0 THEN NoFile ELSE DiskWith(before)
    BY <1>7
  <2>5. IsSeq(text)
    BY <2>2, DeviceTold DEF Tells
  <2>6. joined[k + 1] = before \o text
    BY <1>3, <1>5, <2>2 DEF Joining
  <2>7. state[k + 1] = WriteNext(state[k], device)
    BY <1>4 DEF Writes
  <2> HIDE DEF device, text, before
  <2>8. IsSeq(before \o text)
    BY <2>3, <2>5, JoinOf
  <2>9. state[k + 1] = DiskWith(before \o text)
    <3>1. CASE k = 0
      <4>1. before = <<>>
        BY <1>5, <3>1 DEF Joining, before
      <4>2. <<>> \o text = text
        BY <2>5, NoneJoined
      <4>3. WriteNext(NoFile, device) = DiskWith(text)
        BY <2>2, WriteFirst DEF text
      <4>4. QED
        BY <2>4, <2>7, <3>1, <4>1, <4>2, <4>3
    <3>2. CASE k # 0
      <4>1. WriteNext(DiskWith(before), device) = DiskWith(before \o text)
        BY <2>2, <2>3, WriteMore DEF text
      <4>2. QED
        BY <2>4, <2>7, <3>2, <4>1
    <3>3. QED
      BY <3>1, <3>2
  <2>10. IsSeq(joined[k + 1]) /\ state[k + 1] = DiskWith(joined[k + 1])
    BY <2>6, <2>8, <2>9, Zenon
  <2>11. QED
    BY <2>1, <2>10
<1> HIDE DEF S, n
<1>8. n \in S
  BY <1>1, <1>6, <1>7, ReadLoop!Induction
<1>9. state[n] = DiskWith(joined[n])
  BY <1>2, <1>8 DEF S
<1>10. QED
  BY <1>3, <1>4, <1>5, <1>9 DEF n, texts, Writes, Joining

LEMMA HeadIs ==
  ASSUME NEW s, IsSeq(s), Len(s) >= 1
  PROVE  Head(s) = s[1]
  BY DEF IsSeq

LEMMA DocumentBegins ==
  ASSUME NEW text, IsSeq(text)
  PROVE  /\ IsSeq(DocumentOf(text)) /\ Len(DocumentOf(text)) >= 1
         /\ Head(DocumentOf(text)) = Head(TopOfFile) /\ Head(TopOfFile) = <<"xml">>
<1> DEFINE close == <<Close("DeviceCollection")>>
           top == TopOfFile
           head == top \o text
           all == head \o close
<1>1. IsSeq(top) /\ IsSeq(close) /\ Len(close) = 1
  BY TopIs, SingleIs
<1>2. top[1] = <<"xml">> /\ Len(top) = 2
  BY DEF TopOfFile
<1>3. all = DocumentOf(text)
  BY Zenon DEF DocumentOf
<1> HIDE DEF close, top
<1>4. Joins(head, top, text) /\ IsSeq(head) /\ Len(text) \in Nat
  BY <1>1, JoinOf, SeqIs
<1> HIDE DEF head
<1>5. Joins(all, head, close) /\ IsSeq(all)
  BY <1>1, <1>4, JoinOf
<1> HIDE DEF all
<1>6. Len(all) >= 1 /\ all[1] = <<"xml">>
  BY <1>1, <1>2, <1>4, <1>5 DEF Joins
<1>7. Head(all) = all[1] /\ Head(top) = top[1]
  BY <1>1, <1>2, <1>5, <1>6, HeadIs
<1>8. QED
  BY <1>2, <1>3, <1>5, <1>6, <1>7 DEF top

\* The file is a document of these devices.
IsDocument(file, devices) ==
  /\ Head(file) = Head(TopOfFile)
  /\ Reader(file).place = <<>>
  /\ Reader(file).fields = FlattenSeq([i \in DOMAIN devices |-> TreeOf(devices[i])])

(***************************************************************************)
(* Whatever devices the first run has written, one or more, in as many      *)
(* calls: a reader finds one document, all devices in order, and in each    *)
(* its slots and their subslots (fileHandler.c:172, "delete the last line   *)
(* or start writing in the line before").                                   *)
(***************************************************************************)
THEOREM FileIsDocument ==
  ASSUME NEW devices, HaveTrees(devices), devices # <<>>
  PROVE  IsDocument(Written(NoFile, devices).file, devices)
<1> DEFINE texts == TextsOf(devices)
           trees == [i \in DOMAIN devices |-> DeviceTree(devices[i])]
           shown == [i \in DOMAIN devices |-> TreeOf(devices[i])]
           collection == <<"DeviceCollection">>
           placed == [i \in DOMAIN trees |-> At(collection, trees[i])]
           text == FlattenSeq(texts)
<1>1. /\ trees = [i \in DOMAIN devices |-> trees[i]]
      /\ \A i \in DOMAIN devices : trees[i] = DeviceTree(devices[i])
  OBVIOUS
<1>2. /\ shown = [i \in DOMAIN devices |-> shown[i]]
      /\ \A i \in DOMAIN devices : shown[i] = TreeOf(devices[i])
  OBVIOUS
<1>3. /\ placed = [i \in DOMAIN trees |-> At(collection, trees[i])]
      /\ placed = [i \in DOMAIN trees |-> placed[i]]
      /\ \A i \in DOMAIN trees : placed[i] = At(collection, trees[i])
  OBVIOUS
<1>4. IsSeq(collection)
  BY SingleIs
<1> HIDE DEF trees, shown, placed
<1>5. IsSeq(devices) /\ \A i \in DOMAIN devices : HasTree(devices[i])
  BY DEF HaveTrees
<1>6. IsSeq(trees) /\ Len(trees) = Len(devices) /\ DOMAIN trees = DOMAIN devices
  BY <1>1, <1>5, MappedIs
<1>7. IsSeq(shown) /\ Len(shown) = Len(devices)
  BY <1>2, <1>5, MappedIs
<1>8. IsSeq(placed) /\ Len(placed) = Len(devices)
  BY <1>3, <1>6, MappedIs
<1>9. /\ AllSeqs(texts) /\ Len(texts) = Len(devices) /\ DOMAIN texts = DOMAIN devices
      /\ \A i \in DOMAIN devices : texts[i] = DeviceText(devices[i], "gateway")
  BY TextsAre
<1> HIDE DEF texts
<1>10. ASSUME NEW i \in DOMAIN devices
       PROVE  Tells(texts[i], trees[i]) /\ HavePlaces(trees[i]) /\ placed[i] = shown[i]
  <2>1. HasTree(devices[i])
    BY <1>5
  <2>2. /\ Tells(DeviceText(devices[i], "gateway"), DeviceTree(devices[i]))
        /\ HavePlaces(DeviceTree(devices[i]))
        /\ At(collection, DeviceTree(devices[i])) = TreeOf(devices[i])
    BY <2>1, DeviceTold, DeviceInFile
  <2>3. QED
    BY <1>1, <1>2, <1>3, <1>6, <1>9, <2>2
<1>11. Tells(text, FlattenSeq(trees))
  BY <1>6, <1>9, <1>10, PartsTold DEF AllSeqs
<1> HIDE DEF collection
<1>12. At(collection, FlattenSeq(trees)) = FlattenSeq(placed)
  BY <1>3, <1>4, <1>6, <1>10, AtJoining
<1>13. placed = shown
  <2>1. DOMAIN devices = 1..Len(devices)
    BY <1>5, SeqIs
  <2>2. QED
    BY <1>7, <1>8, <1>10, <2>1, SameSeq
<1>14. IsSeq(text)
  BY <1>11 DEF Tells
<1>15. Written(NoFile, devices).file = DocumentOf(text)
  <2>1. Written(NoFile, devices) = DiskWith(text)
    BY FirstRun DEF texts
  <2>2. QED
    BY <2>1 DEF DiskWith
<1> HIDE DEF text
<1>16. Reader(DocumentOf(text)) = [place |-> <<>>, fields |-> At(collection, FlattenSeq(trees))]
  BY <1>11, DocumentRead DEF collection
<1>17. Head(DocumentOf(text)) = Head(TopOfFile)
  BY <1>14, DocumentBegins
<1>18. QED
  BY <1>12, <1>13, <1>15, <1>16, <1>17 DEF shown, IsDocument

LEMMA JoinedPartsIs ==
  ASSUME NEW parts, AllSeqs(parts)
  PROVE  IsSeq(FlattenSeq(parts))
<1> DEFINE n == Len(parts)
<1>1. n \in Nat /\ DOMAIN parts = 1..n
  BY PartsJoin
<1>2. PICK joined : Joining(joined, parts)
  BY PartsJoin
<1> DEFINE S == {k \in Nat : IsSeq(joined[k])}
<1>3. 0 \in S
  BY <1>2, NoneIs DEF Joining
<1>4. ASSUME NEW k \in 0..(n - 1), k \in S PROVE k + 1 \in S
  <2> DEFINE a == joined[k]
             b == parts[k + 1]
  <2>1. IsSeq(a)
    BY <1>4
  <2>2. IsSeq(b)
    BY <1>1 DEF AllSeqs
  <2>3. joined[k + 1] = a \o b
    BY <1>2 DEF Joining
  <2> HIDE DEF a, b
  <2>4. IsSeq(joined[k + 1])
    BY <2>1, <2>2, <2>3, JoinOf
  <2>5. QED
    BY <2>4
<1> HIDE DEF S, n
<1>5. n \in S
  BY <1>1, <1>3, <1>4, ReadLoop!Induction
<1>6. QED
  BY <1>2, <1>5 DEF S, n, Joining

\* A file that a run has begun to write over.
WrittenOver(disk) ==
  /\ disk = [exists |-> TRUE, file |-> disk.file, endpos |-> disk.endpos, writable |-> TRUE]
  /\ IsSeq(disk.file) /\ disk.endpos \in 1..Len(disk.file)
  /\ disk.file[1] = Open("Device")

\* A device over the tokens of a file behind the first p.
LEMMA Rewritten ==
  ASSUME NEW file, IsSeq(file), NEW p \in Nat, p <= Len(file),
         p > 0 => file[1] = Open("Device"), NEW device, HasTree(device)
  PROVE  LET text == DeviceText(device, "gateway")
             new == Overwrite(file, p, text \o <<Close("DeviceCollection")>>)
         IN  IsSeq(new) /\ p + Len(text) \in 1..Len(new) /\ new[1] = Open("Device")
<1> DEFINE text == DeviceText(device, "gateway")
           close == <<Close("DeviceCollection")>>
           more == text \o close
           first == SubSeq(file, 1, p)
           rest == SubSeq(file, p + Len(more) + 1, Len(file))
           both == first \o more
           new == both \o rest
           n == Len(text)
<1>1. IsSeq(text) /\ n >= 1 /\ text[1] = Open("Device")
  BY DeviceTold DEF Tells
<1>2. IsSeq(close) /\ Len(close) = 1
  BY SingleIs
<1>3. Overwrite(file, p, more) = new
  BY Zenon DEF Overwrite
<1> HIDE DEF text, close
<1>4. n \in Nat
  BY <1>1, SeqIs
<1>5. Joins(more, text, close) /\ IsSeq(more)
  BY <1>1, <1>2, JoinOf
<1> HIDE DEF more
<1>6. Len(more) = n + 1 /\ more[1] = Open("Device")
  BY <1>1, <1>2, <1>4, <1>5 DEF Joins
<1>7. PICK R : file \in Seq(R)
  BY DEF IsSeq
<1>8. /\ first \in Seq(R) /\ Len(first) = p
      /\ p > 0 => first[1] = file[1]
  BY <1>7
<1>9. rest \in Seq(R)
  BY <1>4, <1>6, <1>7
<1> HIDE DEF first, rest
<1>10. IsSeq(first) /\ IsSeq(rest) /\ Len(rest) \in Nat
  BY <1>8, <1>9 DEF IsSeq
<1>11. Joins(both, first, more) /\ IsSeq(both)
  BY <1>5, <1>10, JoinOf
<1> HIDE DEF both, n
<1>12. Len(both) = p + n + 1 /\ both[1] = Open("Device")
  <2>1. Len(both) = p + n + 1
    BY <1>4, <1>6, <1>8, <1>11 DEF Joins
  <2>2. CASE p = 0
    BY <1>4, <1>6, <1>8, <1>11, <2>2 DEF Joins
  <2>3. CASE p > 0
    <3>1. 1 \in 1..Len(first)
      BY <1>8, <2>3
    <3>2. both[1] = first[1]
      BY <1>11, <3>1 DEF Joins
    <3>3. QED
      BY <1>8, <2>1, <2>3, <3>2
  <2>4. QED
    BY <2>1, <2>2, <2>3
<1>13. Joins(new, both, rest) /\ IsSeq(new)
  BY <1>10, <1>11, JoinOf
<1> HIDE DEF new
<1>14. Len(new) = p + n + 1 + Len(rest) /\ new[1] = Open("Device")
  BY <1>4, <1>12, <1>13 DEF Joins
<1>15. p + n \in 1..Len(new)
  <2>1. n >= 1
    BY <1>1 DEF n
  <2>2. QED
    BY <1>4, <1>10, <1>14, <2>1
<1>16. QED
  BY <1>3, <1>13, <1>14, <1>15 DEF more, text, close, n

LEMMA Refiled ==
  ASSUME NEW file, NEW end, NEW new, NEW more, NEW disk, NEW after,
         disk = [exists |-> TRUE, file |-> file, endpos |-> end, writable |-> TRUE],
         after = [disk EXCEPT !.file = new, !.endpos = more]
  PROVE  after = [exists |-> TRUE, file |-> new, endpos |-> more, writable |-> TRUE]
  OBVIOUS

LEMMA Restarted ==
  ASSUME NEW file, NEW end, NEW disk, NEW after,
         disk = [exists |-> TRUE, file |-> file, endpos |-> end, writable |-> TRUE],
         after = [disk EXCEPT !.endpos = 0]
  PROVE  after = [exists |-> TRUE, file |-> file, endpos |-> 0, writable |-> TRUE]
  OBVIOUS

LEMMA WrittenAgain ==
  ASSUME NEW file, IsSeq(file), NEW p \in Nat, p <= Len(file),
         p > 0 => file[1] = Open("Device"), NEW device, HasTree(device)
  PROVE  WrittenOver(WriteNext([exists |-> TRUE, file |-> file, endpos |-> p,
                                writable |-> TRUE], device))
<1> DEFINE disk == [exists |-> TRUE, file |-> file, endpos |-> p, writable |-> TRUE]
           text == DeviceText(device, "gateway")
           more == text \o <<Close("DeviceCollection")>>
           new == Overwrite(file, p, more)
           size == Len(text)
           end == p + size
           after == WriteNext(disk, device)
<1>1. IsSeq(new) /\ end \in 1..Len(new) /\ new[1] = Open("Device")
  BY Rewritten
<1>2. disk.exists /\ disk.writable
  BY Zenon
<1>3. disk.file = file /\ disk.endpos = p
  OBVIOUS
<1>4. after = IF ~disk.writable THEN disk
              ELSE LET from == IF disk.exists THEN disk
                               ELSE [disk EXCEPT !.exists = TRUE, !.file = TopOfFile,
                                                 !.endpos = Len(TopOfFile)]
                   IN  [from EXCEPT !.file = Overwrite(from.file, from.endpos, more),
                                    !.endpos = from.endpos + size]
  BY Zenon DEF WriteNext, WriteToFile, WritePosition
<1>5. disk = [exists |-> TRUE, file |-> file, endpos |-> p, writable |-> TRUE]
  OBVIOUS
<1> HIDE DEF disk, after, more, size
<1>6. after = [disk EXCEPT !.file = Overwrite(disk.file, disk.endpos, more),
                           !.endpos = disk.endpos + size]
  BY <1>2, <1>4
<1>7. after = [disk EXCEPT !.file = new, !.endpos = end]
  BY <1>3, <1>6, Zenon
<1> HIDE DEF new, end
<1>8. after = [exists |-> TRUE, file |-> new, endpos |-> end, writable |-> TRUE]
  BY <1>5, <1>7, Refiled, Zenon
<1>9. after.file = new /\ after.endpos = end
  BY <1>8
<1>10. WrittenOver(after)
  BY <1>1, <1>8, <1>9 DEF WrittenOver
<1>11. QED
  BY <1>10 DEF after, disk

(***************************************************************************)
(* Whatever devices a run has written, and whatever a second run writes:    *)
(* its first call begins where the file begins, not where the first run     *)
(* ended (endpos is 0 again), and the file is no document any more.         *)
(***************************************************************************)
THEOREM SecondRunOverwrites ==
  ASSUME NEW earlier, HaveTrees(earlier), earlier # <<>>,
         NEW devices, HaveTrees(devices), devices # <<>>
  PROVE  LET file == Written(Restart(Written(NoFile, earlier)), devices).file
         IN  Head(file) = Open("Device") /\ Head(file) # Head(TopOfFile)
<1> DEFINE text == FlattenSeq(TextsOf(earlier))
           file == DocumentOf(text)
           disk == Restart(Written(NoFile, earlier))
           n == Len(devices)
<1>1. IsSeq(text)
  <2>1. AllSeqs(TextsOf(earlier))
    BY TextsAre
  <2>2. QED
    BY <2>1, JoinedPartsIs
<1>2. disk = [exists |-> TRUE, file |-> file, endpos |-> 0, writable |-> TRUE]
  <2> DEFINE written == Written(NoFile, earlier)
             end == Len(TopOfFile \o text)
  <2>1. written = DiskWith(text)
    BY FirstRun
  <2>2. written = [exists |-> TRUE, file |-> file, endpos |-> end, writable |-> TRUE]
    BY <2>1, Zenon DEF DiskWith
  <2>3. disk = [written EXCEPT !.endpos = 0]
    BY DEF Restart
  <2> HIDE DEF file, disk, written, end
  <2>4. QED
    BY <2>2, <2>3, Restarted
<1> HIDE DEF text, disk
<1>3. IsSeq(file) /\ Head(TopOfFile) = <<"xml">>
  BY <1>1, DocumentBegins
<1> HIDE DEF file
<1>4. IsSeq(devices) /\ n \in Nat /\ DOMAIN devices = 1..n /\ n # 0
  <2>1. IsSeq(devices)
    BY DEF HaveTrees
  <2>2. QED
    BY <2>1, SeqIs DEF IsSeq
<1>5. \A i \in 1..n : HasTree(devices[i])
  BY <1>4 DEF HaveTrees
<1>6. PICK state : Writes(state, disk, devices)
  BY <1>4, WriteSteps
<1> HIDE DEF n
<1> DEFINE S == {k \in Nat : k # 0 => WrittenOver(state[k])}
<1>7. 0 \in S
  OBVIOUS
<1>8. ASSUME NEW k \in 0..(n - 1), k \in S PROVE k + 1 \in S
  <2> DEFINE now == state[k]
             next == state[k + 1]
             device == devices[k + 1]
  <2>1. k + 1 \in 1..n /\ k + 1 \in Nat
    BY <1>4
  <2>2. HasTree(device)
    BY <1>5, <2>1
  <2>3. next = WriteNext(now, device)
    BY <1>6 DEF Writes, n
  <2>4. CASE k = 0
    <3>1. now = disk
      BY <1>6, <2>4 DEF Writes
    <3>2. 0 \in Nat /\ 0 <= Len(file)
      BY <1>3, SeqIs
    <3> HIDE DEF now, next, device
    <3>3. WrittenOver(WriteNext([exists |-> TRUE, file |-> file, endpos |-> 0,
                                 writable |-> TRUE], device))
      BY <1>3, <2>2, <3>2, WrittenAgain
    <3>4. QED
      BY <1>2, <2>1, <2>3, <3>1, <3>3 DEF next
  <2>5. CASE k # 0
    <3>1. WrittenOver(now)
      BY <1>8, <2>5
    <3> HIDE DEF now, next, device
    <3> DEFINE f == now.file
               e == now.endpos
    <3>2. /\ now = [exists |-> TRUE, file |-> f, endpos |-> e, writable |-> TRUE]
          /\ IsSeq(f) /\ e \in 1..Len(f) /\ f[1] = Open("Device")
      BY <3>1 DEF WrittenOver
    <3> HIDE DEF f, e
    <3>3. e \in Nat /\ e <= Len(f)
      BY <3>2, SeqIs
    <3>4. WrittenOver(WriteNext([exists |-> TRUE, file |-> f, endpos |-> e,
                                 writable |-> TRUE], device))
      BY <2>2, <3>2, <3>3, WrittenAgain
    <3>5. WrittenOver(next)
      BY <2>3, <3>2, <3>4
    <3>6. QED
      BY <2>1, <3>5 DEF next
  <2>6. QED
    BY <2>4, <2>5
<1> HIDE DEF S
<1>9. n \in S
  BY <1>4, <1>7, <1>8, ReadLoop!Induction
<1> DEFINE last == Written(disk, devices)
<1>10. WrittenOver(last)
  BY <1>4, <1>6, <1>9 DEF S, Writes, n
<1> HIDE DEF last
<1>11. Len(last.file) >= 1
  <2>1. last.endpos \in 1..Len(last.file) /\ Len(last.file) \in Nat
    BY <1>10, SeqIs DEF WrittenOver
  <2>2. QED
    BY <2>1
<1>12. Head(last.file) = Open("Device")
  BY <1>10, <1>11, HeadIs DEF WrittenOver
<1>13. Open("Device") # <<"xml">>
  BY DEF Open
<1>14. QED
  BY <1>3, <1>12, <1>13 DEF last, disk

-----------------------------------------------------------------------------
(* The devices of the runs.                                                 *)

LEMMA DeviceSlots ==
  ASSUME NEW ip, NEW mac, NEW slots
  PROVE  DeviceOf(ip, mac, slots).slotList = slots
  BY DEF DeviceOf

LEMMA ModuleSubslots ==
  ASSUME NEW number, NEW asked, NEW subslots
  PROVE  Module(number, asked, subslots).subslotList = subslots
  BY DEF Module

HaveSubslots(slots) == IsSeq(slots) /\ \A i \in DOMAIN slots : IsSeq(slots[i].subslotList)

LEMMA PairSeq ==
  ASSUME NEW a, NEW b
  PROVE  IsSeq(<<a, b>>)
<1> DEFINE pair == <<a, b>>
           R == {a, b}
<1>1. pair \in Seq(R)
  OBVIOUS
<1> HIDE DEF pair, R
<1>2. IsSeq(pair)
  BY <1>1 DEF IsSeq
<1>3. QED
  BY <1>2 DEF pair

LEMMA SlotsHaveSubslots ==
  ASSUME NEW m, IsSeq(m.subslotList), NEW n, IsSeq(n.subslotList)
  PROVE  HaveSubslots(<<>>) /\ HaveSubslots(<<m>>) /\ HaveSubslots(<<m, n>>)
<1> DEFINE single == <<m>>
           double == <<m, n>>
<1>1. IsSeq(single) /\ DOMAIN single = {1} /\ single[1] = m
  BY SingleIs
<1>2. DOMAIN double = {1, 2} /\ double[1] = m /\ double[2] = n
  OBVIOUS
<1>3. IsSeq(double)
  BY PairSeq
<1> HIDE DEF single, double
<1>4. HaveSubslots(single)
  BY <1>1 DEF HaveSubslots
<1>5. HaveSubslots(double)
  BY <1>2, <1>3 DEF HaveSubslots
<1>6. HaveSubslots(<<>>)
  BY NoneIs DEF HaveSubslots
<1>7. QED
  BY <1>4, <1>5, <1>6 DEF single, double

LEMMA DeviceHas ==
  ASSUME NEW ip, NEW mac, NEW slots, HaveSubslots(slots)
  PROVE  HasTree(DeviceOf(ip, mac, slots))
  BY DeviceSlots DEF HaveSubslots, HasTree

LEMMA ModuleHas ==
  ASSUME NEW number, NEW asked, NEW subslots, IsSeq(subslots)
  PROVE  IsSeq(Module(number, asked, subslots).subslotList)
  BY ModuleSubslots

LEMMA DevicesHaveTrees ==
  ASSUME NEW device \in Devices
  PROVE  HasTree(device)
<1>1. CASE device = DeviceOf("one", "gateway", <<>>)
  <2>1. HaveSubslots(<<>>)
    BY NoneIs DEF HaveSubslots
  <2>2. QED
    BY <1>1, <2>1, DeviceHas
<1>2. CASE device = DeviceOf("two", "mac",
     <<Module(0, TRUE, <<Submodule(1, FALSE), Submodule(32769, TRUE)>>)>>)
  <2> DEFINE a == Submodule(1, FALSE)
             b == Submodule(32769, TRUE)
             m == Module(0, TRUE, <<a, b>>)
  <2>1. IsSeq(m.subslotList)
    <3> HIDE DEF a, b
    <3>1. QED
      BY PairSeq, ModuleHas
  <2> HIDE DEF m
  <2>2. HaveSubslots(<<m>>)
    BY <2>1, SlotsHaveSubslots
  <2>3. HasTree(DeviceOf("two", "mac", <<m>>))
    BY <2>2, DeviceHas
  <2>4. QED
    BY <1>2, <2>3 DEF m
<1>3. CASE device = DeviceOf("three", "gateway",
     <<Module(0, FALSE, <<>>), Module(5, TRUE, <<Submodule(1, TRUE)>>)>>)
  <2> DEFINE c == Submodule(1, TRUE)
             m == Module(0, FALSE, <<>>)
             n == Module(5, TRUE, <<c>>)
  <2>1. IsSeq(m.subslotList) /\ IsSeq(n.subslotList)
    <3> HIDE DEF c
    <3>1. QED
      BY NoneIs, SingleIs, ModuleHas
  <2> HIDE DEF m, n
  <2>2. HaveSubslots(<<m, n>>)
    BY <2>1, SlotsHaveSubslots
  <2>3. HasTree(DeviceOf("three", "gateway", <<m, n>>))
    BY <2>2, DeviceHas
  <2>4. QED
    BY <1>3, <2>3 DEF m, n
<1>4. QED
  BY <1>1, <1>2, <1>3 DEF Devices


LEMMA InputsHaveTrees ==
  ASSUME NEW n \in Nat, NEW devices \in SeqOf(Devices, n)
  PROVE  HaveTrees(devices)
<1>1. PICK m \in 0..n : devices \in [1..m -> Devices]
  BY DEF SeqOf
<1>2. devices \in Seq(Devices)
  BY <1>1
<1>3. IsSeq(devices)
  BY <1>2 DEF IsSeq
<1>4. \A i \in DOMAIN devices : devices[i] \in Devices
  BY <1>1
<1>5. QED
  BY <1>3, <1>4, DevicesHaveTrees DEF HaveTrees

\* A disk that has been written to, or not yet.
LEMMA FirstRunLeaves ==
  ASSUME NEW devices, HaveTrees(devices)
  PROVE  \E exists, file, endpos :
           Written(NoFile, devices)
             = [exists |-> exists, file |-> file, endpos |-> endpos, writable |-> TRUE]
<1>1. CASE devices = <<>>
  BY <1>1, NoneWritten DEF NoFile
<1>2. CASE devices # <<>>
  <2> DEFINE text == FlattenSeq(TextsOf(devices))
             file == DocumentOf(text)
             end == Len(TopOfFile \o text)
  <2>1. Written(NoFile, devices) = DiskWith(text)
    BY <1>2, FirstRun
  <2>2. DiskWith(text) = [exists |-> TRUE, file |-> file, endpos |-> end, writable |-> TRUE]
    BY Zenon DEF DiskWith
  <2> HIDE DEF text, file, end
  <2>3. QED
    BY <2>1, <2>2
<1>3. QED
  BY <1>1, <1>2

\* The disk that a second run finds, which can write or can not.
Again(disk, writable) == Restart([disk EXCEPT !.writable = writable])

StartsFrom(after, disk, writable) ==
  /\ after.file = disk.file /\ after.writable = writable
  /\ writable = TRUE => after = Restart(disk)

LEMMA StartedAgain ==
  ASSUME NEW exists, NEW file, NEW endpos, NEW disk, NEW writable,
         disk = [exists |-> exists, file |-> file, endpos |-> endpos, writable |-> TRUE]
  PROVE  StartsFrom(Again(disk, writable), disk, writable)
<1> DEFINE w == [disk EXCEPT !.writable = writable]
           after == Again(disk, writable)
<1>1. after = [w EXCEPT !.endpos = 0]
  BY DEF Again, Restart
<1> HIDE DEF after
<1>2. after.file = disk.file /\ after.writable = writable
  BY <1>1
<1>3. ASSUME writable = TRUE PROVE w = disk
  <2>1. disk.writable = TRUE
    BY Zenon
  <2>2. [disk EXCEPT !.writable = disk.writable] = disk
    OBVIOUS
  <2>3. QED
    BY <1>3, <2>1, <2>2, Zenon
<1>4. writable = TRUE => after = Restart(disk)
  BY <1>1, <1>3 DEF Restart
<1>5. QED
  BY <1>2, <1>4 DEF after, StartsFrom

LEMMA ReadsBack ==
  ASSUME algorithm = "results", input \in ResultInputs
  PROVE  FileReadsBack
<1> DEFINE earlier == input.earlier
           devices == input.devices
           writable == input.writable
           disk == Written(NoFile, earlier)
           after == Again(disk, writable)
           file == Written(after, devices).file
           written == earlier \o (IF writable THEN devices ELSE <<>>)
<1>1. /\ earlier \in SeqOf(Devices, 1) /\ devices \in SeqOf(Devices, 2)
      /\ writable \in BOOLEAN
  BY DEF ResultInputs
<1>2. FileReadsBack <=>
        (written # <<>> =>
           IF earlier = <<>> \/ devices = <<>> \/ ~writable
           THEN IsDocument(file, written) ELSE Head(file) # Head(TopOfFile))
  BY Zenon DEF FileReadsBack, WrittenFile, IsDocument, Again
<1>3. PICK exists, text, endpos :
        disk = [exists |-> exists, file |-> text, endpos |-> endpos, writable |-> TRUE]
  <2>1. HaveTrees(earlier)
    BY <1>1, InputsHaveTrees
  <2>2. QED
    BY <2>1, FirstRunLeaves
<1> HIDE DEF earlier, devices, writable, file, disk
<1>4. /\ after.file = disk.file /\ after.writable = writable
      /\ writable = TRUE => after = Restart(disk)
  <2>1. StartsFrom(after, disk, writable)
    BY <1>3, StartedAgain
  <2> HIDE DEF after
  <2>2. QED
    BY <2>1, Zenon DEF StartsFrom
<1> HIDE DEF after
<1>5. HaveTrees(earlier) /\ HaveTrees(devices)
  BY <1>1, InputsHaveTrees
<1>6. IsSeq(earlier) /\ IsSeq(devices)
  BY <1>5 DEF HaveTrees
<1>7. earlier \o <<>> = earlier /\ <<>> \o devices = devices
  BY <1>6, NoneJoined
<1>8. earlier # <<>> => IsDocument(disk.file, earlier)
  BY <1>5, FileIsDocument DEF disk
<1>9. CASE writable = FALSE
  <2>1. Written(after, devices) = after
    BY <1>4, <1>6, <1>9, FileStays
  <2>2. file = disk.file
    BY <1>4, <2>1 DEF file
  <2>3. written = earlier
    BY <1>7, <1>9
  <2> HIDE DEF written
  <2>4. QED
    BY <1>2, <1>8, <1>9, <2>2, <2>3
<1>10. CASE writable = TRUE
  <2>1. after = Restart(disk)
    BY <1>4, <1>10
  <2>2. written = earlier \o devices
    BY <1>10
  <2> HIDE DEF written
  <2>3. CASE earlier = <<>>
    <3>1. written = devices
      BY <1>7, <2>2, <2>3
    <3>2. disk = NoFile
      BY <2>3, NoneWritten DEF disk
    <3>3. Restart(NoFile) = NoFile
      BY DEF Restart, NoFile
    <3>4. file = Written(NoFile, devices).file
      BY <2>1, <3>2, <3>3 DEF file
    <3>5. devices # <<>> => IsDocument(file, devices)
      BY <1>5, <3>4, FileIsDocument
    <3>6. QED
      BY <1>2, <2>3, <3>1, <3>5
  <2>4. CASE earlier # <<>> /\ devices = <<>>
    <3>1. written = earlier
      BY <1>7, <2>2, <2>4
    <3>2. Written(after, devices) = after
      BY <2>4, NoneWritten
    <3>3. file = disk.file
      BY <1>4, <3>2 DEF file
    <3>4. QED
      BY <1>2, <1>8, <2>4, <3>1, <3>3
  <2>5. CASE earlier # <<>> /\ devices # <<>>
    <3>1. Head(file) # Head(TopOfFile)
      BY <1>5, <2>1, <2>5, SecondRunOverwrites DEF file, disk
    <3>2. QED
      BY <1>2, <1>10, <2>5, <3>1
  <2>6. QED
    BY <2>3, <2>4, <2>5
<1>11. QED
  BY <1>1, <1>9, <1>10

(***************************************************************************)
(* In particular for the devices of the runs, in two runs of the program.   *)
(***************************************************************************)
THEOREM FilesRead == Spec => []FileReadsBack
<1> DEFINE ResultInput == algorithm = "results" => input \in ResultInputs
<1>1. Init => ResultInput
  BY DEF Init
<1>2. ResultInput /\ [Next]_vars => ResultInput'
  BY DEF Next, vars
<1>3. ResultInput => FileReadsBack
  BY ReadsBack DEF FileReadsBack
<1>4. QED
  BY <1>1, <1>2, <1>3, PTL DEF Spec

-----------------------------------------------------------------------------
(* The topology of a network (Algorithms), of any number of devices.        *)

Net == INSTANCE TopologyProofs
         WITH DeviceCount <- DeviceCount, Drawn <- Drawn, Placed <- Placed

\* FirstOf is the same for both.
LEMMA FirstIs ==
  ASSUME NEW S, S \subseteq Nat
  PROVE  \/ S = {} /\ FirstOf(S) = 0
         \/ FirstOf(S) \in S
<1>1. FirstOf(S) = Net!FirstOf(S)
  BY DEF FirstOf, Net!FirstOf
<1>2. QED
  BY <1>1, Net!FirstOfIs

\* A topology input.
LEMMA NetworkInput ==
  ASSUME input \in TopologyInputs
  PROVE  /\ input.network \in Networks /\ IsNetwork(input.network)
         /\ input.order \in SetToSeqs(input.network.listed)
<1> DEFINE inputs(n, silent, unnamed, nameless) ==
             {[network |-> n, order |-> o, silent |-> s, unnamed |-> u, nameless |-> d] :
                o \in SetToSeqs(n.listed), s \in silent, u \in unnamed, d \in nameless}
           ends(n) == SmallSubsets(EndsOf(n))
           both(n) == inputs(n, ends(n), ends(n), {{}})
                        \cup inputs(n, {{}}, {{}},
                                    SmallSubsets({end[1] : end \in EndsOf(n)}))
<1>1. TopologyInputs = UNION {both(n) : n \in Networks}
  BY DEF TopologyInputs
<1>2. ASSUME NEW n, NEW silent, NEW unnamed, NEW nameless,
             NEW in \in inputs(n, silent, unnamed, nameless)
      PROVE  in.network = n /\ in.order \in SetToSeqs(n.listed)
  <2> DEFINE orders == SetToSeqs(n.listed)
  <2>1. PICK o \in orders, s \in silent, u \in unnamed, d \in nameless :
          in = [network |-> n, order |-> o, silent |-> s, unnamed |-> u,
                nameless |-> d]
    BY <1>2
  <2>2. QED
    BY <2>1
<1> HIDE DEF inputs, ends
<1>3. PICK n \in Networks : input \in both(n)
  BY <1>1
<1>4. input.network = n /\ input.order \in SetToSeqs(n.listed)
  BY <1>2, <1>3
<1>5. QED
  BY <1>3, <1>4, NetworksAssumption

\* The list has every listed device once.
LEMMA OrderIs ==
  ASSUME input \in TopologyInputs
  PROVE  LET listed == input.network.listed IN
         /\ DeviceCount \in Nat /\ DeviceCount = Cardinality(listed)
         /\ IsFiniteSet(listed)
         /\ DOMAIN input.order = 1..DeviceCount
         /\ \A i \in 1..DeviceCount : input.order[i] \in listed
         /\ \A i, j \in 1..DeviceCount : input.order[i] = input.order[j] => i = j
         /\ \A mac \in listed : \E i \in 1..DeviceCount : input.order[i] = mac
<1> DEFINE listed == input.network.listed
           order == input.order
           n == Cardinality(listed)
<1>1. IsFiniteSet(listed)
  BY NetworkInput DEF IsNetwork
<1>2. n \in Nat
  BY <1>1, FS_CardinalityType
<1>3. order \in [1..n -> listed] /\ \A i, j \in 1..n : i # j => order[i] # order[j]
  BY NetworkInput DEF SetToSeqs
<1> HIDE DEF order, listed, n
<1>4. DOMAIN order = 1..n /\ Len(order) = n
  BY <1>2, <1>3
<1>5. order \in Injection(1..n, listed)
  BY <1>3 DEF Injection, IsInjective
<1>6. Cardinality(1..n) = n
  BY <1>2, FS_Interval
<1>7. order \in Surjection(1..n, listed)
  BY <1>1, <1>5, <1>6, FS_Injection DEF n
<1>8. \A mac \in listed : \E i \in 1..n : order[i] = mac
  BY <1>7 DEF Surjection
<1>9. DeviceCount = n
  BY <1>4 DEF DeviceCount, order
<1>10. QED
  BY <1>1, <1>2, <1>3, <1>4, <1>8, <1>9 DEF order, listed, n

\* The other end of a cable.
LEMMA PeerIs ==
  ASSUME NEW network, IsNetwork(network), NEW cable \in network.cables, NEW end \in cable
  PROVE  /\ Peer(network, end) \in cable /\ Peer(network, end) # end
         /\ cable = {end, Peer(network, end)}
         /\ end \in EndsOf(network) /\ Peer(network, end) \in EndsOf(network)
<1>1. \A other \in network.cables \ {cable} : cable \cap other = {}
  BY DEF IsNetwork
<1>2. PICK e, f \in cable : e # f /\ cable = {e, f}
  BY DEF IsNetwork
<1>3. cable \subseteq EndsOf(network)
  BY DEF EndsOf
<1>4. \E other \in EndsOf(network) : other # end /\ {end, other} \in network.cables
  <2>1. CASE end = e
    BY <1>2, <1>3, <2>1
  <2>2. CASE end = f
    <3>1. {f, e} = cable
      BY <1>2
    <3>2. QED
      BY <1>2, <1>3, <2>2, <3>1
  <2>3. QED
    BY <1>2, <2>1, <2>2
<1> DEFINE peer == Peer(network, end)
<1>5. peer \in EndsOf(network) /\ peer # end /\ {end, peer} \in network.cables
  BY <1>4 DEF Peer
<1> HIDE DEF peer
<1>6. cable = {end, peer}
  BY <1>1, <1>5
<1>7. QED
  BY <1>3, <1>5, <1>6 DEF peer

\* Each end is an end of a cable, is a device and a port, and is its peer's peer.
LEMMA EndIs ==
  ASSUME NEW network, IsNetwork(network), NEW end \in EndsOf(network)
  PROVE  LET peer == Peer(network, end) IN
         /\ \E cable \in network.cables : end \in cable /\ cable = {end, peer}
         /\ peer \in EndsOf(network) /\ peer # end /\ Peer(network, peer) = end
         /\ end = <<end[1], end[2]>> /\ end[2] \in 1..MaxPort
         /\ end[2] # NoText /\ end[1] # NoText /\ end[1] \in DevicesOf(network)
         /\ \A text \in {"name", "type", "chassis"} : <<text, end[1]>> # NoText
<1> DEFINE peer == Peer(network, end)
<1>1. PICK cable \in network.cables : end \in cable
  BY DEF EndsOf
<1>2. peer \in cable /\ peer # end /\ cable = {end, peer} /\ peer \in EndsOf(network)
  BY <1>1, PeerIs
<1>3. Peer(network, peer) = end
  <2> HIDE DEF peer
  <2>1. Peer(network, peer) \in cable /\ Peer(network, peer) # peer
    BY <1>1, <1>2, PeerIs
  <2>2. QED
    BY <1>2, <2>1
<1>4. end = <<end[1], end[2]>> /\ end[2] \in 1..MaxPort
  BY <1>1 DEF IsNetwork
<1>5. end[1] \in DevicesOf(network)
  BY DEF DevicesOf, EndsOf
<1>6. NoText \notin DevicesOf(network)
      /\ NoText \notin {"name", "type", "chassis"} \X DevicesOf(network)
  BY DEF IsNetwork
<1>7. \A text \in {"name", "type", "chassis"} :
        <<text, end[1]>> \in {"name", "type", "chassis"} \X DevicesOf(network)
  BY <1>5
<1>8. end[2] # NoText
  BY <1>4, NetworksAssumption
<1> HIDE DEF peer
<1>9. QED
  BY <1>1, <1>2, <1>3, <1>4, <1>5, <1>6, <1>7, <1>8 DEF peer

\* What a device is called in the drawing.
LabelOf(mac) == IF mac \in input.nameless THEN Dead ELSE CalledBy(mac)

ReportOf(end) ==
  LET peer == Peer(input.network, end) IN
  [leftLabel |-> LabelOf(end[1]), rightLabel |-> LabelOf(peer[1]),
   leftPort  |-> end[2],
   rightPort |-> IF peer \in input.unnamed THEN NoText ELSE peer[2],
   leftMac   |-> end[1],          rightMac   |-> peer[1]]

ReportedEnds == {end \in EndsOf(input.network) : Reported(end)}

\* findDeviceByMac.
LEMMA ListedAt ==
  ASSUME input \in TopologyInputs, NEW mac
  PROVE  \/ mac \notin input.network.listed /\ DeviceByMac(List, mac) = 0
         \/ /\ mac \in input.network.listed
            /\ DeviceByMac(List, mac) \in 1..DeviceCount
            /\ DeviceByMac(List, mac) # 0
            /\ input.order[DeviceByMac(List, mac)] = mac
<1> DEFINE S == {i \in DOMAIN List : List[i].mac = mac}
<1>1. /\ DOMAIN List = DOMAIN input.order
      /\ \A i \in DOMAIN input.order : List[i].mac = input.order[i]
  BY DEF List
<1>2. /\ DOMAIN input.order = 1..DeviceCount /\ DeviceCount \in Nat
      /\ \A i \in 1..DeviceCount : input.order[i] \in input.network.listed
      /\ \A m \in input.network.listed : \E i \in 1..DeviceCount : input.order[i] = m
  BY OrderIs
<1> DEFINE n == DeviceCount
           order == input.order
           listed == input.network.listed
<1> HIDE DEF n, order, listed
<1>3. S = {i \in 1..n : order[i] = mac}
  BY <1>1, <1>2 DEF n, order
<1>4. S \subseteq Nat /\ 0 \notin S
  BY <1>2, <1>3 DEF n
<1>5. S = {} <=> mac \notin listed
  BY <1>2, <1>3 DEF n, order, listed
<1>6. DeviceByMac(List, mac) = FirstOf(S)
  BY DEF DeviceByMac
<1> HIDE DEF S
<1>7. \/ S = {} /\ FirstOf(S) = 0
      \/ FirstOf(S) \in S
  BY <1>4, FirstIs
<1>8. CASE FirstOf(S) \in S
  <2>1. FirstOf(S) # 0 /\ mac \in listed
    BY <1>4, <1>5, <1>8
  <2>2. QED
    BY <1>3, <1>6, <1>8, <2>1 DEF n, order, listed
<1>9. QED
  BY <1>5, <1>6, <1>7, <1>8 DEF listed

\* getDeviceLabel, for a device that has an end.
LEMMA DeviceCalled ==
  ASSUME input \in TopologyInputs, NEW i \in 1..DeviceCount,
         \A text \in {"name", "type", "chassis"} : <<text, input.order[i]>> # NoText
  PROVE  DeviceLabel(List[i]) = LabelOf(input.order[i])
<1> DEFINE mac == input.order[i]
<1>1. /\ DOMAIN input.order = 1..DeviceCount /\ DeviceCount \in Nat
      /\ mac \in input.network.listed
      /\ 1 \in 1..DeviceCount => (mac = input.order[1] => i = 1)
  BY OrderIs
<1>2. 1 \in 1..DeviceCount
  BY <1>1
<1>3. /\ List[i].nameOfStation = IF i = 1 THEN NoText ELSE TextOf("name", mac)
      /\ List[i].deviceType = TextOf("type", mac)
  BY <1>1 DEF List
<1>4. mac = input.order[1] <=> i = 1
  BY <1>1, <1>2
<1>5. TextOf("name", mac) = NoText <=> mac \in input.nameless
  BY DEF TextOf
<1>6. TextOf("type", mac) = NoText <=> mac \in input.nameless
  BY DEF TextOf
<1> HIDE DEF mac
<1>7. QED
  BY <1>1, <1>3, <1>4, <1>5, <1>6 DEF DeviceLabel, LabelOf, CalledBy, mac

\* What a port tells.
LEMMA ToldIs ==
  ASSUME input \in TopologyInputs, NEW i \in 1..DeviceCount, NEW p
  PROVE  LET end == <<input.order[i], p>> IN
         Told(List, List[i], PortOf(end))
           = IF Reported(end) THEN << ReportOf(end) >> ELSE <<>>
<1> DEFINE end == <<input.order[i], p>>
           peer == Peer(input.network, end)
           port == PortOf(end)
           mac == input.order[i]
<1>1. CASE ~Reported(end)
  <2>1. port.ownPortID = NoText
    BY <1>1 DEF PortOf
  <2> HIDE DEF port, end
  <2>2. QED
    BY <1>1, <2>1 DEF Told, port, end
<1>2. CASE Reported(end)
  <2>1. /\ port.ownPortID = end[2] /\ port.peerMacAddress = peer[1]
        /\ port.peerPortID = IF peer \in input.unnamed THEN NoText ELSE peer[2]
        /\ port.peerChassisID = TextOf("chassis", peer[1])
    BY <1>2 DEF PortOf
  <2>2. end \in EndsOf(input.network) /\ mac \in input.network.listed /\ mac = end[1]
    BY <1>2 DEF Reported
  <2>3. IsNetwork(input.network)
    BY NetworkInput
  <2> HIDE DEF end
  <2>4. /\ peer \in EndsOf(input.network) /\ end[2] # NoText
        /\ \A text \in {"name", "type", "chassis"} : <<text, end[1]>> # NoText
    BY <2>2, <2>3, EndIs
  <2> HIDE DEF peer
  <2>5. /\ peer[1] # NoText
        /\ \A text \in {"name", "type", "chassis"} : <<text, peer[1]>> # NoText
    BY <2>3, <2>4, EndIs
  <2> HIDE DEF port
  <2>6. Told(List, List[i], port) = << Report(List, List[i], port) >>
    BY <2>1, <2>4, <2>5 DEF Told
  <2>7. DeviceLabel(List[i]) = LabelOf(end[1])
    BY <2>2, <2>4, DeviceCalled
  <2>8. PeerLabel(List, port) = LabelOf(peer[1])
    <3> DEFINE at == DeviceByMac(List, peer[1])
    <3>1. CASE peer[1] \notin input.network.listed
      <4>1. at = 0
        BY <3>1, ListedAt
      <4>2. TextOf("chassis", peer[1]) = NoText <=> peer[1] \in input.nameless
        BY <2>5 DEF TextOf
      <4>3. QED
        BY <2>1, <3>1, <4>1, <4>2 DEF PeerLabel, LabelOf, CalledBy
    <3>2. CASE peer[1] \in input.network.listed
      <4>1. at \in 1..DeviceCount /\ at # 0 /\ input.order[at] = peer[1]
        BY <3>2, ListedAt
      <4>2. PeerLabel(List, port) = DeviceLabel(List[at])
        BY <2>1, <4>1 DEF PeerLabel
      <4> HIDE DEF at
      <4>3. DeviceLabel(List[at]) = LabelOf(input.order[at])
        BY <2>5, <4>1, DeviceCalled
      <4>4. QED
        BY <4>1, <4>2, <4>3
    <3>3. QED
      BY <3>1, <3>2
  <2>9. List[i].mac = mac
    <3>1. i \in DOMAIN input.order
      BY OrderIs
    <3>2. QED
      BY <3>1 DEF List
  <2>10. Report(List, List[i], port) = ReportOf(end)
    BY <2>1, <2>2, <2>7, <2>8, <2>9 DEF Report, ReportOf, peer
  <2>11. QED
    BY <1>2, <2>6, <2>10 DEF end, port
<1>3. QED
  BY <1>1, <1>2

LEMMA ElementsSeq ==
  ASSUME NEW s, IsSeq(s)
  PROVE  s \in Seq(Elements(s))
<1> DEFINE E == Elements(s)
<1>1. PICK R : s \in Seq(R)
  BY DEF IsSeq
<1>2. \A i \in DOMAIN s : s[i] \in E
  BY DEF Elements
<1> HIDE DEF E
<1>3. s \in Seq(E)
  BY <1>1, <1>2
<1>4. QED
  BY <1>3 DEF E

(***************************************************************************)
(* What the ports of all devices report: each end that is reported, with    *)
(* the names of both devices, whatever the order of the list (main.c:265-   *)
(* 276).                                                                    *)
(***************************************************************************)
THEOREM EveryEndReports ==
  ASSUME input \in TopologyInputs
  PROVE  /\ Reports(List) \in Seq(Elements(Reports(List)))
         /\ Elements(Reports(List)) = {ReportOf(end) : end \in ReportedEnds}
<1> DEFINE told(i, p) == Told(List, List[i], PortOf(<<input.order[i], p>>))
           ofDevice(i) == [p \in 1..MaxPort |-> told(i, p)]
           heard(i) == {ReportOf(<<input.order[i], p>>) :
                          p \in {q \in 1..MaxPort : Reported(<<input.order[i], q>>)}}
           all == [i \in 1..DeviceCount |-> FlattenSeq(ofDevice(i))]
           ends == ReportedEnds
<1>1. MaxPort \in Nat /\ DeviceCount \in Nat /\ DOMAIN input.order = 1..DeviceCount
      /\ \A mac \in input.network.listed : \E i \in 1..DeviceCount : input.order[i] = mac
  BY NetworksAssumption, OrderIs
<1>2. Reports(List) = FlattenSeq(all)
  <2>1. DOMAIN List = 1..DeviceCount
    BY <1>1 DEF List
  <2>2. ASSUME NEW i \in 1..DeviceCount
        PROVE  [p \in DOMAIN List[i].ports |-> Told(List, List[i], List[i].ports[p])]
                 = ofDevice(i)
    <3>1. List[i].ports = [p \in 1..MaxPort |-> PortOf(<<input.order[i], p>>)]
      BY <1>1 DEF List
    <3>2. QED
      BY <3>1
  <2>3. QED
    BY <2>1, <2>2 DEF Reports
<1>3. ASSUME NEW i \in 1..DeviceCount
      PROVE  IsSeq(FlattenSeq(ofDevice(i))) /\ Elements(FlattenSeq(ofDevice(i))) = heard(i)
  <2> DEFINE end(p) == <<input.order[i], p>>
  <2>1. ASSUME NEW p \in 1..MaxPort
        PROVE  /\ ofDevice(i)[p] = IF Reported(end(p)) THEN << ReportOf(end(p)) >> ELSE <<>>
               /\ IsSeq(ofDevice(i)[p])
               /\ Elements(ofDevice(i)[p])
                    = IF Reported(end(p)) THEN {ReportOf(end(p))} ELSE {}
    <3>1. ofDevice(i)[p] = told(i, p)
      OBVIOUS
    <3>2. told(i, p) = IF Reported(end(p)) THEN << ReportOf(end(p)) >> ELSE <<>>
      BY ToldIs
    <3>3. ASSUME NEW x PROVE IsSeq(<< x >>) /\ Elements(<< x >>) = {x}
      <4>1. << x >> \in Seq({x}) /\ DOMAIN << x >> = {1} /\ << x >>[1] = x
        OBVIOUS
      <4>2. QED
        BY <4>1 DEF IsSeq, Elements
    <3> HIDE DEF told, ofDevice, end
    <3>4. QED
      BY <3>1, <3>2, <3>3, NoneIs
  <2>2. /\ DOMAIN ofDevice(i) = 1..MaxPort
        /\ Len(ofDevice(i)) = MaxPort /\ (MaxPort = 0 => ofDevice(i) = <<>>)
    <3> HIDE DEF told
    <3>1. Len(ofDevice(i)) = MaxPort /\ DOMAIN ofDevice(i) = 1..MaxPort
      BY <1>1
    <3>2. MaxPort = 0 => ofDevice(i) = <<>>
      BY <1>1
    <3>3. QED
      BY <3>1, <3>2, Zenon
  <2> HIDE DEF ofDevice
  <2>3. /\ IsSeq(FlattenSeq(ofDevice(i)))
        /\ Elements(FlattenSeq(ofDevice(i)))
             = UNION {Elements(ofDevice(i)[p]) : p \in 1..MaxPort}
    <3>1. \A p \in 1..MaxPort : IsSeq(ofDevice(i)[p])
      BY <2>1
    <3>2. QED
      BY <1>1, <2>2, <3>1, FlattenIs
  <2>4. UNION {Elements(ofDevice(i)[p]) : p \in 1..MaxPort} = heard(i)
    BY <2>1
  <2>5. QED
    BY <2>3, <2>4
<1>4. Len(all) = DeviceCount /\ (DeviceCount = 0 => all = <<>>)
      /\ \A i \in 1..DeviceCount : all[i] = FlattenSeq(ofDevice(i))
  <2> HIDE DEF ofDevice
  <2> DEFINE n == DeviceCount
  <2>1. n \in Nat
    BY <1>1
  <2> HIDE DEF n
  <2>2. Len([i \in 1..n |-> FlattenSeq(ofDevice(i))]) = n
        /\ (n = 0 => [i \in 1..n |-> FlattenSeq(ofDevice(i))] = <<>>)
    BY <2>1
  <2>3. QED
    BY <2>2 DEF n
<1> HIDE DEF all, ofDevice
<1>5. /\ IsSeq(FlattenSeq(all))
      /\ Elements(FlattenSeq(all)) = UNION {Elements(all[i]) : i \in 1..DeviceCount}
  <2>1. \A i \in 1..DeviceCount : IsSeq(all[i])
    BY <1>3, <1>4
  <2>2. QED
    BY <1>1, <1>4, <2>1, FlattenIs
<1>6. \A i \in 1..DeviceCount : Elements(all[i]) = heard(i)
  BY <1>3, <1>4
<1>7. ASSUME NEW end \in ends
      PROVE  \E i \in 1..DeviceCount : ReportOf(end) \in heard(i)
  <2>1. Reported(end) /\ end \in EndsOf(input.network)
    BY DEF ReportedEnds
  <2>2. end = <<end[1], end[2]>> /\ end[2] \in 1..MaxPort /\ end[1] \in input.network.listed
    BY <2>1, NetworkInput, EndIs DEF Reported
  <2>3. PICK i \in 1..DeviceCount : input.order[i] = end[1]
    BY <1>1, <2>2
  <2>4. QED
    BY <2>1, <2>2, <2>3
<1>8. ASSUME NEW i \in 1..DeviceCount PROVE heard(i) \subseteq {ReportOf(end) : end \in ends}
  <2>1. \A p : Reported(<<input.order[i], p>>) => <<input.order[i], p>> \in ends
    BY DEF Reported, ReportedEnds
  <2>2. QED
    BY <2>1
<1> HIDE DEF heard, ends
<1>9. UNION {Elements(all[i]) : i \in 1..DeviceCount} = {ReportOf(end) : end \in ends}
  BY <1>6, <1>7, <1>8
<1>10. QED
  BY <1>2, <1>5, <1>9, ElementsSeq DEF ends

\* Reports of one cable match, from both ends when both are named.
LEMMA ReportsMatch ==
  ASSUME input \in TopologyInputs, NEW e \in EndsOf(input.network),
         NEW f \in EndsOf(input.network)
  PROVE  Matches(ReportOf(e), ReportOf(f)) <=>
           \/ e = f
           \/ /\ f = Peer(input.network, e)
              /\ e \notin input.unnamed /\ f \notin input.unnamed
<1> DEFINE p == Peer(input.network, e)
           q == Peer(input.network, f)
<1>1. IsNetwork(input.network)
  BY NetworkInput
<1>2. /\ p \in EndsOf(input.network) /\ Peer(input.network, p) = e
      /\ e = <<e[1], e[2]>> /\ e[2] # NoText
  BY <1>1, EndIs
<1>3. /\ q \in EndsOf(input.network) /\ Peer(input.network, q) = f
      /\ f = <<f[1], f[2]>> /\ f[2] # NoText
  BY <1>1, EndIs
<1> HIDE DEF p, q
<1>4. p = <<p[1], p[2]>> /\ q = <<q[1], q[2]>>
  BY <1>1, <1>2, <1>3, EndIs
<1>5. /\ ReportOf(e).leftMac = e[1] /\ ReportOf(e).rightMac = p[1]
      /\ ReportOf(e).leftPort = e[2]
      /\ ReportOf(e).rightPort = IF p \in input.unnamed THEN NoText ELSE p[2]
  BY DEF ReportOf, p
<1>6. /\ ReportOf(f).leftMac = f[1] /\ ReportOf(f).rightMac = q[1]
      /\ ReportOf(f).leftPort = f[2]
      /\ ReportOf(f).rightPort = IF q \in input.unnamed THEN NoText ELSE q[2]
  BY DEF ReportOf, q
<1>7. CASE e = f
  BY <1>7 DEF Matches
<1>8. CASE e # f /\ Matches(ReportOf(e), ReportOf(f))
  <2>1. ~(e[1] = f[1] /\ e[2] = f[2])
    BY <1>2, <1>3, <1>8
  <2>2. /\ e[1] = q[1] /\ p[1] = f[1]
        /\ e[2] = IF q \in input.unnamed THEN NoText ELSE q[2]
        /\ f[2] = IF p \in input.unnamed THEN NoText ELSE p[2]
    BY <1>5, <1>6, <1>8, <2>1 DEF Matches
  <2>3. e = q /\ f = p /\ q \notin input.unnamed /\ p \notin input.unnamed
    BY <1>2, <1>3, <1>4, <2>2
  <2>4. QED
    BY <1>8, <2>3 DEF p
<1>9. CASE f = p /\ e \notin input.unnamed /\ f \notin input.unnamed
  <2>1. q = e
    BY <1>2, <1>9 DEF q
  <2>2. Matches(ReportOf(e), ReportOf(f))
    BY <1>5, <1>6, <1>9, <2>1 DEF Matches
  <2>3. QED
    BY <1>9, <2>2 DEF p
<1>10. QED
  BY <1>7, <1>8, <1>9 DEF p

\* The edges that are drawn of a network.
LEMMA DrawnIs ==
  ASSUME input \in TopologyInputs
  PROVE  LET rs == Reports(List) IN
         /\ DOMAIN Drawn = 1..Len(Drawn) /\ Len(Drawn) \in Nat
         /\ Drawn \in Seq(Elements(rs))
         /\ \A j \in DOMAIN Drawn : \E end \in ReportedEnds : Drawn[j] = ReportOf(end)
         /\ \A i, j \in DOMAIN Drawn : i # j => ~Matches(Drawn[i], Drawn[j])
         /\ Len(Drawn) < EdgeCapacity(DeviceCount) =>
              \A end \in ReportedEnds :
                \E j \in DOMAIN Drawn : Matches(Drawn[j], ReportOf(end))
<1> DEFINE rs == Reports(List)
           R == Elements(rs)
<1>1. rs \in Seq(R) /\ R = {ReportOf(end) : end \in ReportedEnds}
  BY EveryEndReports
<1>2. DeviceCount \in Nat
  BY OrderIs
<1>3. \A r \in R : \E i \in 1..Len(rs) : rs[i] = r
  BY <1>1 DEF Elements
<1> HIDE DEF rs, R
<1>4. /\ Net!Edges(rs, DeviceCount) \in Seq(R)
      /\ Net!DrawnRight(Net!Edges(rs, DeviceCount), rs, Len(rs))
  BY <1>1, <1>2, Net!CablesDrawnOnce
<1>5. Net!Edges(rs, DeviceCount) = Drawn
  BY DEF Drawn, rs, Net!Edges, Edges, Net!AppendEdge, AppendEdge, Net!Matches, Matches,
         Net!EdgeCapacity, EdgeCapacity, FoldLeft, Net!FoldLeft, MapThenFoldSet,
         Net!MapThenFoldSet, Max, Net!Max
<1>6. /\ \A a, b : Net!Matches(a, b) <=> Matches(a, b)
      /\ Net!EdgeCapacity(DeviceCount) = EdgeCapacity(DeviceCount)
  BY DEF Net!Matches, Matches, Net!EdgeCapacity, EdgeCapacity
<1> DEFINE drawn == Drawn
<1> HIDE DEF drawn
<1>7. drawn \in Seq(R) /\ Net!DrawnRight(drawn, rs, Len(rs))
  BY <1>4, <1>5 DEF drawn
<1>8. DOMAIN drawn = 1..Len(drawn) /\ Len(drawn) \in Nat /\ \A j \in DOMAIN drawn : drawn[j] \in R
  BY <1>7
<1>9. \A i, j \in DOMAIN drawn : i # j => ~Matches(drawn[i], drawn[j])
  BY <1>6, <1>7 DEF Net!DrawnRight
<1>10. ASSUME Len(drawn) < EdgeCapacity(DeviceCount), NEW end \in ReportedEnds
       PROVE  \E j \in DOMAIN drawn : Matches(drawn[j], ReportOf(end))
  <2>1. PICK i \in 1..Len(rs) : rs[i] = ReportOf(end)
    BY <1>1, <1>3
  <2>2. QED
    BY <1>6, <1>7, <1>10, <2>1 DEF Net!DrawnRight
<1>11. \A j \in DOMAIN drawn : \E end \in ReportedEnds : drawn[j] = ReportOf(end)
  BY <1>1, <1>8
<1>12. QED
  BY <1>7, <1>8, <1>9, <1>10, <1>11 DEF drawn, rs, R

LEMMA LinkOf ==
  ASSUME input \in TopologyInputs, Len(Drawn) < EdgeCapacity(DeviceCount),
         NEW cable \in input.network.cables
  PROVE  LET ends == {end \in cable : Reported(end)}
             same == {i \in DOMAIN Drawn :
                        <<Drawn[i].leftMac, Drawn[i].leftPort>> \in cable}
         IN  Cardinality(same) =
               IF cable \cap input.unnamed = {} /\ ends # {} THEN 1
               ELSE Cardinality(ends)
<1> DEFINE drawn == Drawn
           network == input.network
           unnamed == input.unnamed
           ends == {end \in cable : Reported(end)}
           from(i) == <<drawn[i].leftMac, drawn[i].leftPort>>
           same == {i \in DOMAIN drawn : from(i) \in cable}
<1>1. /\ DOMAIN drawn = 1..Len(drawn) /\ Len(drawn) \in Nat
      /\ \A j \in DOMAIN drawn : \E end \in ReportedEnds : drawn[j] = ReportOf(end)
      /\ \A i, j \in DOMAIN drawn : i # j => ~Matches(drawn[i], drawn[j])
      /\ \A end \in ReportedEnds :
           \E j \in DOMAIN drawn : Matches(drawn[j], ReportOf(end))
  BY DrawnIs
<1>2. IsNetwork(network)
  BY NetworkInput
<1> HIDE DEF drawn
<1>3. ASSUME NEW j \in DOMAIN drawn
      PROVE  /\ from(j) \in ReportedEnds /\ from(j) \in EndsOf(network)
             /\ drawn[j] = ReportOf(from(j))
  <2>1. PICK end \in ReportedEnds : drawn[j] = ReportOf(end)
    BY <1>1
  <2>2. end \in EndsOf(network)
    BY DEF ReportedEnds
  <2>3. end = <<end[1], end[2]>>
    BY <1>2, <2>2, EndIs
  <2>4. drawn[j].leftMac = end[1] /\ drawn[j].leftPort = end[2]
    BY <2>1 DEF ReportOf
  <2>5. from(j) = end
    BY <2>3, <2>4
  <2>6. QED
    BY <2>1, <2>2, <2>5
<1>4. \A e \in cable : e \in EndsOf(network) /\ (e \in ReportedEnds <=> e \in ends)
  BY DEF EndsOf, ReportedEnds
<1>5. \A e \in cable : Peer(network, e) \in cable /\ cable = {e, Peer(network, e)}
  BY <1>2, PeerIs
<1> DEFINE linked(e, f) == \/ e = f
                           \/ f = Peer(network, e) /\ e \notin unnamed /\ f \notin unnamed
<1>6. \A e, f \in EndsOf(network) : Matches(ReportOf(e), ReportOf(f)) <=> linked(e, f)
  BY ReportsMatch
<1> HIDE DEF from, network, unnamed
<1>7. \A i, j \in DOMAIN drawn : linked(from(i), from(j)) => i = j
  BY <1>1, <1>3, <1>6
<1>8. ASSUME NEW e \in ends PROVE \E j \in DOMAIN drawn : linked(from(j), e)
  <2>1. e \in ReportedEnds /\ e \in EndsOf(network)
    BY <1>4
  <2>2. PICK j \in DOMAIN drawn : Matches(drawn[j], ReportOf(e))
    BY <1>1, <2>1
  <2>3. QED
    BY <1>3, <1>6, <2>1, <2>2
<1>9. \A j \in same : from(j) \in ends
  BY <1>3, <1>4
<1>10. CASE cable \cap unnamed = {} /\ ends # {}
  <2>1. PICK e \in ends : TRUE
    BY <1>10
  <2>2. PICK j \in DOMAIN drawn : linked(from(j), e)
    BY <1>8
  <2>3. from(j) \in cable
    <3>1. CASE from(j) = e
      BY <3>1
    <3>2. CASE e = Peer(network, from(j))
      <4>1. from(j) \in EndsOf(network)
        BY <1>3
      <4>2. Peer(network, e) = from(j)
        BY <1>2, <3>2, <4>1, EndIs DEF network
      <4>3. QED
        BY <1>5, <4>2
    <3>3. QED
      BY <2>2, <3>1, <3>2
  <2>4. ASSUME NEW i \in same PROVE i = j
    <3>1. from(i) \in cable /\ i \in DOMAIN drawn
      OBVIOUS
    <3>2. cable = {from(i), Peer(network, from(i))}
      BY <1>5, <3>1
    <3>3. linked(from(i), from(j))
      BY <1>10, <2>3, <3>1, <3>2
    <3>4. QED
      BY <1>7, <3>1, <3>3
  <2>5. same = {j}
    BY <2>3, <2>4
  <2> HIDE DEF same
  <2>6. Cardinality(same) = 1
    BY <2>5, FS_Singleton
  <2>7. QED
    BY <1>10, <2>6 DEF same, from, drawn, network, unnamed
<1>11. CASE ~(cable \cap unnamed = {} /\ ends # {})
  <2> DEFINE to == [j \in same |-> from(j)]
  <2>1. to \in [same -> ends]
    BY <1>9
  <2>2. to \in Injection(same, ends)
    <3>1. \A i, j \in same : to[i] = to[j] => i = j
      BY <1>7
    <3>2. QED
      BY <2>1, <3>1 DEF Injection, IsInjective
  <2>3. ASSUME NEW e \in ends PROVE \E j \in same : to[j] = e
    <3>1. PICK j \in DOMAIN drawn : linked(from(j), e)
      BY <1>8
    <3>2. from(j) = e
      <4>1. SUFFICES ASSUME e = Peer(network, from(j)), from(j) \notin unnamed,
                            e \notin unnamed
                     PROVE  FALSE
        BY <3>1
      <4>2. Peer(network, e) = from(j)
        <5>1. from(j) \in EndsOf(network)
          BY <1>3
        <5>2. QED
          BY <1>2, <4>1, <5>1, EndIs DEF network
      <4>3. cable = {e, from(j)}
        BY <1>5, <4>2
      <4>4. QED
        BY <1>11, <4>1, <4>3
    <3>3. QED
      BY <3>2
  <2>4. to \in Surjection(same, ends)
    BY <2>1, <2>3 DEF Surjection
  <2>5. IsFiniteSet(same)
    <3>1. same \subseteq 1..Len(drawn)
      BY <1>1
    <3>2. IsFiniteSet(1..Len(drawn))
      BY <1>1, FS_Interval
    <3> HIDE DEF same
    <3>3. QED
      BY <3>1, <3>2, FS_Subset
  <2> HIDE DEF same, ends, to
  <2>6. Cardinality(ends) = Cardinality(same)
    BY <2>2, <2>4, <2>5, FS_Surjection
  <2>7. QED
    BY <1>11, <2>6 DEF same, ends, from, drawn, network, unnamed
<1>12. QED
  BY <1>10, <1>11

MacOfNode(i) == Placed[i].mac

\* The nodes of a network: the devices at the reported ends, each once, and all of
\* them unless the array is full.
LEMMA PlacedIs ==
  ASSUME input \in TopologyInputs
  PROVE  /\ DOMAIN Placed = 1..Len(Placed) /\ Len(Placed) \in Nat
         /\ \E N : Placed \in Seq(N)
         /\ \A i, j \in DOMAIN Placed : i # j => MacOfNode(i) # MacOfNode(j)
         /\ \A i \in DOMAIN Placed :
              /\ Placed[i].label = LabelOf(Placed[i].mac)
              /\ \E end \in ReportedEnds :
                   \/ Placed[i].mac = end[1]
                   \/ Placed[i].mac = Peer(input.network, end)[1]
         /\ Len(Placed) < 2 * DeviceCount =>
              \A end \in ReportedEnds :
                /\ Net!HasNode(Placed, end[1])
                /\ Net!HasNode(Placed, Peer(input.network, end)[1])
<1> DEFINE rs == Reports(List)
           R == Elements(rs)
<1>1. rs \in Seq(R) /\ R = {ReportOf(end) : end \in ReportedEnds}
  BY EveryEndReports
<1>2. DeviceCount \in Nat
  BY OrderIs
<1>3. \A r \in R : \E i \in 1..Len(rs) : rs[i] = r
  BY <1>1 DEF Elements
<1> HIDE DEF rs, R
<1>4. /\ Net!Nodes(rs, DeviceCount) \in Seq(Net!NodesOf(R))
      /\ Net!PlacedRight(Net!Nodes(rs, DeviceCount), rs, Len(rs))
  BY <1>1, <1>2, Net!DevicesPlacedOnce
<1>5. Net!Nodes(rs, DeviceCount) = Placed
  BY DEF Placed, rs, Net!Nodes, Nodes, Net!AppendNode, AppendNode, Net!NodeIndex,
         NodeIndex, Net!FirstOf, FirstOf, Net!NodeCapacity, NodeCapacity, FoldLeft,
         Net!FoldLeft, MapThenFoldSet, Net!MapThenFoldSet, Max, Net!Max
<1>6. Net!NodeCapacity(DeviceCount) = 2 * DeviceCount
  BY <1>2 DEF Net!NodeCapacity
<1> DEFINE placed == Placed
<1>7. placed \in Seq(Net!NodesOf(R)) /\ Net!PlacedRight(placed, rs, Len(rs))
  BY <1>4, <1>5
<1> HIDE DEF placed
<1>8. /\ DOMAIN placed = 1..Len(placed) /\ Len(placed) \in Nat
      /\ \A i \in DOMAIN placed : placed[i] \in Net!NodesOf(R)
  BY <1>7
<1>9. \A i, j \in DOMAIN placed : i # j => placed[i].mac # placed[j].mac
  BY <1>7 DEF Net!PlacedRight, Net!Distinct
<1>10. ASSUME NEW i \in DOMAIN placed
       PROVE  /\ placed[i].label = LabelOf(placed[i].mac)
              /\ \E end \in ReportedEnds :
                   \/ placed[i].mac = end[1]
                   \/ placed[i].mac = Peer(input.network, end)[1]
  <2>1. PICK r \in R : \/ placed[i] = [label |-> r.leftLabel, mac |-> r.leftMac]
                       \/ placed[i] = [label |-> r.rightLabel, mac |-> r.rightMac]
    BY <1>8 DEF Net!NodesOf
  <2>2. PICK end \in ReportedEnds : r = ReportOf(end)
    BY <1>1
  <2>3. \/ placed[i].label = r.leftLabel /\ placed[i].mac = r.leftMac
        \/ placed[i].label = r.rightLabel /\ placed[i].mac = r.rightMac
    BY <2>1
  <2>4. /\ r.leftLabel = LabelOf(end[1]) /\ r.leftMac = end[1]
        /\ r.rightMac = Peer(input.network, end)[1]
        /\ r.rightLabel = LabelOf(Peer(input.network, end)[1])
    BY <2>2 DEF ReportOf
  <2>5. QED
    BY <2>3, <2>4
<1>11. ASSUME Len(placed) < 2 * DeviceCount, NEW end \in ReportedEnds
       PROVE  /\ Net!HasNode(placed, end[1])
              /\ Net!HasNode(placed, Peer(input.network, end)[1])
  <2>1. PICK i \in 1..Len(rs) : rs[i] = ReportOf(end)
    BY <1>1, <1>3
  <2>2. rs[i].leftMac = end[1] /\ rs[i].rightMac = Peer(input.network, end)[1]
    BY <2>1 DEF ReportOf
  <2>3. Net!HasNode(placed, rs[i].leftMac) /\ Net!HasNode(placed, rs[i].rightMac)
    BY <1>6, <1>7, <1>11 DEF Net!PlacedRight
  <2>4. QED
    BY <2>2, <2>3
<1>12. QED
  BY <1>7, <1>8, <1>9, <1>10, <1>11 DEF placed, MacOfNode

\* The chain that is printed, by the operators of both modules.
LEMMA ChainsAgree ==
  /\ Net!Chain(Drawn, Placed) = Chain(Drawn, Placed)
  /\ Net!StartIndex(Drawn, Placed) = StartIndex(Drawn, Placed)
  /\ Net!IsChain(Drawn, Placed) <=> IsChain(Drawn, Placed)
<1> DEFINE drawn == Drawn
           placed == Placed
<1> HIDE DEF drawn, placed
<1>1. Net!StartIndex(drawn, placed) = StartIndex(drawn, placed)
  BY DEF Net!StartIndex, StartIndex, Net!Degree, Degree, Net!FirstOf, FirstOf,
         Cardinality, Net!Cardinality
<1>2. Net!Chain(drawn, placed) = Chain(drawn, placed)
  BY <1>1 DEF Net!Chain, Chain, Net!ChainStep, ChainStep, Net!EdgeForNode, EdgeForNode,
         Net!Touches, Touches, Net!OtherEnd, OtherEnd, Net!NodeIndex, NodeIndex,
         Net!FirstOf, FirstOf, FoldLeft, Net!FoldLeft, MapThenFoldSet,
         Net!MapThenFoldSet, Max, Net!Max
<1>3. Net!IsChain(drawn, placed) <=> IsChain(drawn, placed)
  BY <1>1 DEF Net!IsChain, IsChain
<1>4. QED
  BY <1>1, <1>2, <1>3 DEF drawn, placed

\* A chain ends at an "unknown device" only when the array of nodes is full and a
\* device that an edge leads to has no node.
LEMMA UnknownMeansFull ==
  ASSUME input \in TopologyInputs, IsChain(Drawn, Placed), Chain(Drawn, Placed).at = 0
  PROVE  \E end \in EndsOf(input.network) :
           /\ Len(Placed) >= 2 * DeviceCount
           /\ ~Net!HasNode(Placed, end[1])
<1> DEFINE chain == Chain(Drawn, Placed)
           k == Len(chain.printed)
           start == StartIndex(Drawn, Placed)
<1>1. /\ Drawn \in Seq(Elements(Reports(List)))
      /\ \A j \in DOMAIN Drawn : \E end \in ReportedEnds : Drawn[j] = ReportOf(end)
  BY DrawnIs
<1>2. /\ DOMAIN Placed = 1..Len(Placed) /\ Len(Placed) \in Nat
      /\ Len(Placed) < 2 * DeviceCount =>
              \A end \in ReportedEnds :
                /\ Net!HasNode(Placed, end[1])
                /\ Net!HasNode(Placed, Peer(input.network, end)[1])
  BY PlacedIs
<1>3. Net!WalkRight(chain, Len(Drawn))
  <2>1. PICK N : Placed \in Seq(N)
    BY PlacedIs
  <2>2. Net!WalkRight(Net!Chain(Drawn, Placed), Len(Drawn))
    BY <1>1, <2>1, Net!ChainIsWalk
  <2>3. QED
    BY <2>2, ChainsAgree
<1>4. chain.at = 0 /\ start # 0
  BY DEF IsChain
<1>5. start \in DOMAIN Placed
  <2> DEFINE S == {i \in DOMAIN Placed : Degree(Drawn, Placed[i].mac) = 1}
  <2>1. S \subseteq Nat /\ start = FirstOf(S)
    BY <1>2 DEF StartIndex
  <2> HIDE DEF S, start
  <2>2. start \in S
    BY <1>4, <2>1, FirstIs
  <2>3. QED
    BY <2>2 DEF S
<1> HIDE DEF chain
<1>6. /\ chain.printed \in Seq(DOMAIN Drawn)
      /\ \E walk :
           /\ walk[1] = Placed[start].mac
           /\ \A i \in DOMAIN chain.printed :
                Net!Joins(Drawn[chain.printed[i]], walk[i], walk[i + 1])
           /\ ~Net!HasNode(Placed, walk[k + 1])
  BY <1>3, <1>4, ChainsAgree DEF Net!WalkRight
<1>7. PICK walk :
        /\ walk[1] = Placed[start].mac
        /\ \A i \in DOMAIN chain.printed :
             Net!Joins(Drawn[chain.printed[i]], walk[i], walk[i + 1])
        /\ ~Net!HasNode(Placed, walk[k + 1])
  BY <1>6
<1>8. Net!HasNode(Placed, walk[1])
  BY <1>5, <1>7 DEF Net!HasNode
<1>9. k \in Nat /\ DOMAIN chain.printed = 1..k /\ \A i \in 1..k : chain.printed[i] \in DOMAIN Drawn
  BY <1>6
<1> HIDE DEF k
<1>10. k # 0
  <2>1. k = 0 => k + 1 = 1
    OBVIOUS
  <2>2. QED
    BY <1>7, <1>8, <2>1
<1>11. k \in 1..k
  BY <1>9, <1>10
<1>12. PICK end \in ReportedEnds : Drawn[chain.printed[k]] = ReportOf(end)
  BY <1>1, <1>9, <1>11
<1> DEFINE peer == Peer(input.network, end)
<1>13. walk[k + 1] = end[1] \/ walk[k + 1] = peer[1]
  <2>1. Net!Joins(ReportOf(end), walk[k], walk[k + 1])
    BY <1>7, <1>9, <1>11, <1>12
  <2>2. ReportOf(end).leftMac = end[1] /\ ReportOf(end).rightMac = peer[1]
    BY DEF ReportOf
  <2>3. QED
    BY <2>1, <2>2 DEF Net!Joins
<1>14. ~(Len(Placed) < 2 * DeviceCount)
  BY <1>2, <1>7, <1>13
<1>15. end \in EndsOf(input.network) /\ peer \in EndsOf(input.network)
  <2>1. end \in EndsOf(input.network)
    BY DEF ReportedEnds
  <2>2. QED
    BY <2>1, NetworkInput, EndIs
<1> HIDE DEF peer
<1>16. PICK e \in EndsOf(input.network) : walk[k + 1] = e[1]
  BY <1>13, <1>15
<1>17. ~Net!HasNode(Placed, e[1])
  BY <1>7, <1>16
<1>18. Len(Placed) >= 2 * DeviceCount
  <2>1. DeviceCount \in Nat
    BY OrderIs
  <2> DEFINE n == DeviceCount
             m == Len(Placed)
  <2>2. n \in Nat /\ m \in Nat /\ ~(m < 2 * n)
    BY <1>2, <1>14, <2>1
  <2> HIDE DEF n, m
  <2>3. m >= 2 * n
    BY <2>2
  <2>4. QED
    BY <2>3 DEF n, m
<1>19. QED
  BY <1>17, <1>18

\* Then more peers were heard of than devices are listed.
LEMMA UnknownMeansMorePeers ==
  ASSUME input \in TopologyInputs, IsChain(Drawn, Placed), Chain(Drawn, Placed).at = 0
  PROVE  Cardinality({end[1] : end \in EndsOf(input.network)} \ input.network.listed)
           > DeviceCount
<1> DEFINE network == input.network
           ends == EndsOf(network)
           named == {end[1] : end \in ends}
           peers == named \ network.listed
           placed == 1..Len(Placed)
           macs == {MacOfNode(i) : i \in placed}
           n == DeviceCount
           m == Len(Placed)
<1>1. PICK lost \in ends : m >= 2 * n /\ ~Net!HasNode(Placed, lost[1])
  BY UnknownMeansFull
<1>2. /\ DOMAIN Placed = placed /\ m \in Nat
      /\ \A i, j \in placed : i # j => MacOfNode(i) # MacOfNode(j)
      /\ \A i \in placed : \E end \in ReportedEnds :
           \/ MacOfNode(i) = end[1]
           \/ MacOfNode(i) = Peer(input.network, end)[1]
  BY PlacedIs DEF MacOfNode
<1>3. n \in Nat /\ n = Cardinality(network.listed) /\ IsFiniteSet(network.listed)
  BY OrderIs
<1>4. IsNetwork(network)
  BY NetworkInput
<1>5. IsFiniteSet(ends)
  BY <1>4 DEF IsNetwork, EndsOf
<1>6. IsFiniteSet(named)
  <2> DEFINE first == [end \in ends |-> end[1]]
  <2>1. first \in Surjection(ends, named)
    BY DEF Surjection
  <2> HIDE DEF first, ends, named
  <2>2. QED
    BY <1>5, <2>1, FS_Surjection
<1>7. IsFiniteSet(peers) /\ Cardinality(peers) \in Nat
  <2>1. peers \subseteq named
    OBVIOUS
  <2> HIDE DEF peers, named
  <2>2. QED
    BY <1>6, <2>1, FS_Subset, FS_CardinalityType
<1>8. IsFiniteSet(macs) /\ Cardinality(macs) = m
  <2> DEFINE mac == [i \in placed |-> MacOfNode(i)]
  <2>1. mac \in Surjection(placed, macs)
    BY DEF Surjection
  <2>2. mac \in Injection(placed, macs)
    BY <1>2 DEF Injection, IsInjective
  <2>3. IsFiniteSet(placed) /\ Cardinality(placed) = m
    BY <1>2, FS_Interval
  <2> HIDE DEF mac, macs, placed, m
  <2>4. QED
    BY <2>1, <2>2, <2>3, FS_Surjection
<1>9. lost[1] \notin macs
  BY <1>1, <1>2 DEF Net!HasNode, MacOfNode
<1>10. ASSUME NEW i \in placed PROVE MacOfNode(i) \in named
  <2>1. PICK end \in ReportedEnds :
          \/ MacOfNode(i) = end[1]
          \/ MacOfNode(i) = Peer(network, end)[1]
    BY <1>2
  <2>2. end \in ends
    BY DEF ReportedEnds
  <2>3. Peer(network, end) \in ends
    BY <1>4, <2>2, EndIs
  <2>4. QED
    BY <2>1, <2>2, <2>3
<1> DEFINE more == macs \cup {lost[1]}
           all == network.listed \cup peers
<1>11. more \subseteq all
  BY <1>1, <1>10
<1> HIDE DEF macs, peers, network
<1>12. Cardinality(more) = m + 1 /\ IsFiniteSet(more)
  BY <1>8, <1>9, FS_AddElement
<1>13. /\ IsFiniteSet(all)
       /\ Cardinality(all) = n + Cardinality(peers) - Cardinality(network.listed \cap peers)
  BY <1>3, <1>7, FS_Union
<1>14. network.listed \cap peers = {}
  BY DEF peers
<1>15. Cardinality(network.listed \cap peers) = 0
  BY <1>14, FS_EmptySet
<1> HIDE DEF more, all
<1>16. Cardinality(more) <= Cardinality(all)
  BY <1>11, <1>13, FS_Subset
<1> DEFINE c == Cardinality(peers)
<1>17. m + 1 <= n + c - 0
  BY <1>12, <1>13, <1>15, <1>16
<1> HIDE DEF m, n, c
<1>18. c > n
  BY <1>1, <1>2, <1>3, <1>7, <1>17 DEF c
<1>19. QED
  BY <1>18 DEF c, n, peers, network

\* The edges of a line are the steps of a walk over its nodes.
LEMMA LineIsPath ==
  ASSUME input \in TopologyInputs, IsLine(Drawn, Placed)
  PROVE  \E walk : Net!IsPath(walk, Len(Placed))
<1> DEFINE n == Len(Placed)
           placed == 1..n
           macs == {MacOfNode(i) : i \in placed}
           steps == 1..(n - 1)
<1>1. /\ DOMAIN Placed = placed /\ n \in Nat
      /\ \A i, j \in placed : i # j => MacOfNode(i) # MacOfNode(j)
  BY PlacedIs
<1>2. /\ DOMAIN Drawn = 1..Len(Drawn) /\ Len(Drawn) \in Nat
      /\ Len(Drawn) < EdgeCapacity(DeviceCount) =>
              \A end \in ReportedEnds :
                \E j \in DOMAIN Drawn : Matches(Drawn[j], ReportOf(end))
  BY DrawnIs
<1>3. {Placed[i].mac : i \in DOMAIN Placed} = macs
  BY <1>1 DEF MacOfNode
<1>4. Cardinality(macs) = n /\ IsFiniteSet(macs)
  <2> DEFINE mac == [i \in placed |-> MacOfNode(i)]
  <2>1. mac \in Surjection(placed, macs)
    BY DEF Surjection
  <2>2. mac \in Injection(placed, macs)
    BY <1>1 DEF Injection, IsInjective
  <2>3. IsFiniteSet(placed) /\ Cardinality(placed) = n
    BY <1>1, FS_Interval
  <2> HIDE DEF mac, macs, placed, n
  <2>4. QED
    BY <2>1, <2>2, <2>3, FS_Surjection
<1> HIDE DEF macs
<1>5. Len(Drawn) = n - 1
  BY DEF IsLine
<1>6. PICK walk \in SetToSeqs(macs) :
        {{Drawn[i].leftMac, Drawn[i].rightMac} : i \in DOMAIN Drawn} =
          {{walk[i], walk[i + 1]} : i \in 1..(Len(walk) - 1)}
  BY <1>3 DEF IsLine
<1>7. walk \in [placed -> macs] /\ \A i, j \in placed : i # j => walk[i] # walk[j]
  BY <1>4, <1>6 DEF SetToSeqs
<1>8. Len(walk) = n
  BY <1>1, <1>7
<1>9. \A mac \in macs : \E i \in placed : walk[i] = mac
  <2>1. walk \in Injection(placed, macs)
    BY <1>7 DEF Injection, IsInjective
  <2>2. Cardinality(placed) = n
    BY <1>1, FS_Interval
  <2> HIDE DEF n, placed
  <2>3. walk \in Surjection(placed, macs)
    BY <1>4, <2>1, <2>2, FS_Injection
  <2>4. QED
    BY <2>3 DEF Surjection
<1>10. n > 1
  <2>1. n >= 1
    <3> DEFINE m == Len(Drawn)
    <3> HIDE DEF m, n
    <3>1. m \in Nat /\ n \in Nat /\ m = n - 1
      BY <1>1, <1>2, <1>5 DEF m
    <3>2. QED
      BY <3>1
  <2>2. n # 1
    <3>1. SUFFICES ASSUME n = 1 PROVE FALSE
      OBVIOUS
    <3>2. 1 \in DOMAIN Placed
      BY <1>1, <3>1
    <3>3. PICK end : end \in ReportedEnds
      BY <3>2, PlacedIs
    <3>4. Len(Drawn) = 0 /\ DOMAIN Drawn = {}
      BY <1>2, <1>5, <3>1
    <3>5. DeviceCount \in Nat /\ DeviceCount # 0
      <4>1. end[1] \in input.network.listed
        BY <3>3 DEF ReportedEnds, Reported
      <4>2. PICK i \in 1..DeviceCount : input.order[i] = end[1]
        BY <4>1, OrderIs
      <4>3. QED
        BY <4>2, OrderIs
    <3>6. 0 < EdgeCapacity(DeviceCount)
      BY <3>5 DEF EdgeCapacity
    <3>7. QED
      BY <1>2, <3>3, <3>4, <3>6
  <2> HIDE DEF n
  <2>3. QED
    BY <1>1, <2>1, <2>2
<1>11. \A i \in placed : Net!HasNode(Placed, walk[i])
  <2>1. ASSUME NEW i \in placed PROVE Net!HasNode(Placed, walk[i])
    <3>1. walk[i] \in macs
      BY <1>7
    <3>2. QED
      BY <1>1, <3>1 DEF macs, MacOfNode, Net!HasNode
  <2>2. QED
    BY <2>1
<1>12. ASSUME NEW i \in DOMAIN Placed PROVE \E j \in placed : Placed[i].mac = walk[j]
  <2>1. Placed[i].mac \in macs
    BY <1>3
  <2>2. QED
    BY <1>9, <2>1
<1>13. ASSUME NEW e \in DOMAIN Drawn
       PROVE  \E i \in steps : Net!Joins(Drawn[e], walk[i], walk[i + 1])
  <2>1. PICK i \in steps : {Drawn[e].leftMac, Drawn[e].rightMac} = {walk[i], walk[i + 1]}
    BY <1>6, <1>8
  <2>2. QED
    BY <2>1 DEF Net!Joins
<1>14. ASSUME NEW i \in steps
       PROVE  \E e \in DOMAIN Drawn : Net!Joins(Drawn[e], walk[i], walk[i + 1])
  <2>1. PICK e \in DOMAIN Drawn :
          {Drawn[e].leftMac, Drawn[e].rightMac} = {walk[i], walk[i + 1]}
    BY <1>6, <1>8
  <2>2. QED
    BY <2>1 DEF Net!Joins
<1>15. Net!IsPath(walk, n)
  BY <1>1, <1>5, <1>7, <1>10, <1>11, <1>12, <1>13, <1>14 DEF Net!IsPath
<1>16. QED
  BY <1>15

-----------------------------------------------------------------------------
(* What is drawn of a network, for every network.                           *)

TopologyInput == algorithm = "topology" => input \in TopologyInputs

LEMMA InputStays == Spec => []TopologyInput
<1>1. Init => TopologyInput
  BY DEF Init, TopologyInput
<1>2. TopologyInput /\ [Next]_vars => TopologyInput'
  BY DEF TopologyInput, Next, vars
<1>3. QED
  BY <1>1, <1>2, PTL DEF Spec

(***************************************************************************)
(* Of any network, with any devices that do not answer, any ports that are  *)
(* not named and the list in any order, each cable that an end reports is   *)
(* drawn, and once when both ends are named (main.c:160-187, 265-277).      *)
(***************************************************************************)
THEOREM LinksDrawnOnce == Spec => []LinkDrawnOnce
<1>1. TopologyInput => LinkDrawnOnce
  <2>1. SUFFICES ASSUME input \in TopologyInputs PROVE LinkDrawnOnce
    BY DEF TopologyInput, LinkDrawnOnce
  <2>2. QED
    BY <2>1, LinkOf DEF LinkDrawnOnce
<1>2. QED
  BY <1>1, InputStays, PTL

(***************************************************************************)
(* Each device has one label in all of the drawing, and an "unknown device" *)
(* means that more peers were heard of than the array of nodes has room for *)
(* (main.c:97-113, 211, 278-331, 410).                                      *)
(***************************************************************************)
THEOREM DrawingNamed == Spec => []DevicesNamed
<1>1. TopologyInput => DevicesNamed
  <2>1. SUFFICES ASSUME input \in TopologyInputs PROVE DevicesNamed
    BY DEF TopologyInput, DevicesNamed
  <2>2. ASSUME NEW i \in DOMAIN Placed
        PROVE  Placed[i].label = LabelOf(Placed[i].mac)
    BY <2>1, PlacedIs
  <2>3. ASSUME NEW i \in DOMAIN Drawn
        PROVE  /\ Drawn[i].leftLabel = LabelOf(Drawn[i].leftMac)
               /\ Drawn[i].rightLabel = LabelOf(Drawn[i].rightMac)
    <3>1. PICK end \in ReportedEnds : Drawn[i] = ReportOf(end)
      BY <2>1, DrawnIs
    <3>2. QED
      BY <3>1 DEF ReportOf
  <2>4. IsChain(Drawn, Placed) /\ Chain(Drawn, Placed).at = 0 =>
          Cardinality({end[1] : end \in EndsOf(input.network)} \ input.network.listed)
            > DeviceCount
    BY <2>1, UnknownMeansMorePeers
  <2>5. QED
    BY <2>2, <2>3, <2>4 DEF DevicesNamed, LabelOf
<1>2. QED
  BY <1>1, InputStays, PTL

(***************************************************************************)
(* Devices in a line are printed as one chain with every link once, of any  *)
(* length and whoever reports first (main.c:356-417).                       *)
(***************************************************************************)
THEOREM LinesDrawnWhole == Spec => []LineDrawnWhole
<1>1. TopologyInput => LineDrawnWhole
  <2>1. SUFFICES ASSUME input \in TopologyInputs, IsLine(Drawn, Placed)
                 PROVE  LET printed == Chain(Drawn, Placed).printed IN
                        /\ IsChain(Drawn, Placed)
                        /\ Len(printed) = Len(Drawn)
                        /\ {printed[i] : i \in DOMAIN printed} = DOMAIN Drawn
    BY DEF TopologyInput, LineDrawnWhole
  <2>2. PICK walk : Net!IsPath(walk, Len(Placed))
    BY <2>1, LineIsPath
  <2>3. Drawn \in Seq(Elements(Reports(List))) /\ \E N : Placed \in Seq(N)
    BY <2>1, DrawnIs, PlacedIs
  <2>4. PICK N : Placed \in Seq(N)
    BY <2>3
  <2>5. LET printed == Net!Chain(Drawn, Placed).printed IN
        /\ Net!IsChain(Drawn, Placed)
        /\ Len(printed) = Len(Drawn)
        /\ {printed[i] : i \in DOMAIN printed} = DOMAIN Drawn
    BY <2>2, <2>3, <2>4, Net!LineIsPrinted
  <2>6. QED
    BY <2>5, ChainsAgree
<1>2. QED
  BY <1>1, InputStays, PTL

-----------------------------------------------------------------------------
(* The next hop of a request (Targets), for any address and any prefix.     *)

Byte == {n \in Nat : n <= 255}

\* A bit more says in which half of the values a byte is.
LEMMA Halved ==
  ASSUME NEW a \in Byte, NEW b \in Byte, NEW w \in Bits
  PROVE  a \div w = b \div w <=>
           /\ a \div (2 * w) = b \div (2 * w)
           /\ IsSet(a, w) <=> IsSet(b, w)
<1>1. a \in Nat /\ b \in Nat
  BY DEF Byte
<1>2. CASE w = 1
  BY <1>1, <1>2 DEF IsSet
<1>3. CASE w = 2
  BY <1>1, <1>3 DEF IsSet
<1>4. CASE w = 4
  BY <1>1, <1>4 DEF IsSet
<1>5. CASE w = 8
  BY <1>1, <1>5 DEF IsSet
<1>6. CASE w = 16
  BY <1>1, <1>6 DEF IsSet
<1>7. CASE w = 32
  BY <1>1, <1>7 DEF IsSet
<1>8. CASE w = 64
  BY <1>1, <1>8, SMT DEF IsSet
<1>9. CASE w = 128
  BY <1>1, <1>9, SMT DEF IsSet
<1>10. QED
  BY <1>2, <1>3, <1>4, <1>5, <1>6, <1>7, <1>8, <1>9 DEF Bits

\* A mask has the bits from a weight on.
LEMMA MaskHas ==
  ASSUME NEW w \in Bits \cup {256}, NEW bit \in Bits
  PROVE  IsSet(256 - w, bit) <=> bit >= w
  BY SMTT(60) DEF IsSet, Bits

LEMMA ByteMasked ==
  ASSUME NEW a \in Byte, NEW b \in Byte, NEW w \in Bits \cup {256}
  PROVE  {bit \in Bits : IsSet(a, bit) /\ IsSet(256 - w, bit)}
           = {bit \in Bits : IsSet(b, bit) /\ IsSet(256 - w, bit)}
         <=> a \div w = b \div w
<1> DEFINE eq(v) == a \div v = b \div v
           same(v) == IsSet(a, v) <=> IsSet(b, v)
           masked(x) == {bit \in Bits : IsSet(x, bit) /\ IsSet(256 - w, bit)}
<1>1. masked(a) = masked(b) <=> \A bit \in Bits : bit >= w => same(bit)
  <2> HIDE DEF same
  <2>1. \A bit \in Bits : IsSet(256 - w, bit) <=> bit >= w
    BY MaskHas
  <2>2. QED
    BY <2>1 DEF same
<1>2. eq(256)
  BY SMT DEF Byte
<1>3. \A v \in Bits : eq(v) <=> eq(2 * v) /\ same(v)
  BY Halved
<1> HIDE DEF eq, same
<1>4. /\ eq(128) <=> same(128)
      /\ eq(64) <=> eq(128) /\ same(64)
      /\ eq(32) <=> eq(64) /\ same(32)
      /\ eq(16) <=> eq(32) /\ same(16)
      /\ eq(8) <=> eq(16) /\ same(8)
      /\ eq(4) <=> eq(8) /\ same(4)
      /\ eq(2) <=> eq(4) /\ same(2)
      /\ eq(1) <=> eq(2) /\ same(1)
  BY <1>2, <1>3, SMT DEF Bits
<1>5. (\A bit \in Bits : bit >= w => same(bit)) <=> eq(w)
  BY <1>2, <1>4, SMT DEF Bits
<1>6. masked(a) = masked(b) <=> eq(w)
  BY <1>1, <1>5
<1>7. QED
  BY <1>6 DEF eq

IsAddress(address) == \A i \in 1..4 : address[i] \in Byte

(***************************************************************************)
(* For any two addresses and any prefix: the masked addresses are equal     *)
(* just when the addresses have the first bits of the prefix in common      *)
(* (deviceHandler.c:304-320).                                               *)
(***************************************************************************)
THEOREM SubnetIsPrefix ==
  ASSUME NEW own, IsAddress(own), NEW target, IsAddress(target),
         NEW prefix \in Nat, prefix <= 32
  PROVE  IsTargetOnLocalSubnet(own, MaskOf(prefix), target)
           <=> SameBits(own, target, prefix)
<1> DEFINE w(i) == HostValues(prefix, i)
           masked(x, i) == {bit \in Bits : IsSet(x[i], bit) /\ IsSet(256 - w(i), bit)}
<1>1. ASSUME NEW i \in 1..4 PROVE w(i) \in Bits \cup {256}
  <2>1. CASE 8 * i <= prefix
    BY <2>1 DEF HostValues, Bits
  <2>2. CASE ~(8 * i <= prefix) /\ 8 * i >= prefix + 8
    BY <2>2 DEF HostValues, Bits
  <2>3. CASE ~(8 * i <= prefix) /\ ~(8 * i >= prefix + 8)
    <3> DEFINE d == 8 * i - prefix
    <3>1. d = 1 \/ d = 2 \/ d = 3 \/ d = 4 \/ d = 5 \/ d = 6 \/ d = 7
      BY <2>3
    <3>2. w(i) = <<2, 4, 8, 16, 32, 64, 128>>[d]
      BY <2>3 DEF HostValues
    <3> HIDE DEF d, w
    <3>3. QED
      BY <3>1, <3>2 DEF Bits
  <2>4. QED
    BY <2>1, <2>2, <2>3
<1>2. ASSUME NEW i \in 1..4
      PROVE  masked(own, i) = masked(target, i) <=> own[i] \div w(i) = target[i] \div w(i)
  <2> HIDE DEF w
  <2>1. w(i) \in Bits \cup {256} /\ own[i] \in Byte /\ target[i] \in Byte
    BY <1>1 DEF IsAddress
  <2>2. QED
    BY <2>1, ByteMasked
<1>3. /\ Masked(own, MaskOf(prefix)) = [i \in 1..4 |-> masked(own, i)]
      /\ Masked(target, MaskOf(prefix)) = [i \in 1..4 |-> masked(target, i)]
  BY Zenon DEF Masked, MaskOf
<1> HIDE DEF w, masked
<1>4. [i \in 1..4 |-> masked(own, i)] = [i \in 1..4 |-> masked(target, i)]
        <=> \A i \in 1..4 : masked(own, i) = masked(target, i)
  <2> DEFINE f == [i \in 1..4 |-> masked(own, i)]
             g == [i \in 1..4 |-> masked(target, i)]
  <2>1. \A i \in 1..4 : f[i] = masked(own, i) /\ g[i] = masked(target, i)
    OBVIOUS
  <2>2. (\A i \in 1..4 : masked(own, i) = masked(target, i)) => f = g
    OBVIOUS
  <2>3. QED
    BY <2>1, <2>2, Zenon
<1>5. SameBits(own, target, prefix) <=>
        \A i \in 1..4 : own[i] \div w(i) = target[i] \div w(i)
  BY DEF SameBits, w
<1>6. QED
  BY <1>2, <1>3, <1>4, <1>5 DEF IsTargetOnLocalSubnet

\* Where a frame goes: what does not depend on the MAC that is kept.
GatewayHop(env) ==
  IF DefaultRoute(env.routes) = 0 THEN Failed
  ELSE GatewayMac(env, env.routes[DefaultRoute(env.routes)].gateway)

NextHop(env, local, target) ==
  IF local THEN LookupArp(env.arp, target, env.adapter) ELSE GatewayHop(env)

\* The MAC that is kept is none, or that of the gateway.
KeptRight(env) == env.gatewayMac = NoMac \/ env.gatewayMac = GatewayHop(env)

WithMac(env, mac) == [env EXCEPT !.gatewayMac = mac]

(***************************************************************************)
(* The MAC that one request leaves does not lead another astray: each goes  *)
(* where the routes, the cache and the subnet say, and leaves the gateway's *)
(* MAC or none for the next, so that this holds of any number of requests   *)
(* (deviceHandler.c:756-833).                                               *)
(***************************************************************************)
THEOREM KeptMacIsHarmless ==
  ASSUME NEW env, KeptRight(env), NEW target
  PROVE  LET call == ResolveRemoteDestinationMac(env, target)
             local == IsTargetOnLocalSubnet(env.own, env.mask, target)
         IN  /\ call.mac = NextHop(env, local, target)
             /\ call.gatewayMac = NoMac \/ call.gatewayMac = GatewayHop(env)
<1> DEFINE call == ResolveRemoteDestinationMac(env, target)
           local == IsTargetOnLocalSubnet(env.own, env.mask, target)
           kept == env.gatewayMac
           route == DefaultRoute(env.routes)
           gateway == GatewayMac(env, env.routes[route].gateway)
           arp == LookupArp(env.arp, target, env.adapter)
<1>1. call = IF local THEN [mac |-> arp, gatewayMac |-> kept]
             ELSE IF kept # NoMac THEN [mac |-> kept, gatewayMac |-> kept]
             ELSE IF route = 0 THEN [mac |-> Failed, gatewayMac |-> kept]
             ELSE [mac |-> gateway, gatewayMac |-> gateway]
  BY Zenon DEF ResolveRemoteDestinationMac
<1>2. GatewayHop(env) = IF route = 0 THEN Failed ELSE gateway
  BY DEF GatewayHop
<1>3. NextHop(env, local, target) = IF local THEN arp ELSE GatewayHop(env)
  BY DEF NextHop
<1> HIDE DEF call, local, route, gateway, arp
<1>4. kept = NoMac \/ kept = GatewayHop(env)
  BY DEF KeptRight
<1>5. /\ call.mac = NextHop(env, local, target)
      /\ call.gatewayMac = NoMac \/ call.gatewayMac = GatewayHop(env)
  BY <1>1, <1>2, <1>3, <1>4
<1>6. QED
  BY <1>5 DEF call, local

\* The least of a set of numbers.
LEMMA LeastIs ==
  ASSUME NEW S, S \subseteq Nat, S # {}
  PROVE  Min(S) \in S
<1>1. S # {} => FirstOf(S) = Min(S)
  BY DEF FirstOf, Min
<1>2. FirstOf(S) \in S
  BY FirstIs
<1>3. QED
  BY <1>1, <1>2

\* Each line of the cache has its host's MAC.
LEMMA LinesAre ==
  IsSeq(Lines) /\ \A l \in Elements(Lines) : l.mac = MacOf(l.ip, l.adapter)
<1> DEFINE a == << Line(Gateway.w0, "w0"), Line(Gateway.e0, "e0") >>
           b == [i \in DOMAIN Hosts |-> Line(Hosts[i], "e0")]
<1>1. a \in Seq({a[1], a[2]}) /\ Elements(a) = {a[1], a[2]}
  <2> DEFINE x == Line(Gateway.w0, "w0")
             y == Line(Gateway.e0, "e0")
  <2> HIDE DEF x, y
  <2>1. << x, y >> \in Seq({x, y}) /\ DOMAIN << x, y >> = {1, 2}
        /\ << x, y >>[1] = x /\ << x, y >>[2] = y
    OBVIOUS
  <2>2. QED
    BY <2>1 DEF Elements, x, y
<1>2. DOMAIN Hosts = 1..4
  BY DEF Hosts
<1>3. b \in Seq(Elements(b)) /\ DOMAIN b = 1..4
  <2> DEFINE line(i) == Line(Hosts[i], "e0")
  <2> HIDE DEF line
  <2>1. [i \in 1..4 |-> line(i)] \in Seq({line(i) : i \in 1..4})
    OBVIOUS
  <2>2. QED
    BY <1>2, <2>1 DEF Elements, line
<1>4. IsSeq(a) /\ IsSeq(b) /\ Lines = a \o b
  BY <1>1, <1>3 DEF IsSeq, Lines
<1>5. \A x, y : Line(x, y).mac = MacOf(Line(x, y).ip, Line(x, y).adapter)
  BY DEF Line
<1>6. \A l \in Elements(a) : l.mac = MacOf(l.ip, l.adapter)
  BY <1>1, <1>5
<1>7. \A l \in Elements(b) : l.mac = MacOf(l.ip, l.adapter)
  BY <1>3, <1>5 DEF Elements
<1> HIDE DEF a, b
<1>8. IsSeq(Lines) /\ Elements(Lines) = Elements(a) \cup Elements(b)
  BY <1>4, JoinIs, JoinElements
<1>9. QED
  BY <1>6, <1>7, <1>8

\* The lines of the cache that are not missing, and what is found there.
LEMMA CacheIs ==
  ASSUME NEW missing, NEW ip,
         NEW arp, arp = FlattenSeq([i \in DOMAIN Lines |->
                          IF Lines[i].ip \in missing THEN <<>> ELSE << Lines[i] >>])
  PROVE  LookupArp(arp, ip, "e0")
           = IF /\ ip \in {l.ip : l \in {m \in Range(Lines) : m.adapter = "e0"}}
                /\ ip \notin missing
             THEN MacOf(ip, "e0") ELSE Failed
<1> DEFINE part(i) == IF Lines[i].ip \in missing THEN <<>> ELSE << Lines[i] >>
           parts == [i \in DOMAIN Lines |-> part(i)]
           n == Len(Lines)
           here == {i \in DOMAIN arp : arp[i].ip = ip /\ arp[i].adapter = "e0"}
<1>1. IsSeq(Lines) /\ \A l \in Elements(Lines) : l.mac = MacOf(l.ip, l.adapter)
  BY LinesAre
<1>2. n \in Nat /\ DOMAIN Lines = 1..n
  BY <1>1, SeqIs
<1>3. Elements(Lines) = Range(Lines)
  BY DEF Elements, Range
<1> DEFINE lines == Lines
<1> HIDE DEF lines
<1>4. ASSUME NEW i \in 1..n
      PROVE  /\ IsSeq(parts[i])
             /\ Elements(parts[i]) = IF lines[i].ip \in missing THEN {} ELSE {lines[i]}
  <2>1. parts[i] = IF lines[i].ip \in missing THEN <<>> ELSE << lines[i] >>
    BY <1>2 DEF lines
  <2>2. ASSUME NEW x PROVE IsSeq(<< x >>) /\ Elements(<< x >>) = {x}
    <3>1. << x >> \in Seq({x}) /\ DOMAIN << x >> = {1} /\ << x >>[1] = x
      OBVIOUS
    <3>2. QED
      BY <3>1 DEF IsSeq, Elements
  <2> HIDE DEF parts
  <2>3. QED
    BY <2>1, <2>2, NoneIs
<1>5. Len(parts) = n /\ (n = 0 => parts = <<>>)
  <2> HIDE DEF part, n
  <2>1. Len([i \in 1..n |-> part(i)]) = n /\ (n = 0 => [i \in 1..n |-> part(i)] = <<>>)
    BY <1>2
  <2>2. QED
    BY <1>2, <2>1
<1>6. arp = FlattenSeq(parts)
  OBVIOUS
<1> HIDE DEF parts, n
<1>7. IsSeq(arp) /\ Elements(arp) = UNION {Elements(parts[i]) : i \in 1..n}
  <2>1. \A i \in 1..n : IsSeq(parts[i])
    BY <1>4
  <2>2. QED
    BY <1>2, <1>5, <1>6, <2>1, FlattenIs
<1>8. Elements(arp) = {l \in Elements(lines) : l.ip \notin missing}
  <2>1. Elements(lines) = {lines[i] : i \in 1..n}
    BY <1>2 DEF Elements, lines
  <2>2. \A l : l \in Elements(arp) <=> \E i \in 1..n : l \in Elements(parts[i])
    BY <1>7
  <2>3. \A i \in 1..n : \A l : l \in Elements(parts[i]) <=>
                            l = lines[i] /\ lines[i].ip \notin missing
    BY <1>4
  <2>4. \A l : l \in Elements(arp) <=> l \in Elements(lines) /\ l.ip \notin missing
    BY <2>1, <2>2, <2>3
  <2>5. QED
    BY <2>4
<1>9. here = {} <=> ~ \E l \in Elements(lines) : l.ip = ip /\ l.adapter = "e0" /\ ip \notin missing
  <2>1. here = {} <=> ~ \E l \in Elements(arp) : l.ip = ip /\ l.adapter = "e0"
    BY DEF Elements
  <2>2. QED
    BY <1>8, <2>1
<1>10. here = {} <=> ~(/\ ip \in {l.ip : l \in {m \in Range(Lines) : m.adapter = "e0"}}
                       /\ ip \notin missing)
  BY <1>3, <1>9 DEF lines
<1>11. LookupArp(arp, ip, "e0") = IF here = {} THEN Failed ELSE arp[Min(here)].mac
  BY DEF LookupArp
<1>12. ASSUME here # {} PROVE arp[Min(here)].mac = MacOf(ip, "e0")
  <2>1. here \subseteq Nat
    BY <1>7, SeqIs
  <2>2. Min(here) \in here
    <3> HIDE DEF here
    <3>1. QED
      BY <1>12, <2>1, LeastIs
  <2> DEFINE i == Min(here)
  <2> HIDE DEF i
  <2>3. i \in DOMAIN arp /\ arp[i].ip = ip /\ arp[i].adapter = "e0"
    <3>1. i \in here
      <4> HIDE DEF here
      <4>1. QED
        BY <2>2 DEF i
    <3>2. QED
      BY <3>1, Zenon
  <2>4. arp[i] \in Elements(lines)
    <3>1. arp[i] \in Elements(arp)
      BY <2>3, Zenon DEF Elements
    <3>2. QED
      BY <1>8, <3>1, Zenon
  <2>5. arp[i].mac = MacOf(ip, "e0")
    BY <1>1, <2>3, <2>4, Zenon DEF lines
  <2>6. QED
    BY <2>5, Zenon DEF i
<1> HIDE DEF here
<1>13. QED
  BY <1>10, <1>11, <1>12

(***************************************************************************)
(* In particular for the two requests of the runs (deviceHandler.c:307-320, *)
(* 790-833).                                                                *)
(***************************************************************************)
THEOREM NextHopsRight == Spec => []NextHopRight
<1> DEFINE RouteInput == algorithm = "route" => input \in RouteInputs
           own == <<192, 168, 1, 10>>
<1>1. ASSUME input \in RouteInputs, NEW gatewayMac, NEW target,
             target \in {input.first, input.second},
             NEW hop, hop = GatewayHop(EnvOf(input, NoMac)),
             gatewayMac = NoMac \/ gatewayMac = hop
      PROVE  LET call == ResolveRemoteDestinationMac(EnvOf(input, gatewayMac), target)
             IN  /\ call.mac = IF SameBits(own, target, input.prefix)
                               THEN LookupArp(EnvOf(input, NoMac).arp, target, "e0")
                               ELSE hop
                 /\ call.gatewayMac = NoMac \/ call.gatewayMac = hop
  <2> DEFINE env == EnvOf(input, gatewayMac)
             none == EnvOf(input, NoMac)
  <2>1. /\ env.own = own /\ env.mask = MaskOf(input.prefix) /\ env.adapter = "e0"
        /\ env.gatewayMac = gatewayMac /\ none.adapter = "e0"
        /\ env.routes = none.routes /\ env.arp = none.arp
    BY Zenon DEF EnvOf
  <2>2. IsAddress(own) /\ IsAddress(target)
    <3>1. \A x \in {192, 168, 1, 10, 20, 200, 2, 0} : x \in Byte
      BY SMT DEF Byte
    <3>2. target \in Range(Hosts)
      BY <1>1, Zenon DEF RouteInputs
    <3>3. target \in {<<192, 168, 1, 20>>, <<192, 168, 1, 200>>, <<192, 168, 2, 20>>,
                      <<10, 0, 0, 1>>}
      BY <3>2 DEF Range, Hosts
    <3>4. QED
      BY <3>1, <3>3 DEF IsAddress
  <2>3. input.prefix \in Nat /\ input.prefix <= 32
    <3>1. input.prefix \in {16, 24, 25}
      BY <1>1 DEF RouteInputs
    <3>2. QED
      BY <3>1
  <2> HIDE DEF env, none
  <2>4. GatewayHop(env) = GatewayHop(none)
    BY <2>1, Zenon DEF GatewayHop, GatewayMac
  <2>5. KeptRight(env)
    BY <1>1, <2>1, <2>4, Zenon DEF KeptRight, none
  <2>6. IsTargetOnLocalSubnet(env.own, env.mask, target) <=> SameBits(own, target, input.prefix)
    BY <2>1, <2>2, <2>3, SubnetIsPrefix
  <2>7. LET call == ResolveRemoteDestinationMac(env, target)
            local == IsTargetOnLocalSubnet(env.own, env.mask, target)
        IN  /\ call.mac = NextHop(env, local, target)
            /\ call.gatewayMac = NoMac \/ call.gatewayMac = GatewayHop(env)
    BY <2>5, KeptMacIsHarmless
  <2>8. QED
    BY <1>1, <2>1, <2>4, <2>6, <2>7, Zenon DEF NextHop, env, none
<1>2. ASSUME input \in RouteInputs PROVE NextHopRight
  <2> DEFINE hop == GatewayHop(EnvOf(input, NoMac))
             arp == EnvOf(input, NoMac).arp
             known == {l.ip : l \in {m \in Range(Lines) : m.adapter = "e0"}} \ input.missing
             gateway == Gateway[input.routes[Min(DefaultGateways)].adapter]
             to(address, otherwise) ==
               IF address \in known THEN MacOf(address, "e0") ELSE otherwise
  <2>1. /\ First.mac = IF SameBits(own, input.first, input.prefix)
                       THEN LookupArp(arp, input.first, "e0") ELSE hop
        /\ First.gatewayMac = NoMac \/ First.gatewayMac = hop
    BY <1>1, <1>2, Zenon DEF First
  <2>2. Second.mac = IF SameBits(own, input.second, input.prefix)
                     THEN LookupArp(arp, input.second, "e0") ELSE hop
    BY <1>1, <1>2, <2>1, Zenon DEF Second
  <2>3. \A ip : LookupArp(arp, ip, "e0") = to(ip, Failed)
    BY CacheIs, Zenon DEF EnvOf
  <2>4. hop = IF DefaultGateways = {} THEN Failed ELSE to(gateway, NoMac)
    <3> DEFINE env == EnvOf(input, NoMac)
               passing == {i \in DOMAIN env.routes :
                             env.routes[i].default /\ env.routes[i].viaGateway}
               m == Min(DefaultGateways)
    <3>1. DOMAIN input.routes \subseteq Nat /\ 0 \notin DOMAIN input.routes
      <4>1. input.routes \in SeqOf(Routes, 2)
        BY <1>2, Zenon DEF RouteInputs
      <4>2. PICK k \in 0..2 : input.routes \in [1..k -> Routes]
        BY <4>1 DEF SeqOf
      <4>3. QED
        BY <4>2
    <3>2. /\ env.routes = [i \in DOMAIN input.routes |->
                             [default |-> input.routes[i].default,
                              viaGateway |-> input.routes[i].viaGateway,
                              gateway |-> Gateway[input.routes[i].adapter]]]
          /\ env.adapter = "e0" /\ env.arp = arp
      BY Zenon DEF EnvOf
    <3> HIDE DEF env, arp
    <3>3. /\ DOMAIN env.routes = DOMAIN input.routes
          /\ \A i \in DOMAIN input.routes :
               /\ env.routes[i].default <=> input.routes[i].default
               /\ env.routes[i].viaGateway <=> input.routes[i].viaGateway
               /\ env.routes[i].gateway = Gateway[input.routes[i].adapter]
      <4> DEFINE routes == input.routes
      <4> HIDE DEF routes
      <4>1. env.routes = [i \in DOMAIN routes |->
                            [default |-> routes[i].default,
                             viaGateway |-> routes[i].viaGateway,
                             gateway |-> Gateway[routes[i].adapter]]]
        BY <3>2, Zenon DEF routes
      <4>2. /\ DOMAIN env.routes = DOMAIN routes
            /\ \A i \in DOMAIN routes :
                 /\ env.routes[i].default = routes[i].default
                 /\ env.routes[i].viaGateway = routes[i].viaGateway
                 /\ env.routes[i].gateway = Gateway[routes[i].adapter]
        BY <4>1
      <4>3. QED
        BY <4>2, Zenon DEF routes
    <3>4. passing = DefaultGateways
      BY <3>3, Zenon DEF DefaultGateways
    <3>5. DefaultGateways \subseteq Nat /\ 0 \notin DefaultGateways
          /\ DefaultGateways \subseteq DOMAIN input.routes
      BY <3>1, Zenon DEF DefaultGateways
    <3>6. DefaultRoute(env.routes) = IF DefaultGateways = {} THEN 0 ELSE m
      BY <3>4, Zenon DEF DefaultRoute
    <3>7. CASE DefaultGateways = {}
      BY <3>6, <3>7, Zenon DEF GatewayHop, env
    <3>8. CASE DefaultGateways # {}
      <4>1. m \in DefaultGateways
        <5>1. DefaultGateways \subseteq Nat
          BY <3>5
        <5>2. QED
          BY <3>8, <5>1, LeastIs
      <4>2. m # 0 /\ env.routes[m].gateway = gateway
        BY <3>3, <3>5, <4>1, Zenon
      <4>3. hop = GatewayMac(env, gateway)
        BY <3>6, <3>8, <4>2, Zenon DEF GatewayHop, env
      <4>4. LookupArp(env.arp, gateway, env.adapter) = to(gateway, Failed)
        BY <2>3, <3>2, Zenon
      <4>5. gateway \in known => MacOf(gateway, "e0") # Failed
        <5>1. SUFFICES ASSUME gateway \in known PROVE MacOf(gateway, "e0") # Failed
          OBVIOUS
        <5>2. PICK l \in Range(Lines) : l.adapter = "e0" /\ l.ip = gateway
          BY <5>1, Zenon
        <5>3. l.mac = MacOf(l.ip, l.adapter)
          BY <5>2, LinesAre, Zenon DEF Range, Elements
        <5>4. l.mac # Failed
          BY <5>2, MacsAssumption, Zenon
        <5>5. QED
          BY <5>2, <5>3, <5>4, Zenon
      <4> HIDE DEF known, gateway
      <4>6. QED
        BY <3>8, <4>3, <4>4, <4>5, Zenon DEF GatewayMac
    <3>9. QED
      BY <3>7, <3>8
  <2> DEFINE right(address, mac) ==
               mac = IF SameBits(own, address, input.prefix) THEN to(address, Failed)
                     ELSE IF DefaultGateways = {} THEN Failed ELSE to(gateway, NoMac)
  <2>5. right(input.first, First.mac) /\ right(input.second, Second.mac)
    <3> HIDE DEF hop, arp, known, gateway
    <3>1. QED
      BY <2>1, <2>2, <2>3, <2>4, Zenon
  <2>6. \A call \in {<<input.first, First.mac>>, <<input.second, Second.mac>>} :
          right(call[1], call[2])
    <3> DEFINE a == input.first
               b == First.mac
               c == input.second
               d == Second.mac
    <3> HIDE DEF right, a, b, c, d
    <3>1. \A call \in {<<a, b>>, <<c, d>>} :
            (call[1] = a /\ call[2] = b) \/ (call[1] = c /\ call[2] = d)
      OBVIOUS
    <3>2. QED
      BY <2>5, <3>1, Zenon DEF a, b, c, d
  <2>7. QED
    BY <2>6, Zenon DEF NextHopRight
<1>3. Init => RouteInput
  BY DEF Init
<1>4. RouteInput /\ [Next]_vars => RouteInput'
  BY DEF Next, vars
<1>5. RouteInput => NextHopRight
  BY <1>2 DEF NextHopRight
<1>6. QED
  BY <1>3, <1>4, <1>5, PTL DEF Spec

-----------------------------------------------------------------------------
(* The command line.                                                       *)

OptionLoop == INSTANCE LeftFold WITH Step <- TakeArgument, Base <- NoOptions(<<>>)

\* These options after more arguments.
ReadOptions(options, arguments) == OptionLoop!FoldedFrom(options, arguments)

OptionNames ==
  {"interactive", "listInterfaces", "interface", "mode", "target", "duration",
   "pending", "outcome"}

\* Options that the loop goes on with.
AreOpen(options) ==
  DOMAIN options = OptionNames /\ options.outcome = "scan" /\ options.pending = Absent

\* An option alone, or one with its value.
IsGroup(group) ==
  \/ group = <<group[1]>> /\ group[1] \notin Valued
  \/ group = <<group[1], group[2]>> /\ group[1] \in Valued

\* An option that the loop goes on behind.
Understood(group) == OfScan(group) \/ group[1] = "--list-interfaces"

\* What is kept of a value.
PartOf(option, value) ==
  CASE option = "--mode"     -> value.text
    [] option = "--duration" -> value.number
    [] OTHER                 -> value

Set(new, old, option, group) ==
  new = IF group[1] = option THEN PartOf(option, group[2]) ELSE old

\* What a group makes of the options.
GroupTaken(new, old, group) ==
  /\ Understood(group) =>
       /\ AreOpen(new)
       /\ new.interactive = (IF group[1] = "--interactive" THEN TRUE ELSE old.interactive)
       /\ new.listInterfaces
            = (IF group[1] = "--list-interfaces" THEN TRUE ELSE old.listInterfaces)
       /\ Set(new.interface, old.interface, "--interface", group)
       /\ Set(new.target, old.target, "--target", group)
       /\ Set(new.mode, old.mode, "--mode", group)
       /\ Set(new.duration, old.duration, "--duration", group)
  /\ ~Understood(group) =>
       /\ DOMAIN new = OptionNames
       /\ new.outcome = IF group[1] = "--help" THEN "help" ELSE "usage"

\* Nothing that is given is taken for nothing.
ValueIs(group) ==
  group[1] \in Valued => group[2] # Absent /\ group[2].number \in Int \cup {Absent}

LEMMA FlagTaken ==
  ASSUME NEW o, AreOpen(o), NEW group, group[1] \notin Valued
  PROVE  GroupTaken(TakeArgument(o, Text(group[1])), o, group)
<1> DEFINE f == group[1]
           n == TakeArgument(o, Text(f))
<1>1. n = TakeOption(o, f)
  BY DEF TakeArgument, AreOpen, Text
<1>2. f \notin {"--interface", "--mode", "--target", "--duration"}
  BY DEF Valued
<1>3. CASE f = "--help"
  <2>1. n = [o EXCEPT !.outcome = "help"]
    BY <1>1, <1>3 DEF TakeOption
  <2>2. ~Understood(group)
    BY <1>3 DEF Understood, OfScan
  <2> HIDE DEF n
  <2>3. DOMAIN n = OptionNames /\ n.outcome = "help"
    BY <2>1 DEF AreOpen, OptionNames
  <2>4. QED
    BY <1>3, <2>2, <2>3 DEF GroupTaken, n
<1>4. CASE f = "--interactive"
  <2>1. n = [o EXCEPT !.interactive = TRUE]
    BY <1>1, <1>4 DEF TakeOption
  <2>2. Understood(group)
    BY <1>4 DEF Understood, OfScan
  <2> HIDE DEF n
  <2>3. /\ AreOpen(n) /\ n.interactive = TRUE /\ n.listInterfaces = o.listInterfaces
        /\ n.interface = o.interface /\ n.target = o.target /\ n.mode = o.mode
        /\ n.duration = o.duration
    BY <2>1 DEF AreOpen, OptionNames
  <2>4. QED
    BY <1>4, <2>2, <2>3 DEF GroupTaken, Set, n
<1>5. CASE f = "--list-interfaces"
  <2>1. n = [o EXCEPT !.listInterfaces = TRUE]
    BY <1>1, <1>5 DEF TakeOption
  <2>2. Understood(group)
    BY <1>5 DEF Understood
  <2> HIDE DEF n
  <2>3. /\ AreOpen(n) /\ n.listInterfaces = TRUE /\ n.interactive = o.interactive
        /\ n.interface = o.interface /\ n.target = o.target /\ n.mode = o.mode
        /\ n.duration = o.duration
    BY <2>1 DEF AreOpen, OptionNames
  <2>4. QED
    BY <1>5, <2>2, <2>3 DEF GroupTaken, Set, n
<1>6. CASE f \notin {"--help", "--interactive", "--list-interfaces"}
  <2>1. n = [o EXCEPT !.outcome = "usage"]
    BY <1>1, <1>2, <1>6 DEF TakeOption, Valued
  <2>2. ~Understood(group)
    BY <1>2, <1>6 DEF Understood, OfScan
  <2> HIDE DEF n
  <2>3. DOMAIN n = OptionNames /\ n.outcome = "usage"
    BY <2>1 DEF AreOpen, OptionNames
  <2>4. QED
    BY <1>6, <2>2, <2>3 DEF GroupTaken, n
<1>7. QED
  BY <1>3, <1>4, <1>5, <1>6

LEMMA ValueTaken ==
  ASSUME NEW o, AreOpen(o), NEW group, group[1] \in Valued, ValueIs(group)
  PROVE  GroupTaken(TakeArgument(TakeArgument(o, Text(group[1])), group[2]), o, group)
<1> DEFINE f == group[1]
           v == group[2]
           p == TakeArgument(o, Text(f))
           n == TakeArgument(p, v)
           t == [p EXCEPT !.pending = Absent]
<1>1. f \in {"--interface", "--mode", "--target", "--duration"}
  BY DEF Valued
<1>2. p = [o EXCEPT !.pending = f]
  BY <1>1 DEF TakeArgument, TakeOption, AreOpen, Text, Valued
<1> HIDE DEF p
<1>3. /\ DOMAIN p = OptionNames /\ p.outcome = "scan" /\ p.pending = f
      /\ p.interactive = o.interactive /\ p.listInterfaces = o.listInterfaces
      /\ p.interface = o.interface /\ p.target = o.target /\ p.mode = o.mode
      /\ p.duration = o.duration
  BY <1>2 DEF AreOpen, OptionNames
<1>4. f # Absent
  BY AbsentAssumption
<1>5. n = TakeValue(p, v)
  BY <1>3, <1>4 DEF TakeArgument
<1>6. /\ AreOpen(t) /\ t.interactive = o.interactive
      /\ t.listInterfaces = o.listInterfaces
      /\ t.interface = o.interface /\ t.target = o.target /\ t.mode = o.mode
      /\ t.duration = o.duration
  BY <1>3 DEF AreOpen, OptionNames
<1> HIDE DEF t
<1>7. CASE f = "--interface"
  <2>1. n = [t EXCEPT !.interface = v]
    BY <1>3, <1>5, <1>7 DEF TakeValue, t
  <2>2. Understood(group)
    BY <1>7 DEF Understood, OfScan
  <2> HIDE DEF n
  <2>3. /\ AreOpen(n) /\ n.listInterfaces = o.listInterfaces
        /\ n.interactive = o.interactive /\ n.interface = v /\ n.target = o.target
        /\ n.mode = o.mode /\ n.duration = o.duration
    BY <1>6, <2>1 DEF AreOpen, OptionNames
  <2>4. GroupTaken(n, o, group)
    BY <1>7, <2>2, <2>3 DEF GroupTaken, Set, PartOf
  <2>5. QED
    BY <2>4 DEF n, p
<1>8. CASE f = "--target"
  <2>1. n = [t EXCEPT !.target = v]
    BY <1>3, <1>5, <1>8 DEF TakeValue, t
  <2>2. Understood(group)
    BY <1>8 DEF Understood, OfScan
  <2> HIDE DEF n
  <2>3. /\ AreOpen(n) /\ n.listInterfaces = o.listInterfaces
        /\ n.interactive = o.interactive /\ n.interface = o.interface /\ n.target = v
        /\ n.mode = o.mode /\ n.duration = o.duration
    BY <1>6, <2>1 DEF AreOpen, OptionNames
  <2>4. GroupTaken(n, o, group)
    BY <1>8, <2>2, <2>3 DEF GroupTaken, Set, PartOf
  <2>5. QED
    BY <2>4 DEF n, p
<1>9. CASE f = "--mode" /\ v.text \in Modes
  <2>1. n = [t EXCEPT !.mode = v.text]
    BY <1>3, <1>5, <1>9 DEF TakeValue, t
  <2>2. Understood(group)
    BY <1>9 DEF Understood, OfScan
  <2> HIDE DEF n
  <2>3. /\ AreOpen(n) /\ n.listInterfaces = o.listInterfaces
        /\ n.interactive = o.interactive /\ n.interface = o.interface
        /\ n.target = o.target /\ n.mode = v.text /\ n.duration = o.duration
    BY <1>6, <2>1 DEF AreOpen, OptionNames
  <2>4. GroupTaken(n, o, group)
    BY <1>9, <2>2, <2>3 DEF GroupTaken, Set, PartOf
  <2>5. QED
    BY <2>4 DEF n, p
<1>10. CASE f = "--duration" /\ v.number # Absent /\ v.number > 0
  <2>1. n = [t EXCEPT !.duration = v.number]
    BY <1>3, <1>5, <1>10 DEF TakeValue, t
  <2>2. v.number \in Nat \ {0}
    BY <1>10 DEF ValueIs
  <2>3. Understood(group)
    BY <1>10, <2>2 DEF Understood, OfScan
  <2> HIDE DEF n
  <2>4. /\ AreOpen(n) /\ n.listInterfaces = o.listInterfaces
        /\ n.interactive = o.interactive /\ n.interface = o.interface
        /\ n.target = o.target /\ n.mode = o.mode /\ n.duration = v.number
    BY <1>6, <2>1 DEF AreOpen, OptionNames
  <2>5. GroupTaken(n, o, group)
    BY <1>10, <2>3, <2>4 DEF GroupTaken, Set, PartOf
  <2>6. QED
    BY <2>5 DEF n, p
<1>11. CASE \/ f = "--mode" /\ v.text \notin Modes
            \/ f = "--duration" /\ ~(v.number # Absent /\ v.number > 0)
  <2>1. n = [p EXCEPT !.outcome = "usage"]
    BY <1>3, <1>5, <1>11 DEF TakeValue
  <2>2. ~Understood(group)
    <3>1. v.number \in Nat \ {0} => v.number # Absent /\ v.number > 0
      BY AbsentAssumption
    <3>2. QED
      BY <1>11, <3>1 DEF Understood, OfScan
  <2> HIDE DEF n
  <2>3. DOMAIN n = OptionNames /\ n.outcome = "usage"
    BY <1>3, <2>1 DEF OptionNames
  <2>4. f # "--help"
    BY <1>1
  <2>5. GroupTaken(n, o, group)
    BY <2>2, <2>3, <2>4 DEF GroupTaken
  <2>6. QED
    BY <2>5 DEF n, p
<1>12. QED
  BY <1>1, <1>7, <1>8, <1>9, <1>10, <1>11

\* A group is read as the option and then its value.
LEMMA GroupRead ==
  ASSUME NEW o, NEW group, IsGroup(group)
  PROVE  /\ IsSeq(Arguments(group)) /\ Len(Arguments(group)) > 0
         /\ ReadOptions(o, Arguments(group)) =
              IF group[1] \in Valued
              THEN TakeArgument(TakeArgument(o, Text(group[1])), group[2])
              ELSE TakeArgument(o, Text(group[1]))
<1> DEFINE x == Text(group[1])
           y == group[2]
           a == <<x>>
           b == <<y>>
           g == group[1]
<1> HIDE DEF x, y, g
<1>1. /\ a \in Seq({x, y}) /\ b \in Seq({x, y}) /\ Len(a) = 1 /\ Len(b) = 1
  OBVIOUS
<1> HIDE DEF a, b
<1>2. IsSeq(a) /\ IsSeq(b)
  BY <1>1 DEF IsSeq
<1>3. CASE group = <<group[1]>> /\ group[1] \notin Valued
  <2>1. Tail(<<g>>) = <<>>
    OBVIOUS
  <2>2. Tail(group) = <<>>
    BY <1>3, <2>1 DEF g
  <2>3. a \o <<>> = a
    BY <1>1
  <2>4. Arguments(group) = a
    BY <2>2, <2>3 DEF Arguments, a, x
  <2>5. ReadOptions(o, a) = TakeArgument(o, x)
    BY OptionLoop!FoldOfOne DEF ReadOptions, a
  <2>6. QED
    BY <1>1, <1>3, <2>4, <2>5 DEF x, IsSeq
<1>4. CASE group = <<group[1], group[2]>> /\ group[1] \in Valued
  <2>1. Tail(<<g, y>>) = <<y>>
    OBVIOUS
  <2>2. Tail(group) = b
    BY <1>4, <2>1 DEF g, y, b
  <2>3. Arguments(group) = a \o b
    BY <2>2 DEF Arguments, a, x
  <2>4. IsSeq(a \o b) /\ Len(a \o b) = Len(a) + Len(b)
    BY <1>2, JoinIs
  <2>5. ReadOptions(o, a \o b) = ReadOptions(ReadOptions(o, a), b)
    BY <1>1, OptionLoop!FoldOfJoined DEF ReadOptions
  <2>6. ReadOptions(o, a) = TakeArgument(o, x)
    BY OptionLoop!FoldOfOne DEF ReadOptions, a
  <2>7. ReadOptions(TakeArgument(o, x), b) = TakeArgument(TakeArgument(o, x), y)
    BY OptionLoop!FoldOfOne DEF ReadOptions, b
  <2>8. IsSeq(Arguments(group)) /\ Len(Arguments(group)) > 0
    BY <1>1, <2>3, <2>4
  <2>9. ReadOptions(o, Arguments(group)) = TakeArgument(TakeArgument(o, x), y)
    BY <2>3, <2>5, <2>6, <2>7
  <2>10. QED
    BY <1>4, <2>8, <2>9 DEF x, y
<1>5. QED
  BY <1>3, <1>4 DEF IsGroup

\* Help and an error end the loop.
LEMMA StoppedStays ==
  ASSUME NEW o, o.outcome # "scan", NEW group, IsGroup(group)
  PROVE  ReadOptions(o, Arguments(group)) = o
<1>1. \A a : TakeArgument(o, a) = o
  BY DEF TakeArgument
<1>2. QED
  BY <1>1, GroupRead

\* The value is of the last of the first n groups with this option.
LastGiven(value, option, groups, n) ==
  \/ value = Absent /\ \A i \in 1..n : groups[i][1] # option
  \/ \E i \in 1..n : /\ groups[i][1] = option /\ value = PartOf(option, groups[i][2])
                     /\ \A j \in 1..n : j > i => groups[j][1] # option

GivenIn(option, groups, n) == \E i \in 1..n : groups[i][1] = option

AllUnderstood(groups, n) == \A i \in 1..n : Understood(groups[i])

\* What n groups make of the options.
GroupsTaken(o, start, groups, n) ==
  /\ DOMAIN o = OptionNames
  /\ AllUnderstood(groups, n) =>
       /\ AreOpen(o)
       /\ o.interactive = (IF GivenIn("--interactive", groups, n) THEN TRUE
                           ELSE start.interactive)
       /\ o.listInterfaces = (IF GivenIn("--list-interfaces", groups, n) THEN TRUE
                              ELSE start.listInterfaces)
       /\ LastGiven(o.interface, "--interface", groups, n)
       /\ LastGiven(o.target, "--target", groups, n)
       /\ LastGiven(o.mode, "--mode", groups, n)
       /\ LastGiven(o.duration, "--duration", groups, n)
  /\ ~AllUnderstood(groups, n) =>
       \E i \in 1..n :
         /\ ~Understood(groups[i]) /\ AllUnderstood(groups, i - 1)
         /\ o.outcome = IF groups[i][1] = "--help" THEN "help" ELSE "usage"

LEMMA LastStays ==
  ASSUME NEW n \in Nat, NEW groups, NEW option, NEW old, LastGiven(old, option, groups, n),
         NEW new, Set(new, old, option, groups[n + 1])
  PROVE  LastGiven(new, option, groups, n + 1)
<1>1. n + 1 \in 1..(n + 1) /\ \A i \in 1..(n + 1) : i \in 1..n \/ i = n + 1
  OBVIOUS
<1>2. CASE groups[n + 1][1] = option
  <2>1. new = PartOf(option, groups[n + 1][2])
    BY <1>2 DEF Set
  <2>2. \A j \in 1..(n + 1) : ~(j > n + 1)
    OBVIOUS
  <2>3. QED
    BY <1>1, <1>2, <2>1, <2>2 DEF LastGiven
<1>3. CASE groups[n + 1][1] # option
  <2>1. new = old
    BY <1>3 DEF Set
  <2>2. CASE old = Absent /\ \A i \in 1..n : groups[i][1] # option
    BY <1>1, <1>3, <2>1, <2>2 DEF LastGiven
  <2>3. CASE \E i \in 1..n :
               /\ groups[i][1] = option /\ old = PartOf(option, groups[i][2])
               /\ \A j \in 1..n : j > i => groups[j][1] # option
    <3>1. PICK i \in 1..n :
               /\ groups[i][1] = option /\ old = PartOf(option, groups[i][2])
               /\ \A j \in 1..n : j > i => groups[j][1] # option
      BY <2>3
    <3>2. i \in 1..(n + 1)
      OBVIOUS
    <3>3. \A j \in 1..(n + 1) : j > i => groups[j][1] # option
      BY <1>1, <1>3, <3>1
    <3>4. QED
      BY <2>1, <3>1, <3>2, <3>3 DEF LastGiven
  <2>4. QED
    BY <2>2, <2>3 DEF LastGiven
<1>4. QED
  BY <1>2, <1>3

LEMMA GivenMore ==
  ASSUME NEW n \in Nat, NEW groups, NEW option
  PROVE  /\ GivenIn(option, groups, n + 1)
              <=> GivenIn(option, groups, n) \/ groups[n + 1][1] = option
         /\ AllUnderstood(groups, n + 1)
              <=> AllUnderstood(groups, n) /\ Understood(groups[n + 1])
<1>1. 1..(n + 1) = (1..n) \cup {n + 1}
  OBVIOUS
<1>2. QED
  BY <1>1 DEF GivenIn, AllUnderstood

LEMMA OneMoreTaken ==
  ASSUME NEW n \in Nat, NEW groups, IsGroup(groups[n + 1]), ValueIs(groups[n + 1]),
         NEW start, NEW o, GroupsTaken(o, start, groups, n)
  PROVE  GroupsTaken(ReadOptions(o, Arguments(groups[n + 1])), start, groups, n + 1)
<1> DEFINE group == groups[n + 1]
           new == ReadOptions(o, Arguments(group))
<1>1. /\ 0 <= n /\ n + 1 \in 1..(n + 1) /\ (n + 1) - 1 = n
      /\ \A i \in 1..n : i \in 1..(n + 1)
  OBVIOUS
<1>2. AllUnderstood(groups, n + 1) <=> AllUnderstood(groups, n) /\ Understood(group)
  BY GivenMore
<1>3. CASE AllUnderstood(groups, n)
  <2>1. AreOpen(o)
    BY <1>3 DEF GroupsTaken
  <2>2. GroupTaken(new, o, group)
    BY <2>1, GroupRead, FlagTaken, ValueTaken
  <2> HIDE DEF new
  <2>3. CASE Understood(group)
    <3>1. /\ AreOpen(new)
          /\ new.interactive = (IF group[1] = "--interactive" THEN TRUE ELSE o.interactive)
          /\ new.listInterfaces
               = (IF group[1] = "--list-interfaces" THEN TRUE ELSE o.listInterfaces)
          /\ Set(new.interface, o.interface, "--interface", group)
          /\ Set(new.target, o.target, "--target", group)
          /\ Set(new.mode, o.mode, "--mode", group)
          /\ Set(new.duration, o.duration, "--duration", group)
      BY <2>2, <2>3 DEF GroupTaken
    <3>2. /\ o.interactive = (IF GivenIn("--interactive", groups, n) THEN TRUE
                              ELSE start.interactive)
          /\ o.listInterfaces = (IF GivenIn("--list-interfaces", groups, n) THEN TRUE
                                 ELSE start.listInterfaces)
          /\ LastGiven(o.interface, "--interface", groups, n)
          /\ LastGiven(o.target, "--target", groups, n)
          /\ LastGiven(o.mode, "--mode", groups, n)
          /\ LastGiven(o.duration, "--duration", groups, n)
      BY <1>3 DEF GroupsTaken
    <3>3. LastGiven(new.interface, "--interface", groups, n + 1)
      BY <3>1, <3>2, LastStays
    <3>4. LastGiven(new.target, "--target", groups, n + 1)
      BY <3>1, <3>2, LastStays
    <3>5. LastGiven(new.mode, "--mode", groups, n + 1)
      BY <3>1, <3>2, LastStays
    <3>6. LastGiven(new.duration, "--duration", groups, n + 1)
      BY <3>1, <3>2, LastStays
    <3>7. new.interactive = (IF GivenIn("--interactive", groups, n + 1) THEN TRUE
                             ELSE start.interactive)
      BY <3>1, <3>2, GivenMore
    <3>8. new.listInterfaces = (IF GivenIn("--list-interfaces", groups, n + 1) THEN TRUE
                                ELSE start.listInterfaces)
      BY <3>1, <3>2, GivenMore
    <3>9. AllUnderstood(groups, n + 1) /\ DOMAIN new = OptionNames
      BY <1>2, <1>3, <2>3, <3>1 DEF AreOpen
    <3>10. GroupsTaken(new, start, groups, n + 1)
      BY <3>1, <3>3, <3>4, <3>5, <3>6, <3>7, <3>8, <3>9 DEF GroupsTaken
    <3>11. QED
      BY <3>10 DEF new
  <2>4. CASE ~Understood(group)
    <3>1. /\ DOMAIN new = OptionNames
          /\ new.outcome = IF group[1] = "--help" THEN "help" ELSE "usage"
      BY <2>2, <2>4 DEF GroupTaken
    <3>2. ~AllUnderstood(groups, n + 1) /\ AllUnderstood(groups, (n + 1) - 1)
      BY <1>1, <1>2, <1>3, <2>4
    <3>3. GroupsTaken(new, start, groups, n + 1)
      BY <1>1, <2>4, <3>1, <3>2 DEF GroupsTaken
    <3>4. QED
      BY <3>3 DEF new
  <2>5. QED
    BY <2>3, <2>4
<1>4. CASE ~AllUnderstood(groups, n)
  <2>1. PICK i \in 1..n :
          /\ ~Understood(groups[i]) /\ AllUnderstood(groups, i - 1)
          /\ o.outcome = IF groups[i][1] = "--help" THEN "help" ELSE "usage"
    BY <1>4 DEF GroupsTaken
  <2>2. new = o
    BY <2>1, StoppedStays
  <2> HIDE DEF new
  <2>3. i \in 1..(n + 1) /\ ~AllUnderstood(groups, n + 1) /\ DOMAIN o = OptionNames
    BY <1>1, <1>2, <1>4 DEF GroupsTaken
  <2>4. GroupsTaken(new, start, groups, n + 1)
    BY <2>1, <2>2, <2>3 DEF GroupsTaken
  <2>5. QED
    BY <2>4 DEF new
<1>5. QED
  BY <1>3, <1>4

\* Nothing has been given yet.
IsStart(start) ==
  /\ AreOpen(start) /\ start.interface = Absent /\ start.target = Absent
  /\ start.mode = Absent /\ start.duration = Absent

LEMMA NoneTaken ==
  ASSUME NEW start, IsStart(start), NEW groups
  PROVE  GroupsTaken(start, start, groups, 0)
<1>1. 1..0 = {}
  OBVIOUS
<1>2. /\ AllUnderstood(groups, 0) /\ ~GivenIn("--interactive", groups, 0)
      /\ ~GivenIn("--list-interfaces", groups, 0)
      /\ \A option : LastGiven(Absent, option, groups, 0)
  BY <1>1 DEF AllUnderstood, GivenIn, LastGiven
<1>3. QED
  BY <1>2 DEF GroupsTaken, IsStart, AreOpen

LEMMA OptionsOfJoined ==
  ASSUME NEW start, NEW a, IsSeq(a), NEW b, IsSeq(b)
  PROVE  ReadOptions(start, a \o b) = ReadOptions(ReadOptions(start, a), b)
<1>1. PICK R, T : a \in Seq(R) /\ b \in Seq(T)
  BY DEF IsSeq
<1>2. a \in Seq(R \cup T) /\ b \in Seq(R \cup T)
  BY <1>1
<1>3. QED
  BY <1>2, OptionLoop!FoldOfJoined DEF ReadOptions

\* The groups are read one after the other.
LEMMA GroupsRead ==
  ASSUME NEW groups, IsSeq(groups), \A i \in 1..Len(groups) : IsGroup(groups[i]) /\ ValueIs(groups[i]),
         NEW start, IsStart(start)
  PROVE  LET parts == [i \in DOMAIN groups |-> Arguments(groups[i])]
             argv  == FlattenSeq(parts)
         IN  /\ IsSeq(argv) /\ (groups # <<>> => Len(argv) > 0)
             /\ GroupsTaken(ReadOptions(start, argv), start, groups, Len(groups))
<1> DEFINE n == Len(groups)
           parts == [i \in DOMAIN groups |-> Arguments(groups[i])]
           argv == FlattenSeq(parts)
<1>1. n \in Nat /\ DOMAIN groups = 1..n
  BY SeqIs
<1>2. IsSeq(parts) /\ Len(parts) = n /\ \A i \in 1..n : parts[i] = Arguments(groups[i])
  BY <1>1, MappedIs
<1>3. \A i \in 1..n : IsSeq(parts[i]) /\ Len(parts[i]) > 0
  BY <1>2, GroupRead
<1>4. n = 0 => parts = <<>>
  BY <1>1
<1> HIDE DEF parts, n
<1>5. PICK joined :
        /\ joined[0] = <<>>
        /\ \A k \in 0..(n - 1) : joined[k + 1] = joined[k] \o parts[k + 1]
        /\ FlattenSeq(parts) = joined[n]
  <2>1. n > 0 => IsSeq(parts[1])
    BY <1>1, <1>3
  <2>2. QED
    BY <1>1, <1>2, <1>4, <2>1, FlattenSteps
<1> DEFINE S == {k \in Nat :
                   /\ IsSeq(joined[k]) /\ (k > 0 => Len(joined[k]) > 0)
                   /\ GroupsTaken(ReadOptions(start, joined[k]), start, groups, k)}
<1>6. 0 \in S
  <2>1. ReadOptions(start, <<>>) = start
    BY OptionLoop!FoldOfOne DEF ReadOptions
  <2>2. QED
    BY <1>5, <2>1, NoneIs, NoneTaken
<1>7. ASSUME NEW k \in 0..(n - 1), k \in S PROVE k + 1 \in S
  <2>1. k \in Nat /\ k + 1 \in 1..n /\ k + 1 \in Nat
    BY <1>1
  <2>2. /\ joined[k + 1] = joined[k] \o parts[k + 1] /\ parts[k + 1] = Arguments(groups[k + 1])
        /\ IsSeq(parts[k + 1]) /\ Len(parts[k + 1]) > 0
    BY <1>2, <1>3, <1>5, <2>1
  <2>3. IsSeq(joined[k]) /\ GroupsTaken(ReadOptions(start, joined[k]), start, groups, k)
    BY <1>7
  <2>4. /\ IsSeq(joined[k + 1])
        /\ Len(joined[k + 1]) = Len(joined[k]) + Len(parts[k + 1])
        /\ Len(joined[k]) \in Nat /\ Len(parts[k + 1]) \in Nat
    <3> DEFINE a == joined[k]
               b == parts[k + 1]
    <3>1. IsSeq(a) /\ IsSeq(b) /\ joined[k + 1] = a \o b
      BY <2>2, <2>3
    <3> HIDE DEF a, b
    <3>2. IsSeq(a \o b) /\ Len(a \o b) = Len(a) + Len(b)
      BY <3>1, JoinIs
    <3>3. Len(a) \in Nat /\ Len(b) \in Nat
      BY <3>1, SeqIs
    <3>4. QED
      BY <3>1, <3>2, <3>3 DEF a, b
  <2>5. ReadOptions(start, joined[k + 1])
          = ReadOptions(ReadOptions(start, joined[k]), parts[k + 1])
    BY <2>2, <2>3, OptionsOfJoined
  <2>6. GroupsTaken(ReadOptions(start, joined[k + 1]), start, groups, k + 1)
    BY <2>1, <2>2, <2>3, <2>5, OneMoreTaken DEF n
  <2>7. Len(joined[k + 1]) > 0
    <3> DEFINE a == Len(joined[k])
               b == Len(parts[k + 1])
               c == Len(joined[k + 1])
    <3>1. a \in Nat /\ b \in Nat /\ b > 0 /\ c = a + b
      BY <2>2, <2>4
    <3> HIDE DEF a, b, c
    <3>2. c > 0
      BY <3>1
    <3>3. QED
      BY <3>2 DEF c
  <2>8. QED
    BY <2>1, <2>4, <2>6, <2>7
<1> HIDE DEF S
<1>8. n \in S
  BY <1>1, <1>6, <1>7, OptionLoop!Induction
<1>9. groups # <<>> => n > 0
  <2>1. n = 0 => groups = <<>>
    BY <1>1 DEF IsSeq, n
  <2>2. QED
    BY <1>1, <2>1
<1>10. QED
  BY <1>5, <1>8, <1>9 DEF S, n, parts

IsCommandLine(in) ==
  /\ IsSeq(in.groups)
  /\ \A i \in 1..Len(in.groups) : IsGroup(in.groups[i]) /\ ValueIs(in.groups[i])
  /\ in.dangling = <<>> \/ \E option \in Valued : in.dangling = <<option>>

\* What the options are of which command line.
OptionsAre(o, in) ==
  LET n == Len(in.groups) IN
  /\ AllUnderstood(in.groups, n) =>
       /\ o.outcome = "scan" /\ (o.pending = Absent <=> in.dangling = <<>>)
       /\ o.interactive <=> GivenIn("--interactive", in.groups, n) \/ Argv(in) = <<>>
       /\ o.listInterfaces <=> GivenIn("--list-interfaces", in.groups, n)
       /\ LastGiven(o.interface, "--interface", in.groups, n)
       /\ LastGiven(o.target, "--target", in.groups, n)
       /\ LastGiven(o.mode, "--mode", in.groups, n)
       /\ LastGiven(o.duration, "--duration", in.groups, n)
  /\ ~AllUnderstood(in.groups, n) =>
       \E i \in 1..n :
         /\ ~Understood(in.groups[i]) /\ AllUnderstood(in.groups, i - 1)
         /\ o.outcome = IF in.groups[i][1] = "--help" THEN "help" ELSE "usage"

(***************************************************************************)
(* Of a command line of any length, options in any order and again and      *)
(* again, the last of each is taken; the first that is not understood, or    *)
(* help, ends it, and so does an option whose value is missing at the end     *)
(* (main.c:574-637).                                                       *)
(***************************************************************************)
THEOREM LastOptionsCount ==
  ASSUME NEW in, IsCommandLine(in)
  PROVE  OptionsAre(Options(Argv(in)), in)
<1> DEFINE groups == in.groups
           n == Len(groups)
           parts == [i \in DOMAIN groups |-> Arguments(groups[i])]
           a == FlattenSeq(parts)
           d == [i \in DOMAIN in.dangling |-> Text(in.dangling[i])]
           argv == a \o d
           start == NoOptions(argv)
           o == ReadOptions(start, a)
           end == ReadOptions(o, d)
<1>1. Argv(in) = argv
  BY DEF Argv
<1>2. IsStart(start)
  BY DEF IsStart, AreOpen, NoOptions, OptionNames
<1>3. start.interactive = (argv = <<>>) /\ start.listInterfaces = FALSE
  BY DEF NoOptions
<1>4. IsSeq(a) /\ GroupsTaken(o, start, groups, n)
  <2> HIDE DEF start
  <2>1. QED
    BY <1>2, GroupsRead DEF IsCommandLine
<1>5. \/ d = <<>> /\ in.dangling = <<>>
      \/ \E option \in Valued : d = <<Text(option)>> /\ in.dangling # <<>>
  <2>1. CASE in.dangling = <<>>
    <3>1. DOMAIN <<>> = {}
      OBVIOUS
    <3>2. d = <<>>
      BY <2>1
    <3>3. QED
      BY <2>1, <3>2
  <2>2. ASSUME NEW option \in Valued, in.dangling = <<option>> PROVE d = <<Text(option)>>
    <3> DEFINE t == Text(option)
    <3>1. d = [i \in DOMAIN <<option>> |-> Text((<<option>>)[i])]
      BY <2>2
    <3>2. DOMAIN <<option>> = {1} /\ (<<option>>)[1] = option
      OBVIOUS
    <3>3. d = [i \in {1} |-> t]
      BY <3>1, <3>2
    <3> HIDE DEF t, d
    <3>4. [i \in {1} |-> t] = <<t>>
      OBVIOUS
    <3>5. QED
      BY <3>3, <3>4 DEF t
  <2>3. \A option : <<option>> # <<>>
    OBVIOUS
  <2>4. QED
    BY <2>1, <2>2, <2>3 DEF IsCommandLine
<1>6. Options(Argv(in)) = ReadOptions(start, argv)
  <2>1. Options(argv) = ReadOptions(start, argv)
    BY DEF Options, ReadOptions, OptionLoop!FoldedFrom, FoldLeft, OptionLoop!FoldLeft,
           MapThenFoldSet, OptionLoop!MapThenFoldSet, Max, OptionLoop!Max
  <2>2. QED
    BY <1>1, <2>1
<1> HIDE DEF a, d
<1>7. ReadOptions(start, argv) = end
  <2>1. ASSUME NEW t PROVE IsSeq(<<t>>)
    <3>1. <<t>> \in Seq({t})
      OBVIOUS
    <3>2. QED
      BY <3>1 DEF IsSeq
  <2>2. IsSeq(d)
    BY <1>5, <2>1, NoneIs
  <2> HIDE DEF start
  <2>3. QED
    BY <1>4, <2>2, OptionsOfJoined
<1> HIDE DEF start, o
<1>8. CASE d = <<>> /\ in.dangling = <<>>
  <2>1. end = o
    BY <1>8, OptionLoop!FoldOfOne DEF ReadOptions
  <2> HIDE DEF end
  <2>2. OptionsAre(end, in)
    BY <1>1, <1>3, <1>4, <1>8, <2>1 DEF OptionsAre, GroupsTaken, AreOpen
  <2>3. QED
    BY <1>6, <1>7, <2>2
<1>9. ASSUME NEW option \in Valued, d = <<Text(option)>>, in.dangling # <<>>
      PROVE  OptionsAre(Options(Argv(in)), in)
  <2>1. end = TakeArgument(o, Text(option))
    BY <1>9, OptionLoop!FoldOfOne DEF ReadOptions
  <2> HIDE DEF end
  <2>2. CASE AllUnderstood(groups, n)
    <3>1. AreOpen(o)
      BY <1>4, <2>2 DEF GroupsTaken
    <3>2. end = [o EXCEPT !.pending = option]
      BY <2>1, <3>1 DEF TakeArgument, TakeOption, AreOpen, Text, Valued
    <3>3. option # Absent
      BY AbsentAssumption
    <3>4. /\ end.outcome = "scan" /\ end.pending = option
          /\ end.interactive = o.interactive /\ end.listInterfaces = o.listInterfaces
          /\ end.interface = o.interface /\ end.target = o.target /\ end.mode = o.mode
          /\ end.duration = o.duration
      BY <3>1, <3>2 DEF AreOpen, OptionNames
    <3>5. OptionsAre(end, in)
      BY <1>1, <1>3, <1>4, <1>9, <2>2, <3>3, <3>4 DEF OptionsAre, GroupsTaken
    <3>6. QED
      BY <1>6, <1>7, <3>5
  <2>3. CASE ~AllUnderstood(groups, n)
    <3>1. PICK i \in 1..n :
            /\ ~Understood(groups[i]) /\ AllUnderstood(groups, i - 1)
            /\ o.outcome = IF groups[i][1] = "--help" THEN "help" ELSE "usage"
      BY <1>4, <2>3 DEF GroupsTaken
    <3>2. end = o
      BY <2>1, <3>1 DEF TakeArgument
    <3>3. OptionsAre(end, in)
      BY <2>3, <3>1, <3>2 DEF OptionsAre
    <3>4. QED
      BY <1>6, <1>7, <3>3
  <2>4. QED
    BY <2>2, <2>3
<1>10. QED
  BY <1>5, <1>8, <1>9

-----------------------------------------------------------------------------
(* The adapters, and the one that is meant.                                 *)

AdapterLoop == INSTANCE LeftFold WITH Step <- Filter, Base <- <<>>

Reals(system, n) == Cardinality({i \in 1..n : system[i].real})

LEMMA RealsIs ==
  ASSUME NEW system, NEW n \in Nat
  PROVE  /\ Reals(system, 0) = 0 /\ Reals(system, n) \in Nat
         /\ Reals(system, n + 1)
              = Reals(system, n) + (IF system[n + 1].real THEN 1 ELSE 0)
<1> DEFINE S == {i \in 1..n : system[i].real}
           T == {i \in 1..(n + 1) : system[i].real}
<1>1. {i \in 1..0 : system[i].real} = {}
  OBVIOUS
<1>2. IsFiniteSet(S)
  <2>1. IsFiniteSet(1..n) /\ S \subseteq 1..n
    BY FS_Interval
  <2>2. QED
    BY <2>1, FS_Subset
<1>3. Cardinality(S) \in Nat
  BY <1>2, FS_CardinalityType
<1>4. CASE system[n + 1].real
  <2>1. T = S \cup {n + 1} /\ n + 1 \notin S
    BY <1>4
  <2>2. Cardinality(S \cup {n + 1}) = Cardinality(S) + 1
    BY <1>2, <2>1, FS_AddElement
  <2>3. QED
    BY <1>1, <1>3, <1>4, <2>1, <2>2, FS_EmptySet DEF Reals
<1>5. CASE ~system[n + 1].real
  <2>1. T = S
    BY <1>5
  <2>2. QED
    BY <1>1, <1>3, <1>5, <2>1, FS_EmptySet DEF Reals
<1>6. QED
  BY <1>4, <1>5

\* The first n interfaces without those that are not real.
AreReal(adapters, system, n) ==
  /\ IsSeq(adapters) /\ Len(adapters) = Reals(system, n)
  /\ \A i \in 1..n : system[i].real =>
       /\ Reals(system, i) \in 1..Len(adapters) /\ adapters[Reals(system, i)] = system[i]
       /\ \A j \in 1..n : j < i => Reals(system, j) < Reals(system, i)
  /\ \A a \in 1..Len(adapters) : \E i \in 1..n : system[i].real /\ Reals(system, i) = a
  /\ \A i \in 1..n : Reals(system, i) \in Nat /\ Reals(system, i) <= Reals(system, n)

LEMMA OneMoreFiltered ==
  ASSUME NEW system, NEW n \in Nat, system[n + 1].real \in BOOLEAN,
         NEW adapters, AreReal(adapters, system, n)
  PROVE  AreReal(Filter(adapters, system[n + 1]), system, n + 1)
<1> DEFINE x == system[n + 1]
           new == Filter(adapters, x)
           m == Len(adapters)
<1>1. m \in Nat /\ m = Reals(system, n)
  BY SeqIs DEF AreReal
<1>2. Reals(system, n + 1) = m + (IF x.real THEN 1 ELSE 0)
  BY <1>1, RealsIs
<1>3. \A i \in 1..(n + 1) : i \in 1..n \/ i = n + 1
  OBVIOUS
<1>4. \A i \in 1..n : Reals(system, i) \in Nat /\ Reals(system, i) <= m
  BY <1>1 DEF AreReal
<1>5. /\ n + 1 \in 1..(n + 1) /\ \A i \in 1..n : i \in 1..(n + 1) /\ i < n + 1
      /\ \A i \in 1..n : ~(n + 1 < i)
  OBVIOUS
<1> HIDE DEF m
<1>6. CASE x.real
  <2>1. new = Append(adapters, x)
    BY <1>6 DEF Filter
  <2>2. IsSeq(new) /\ Len(new) = m + 1 /\ new[m + 1] = x /\ \A a \in 1..m : new[a] = adapters[a]
    <3>1. PICK R : adapters \in Seq(R)
      BY DEF AreReal, IsSeq
    <3>2. adapters \in Seq(R \cup {x}) /\ x \in R \cup {x}
      BY <3>1
    <3> HIDE DEF x
    <3>3. Append(adapters, x) \in Seq(R \cup {x})
      BY <3>2
    <3>4. /\ Len(Append(adapters, x)) = Len(adapters) + 1
          /\ Append(adapters, x)[Len(adapters) + 1] = x
          /\ \A a \in 1..Len(adapters) : Append(adapters, x)[a] = adapters[a]
      BY <3>2
    <3>5. QED
      BY <2>1, <3>3, <3>4 DEF IsSeq, m
  <2> HIDE DEF new
  <2>3. Reals(system, n + 1) = m + 1
    BY <1>1, <1>2, <1>6
  <2>4. \A i \in 1..n : system[i].real =>
          /\ Reals(system, i) \in 1..m /\ adapters[Reals(system, i)] = system[i]
          /\ \A j \in 1..n : j < i => Reals(system, j) < Reals(system, i)
    BY DEF AreReal, m
  <2>5. \A a \in 1..m : \E i \in 1..n : system[i].real /\ Reals(system, i) = a
    BY DEF AreReal, m
  <2>6. \A i \in 1..(n + 1) : Reals(system, i) \in Nat /\ Reals(system, i) <= m + 1
    BY <1>1, <1>3, <1>4, <2>3
  <2>7. /\ \A a \in 1..m : a \in 1..(m + 1)
        /\ \A a \in 1..(m + 1) : a \in 1..m \/ a = m + 1
        /\ m + 1 \in 1..(m + 1)
    BY <1>1
  <2>8. ASSUME NEW i \in 1..(n + 1), system[i].real
        PROVE  /\ Reals(system, i) \in 1..(m + 1) /\ new[Reals(system, i)] = system[i]
               /\ \A j \in 1..(n + 1) : j < i => Reals(system, j) < Reals(system, i)
    <3>1. CASE i \in 1..n
      <4>1. \A j \in 1..(n + 1) : j < i => j \in 1..n
        BY <1>3, <1>5, <3>1
      <4>2. QED
        BY <2>2, <2>4, <2>7, <2>8, <3>1, <4>1
    <3>2. CASE i = n + 1
      <4>1. \A j \in 1..(n + 1) : j < i => Reals(system, j) < m + 1
        BY <1>1, <1>3, <1>4, <3>2
      <4>2. QED
        BY <2>2, <2>3, <2>7, <3>2, <4>1
    <3>3. QED
      BY <1>3, <3>1, <3>2
  <2>9. ASSUME NEW a \in 1..(m + 1)
        PROVE  \E i \in 1..(n + 1) : system[i].real /\ Reals(system, i) = a
    BY <1>5, <1>6, <2>3, <2>5, <2>7
  <2>10. AreReal(new, system, n + 1)
    BY <2>2, <2>3, <2>6, <2>8, <2>9 DEF AreReal
  <2>11. QED
    BY <2>10 DEF new
<1>7. CASE ~x.real
  <2>1. new = adapters
    BY <1>7 DEF Filter
  <2>2. Reals(system, n + 1) = m
    BY <1>1, <1>2, <1>7
  <2>3. AreReal(adapters, system, n + 1)
    <3>1. \A i \in 1..(n + 1) : system[i].real => i \in 1..n
      BY <1>3, <1>7
    <3>2. \A i \in 1..(n + 1) : Reals(system, i) \in Nat /\ Reals(system, i) <= m
      BY <1>1, <1>3, <1>4, <2>2
    <3>3. \A i \in 1..n : \A j \in 1..(n + 1) : j < i => j \in 1..n
      OBVIOUS
    <3>4. IsSeq(adapters) /\ Len(adapters) = m
      BY DEF AreReal, m
    <3>5. \A i \in 1..(n + 1) : system[i].real =>
            /\ Reals(system, i) \in 1..m /\ adapters[Reals(system, i)] = system[i]
            /\ \A j \in 1..(n + 1) : j < i => Reals(system, j) < Reals(system, i)
      BY <3>1, <3>3 DEF AreReal, m
    <3>6. \A a \in 1..m : \E i \in 1..(n + 1) : system[i].real /\ Reals(system, i) = a
      BY <1>5 DEF AreReal, m
    <3>7. QED
      BY <2>2, <3>2, <3>4, <3>5, <3>6 DEF AreReal
  <2>4. QED
    BY <2>1, <2>3
<1>8. QED
  BY <1>6, <1>7

\* The adapters are the real interfaces, in the order of the system.
LEMMA AdaptersAre ==
  ASSUME NEW system, IsSeq(system), \A i \in 1..Len(system) : system[i].real \in BOOLEAN
  PROVE  AreReal(Adapters(system), system, Len(system))
<1> DEFINE n == Len(system)
<1>1. n \in Nat
  BY SeqIs
<1>2. Adapters(system) = AdapterLoop!Folded(system)
  BY DEF Adapters, AdapterLoop!Folded, AdapterLoop!FoldedFrom, FoldLeft,
         AdapterLoop!FoldLeft, MapThenFoldSet, AdapterLoop!MapThenFoldSet, Max,
         AdapterLoop!Max
<1>3. PICK R : system \in Seq(R)
  BY DEF IsSeq
<1>4. PICK s : /\ s[0] = <<>>
               /\ \A k \in 0..(n - 1) : s[k + 1] = Filter(s[k], system[k + 1])
               /\ Adapters(system) = s[n]
  BY <1>2, <1>3, AdapterLoop!FoldSteps
<1> DEFINE S == {k \in Nat : AreReal(s[k], system, k)}
<1>5. 0 \in S
  <2>1. 1..0 = {} /\ Len(<<>>) = 0
    OBVIOUS
  <2>2. AreReal(<<>>, system, 0)
    BY <2>1, NoneIs, RealsIs DEF AreReal
  <2>3. QED
    BY <1>4, <2>2
<1>6. ASSUME NEW k \in 0..(n - 1), k \in S PROVE k + 1 \in S
  <2>1. k \in Nat /\ k + 1 \in Nat /\ k + 1 \in 1..n
    BY <1>1
  <2>2. AreReal(Filter(s[k], system[k + 1]), system, k + 1)
    BY <1>6, <2>1, OneMoreFiltered
  <2>3. QED
    BY <1>4, <2>1, <2>2
<1> HIDE DEF S
<1>7. n \in S
  BY <1>1, <1>5, <1>6, AdapterLoop!Induction
<1>8. QED
  BY <1>4, <1>7 DEF S

LEMMA MeantAre ==
  ASSUME NEW system, NEW value
  PROVE  Meant(system, value) =
           {system[i] : i \in {j \in DOMAIN system :
              /\ system[j].real
              /\ IF value.number = Absent THEN system[j].name = value.text
                 ELSE Reals(system, j) = value.number}}
  BY DEF Meant, Reals

\* No two adapters have one name.
IsSystem(system) ==
  /\ IsSeq(system)
  /\ \A i \in 1..Len(system) : system[i].real \in BOOLEAN /\ IsSeq(system[i].addresses)
  /\ \A i, j \in 1..Len(system) :
       system[i].real /\ system[j].real /\ system[i].name = system[j].name => i = j

(***************************************************************************)
(* Of any system's interfaces, an adapter is found by a number or a name     *)
(* just when that is meant, and is the one (main.c:523-547,                  *)
(* deviceHandler.c:56-131).                                                 *)
(***************************************************************************)
THEOREM MeantIsResolved ==
  ASSUME NEW system, IsSystem(system), NEW value, value.number \in Int \cup {Absent}
  PROVE  LET adapters == Adapters(system)
             adapter  == ResolveInterfaceIndex(adapters, value)
         IN  IF Meant(system, value) = {} THEN adapter = Absent
             ELSE /\ adapter # Absent /\ adapter \in DOMAIN adapters
                  /\ Meant(system, value) = {adapters[adapter]}
                  /\ \E i \in DOMAIN system : system[i].real /\ system[i] = adapters[adapter]
<1> DEFINE n == Len(system)
           adapters == Adapters(system)
           adapter == ResolveInterfaceIndex(adapters, value)
           named == {a \in DOMAIN adapters : adapters[a].name = value.text}
           fits(j) == IF value.number = Absent THEN system[j].name = value.text
                      ELSE Reals(system, j) = value.number
<1>1. n \in Nat /\ DOMAIN system = 1..n
  BY SeqIs DEF IsSystem
<1>2. AreReal(adapters, system, n)
  BY AdaptersAre DEF IsSystem
<1> HIDE DEF adapters
<1>3. IsSeq(adapters) /\ DOMAIN adapters = 1..Len(adapters) /\ Len(adapters) \in Nat
  BY <1>2, SeqIs DEF AreReal
<1>4. /\ \A i \in 1..n : system[i].real =>
           /\ Reals(system, i) \in 1..Len(adapters) /\ adapters[Reals(system, i)] = system[i]
      /\ \A a \in 1..Len(adapters) : \E i \in 1..n : system[i].real /\ Reals(system, i) = a
  BY <1>2 DEF AreReal
<1>5. \A i, j \in 1..n : system[i].real /\ system[j].real /\ fits(i) /\ fits(j) => i = j
  <2>1. ASSUME NEW i \in 1..n, NEW j \in 1..n, system[i].real, system[j].real,
               Reals(system, i) = Reals(system, j)
        PROVE  i = j
    <3>1. \A a, b \in 1..n : system[a].real /\ b < a => Reals(system, b) < Reals(system, a)
      BY <1>2 DEF AreReal
    <3>2. Reals(system, i) \in Nat /\ Reals(system, j) \in Nat
      BY <1>2 DEF AreReal
    <3>3. i < j \/ j < i \/ i = j
      OBVIOUS
    <3>4. QED
      BY <2>1, <3>1, <3>2, <3>3
  <2>2. QED
    BY <2>1 DEF IsSystem
<1> DEFINE M == {j \in DOMAIN system : system[j].real /\ fits(j)}
<1>6. Meant(system, value) = {system[i] : i \in M}
  BY MeantAre
<1>7. CASE M = {}
  <2>1. Meant(system, value) = {}
    BY <1>6, <1>7
  <2>2. CASE value.number = Absent
    <3>1. named = {}
      BY <1>1, <1>3, <1>4, <1>7, <2>2
    <3>2. adapter = Absent
      BY <2>2, <3>1 DEF ResolveInterfaceIndex
    <3>3. QED
      BY <2>1, <3>2 DEF adapters
  <2>3. CASE value.number # Absent
    <3>1. value.number \notin DOMAIN adapters
      BY <1>1, <1>3, <1>4, <1>7, <2>3
    <3>2. adapter = Absent
      BY <2>3, <3>1 DEF ResolveInterfaceIndex
    <3>3. QED
      BY <2>1, <3>2 DEF adapters
  <2>4. QED
    BY <2>2, <2>3
<1>8. ASSUME NEW i \in M
      PROVE  /\ adapter = Reals(system, i) /\ adapter \in DOMAIN adapters
             /\ adapters[adapter] = system[i]
  <2>1. i \in 1..n /\ system[i].real /\ fits(i)
    BY <1>1
  <2>2. Reals(system, i) \in DOMAIN adapters /\ adapters[Reals(system, i)] = system[i]
    BY <1>3, <1>4, <2>1
  <2>3. CASE value.number = Absent
    <3>1. Reals(system, i) \in named
      BY <2>1, <2>2, <2>3
    <3>2. ASSUME NEW a \in named PROVE a = Reals(system, i)
      <4>1. PICK j \in 1..n : system[j].real /\ Reals(system, j) = a
        BY <1>3, <1>4
      <4>2. fits(j)
        BY <1>4, <2>3, <4>1
      <4>3. j = i
        BY <1>5, <2>1, <4>1, <4>2
      <4>4. QED
        BY <4>1, <4>3
    <3>3. named \subseteq Nat /\ named # {}
      BY <1>3, <3>1
    <3> HIDE DEF named
    <3>4. Min(named) \in named
      BY <3>3, LeastIs
    <3>5. Min(named) = Reals(system, i)
      BY <3>2, <3>4
    <3>6. adapter = Min(named)
      BY <2>3, <3>3 DEF ResolveInterfaceIndex, named
    <3>7. QED
      BY <2>2, <3>5, <3>6
  <2>4. CASE value.number # Absent
    <3>1. adapter = value.number
      BY <2>1, <2>2, <2>4 DEF ResolveInterfaceIndex
    <3>2. QED
      BY <2>1, <2>2, <2>4, <3>1
  <2>5. QED
    BY <2>3, <2>4
<1>9. CASE M # {}
  <2>1. PICK i \in M : TRUE
    BY <1>9
  <2>2. i \in 1..n /\ system[i].real
    BY <1>1
  <2>3. \A j \in M : j = i
    BY <1>1, <1>5
  <2> HIDE DEF M
  <2>4. Meant(system, value) = {system[i]}
    BY <1>6, <2>1, <2>3
  <2>5. /\ adapter \in DOMAIN adapters /\ adapters[adapter] = system[i]
    BY <1>8, <2>1
  <2>6. adapter # Absent
    BY <1>3, <2>5, AbsentAssumption
  <2>7. QED
    BY <1>1, <2>2, <2>4, <2>5, <2>6 DEF adapters
<1>10. QED
  BY <1>7, <1>9

-----------------------------------------------------------------------------
(* The scan.                                                               *)

LEMMA LastIs ==
  ASSUME NEW groups, IsSeq(groups), NEW option, NEW value,
         LastGiven(value, option, groups, Len(groups)), NEW otherwise
  PROVE  LET last == LastValue(groups, option, otherwise)
         IN  IF GivenIn(option, groups, Len(groups))
             THEN /\ \E i \in 1..Len(groups) : groups[i][1] = option /\ groups[i][2] = last
                  /\ value = PartOf(option, last)
             ELSE value = Absent /\ last = otherwise
<1> DEFINE n == Len(groups)
           given == {i \in DOMAIN groups : groups[i][1] = option}
<1>1. n \in Nat /\ DOMAIN groups = 1..n
  BY SeqIs
<1>2. CASE value = Absent /\ \A i \in 1..n : groups[i][1] # option
  <2>1. given = {} /\ ~GivenIn(option, groups, n)
    BY <1>1, <1>2 DEF GivenIn
  <2>2. QED
    BY <1>2, <2>1 DEF LastValue
<1>3. ASSUME NEW i \in 1..n, groups[i][1] = option, value = PartOf(option, groups[i][2]),
             \A j \in 1..n : j > i => groups[j][1] # option
      PROVE  /\ GivenIn(option, groups, n)
             /\ LastValue(groups, option, otherwise) = groups[i][2]
  <2>1. i \in given /\ i \in Nat
    BY <1>1, <1>3
  <2>2. \A j \in given : j \in Nat /\ i >= j
    <3>1. ASSUME NEW j \in given PROVE j \in Nat /\ i >= j
      <4>1. j \in 1..n /\ groups[j][1] = option
        BY <1>1
      <4>2. ~(j > i)
        BY <1>3, <4>1
      <4>3. QED
        BY <1>1, <4>1, <4>2
    <3>2. QED
      BY <3>1
  <2> HIDE DEF given
  <2>3. \A x \in given : (\A y \in given : x >= y) => x = i
    <3>1. ASSUME NEW x \in given, \A y \in given : x >= y PROVE x = i
      <4>1. x \in Nat /\ i >= x /\ x >= i
        BY <2>1, <2>2, <3>1
      <4>2. QED
        BY <2>1, <4>1
    <3>2. QED
      BY <3>1
  <2>4. Max(given) = i
    BY <2>1, <2>2, <2>3 DEF Max
  <2>5. given # {}
    BY <2>1
  <2>6. LastValue(groups, option, otherwise) = groups[i][2]
    BY <2>4, <2>5 DEF LastValue, given
  <2>7. QED
    BY <1>3, <2>6 DEF GivenIn
<1>4. QED
  BY <1>2, <1>3 DEF LastGiven

\* How far main gets.
LEMMA StartedIs ==
  ASSUME NEW argv, NEW system, NEW entered
  PROVE  LET o        == Options(argv)
             adapters == Adapters(system)
             adapter  == AdapterNumber(o, adapters, entered)
             mode     == IF o.mode # Absent THEN o.mode ELSE entered.mode
             accepted == IF o.target # Absent THEN o.target.number # Absent
                         ELSE entered.target
             ownIp    == OwnIp(adapters[adapter])
             started  == Started(argv, system, entered)
         IN  /\ started.outcome = "scan" <=>
                  /\ o.outcome = "scan" /\ o.pending = Absent /\ ~Incomplete(o)
                  /\ adapters # <<>> /\ ~o.listInterfaces /\ adapter # Absent
                  /\ mode \in Modes /\ (mode = "remote" => accepted)
             /\ started.outcome = "scan" =>
                  started = [outcome |-> "scan", adapter |-> adapters[adapter].name,
                             mode |-> mode,
                             duration |-> IF o.duration = Absent THEN 0 ELSE o.duration,
                             ownIp |-> ownIp, ownMac |-> OwnMac(system, ownIp)]
<1> DEFINE o == Options(argv)
           adapters == Adapters(system)
           adapter == AdapterNumber(o, adapters, entered)
           mode == IF o.mode # Absent THEN o.mode ELSE entered.mode
           accepted == IF o.target # Absent THEN o.target.number # Absent
                       ELSE entered.target
           ownIp == OwnIp(adapters[adapter])
           begun == [outcome |-> "scan", adapter |-> adapters[adapter].name,
                     mode |-> mode,
                     duration |-> IF o.duration = Absent THEN 0 ELSE o.duration,
                     ownIp |-> ownIp, ownMac |-> OwnMac(system, ownIp)]
           started == Started(argv, system, entered)
           stopped(outcome) == [outcome |-> outcome]
<1>1. started =
        IF o.outcome # "scan" THEN stopped(o.outcome)
        ELSE IF o.pending # Absent \/ Incomplete(o) THEN stopped("usage")
        ELSE IF adapters = <<>> THEN stopped("none")
        ELSE IF o.listInterfaces THEN stopped("listed")
        ELSE IF adapter = Absent THEN stopped("adapter")
        ELSE IF mode \notin Modes THEN stopped("mode")
        ELSE IF mode = "remote" /\ ~accepted THEN stopped("target")
        ELSE begun
  BY Zenon DEF Started
<1>2. begun.outcome = "scan" /\ \A outcome : stopped(outcome).outcome = outcome
  OBVIOUS
<1> HIDE DEF begun, stopped, started, mode, accepted, adapter, adapters, o
<1>3. /\ started.outcome = "scan" <=>
           /\ o.outcome = "scan" /\ o.pending = Absent /\ ~Incomplete(o)
           /\ adapters # <<>> /\ ~o.listInterfaces /\ adapter # Absent
           /\ mode \in Modes /\ (mode = "remote" => accepted)
      /\ started.outcome = "scan" => started = begun
  BY <1>1, <1>2
<1>4. QED
  BY <1>3, Zenon DEF begun, started, mode, accepted, adapter, adapters, o

IsTyped(typed) ==
  typed.interface \in Int /\ typed.target \in BOOLEAN

\* No address is taken for none.
AddressesAre(system) ==
  \A i \in 1..Len(system) : Absent \notin Range(system[i].addresses)

LEMMA OwnAddresses ==
  ASSUME NEW system, IsSystem(system), AddressesAre(system), NEW interface,
         NEW k \in DOMAIN system, interface = system[k]
  PROVE  LET own  == interface.addresses
             same == {i \in DOMAIN system : Last(own) \in Range(system[i].addresses)}
         IN  /\ OwnIp(interface) = IF own = <<>> THEN Absent ELSE Last(own)
             /\ OwnMac(system, OwnIp(interface)) =
                  IF own = <<>> THEN Absent ELSE system[Min(same)].mac
<1> DEFINE own == interface.addresses
           n == Len(system)
           with(ip) == {i \in DOMAIN system : Contains(system[i].addresses, ip)}
<1>1. OwnIp(interface) = IF own = <<>> THEN Absent ELSE Last(own)
  BY DEF OwnIp
<1>2. DOMAIN system = 1..n
  BY SeqIs DEF IsSystem
<1>3. \A i \in 1..n : DOMAIN system[i].addresses = 1..Len(system[i].addresses)
  BY SeqIs DEF IsSystem
<1>4. \A ip : with(ip) = {i \in DOMAIN system : ip \in Range(system[i].addresses)}
  BY <1>2, <1>3 DEF Contains, Range
<1>5. CASE own = <<>>
  <2>1. with(Absent) = {}
    BY <1>2, <1>4 DEF AddressesAre
  <2>2. OwnMac(system, Absent) = Absent
    BY <2>1 DEF OwnMac
  <2>3. QED
    BY <1>1, <1>5, <2>2
<1>6. CASE own # <<>>
  <2>1. PICK R : own \in Seq(R)
    BY <1>2 DEF IsSystem, IsSeq
  <2>2. Len(own) \in DOMAIN own
    BY <1>6, <2>1
  <2>3. Last(own) \in Range(system[k].addresses)
    BY <2>2 DEF Last, Range
  <2>4. k \in with(Last(own))
    BY <1>4, <2>3
  <2>5. OwnMac(system, Last(own)) = system[Min(with(Last(own)))].mac
    BY <2>4 DEF OwnMac
  <2>6. QED
    BY <1>1, <1>4, <1>6, <2>5
<1>7. QED
  BY <1>5, <1>6

\* The value of an option that was given has been checked.
LEMMA GivenIs ==
  ASSUME NEW in, IsCommandLine(in), NEW option, NEW value,
         LastGiven(value, option, in.groups, Len(in.groups)), option \in Valued,
         AllUnderstood(in.groups, Len(in.groups)), NEW otherwise
  PROVE  LET last == LastValue(in.groups, option, otherwise)
         IN  IF GivenIn(option, in.groups, Len(in.groups))
             THEN /\ last # Absent /\ last.number \in Int \cup {Absent}
                  /\ option = "--mode" => last.text \in Modes
                  /\ option = "--duration" => last.number \in Nat \ {0}
                  /\ value = PartOf(option, last) /\ value # Absent
             ELSE value = Absent /\ last = otherwise
<1> DEFINE groups == in.groups
           n == Len(groups)
           last == LastValue(groups, option, otherwise)
<1>1. IsSeq(groups) /\ \A i \in 1..n : ValueIs(groups[i])
  BY DEF IsCommandLine
<1>2. IF GivenIn(option, groups, n)
      THEN /\ \E i \in 1..n : groups[i][1] = option /\ groups[i][2] = last
           /\ value = PartOf(option, last)
      ELSE value = Absent /\ last = otherwise
  BY <1>1, LastIs
<1> HIDE DEF last
<1>3. CASE GivenIn(option, groups, n)
  <2>1. PICK i \in 1..n : groups[i][1] = option /\ groups[i][2] = last
    BY <1>2, <1>3
  <2>2. last # Absent /\ last.number \in Int \cup {Absent}
    BY <1>1, <2>1 DEF ValueIs
  <2>3. OfScan(groups[i])
    <3>1. Understood(groups[i])
      BY DEF AllUnderstood
    <3>2. option # "--list-interfaces"
      BY DEF Valued
    <3>3. QED
      BY <2>1, <3>1, <3>2 DEF Understood
  <2>4. /\ option = "--mode" => last.text \in Modes
        /\ option = "--duration" => last.number \in Nat \ {0}
    BY <2>1, <2>3 DEF OfScan
  <2>5. value = PartOf(option, last)
    BY <1>2, <1>3
  <2>6. value # Absent
    BY <2>2, <2>4, <2>5, AbsentAssumption DEF PartOf
  <2>7. QED
    BY <1>3, <2>2, <2>4, <2>5, <2>6 DEF last
<1>4. CASE ~GivenIn(option, groups, n)
  BY <1>2, <1>4 DEF last
<1>5. QED
  BY <1>3, <1>4

LEMMA ModesAre == Modes = {"local", "remote", "topology"} /\ Absent \notin Modes
  BY AbsentAssumption DEF Modes

(***************************************************************************)
(* For any command line, any system whose adapters have different names,     *)
(* and whatever is typed, a scan begins just when and as it was asked for    *)
(* (main.c:574-783, deviceHandler.c:56-131, 229-300, 553-632).               *)
(***************************************************************************)
THEOREM ScanBeginsAsAsked ==
  ASSUME NEW in, IsCommandLine(in), IsSystem(in.system), AddressesAre(in.system),
         IsTyped(in.typed)
  PROVE  AskedFor(in)
<1> DEFINE groups == in.groups
           n == Len(groups)
           argv == Argv(in)
           o == Options(argv)
           adapters == Adapters(in.system)
           adapter == AdapterNumber(o, adapters, in.typed)
           modeSet == IF o.mode # Absent THEN o.mode ELSE in.typed.mode
           accepted == IF o.target # Absent THEN o.target.number # Absent
                       ELSE in.typed.target
           seconds == IF o.duration = Absent THEN 0 ELSE o.duration
           ownIp == OwnIp(adapters[adapter])
           started == Started(argv, in.system, in.typed)
           begun == [outcome |-> "scan", adapter |-> adapters[adapter].name,
                     mode |-> modeSet, duration |-> seconds,
                     ownIp |-> ownIp, ownMac |-> OwnMac(in.system, ownIp)]
           last(option, typed) == LastValue(groups, option, typed)
           given(option) == \E i \in DOMAIN groups : groups[i][1] = option
           asks == given("--interactive") \/ argv = <<>>
           value == last("--interface", Number(in.typed.interface))
           meant == Meant(in.system, value)
           mode == last("--mode", Text(in.typed.mode)).text
           target == last("--target", IF in.typed.target THEN Number(1) ELSE Text("nowhere"))
           duration == last("--duration", Number(0)).number
           ofScan == \A i \in DOMAIN groups : OfScan(groups[i])
           right ==
             /\ ofScan
             /\ in.dangling = <<>> /\ meant # {} /\ mode \in Modes
             /\ asks \/ (given("--interface") /\ given("--mode"))
             /\ mode = "remote" => asks \/ given("--target")
             /\ mode = "remote" => target.number # Absent
<1>1. /\ started.outcome = "scan" <=>
           /\ o.outcome = "scan" /\ o.pending = Absent /\ ~Incomplete(o)
           /\ adapters # <<>> /\ ~o.listInterfaces /\ adapter # Absent
           /\ modeSet \in Modes /\ (modeSet = "remote" => accepted)
      /\ started.outcome = "scan" => started = begun
  BY StartedIs, Zenon
<1>2. OptionsAre(o, in)
  BY LastOptionsCount
<1>3. DOMAIN groups = 1..n /\ IsSeq(groups)
  BY SeqIs DEF IsCommandLine
<1>4. \A option : given(option) <=> GivenIn(option, groups, n)
  BY <1>3 DEF GivenIn
<1>5. ofScan <=> AllUnderstood(groups, n) /\ ~given("--list-interfaces")
  <2>1. \A g : OfScan(g) => g[1] # "--list-interfaces"
    BY DEF OfScan
  <2>2. QED
    BY <1>3, <2>1 DEF AllUnderstood, Understood
<1>6. (\A interface \in meant :
         LET own  == interface.addresses
             same == {i \in DOMAIN in.system :
                        Last(own) \in Range(in.system[i].addresses)}
         IN  started = [outcome |-> "scan", adapter |-> interface.name,
                        mode |-> mode, duration |-> duration,
                        ownIp |-> IF own = <<>> THEN Absent ELSE Last(own),
                        ownMac |-> IF own = <<>> THEN Absent
                                   ELSE in.system[Min(same)].mac])
      /\ started.outcome = "scan" /\ right
      => AskedFor(in)
  BY Zenon DEF AskedFor
<1>7. ~(started.outcome = "scan") /\ ~right => AskedFor(in)
  BY Zenon DEF AskedFor
<1> HIDE DEF argv, o, started, begun, meant, mode, target, duration, ofScan, given
<1>8. CASE ~AllUnderstood(groups, n)
  <2>1. o.outcome # "scan"
    BY <1>2, <1>8 DEF OptionsAre
  <2>2. QED
    BY <1>1, <1>5, <1>7, <1>8, <2>1
<1>9. CASE AllUnderstood(groups, n)
  <2>1. /\ o.outcome = "scan" /\ (o.pending = Absent <=> in.dangling = <<>>)
        /\ o.interactive <=> asks
        /\ o.listInterfaces <=> given("--list-interfaces")
        /\ LastGiven(o.interface, "--interface", groups, n)
        /\ LastGiven(o.target, "--target", groups, n)
        /\ LastGiven(o.mode, "--mode", groups, n)
        /\ LastGiven(o.duration, "--duration", groups, n)
    BY <1>2, <1>4, <1>9 DEF OptionsAre, argv
  <2>2. /\ "--interface" \in Valued /\ "--target" \in Valued
        /\ "--mode" \in Valued /\ "--duration" \in Valued
    BY DEF Valued
  <2>3. /\ given("--interface") => o.interface = value /\ value # Absent
                                   /\ value.number \in Int \cup {Absent}
        /\ ~given("--interface") => o.interface = Absent /\ value = Number(in.typed.interface)
    <3> DEFINE typed == Number(in.typed.interface)
               found == last("--interface", typed)
    <3> HIDE DEF typed
    <3>1. IF GivenIn("--interface", groups, n)
          THEN /\ found # Absent /\ found.number \in Int \cup {Absent}
               /\ o.interface = PartOf("--interface", found) /\ o.interface # Absent
          ELSE o.interface = Absent /\ found = typed
      BY <1>9, <2>1, <2>2, GivenIs
    <3> HIDE DEF found
    <3>2. PartOf("--interface", found) = found
      BY DEF PartOf
    <3>3. QED
      BY <1>4, <3>1, <3>2 DEF found, typed
  <2>4. /\ given("--mode") => o.mode = mode /\ mode \in Modes /\ o.mode # Absent
        /\ ~given("--mode") => o.mode = Absent /\ mode = in.typed.mode
    <3> DEFINE typed == Text(in.typed.mode)
               found == last("--mode", typed)
    <3> HIDE DEF typed
    <3>1. IF GivenIn("--mode", groups, n)
          THEN /\ found # Absent
               /\ found.text \in Modes
               /\ o.mode = PartOf("--mode", found) /\ o.mode # Absent
          ELSE o.mode = Absent /\ found = typed
      BY <1>9, <2>1, <2>2, GivenIs
    <3> HIDE DEF found
    <3>2. PartOf("--mode", found) = found.text
      BY DEF PartOf
    <3>3. QED
      BY <1>4, <3>1, <3>2 DEF found, typed, Text, mode
  <2>5. /\ given("--target") => o.target # Absent /\ o.target = target
        /\ ~given("--target") => o.target = Absent
                                /\ target = IF in.typed.target THEN Number(1) ELSE Text("nowhere")
    <3> DEFINE typed == IF in.typed.target THEN Number(1) ELSE Text("nowhere")
               found == last("--target", typed)
    <3> HIDE DEF typed
    <3>1. IF GivenIn("--target", groups, n)
          THEN /\ found # Absent
               /\ o.target = PartOf("--target", found) /\ o.target # Absent
          ELSE o.target = Absent /\ found = typed
      BY <1>9, <2>1, <2>2, GivenIs
    <3> HIDE DEF found
    <3>2. PartOf("--target", found) = found
      BY DEF PartOf
    <3>3. QED
      BY <1>4, <3>1, <3>2 DEF found, typed, target
  <2>6. /\ given("--duration") => o.duration = duration /\ o.duration # Absent
        /\ ~given("--duration") => o.duration = Absent /\ duration = 0
    <3> DEFINE typed == Number(0)
               found == last("--duration", typed)
    <3> HIDE DEF typed
    <3>1. IF GivenIn("--duration", groups, n)
          THEN /\ found # Absent
               /\ o.duration = PartOf("--duration", found) /\ o.duration # Absent
          ELSE o.duration = Absent /\ found = typed
      BY <1>9, <2>1, <2>2, GivenIs
    <3> HIDE DEF found
    <3>2. PartOf("--duration", found) = found.number
      BY DEF PartOf
    <3>3. QED
      BY <1>4, <3>1, <3>2 DEF found, typed, Number, duration
  <2>7. modeSet = mode /\ seconds = duration
    BY <2>4, <2>6
  <2>8. accepted <=> target.number # Absent
    <3>1. 1 # Absent
      BY AbsentAssumption
    <3>2. QED
      BY <2>5, <3>1 DEF Number, Text, IsTyped
  <2>9. /\ value.number \in Int \cup {Absent}
        /\ adapter = ResolveInterfaceIndex(adapters, value)
    <3>1. CASE given("--interface")
      BY <2>3, <3>1 DEF AdapterNumber
    <3>2. CASE ~given("--interface")
      <4>1. value.number = in.typed.interface /\ value.number \in Int /\ value.number # Absent
        BY <2>3, <3>2, AbsentAssumption DEF Number, IsTyped
      <4>2. QED
        BY <2>3, <3>2, <4>1 DEF AdapterNumber, ResolveInterfaceIndex
    <3>3. QED
      BY <3>1, <3>2
  <2>10. IF meant = {} THEN adapter = Absent
         ELSE /\ adapter # Absent /\ adapter \in DOMAIN adapters
              /\ meant = {adapters[adapter]}
              /\ \E i \in DOMAIN in.system :
                   in.system[i].real /\ in.system[i] = adapters[adapter]
    BY <2>9, MeantIsResolved DEF meant
  <2>11. meant # {} => adapters # <<>>
    <3>1. DOMAIN <<>> = {}
      OBVIOUS
    <3>2. QED
      BY <2>10, <3>1
  <2> HIDE DEF adapters, adapter, value, modeSet, accepted, seconds
  <2>12. started.outcome = "scan" <=> right
    <3>1. ~o.listInterfaces =>
            (Incomplete(o) <=>
               ~asks /\ (\/ ~given("--interface") \/ ~given("--mode")
                         \/ mode = "remote" /\ ~given("--target")))
      BY <2>1, <2>3, <2>4, <2>5 DEF Incomplete
    <3>2. QED
      BY <1>1, <1>5, <1>9, <2>1, <2>7, <2>8, <2>10, <2>11, <3>1
  <2>13. ASSUME started.outcome = "scan", NEW interface \in meant
         PROVE  LET own  == interface.addresses
                    same == {i \in DOMAIN in.system :
                               Last(own) \in Range(in.system[i].addresses)}
                IN  started = [outcome |-> "scan", adapter |-> interface.name,
                               mode |-> mode, duration |-> duration,
                               ownIp |-> IF own = <<>> THEN Absent ELSE Last(own),
                               ownMac |-> IF own = <<>> THEN Absent
                                          ELSE in.system[Min(same)].mac]
    <3>1. interface = adapters[adapter] /\ \E i \in DOMAIN in.system : in.system[i] = interface
      BY <2>10, <2>13
    <3>2. started = [outcome |-> "scan", adapter |-> interface.name,
                     mode |-> mode, duration |-> duration,
                     ownIp |-> OwnIp(interface),
                     ownMac |-> OwnMac(in.system, OwnIp(interface))]
      BY <1>1, <2>7, <2>13, <3>1 DEF begun
    <3>3. QED
      BY <3>1, <3>2, OwnAddresses
  <2>14. QED
    BY <1>6, <1>7, <2>12, <2>13
<1>10. QED
  BY <1>8, <1>9

\* The command lines of Algorithms are such ones.
LEMMA GroupsAre ==
  \A group \in UsualGroups \cup OtherGroups : IsGroup(group) /\ ValueIs(group)
<1>1. \A t : Text(t).number = Absent
  BY DEF Text
<1>2. \A n : Number(n).number = n
  BY DEF Number
<1>3. \A n : n \in Int => Number(n).number \in Int \cup {Absent}
  BY <1>2
<1>4. ASSUME NEW f, NEW v, <<f, v>> \in UsualGroups \cup OtherGroups,
             v.number \in Int \cup {Absent}, f \in Valued
      PROVE  IsGroup(<<f, v>>) /\ ValueIs(<<f, v>>)
  <2> DEFINE g == <<f, v>>
  <2>1. g[1] = f /\ g[2] = v
    OBVIOUS
  <2>2. Range(Tail(g)) = {v}
    <3> DEFINE t == <<v>>
    <3>1. Tail(g) = t
      OBVIOUS
    <3>2. DOMAIN t = {1} /\ t[1] = v
      OBVIOUS
    <3> HIDE DEF g, t
    <3>3. QED
      BY <3>1, <3>2 DEF Range
  <2> HIDE DEF g
  <2>3. v # Absent
    BY <1>4, <2>2, AbsentAssumption DEF g
  <2>4. g = <<g[1], g[2]>>
    BY <2>1 DEF g
  <2>5. IsGroup(g) /\ ValueIs(g)
    BY <1>4, <2>1, <2>3, <2>4 DEF IsGroup, ValueIs
  <2>6. QED
    BY <2>5 DEF g
<1>5. ASSUME NEW f, f \notin Valued PROVE IsGroup(<<f>>) /\ ValueIs(<<f>>)
  <2>1. (<<f>>)[1] = f
    OBVIOUS
  <2>2. QED
    BY <1>5, <2>1 DEF IsGroup, ValueIs
<1> DEFINE all == UsualGroups \cup OtherGroups
<1>6. {<<"--help">>, <<"--interactive">>, <<"--list-interfaces">>, <<"--fast">>} \subseteq all
      /\ \A f \in {"--help", "--interactive", "--list-interfaces", "--fast"} : f \notin Valued
  BY DEF OtherGroups, Valued
<1>7. ASSUME NEW group \in all
      PROVE  \/ group \in {<<"--help">>, <<"--interactive">>, <<"--list-interfaces">>, <<"--fast">>}
             \/ \E f \in Valued : \E v : group = <<f, v>> /\ v.number \in Int \cup {Absent}
  <2> DEFINE valued(f, v) == v.number \in Int \cup {Absent} /\ f \in Valued
  <2>1. /\ valued("--interface", Number(1)) /\ valued("--interface", Text("eth1"))
        /\ valued("--mode", Text("local")) /\ valued("--mode", Text("remote"))
        /\ valued("--target", Number(1)) /\ valued("--duration", Number(10))
        /\ valued("--interface", Number(3)) /\ valued("--interface", Text("wlan0"))
        /\ valued("--mode", Text("fast")) /\ valued("--target", Text("nowhere"))
        /\ valued("--duration", Number(0)) /\ valued("--duration", Text("long"))
    BY <1>1, <1>3 DEF Valued
  <2> HIDE DEF valued
  <2>2. \/ group \in {<<"--help">>, <<"--interactive">>, <<"--list-interfaces">>, <<"--fast">>}
        \/ \E f, v : group = <<f, v>> /\ valued(f, v)
    BY <2>1, Zenon DEF UsualGroups, OtherGroups
  <2>3. QED
    BY <2>2 DEF valued
<1>8. QED
  BY <1>4, <1>5, <1>6, <1>7

LEMMA AddressList ==
  ASSUME NEW a, NEW b
  PROVE  IsSeq(<<a>>) /\ IsSeq(<<a, b>>) /\ IsSeq(<<>>)
<1>1. <<a>> \in Seq({a}) /\ <<a, b>> \in Seq({a, b})
  OBVIOUS
<1>2. QED
  BY <1>1, NoneIs DEF IsSeq

LEMMA SystemsAre ==
  \A system \in Systems : IsSystem(system) /\ AddressesAre(system)
<1> DEFINE lo == Interface("lo", FALSE, <<"127.0.0.1">>)
           br == Interface("br0", FALSE, <<"d">>)
           wlan == Interface("wlan0", FALSE, <<"c">>)
           eth0 == Interface("eth0", TRUE, <<"a", "b">>)
           none == Interface("eth0", TRUE, <<>>)
           eth1 == Interface("eth1", TRUE, <<"d">>)
           One(i) == i.real \in BOOLEAN /\ IsSeq(i.addresses)
<1>1. /\ lo.real = FALSE /\ br.real = FALSE /\ wlan.real = FALSE
      /\ eth0.real = TRUE /\ none.real = TRUE /\ eth1.real = TRUE
      /\ eth0.name = "eth0" /\ none.name = "eth0" /\ eth1.name = "eth1"
  BY DEF Interface
<1>2. /\ IsSeq(lo.addresses) /\ IsSeq(br.addresses) /\ IsSeq(wlan.addresses)
      /\ IsSeq(eth0.addresses) /\ IsSeq(none.addresses) /\ IsSeq(eth1.addresses)
  BY AddressList DEF Interface
<1>3. Systems = {<<lo, eth0, wlan, eth1>>, <<br, none, eth1>>, <<wlan>>}
  BY Zenon DEF Systems
<1> HIDE DEF lo, br, wlan, eth0, none, eth1
<1>4. ASSUME NEW system \in Systems PROVE IsSeq(system)
  <2>1. /\ <<lo, eth0, wlan, eth1>> \in Seq({lo, eth0, wlan, eth1})
        /\ <<br, none, eth1>> \in Seq({br, none, eth1}) /\ <<wlan>> \in Seq({wlan})
    OBVIOUS
  <2>2. QED
    BY <1>3, <2>1 DEF IsSeq
<1>5. ASSUME NEW system \in Systems PROVE AddressesAre(system)
  <2>1. \A i \in 1..Len(system) : system[i] \in Range(system)
    BY <1>4, SeqIs DEF Range
  <2>2. QED
    BY <2>1, AbsentAssumption DEF AddressesAre
<1>6. ASSUME NEW system \in Systems
      PROVE  /\ \A i \in 1..Len(system) : system[i].real \in BOOLEAN /\ IsSeq(system[i].addresses)
             /\ \A i, j \in 1..Len(system) :
                  system[i].real /\ system[j].real /\ system[i].name = system[j].name => i = j
  <2>1. CASE system = <<lo, eth0, wlan, eth1>>
    <3>1. /\ Len(system) = 4 /\ system[1] = lo /\ system[2] = eth0 /\ system[3] = wlan
          /\ system[4] = eth1
      BY <2>1
    <3>2. \A i \in 1..Len(system) : i = 1 \/ i = 2 \/ i = 3 \/ i = 4
      BY <3>1
    <3>3. QED
      BY <1>1, <1>2, <3>1, <3>2
  <2>2. CASE system = <<br, none, eth1>>
    <3>1. Len(system) = 3 /\ system[1] = br /\ system[2] = none /\ system[3] = eth1
      BY <2>2
    <3>2. \A i \in 1..Len(system) : i = 1 \/ i = 2 \/ i = 3
      BY <3>1
    <3>3. QED
      BY <1>1, <1>2, <3>1, <3>2
  <2>3. CASE system = <<wlan>>
    <3>1. Len(system) = 1 /\ system[1] = wlan
      BY <2>3
    <3>2. \A i \in 1..Len(system) : i = 1
      BY <3>1
    <3>3. QED
      BY <1>1, <1>2, <3>1, <3>2
  <2>4. QED
    BY <1>3, <2>1, <2>2, <2>3
<1>7. QED
  BY <1>4, <1>5, <1>6 DEF IsSystem

LEMMA InputsAsk ==
  ASSUME NEW in \in CommandInputs
  PROVE  AskedFor(in)
<1> DEFINE groups == in.groups
           all == UsualGroups \cup OtherGroups
<1>1. /\ groups \in SeqOf(all, 2) \cup SeqOf(UsualGroups, 4)
      /\ in.dangling \in {<<>>, <<"--duration">>}
      /\ in.system \in Systems /\ in.typed \in Typed
  BY DEF CommandInputs
<1>2. groups \in Seq(all)
  <2> HIDE DEF groups
  <2>1. ASSUME NEW S, NEW n \in Nat, groups \in SeqOf(S, n), S \subseteq all
        PROVE  groups \in Seq(all)
    <3>1. PICK m \in 0..n : groups \in [1..m -> S]
      BY <2>1 DEF SeqOf
    <3>2. m \in Nat /\ groups \in [1..m -> all]
      BY <2>1, <3>1
    <3>3. QED
      BY <3>2
  <2>2. QED
    BY <1>1, <2>1, 2 \in Nat, 4 \in Nat
<1>3. IsCommandLine(in)
  <2>1. IsSeq(groups)
    BY <1>2 DEF IsSeq
  <2>2. \A i \in 1..Len(groups) : groups[i] \in all
    BY <1>2
  <2>3. "--duration" \in Valued
    BY DEF Valued
  <2>4. QED
    BY <1>1, <2>1, <2>2, <2>3, GroupsAre DEF IsCommandLine
<1>4. IsTyped(in.typed)
  <2> DEFINE typed == in.typed
  <2>1. /\ typed.interface = 2 \/ typed.interface = 3
        /\ typed.target = TRUE \/ typed.target = FALSE
    <3>1. typed \in Typed
      BY <1>1
    <3> HIDE DEF typed
    <3>2. \/ typed = [interface |-> 2, mode |-> "remote", target |-> TRUE]
          \/ typed = [interface |-> 2, mode |-> "remote", target |-> FALSE]
          \/ typed = [interface |-> 3, mode |-> "fast", target |-> TRUE]
      BY <3>1, Zenon DEF Typed
    <3>3. QED
      BY <3>2
  <2> HIDE DEF typed
  <2>2. typed.interface \in Int
    BY <2>1
  <2>3. typed.target \in BOOLEAN
    BY <2>1, Zenon
  <2>4. QED
    BY <2>2, <2>3 DEF IsTyped, typed
<1>5. QED
  BY <1>1, <1>3, <1>4, SystemsAre, ScanBeginsAsAsked

(***************************************************************************)
(* The scan that begins is the one that was asked for, with every command    *)
(* line, system and answer of Algorithms (main.c:574-783).                   *)
(***************************************************************************)
THEOREM ScansAsked == Spec => []ScanIsAsked
<1> DEFINE CommandInput == algorithm = "command" => input \in CommandInputs
<1>1. Init => CommandInput
  BY DEF Init
<1>2. CommandInput /\ [Next]_vars => CommandInput'
  BY DEF Next, vars
<1>3. CommandInput => ScanIsAsked
  BY InputsAsk DEF ScanIsAsked
<1>4. QED
  BY <1>1, <1>2, <1>3, PTL DEF Spec
=============================================================================
