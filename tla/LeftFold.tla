------------------------------ MODULE LeftFold ------------------------------
(***************************************************************************)
(* What a left fold computes, step by step, for any step: the loops of the *)
(* program over an array or a list are folds, and what is said of such a   *)
(* loop is said of the steps of its fold.  A module that has a fold takes  *)
(* this one as an instance with the fold's step and its start.             *)
(***************************************************************************)
EXTENDS Integers, Sequences, SequencesExt, TLAPS, WellFoundedInduction

CONSTANTS
  Step(_, _),  \* what the loop makes of its state and an element
  Base         \* its state before the first element

FoldedFrom(start, seq) == FoldLeft(Step, start, seq)

Folded(seq) == FoldedFrom(Base, seq)

(***************************************************************************)
(* Induction: a set of numbers that has 0, and the successor of every       *)
(* number below n that it has, has n.                                       *)
(***************************************************************************)
THEOREM Induction ==
  ASSUME NEW n \in Nat, NEW S, 0 \in S,
         \A k \in 0..(n - 1) : k \in S => k + 1 \in S
  PROVE  n \in S
<1> DEFINE R == OpToRel(<, Nat)
           T == (0..n) \ S
<1>1. \A x, y \in Nat : <<y, x>> \in R <=> y < x
  BY DEF OpToRel
<1>2. IsWellFoundedOn(R, Nat)
  BY NatLessThanWellFounded, Zenon
<1> HIDE DEF R
<1>3. SUFFICES ASSUME n \notin S PROVE FALSE
  OBVIOUS
<1>4. T \subseteq Nat /\ T # {}
  BY <1>3
<1> HIDE DEF T
<1>5. PICK x \in T : \A y \in T : ~(<<y, x>> \in R)
  BY <1>2, <1>4, WFMin
<1>6. x \in 0..n /\ x \notin S
  BY <1>5 DEF T
<1>7. x # 0 /\ x - 1 \in 0..(n - 1)
  BY <1>6
<1>8. x - 1 \notin S
  BY <1>6, <1>7
<1>9. x - 1 \in T /\ <<x - 1, x>> \in R
  BY <1>1, <1>6, <1>7, <1>8 DEF T
<1>10. QED
  BY <1>5, <1>9

-----------------------------------------------------------------------------
(* The recursive function behind FoldLeft.                                 *)

\* Of a set of positions up to n the last is folded last.
Iterates(f, start, seq, n) ==
  f = [s \in SUBSET (1..n) |->
         IF s = {} THEN start ELSE Step(f[s \ {Max(s)}], seq[Max(s)])]

LEMMA FoldedIs ==
  ASSUME NEW start, NEW R, NEW seq \in Seq(R)
  PROVE  FoldedFrom(start, seq) =
           (CHOOSE f : Iterates(f, start, seq, Len(seq)))[1..Len(seq)]
<1>1. DOMAIN seq = 1..Len(seq)
  OBVIOUS
<1>2. QED
  BY <1>1 DEF FoldedFrom, FoldLeft, MapThenFoldSet, Iterates

LEMMA MaxOf ==
  ASSUME NEW n \in Nat, NEW s \in SUBSET (1..(n + 1)), n + 1 \in s
  PROVE  Max(s) = n + 1 /\ s \ {n + 1} \in SUBSET (1..n)
<1>1. /\ \A y \in s : n + 1 >= y
      /\ \A x \in s : (\A y \in s : x >= y) => x = n + 1
  OBVIOUS
<1>2. Max(s) = n + 1
  BY <1>1 DEF Max
<1>3. QED
  BY <1>2

\* There is such a function for every sequence.
LEMMA IteratesExists ==
  ASSUME NEW start, NEW seq, NEW n \in Nat
  PROVE  \E f : Iterates(f, start, seq, n)
<1> DEFINE S == {m \in 0..n : \E f : Iterates(f, start, seq, m)}
<1>1. 0 \in S
  <2> DEFINE f == [s \in SUBSET (1..0) |-> start]
  <2>1. \A s \in SUBSET (1..0) : s = {}
    OBVIOUS
  <2>2. f = [s \in SUBSET (1..0) |->
               IF s = {} THEN start ELSE Step(f[s \ {Max(s)}], seq[Max(s)])]
    BY <2>1
  <2>3. QED
    BY <2>2 DEF Iterates
<1>2. ASSUME NEW m \in 0..(n - 1), m \in S PROVE m + 1 \in S
  <2>1. PICK f : Iterates(f, start, seq, m)
    BY <1>2
  <2> DEFINE g == [s \in SUBSET (1..(m + 1)) |->
                     IF m + 1 \in s THEN Step(f[s \ {m + 1}], seq[m + 1])
                     ELSE f[s]]
  <2>2. \A s \in SUBSET (1..m) :
          s \in SUBSET (1..(m + 1)) /\ g[s] = f[s]
    OBVIOUS
  <2>3. ASSUME NEW s \in SUBSET (1..(m + 1))
        PROVE  g[s] = IF s = {} THEN start
                      ELSE Step(g[s \ {Max(s)}], seq[Max(s)])
    <3>1. CASE m + 1 \in s
      <4>1. Max(s) = m + 1 /\ s \ {m + 1} \in SUBSET (1..m)
        BY <3>1, MaxOf
      <4>2. g[s \ {m + 1}] = f[s \ {m + 1}]
        BY <2>2, <4>1
      <4>3. g[s] = Step(f[s \ {m + 1}], seq[m + 1])
        BY <3>1
      <4>4. QED
        BY <3>1, <4>1, <4>2, <4>3
    <3>2. CASE m + 1 \notin s
      <4>1. s \in SUBSET (1..m)
        BY <3>2
      <4>2. f[s] = IF s = {} THEN start
                   ELSE Step(f[s \ {Max(s)}], seq[Max(s)])
        BY <2>1, <4>1 DEF Iterates
      <4>3. s \ {Max(s)} \in SUBSET (1..m)
        BY <4>1
      <4>4. g[s] = f[s] /\ g[s \ {Max(s)}] = f[s \ {Max(s)}]
        BY <2>2, <4>1, <4>3
      <4>5. QED
        BY <4>2, <4>4
    <3>3. QED
      BY <3>1, <3>2
  <2>4. DOMAIN g = SUBSET (1..(m + 1))
    OBVIOUS
  <2>5. g = [s \in SUBSET (1..(m + 1)) |-> g[s]]
    BY <2>4
  <2> HIDE DEF g
  <2>6. Iterates(g, start, seq, m + 1)
    BY <2>3, <2>5 DEF Iterates
  <2>7. QED
    BY <2>6
<1> HIDE DEF S
<1>3. n \in S
  BY <1>1, <1>2, Induction
<1>4. QED
  BY <1>3 DEF S

-----------------------------------------------------------------------------
(***************************************************************************)
(* The fold of a sequence goes through states, from its start on, each made *)
(* of the one before and the next element; the last is its value.           *)
(***************************************************************************)
StatesOf(state, start, seq) ==
  /\ state[0] = start
  /\ \A k \in 0..(Len(seq) - 1) : state[k + 1] = Step(state[k], seq[k + 1])
  /\ FoldedFrom(start, seq) = state[Len(seq)]

THEOREM FoldStepsFrom ==
  ASSUME NEW start, NEW R, NEW seq \in Seq(R)
  PROVE  \E state : StatesOf(state, start, seq)
<1> DEFINE n == Len(seq)
           f == CHOOSE g : Iterates(g, start, seq, n)
           state == [k \in 0..n |-> f[1..k]]
<1>1. n \in Nat
  OBVIOUS
<1>2. Iterates(f, start, seq, n)
  BY <1>1, IteratesExists
<1>3. FoldedFrom(start, seq) = f[1..n]
  BY FoldedIs
<1> HIDE DEF f, n
<1>4. \A s \in SUBSET (1..n) :
        f[s] = IF s = {} THEN start ELSE Step(f[s \ {Max(s)}], seq[Max(s)])
  BY <1>2 DEF Iterates
<1>5. state[0] = start
  <2>1. 1..0 = {} /\ 0 \in 0..n /\ {} \in SUBSET (1..n)
    BY <1>1
  <2>2. QED
    BY <1>4, <2>1
<1>6. ASSUME NEW k \in 0..(n - 1)
      PROVE  state[k + 1] = Step(state[k], seq[k + 1])
  <2>1. k \in 0..n /\ k + 1 \in 0..n /\ k \in Nat /\ k + 1 \in 1..(k + 1)
    BY <1>1
  <2>2. 1..(k + 1) \in SUBSET (1..n) /\ 1..(k + 1) # {}
    <3>1. \A i \in 1..(k + 1) : i \in 1..n
      BY <1>1
    <3>2. QED
      BY <2>1, <3>1
  <2>3. Max(1..(k + 1)) = k + 1
    BY <2>1, MaxOf
  <2>4. (1..(k + 1)) \ {k + 1} = 1..k
    BY <2>1
  <2>5. f[1..(k + 1)] = Step(f[1..k], seq[k + 1])
    BY <1>4, <2>2, <2>3, <2>4
  <2>6. QED
    BY <2>1, <2>5
<1>7. state[n] = f[1..n]
  BY <1>1
<1> HIDE DEF state
<1>8. StatesOf(state, start, seq)
  BY <1>3, <1>5, <1>6, <1>7 DEF n, StatesOf
<1>9. QED
  BY <1>8

THEOREM FoldSteps ==
  ASSUME NEW R, NEW seq \in Seq(R)
  PROVE  \E state :
           /\ state[0] = Base
           /\ \A k \in 0..(Len(seq) - 1) :
                state[k + 1] = Step(state[k], seq[k + 1])
           /\ Folded(seq) = state[Len(seq)]
<1>1. PICK state : StatesOf(state, Base, seq)
  BY FoldStepsFrom
<1>2. QED
  BY <1>1 DEF StatesOf, Folded

LEMMA FoldOfOne ==
  ASSUME NEW start, NEW element
  PROVE  /\ FoldedFrom(start, <<>>) = start
         /\ FoldedFrom(start, <<element>>) = Step(start, element)
<1> DEFINE none == <<>>
           one == <<element>>
           R == {element}
<1>1. none \in Seq(R)
  OBVIOUS
<1>2. Len(none) = 0
  OBVIOUS
<1>3. one \in Seq(R) /\ Len(one) = 1 /\ one[1] = element
  OBVIOUS
<1> HIDE DEF none, one, R
<1>4. PICK state : StatesOf(state, start, none)
  BY <1>1, FoldStepsFrom
<1>5. FoldedFrom(start, none) = start
  BY <1>2, <1>4 DEF StatesOf
<1>6. PICK last : StatesOf(last, start, one)
  BY <1>3, FoldStepsFrom
<1>7. 0 \in 0..(Len(one) - 1) /\ 0 + 1 = 1
  BY <1>3
<1>8. last[1] = Step(last[0], one[1])
  BY <1>6, <1>7 DEF StatesOf
<1>9. FoldedFrom(start, one) = Step(start, element)
  BY <1>3, <1>6, <1>8 DEF StatesOf
<1>10. QED
  BY <1>5, <1>9 DEF none, one

(***************************************************************************)
(* A fold of two sequences that are joined goes on with the second from     *)
(* where the first has led.                                                 *)
(***************************************************************************)
THEOREM FoldOfJoined ==
  ASSUME NEW start, NEW R, NEW a \in Seq(R), NEW b \in Seq(R)
  PROVE  FoldedFrom(start, a \o b) = FoldedFrom(FoldedFrom(start, a), b)
<1> DEFINE m == Len(a)
           n == Len(b)
           c == a \o b
           middle == FoldedFrom(start, a)
<1>1. m \in Nat /\ n \in Nat
  OBVIOUS
<1>2. c \in Seq(R)
  OBVIOUS
<1>3. Len(c) = m + n
  OBVIOUS
<1>4. \A i \in 1..m : c[i] = a[i]
  OBVIOUS
<1>5. \A i \in 1..n : c[m + i] = b[i]
  OBVIOUS
<1>6. PICK s : StatesOf(s, start, a)
  BY FoldStepsFrom
<1> HIDE DEF middle
<1>7. PICK t : StatesOf(t, middle, b)
  BY FoldStepsFrom
<1> HIDE DEF c
<1>8. PICK u : StatesOf(u, start, c)
  BY <1>2, FoldStepsFrom
<1> HIDE DEF m, n
<1> DEFINE S == {k \in Nat : u[k] = s[k]}
           T == {k \in Nat : u[m + k] = t[k]}
<1>9. 0 \in S
  BY <1>6, <1>8 DEF StatesOf
<1>10. ASSUME NEW k \in 0..(m - 1), k \in S PROVE k + 1 \in S
  <2>1. k \in 0..(Len(c) - 1) /\ k + 1 \in 1..m /\ k + 1 \in Nat
    BY <1>1, <1>3
  <2>2. s[k + 1] = Step(s[k], a[k + 1]) /\ u[k + 1] = Step(u[k], a[k + 1])
    BY <1>4, <1>6, <1>8, <2>1 DEF StatesOf, m
  <2>3. QED
    BY <1>10, <2>1, <2>2
<1> HIDE DEF S
<1>11. m \in S
  BY <1>1, <1>9, <1>10, Induction
<1>12. 0 \in T
  <2>1. u[m] = s[m] /\ m + 0 = m
    BY <1>1, <1>11 DEF S
  <2>2. s[m] = middle /\ t[0] = middle
    BY <1>6, <1>7 DEF StatesOf, m, middle
  <2>3. QED
    BY <2>1, <2>2
<1>13. ASSUME NEW k \in 0..(n - 1), k \in T PROVE k + 1 \in T
  <2>1. /\ m + k \in 0..(Len(c) - 1) /\ k + 1 \in 1..n /\ k + 1 \in Nat
        /\ (m + k) + 1 = m + (k + 1)
    BY <1>1, <1>3
  <2>2. u[(m + k) + 1] = Step(u[m + k], c[(m + k) + 1])
    BY <1>8, <2>1 DEF StatesOf
  <2>3. t[k + 1] = Step(t[k], b[k + 1])
    BY <1>7 DEF StatesOf, n
  <2>4. c[m + (k + 1)] = b[k + 1]
    BY <1>5, <2>1
  <2>5. u[m + k] = t[k]
    BY <1>13
  <2>6. u[m + (k + 1)] = t[k + 1]
    BY <2>1, <2>2, <2>3, <2>4, <2>5
  <2>7. QED
    BY <2>1, <2>6
<1> HIDE DEF T
<1>14. n \in T
  BY <1>1, <1>12, <1>13, Induction
<1>15. QED
  BY <1>3, <1>7, <1>8, <1>14 DEF T, StatesOf, n, c, middle

\* What SubSeq makes of the first elements.
LEMMA PrefixIs ==
  ASSUME NEW R, NEW seq \in Seq(R), NEW i \in Nat, i <= Len(seq)
  PROVE  /\ SubSeq(seq, 1, i) \in Seq(R) /\ Len(SubSeq(seq, 1, i)) = i
         /\ \A k \in 1..i : SubSeq(seq, 1, i)[k] = seq[k]
  OBVIOUS

(***************************************************************************)
(* The fold of a sequence's first elements is made, with the next one, into *)
(* that of one element more.                                                *)
(***************************************************************************)
THEOREM FoldOfPrefix ==
  ASSUME NEW R, NEW seq \in Seq(R), NEW i \in Nat, i < Len(seq)
  PROVE  /\ Folded(SubSeq(seq, 1, 0)) = Base
         /\ Folded(SubSeq(seq, 1, i + 1)) = Step(Folded(SubSeq(seq, 1, i)), seq[i + 1])
<1> DEFINE a == SubSeq(seq, 1, i)
           b == SubSeq(seq, 1, i + 1)
           c == SubSeq(seq, 1, 0)
<1>1. /\ a \in Seq(R) /\ Len(a) = i /\ \A k \in 1..i : a[k] = seq[k]
      /\ i + 1 \in Nat /\ i + 1 <= Len(seq) /\ 0 <= Len(seq)
  BY PrefixIs
<1>2. b \in Seq(R) /\ Len(b) = i + 1 /\ \A k \in 1..(i + 1) : b[k] = seq[k]
  BY <1>1, PrefixIs
<1>3. c \in Seq(R) /\ Len(c) = 0
  BY <1>1, 0 \in Nat, PrefixIs
<1> HIDE DEF a, b, c
<1>4. Folded(c) = Base
  BY <1>3, FoldSteps
<1>5. PICK s :
        /\ s[0] = Base
        /\ \A k \in 0..(i - 1) : s[k + 1] = Step(s[k], a[k + 1])
        /\ Folded(a) = s[i]
  BY <1>1, FoldSteps
<1>6. PICK t :
        /\ t[0] = Base
        /\ \A k \in 0..((i + 1) - 1) : t[k + 1] = Step(t[k], b[k + 1])
        /\ Folded(b) = t[i + 1]
  BY <1>2, FoldSteps
<1> DEFINE S == {k \in Nat : s[k] = t[k]}
<1>7. 0 \in S
  BY <1>5, <1>6
<1>8. ASSUME NEW k \in 0..(i - 1), k \in S PROVE k + 1 \in S
  <2>1. /\ k + 1 \in Nat /\ k \in 0..((i + 1) - 1)
        /\ k + 1 \in 1..i /\ k + 1 \in 1..(i + 1)
    OBVIOUS
  <2>2. a[k + 1] = b[k + 1]
    BY <1>1, <1>2, <2>1
  <2>3. s[k + 1] = Step(s[k], a[k + 1]) /\ t[k + 1] = Step(t[k], b[k + 1])
    BY <1>5, <1>6, <2>1
  <2>4. s[k + 1] = t[k + 1]
    BY <1>8, <2>2, <2>3
  <2>5. QED
    BY <2>1, <2>4
<1> HIDE DEF S
<1>9. i \in S
  BY <1>7, <1>8, Induction
<1>10. t[i + 1] = Step(t[i], b[i + 1]) /\ b[i + 1] = seq[i + 1]
  <2>1. i \in 0..((i + 1) - 1) /\ i + 1 \in 1..(i + 1)
    OBVIOUS
  <2>2. QED
    BY <1>2, <1>6, <2>1
<1>11. s[i] = t[i]
  BY <1>9 DEF S
<1>12. Folded(b) = Step(Folded(a), seq[i + 1])
  BY <1>5, <1>6, <1>10, <1>11
<1>13. QED
  BY <1>4, <1>12 DEF a, b, c
=============================================================================
