---------------------------- MODULE PacketProofs ----------------------------
(***************************************************************************)
(* What is computed for packets of every length and any content: proofs    *)
(* about Checksum and DcpBlocks, about the range of targets in Targets, and *)
(* of the properties of Algorithms that follow, with what a receiver reads  *)
(* of the requests in Frames and what the scanner reads of the records of  *)
(* an answer in Records.                                                   *)
(***************************************************************************)
EXTENDS Algorithms, TLAPS, FiniteSetTheorems, SequenceTheorems

WordLoop == INSTANCE LeftFold WITH Step <- AddWord, Base <- 0

Plus(sum, word) == sum + word

TotalLoop == INSTANCE LeftFold WITH Step <- Plus, Base <- 0

-----------------------------------------------------------------------------
(* Bytes and words.                                                        *)

Byte == {n \in Nat : n <= 255}

Short == {n \in Nat : n <= MaxWord}

\* A sequence is followed by zeros.
ByteOf(bytes, i) == IF i \in 1..Len(bytes) THEN bytes[i] ELSE 0

LEMMA ByteOfType ==
  ASSUME NEW bytes \in Seq(Byte), NEW i \in Int
  PROVE  ByteOf(bytes, i) \in Byte /\ ByteOf(bytes, i) \in Nat
<1>1. Len(bytes) \in Nat /\ \A n \in 1..Len(bytes) : bytes[n] \in Byte
  OBVIOUS
<1>2. 0 \in Byte /\ Byte \subseteq Nat
  BY DEF Byte
<1>3. QED
  BY <1>1, <1>2 DEF ByteOf

LEMMA WordIs ==
  ASSUME NEW high \in Byte, NEW low \in Byte
  PROVE  Word(high, low) = 256 * high + low /\ Word(high, low) \in Short
  BY SMT DEF Word, Byte, Short, MaxWord

LEMMA Concatenated ==
  ASSUME NEW a \in Seq(Byte), NEW b \in Seq(Byte)
  PROVE  /\ a \o b \in Seq(Byte) /\ Len(a \o b) = Len(a) + Len(b)
         /\ Len(a) \in Nat /\ Len(b) \in Nat
         /\ \A i \in 1..Len(a) : ByteOf(a \o b, i) = ByteOf(a, i)
         /\ \A i \in Nat : i > 0 => ByteOf(a \o b, Len(a) + i) = ByteOf(b, i)
<1>1. Len(a) \in Nat /\ Len(b) \in Nat /\ a \o b \in Seq(Byte)
      /\ Len(a \o b) = Len(a) + Len(b)
  OBVIOUS
<1>2. ASSUME NEW i \in 1..Len(a) PROVE ByteOf(a \o b, i) = ByteOf(a, i)
  BY <1>1 DEF ByteOf
<1>3. ASSUME NEW i \in Nat, i > 0
      PROVE  ByteOf(a \o b, Len(a) + i) = ByteOf(b, i)
  <2>1. Len(a) + i \in 1..Len(a \o b) <=> i \in 1..Len(b)
    BY <1>1, <1>3
  <2>2. i \in 1..Len(b) => (a \o b)[Len(a) + i] = b[i]
    BY <1>1
  <2>3. QED
    BY <2>1, <2>2 DEF ByteOf
<1>4. QED
  BY <1>1, <1>2, <1>3

LEMMA PaddedIs ==
  ASSUME NEW bytes \in Seq(Byte)
  PROVE  /\ Padded(bytes) \in Seq(Byte)
         /\ Len(Padded(bytes)) \div 2 = (Len(bytes) + 1) \div 2
         /\ \A i \in 1..Len(Padded(bytes)) : Padded(bytes)[i] = ByteOf(bytes, i)
         /\ Len(Padded(bytes)) \in {Len(bytes), Len(bytes) + 1}
         /\ Len(Padded(bytes)) % 2 = 0
<1>1. Len(bytes) \in Nat /\ \A i \in 1..Len(bytes) : bytes[i] \in Byte
  OBVIOUS
<1>2. CASE Len(bytes) % 2 = 1
  <2>1. Padded(bytes) = Append(bytes, 0) /\ 0 \in Byte
    BY <1>2 DEF Padded, Byte
  <2>2. Append(bytes, 0) \in Seq(Byte) /\ Len(Append(bytes, 0)) = Len(bytes) + 1
    BY <2>1
  <2>3. \A i \in 1..(Len(bytes) + 1) : Append(bytes, 0)[i] = ByteOf(bytes, i)
    BY <1>1 DEF ByteOf
  <2>4. (Len(bytes) + 1) % 2 = 0
    BY <1>1, <1>2
  <2>5. QED
    BY <2>1, <2>2, <2>3, <2>4
<1>3. CASE Len(bytes) % 2 # 1
  <2>1. Padded(bytes) = bytes
    BY <1>3 DEF Padded
  <2>2. Len(bytes) \div 2 = (Len(bytes) + 1) \div 2 /\ Len(bytes) % 2 = 0
    BY <1>1, <1>3
  <2>3. \A i \in 1..Len(bytes) : bytes[i] = ByteOf(bytes, i)
    BY DEF ByteOf
  <2>4. QED
    BY <2>1, <2>2, <2>3
<1>4. QED
  BY <1>2, <1>3

\* The words of any bytes: the padding is not to be seen.
LEMMA WordsOf ==
  ASSUME NEW bytes \in Seq(Byte)
  PROVE  LET words == Words(Padded(bytes)) IN
         /\ words \in Seq(Short) /\ Len(words) = (Len(bytes) + 1) \div 2
         /\ \A k \in 1..Len(words) :
              words[k] = 256 * ByteOf(bytes, 2 * k - 1) + ByteOf(bytes, 2 * k)
<1> DEFINE padded == Padded(bytes)
           n == Len(padded) \div 2
<1>1. /\ Len(bytes) \in Nat /\ Len(padded) \in Nat /\ n \in Nat
      /\ n = (Len(bytes) + 1) \div 2
      /\ \A i \in 1..Len(padded) : padded[i] = ByteOf(bytes, i)
  BY PaddedIs
<1>2. ASSUME NEW k \in 1..n
      PROVE  /\ Word(padded[2 * k - 1], padded[2 * k])
                  = 256 * ByteOf(bytes, 2 * k - 1) + ByteOf(bytes, 2 * k)
             /\ Word(padded[2 * k - 1], padded[2 * k]) \in Short
  <2>1. 2 * k - 1 \in 1..Len(padded) /\ 2 * k \in 1..Len(padded)
    BY <1>1
  <2>2. /\ padded[2 * k - 1] = ByteOf(bytes, 2 * k - 1)
        /\ padded[2 * k] = ByteOf(bytes, 2 * k)
    BY <1>1, <2>1
  <2>3. ByteOf(bytes, 2 * k - 1) \in Byte /\ ByteOf(bytes, 2 * k) \in Byte
    BY <2>1, ByteOfType
  <2>4. QED
    BY <2>2, <2>3, WordIs
<1> DEFINE words == [k \in 1..n |-> Word(padded[2 * k - 1], padded[2 * k])]
<1>3. Words(padded) = words
  BY DEF Words
<1> HIDE DEF n, padded
<1>4. words \in Seq(Short) /\ Len(words) = n
  BY <1>1, <1>2
<1>5. \A k \in 1..n : words[k] = 256 * ByteOf(bytes, 2 * k - 1) + ByteOf(bytes, 2 * k)
  BY <1>2
<1> HIDE DEF words
<1>6. QED
  BY <1>1, <1>3, <1>4, <1>5 DEF padded

-----------------------------------------------------------------------------
(* Sums.                                                                   *)

\* What the code's addition is.
LEMMA AddWordIs ==
  ASSUME NEW a \in Short, NEW b \in Short
  PROVE  /\ AddWord(a, b) = IF a + b > MaxWord THEN a + b - MaxWord ELSE a + b
         /\ AddWord(a, b) \in Short
<1>1. CASE a + b <= MaxWord
  BY <1>1, SMT DEF AddWord, MaxWord, Short
<1>2. CASE a + b > MaxWord
  BY <1>2, SMT DEF AddWord, MaxWord, Short
<1>3. a + b \in Nat /\ MaxWord \in Nat
  BY DEF MaxWord, Short
<1>4. QED
  BY <1>1, <1>2, <1>3

LEMMA SumSteps ==
  ASSUME NEW words \in Seq(Short)
  PROVE  \E state :
           /\ state[0] = 0
           /\ \A k \in 0..(Len(words) - 1) :
                state[k + 1] = AddWord(state[k], words[k + 1])
           /\ FoldLeft(AddWord, 0, words) = state[Len(words)]
<1>1. FoldLeft(AddWord, 0, words) = WordLoop!Folded(words)
  BY DEF WordLoop!Folded, WordLoop!FoldedFrom, FoldLeft,
         WordLoop!FoldLeft, MapThenFoldSet,
         WordLoop!MapThenFoldSet, Max, WordLoop!Max
<1>2. QED
  BY <1>1, WordLoop!FoldSteps

LEMMA TotalSteps ==
  ASSUME NEW words \in Seq(Short)
  PROVE  \E state :
           /\ state[0] = 0
           /\ \A k \in 0..(Len(words) - 1) : state[k + 1] = state[k] + words[k + 1]
           /\ \A k \in 0..Len(words) : state[k] \in Nat
           /\ TotalOf(words) = state[Len(words)]
<1>1. TotalOf(words) = TotalLoop!Folded(words)
  BY DEF TotalOf, TotalLoop!Folded, TotalLoop!FoldedFrom, FoldLeft,
         TotalLoop!FoldLeft, MapThenFoldSet,
         TotalLoop!MapThenFoldSet, Max, TotalLoop!Max, Plus
<1>2. PICK state :
        /\ state[0] = 0
        /\ \A k \in 0..(Len(words) - 1) : state[k + 1] = state[k] + words[k + 1]
        /\ TotalOf(words) = state[Len(words)]
  BY <1>1, TotalLoop!FoldSteps DEF Plus
<1> DEFINE S == {k \in Nat : state[k] \in Nat}
<1>3. ASSUME NEW n \in 0..Len(words) PROVE n \in S
  <2>1. n \in Nat /\ Len(words) \in Nat /\ 0 \in S
    BY <1>2
  <2>2. ASSUME NEW k \in 0..(n - 1), k \in S PROVE k + 1 \in S
    <3>1. k \in 0..(Len(words) - 1) /\ k + 1 \in 1..Len(words)
      BY <2>1
    <3>2. words[k + 1] \in Nat
      BY <3>1 DEF Short
    <3>3. QED
      BY <1>2, <2>2, <3>1, <3>2
  <2> HIDE DEF S
  <2>3. QED
    BY <2>1, <2>2, TotalLoop!Induction
<1>4. QED
  BY <1>2, <1>3

LEMMA MoreCarries ==
  ASSUME NEW sum \in Short, NEW word \in Short, NEW carries \in Nat, NEW next \in Short,
         NEW total, total = sum + MaxWord * carries,
         next = sum + word - MaxWord \/ next = sum + word
  PROVE  \E more \in Nat : total + word = next + MaxWord * more
<1>1. CASE next = sum + word
  BY <1>1, SMT DEF Short, MaxWord
<1>2. CASE next = sum + word - MaxWord
  <2>1. total + word = next + MaxWord * (carries + 1) /\ carries + 1 \in Nat
    BY <1>2, SMT DEF Short, MaxWord
  <2>2. QED
    BY <2>1
<1>3. QED
  BY <1>1, <1>2

\* The code's sum is the total, less a number of carries.
LEMMA SumOfTotal ==
  ASSUME NEW words \in Seq(Short)
  PROVE  /\ FoldLeft(AddWord, 0, words) \in Short
         /\ \E carries \in Nat :
              TotalOf(words) = FoldLeft(AddWord, 0, words) + MaxWord * carries
<1>1. PICK sum :
        /\ sum[0] = 0
        /\ \A k \in 0..(Len(words) - 1) : sum[k + 1] = AddWord(sum[k], words[k + 1])
        /\ FoldLeft(AddWord, 0, words) = sum[Len(words)]
  BY SumSteps
<1>2. PICK total :
        /\ total[0] = 0
        /\ \A k \in 0..(Len(words) - 1) : total[k + 1] = total[k] + words[k + 1]
        /\ TotalOf(words) = total[Len(words)]
  BY TotalSteps
<1> DEFINE n == Len(words)
           S == {k \in Nat : sum[k] \in Short
                   /\ \E carries \in Nat : total[k] = sum[k] + MaxWord * carries}
<1>3. n \in Nat
  OBVIOUS
<1>4. 0 \in S
  <2>1. 0 \in Nat /\ 0 \in Short /\ 0 = 0 + MaxWord * 0
    BY SMT DEF MaxWord, Short
  <2>2. QED
    BY <1>1, <1>2, <2>1
<1>5. ASSUME NEW k \in 0..(n - 1), k \in S PROVE k + 1 \in S
  <2>1. k + 1 \in 1..n /\ k + 1 \in Nat /\ words[k + 1] \in Short /\ sum[k] \in Short
    BY <1>3, <1>5
  <2>2. PICK carries \in Nat : total[k] = sum[k] + MaxWord * carries
    BY <1>5
  <2>3. /\ sum[k + 1] = AddWord(sum[k], words[k + 1])
        /\ total[k + 1] = total[k] + words[k + 1]
    BY <1>1, <1>2
  <2>4. sum[k + 1] \in Short
    BY <2>1, <2>3, AddWordIs
  <2>5. \/ sum[k + 1] = sum[k] + words[k + 1] - MaxWord
        \/ sum[k + 1] = sum[k] + words[k + 1]
    BY <2>1, <2>3, AddWordIs
  <2>6. \E more \in Nat : total[k + 1] = sum[k + 1] + MaxWord * more
    BY <2>1, <2>2, <2>3, <2>4, <2>5, MoreCarries
  <2>7. QED
    BY <2>1, <2>4, <2>6
<1> HIDE DEF S
<1>6. n \in S
  BY <1>3, <1>4, <1>5, TotalLoop!Induction
<1>7. QED
  BY <1>1, <1>2, <1>6 DEF S

-----------------------------------------------------------------------------
(* Totals of joined bytes: those that follow an odd number of bytes stand in  *)
(* the other halves of their words, and count 256 times as much, of which     *)
(* the carries are left out.                                                  *)

Total(bytes) == TotalOf(Words(Padded(bytes)))

\* The words of bytes, and the total after each of them.
Totals(state, bytes) ==
  /\ state[0] = 0
  /\ \A k \in Nat : 2 * k < Len(bytes) =>
       state[k + 1] = state[k] + 256 * ByteOf(bytes, 2 * k + 1)
                        + ByteOf(bytes, 2 * k + 2)
  /\ \A k \in Nat : k <= (Len(bytes) + 1) \div 2 => state[k] \in Nat
  /\ Total(bytes) = state[(Len(bytes) + 1) \div 2]

LEMMA TotalsExist ==
  ASSUME NEW bytes \in Seq(Byte)
  PROVE  \E state : Totals(state, bytes)
<1> DEFINE words == Words(Padded(bytes))
           n == (Len(bytes) + 1) \div 2
<1>1. /\ words \in Seq(Short) /\ Len(words) = n
      /\ \A k \in 1..n :
           words[k] = 256 * ByteOf(bytes, 2 * k - 1) + ByteOf(bytes, 2 * k)
  BY WordsOf
<1> HIDE DEF words
<1>2. PICK state :
        /\ state[0] = 0
        /\ \A k \in 0..(Len(words) - 1) : state[k + 1] = state[k] + words[k + 1]
        /\ \A k \in 0..Len(words) : state[k] \in Nat
        /\ TotalOf(words) = state[Len(words)]
  BY <1>1, TotalSteps
<1>3. Len(bytes) \in Nat /\ n \in Nat
  OBVIOUS
<1>4. ASSUME NEW k \in Nat, 2 * k < Len(bytes)
      PROVE  state[k + 1] = state[k] + 256 * ByteOf(bytes, 2 * k + 1)
                              + ByteOf(bytes, 2 * k + 2)
  <2>1. /\ k \in 0..(n - 1) /\ k + 1 \in 1..n /\ k \in 0..n
        /\ 2 * (k + 1) - 1 = 2 * k + 1 /\ 2 * (k + 1) = 2 * k + 2
        /\ 2 * k + 1 \in Int /\ 2 * k + 2 \in Int
    BY <1>3, <1>4
  <2>2. words[k + 1] = 256 * ByteOf(bytes, 2 * k + 1) + ByteOf(bytes, 2 * k + 2)
    BY <1>1, <2>1
  <2>3. state[k + 1] = state[k] + words[k + 1] /\ state[k] \in Nat
    BY <1>1, <1>2, <2>1
  <2>4. ByteOf(bytes, 2 * k + 1) \in Nat /\ ByteOf(bytes, 2 * k + 2) \in Nat
    BY <2>1, ByteOfType
  <2>5. QED
    BY <2>2, <2>3, <2>4
<1>5. ASSUME NEW k \in Nat, k <= n PROVE state[k] \in Nat
  BY <1>1, <1>2, <1>3, <1>5
<1>6. Total(bytes) = state[n]
  BY <1>1, <1>2 DEF Total, words
<1>7. QED
  BY <1>2, <1>4, <1>5, <1>6 DEF Totals

LEMMA TotalType ==
  ASSUME NEW bytes \in Seq(Byte)
  PROVE  Total(bytes) \in Nat
<1>1. PICK state : Totals(state, bytes)
  BY TotalsExist
<1>2. (Len(bytes) + 1) \div 2 \in Nat
  OBVIOUS
<1>3. QED
  BY <1>1, <1>2 DEF Totals

\* The words that two sequences have in common.
LEMMA SameStart ==
  ASSUME NEW a \in Seq(Byte), NEW b \in Seq(Byte), NEW s, NEW t,
         Totals(s, a \o b), Totals(t, a), NEW h \in Nat, 2 * h <= Len(a)
  PROVE  s[h] = t[h]
<1> DEFINE S == {k \in Nat : s[k] = t[k]}
<1>1. 0 \in S
  BY DEF Totals
<1>2. ASSUME NEW k \in 0..(h - 1), k \in S PROVE k + 1 \in S
  <2>1. /\ Len(a) \in Nat /\ Len(b) \in Nat /\ Len(a \o b) = Len(a) + Len(b)
        /\ \A i \in 1..Len(a) : ByteOf(a \o b, i) = ByteOf(a, i)
    BY Concatenated
  <2>2. /\ k \in Nat /\ 2 * k < Len(a) /\ 2 * k < Len(a \o b) /\ k + 1 \in Nat
        /\ 2 * k + 1 \in 1..Len(a) /\ 2 * k + 2 \in 1..Len(a)
    BY <2>1
  <2>3. /\ ByteOf(a \o b, 2 * k + 1) = ByteOf(a, 2 * k + 1)
        /\ ByteOf(a \o b, 2 * k + 2) = ByteOf(a, 2 * k + 2)
    BY <2>1, <2>2
  <2>4. s[k + 1] = s[k] + 256 * ByteOf(a \o b, 2 * k + 1)
                     + ByteOf(a \o b, 2 * k + 2)
    BY <2>2 DEF Totals
  <2>5. t[k + 1] = t[k] + 256 * ByteOf(a, 2 * k + 1) + ByteOf(a, 2 * k + 2)
    BY <2>2 DEF Totals
  <2>6. s[k + 1] = t[k + 1]
    BY <1>2, <2>3, <2>4, <2>5
  <2>7. QED
    BY <2>2, <2>6
<1> HIDE DEF S
<1>3. h \in S
  BY <1>1, <1>2, TotalLoop!Induction
<1>4. QED
  BY <1>3 DEF S

LEMMA Added ==
  ASSUME NEW x \in Nat, NEW y \in Nat, NEW c \in Nat, NEW d \in Nat
  PROVE  (x + y) + 256 * c + d = x + (y + 256 * c + d)
  OBVIOUS

LEMMA TotalEven ==
  ASSUME NEW a \in Seq(Byte), NEW b \in Seq(Byte), NEW h \in Nat, Len(a) = 2 * h
  PROVE  Total(a \o b) = Total(a) + Total(b)
<1> DEFINE n == (Len(b) + 1) \div 2
<1>1. PICK s : Totals(s, a \o b)
  BY Concatenated, TotalsExist
<1>2. PICK t : Totals(t, a)
  BY TotalsExist
<1>3. PICK u : Totals(u, b)
  BY TotalsExist
<1>4. /\ Len(b) \in Nat /\ n \in Nat /\ (Len(a) + 1) \div 2 = h
      /\ Len(a \o b) = 2 * h + Len(b) /\ (2 * h + Len(b) + 1) \div 2 = h + n
      /\ h + n \in Nat
  <2>1. Len(a \o b) = 2 * h + Len(b) /\ Len(b) \in Nat
    BY Concatenated
  <2>2. (2 * h + 1) \div 2 = h
    OBVIOUS
  <2>3. \A l \in Nat : /\ (2 * h + l + 1) \div 2 = h + (l + 1) \div 2
                       /\ (l + 1) \div 2 \in Nat
    OBVIOUS
  <2>4. QED
    BY <2>1, <2>2, <2>3
<1>5. \A x \in Nat : x < n => 2 * x < Len(b)
  BY <1>4
<1>6. Totals(u, b) => Total(b) = u[n] /\ \A x \in Nat : x <= n => u[x] \in Nat
  BY DEF Totals
<1>7. Total(a \o b) = s[h + n]
  BY <1>1, <1>4 DEF Totals
<1> HIDE DEF n
<1>8. \A i \in Nat : i > 0 => ByteOf(a \o b, 2 * h + i) = ByteOf(b, i)
  <2>1. \A i \in Nat : i > 0 => ByteOf(a \o b, Len(a) + i) = ByteOf(b, i)
    BY Concatenated
  <2>2. QED
    BY <2>1
<1> DEFINE S == {k \in Nat : s[h + k] = t[h] + u[k]}
<1>9. 0 \in S
  <2>1. s[h] = t[h]
    BY <1>1, <1>2, 2 * h <= Len(a), SameStart
  <2>2. u[0] = 0 /\ t[h] \in Nat /\ h + 0 = h
    BY <1>2, <1>3, <1>4 DEF Totals
  <2>3. QED
    BY <2>1, <2>2
<1>10. ASSUME NEW k \in 0..(n - 1), k \in S PROVE k + 1 \in S
  <2>1. /\ k \in Nat /\ k + 1 \in Nat /\ h + k \in Nat /\ 2 * k < Len(b)
        /\ 2 * (h + k) < Len(a \o b)
        /\ 2 * (h + k) + 1 = 2 * h + (2 * k + 1) /\ 2 * k + 1 \in Nat /\ 2 * k + 1 > 0
        /\ 2 * (h + k) + 2 = 2 * h + (2 * k + 2) /\ 2 * k + 2 \in Nat /\ 2 * k + 2 > 0
        /\ (h + k) + 1 = h + (k + 1) /\ k <= n /\ h <= (Len(a) + 1) \div 2
        /\ 2 * k + 1 \in Int /\ 2 * k + 2 \in Int
    BY <1>4, <1>5
  <2>2. /\ ByteOf(a \o b, 2 * (h + k) + 1) = ByteOf(b, 2 * k + 1)
        /\ ByteOf(a \o b, 2 * (h + k) + 2) = ByteOf(b, 2 * k + 2)
    BY <1>8, <2>1
  <2>3. s[(h + k) + 1] = s[h + k] + 256 * ByteOf(b, 2 * k + 1) + ByteOf(b, 2 * k + 2)
    BY <1>1, <2>1, <2>2 DEF Totals
  <2>4. u[k + 1] = u[k] + 256 * ByteOf(b, 2 * k + 1) + ByteOf(b, 2 * k + 2)
    BY <1>3, <2>1 DEF Totals
  <2>5. u[k] \in Nat /\ t[h] \in Nat
    BY <1>2, <1>3, <1>6, <2>1 DEF Totals
  <2>6. ByteOf(b, 2 * k + 1) \in Nat /\ ByteOf(b, 2 * k + 2) \in Nat
    BY <2>1, ByteOfType
  <2>7. s[h + k] = t[h] + u[k]
    BY <1>10
  <2>8. s[(h + k) + 1] = t[h] + u[k + 1]
    <3> DEFINE x == t[h]
               y == u[k]
               c == ByteOf(b, 2 * k + 1)
               d == ByteOf(b, 2 * k + 2)
    <3>1. s[(h + k) + 1] = (x + y) + 256 * c + d /\ u[k + 1] = y + 256 * c + d
      BY <2>3, <2>4, <2>7
    <3>2. x \in Nat /\ y \in Nat /\ c \in Nat /\ d \in Nat
      BY <2>5, <2>6
    <3> HIDE DEF x, y, c, d
    <3>3. s[(h + k) + 1] = x + u[k + 1]
      BY <3>1, <3>2, Added
    <3>4. QED
      BY <3>3 DEF x
  <2>9. QED
    BY <2>1, <2>8
<1> HIDE DEF S
<1>11. n \in S
  BY <1>4, <1>9, <1>10, TotalLoop!Induction
<1>12. s[h + n] = t[h] + u[n]
  BY <1>11 DEF S
<1>13. Total(a \o b) = s[h + n] /\ Total(a) = t[h] /\ Total(b) = u[n]
  BY <1>2, <1>3, <1>4, <1>6, <1>7 DEF Totals
<1>14. QED
  BY <1>12, <1>13

\* The sum goes on from a second sequence's total, of which one byte, low,
\* stands in the last word of the first.
Odd(sum, first, second, low) ==
  \E q \in Int : sum = first + 256 * second + low + MaxWord * q

LEMMA OddStep ==
  ASSUME NEW x \in Nat, NEW y \in Nat, NEW low \in Nat, NEW c \in Nat, NEW d \in Nat,
         NEW s, Odd(s, x, y, low)
  PROVE  Odd(s + 256 * c + d, x, y + 256 * low + c, d)
<1>1. PICK q \in Int : s = x + 256 * y + low + MaxWord * q
  BY DEF Odd
<1>2. /\ q - low \in Int
      /\ s + 256 * c + d
           = x + 256 * (y + 256 * low + c) + d + MaxWord * (q - low)
  BY <1>1, SMT DEF MaxWord
<1>3. QED
  BY <1>2 DEF Odd

LEMMA OddLast ==
  ASSUME NEW x \in Nat, NEW y \in Nat, NEW low \in Nat, NEW s, Odd(s, x, y, low)
  PROVE  Odd(s, x, y + 256 * low, 0)
<1>1. PICK q \in Int : s = x + 256 * y + low + MaxWord * q
  BY DEF Odd
<1>2. /\ q - low \in Int
      /\ s = x + 256 * (y + 256 * low) + 0 + MaxWord * (q - low)
  BY <1>1, SMT DEF MaxWord
<1>3. QED
  BY <1>2 DEF Odd

LEMMA TotalOdd ==
  ASSUME NEW a \in Seq(Byte), NEW b \in Seq(Byte), NEW h \in Nat, Len(a) = 2 * h + 1
  PROVE  Odd(Total(a \o b), Total(a), Total(b), 0)
<1> DEFINE n == Len(b) \div 2
<1>1. PICK s : Totals(s, a \o b)
  BY Concatenated, TotalsExist
<1>2. PICK t : Totals(t, a)
  BY TotalsExist
<1>3. PICK u : Totals(u, b)
  BY TotalsExist
<1>4. /\ Len(b) \in Nat /\ n \in Nat /\ (Len(a) + 1) \div 2 = h + 1
      /\ Len(a \o b) = 2 * h + 1 + Len(b) /\ h + 1 + n \in Nat
      /\ (2 * h + 1 + Len(b) + 1) \div 2 = h + 1 + n
      /\ \A x \in Nat : x < n => 2 * x + 1 < Len(b)
      /\ \/ Len(b) = 2 * n /\ (Len(b) + 1) \div 2 = n
         \/ Len(b) = 2 * n + 1 /\ (Len(b) + 1) \div 2 = n + 1
  <2>1. Len(a \o b) = 2 * h + 1 + Len(b) /\ Len(b) \in Nat
    BY Concatenated
  <2>2. (2 * h + 1 + 1) \div 2 = h + 1
    OBVIOUS
  <2>3. \A l \in Nat : /\ (2 * h + 1 + l + 1) \div 2 = h + 1 + l \div 2
                       /\ l \div 2 \in Nat
    OBVIOUS
  <2>4. \A l \in Nat : \/ l = 2 * (l \div 2) /\ (l + 1) \div 2 = l \div 2
                       \/ l = 2 * (l \div 2) + 1 /\ (l + 1) \div 2 = l \div 2 + 1
    OBVIOUS
  <2>5. n \in Nat /\ (Len(b) = 2 * n \/ Len(b) = 2 * n + 1)
    BY <2>1, <2>4
  <2>6. \A x \in Nat : x < n => 2 * x + 1 < Len(b)
    <3> HIDE DEF n
    <3>1. QED
      BY <2>5
  <2>7. (2 * h + 1 + Len(b) + 1) \div 2 = h + 1 + n
    BY <2>1, <2>3
  <2>8. \/ Len(b) = 2 * n /\ (Len(b) + 1) \div 2 = n
        \/ Len(b) = 2 * n + 1 /\ (Len(b) + 1) \div 2 = n + 1
    BY <2>1, <2>4
  <2>9. (Len(a) + 1) \div 2 = h + 1
    BY <2>2
  <2> HIDE DEF n
  <2>10. h + 1 + n \in Nat
    BY <2>5
  <2>11. QED
    BY <2>1, <2>5, <2>6, <2>7, <2>8, <2>9, <2>10
<1> HIDE DEF n
<1>5. /\ \A i \in 1..Len(a) : ByteOf(a \o b, i) = ByteOf(a, i)
      /\ \A i \in Nat : i > 0 => ByteOf(a \o b, 2 * h + 1 + i) = ByteOf(b, i)
  <2>1. \A i \in Nat : i > 0 => ByteOf(a \o b, Len(a) + i) = ByteOf(b, i)
    BY Concatenated
  <2>2. \A i \in 1..Len(a) : ByteOf(a \o b, i) = ByteOf(a, i)
    BY Concatenated
  <2>3. QED
    BY <2>1, <2>2
<1>6. Total(a \o b) = s[h + 1 + n] /\ Total(a) = t[h + 1] /\ t[h + 1] \in Nat
  BY <1>1, <1>2, <1>4 DEF Totals
<1>7. \A k \in Nat : 2 * k < Len(b) => k <= (Len(b) + 1) \div 2
  BY <1>4
<1>8. \A k \in Nat : k <= n => u[k] \in Nat
  BY <1>3, <1>4 DEF Totals
<1> DEFINE S == {k \in Nat : Odd(s[h + 1 + k], t[h + 1], u[k], ByteOf(b, 2 * k + 1))}
<1>9. 0 \in S
  <2>1. s[h] = t[h]
    BY <1>1, <1>2, 2 * h <= Len(a), SameStart
  <2>2. /\ 2 * h < Len(a) /\ 2 * h < Len(a \o b) /\ h <= (Len(a) + 1) \div 2
        /\ 2 * h + 1 \in 1..Len(a) /\ 2 * h + 2 = 2 * h + 1 + 1 /\ h + 1 + 0 = h + 1
        /\ 2 * 0 + 1 = 1 /\ ~(2 * h + 2 \in 1..Len(a))
    BY <1>4
  <2>3. s[h + 1] = s[h] + 256 * ByteOf(a \o b, 2 * h + 1) + ByteOf(a \o b, 2 * h + 2)
    BY <1>1, <2>2 DEF Totals
  <2>4. t[h + 1] = t[h] + 256 * ByteOf(a, 2 * h + 1) + ByteOf(a, 2 * h + 2)
    BY <1>2, <2>2 DEF Totals
  <2>5. /\ ByteOf(a \o b, 2 * h + 1) = ByteOf(a, 2 * h + 1)
        /\ ByteOf(a \o b, 2 * h + 2) = ByteOf(b, 1)
        /\ ByteOf(a, 2 * h + 2) = 0
    BY <1>5, <2>2 DEF ByteOf
  <2>6. t[h] \in Nat /\ ByteOf(a, 2 * h + 1) \in Nat /\ ByteOf(b, 1) \in Nat
    BY <1>2, <2>2, ByteOfType DEF Totals
  <2>7. s[h + 1] = t[h + 1] + ByteOf(b, 1)
    BY <2>1, <2>3, <2>4, <2>5, <2>6
  <2>8. u[0] = 0
    BY <1>3 DEF Totals
  <2>9. \A x \in Nat, y \in Nat : Odd(x + y, x, 0, y)
    <3>1. \A x \in Nat, y \in Nat : x + y = x + 256 * 0 + y + MaxWord * 0
      BY SMT DEF MaxWord
    <3>2. QED
      BY <3>1, 0 \in Int DEF Odd
  <2>10. Odd(s[h + 1 + 0], t[h + 1], u[0], ByteOf(b, 2 * 0 + 1))
    BY <1>6, <2>2, <2>6, <2>7, <2>8, <2>9
  <2>11. QED
    BY <2>10
<1>10. ASSUME NEW k \in 0..(n - 1), k \in S PROVE k + 1 \in S
  <2>1. /\ k \in Nat /\ k + 1 \in Nat /\ h + 1 + k \in Nat
        /\ 2 * k < Len(b) /\ 2 * (h + 1 + k) < Len(a \o b)
        /\ 2 * (h + 1 + k) + 1 = 2 * h + 1 + (2 * k + 2)
        /\ 2 * (h + 1 + k) + 2 = 2 * h + 1 + (2 * k + 3)
        /\ 2 * k + 2 \in Nat /\ 2 * k + 2 > 0 /\ 2 * k + 3 \in Nat /\ 2 * k + 3 > 0
        /\ (h + 1 + k) + 1 = h + 1 + (k + 1) /\ k <= n /\ 2 * k + 1 \in Int
        /\ 2 * k + 2 \in Int /\ 2 * k + 3 \in Int /\ 2 * (k + 1) + 1 = 2 * k + 3
    <3> DEFINE length == Len(b)
               both == Len(a \o b)
    <3>1. /\ k \in Nat /\ k < n /\ n \in Nat /\ length \in Nat
          /\ 2 * k + 1 < length /\ both = 2 * h + 1 + length
      BY <1>4
    <3> HIDE DEF length, both
    <3>2. 2 * k < length /\ 2 * (h + 1 + k) < both /\ k <= n
      BY <3>1
    <3>3. /\ k + 1 \in Nat /\ h + 1 + k \in Nat
          /\ 2 * (h + 1 + k) + 1 = 2 * h + 1 + (2 * k + 2)
          /\ 2 * (h + 1 + k) + 2 = 2 * h + 1 + (2 * k + 3)
          /\ 2 * k + 2 \in Nat /\ 2 * k + 2 > 0 /\ 2 * k + 3 \in Nat /\ 2 * k + 3 > 0
      BY <3>1
    <3>4. /\ (h + 1 + k) + 1 = h + 1 + (k + 1) /\ 2 * k + 1 \in Int
          /\ 2 * k + 2 \in Int /\ 2 * k + 3 \in Int /\ 2 * (k + 1) + 1 = 2 * k + 3
      BY <3>1
    <3>5. QED
      BY <3>1, <3>2, <3>3, <3>4 DEF length, both
  <2>2. /\ ByteOf(a \o b, 2 * (h + 1 + k) + 1) = ByteOf(b, 2 * k + 2)
        /\ ByteOf(a \o b, 2 * (h + 1 + k) + 2) = ByteOf(b, 2 * k + 3)
    BY <1>5, <2>1
  <2>3. s[(h + 1 + k) + 1]
          = s[h + 1 + k] + 256 * ByteOf(b, 2 * k + 2) + ByteOf(b, 2 * k + 3)
    BY <1>1, <2>1, <2>2 DEF Totals
  <2>4. u[k + 1] = u[k] + 256 * ByteOf(b, 2 * k + 1) + ByteOf(b, 2 * k + 2)
    BY <1>3, <2>1 DEF Totals
  <2>5. u[k] \in Nat
    BY <1>8, <2>1
  <2>6. /\ ByteOf(b, 2 * k + 1) \in Nat /\ ByteOf(b, 2 * k + 2) \in Nat
        /\ ByteOf(b, 2 * k + 3) \in Nat
    BY <2>1, ByteOfType
  <2>7. Odd(s[h + 1 + k], t[h + 1], u[k], ByteOf(b, 2 * k + 1))
    BY <1>10
  <2>8. Odd(s[h + 1 + k] + 256 * ByteOf(b, 2 * k + 2) + ByteOf(b, 2 * k + 3), t[h + 1],
            u[k] + 256 * ByteOf(b, 2 * k + 1) + ByteOf(b, 2 * k + 2),
            ByteOf(b, 2 * k + 3))
    <3> DEFINE sum == s[h + 1 + k]
               first == t[h + 1]
               second == u[k]
               low == ByteOf(b, 2 * k + 1)
               c == ByteOf(b, 2 * k + 2)
               d == ByteOf(b, 2 * k + 3)
    <3>1. /\ first \in Nat /\ second \in Nat /\ low \in Nat /\ c \in Nat /\ d \in Nat
          /\ Odd(sum, first, second, low)
      BY <1>6, <2>5, <2>6, <2>7
    <3> HIDE DEF sum, first, second, low, c, d
    <3>2. Odd(sum + 256 * c + d, first, second + 256 * low + c, d)
      BY <3>1, OddStep
    <3>3. QED
      BY <3>2 DEF sum, first, second, low, c, d
  <2>9. Odd(s[h + 1 + (k + 1)], t[h + 1], u[k + 1], ByteOf(b, 2 * (k + 1) + 1))
    BY <2>1, <2>3, <2>4, <2>8
  <2>10. QED
    BY <2>1, <2>9
<1>11. n \in S
  <2> HIDE DEF S
  <2>1. QED
    BY <1>4, <1>9, <1>10, TotalLoop!Induction
<1>12. Odd(s[h + 1 + n], t[h + 1], u[n], ByteOf(b, 2 * n + 1))
  BY <1>11
<1> HIDE DEF S
<1>13. u[n] \in Nat
  BY <1>4, <1>8
<1>14. 2 * n + 1 \in Int
  BY <1>4
<1>15. ByteOf(b, 2 * n + 1) \in Nat
  BY <1>14, ByteOfType
<1>16. CASE Len(b) = 2 * n /\ (Len(b) + 1) \div 2 = n
  <2>1. Total(b) = u[n]
    BY <1>3, <1>16 DEF Totals
  <2>2. ByteOf(b, 2 * n + 1) = 0
    BY <1>4, <1>16 DEF ByteOf
  <2>3. QED
    BY <1>6, <1>12, <2>1, <2>2
<1>17. CASE Len(b) = 2 * n + 1 /\ (Len(b) + 1) \div 2 = n + 1
  <2>1. Total(b) = u[n + 1]
    BY <1>3, <1>17 DEF Totals
  <2>2. 2 * n < Len(b) /\ ByteOf(b, 2 * n + 2) = 0
    BY <1>4, <1>17 DEF ByteOf
  <2>3. u[n + 1] = u[n] + 256 * ByteOf(b, 2 * n + 1) + ByteOf(b, 2 * n + 2)
    BY <1>3, <1>4, <2>2 DEF Totals
  <2>4. \A x, y \in Nat : x + 256 * y + 0 = x + 256 * y
    OBVIOUS
  <2>5. u[n + 1] = u[n] + 256 * ByteOf(b, 2 * n + 1)
    BY <1>13, <1>15, <2>2, <2>3, <2>4
  <2>6. Odd(s[h + 1 + n], t[h + 1], u[n] + 256 * ByteOf(b, 2 * n + 1), 0)
    BY <1>6, <1>12, <1>13, <1>15, OddLast
  <2>7. QED
    BY <1>6, <2>1, <2>5, <2>6
<1>18. QED
  BY <1>4, <1>16, <1>17

-----------------------------------------------------------------------------
(* Chains of fields, each of an even number of bytes but the last.         *)

Even(bytes) == bytes \in Seq(Byte) /\ \E h \in Nat : Len(bytes) = 2 * h

LEMMA EvenJoined ==
  ASSUME NEW a, Even(a), NEW b \in Seq(Byte)
  PROVE  /\ a \o b \in Seq(Byte) /\ Total(a \o b) = Total(a) + Total(b)
         /\ Even(b) => Even(a \o b)
<1>1. PICK h \in Nat : Len(a) = 2 * h
  BY DEF Even
<1>2. a \in Seq(Byte)
  BY DEF Even
<1>3. Total(a \o b) = Total(a) + Total(b)
  BY <1>1, <1>2, TotalEven
<1>4. a \o b \in Seq(Byte) /\ Len(a \o b) = Len(a) + Len(b)
  BY <1>2, Concatenated
<1>5. ASSUME Even(b) PROVE Even(a \o b)
  <2>1. PICK g \in Nat : Len(b) = 2 * g
    BY <1>5 DEF Even
  <2>2. Len(a \o b) = 2 * (h + g) /\ h + g \in Nat
    BY <1>1, <1>4, <2>1
  <2>3. QED
    BY <1>4, <2>2 DEF Even
<1>6. QED
  BY <1>3, <1>4, <1>5

LEMMA EvenPadded ==
  ASSUME NEW a, Even(a)
  PROVE  Padded(a) = a /\ Total(a) = TotalOf(Words(a)) /\ a \in Seq(Byte)
<1>1. PICK h \in Nat : Len(a) = 2 * h
  BY DEF Even
<1>2. (2 * h) % 2 # 1
  OBVIOUS
<1>3. Padded(a) = a
  BY <1>1, <1>2 DEF Padded
<1>4. QED
  BY <1>3 DEF Total, Even

\* One word, and one byte.
LEMMA TotalOfPair ==
  ASSUME NEW x \in Byte, NEW y \in Byte
  PROVE  Even(<<x, y>>) /\ Total(<<x, y>>) = 256 * x + y
<1> DEFINE a == <<x, y>>
<1>1. /\ a \in Seq(Byte) /\ Len(a) = 2 /\ 2 = 2 * 1 /\ 1 \in Nat
      /\ ByteOf(a, 1) = x /\ ByteOf(a, 2) = y /\ x \in Nat /\ y \in Nat
  BY DEF ByteOf, Byte
<1> HIDE DEF a
<1>2. PICK state : Totals(state, a)
  BY <1>1, TotalsExist
<1>3. Total(a) = state[1]
  <2>1. (2 + 1) \div 2 = 1
    OBVIOUS
  <2>2. QED
    BY <1>1, <1>2, <2>1 DEF Totals
<1>4. state[1] = 256 * x + y
  <2>1. 2 * 0 < 2 /\ 0 \in Nat /\ 2 * 0 + 1 = 1 /\ 2 * 0 + 2 = 2 /\ 0 + 1 = 1
    OBVIOUS
  <2>2. state[1] = state[0] + 256 * ByteOf(a, 1) + ByteOf(a, 2) /\ state[0] = 0
    BY <1>1, <1>2, <2>1 DEF Totals
  <2>3. QED
    BY <1>1, <2>2
<1>5. Even(a)
  BY <1>1 DEF Even
<1>6. QED
  BY <1>3, <1>4, <1>5 DEF a

LEMMA TotalOfOne ==
  ASSUME NEW x \in Byte
  PROVE  <<x>> \in Seq(Byte) /\ Len(<<x>>) = 1 /\ Total(<<x>>) = 256 * x
<1> DEFINE a == <<x>>
<1>1. /\ a \in Seq(Byte) /\ Len(a) = 1 /\ x \in Nat
      /\ ByteOf(a, 1) = x /\ ByteOf(a, 2) = 0
  BY DEF ByteOf, Byte
<1> HIDE DEF a
<1>2. PICK state : Totals(state, a)
  BY <1>1, TotalsExist
<1>3. Total(a) = state[1]
  <2>1. (1 + 1) \div 2 = 1
    OBVIOUS
  <2>2. QED
    BY <1>1, <1>2, <2>1 DEF Totals
<1>4. state[1] = 256 * x
  <2>1. 2 * 0 < 1 /\ 0 \in Nat /\ 2 * 0 + 1 = 1 /\ 2 * 0 + 2 = 2 /\ 0 + 1 = 1
    OBVIOUS
  <2>2. state[1] = state[0] + 256 * ByteOf(a, 1) + ByteOf(a, 2) /\ state[0] = 0
    BY <1>1, <1>2, <2>1 DEF Totals
  <2>3. QED
    BY <1>1, <2>2
<1>5. QED
  BY <1>1, <1>3, <1>4 DEF a

LEMMA BytesType ==
  ASSUME NEW word \in Short
  PROVE  Even(Bytes(word)) /\ Len(Bytes(word)) = 2 /\ Bytes(word) \in Seq(Byte)
<1>1. word \div 256 \in Byte /\ word % 256 \in Byte
  BY SMT DEF Byte, Short, MaxWord
<1>2. QED
  BY <1>1, TotalOfPair DEF Bytes, Even

-----------------------------------------------------------------------------
(* The header of IP.                                                       *)

\* The complement of a sum, in two bytes with the high one first.
LEMMA StoredIP ==
  ASSUME NEW x \in Short
  PROVE  Even(Stored(Swapped(x))) /\ Total(Stored(Swapped(x))) = x
<1> DEFINE high == x \div 256
           low == x % 256
           swapped == low * 256 + high
<1>1. high \in Byte /\ low \in Byte /\ x = 256 * high + low
  BY SMT DEF Byte, Short, MaxWord
<1>2. Swapped(x) = swapped
  BY DEF Swapped, Word
<1> HIDE DEF high, low
<1>3. swapped % 256 = high /\ swapped \div 256 = low
  BY <1>1, SMT DEF Byte
<1> HIDE DEF swapped
<1>4. Stored(Swapped(x)) = <<high, low>>
  BY <1>2, <1>3 DEF Stored
<1>5. QED
  BY <1>1, <1>4, TotalOfPair

\* A checksum makes the total of a header a multiple.
LEMMA Complement ==
  ASSUME NEW total \in Nat, NEW sum \in Short, NEW carries \in Nat,
         total = sum + MaxWord * carries
  PROVE  /\ MaxWord - sum \in Short
         /\ (total + (MaxWord - sum)) % MaxWord = 0
  BY SMT DEF Short, MaxWord

\* A header with these checksum bytes, and what comes before them.
HeaderStart(in) ==
  <<69, 0>> \o Bytes(in.length) \o Bytes(in.ident) \o <<0, 0>> \o <<in.ttl, 17>>

Header(in, checksum) == HeaderStart(in) \o checksum \o in.src \o in.dst

\* Fields of a header.
IsHeader(in) == in.length \in Short /\ in.ident \in Short /\ in.ttl \in Byte

LEMMA HeaderStartTotal ==
  ASSUME NEW in, IsHeader(in)
  PROVE  Even(HeaderStart(in)) /\ Total(HeaderStart(in)) > 0
         /\ Total(HeaderStart(in)) \in Nat
<1>1. 69 \in Byte /\ 0 \in Byte /\ in.ttl \in Byte /\ 17 \in Byte
  BY DEF Byte, IsHeader
<1> DEFINE a == <<69, 0>>
           l == Bytes(in.length)
           i == Bytes(in.ident)
           c == <<0, 0>>
           d == <<in.ttl, 17>>
<1>2. /\ Even(a) /\ Even(c) /\ Even(d) /\ Total(a) = 256 * 69 + 0
  BY <1>1, TotalOfPair
<1>3. Even(l) /\ Even(i)
  BY BytesType DEF IsHeader
<1>4. HeaderStart(in) = a \o l \o i \o c \o d
  BY DEF HeaderStart
<1> HIDE DEF a, l, i, c, d
<1>5. \A x : Even(x) => x \in Seq(Byte) /\ Total(x) \in Nat
  BY TotalType DEF Even
<1>6. Even(a \o l) /\ Total(a \o l) = Total(a) + Total(l)
  BY <1>2, <1>3, <1>5, EvenJoined
<1>7. /\ Even(a \o l \o i) /\ Total(a \o l \o i) = Total(a \o l) + Total(i)
  BY <1>3, <1>5, <1>6, EvenJoined
<1>8. /\ Even(a \o l \o i \o c)
      /\ Total(a \o l \o i \o c) = Total(a \o l \o i) + Total(c)
  BY <1>2, <1>5, <1>7, EvenJoined
<1>9. /\ Even(a \o l \o i \o c \o d)
      /\ Total(a \o l \o i \o c \o d) = Total(a \o l \o i \o c) + Total(d)
  BY <1>2, <1>5, <1>8, EvenJoined
<1>10. /\ Total(a) \in Nat /\ Total(l) \in Nat /\ Total(i) \in Nat
       /\ Total(c) \in Nat /\ Total(d) \in Nat /\ Total(a) > 0
  <2>1. 256 * 69 + 0 > 0
    OBVIOUS
  <2>2. QED
    BY <1>2, <1>3, <1>5, <2>1
<1>11. /\ Total(a \o l \o i \o c \o d)
            = Total(a) + Total(l) + Total(i) + Total(c) + Total(d)
       /\ Even(a \o l \o i \o c \o d)
  BY <1>6, <1>7, <1>8, <1>9
<1>12. QED
  BY <1>4, <1>10, <1>11

\* A header's total is that of its fields.
LEMMA HeaderTotal ==
  ASSUME NEW in, IsHeader(in), Even(in.src), Even(in.dst), NEW c, Even(c)
  PROVE  /\ Even(Header(in, c))
         /\ Total(Header(in, c))
              = Total(HeaderStart(in)) + Total(c) + Total(in.src) + Total(in.dst)
         /\ Total(in.src) \in Nat /\ Total(in.dst) \in Nat
<1> DEFINE a == HeaderStart(in)
           s == in.src
           d == in.dst
<1>1. Even(a) /\ Even(s) /\ Even(d)
  BY HeaderStartTotal
<1>2. Header(in, c) = a \o c \o s \o d
  BY DEF Header
<1> HIDE DEF a, s, d
<1>3. \A x : Even(x) => x \in Seq(Byte) /\ Total(x) \in Nat
  BY TotalType DEF Even
<1>4. Even(a \o c) /\ Total(a \o c) = Total(a) + Total(c)
  BY <1>1, <1>3, EvenJoined
<1>5. Even(a \o c \o s) /\ Total(a \o c \o s) = Total(a \o c) + Total(s)
  BY <1>1, <1>3, <1>4, EvenJoined
<1>6. Even(a \o c \o s \o d) /\ Total(a \o c \o s \o d) = Total(a \o c \o s) + Total(d)
  BY <1>1, <1>3, <1>5, EvenJoined
<1>7. QED
  BY <1>1, <1>2, <1>3, <1>4, <1>5, <1>6 DEF a, s, d

\* What the senders fill in is a header with its checksum.
LEMMA HeaderIs ==
  ASSUME NEW length, NEW ident, NEW ttl, NEW src, NEW dst
  PROVE  LET in == [length |-> length, ident |-> ident, ttl |-> ttl, src |-> src,
                    dst |-> dst]
         IN  IPHeader(length, ident, ttl, src, dst)
               = Header(in, Stored(IPChecksum(Header(in, <<0, 0>>))))
  BY DEF IPHeader, Header, HeaderStart

LEMMA HeaderVerifies ==
  ASSUME NEW in, IsHeader(in),
         in.src \in Seq(Byte), Len(in.src) = 4, in.dst \in Seq(Byte), Len(in.dst) = 4
  PROVE  Verifies(Header(in, Stored(IPChecksum(Header(in, <<0, 0>>)))))
<1> DEFINE bare == Header(in, <<0, 0>>)
           sum == Sum(bare)
           c == Stored(IPChecksum(bare))
           full == Header(in, c)
           rest == Total(in.src) + Total(in.dst)
<1>1. Even(in.src) /\ Even(in.dst)
  <2>1. 4 = 2 * 2 /\ 2 \in Nat
    OBVIOUS
  <2>2. QED
    BY <2>1 DEF Even
<1>2. Even(<<0, 0>>) /\ Total(<<0, 0>>) = 0
  <2>1. 0 \in Byte
    BY DEF Byte
  <2>2. 256 * 0 + 0 = 0
    OBVIOUS
  <2>3. Total(<<0, 0>>) = 256 * 0 + 0 /\ Even(<<0, 0>>)
    BY <2>1, TotalOfPair
  <2>4. QED
    BY <2>2, <2>3
<1>3. /\ Total(HeaderStart(in)) \in Nat /\ Total(HeaderStart(in)) > 0
      /\ Total(in.src) \in Nat /\ Total(in.dst) \in Nat
  BY <1>1, <1>2, HeaderStartTotal, HeaderTotal
<1>4. /\ Even(bare)
      /\ Total(bare) = Total(HeaderStart(in)) + 0 + Total(in.src) + Total(in.dst)
  BY <1>1, <1>2, HeaderTotal
<1>5. Total(bare) \in Nat /\ Total(bare) > 0
  BY <1>3, <1>4
<1> HIDE DEF bare
<1>6. Words(bare) \in Seq(Short) /\ Total(bare) = TotalOf(Words(bare))
  BY <1>4, EvenPadded, WordsOf
<1>7. PICK carries \in Nat : sum \in Short /\ Total(bare) = sum + MaxWord * carries
  BY <1>6, SumOfTotal DEF Sum
<1> HIDE DEF sum
<1>8. /\ MaxWord - sum \in Short
      /\ (Total(bare) + (MaxWord - sum)) % MaxWord = 0
  BY <1>5, <1>7, Complement
<1>9. c = Stored(Swapped(MaxWord - sum))
  BY DEF IPChecksum, sum
<1> HIDE DEF c
<1>10. Even(c) /\ Total(c) = MaxWord - sum
  BY <1>8, <1>9, StoredIP
<1>11. /\ Even(full)
       /\ Total(full) = Total(HeaderStart(in)) + Total(c) + Total(in.src) + Total(in.dst)
  BY <1>1, <1>10, HeaderTotal
<1>12. MaxWord - sum \in Nat
  BY <1>8 DEF Short
<1>13. Total(full) = Total(bare) + (MaxWord - sum)
  BY <1>3, <1>4, <1>10, <1>11, <1>12
<1> HIDE DEF full
<1>14. Total(full) > 0
  BY <1>5, <1>12, <1>13
<1>15. Verifies(full)
  BY <1>8, <1>13, <1>14 DEF Verifies, Total
<1>16. QED
  BY <1>15 DEF full, c, bare

(***************************************************************************)
(* Every IP header that the senders fill, of whatever length and number and *)
(* from and to whatever address, passes the receiver's check with the       *)
(* checksum that the code stores in it (packetHandler.c:1136-1148, htons of *)
(* line 1147).                                                              *)
(***************************************************************************)
THEOREM IPHeaderVerifies ==
  ASSUME NEW length \in Short, NEW ident \in Short, NEW ttl \in Byte,
         NEW src \in Seq(Byte), Len(src) = 4, NEW dst \in Seq(Byte), Len(dst) = 4
  PROVE  Verifies(IPHeader(length, ident, ttl, src, dst))
<1> DEFINE in == [length |-> length, ident |-> ident, ttl |-> ttl, src |-> src,
                  dst |-> dst]
<1>1. IsHeader(in) /\ in.src = src /\ in.dst = dst
  BY DEF IsHeader
<1>2. IPHeader(length, ident, ttl, src, dst)
        = Header(in, Stored(IPChecksum(Header(in, <<0, 0>>))))
  BY HeaderIs
<1> HIDE DEF in
<1>3. QED
  BY <1>1, <1>2, HeaderVerifies

-----------------------------------------------------------------------------
(* The packet of UDP.                                                      *)

\* The checksum's low byte first.
LEMMA StoredUDP ==
  ASSUME NEW x \in Short
  PROVE  /\ Even(Stored(x)) /\ Total(Stored(x)) \in Nat
         /\ \E q \in Int : Total(Stored(x)) = 256 * x + MaxWord * q
<1> DEFINE high == x \div 256
           low == x % 256
<1>1. /\ high \in Byte /\ low \in Byte /\ 0 - high \in Int /\ 256 * low + high \in Nat
      /\ 256 * low + high = 256 * x + MaxWord * (0 - high)
  BY SMT DEF Byte, Short, MaxWord
<1>2. Stored(x) = <<low, high>>
  BY DEF Stored
<1> HIDE DEF high, low
<1>3. Even(<<low, high>>) /\ Total(<<low, high>>) = 256 * low + high
  BY <1>1, TotalOfPair
<1>4. QED
  BY <1>1, <1>2, <1>3

\* An odd number of bytes in front of fields whose totals are m together.
Apart(bytes, m) ==
  /\ bytes \in Seq(Byte) /\ \E h \in Nat : Len(bytes) = 2 * h + 1
  /\ \E q \in Int : Total(bytes) = 256 * m + MaxWord * q

LEMMA ApartJoined ==
  ASSUME NEW a, NEW m \in Nat, Apart(a, m), NEW b \in Seq(Byte)
  PROVE  /\ a \o b \in Seq(Byte)
         /\ \E q \in Int : Total(a \o b) = 256 * (m + Total(b)) + MaxWord * q
         /\ Even(b) => Apart(a \o b, m + Total(b))
<1>1. PICK h \in Nat : Len(a) = 2 * h + 1
  BY DEF Apart
<1>2. PICK q \in Int : Total(a) = 256 * m + MaxWord * q
  BY DEF Apart
<1>3. a \in Seq(Byte)
  BY DEF Apart
<1>4. Odd(Total(a \o b), Total(a), Total(b), 0)
  BY <1>1, <1>3, TotalOdd
<1>5. PICK r \in Int : Total(a \o b) = Total(a) + 256 * Total(b) + 0 + MaxWord * r
  BY <1>4 DEF Odd
<1>6. Total(b) \in Nat
  BY TotalType
<1>7. Total(a \o b) = 256 * (m + Total(b)) + MaxWord * (q + r) /\ q + r \in Int
  BY <1>2, <1>5, <1>6, SMT DEF MaxWord
<1>8. a \o b \in Seq(Byte) /\ Len(a \o b) = Len(a) + Len(b)
  BY <1>3, Concatenated
<1>9. ASSUME Even(b) PROVE \E g \in Nat : Len(a \o b) = 2 * g + 1
  <2>1. PICK g \in Nat : Len(b) = 2 * g
    BY <1>9 DEF Even
  <2>2. Len(a \o b) = 2 * (h + g) + 1 /\ h + g \in Nat
    BY <1>1, <1>8, <2>1
  <2>3. QED
    BY <2>2
<1>10. QED
  BY <1>7, <1>8, <1>9 DEF Apart

\* What the two packets have in common.
FieldTotals(a, l, p, d) == Total(a) + Total(l) + Total(l) + Total(p) + Total(d)

\* The packet as the code sums it, every field a byte off.
LEMMA SummedTotal ==
  ASSUME NEW a, Even(a), NEW l, Even(l), NEW p, Even(p), NEW d \in Seq(Byte)
  PROVE  /\ <<17>> \o a \o l \o l \o p \o d \in Seq(Byte)
         /\ FieldTotals(a, l, p, d) \in Nat
         /\ \E q \in Int : Total(<<17>> \o a \o l \o l \o p \o d)
                             = 256 * (17 + FieldTotals(a, l, p, d)) + MaxWord * q
<1> DEFINE z == <<17>>
<1>1. Apart(z, 17)
  <2>1. 17 \in Byte /\ 1 = 2 * 0 + 1 /\ 0 \in Nat
    BY DEF Byte
  <2>2. z \in Seq(Byte) /\ Len(z) = 1 /\ Total(z) = 256 * 17
    BY <2>1, TotalOfOne
  <2>3. 256 * 17 = 256 * 17 + MaxWord * 0 /\ 0 \in Int
    BY SMT DEF MaxWord
  <2>4. QED
    BY <2>1, <2>2, <2>3 DEF Apart
<1> HIDE DEF z
<1>2. /\ a \in Seq(Byte) /\ l \in Seq(Byte) /\ p \in Seq(Byte)
      /\ Total(a) \in Nat /\ Total(l) \in Nat /\ Total(p) \in Nat /\ Total(d) \in Nat
  BY TotalType DEF Even
<1> DEFINE m1 == 17 + Total(a)
           m2 == m1 + Total(l)
           m3 == m2 + Total(l)
           m4 == m3 + Total(p)
<1>3. /\ 17 \in Nat /\ m1 \in Nat /\ m2 \in Nat /\ m3 \in Nat /\ m4 \in Nat
      /\ m4 + Total(d) = 17 + FieldTotals(a, l, p, d) /\ FieldTotals(a, l, p, d) \in Nat
  <2> DEFINE ta == Total(a)
             tl == Total(l)
             tp == Total(p)
             td == Total(d)
  <2>1. ta \in Nat /\ tl \in Nat /\ tp \in Nat /\ td \in Nat
    BY <1>2
  <2>2. FieldTotals(a, l, p, d) = ta + tl + tl + tp + td
    BY DEF FieldTotals
  <2> HIDE DEF ta, tl, tp, td
  <2>3. /\ 17 + ta \in Nat /\ 17 + ta + tl \in Nat /\ 17 + ta + tl + tl \in Nat
        /\ 17 + ta + tl + tl + tp \in Nat /\ ta + tl + tl + tp + td \in Nat
        /\ 17 + ta + tl + tl + tp + td = 17 + (ta + tl + tl + tp + td)
    BY <2>1
  <2>4. 17 \in Nat
    OBVIOUS
  <2>5. QED
    BY <2>2, <2>3, <2>4 DEF ta, tl, tp, td
<1>4. Apart(z \o a, m1)
  BY <1>1, <1>2, <1>3, ApartJoined
<1> HIDE DEF m1
<1>5. Apart(z \o a \o l, m2)
  BY <1>2, <1>3, <1>4, ApartJoined
<1> HIDE DEF m2
<1>6. Apart(z \o a \o l \o l, m3)
  BY <1>2, <1>3, <1>5, ApartJoined
<1> HIDE DEF m3
<1>7. Apart(z \o a \o l \o l \o p, m4)
  BY <1>2, <1>3, <1>6, ApartJoined
<1> HIDE DEF m4
<1> DEFINE fields == z \o a \o l \o l \o p
<1> HIDE DEF fields
<1>8. /\ fields \o d \in Seq(Byte)
      /\ \E q \in Int : Total(fields \o d)
                          = 256 * (m4 + Total(d)) + MaxWord * q
  <2>1. m4 \in Nat
    BY <1>3
  <2>2. Apart(fields, m4)
    BY <1>7 DEF fields
  <2>3. QED
    BY <2>1, <2>2, ApartJoined
<1>9. QED
  BY <1>3, <1>8 DEF z, fields

\* The packet as a receiver sums it.
LEMMA ReceivedTotal ==
  ASSUME NEW a, Even(a), NEW l, Even(l), NEW p, Even(p), NEW c, Even(c),
         NEW d \in Seq(Byte)
  PROVE  Total(a \o <<0, 17>> \o l \o p \o l \o c \o d)
           = 17 + FieldTotals(a, l, p, d) + Total(c)
<1> DEFINE z == <<0, 17>>
<1>1. 0 \in Byte /\ 17 \in Byte
  BY DEF Byte
<1>2. Even(z) /\ Total(z) = 17
  <2>1. 256 * 0 + 17 = 17
    OBVIOUS
  <2>2. Even(z) /\ Total(z) = 256 * 0 + 17
    BY <1>1, TotalOfPair
  <2>3. QED
    BY <2>1, <2>2
<1> HIDE DEF z
<1>3. /\ \A x : Even(x) => x \in Seq(Byte)
      /\ \A x \in Seq(Byte) : Total(x) \in Nat
  BY TotalType DEF Even
<1>4. Even(a \o z) /\ Total(a \o z) = Total(a) + Total(z)
  BY <1>2, <1>3, EvenJoined
<1>5. Even(a \o z \o l) /\ Total(a \o z \o l) = Total(a \o z) + Total(l)
  BY <1>3, <1>4, EvenJoined
<1>6. Even(a \o z \o l \o p) /\ Total(a \o z \o l \o p) = Total(a \o z \o l) + Total(p)
  BY <1>3, <1>5, EvenJoined
<1>7. /\ Even(a \o z \o l \o p \o l)
      /\ Total(a \o z \o l \o p \o l) = Total(a \o z \o l \o p) + Total(l)
  BY <1>3, <1>6, EvenJoined
<1>8. /\ Even(a \o z \o l \o p \o l \o c)
      /\ Total(a \o z \o l \o p \o l \o c) = Total(a \o z \o l \o p \o l) + Total(c)
  BY <1>3, <1>7, EvenJoined
<1>9. Total(a \o z \o l \o p \o l \o c \o d) = Total(a \o z \o l \o p \o l \o c) + Total(d)
  BY <1>8, EvenJoined
<1>10. /\ Total(a) \in Nat /\ Total(l) \in Nat /\ Total(p) \in Nat
       /\ Total(c) \in Nat /\ Total(d) \in Nat
  BY <1>3
<1>11. Total(a \o z \o l \o p \o l \o c \o d)
         = Total(a) + 17 + Total(l) + Total(p) + Total(l) + Total(c) + Total(d)
  BY <1>2, <1>4, <1>5, <1>6, <1>7, <1>8, <1>9
<1>12. \A ta, tl, tp, tc, td \in Nat :
         ta + 17 + tl + tp + tl + tc + td = 17 + (ta + tl + tl + tp + td) + tc
  OBVIOUS
<1>13. Total(a \o z \o l \o p \o l \o c \o d) = 17 + FieldTotals(a, l, p, d) + Total(c)
  BY <1>10, <1>11, <1>12 DEF FieldTotals
<1>14. QED
  BY <1>13 DEF z

\* Once the total is known but for multiples, 65536 being one more than one.
LEMMA Multiple ==
  ASSUME NEW m \in Nat, NEW sum \in Short, NEW carries \in Nat, NEW c \in Nat,
         NEW q \in Int, NEW r \in Int,
         256 * m + MaxWord * q = sum + MaxWord * carries,
         c = 256 * (MaxWord - sum) + MaxWord * r
  PROVE  (m + c) % MaxWord = 0
<1> DEFINE n == 256 * (1 - q + carries) + r - m
<1>1. n \in Int /\ m + c = MaxWord * n
  BY SMT DEF MaxWord, Short
<1> HIDE DEF n
<1>2. QED
  BY <1>1, SMT DEF MaxWord

(***************************************************************************)
(* Every UDP packet, of whatever addresses and ports and with data of any   *)
(* length up to the longest, passes the receiver's check with the pseudo    *)
(* header of RFC 768, though the code sums one of its own a byte off and    *)
(* stores the result low byte first (packetHandler.c:1163-1208).            *)
(***************************************************************************)
THEOREM UDPPacketVerifies ==
  ASSUME NEW addresses \in Seq(Byte), Len(addresses) = 8,
         NEW ports \in Seq(Byte), Len(ports) = 4,
         NEW data \in Seq(Byte), Len(data) + 8 \in Short
  PROVE  LET length == Bytes(Len(data) + 8)
             checksum == Stored(UDPChecksum(17, addresses, ports, data))
         IN  Verifies(addresses \o <<0, 17>> \o length \o ports \o length
                        \o checksum \o data)
<1> DEFINE l == Bytes(Len(data) + 8)
           summed == <<17>> \o addresses \o l \o l \o ports \o data
           sum == Sum(Padded(summed))
           c == Stored(UDPChecksum(17, addresses, ports, data))
           received == addresses \o <<0, 17>> \o l \o ports \o l \o c \o data
           fields == FieldTotals(addresses, l, ports, data)
<1>1. Even(l)
  BY BytesType
<1>2. Even(addresses) /\ Even(ports)
  <2>1. 8 = 2 * 4 /\ 4 \in Nat /\ 4 = 2 * 2 /\ 2 \in Nat
    OBVIOUS
  <2>2. QED
    BY <2>1 DEF Even
<1>3. c = Stored(MaxWord - sum)
  BY DEF UDPChecksum, PseudoHeader
<1> HIDE DEF l, c
<1>4. summed \in Seq(Byte) /\ fields \in Nat
      /\ \E q \in Int : Total(summed) = 256 * (17 + fields) + MaxWord * q
  BY <1>1, <1>2, SummedTotal
<1> HIDE DEF summed, fields
<1>5. Words(Padded(summed)) \in Seq(Short)
  BY <1>4, WordsOf
<1>6. PICK carries \in Nat : sum \in Short /\ Total(summed) = sum + MaxWord * carries
  BY <1>5, SumOfTotal DEF Sum, Total
<1>7. PICK q \in Int : Total(summed) = 256 * (17 + fields) + MaxWord * q
  BY <1>4
<1> HIDE DEF sum
<1>8. MaxWord - sum \in Short
  BY <1>6, SMT DEF Short, MaxWord
<1>9. /\ Even(c) /\ Total(c) \in Nat
      /\ \E r \in Int : Total(c) = 256 * (MaxWord - sum) + MaxWord * r
  BY <1>3, <1>8, StoredUDP
<1>10. PICK r \in Int : Total(c) = 256 * (MaxWord - sum) + MaxWord * r
  BY <1>9
<1>11. Total(received) = 17 + fields + Total(c)
  BY <1>1, <1>2, <1>9, ReceivedTotal DEF fields
<1> HIDE DEF received
<1>12. 17 + fields \in Nat /\ 17 + fields + Total(c) > 0
  <2>1. fields \in Nat
    BY <1>4
  <2>2. Total(c) \in Nat
    BY <1>9
  <2>3. QED
    BY <2>1, <2>2
<1>13. 256 * (17 + fields) + MaxWord * q = sum + MaxWord * carries
  BY <1>6, <1>7
<1>14. (17 + fields + Total(c)) % MaxWord = 0
  BY <1>6, <1>9, <1>10, <1>12, <1>13, Multiple
<1>15. Verifies(received)
  BY <1>11, <1>12, <1>14 DEF Verifies, Total
<1>16. QED
  BY <1>15 DEF received, c, l

-----------------------------------------------------------------------------
(* Targets.                                                                *)

\* The numbers that a target may have: an address, or one and the last byte.
IsTarget(numbers, length, blanks) ==
  /\ length <= 63 /\ length >= 7 + blanks /\ Len(numbers) \in {4, 5}
  /\ \A i \in DOMAIN numbers : numbers[i] >= 0 /\ numbers[i] <= 255
  /\ numbers[4] <= numbers[Len(numbers)]

(***************************************************************************)
(* Whatever numbers stand in --target, as many as there may be: each        *)
(* address from the first to the last of the range is asked, once and in    *)
(* order, no byte of one overflows, and everything else is refused, too     *)
(* long a text before its trailing blanks are cut (remoteScan.c:1403-1484).   *)
(***************************************************************************)
THEOREM TargetsAreAsked ==
  ASSUME NEW numbers \in Seq(Int), NEW length \in Int, NEW blanks \in Int
  PROVE  TargetIP(numbers, length, blanks)
           = IF IsTarget(numbers, length, blanks)
             THEN [i \in 1..(numbers[Len(numbers)] - numbers[4] + 1) |->
                     <<numbers[1], numbers[2], numbers[3], numbers[4] + i - 1>>]
             ELSE Failed
<1>1. DOMAIN numbers = 1..Len(numbers) /\ \A i \in 1..Len(numbers) : numbers[i] \in Int
  OBVIOUS
<1>2. \A n \in Int : InByte(n) <=> n >= 0 /\ n <= 255
  BY SMT DEF InByte
<1>3. Accepted(numbers, length, blanks) <=> IsTarget(numbers, length, blanks)
  <2>1. (\A i \in DOMAIN numbers : InByte(numbers[i]))
          <=> \A i \in DOMAIN numbers : numbers[i] >= 0 /\ numbers[i] <= 255
    BY <1>1, <1>2
  <2>2. length < 64 /\ length - blanks >= 7 <=> length <= 63 /\ length >= 7 + blanks
    BY SMT
  <2>3. QED
    BY <2>1, <2>2 DEF Accepted, IsTarget, ValidRange
<1>4. CASE IsTarget(numbers, length, blanks)
  <2> DEFINE range == numbers[Len(numbers)] - numbers[4]
  <2>1. Len(numbers) \in 1..Len(numbers) /\ 4 \in 1..Len(numbers)
    BY <1>4 DEF IsTarget
  <2>2. /\ numbers[4] \in Int /\ numbers[Len(numbers)] \in Int
        /\ numbers[4] >= 0 /\ numbers[Len(numbers)] <= 255
    BY <1>1, <1>4, <2>1 DEF IsTarget
  <2>3. ASSUME NEW i \in 1..(range + 1)
        PROVE  (numbers[4] + i - 1) % 256 = numbers[4] + i - 1
    <3> DEFINE first == numbers[4]
               last  == numbers[Len(numbers)]
    <3>1. first \in Int /\ last \in Int /\ first >= 0 /\ last <= 255
          /\ i \in Int /\ i >= 1 /\ i <= last - first + 1
      BY <2>2, <2>3
    <3> HIDE DEF first, last
    <3>2. (first + i - 1) % 256 = first + i - 1
      BY <3>1, SMT
    <3>3. QED
      BY <3>2 DEF first
  <2>4. TargetIP(numbers, length, blanks)
          = [i \in 1..(range + 1) |->
               <<numbers[1], numbers[2], numbers[3], (numbers[4] + i - 1) % 256>>]
    BY <1>3, <1>4 DEF TargetIP
  <2>5. QED
    BY <1>4, <2>3, <2>4
<1>5. CASE ~IsTarget(numbers, length, blanks)
  BY <1>3, <1>5 DEF TargetIP
<1>6. QED
  BY <1>4, <1>5

-----------------------------------------------------------------------------
(* The properties of Algorithms.                                           *)

LEMMA AddressType ==
  ASSUME NEW a \in Addresses
  PROVE  a \in Seq(Byte) /\ Len(a) = 4
<1>1. CASE a = <<192, 168, 0, 10>>
  BY <1>1 DEF Byte
<1>2. CASE a = <<255, 255, 255, 255>>
  BY <1>2 DEF Byte
<1>3. CASE a = <<0, 0, 0, 0>>
  BY <1>3 DEF Byte
<1>4. CASE a = <<10, 0, 127, 254>>
  BY <1>4 DEF Byte
<1>5. QED
  BY <1>1, <1>2, <1>3, <1>4 DEF Addresses

LEMMA PairIs ==
  ASSUME NEW pair \in AddressPairs
  PROVE  \E a \in Addresses : \E b \in Addresses : pair = a \o b
  BY SMT DEF AddressPairs

(***************************************************************************)
(* Every packet of the runs, for whatever bytes of data: the check that TLC  *)
(* makes of those it is given (packetHandler.c:1136-1208).                  *)
(***************************************************************************)
THEOREM ChecksumsRight == Spec => []ChecksumsVerify
<1>1. ASSUME algorithm = "ip", input \in IPInputs
      PROVE  Verifies(IPHeader(184, input.ident, 64, input.src, input.dst))
  <2>1. input.ident \in Short /\ input.src \in Addresses /\ input.dst \in Addresses
    BY <1>1 DEF IPInputs, Short, MaxWord
  <2>2. 184 \in Short /\ 64 \in Byte
    BY SMT DEF Short, MaxWord, Byte
  <2>3. QED
    BY <2>1, <2>2, AddressType, IPHeaderVerifies
<1>2. ASSUME algorithm = "udp", input \in UDPInputs
      PROVE  LET length == Bytes(Len(input.data) + 8)
                 checksum == Stored(UDPChecksum(17, input.addresses, Ports, input.data))
             IN  Verifies(input.addresses \o <<0, 17>> \o length
                            \o Ports \o length \o checksum \o input.data)
  <2>1. PICK a \in Addresses, b \in Addresses : input.addresses = a \o b
    BY <1>2, PairIs DEF UDPInputs
  <2>2. a \o b \in Seq(Byte) /\ Len(a \o b) = 8
    <3>1. /\ a \in Seq(Byte) /\ Len(a) = 4 /\ b \in Seq(Byte) /\ Len(b) = 4
          /\ 4 + 4 = 8
      BY AddressType
    <3>2. Len(a \o b) = Len(a) + Len(b) /\ a \o b \in Seq(Byte)
      BY <3>1, Concatenated
    <3>3. QED
      BY <3>1, <3>2
  <2>3. input.data \in Seq(Byte) /\ Len(input.data) + 8 \in Short
    <3>1. input.data \in SeqOf(Data, 3)
      BY <1>2 DEF UDPInputs
    <3>2. PICK n \in 0..3 : input.data \in [1..n -> Data]
      BY <3>1 DEF SeqOf
    <3>3. Data \subseteq Byte
      BY DataAssumption DEF Byte
    <3>4. input.data \in Seq(Byte) /\ Len(input.data) = n
      BY <3>2, <3>3
    <3>5. n + 8 \in Short
      BY <3>2, SMT DEF Short, MaxWord
    <3>6. QED
      BY <3>4, <3>5
  <2>4. Ports \in Seq(Byte) /\ Len(Ports) = 4
    <3> DEFINE port == Bytes(34964)
    <3>1. 34964 \in Short
      BY SMT DEF Short, MaxWord
    <3>2. port \in Seq(Byte) /\ Len(port) = 2
      BY <3>1, BytesType
    <3>3. Ports = port \o port
      BY DEF Ports
    <3> HIDE DEF port
    <3>4. port \o port \in Seq(Byte) /\ Len(port \o port) = Len(port) + Len(port)
      BY <3>2, Concatenated
    <3>5. QED
      BY <3>2, <3>3, <3>4
  <2>5. QED
    BY <2>1, <2>2, <2>3, <2>4, UDPPacketVerifies
<1>3. Init => ChecksumsVerify
  <2>1. Init => /\ algorithm = "ip" => input \in IPInputs
                /\ algorithm = "udp" => input \in UDPInputs
    BY DEF Init
  <2>2. QED
    BY <1>1, <1>2, <2>1 DEF ChecksumsVerify
<1>4. ChecksumsVerify /\ [Next]_vars => ChecksumsVerify'
  BY DEF Next, vars, ChecksumsVerify
<1>5. QED
  BY <1>3, <1>4, PTL DEF Spec

-----------------------------------------------------------------------------
(* What stands where in a chain of fields.                                  *)

Sized(bytes, n) == bytes \in Seq(Byte) /\ n \in Nat /\ Len(bytes) = n

\* From an offset on this part stands in the bytes.
Stands(bytes, offset, part) ==
  /\ offset \in Nat /\ Len(bytes) \in Nat /\ Len(part) \in Nat
  /\ offset + Len(part) <= Len(bytes)
  /\ \A i \in 1..Len(part) : bytes[offset + i] = part[i]

\* Fields are appended one after the other: each stands where the ones before
\* it end, and stays there.
LEMMA Appended ==
  ASSUME NEW m, NEW a, Sized(a, m), NEW n, NEW b, Sized(b, n), NEW sum, sum = m + n
  PROVE  Sized(a \o b, sum) /\ Stands(a \o b, m, b)
<1>1. /\ a \in Seq(Byte) /\ b \in Seq(Byte) /\ m \in Nat /\ n \in Nat
      /\ Len(a) = m /\ Len(b) = n
  BY DEF Sized
<1>2. /\ a \o b \in Seq(Byte) /\ Len(a \o b) = m + n
      /\ \A i \in 1..n : (a \o b)[m + i] = b[i]
  BY <1>1
<1>3. m + n \in Nat /\ m + n <= m + n
  BY <1>1
<1>4. QED
  BY <1>1, <1>2, <1>3 DEF Sized, Stands

\* These, and one more.
And(parts, offset, part) == parts \cup {<<offset, part>>}

\* So many bytes, in which these stand: pairs of an offset and a part.
Laid(bytes, n, parts) ==
  Sized(bytes, n) /\ \A p \in parts : Stands(bytes, p[1], p[2])

LEMMA NoneLaid ==
  ASSUME NEW n, NEW a, Sized(a, n)
  PROVE  Laid(a, n, {})
  BY DEF Laid

LEMMA FirstLaid ==
  ASSUME NEW n, NEW a, Sized(a, n)
  PROVE  Laid(a, n, And({}, 0, a))
<1>1. Len(a) \in Nat /\ Len(a) = n /\ 0 + n <= n /\ 0 \in Nat /\ \A i \in 1..n : 0 + i = i
  BY DEF Sized
<1>2. Stands(a, 0, a)
  BY <1>1 DEF Stands
<1>3. QED
  BY <1>2 DEF Laid, And

\* What stands in the first stays where it is when more follows.
LEMMA StillLaid ==
  ASSUME NEW m, NEW a, NEW parts, Laid(a, m, parts), NEW n, NEW b, Sized(b, n),
         NEW sum, sum = m + n
  PROVE  Laid(a \o b, sum, parts)
<1>1. /\ a \in Seq(Byte) /\ b \in Seq(Byte) /\ m \in Nat /\ n \in Nat
      /\ Len(a) = m /\ Len(b) = n
  BY DEF Laid, Sized
<1>2. /\ Len(a \o b) = m + n /\ m + n \in Nat
      /\ \A i \in 1..m : (a \o b)[i] = a[i]
  BY <1>1
<1>3. ASSUME NEW p \in parts PROVE Stands(a \o b, p[1], p[2])
  <2>1. /\ p[1] \in Nat /\ Len(p[2]) \in Nat /\ p[1] + Len(p[2]) <= m
        /\ \A i \in 1..Len(p[2]) : a[p[1] + i] = p[2][i]
    BY <1>1 DEF Laid, Stands
  <2>2. p[1] + Len(p[2]) <= m + n /\ \A i \in 1..Len(p[2]) : p[1] + i \in 1..m
    BY <1>1, <2>1
  <2>3. QED
    BY <1>2, <2>1, <2>2 DEF Stands
<1>4. Sized(a \o b, sum)
  BY Appended DEF Laid
<1>5. QED
  BY <1>3, <1>4 DEF Laid

\* The same, with one that is told of.
LEMMA AlsoLaid ==
  ASSUME NEW m, NEW a, NEW parts, Laid(a, m, parts), NEW n, NEW b, Sized(b, n),
         NEW sum, sum = m + n
  PROVE  Laid(a \o b, sum, And(parts, m, b))
<1>1. Laid(a \o b, sum, parts)
  BY StillLaid
<1>2. Stands(a \o b, m, b)
  BY Appended DEF Laid
<1>3. QED
  BY <1>1, <1>2 DEF Laid, And

\* A part of a part.
LEMMA StandsWithin ==
  ASSUME NEW a, NEW b, NEW c, NEW o, Stands(a, o, b), NEW p, Stands(b, p, c),
         NEW sum, sum = o + p
  PROVE  Stands(a, sum, c)
<1>1. /\ o \in Nat /\ p \in Nat /\ Len(a) \in Nat /\ Len(b) \in Nat /\ Len(c) \in Nat
      /\ o + Len(b) <= Len(a) /\ p + Len(c) <= Len(b)
      /\ \A i \in 1..Len(b) : a[o + i] = b[i]
      /\ \A i \in 1..Len(c) : b[p + i] = c[i]
  BY DEF Stands
<1>2. /\ o + p \in Nat /\ (o + p) + Len(c) <= Len(a)
      /\ \A i \in 1..Len(c) : p + i \in 1..Len(b) /\ o + (p + i) = (o + p) + i
  BY <1>1
<1>3. QED
  BY <1>1, <1>2 DEF Stands

\* Two parts, one behind the other, are one.
LEMMA StandTogether ==
  ASSUME NEW a, NEW o, NEW b, Stands(a, o, b), NEW m, Sized(b, m),
         NEW c, Stands(a, o + m, c), NEW n, Sized(c, n)
  PROVE  Stands(a, o, b \o c)
<1>1. /\ b \in Seq(Byte) /\ c \in Seq(Byte) /\ m \in Nat /\ n \in Nat
      /\ Len(b) = m /\ Len(c) = n
  BY DEF Sized
<1>2. /\ Len(b \o c) = m + n
      /\ \A i \in 1..m : (b \o c)[i] = b[i]
      /\ \A i \in 1..n : (b \o c)[m + i] = c[i]
  BY <1>1
<1>3. /\ o \in Nat /\ Len(a) \in Nat /\ (o + m) + n <= Len(a)
      /\ \A i \in 1..m : a[o + i] = b[i]
      /\ \A i \in 1..n : a[(o + m) + i] = c[i]
  BY <1>1 DEF Stands
<1>4. ASSUME NEW i \in 1..(m + n) PROVE a[o + i] = (b \o c)[i]
  <2>1. CASE i <= m
    BY <1>1, <1>2, <1>3, <2>1
  <2>2. CASE i > m
    <3>1. i - m \in 1..n /\ m + (i - m) = i /\ (o + m) + (i - m) = o + i
      BY <1>1, <1>3, <2>2
    <3>2. QED
      BY <1>2, <1>3, <3>1
  <2>3. QED
    BY <1>1, <2>1, <2>2
<1>5. m + n \in Nat /\ o + (m + n) <= Len(a)
  BY <1>1, <1>3
<1>6. QED
  BY <1>2, <1>3, <1>4, <1>5 DEF Stands

\* What a receiver takes out.
LEMMA PartIs ==
  ASSUME NEW m, NEW a, Sized(a, m), NEW n, NEW b, Sized(b, n), NEW o, Stands(a, o, b)
  PROVE  Part(a, o, n) = b
<1>1. /\ a \in Seq(Byte) /\ b \in Seq(Byte) /\ m \in Nat /\ n \in Nat /\ o \in Nat
      /\ Len(a) = m /\ Len(b) = n /\ o + n <= m
      /\ \A i \in 1..n : a[o + i] = b[i]
  BY DEF Sized, Stands
<1> DEFINE s == SubSeq(a, o + 1, o + n)
<1>2. Len(s) = n /\ s \in Seq(Byte)
  BY <1>1
<1>3. \A i \in 1..n : s[i] = a[o + i]
  BY <1>1
<1> HIDE DEF s
<1>4. s = b
  BY <1>1, <1>2, <1>3
<1>5. QED
  BY <1>4 DEF s, Part

LEMMA BytesSized ==
  ASSUME NEW word \in Short
  PROVE  Sized(Bytes(word), 2)
  BY BytesType DEF Sized

LEMMA ZerosSized ==
  ASSUME NEW n \in Nat
  PROVE  Sized(Zeros(n), n)
<1>1. 0 \in Byte
  BY DEF Byte
<1>2. QED
  BY <1>1 DEF Zeros, Sized

LEMMA LittleSized ==
  ASSUME NEW number \in Nat, NEW n \in {2, 4}
  PROVE  /\ Sized(Little(number, n), n)
         /\ \A i \in 1..n : Little(number, n)[i] = (number \div Weights[i]) % 256
<1>1. ASSUME NEW i \in 1..n PROVE (number \div Weights[i]) % 256 \in Byte
  <2>1. /\ i \in {1, 2, 3, 4}
        /\ Weights[1] = 1 /\ Weights[2] = 256 /\ Weights[3] = 65536 /\ Weights[4] = 16777216
    BY DEF Weights
  <2>2. Weights[i] \in Nat /\ Weights[i] > 0
    BY <2>1
  <2>3. number \div Weights[i] \in Int
    BY <2>2
  <2>4. QED
    BY <2>3, SMT DEF Byte
<1> DEFINE s == [i \in 1..n |-> (number \div Weights[i]) % 256]
<1>2. s \in Seq(Byte) /\ Len(s) = n
  BY <1>1
<1>3. QED
  BY <1>2 DEF Little, Sized

LEMMA UIDsSized ==
  /\ Sized(UID_EPMap_Interface, 16) /\ Sized(UID_PNIO_Device, 16)
  /\ Sized(LookupActivity, 16) /\ Sized(ReadActivity, 16)
<1>1. Sized(UID_EPMap_Interface, 16)
  BY SMT DEF Sized, Byte, UID_EPMap_Interface
<1>2. Sized(UID_PNIO_Device, 16)
  BY SMT DEF Sized, Byte, UID_PNIO_Device
<1>3. Sized(LookupActivity, 16)
  BY SMT DEF Sized, Byte, LookupActivity
<1>4. Sized(ReadActivity, 16)
  BY SMT DEF Sized, Byte, ReadActivity
<1>5. QED
  BY <1>1, <1>2, <1>3, <1>4

-----------------------------------------------------------------------------
(* The header of a call, and the calls.                                     *)

LEMMA RpcHeaderReads ==
  ASSUME NEW object, Sized(object, 16), NEW interface, Sized(interface, 16),
         NEW activity, Sized(activity, 16), NEW version \in Nat, NEW counter \in Nat,
         NEW opnum \in Nat, NEW length \in Nat
  PROVE  LET rpc == RpcHeader(object, interface, activity, version, counter, opnum,
                              length)
         IN  /\ Sized(rpc, 80) /\ Stands(rpc, 8, object)
             /\ Stands(rpc, 64, Little(counter, 4)) /\ Stands(rpc, 68, Little(opnum, 2))
             /\ Stands(rpc, 74, Little(length, 2))
<1> DEFINE a == <<4, 0, 32, 0>> \o <<16, 0, 0>> \o <<0>>
           b == Zeros(4)
           v == Little(version, 4)
           c == Little(counter, 4)
           o == Little(opnum, 2)
           f == <<255, 255>>
           l == Little(length, 2)
           zz == <<0, 0>>
           z == <<0>>
           s2 == a \o object
           s3 == s2 \o interface
           s4 == s3 \o activity
           s5 == s4 \o b
           s6 == s5 \o v
           s7 == s6 \o c
           s8 == s7 \o o
           s9 == s8 \o f
           s10 == s9 \o f
           s11 == s10 \o l
           s12 == s11 \o zz
           s13 == s12 \o z
           s14 == s13 \o z
<1>1. Sized(a, 8) /\ Sized(f, 2) /\ Sized(zz, 2) /\ Sized(z, 1)
  BY SMT DEF Sized, Byte
<1>2. Sized(v, 4) /\ Sized(c, 4)
  BY LittleSized
<1>3. Sized(o, 2) /\ Sized(l, 2)
  BY LittleSized
<1>4. Sized(b, 4)
  BY 4 \in Nat, ZerosSized
<1>5. RpcHeader(object, interface, activity, version, counter, opnum, length) = s14
  BY DEF RpcHeader, SeqNum
<1> DEFINE p1 == And({}, 8, object)
           p2 == And(p1, 64, c)
           p3 == And(p2, 68, o)
           p4 == And(p3, 74, l)
<1>6. /\ <<8, object>> \in p4
      /\ <<64, c>> \in p4
      /\ <<68, o>> \in p4
      /\ <<74, l>> \in p4
  BY DEF And
<1> HIDE DEF a, b, v, c, o, f, l, zz, z, s2, s3, s4, s5, s6, s7, s8, s9, s10, s11,
             s12, s13, s14, p1, p2, p3, p4
<1>7. Laid(a, 8, {})
  BY <1>1, NoneLaid
<1>8. Laid(s2, 24, p1)
  BY <1>7, 24 = 8 + 16, AlsoLaid DEF s2, p1
<1>9. Laid(s3, 40, p1)
  BY <1>8, 40 = 24 + 16, StillLaid DEF s3
<1>10. Laid(s4, 56, p1)
  BY <1>9, 56 = 40 + 16, StillLaid DEF s4
<1>11. Laid(s5, 60, p1)
  BY <1>4, <1>10, 60 = 56 + 4, StillLaid DEF s5
<1>12. Laid(s6, 64, p1)
  BY <1>2, <1>11, 64 = 60 + 4, StillLaid DEF s6
<1>13. Laid(s7, 68, p2)
  BY <1>2, <1>12, 68 = 64 + 4, AlsoLaid DEF s7, p2
<1>14. Laid(s8, 70, p3)
  BY <1>3, <1>13, 70 = 68 + 2, AlsoLaid DEF s8, p3
<1>15. Laid(s9, 72, p3)
  BY <1>1, <1>14, 72 = 70 + 2, StillLaid DEF s9
<1>16. Laid(s10, 74, p3)
  BY <1>1, <1>15, 74 = 72 + 2, StillLaid DEF s10
<1>17. Laid(s11, 76, p4)
  BY <1>3, <1>16, 76 = 74 + 2, AlsoLaid DEF s11, p4
<1>18. Laid(s12, 78, p4)
  BY <1>1, <1>17, 78 = 76 + 2, StillLaid DEF s12
<1>19. Laid(s13, 79, p4)
  BY <1>1, <1>18, 79 = 78 + 1, StillLaid DEF s13
<1>20. Laid(s14, 80, p4)
  BY <1>1, <1>19, 80 = 79 + 1, StillLaid DEF s14
<1>21. /\ Sized(s14, 80)
       /\ Stands(s14, 8, object)
       /\ Stands(s14, 64, c)
       /\ Stands(s14, 68, o)
       /\ Stands(s14, 74, l)
  BY <1>6, <1>20 DEF Laid
<1>22. QED
  BY <1>5, <1>21, Zenon DEF c, o, l

LEMMA DeviceObjectReads ==
  ASSUME NEW identity, Sized(identity, 4)
  PROVE  Sized(DeviceObject(identity), 16) /\ Stands(DeviceObject(identity), 12, identity)
<1> DEFINE a == <<0, 0, 160, 222, 151, 108, 209, 17, 130, 113>>
           b == <<0, 1>>
           s2 == a \o b
           s3 == s2 \o identity
<1>1. Sized(a, 10) /\ Sized(b, 2)
  BY SMT DEF Sized, Byte
<1>2. DeviceObject(identity) = s3
  BY DEF DeviceObject
<1> DEFINE p1 == And({}, 12, identity)
<1>3. <<12, identity>> \in p1
  BY DEF And
<1> HIDE DEF a, b, s2, s3, p1
<1>4. Laid(a, 10, {})
  BY <1>1, NoneLaid
<1>5. Laid(s2, 12, {})
  BY <1>1, <1>4, 12 = 10 + 2, StillLaid DEF s2
<1>6. Laid(s3, 16, p1)
  BY <1>5, 16 = 12 + 4, AlsoLaid DEF s3, p1
<1>7. /\ Sized(s3, 16)
      /\ Stands(s3, 12, identity)
  BY <1>3, <1>6 DEF Laid
<1>8. QED
  BY <1>2, <1>7, Zenon

LEMMA LookupReads ==
  ASSUME NEW handle, Sized(handle, 20)
  PROVE  Sized(Lookup(handle), 76) /\ Stands(Lookup(handle), 52, handle)
<1> DEFINE a == Zeros(4)
           b == Little(1, 4)
           c == Zeros(16)
           d == Little(2, 4)
           e == UID_PNIO_Device
           f == Little(1, 2)
           g == Little(0, 2)
           s2 == a \o b
           s3 == s2 \o c
           s4 == s3 \o d
           s5 == s4 \o e
           s6 == s5 \o f
           s7 == s6 \o g
           s8 == s7 \o b
           s9 == s8 \o handle
           s10 == s9 \o b
<1>1. Sized(b, 4) /\ Sized(d, 4)
  BY LittleSized
<1>2. Sized(f, 2) /\ Sized(g, 2)
  BY LittleSized
<1>3. Sized(a, 4) /\ Sized(c, 16)
  BY 4 \in Nat, 16 \in Nat, ZerosSized
<1>4. Sized(e, 16)
  BY UIDsSized
<1>5. Lookup(handle) = s10
  BY DEF Lookup
<1> DEFINE p1 == And({}, 52, handle)
<1>6. <<52, handle>> \in p1
  BY DEF And
<1> HIDE DEF a, b, c, d, e, f, g, s2, s3, s4, s5, s6, s7, s8, s9, s10, p1
<1>7. Laid(a, 4, {})
  BY <1>3, NoneLaid
<1>8. Laid(s2, 8, {})
  BY <1>1, <1>7, 8 = 4 + 4, StillLaid DEF s2
<1>9. Laid(s3, 24, {})
  BY <1>3, <1>8, 24 = 8 + 16, StillLaid DEF s3
<1>10. Laid(s4, 28, {})
  BY <1>1, <1>9, 28 = 24 + 4, StillLaid DEF s4
<1>11. Laid(s5, 44, {})
  BY <1>4, <1>10, 44 = 28 + 16, StillLaid DEF s5
<1>12. Laid(s6, 46, {})
  BY <1>2, <1>11, 46 = 44 + 2, StillLaid DEF s6
<1>13. Laid(s7, 48, {})
  BY <1>2, <1>12, 48 = 46 + 2, StillLaid DEF s7
<1>14. Laid(s8, 52, {})
  BY <1>1, <1>13, 52 = 48 + 4, StillLaid DEF s8
<1>15. Laid(s9, 72, p1)
  BY <1>14, 72 = 52 + 20, AlsoLaid DEF s9, p1
<1>16. Laid(s10, 76, p1)
  BY <1>1, <1>15, 76 = 72 + 4, StillLaid DEF s10
<1>17. /\ Sized(s10, 76)
       /\ Stands(s10, 52, handle)
  BY <1>6, <1>16 DEF Laid
<1>18. QED
  BY <1>5, <1>17, Zenon

LEMMA ShortsAre ==
  /\ 0 \in Short /\ 1 \in Short /\ 4 \in Short /\ 5 \in Short /\ 60 \in Short
  /\ 64 \in Short /\ 84 \in Short
  /\ 164 \in Short /\ 172 \in Short /\ 184 \in Short /\ 192 \in Short /\ 4004 \in Short
  /\ 10 \in Short /\ 34964 \in Short /\ 64 \in Byte /\ 128 \in Byte
  BY DEF Short, MaxWord, Byte

LEMMA ReadReads ==
  ASSUME NEW place, Sized(place, 4), NEW index \in Short
  PROVE  LET call == Read(place, index) IN
         /\ Sized(call, 84) /\ Stands(call, 4, Little(64, 4)) /\ Stands(call, 16, Little(64, 4))
         /\ Stands(call, 22, Bytes(60)) /\ Stands(call, 48, place)
         /\ Stands(call, 54, Bytes(index))
<1> DEFINE a == Little(4068, 4)
           b == Little(64, 4)
           c == Little(0, 4)
           d == <<0, 9>>
           e == Bytes(60)
           f == <<1, 0>>
           g == Bytes(0)
           h == Zeros(16)
           k == Zeros(4)
           z == <<0, 0>>
           i == Bytes(index)
           l == Bytes(4004)
           m == Zeros(8)
           s2 == a \o b
           s3 == s2 \o a
           s4 == s3 \o c
           s5 == s4 \o b
           s6 == s5 \o d
           s7 == s6 \o e
           s8 == s7 \o f
           s9 == s8 \o g
           s10 == s9 \o h
           s11 == s10 \o k
           s12 == s11 \o place
           s13 == s12 \o z
           s14 == s13 \o i
           s15 == s14 \o z
           s16 == s15 \o l
           s17 == s16 \o h
           s18 == s17 \o m
<1>1. Sized(a, 4) /\ Sized(b, 4) /\ Sized(c, 4)
  BY LittleSized
<1>2. Sized(d, 2) /\ Sized(f, 2) /\ Sized(z, 2)
  BY SMT DEF Sized, Byte
<1>3. Sized(e, 2) /\ Sized(g, 2) /\ Sized(i, 2) /\ Sized(l, 2)
  BY ShortsAre, BytesSized
<1>4. Sized(h, 16) /\ Sized(k, 4) /\ Sized(m, 8)
  BY 16 \in Nat, 4 \in Nat, 8 \in Nat, ZerosSized
<1>5. Read(place, index) = s18
  BY DEF Read
<1> DEFINE p1 == And({}, 4, b)
           p2 == And(p1, 16, b)
           p3 == And(p2, 22, e)
           p4 == And(p3, 48, place)
           p5 == And(p4, 54, i)
<1>6. /\ <<4, b>> \in p5
      /\ <<16, b>> \in p5
      /\ <<22, e>> \in p5
      /\ <<48, place>> \in p5
      /\ <<54, i>> \in p5
  BY DEF And
<1> HIDE DEF a, b, c, d, e, f, g, h, k, z, i, l, m, s2, s3, s4, s5, s6, s7, s8, s9,
             s10, s11, s12, s13, s14, s15, s16, s17, s18, p1, p2, p3, p4, p5
<1>7. Laid(a, 4, {})
  BY <1>1, NoneLaid
<1>8. Laid(s2, 8, p1)
  BY <1>1, <1>7, 8 = 4 + 4, AlsoLaid DEF s2, p1
<1>9. Laid(s3, 12, p1)
  BY <1>1, <1>8, 12 = 8 + 4, StillLaid DEF s3
<1>10. Laid(s4, 16, p1)
  BY <1>1, <1>9, 16 = 12 + 4, StillLaid DEF s4
<1>11. Laid(s5, 20, p2)
  BY <1>1, <1>10, 20 = 16 + 4, AlsoLaid DEF s5, p2
<1>12. Laid(s6, 22, p2)
  BY <1>2, <1>11, 22 = 20 + 2, StillLaid DEF s6
<1>13. Laid(s7, 24, p3)
  BY <1>3, <1>12, 24 = 22 + 2, AlsoLaid DEF s7, p3
<1>14. Laid(s8, 26, p3)
  BY <1>2, <1>13, 26 = 24 + 2, StillLaid DEF s8
<1>15. Laid(s9, 28, p3)
  BY <1>3, <1>14, 28 = 26 + 2, StillLaid DEF s9
<1>16. Laid(s10, 44, p3)
  BY <1>4, <1>15, 44 = 28 + 16, StillLaid DEF s10
<1>17. Laid(s11, 48, p3)
  BY <1>4, <1>16, 48 = 44 + 4, StillLaid DEF s11
<1>18. Laid(s12, 52, p4)
  BY <1>17, 52 = 48 + 4, AlsoLaid DEF s12, p4
<1>19. Laid(s13, 54, p4)
  BY <1>2, <1>18, 54 = 52 + 2, StillLaid DEF s13
<1>20. Laid(s14, 56, p5)
  BY <1>3, <1>19, 56 = 54 + 2, AlsoLaid DEF s14, p5
<1>21. Laid(s15, 58, p5)
  BY <1>2, <1>20, 58 = 56 + 2, StillLaid DEF s15
<1>22. Laid(s16, 60, p5)
  BY <1>3, <1>21, 60 = 58 + 2, StillLaid DEF s16
<1>23. Laid(s17, 76, p5)
  BY <1>4, <1>22, 76 = 60 + 16, StillLaid DEF s17
<1>24. Laid(s18, 84, p5)
  BY <1>4, <1>23, 84 = 76 + 8, StillLaid DEF s18
<1>25. /\ Sized(s18, 84)
       /\ Stands(s18, 4, b)
       /\ Stands(s18, 16, b)
       /\ Stands(s18, 22, e)
       /\ Stands(s18, 48, place)
       /\ Stands(s18, 54, i)
  BY <1>6, <1>24 DEF Laid
<1>26. QED
  BY <1>5, <1>25, Zenon DEF b, e, i

-----------------------------------------------------------------------------
(* The headers of IP and UDP, and the frame.                                *)

LEMMA HeaderReads ==
  ASSUME NEW length \in Short, NEW ident \in Short, NEW ttl \in Byte,
         NEW src, Sized(src, 4), NEW dst, Sized(dst, 4), NEW checksum, Sized(checksum, 2)
  PROVE  LET ip == <<69, 0>> \o Bytes(length) \o Bytes(ident) \o <<0, 0>> \o <<ttl, 17>>
                     \o checksum \o src \o dst
         IN  /\ Sized(ip, 20) /\ Stands(ip, 0, <<69, 0>>) /\ Stands(ip, 2, Bytes(length))
             /\ Stands(ip, 12, src) /\ Stands(ip, 16, dst)
<1> DEFINE a == <<69, 0>>
           l == Bytes(length)
           i == Bytes(ident)
           z == <<0, 0>>
           t == <<ttl, 17>>
           s2 == a \o l
           s3 == s2 \o i
           s4 == s3 \o z
           s5 == s4 \o t
           s6 == s5 \o checksum
           s7 == s6 \o src
           s8 == s7 \o dst
<1>1. Sized(a, 2) /\ Sized(z, 2) /\ Sized(t, 2)
  BY SMT DEF Sized, Byte
<1>2. Sized(l, 2) /\ Sized(i, 2)
  BY BytesSized
<1>3. <<69, 0>> \o Bytes(length) \o Bytes(ident) \o <<0, 0>> \o <<ttl, 17>>
        \o checksum \o src \o dst = s8
  OBVIOUS
<1> DEFINE p1 == And({}, 0, a)
           p2 == And(p1, 2, l)
           p3 == And(p2, 12, src)
           p4 == And(p3, 16, dst)
<1>4. /\ <<0, a>> \in p4
      /\ <<2, l>> \in p4
      /\ <<12, src>> \in p4
      /\ <<16, dst>> \in p4
  BY DEF And
<1> HIDE DEF a, l, i, z, t, s2, s3, s4, s5, s6, s7, s8, p1, p2, p3, p4
<1>5. Laid(a, 2, p1)
  BY <1>1, FirstLaid DEF p1
<1>6. Laid(s2, 4, p2)
  BY <1>2, <1>5, 4 = 2 + 2, AlsoLaid DEF s2, p2
<1>7. Laid(s3, 6, p2)
  BY <1>2, <1>6, 6 = 4 + 2, StillLaid DEF s3
<1>8. Laid(s4, 8, p2)
  BY <1>1, <1>7, 8 = 6 + 2, StillLaid DEF s4
<1>9. Laid(s5, 10, p2)
  BY <1>1, <1>8, 10 = 8 + 2, StillLaid DEF s5
<1>10. Laid(s6, 12, p2)
  BY <1>9, 12 = 10 + 2, StillLaid DEF s6
<1>11. Laid(s7, 16, p3)
  BY <1>10, 16 = 12 + 4, AlsoLaid DEF s7, p3
<1>12. Laid(s8, 20, p4)
  BY <1>11, 20 = 16 + 4, AlsoLaid DEF s8, p4
<1>13. /\ Sized(s8, 20)
       /\ Stands(s8, 0, a)
       /\ Stands(s8, 2, l)
       /\ Stands(s8, 12, src)
       /\ Stands(s8, 16, dst)
  BY <1>4, <1>12 DEF Laid
<1>14. QED
  BY <1>3, <1>13, Zenon DEF a, l

\* A sum is a word, and so is what is stored of it.
LEMMA SumType ==
  ASSUME NEW bytes \in Seq(Byte)
  PROVE  /\ Sum(Padded(bytes)) \in Short /\ MaxWord - Sum(Padded(bytes)) \in Short
         /\ Len(bytes) % 2 = 0 => Padded(bytes) = bytes
<1>1. Words(Padded(bytes)) \in Seq(Short)
  BY WordsOf
<1>2. Sum(Padded(bytes)) \in Short
  BY <1>1, SumOfTotal DEF Sum
<1>3. Len(bytes) % 2 = 0 => Padded(bytes) = bytes
  BY DEF Padded
<1>4. QED
  BY <1>2, <1>3, SMT DEF Short, MaxWord

LEMMA StoredSized ==
  ASSUME NEW x \in Short
  PROVE  Sized(Stored(x), 2) /\ Swapped(x) \in Short
<1> DEFINE high == x \div 256
           low == x % 256
<1>1. high \in Byte /\ low \in Byte
  BY SMT DEF Byte, Short, MaxWord
<1>2. Stored(x) = <<low, high>> /\ Swapped(x) = Word(low, high)
  BY DEF Stored, Swapped
<1> HIDE DEF high, low
<1>3. <<low, high>> \in Seq(Byte) /\ Len(<<low, high>>) = 2
  BY <1>1
<1>4. QED
  BY <1>1, <1>2, <1>3, WordIs DEF Sized

\* What stands in a header of IP.
IsIP(ip, length, src, dst) ==
  /\ Sized(ip, 20) /\ Stands(ip, 0, <<69, 0>>) /\ Stands(ip, 2, Bytes(length))
  /\ Stands(ip, 12, src) /\ Stands(ip, 16, dst) /\ Verifies(ip)

LEMMA IPHeaderReads ==
  ASSUME NEW length \in Short, NEW ident \in Short, NEW ttl \in Byte,
         NEW src, Sized(src, 4), NEW dst, Sized(dst, 4)
  PROVE  IsIP(IPHeader(length, ident, ttl, src, dst), length, src, dst)
<1> DEFINE with(checksum) ==
             <<69, 0>> \o Bytes(length) \o Bytes(ident) \o <<0, 0>> \o <<ttl, 17>>
               \o checksum \o src \o dst
           z == <<0, 0>>
           bare == with(z)
           c == Stored(IPChecksum(bare))
           ip == with(c)
<1>1. IPHeader(length, ident, ttl, src, dst) = ip
  BY DEF IPHeader
<1>2. Sized(z, 2)
  BY SMT DEF Sized, Byte
<1> HIDE DEF z
<1>3. Sized(bare, 20)
  BY <1>2, HeaderReads
<1> HIDE DEF bare
<1>4. bare \in Seq(Byte) /\ Len(bare) % 2 = 0
  BY <1>3 DEF Sized
<1>5. MaxWord - Sum(bare) \in Short
  BY <1>4, SumType
<1>6. Sized(c, 2)
  BY <1>5, StoredSized DEF IPChecksum
<1> HIDE DEF c
<1>7. /\ Sized(ip, 20) /\ Stands(ip, 0, <<69, 0>>) /\ Stands(ip, 2, Bytes(length))
      /\ Stands(ip, 12, src) /\ Stands(ip, 16, dst)
  BY <1>6, HeaderReads
<1>8. Verifies(IPHeader(length, ident, ttl, src, dst))
  BY IPHeaderVerifies DEF Sized
<1> HIDE DEF ip
<1>9. QED
  BY <1>1, <1>7, <1>8, Zenon DEF IsIP

LEMMA BytesAssociative ==
  ASSUME NEW s \in Seq(Byte), NEW t \in Seq(Byte), NEW u \in Seq(Byte)
  PROVE  (s \o t) \o u = s \o (t \o u)
  BY ConcatAssociative

\* What stands in a header of UDP and behind it.
IsUDP(udp, addresses, port, u, data) ==
  /\ Sized(udp, u) /\ Stands(udp, 2, Bytes(port))
  /\ Stands(udp, 4, Bytes(u)) /\ Stands(udp, 8, data)
  /\ Verifies(addresses \o <<0, 17>> \o Bytes(u) \o udp)

LEMMA UDPReads ==
  ASSUME NEW addresses, Sized(addresses, 8), NEW port \in Short,
         NEW n \in Nat, NEW u \in Short, u = n + 8, NEW data, Sized(data, n)
  PROVE  IsUDP(UDP(addresses, port, u, data), addresses, port, u, data)
<1> DEFINE source == Bytes(34964)
           dest == Bytes(port)
           ports == source \o dest
           l == Bytes(u)
           c == Stored(UDPChecksum(17, addresses, ports, data))
           s1 == ports \o l
           s2 == s1 \o c
           udp == s2 \o data
           p1 == And({}, 0, ports)
           p2 == And(p1, 4, l)
           p3 == And(p2, 8, data)
           pseudo == addresses \o <<0, 17>> \o l
           summed == <<17>> \o addresses \o l \o l \o ports \o data
<1>1. UDP(addresses, port, u, data) = udp
  BY DEF UDP
<1>2. Sized(source, 2) /\ Sized(dest, 2) /\ Sized(l, 2)
  BY ShortsAre, BytesSized
<1>3. <<0, ports>> \in p3 /\ <<4, l>> \in p3 /\ <<8, data>> \in p3
  BY DEF And
<1>4. /\ addresses \in Seq(Byte) /\ data \in Seq(Byte) /\ Len(addresses) = 8
      /\ Len(data) = n
  BY DEF Sized
<1> HIDE DEF source, dest, l, p1, p2, p3
<1>5. Sized(ports, 4) /\ Stands(ports, 2, dest)
  BY <1>2, 4 = 2 + 2, Appended
<1> HIDE DEF ports
<1>6. Sized(c, 2)
  <2>1. c = Stored(MaxWord - Sum(Padded(summed)))
    BY <1>4 DEF UDPChecksum, PseudoHeader, l
  <2>2. summed \in Seq(Byte)
    <3>1. l \in Seq(Byte) /\ ports \in Seq(Byte)
      BY <1>2, <1>5 DEF Sized
    <3>2. <<17>> \in Seq(Byte)
      BY DEF Byte
    <3>3. QED
      BY <1>4, <3>1, <3>2
  <2> HIDE DEF c, summed
  <2>3. QED
    BY <2>1, <2>2, SumType, StoredSized
<1>7. Verifies(pseudo \o ports \o l \o c \o data)
  <2>1. /\ ports \in Seq(Byte) /\ Len(ports) = 4
        /\ Verifies(addresses \o <<0, 17>> \o Bytes(Len(data) + 8) \o ports
                      \o Bytes(Len(data) + 8)
                      \o Stored(UDPChecksum(17, addresses, ports, data)) \o data)
    BY <1>4, <1>5, UDPPacketVerifies DEF Sized
  <2>2. QED
    BY <1>4, <2>1 DEF l
<1> HIDE DEF c
<1>8. Laid(ports, 4, p1)
  BY <1>5, FirstLaid DEF p1
<1> HIDE DEF s1, s2, udp
<1>9. Laid(s1, 6, p1)
  BY <1>2, <1>8, 6 = 4 + 2, StillLaid DEF s1
<1>10. Laid(s1, 6, p2)
  BY <1>2, <1>8, 6 = 4 + 2, AlsoLaid DEF s1, p2
<1>11. Laid(s2, 8, p2)
  BY <1>6, <1>10, 8 = 6 + 2, StillLaid DEF s2
<1>12. Laid(udp, u, p3)
  BY <1>11, u = 8 + n, AlsoLaid DEF udp, p3
<1>13. /\ Sized(udp, u) /\ Stands(udp, 0, ports) /\ Stands(udp, 4, l)
       /\ Stands(udp, 8, data)
  BY <1>3, <1>12 DEF Laid
<1>14. Stands(udp, 2, dest)
  BY <1>5, <1>13, 2 = 0 + 2, StandsWithin
<1>15. pseudo \o ports \o l \o c \o data = pseudo \o udp
  <2>1. /\ ports \in Seq(Byte) /\ l \in Seq(Byte) /\ c \in Seq(Byte)
    BY <1>2, <1>5, <1>6 DEF Sized
  <2>2. pseudo \in Seq(Byte)
    <3>1. <<0, 17>> \in Seq(Byte)
      BY DEF Byte
    <3>2. QED
      BY <1>4, <2>1, <3>1
  <2> HIDE DEF pseudo
  <2>3. s1 \in Seq(Byte)
    BY <2>1 DEF s1
  <2>4. s2 \in Seq(Byte)
    BY <2>1, <2>3 DEF s2
  <2>5. (pseudo \o ports) \o l = pseudo \o s1
    BY <2>1, <2>2, BytesAssociative, Zenon DEF s1
  <2>6. (pseudo \o s1) \o c = pseudo \o s2
    BY <2>1, <2>2, <2>3, BytesAssociative, Zenon DEF s2
  <2>7. (pseudo \o s2) \o data = pseudo \o udp
    BY <1>4, <2>2, <2>4, BytesAssociative, Zenon DEF udp
  <2>8. QED
    BY <2>5, <2>6, <2>7
<1>16. Verifies(pseudo \o udp)
  BY <1>7, <1>15
<1>17. QED
  BY <1>1, <1>13, <1>14, <1>16, Zenon DEF dest, l, IsUDP

\* The addresses of a request's ends are of their sizes.
HasEnds(r) ==
  /\ Sized(r.destMac, 6) /\ Sized(r.ownMac, 6)
  /\ Sized(r.ownIp, 4) /\ Sized(r.destIp, 4)

\* The bytes that the UDP checksum is computed over at the receiver's.
Pseudo(frame) ==
  Part(frame, 26, 8) \o <<0, 17>> \o Part(frame, 38, 2) \o SubSeq(frame, 35, Len(frame))

\* What stands in a frame.
IsFrame(frame, t, dst, port, u, rpc, call) ==
  /\ Sized(frame, t + 14) /\ Stands(frame, 14, <<69, 0>>)
  /\ Stands(frame, 16, Bytes(t)) /\ Stands(frame, 30, dst)
  /\ Stands(frame, 36, Bytes(port)) /\ Stands(frame, 38, Bytes(u))
  /\ Stands(frame, 42, rpc) /\ Stands(frame, 122, call)
  /\ Verifies(Part(frame, 14, 20)) /\ Verifies(Pseudo(frame))

LEMMA FrameReads ==
  ASSUME NEW r, HasEnds(r), NEW ident \in Short, NEW ttl \in Byte, NEW port \in Short,
         NEW rpc, Sized(rpc, 80), NEW n \in Nat, NEW call, Sized(call, n),
         NEW u, u = n + 88, NEW t, t = n + 108, u \in Short, t \in Short
  PROVE  IsFrame(Frame(r, IPHeader(t, ident, ttl, r.ownIp, r.destIp), port, u, rpc, call),
                 t, r.destIp, port, u, rpc, call)
<1> DEFINE src == r.ownIp
           dst == r.destIp
           ends == src \o dst
           macs == r.destMac \o r.ownMac
           ethernet == macs \o <<8, 0>>
           ip == IPHeader(t, ident, ttl, src, dst)
           data == rpc \o call
           udp == UDP(ends, port, u, data)
           front == ethernet \o ip
           frame == front \o udp
           p1 == And({}, 14, ip)
           p2 == And(p1, 34, udp)
           f == <<69, 0>>
           type == <<8, 0>>
           l == Bytes(u)
           zero == <<0, 17>>
<1>1. Frame(r, IPHeader(t, ident, ttl, r.ownIp, r.destIp), port, u, rpc, call) = frame
  BY DEF Frame, Ethernet
<1>2. Sized(type, 2) /\ Sized(f, 2) /\ Sized(zero, 2)
  BY SMT DEF Sized, Byte
<1>3. Sized(src, 4) /\ Sized(dst, 4) /\ Sized(r.destMac, 6) /\ Sized(r.ownMac, 6)
  BY DEF HasEnds
<1> HIDE DEF src, dst, ip, f
<1>4. /\ Sized(ip, 20) /\ Stands(ip, 0, f) /\ Stands(ip, 2, Bytes(t))
      /\ Stands(ip, 12, src) /\ Stands(ip, 16, dst) /\ Verifies(ip)
  <2>1. IsIP(ip, t, src, dst)
    BY <1>3, IPHeaderReads DEF ip
  <2>2. QED
    BY <2>1, Zenon DEF IsIP, f
<1>5. <<14, ip>> \in p2 /\ <<34, udp>> \in p2
  BY DEF And
<1>6. Sized(ends, 8)
  BY <1>3, 8 = 4 + 4, Appended
<1>7. Sized(data, n + 80) /\ Stands(data, 0, rpc) /\ Stands(data, 80, call)
  <2>1. Laid(rpc, 80, And({}, 0, rpc))
    BY FirstLaid
  <2>2. Laid(data, n + 80, And(And({}, 0, rpc), 80, call))
    BY <2>1, n + 80 = 80 + n, AlsoLaid
  <2>3. /\ <<0, rpc>> \in And(And({}, 0, rpc), 80, call)
        /\ <<80, call>> \in And(And({}, 0, rpc), 80, call)
    BY DEF And
  <2> HIDE DEF data
  <2>4. QED
    BY <2>2, <2>3 DEF Laid
<1> HIDE DEF data, ends, type, l, zero, udp
<1>8. /\ Sized(udp, u) /\ Stands(udp, 2, Bytes(port)) /\ Stands(udp, 4, l)
      /\ Stands(udp, 8, data) /\ Verifies(ends \o zero \o l \o udp)
  <2>1. n + 80 \in Nat /\ u = (n + 80) + 8
    OBVIOUS
  <2>2. IsUDP(udp, ends, port, u, data)
    BY <1>6, <1>7, <2>1, UDPReads DEF udp
  <2>3. QED
    BY <2>2, Zenon DEF IsUDP, l, zero
<1>9. Sized(macs, 12)
  BY <1>3, 12 = 6 + 6, Appended
<1> HIDE DEF macs
<1>10. Sized(ethernet, 14)
  BY <1>2, <1>9, 14 = 12 + 2, Appended DEF type
<1> HIDE DEF ethernet, p1, p2, front, frame
<1>11. Laid(ethernet, 14, {})
  BY <1>10, NoneLaid
<1>12. Laid(front, 34, p1)
  BY <1>4, <1>11, 34 = 14 + 20, AlsoLaid DEF front, p1
<1>13. Laid(frame, t + 14, p2)
  BY <1>8, <1>12, t + 14 = 34 + u, AlsoLaid DEF frame, p2
<1>14. Sized(frame, t + 14) /\ Stands(frame, 14, ip) /\ Stands(frame, 34, udp)
  BY <1>5, <1>13 DEF Laid
<1>15. /\ Stands(frame, 14, f) /\ Stands(frame, 16, Bytes(t))
       /\ Stands(frame, 26, src) /\ Stands(frame, 30, dst)
  <2>1. Stands(frame, 14, f)
    BY <1>4, <1>14, 14 = 14 + 0, StandsWithin
  <2>2. Stands(frame, 16, Bytes(t))
    BY <1>4, <1>14, 16 = 14 + 2, StandsWithin
  <2>3. Stands(frame, 26, src)
    BY <1>4, <1>14, 26 = 14 + 12, StandsWithin
  <2>4. Stands(frame, 30, dst)
    BY <1>4, <1>14, 30 = 14 + 16, StandsWithin
  <2>5. QED
    BY <2>1, <2>2, <2>3, <2>4
<1>16. Stands(frame, 36, Bytes(port)) /\ Stands(frame, 38, l) /\ Stands(frame, 42, data)
  <2>1. Stands(frame, 36, Bytes(port))
    BY <1>8, <1>14, 36 = 34 + 2, StandsWithin
  <2>2. Stands(frame, 38, l)
    BY <1>8, <1>14, 38 = 34 + 4, StandsWithin
  <2>3. Stands(frame, 42, data)
    BY <1>8, <1>14, 42 = 34 + 8, StandsWithin
  <2>4. QED
    BY <2>1, <2>2, <2>3
<1>17. Stands(frame, 42, rpc) /\ Stands(frame, 122, call)
  <2>1. Stands(frame, 42, rpc)
    BY <1>7, <1>16, 42 = 42 + 0, StandsWithin
  <2>2. Stands(frame, 122, call)
    BY <1>7, <1>16, 122 = 42 + 80, StandsWithin
  <2>3. QED
    BY <2>1, <2>2
<1>18. Part(frame, 14, 20) = ip
  BY <1>4, <1>14, PartIs
<1>19. Part(frame, 26, 8) = ends
  <2>1. Stands(frame, 26, ends)
    BY <1>3, <1>15, 26 + 4 = 30, StandTogether DEF ends
  <2>2. QED
    BY <1>6, <1>14, <2>1, PartIs
<1>20. Part(frame, 38, 2) = l
  BY <1>14, <1>16, BytesSized, PartIs DEF l
<1>21. SubSeq(frame, 35, Len(frame)) = udp
  <2>1. Part(frame, 34, u) = udp
    BY <1>8, <1>14, PartIs
  <2>2. Len(frame) = 34 + u
    BY <1>14 DEF Sized
  <2>3. QED
    BY <2>1, <2>2 DEF Part
<1>22. Verifies(Part(frame, 14, 20)) /\ Verifies(Pseudo(frame))
  BY <1>4, <1>8, <1>18, <1>19, <1>20, <1>21 DEF Pseudo, zero
<1>23. QED
  BY <1>1, <1>14, <1>15, <1>16, <1>17, <1>22, Zenon DEF dst, f, l, IsFrame

\* Numbers that stand in a frame.
LEMMA Big16Is ==
  ASSUME NEW w \in Short, NEW frame, NEW o, Stands(frame, o, Bytes(w))
  PROVE  Big16(frame, o) = w
<1> DEFINE high == w \div 256
           low == w % 256
<1>1. 256 * high + low = w /\ high \in Byte /\ low \in Byte
  BY SMT DEF Short, MaxWord, Byte
<1>2. Bytes(w) = <<high, low>>
  BY DEF Bytes
<1> HIDE DEF high, low
<1>3. frame[o + 1] = high /\ frame[o + 2] = low
  <2>1. Len(<<high, low>>) = 2 /\ 1 \in 1..2 /\ 2 \in 1..2
    OBVIOUS
  <2>2. QED
    BY <1>2, <2>1 DEF Stands
<1>4. QED
  BY <1>1, <1>3, WordIs DEF Big16

LEMMA Low16Is ==
  ASSUME NEW w \in Short, NEW n \in {2, 4}, NEW frame, NEW o,
         Stands(frame, o, Little(w, n))
  PROVE  Low16(frame, o) = w
<1> DEFINE high == (w \div 256) % 256
           low == (w \div 1) % 256
<1>1. 256 * high + low = w /\ high \in Byte /\ low \in Byte
  BY SMT DEF Short, MaxWord, Byte
<1>2. Little(w, n) = [i \in 1..n |-> (w \div Weights[i]) % 256]
  BY DEF Little
<1>3. Len(Little(w, n)) = n /\ Little(w, n)[1] = low /\ Little(w, n)[2] = high
  BY <1>2 DEF Weights
<1> HIDE DEF high, low
<1>4. frame[o + 1] = low /\ frame[o + 2] = high
  <2>1. 1 \in 1..n /\ 2 \in 1..n
    OBVIOUS
  <2>2. QED
    BY <1>3, <2>1 DEF Stands
<1>5. QED
  BY <1>1, <1>4, WordIs DEF Low16

Long == {n \in Nat : n <= 4294967295}

LEMMA Low32Is ==
  ASSUME NEW w \in Long, NEW frame, NEW o, Stands(frame, o, Little(w, 4))
  PROVE  Low32(frame, o) = w
<1> DEFINE a == (w \div 1) % 256
           b == (w \div 256) % 256
           c == (w \div 65536) % 256
           d == (w \div 16777216) % 256
<1>1. /\ a + 256 * b + 65536 * c + 16777216 * d = w
      /\ a \in Byte /\ b \in Byte /\ c \in Byte /\ d \in Byte
  BY SMT DEF Long, Byte
<1>2. Little(w, 4) = [i \in 1..4 |-> (w \div Weights[i]) % 256]
  BY DEF Little
<1>3. /\ Len(Little(w, 4)) = 4 /\ Little(w, 4)[1] = a /\ Little(w, 4)[2] = b
      /\ Little(w, 4)[3] = c /\ Little(w, 4)[4] = d
  BY <1>2 DEF Weights
<1> HIDE DEF a, b, c, d
<1>4. /\ o \in Nat /\ frame[o + 1] = a /\ frame[o + 2] = b
      /\ frame[o + 3] = c /\ frame[o + 4] = d
  <2>1. 1 \in 1..4 /\ 2 \in 1..4 /\ 3 \in 1..4 /\ 4 \in 1..4
    OBVIOUS
  <2>2. QED
    BY <1>3, <2>1 DEF Stands
<1>5. (o + 2) + 1 = o + 3 /\ (o + 2) + 2 = o + 4
  BY <1>4
<1>6. Low16(frame, o) = 256 * b + a /\ Low16(frame, o + 2) = 256 * d + c
  BY <1>1, <1>4, <1>5, WordIs DEF Low16
<1>7. QED
  BY <1>1, <1>6, SMT DEF Low32, Byte

\* A receiver finds where the call begins and that it ends with the frame; the
\* checksums, and for whom, for which port, under which number and what it is.
ReadsAs(frame, dst, port, counter, opnum) ==
  LET udp  == 14 + 4 * (frame[15] % 16)
      rpc  == udp + 8
      call == rpc + 80
  IN  /\ 14 + Big16(frame, 16) = Len(frame)
      /\ udp + Big16(frame, udp + 4) = Len(frame)
      /\ call + Low16(frame, rpc + 74) = Len(frame)
      /\ Verifies(Part(frame, 14, udp - 14))
      /\ Verifies(Part(frame, udp - 8, 8) \o <<0, 17>> \o Part(frame, udp + 4, 2)
                    \o SubSeq(frame, udp + 1, Len(frame)))
      /\ Part(frame, udp - 4, 4) = dst
      /\ Low32(frame, rpc + 64) = counter
      /\ Big16(frame, udp + 2) = port
      /\ Low16(frame, rpc + 68) = opnum

\* A frame with such a call.
IsCall(frame, dst, port, counter, opnum, n, object, call) ==
  /\ ReadsAs(frame, dst, port, counter, opnum)
  /\ frame[15] = 69 /\ Sized(frame, n + 122)
  /\ Stands(frame, 122, call) /\ Stands(frame, 50, object)

\* The numbers of a call are in their ranges, and the lengths fit together.
CanCall(ident, ttl, port, version, counter, opnum, n, u, t) ==
  /\ ident \in Short /\ ttl \in Byte /\ port \in Short /\ version \in Nat
  /\ counter \in Long /\ opnum \in Short /\ n \in Short
  /\ u \in Short /\ u = n + 88 /\ t \in Short /\ t = n + 108

LEMMA CallReads ==
  ASSUME NEW r, HasEnds(r), NEW ident, NEW ttl, NEW port, NEW version, NEW counter,
         NEW opnum, NEW n, NEW u, NEW t,
         CanCall(ident, ttl, port, version, counter, opnum, n, u, t),
         NEW object, Sized(object, 16), NEW interface, Sized(interface, 16),
         NEW activity, Sized(activity, 16), NEW call, Sized(call, n)
  PROVE  IsCall(Frame(r, IPHeader(t, ident, ttl, r.ownIp, r.destIp), port, u,
                      RpcHeader(object, interface, activity, version, counter, opnum, n),
                      call),
                r.destIp, port, counter, opnum, n, object, call)
<1> DEFINE rpc == RpcHeader(object, interface, activity, version, counter, opnum, n)
           frame == Frame(r, IPHeader(t, ident, ttl, r.ownIp, r.destIp), port, u, rpc,
                          call)
<1>1. /\ counter \in Nat /\ opnum \in Nat /\ n \in Nat /\ ident \in Short /\ ttl \in Byte
      /\ port \in Short /\ version \in Nat /\ counter \in Long /\ opnum \in Short
      /\ n \in Short /\ u \in Short /\ u = n + 88 /\ t \in Short /\ t = n + 108
  BY DEF CanCall, Long, Short
<1>2. /\ Sized(rpc, 80) /\ Stands(rpc, 8, object)
      /\ Stands(rpc, 64, Little(counter, 4)) /\ Stands(rpc, 68, Little(opnum, 2))
      /\ Stands(rpc, 74, Little(n, 2))
  BY <1>1, RpcHeaderReads
<1> HIDE DEF rpc
<1>3. /\ Sized(frame, t + 14) /\ Stands(frame, 14, <<69, 0>>)
      /\ Stands(frame, 16, Bytes(t)) /\ Stands(frame, 30, r.destIp)
      /\ Stands(frame, 36, Bytes(port)) /\ Stands(frame, 38, Bytes(u))
      /\ Stands(frame, 42, rpc) /\ Stands(frame, 122, call)
      /\ Verifies(Part(frame, 14, 20)) /\ Verifies(Pseudo(frame))
  <2>1. IsFrame(frame, t, r.destIp, port, u, rpc, call)
    BY <1>1, <1>2, FrameReads
  <2> HIDE DEF frame
  <2>2. QED
    BY <2>1, Zenon DEF IsFrame
<1> HIDE DEF frame
<1>4. Stands(frame, 50, object)
  BY <1>2, <1>3, 50 = 42 + 8, StandsWithin
<1>5. Stands(frame, 106, Little(counter, 4))
  BY <1>2, <1>3, 106 = 42 + 64, StandsWithin
<1>6. Stands(frame, 110, Little(opnum, 2))
  BY <1>2, <1>3, 110 = 42 + 68, StandsWithin
<1>7. Stands(frame, 116, Little(n, 2))
  BY <1>2, <1>3, 116 = 42 + 74, StandsWithin
<1>8. frame[15] = 69
  <2> DEFINE f == <<69, 0>>
  <2>1. Len(f) = 2 /\ f[1] = 69 /\ 1 \in 1..2 /\ 14 + 1 = 15
    OBVIOUS
  <2>2. Stands(frame, 14, f)
    BY <1>3
  <2> HIDE DEF f
  <2>3. QED
    BY <2>1, <2>2 DEF Stands
<1>9. Big16(frame, 16) = t /\ Big16(frame, 36) = port /\ Big16(frame, 38) = u
  BY <1>1, <1>3, Big16Is
<1>10. Low32(frame, 106) = counter
  BY <1>1, <1>5, Low32Is
<1>11. Low16(frame, 110) = opnum /\ Low16(frame, 116) = n
  BY <1>1, <1>6, <1>7, Low16Is
<1>12. Part(frame, 30, 4) = r.destIp
  BY <1>3, PartIs DEF HasEnds
<1>13. Len(frame) = t + 14 /\ t + 14 = n + 122
  BY <1>1, <1>3 DEF Sized
<1>14. ReadsAs(frame, r.destIp, port, counter, opnum)
  <2>1. 14 + 4 * (69 % 16) = 34
    OBVIOUS
  <2> DEFINE udp == 14 + 4 * (frame[15] % 16)
             start == udp + 8
             body == start + 80
  <2>2. udp = 34
    BY <1>8, <2>1
  <2>3. /\ udp + 4 = 38 /\ udp - 14 = 20 /\ udp - 8 = 26 /\ udp + 1 = 35
        /\ udp - 4 = 30 /\ udp + 2 = 36
        /\ body = 122 /\ start + 74 = 116 /\ start + 64 = 106 /\ start + 68 = 110
    BY <2>2
  <2> HIDE DEF udp, start, body
  <2>4. 14 + t = t + 14 /\ 34 + u = t + 14 /\ 122 + n = t + 14
    BY <1>1
  <2>5. /\ 14 + Big16(frame, 16) = Len(frame)
        /\ udp + Big16(frame, udp + 4) = Len(frame)
        /\ body + Low16(frame, start + 74) = Len(frame)
    BY <1>9, <1>11, <1>13, <2>2, <2>3, <2>4
  <2>6. /\ Verifies(Part(frame, 14, udp - 14))
        /\ Verifies(Part(frame, udp - 8, 8) \o <<0, 17>> \o Part(frame, udp + 4, 2)
                      \o SubSeq(frame, udp + 1, Len(frame)))
    BY <1>3, <2>3, Zenon DEF Pseudo
  <2>7. /\ Part(frame, udp - 4, 4) = r.destIp /\ Low32(frame, start + 64) = counter
        /\ Big16(frame, udp + 2) = port /\ Low16(frame, start + 68) = opnum
    BY <1>9, <1>10, <1>11, <1>12, <2>3
  <2>8. QED
    BY <2>5, <2>6, <2>7, Zenon DEF ReadsAs, udp, start, body
<1>15. Sized(frame, n + 122)
  BY <1>3, <1>13
<1>16. QED
  BY <1>3, <1>4, <1>8, <1>14, <1>15, Zenon DEF frame, rpc, IsCall

\* What an endpoint mapper finds.
HandleReads(frame, call, handle) ==
  Part(frame, call + 52, 20) = handle /\ call + 76 = Len(frame)

\* What a device finds: the array and the block in it end with the frame.
BlockReads(frame, call, slot, subslot, index) ==
  LET block == call + 20 IN
  /\ Low16(frame, call + 4) = Len(frame) - block
  /\ Low16(frame, call + 16) = Len(frame) - block
  /\ block + 4 + Big16(frame, block + 2) = Len(frame)
  /\ Big16(frame, block + 28) = slot /\ Big16(frame, block + 30) = subslot
  /\ Big16(frame, block + 34) = index

LEMMA LookupFrameReads ==
  ASSUME NEW r, HasEnds(r), NEW ident \in Short, NEW port \in Short, r.counter \in Long,
         NEW handle, Sized(handle, 20)
  PROVE  LET frame == Frame(r, IPHeader(184, ident, 64, r.ownIp, r.destIp), port, 164,
                            RpcHeader(Zeros(16), UID_EPMap_Interface, LookupActivity, 3,
                                      r.counter, 2, 76),
                            Lookup(handle))
         IN  /\ ReadsAs(frame, r.destIp, port, r.counter, 2) /\ Len(frame) = 198
             /\ HandleReads(frame, 122, handle) /\ frame[15] = 69
<1> DEFINE call == Lookup(handle)
           object == Zeros(16)
           counter == r.counter
           dst == r.destIp
           t == 184
           u == 164
           n == 76
           ttl == 64
           version == 3
           opnum == 2
           interface == UID_EPMap_Interface
           activity == LookupActivity
           ip == IPHeader(t, ident, ttl, r.ownIp, dst)
           rpc == RpcHeader(object, interface, activity, version, counter, opnum, n)
           frame == Frame(r, ip, port, u, rpc, call)
<1>1. Sized(call, 76) /\ Stands(call, 52, handle)
  BY LookupReads
<1>2. Sized(object, 16) /\ Sized(interface, 16) /\ Sized(activity, 16)
  BY 16 \in Nat, ZerosSized, UIDsSized
<1>3. Sized(call, n)
  BY <1>1
<1>4. CanCall(ident, ttl, port, version, counter, opnum, n, u, t)
  BY SMT DEF CanCall, Short, MaxWord, Byte
<1> HIDE DEF call, object, counter, t, u, n, ttl, version, opnum, interface, activity
<1>5. IsCall(frame, dst, port, counter, opnum, n, object, call)
  BY <1>2, <1>3, <1>4, CallReads
<1> HIDE DEF frame, dst
<1>6. /\ ReadsAs(frame, dst, port, counter, opnum) /\ frame[15] = 69
      /\ Sized(frame, n + 122) /\ Stands(frame, 122, call)
  BY <1>5, Zenon DEF IsCall
<1>7. Stands(frame, 174, handle)
  BY <1>1, <1>6, 174 = 122 + 52, StandsWithin
<1>8. Part(frame, 174, 20) = handle
  BY <1>6, <1>7, PartIs
<1>9. Len(frame) = 198
  BY <1>6 DEF Sized, n
<1>10. HandleReads(frame, 122, handle)
  BY <1>8, <1>9 DEF HandleReads
<1>11. QED
  BY <1>6, <1>9, <1>10, Zenon
     DEF frame, dst, call, object, counter, t, u, n, ttl, version, opnum, interface,
         activity

(***************************************************************************)
(* Of every lookup that is sent, with whatever counters, addresses and       *)
(* handle, a receiver that goes by the lengths in it finds the end of each   *)
(* layer at the end of the frame, checksums that verify, the destination,    *)
(* the port and the number it was given, and its handle; a remote scan that  *)
(* has no node yet asks with zeros (packetHandler.c sendPacket_RPC,           *)
(* remoteScan.c sendPacket_RPC_rem).                                         *)
(***************************************************************************)
THEOREM LookupsRead ==
  ASSUME NEW r, HasEnds(r), r.ident \in Short, r.counter \in Long,
         Sized(r.handle, 20) \/ r.handle = NoNode
  PROVE  /\ Sized(r.handle, 20) =>
              LET frame == LookupFrame(r)
              IN  /\ ReadsAs(frame, r.destIp, 34964, r.counter, 2) /\ Len(frame) = 198
                  /\ HandleReads(frame, 122, r.handle) /\ frame[15] = 69
         /\ LET frame == RemoteLookupFrame(r)
                handle == IF r.handle = NoNode THEN Zeros(20) ELSE r.handle
            IN  /\ ReadsAs(frame, r.destIp, 34964, r.counter, 2) /\ Len(frame) = 198
                /\ HandleReads(frame, 122, handle) /\ frame[15] = 69
<1> DEFINE port == 34964
           handle == IF r.handle = NoNode THEN Zeros(20) ELSE r.handle
           frame(ident, h) ==
             Frame(r, IPHeader(184, ident, 64, r.ownIp, r.destIp), port, 164,
                   RpcHeader(Zeros(16), UID_EPMap_Interface, LookupActivity, 3,
                             r.counter, 2, 76),
                   Lookup(h))
           reads(f, h) ==
             /\ ReadsAs(f, r.destIp, port, r.counter, 2) /\ Len(f) = 198
             /\ HandleReads(f, 122, h) /\ f[15] = 69
<1>1. LookupFrame(r) = frame(10, r.handle)
  BY SMT DEF LookupFrame, LookupIP, LookupRpc, LookupCall, UDP_PACKETSIZE
<1>2. RemoteLookupFrame(r) = frame(r.ident, handle)
  BY SMT DEF RemoteLookupFrame, RemoteLookupIP, RemoteLookupRpc, RemoteLookupCall,
             UDP_PACKETSIZE
<1>3. port \in Short
  BY ShortsAre
<1>4. Sized(handle, 20)
  BY 20 \in Nat, ZerosSized
<1> HIDE DEF port, handle
<1>5. ASSUME NEW ident \in Short, NEW h, Sized(h, 20)
      PROVE  reads(frame(ident, h), h)
  BY <1>3, <1>5, LookupFrameReads
<1> HIDE DEF frame, reads
<1>6. Sized(r.handle, 20) => reads(LookupFrame(r), r.handle)
  BY <1>1, <1>5, ShortsAre
<1>7. reads(RemoteLookupFrame(r), handle)
  BY <1>2, <1>4, <1>5
<1>8. QED
  BY <1>6, <1>7, SMT DEF reads, port, handle

\* Whose values fit into the fields of a request to read.
IsRead(r) ==
  /\ HasEnds(r) /\ r.ident \in Short /\ r.counter \in Long /\ r.port \in Short
  /\ r.slot \in Short /\ r.subslot \in Short /\ r.index \in Short
  /\ r.deviceId \in Short /\ r.vendorId \in Short /\ Sized(r.objectTail, 4)

\* What a device finds: the port, the number, the identity, and the record.
IsReadAsAsked(frame, r, identity, slot, subslot) ==
  /\ ReadsAs(frame, r.destIp, r.port, r.counter, 5) /\ Len(frame) = 206
  /\ BlockReads(frame, 122, slot, subslot, r.index)
  /\ Part(frame, 62, 4) = identity /\ frame[15] = 69

LEMMA ReadFrameReads ==
  ASSUME NEW r, IsRead(r), NEW identity, Sized(identity, 4), NEW slot \in Short,
         NEW subslot \in Short
  PROVE  IsReadAsAsked(Frame(r, IPHeader(192, r.ident, 128, r.ownIp, r.destIp), r.port,
                             172,
                             RpcHeader(DeviceObject(identity), UID_PNIO_Device,
                                       ReadActivity, 1, r.counter, 5, 84),
                             Read(Bytes(slot) \o Bytes(subslot), r.index)),
                       r, identity, slot, subslot)
<1> DEFINE ident == r.ident
           port == r.port
           index == r.index
           place == Bytes(slot) \o Bytes(subslot)
           call == Read(place, index)
           object == DeviceObject(identity)
           counter == r.counter
           dst == r.destIp
           b == Bytes(60)
           l == Little(64, 4)
           s == Bytes(slot)
           ss == Bytes(subslot)
           i == Bytes(index)
           t == 192
           u == 172
           n == 84
           ttl == 128
           version == 1
           opnum == 5
           interface == UID_PNIO_Device
           activity == ReadActivity
           ip == IPHeader(t, ident, ttl, r.ownIp, dst)
           rpc == RpcHeader(object, interface, activity, version, counter, opnum, n)
           frame == Frame(r, ip, port, u, rpc, call)
<1>1. /\ HasEnds(r) /\ ident \in Short /\ port \in Short /\ counter \in Long
       /\ index \in Short
  BY DEF IsRead
<1> HIDE DEF ident, port, index
<1>2. Sized(s, 2) /\ Sized(ss, 2)
  BY BytesSized
<1>3. Sized(place, 4) /\ Stands(place, 0, s) /\ Stands(place, 2, ss)
  <2>1. Laid(s, 2, And({}, 0, s))
    BY <1>2, FirstLaid
  <2> HIDE DEF s, ss
  <2>2. Laid(s \o ss, 4, And(And({}, 0, s), 2, ss))
    BY <1>2, <2>1, 4 = 2 + 2, AlsoLaid
  <2>3. /\ <<0, s>> \in And(And({}, 0, s), 2, ss)
        /\ <<2, ss>> \in And(And({}, 0, s), 2, ss)
    BY DEF And
  <2>4. Sized(s \o ss, 4) /\ Stands(s \o ss, 0, s) /\ Stands(s \o ss, 2, ss)
    BY <2>2, <2>3 DEF Laid
  <2>5. QED
    BY <2>4, Zenon DEF s, ss
<1> HIDE DEF place
<1>4. /\ Sized(call, 84) /\ Stands(call, 4, l) /\ Stands(call, 16, l)
      /\ Stands(call, 22, b) /\ Stands(call, 48, place) /\ Stands(call, 54, i)
  BY <1>1, <1>3, ReadReads, Zenon
<1>5. Sized(object, 16) /\ Stands(object, 12, identity)
  BY DeviceObjectReads
<1>6. CanCall(ident, ttl, port, version, counter, opnum, n, u, t)
  BY <1>1, SMT DEF CanCall, Short, MaxWord, Byte
<1> HIDE DEF call, object, b, l, s, ss, i, interface, activity, counter, t, u, n, ttl,
             version, opnum
<1>7. Sized(interface, 16) /\ Sized(activity, 16) /\ Sized(call, n)
  BY <1>4, UIDsSized DEF interface, activity, n
<1>8. IsCall(frame, dst, port, counter, opnum, n, object, call)
  BY <1>1, <1>5, <1>6, <1>7, CallReads
<1> HIDE DEF frame, dst
<1>9. /\ ReadsAs(frame, dst, port, counter, opnum) /\ frame[15] = 69
      /\ Sized(frame, n + 122) /\ Stands(frame, 122, call) /\ Stands(frame, 50, object)
  BY <1>8, Zenon DEF IsCall
<1>10. Stands(frame, 126, l)
  BY <1>4, <1>9, 126 = 122 + 4, StandsWithin
<1>11. Stands(frame, 138, l)
  BY <1>4, <1>9, 138 = 122 + 16, StandsWithin
<1>12. Stands(frame, 144, b)
  BY <1>4, <1>9, 144 = 122 + 22, StandsWithin
<1>13. Stands(frame, 170, place)
  BY <1>4, <1>9, 170 = 122 + 48, StandsWithin
<1>14. Stands(frame, 176, i)
  BY <1>4, <1>9, 176 = 122 + 54, StandsWithin
<1>15. Stands(frame, 170, s)
  BY <1>3, <1>13, 170 = 170 + 0, StandsWithin
<1>16. Stands(frame, 172, ss)
  BY <1>3, <1>13, 172 = 170 + 2, StandsWithin
<1>17. Stands(frame, 62, identity)
  BY <1>5, <1>9, 62 = 50 + 12, StandsWithin
<1>18. Low16(frame, 126) = 64 /\ Low16(frame, 138) = 64
  BY <1>10, <1>11, ShortsAre, Low16Is DEF l
<1>19. /\ Big16(frame, 144) = 60 /\ Big16(frame, 170) = slot
       /\ Big16(frame, 172) = subslot /\ Big16(frame, 176) = index
  BY <1>1, <1>12, <1>14, <1>15, <1>16, ShortsAre, Big16Is DEF b, s, ss, i
<1>20. Part(frame, 62, 4) = identity
  BY <1>9, <1>17, PartIs
<1>21. Len(frame) = 206
  BY <1>9 DEF Sized, n
<1>22. BlockReads(frame, 122, slot, subslot, index)
  BY <1>18, <1>19, <1>21 DEF BlockReads
<1>23. QED
  BY <1>9, <1>20, <1>21, <1>22, Zenon
     DEF frame, dst, ident, port, index, call, place, object, counter, t, u, n, ttl,
         version, opnum, interface, activity, IsReadAsAsked

\* Four bytes are the two and the two that stand in them.
LEMMA JoinedIs ==
  ASSUME NEW a, Sized(a, 2), NEW b, Sized(b, 2), NEW c, Sized(c, 4),
         Stands(c, 0, a), Stands(c, 2, b)
  PROVE  a \o b = c
<1>1. Stands(c, 0, a \o b)
  BY 0 + 2 = 2, StandTogether
<1>2. Sized(a \o b, 4)
  BY 4 = 2 + 2, Appended
<1>3. Part(c, 0, 4) = a \o b
  BY <1>1, <1>2, PartIs
<1>4. Stands(c, 0, c)
  <2>1. Laid(c, 4, And({}, 0, c))
    BY FirstLaid
  <2>2. <<0, c>> \in And({}, 0, c)
    BY DEF And
  <2>3. QED
    BY <2>1, <2>2 DEF Laid
<1>5. Part(c, 0, 4) = c
  BY <1>4, PartIs
<1>6. QED
  BY <1>3, <1>5

\* The slot and the subslot stand one after the other, whichever they are.
LEMMA PlaceIs ==
  ASSUME NEW r
  PROVE  /\ Place(r) = IF r.index = PDREALDATASUBMODUL
                       THEN Bytes(r.slot) \o Bytes(r.subslot)
                       ELSE Bytes(0) \o Bytes(1)
         /\ RemotePlace(r) = IF r.index = PDREALDATASUBMODUL
                             THEN Bytes(r.slot) \o Bytes(r.subslot)
                             ELSE IF r.index = IM0 THEN Bytes(r.slot) \o Bytes(1)
                             ELSE Bytes(0) \o Bytes(1)
<1>1. Bytes(0) = <<0, 0>> /\ Bytes(1) = <<0, 1>>
  BY SMT DEF Bytes
<1> DEFINE a == <<0, 0>>
           b == <<0, 1>>
           c == <<0, 0, 0, 1>>
<1>2. Sized(a, 2) /\ Sized(b, 2) /\ Sized(c, 4)
  BY SMT DEF Sized, Byte
<1>3. Stands(c, 0, a)
  BY SMT DEF Stands
<1>4. Stands(c, 2, b)
  BY SMT DEF Stands
<1>5. a \o b = c
  <2> HIDE DEF a, b, c
  <2>1. QED
    BY <1>2, <1>3, <1>4, JoinedIs
<1>6. QED
  BY <1>1, <1>5 DEF Place, RemotePlace

(***************************************************************************)
(* Of every read that is sent, with whatever counters, addresses, identity,  *)
(* slot, subslot and index, a device that goes by the lengths in it finds    *)
(* the end of each layer, of the array and of the block at the end of the    *)
(* frame, checksums that verify, its identity, the number it was given, and  *)
(* the record that was to be asked: port data of the slot and the subslot,   *)
(* anything else of subslot 1 of slot 0, or for I&M0 of a remote scan of the *)
(* slot (packetHandler.c sendpacket_IM, remoteScan.c sendpacket_IM_rem).      *)
(***************************************************************************)
THEOREM ReadsRead ==
  ASSUME NEW r, IsRead(r)
  PROVE  LET known   == Bytes(r.deviceId) \o Bytes(r.vendorId)
             ports   == r.index = PDREALDATASUBMODUL
             slotted == ports \/ r.index = IM0
         IN  /\ IsReadAsAsked(ReadFrame(r), r, known,
                              IF ports THEN r.slot ELSE 0,
                              IF ports THEN r.subslot ELSE 1)
             /\ IsReadAsAsked(RemoteReadFrame(r), r,
                              IF r.layer = 3 THEN r.objectTail ELSE known,
                              IF slotted THEN r.slot ELSE 0,
                              IF ports THEN r.subslot ELSE 1)
<1> DEFINE known   == Bytes(r.deviceId) \o Bytes(r.vendorId)
           ports   == r.index = PDREALDATASUBMODUL
           slotted == ports \/ r.index = IM0
           slot    == IF ports THEN r.slot ELSE 0
           remote  == IF slotted THEN r.slot ELSE 0
           subslot == IF ports THEN r.subslot ELSE 1
           identity == IF r.layer = 3 THEN r.objectTail ELSE known
           frame(id, s, ss) ==
             Frame(r, IPHeader(192, r.ident, 128, r.ownIp, r.destIp), r.port, 172,
                   RpcHeader(DeviceObject(id), UID_PNIO_Device, ReadActivity, 1,
                             r.counter, 5, 84),
                   Read(Bytes(s) \o Bytes(ss), r.index))
<1>1. Sized(known, 4) /\ Sized(identity, 4)
  <2>1. Sized(Bytes(r.deviceId), 2) /\ Sized(Bytes(r.vendorId), 2)
    BY BytesSized DEF IsRead
  <2>2. Sized(known, 4)
    BY <2>1, 4 = 2 + 2, Appended
  <2> HIDE DEF known
  <2>3. QED
    BY <2>2 DEF IsRead
<1>2. slot \in Short /\ remote \in Short /\ subslot \in Short
  BY ShortsAre DEF IsRead
<1>3. ReadFrame(r) = frame(known, slot, subslot)
  <2>1. Place(r) = Bytes(slot) \o Bytes(subslot)
    BY PlaceIs
  <2> HIDE DEF slot, subslot
  <2>2. QED
    BY <2>1, SMT DEF ReadFrame, ReadIP, ReadRpc, ReadCall, UDP_IM_PACKETSIZE
<1>4. RemoteReadFrame(r) = frame(identity, remote, subslot)
  <2>1. RemotePlace(r) = Bytes(remote) \o Bytes(subslot)
    <3>1. ports => remote = r.slot /\ subslot = r.subslot
      OBVIOUS
    <3>2. ~ports => subslot = 1 /\ remote = IF r.index = IM0 THEN r.slot ELSE 0
      OBVIOUS
    <3> HIDE DEF remote, subslot
    <3>3. QED
      BY <3>1, <3>2, PlaceIs, Zenon
  <2> HIDE DEF remote, subslot
  <2>2. QED
    BY <2>1, SMT
       DEF RemoteReadFrame, RemoteReadIP, RemoteReadRpc, RemoteReadCall, UDP_IM_PACKETSIZE
<1> HIDE DEF known, slot, remote, subslot, identity
<1>5. ASSUME NEW id, Sized(id, 4), NEW s \in Short, NEW ss \in Short
      PROVE  IsReadAsAsked(frame(id, s, ss), r, id, s, ss)
  BY <1>5, ReadFrameReads
<1> HIDE DEF frame
<1>6. IsReadAsAsked(ReadFrame(r), r, known, slot, subslot)
  BY <1>1, <1>2, <1>3, <1>5
<1>7. IsReadAsAsked(RemoteReadFrame(r), r, identity, remote, subslot)
  BY <1>1, <1>2, <1>4, <1>5
<1>8. QED
  BY <1>6, <1>7, Zenon DEF known, ports, slotted, slot, remote, subslot, identity

LEMMA IdentifyReads ==
  ASSUME NEW r, Sized(r.ownMac, 6)
  PROVE  LET frame == IdentifyFrame(r) IN
         /\ Sized(frame, 46) /\ Stands(frame, 24, Bytes(4)) /\ Stands(frame, 28, Bytes(0))
<1> DEFINE a == <<1, 14, 207, 0, 0, 0>>
           own == r.ownMac
           b == <<136, 146>>
           c == <<254, 254, 5, 0>>
           d == <<1, 0, 0, 1>>
           e == Bytes(5)
           l == Bytes(4)
           f == <<255, 255>>
           n == Bytes(0)
           z == Zeros(16)
           s2 == a \o own
           s3 == s2 \o b
           s4 == s3 \o c
           s5 == s4 \o d
           s6 == s5 \o e
           s7 == s6 \o l
           s8 == s7 \o f
           s9 == s8 \o n
           s10 == s9 \o z
<1>1. Sized(a, 6) /\ Sized(b, 2) /\ Sized(c, 4) /\ Sized(d, 4) /\ Sized(f, 2)
  BY SMT DEF Sized, Byte
<1>2. Sized(own, 6)
  OBVIOUS
<1>3. Sized(e, 2) /\ Sized(l, 2) /\ Sized(n, 2)
  BY ShortsAre, BytesSized
<1>4. Sized(z, 16)
  BY 16 \in Nat, ZerosSized
<1>5. IdentifyFrame(r) = s10
  BY DEF IdentifyFrame
<1> DEFINE p1 == And({}, 24, l)
           p2 == And(p1, 28, n)
<1>6. /\ <<24, l>> \in p2
      /\ <<28, n>> \in p2
  BY DEF And
<1> HIDE DEF a, own, b, c, d, e, l, f, n, z, s2, s3, s4, s5, s6, s7, s8, s9, s10, p1,
             p2
<1>7. Laid(a, 6, {})
  BY <1>1, NoneLaid
<1>8. Laid(s2, 12, {})
  BY <1>2, <1>7, 12 = 6 + 6, StillLaid DEF s2
<1>9. Laid(s3, 14, {})
  BY <1>1, <1>8, 14 = 12 + 2, StillLaid DEF s3
<1>10. Laid(s4, 18, {})
  BY <1>1, <1>9, 18 = 14 + 4, StillLaid DEF s4
<1>11. Laid(s5, 22, {})
  BY <1>1, <1>10, 22 = 18 + 4, StillLaid DEF s5
<1>12. Laid(s6, 24, {})
  BY <1>3, <1>11, 24 = 22 + 2, StillLaid DEF s6
<1>13. Laid(s7, 26, p1)
  BY <1>3, <1>12, 26 = 24 + 2, AlsoLaid DEF s7, p1
<1>14. Laid(s8, 28, p1)
  BY <1>1, <1>13, 28 = 26 + 2, StillLaid DEF s8
<1>15. Laid(s9, 30, p2)
  BY <1>3, <1>14, 30 = 28 + 2, AlsoLaid DEF s9, p2
<1>16. Laid(s10, 46, p2)
  BY <1>4, <1>15, 46 = 30 + 16, StillLaid DEF s10
<1>17. /\ Sized(s10, 46)
       /\ Stands(s10, 24, l)
       /\ Stands(s10, 28, n)
  BY <1>6, <1>16 DEF Laid
<1>18. QED
  BY <1>5, <1>17, Zenon DEF l, n

\* A request has what it is made from, and its own besides.
LEMMA RequestFields ==
  ASSUME NEW in
  PROVE  LET r == RequestOf(in) IN
         /\ r.ownMac = <<2, 0, 0, 0, 0, 1>> /\ r.destMac = <<2, 0, 0, 0, 0, 2>>
         /\ r.ownIp = <<192, 168, 0, 1>>
         /\ r.deviceId = Word(1, 2) /\ r.vendorId = Word(0, 42)
         /\ r.objectTail = IF "layer" \in DOMAIN in /\ in.layer = 3 THEN Identity
                           ELSE Zeros(4)
         /\ \A field \in DOMAIN in :
              field \notin {"ownMac", "destMac", "ownIp", "deviceId", "vendorId",
                            "objectTail"} => r[field] = in[field]
<1> DEFINE own == {"ownMac", "destMac", "ownIp", "deviceId", "vendorId", "objectTail"}
           tail == IF "layer" \in DOMAIN in /\ in.layer = 3 THEN Identity ELSE Zeros(4)
           value(field) ==
             CASE field = "ownMac"   -> <<2, 0, 0, 0, 0, 1>>
               [] field = "destMac"  -> <<2, 0, 0, 0, 0, 2>>
               [] field = "ownIp"    -> <<192, 168, 0, 1>>
               [] field = "deviceId" -> Word(Identity[1], Identity[2])
               [] field = "vendorId" -> Word(Identity[3], Identity[4])
               [] field = "objectTail" -> tail
               [] OTHER -> in[field]
           r == [field \in DOMAIN in \cup own |-> value(field)]
<1>1. RequestOf(in) = r
  BY DEF RequestOf
<1>2. /\ Identity[1] = 1 /\ Identity[2] = 2 /\ Identity[3] = 0 /\ Identity[4] = 42
  BY DEF Identity
<1>3. /\ value("ownMac") = <<2, 0, 0, 0, 0, 1>> /\ value("destMac") = <<2, 0, 0, 0, 0, 2>>
      /\ value("ownIp") = <<192, 168, 0, 1>>
  OBVIOUS
<1>4. value("deviceId") = Word(1, 2) /\ value("vendorId") = Word(0, 42)
  BY <1>2
<1>5. value("objectTail") = tail
  OBVIOUS
<1>6. \A field : field \notin own => value(field) = in[field]
  OBVIOUS
<1> HIDE DEF value, tail
<1>7. \A field \in own : r[field] = value(field)
  OBVIOUS
<1>8. \A field \in DOMAIN in : field \notin own => r[field] = in[field]
  BY <1>6
<1>9. QED
  BY <1>1, <1>3, <1>4, <1>5, <1>7, <1>8 DEF tail

-----------------------------------------------------------------------------
(* What is sent.                                                            *)

\* A lookup that is read as a receiver reads it is one that reads back.
LEMMA LookupReadsBack ==
  ASSUME NEW frame, frame = SentFrame(input), input.kind # "identify",
         NEW port, port = IF "port" \in DOMAIN input THEN input.port ELSE 34964,
         NEW handle, handle = IF input.handle = NoNode THEN Zeros(20) ELSE input.handle,
         ReadsAs(frame, input.destIp, port, input.counter, 2), Len(frame) = 198,
         HandleReads(frame, 122, handle), frame[15] = 69
  PROVE  RequestReadsBack
<1> DEFINE udp == 14 + 4 * (frame[15] % 16)
           rpc == udp + 8
           call == rpc + 80
<1>1. call = 122
  <2>1. 69 % 16 = 5
    OBVIOUS
  <2>2. QED
    BY <2>1
<1> HIDE DEF udp, rpc, call
<1>2. LookupUnderstood(frame, call)
  BY <1>1 DEF HandleReads, LookupUnderstood
<1>3. /\ 14 + Big16(frame, 16) = Len(frame)
      /\ udp + Big16(frame, udp + 4) = Len(frame)
      /\ call + Low16(frame, rpc + 74) = Len(frame)
      /\ Verifies(Part(frame, 14, udp - 14))
      /\ Verifies(Part(frame, udp - 8, 8) \o <<0, 17>> \o Part(frame, udp + 4, 2)
                    \o SubSeq(frame, udp + 1, Len(frame)))
      /\ Part(frame, udp - 4, 4) = input.destIp
      /\ Low32(frame, rpc + 64) = input.counter
      /\ Big16(frame, udp + 2) = port
      /\ Low16(frame, rpc + 68) = 2
  BY SMT DEF ReadsAs, udp, rpc, call
<1>4. QED
  BY <1>2, <1>3, SMT DEF RequestReadsBack, IP_UDP_RPC_PACKETSIZE, udp, rpc, call

\* And so is a read.
LEMMA ReadReadsBack ==
  ASSUME NEW frame, frame = SentFrame(input), input.kind # "identify",
         NEW r, r.destIp = input.destIp, r.counter = input.counter,
         r.port = input.port, r.index = input.index, "port" \in DOMAIN input,
         NEW slot, NEW subslot, AskedPlace(input) = <<slot, subslot>>,
         IsReadAsAsked(frame, r, Identity, slot, subslot)
  PROVE  RequestReadsBack
<1> DEFINE udp == 14 + 4 * (frame[15] % 16)
           rpc == udp + 8
           call == rpc + 80
<1>1. /\ ReadsAs(frame, input.destIp, input.port, input.counter, 5) /\ Len(frame) = 206
      /\ BlockReads(frame, 122, slot, subslot, input.index)
      /\ Part(frame, 62, 4) = Identity /\ frame[15] = 69
  BY DEF IsReadAsAsked
<1>2. call = 122 /\ rpc + 20 = 62
  <2>1. 69 % 16 = 5
    OBVIOUS
  <2>2. QED
    BY <1>1, <2>1
<1> HIDE DEF udp, rpc, call
<1>3. ReadUnderstood(frame, call)
  BY <1>1, <1>2 DEF BlockReads, ReadUnderstood
<1>4. /\ 14 + Big16(frame, 16) = Len(frame)
      /\ udp + Big16(frame, udp + 4) = Len(frame)
      /\ call + Low16(frame, rpc + 74) = Len(frame)
      /\ Verifies(Part(frame, 14, udp - 14))
      /\ Verifies(Part(frame, udp - 8, 8) \o <<0, 17>> \o Part(frame, udp + 4, 2)
                    \o SubSeq(frame, udp + 1, Len(frame)))
      /\ Part(frame, udp - 4, 4) = input.destIp
      /\ Low32(frame, rpc + 64) = input.counter
      /\ Big16(frame, udp + 2) = input.port
      /\ Low16(frame, rpc + 68) = 5
  BY <1>1, Zenon DEF ReadsAs, udp, rpc, call
<1>5. QED
  BY <1>1, <1>2, <1>3, <1>4, SMT
     DEF RequestReadsBack, IP_UDP_RPC_IM_PACKETSIZE, udp, rpc, call

\* The identity of a device is what its two numbers and the object tell.
LEMMA IdentityIs ==
  /\ Word(1, 2) \in Short /\ Word(0, 42) \in Short
  /\ Bytes(Word(1, 2)) \o Bytes(Word(0, 42)) = Identity
  /\ Sized(Identity, 4)
<1> DEFINE a == <<1, 2>>
           b == <<0, 42>>
<1>1. Word(1, 2) = 258 /\ Word(0, 42) = 42
  BY DEF Word
<1>2. Word(1, 2) \in Short /\ Word(0, 42) \in Short
  BY <1>1, SMT DEF Short, MaxWord
<1>3. Bytes(Word(1, 2)) = a /\ Bytes(Word(0, 42)) = b
  BY <1>1, SMT DEF Bytes
<1>4. Sized(a, 2) /\ Sized(b, 2) /\ Sized(Identity, 4)
  BY SMT DEF Sized, Byte, Identity
<1>5. Stands(Identity, 0, a) /\ Stands(Identity, 2, b)
  BY SMT DEF Stands, Identity
<1> HIDE DEF a, b
<1>6. a \o b = Identity
  BY <1>4, <1>5, JoinedIs
<1>7. QED
  BY <1>2, <1>3, <1>4, <1>6

\* The addresses of the runs, the handles and the numbers are of their sizes.
LEMMA RequestType ==
  ASSUME NEW in \in RequestInputs
  PROVE  LET r == RequestOf(in) IN
         /\ in.ident \in Short /\ in.counter \in Long
         /\ HasEnds(r) /\ r.ident = in.ident /\ r.counter = in.counter
         /\ r.destIp = in.destIp
<1> DEFINE r == RequestOf(in)
           own == <<2, 0, 0, 0, 0, 1>>
           dest == <<2, 0, 0, 0, 0, 2>>
           ip == <<192, 168, 0, 1>>
<1>1. /\ in.ident \in Idents /\ in.counter \in Counters /\ in.destIp \in Addresses
      /\ "ident" \in DOMAIN in /\ "counter" \in DOMAIN in /\ "destIp" \in DOMAIN in
  BY DEF RequestInputs
<1>2. in.ident \in Short /\ in.counter \in Long
  BY <1>1, SMT DEF Idents, Counters, Short, MaxWord, Long
<1>3. Sized(in.destIp, 4)
  BY <1>1, AddressType DEF Sized
<1>4. Sized(own, 6) /\ Sized(dest, 6) /\ Sized(ip, 4)
  BY SMT DEF Sized, Byte
<1>5. /\ r.ownMac = own /\ r.destMac = dest /\ r.ownIp = ip
      /\ r.ident = in.ident /\ r.counter = in.counter /\ r.destIp = in.destIp
  BY <1>1, RequestFields
<1> HIDE DEF r, own, dest, ip
<1>6. HasEnds(r)
  BY <1>3, <1>4, <1>5 DEF HasEnds
<1>7. QED
  BY <1>2, <1>5, <1>6 DEF r

LEMMA HandleType ==
  ASSUME NEW handle \in Handles
  PROVE  Sized(handle, 20)
<1>1. Sized(Zeros(20), 20)
  BY 20 \in Nat, ZerosSized
<1> DEFINE s == [i \in 1..20 |-> 2 * i]
<1>2. \A i \in 1..20 : 2 * i \in Byte
  BY DEF Byte
<1>3. s \in Seq(Byte) /\ Len(s) = 20
  BY <1>2
<1>4. QED
  BY <1>1, <1>3 DEF Handles, Sized

(***************************************************************************)
(* Every request of the runs: the receiver reads what was to be asked.  The  *)
(* check that TLC makes of those it is given, for whatever is enumerated     *)
(* (packetHandler.c, remoteScan.c:965-1019).                                *)
(***************************************************************************)
THEOREM RequestsRead == Spec => []RequestReadsBack
<1>1. ASSUME algorithm = "request", input \in RequestInputs
      PROVE  RequestReadsBack
  <2> DEFINE r == RequestOf(input)
             frame == SentFrame(input)
  <2>1. /\ input.ident \in Short /\ input.counter \in Long
        /\ HasEnds(r) /\ r.ident = input.ident /\ r.counter = input.counter
        /\ r.destIp = input.destIp
    BY <1>1, RequestType
  <2>2. CASE input.kind = "identify"
    <3>1. frame = IdentifyFrame(r)
      BY <2>2 DEF SentFrame
    <3> HIDE DEF r, frame
    <3>2. Sized(frame, 46) /\ Stands(frame, 24, Bytes(4)) /\ Stands(frame, 28, Bytes(0))
      BY <2>1, <3>1, IdentifyReads DEF HasEnds
    <3>3. Big16(frame, 24) = 4 /\ Big16(frame, 28) = 0 /\ Len(frame) = 46
      BY <3>2, ShortsAre, Big16Is DEF Sized
    <3>4. QED
      BY <2>2, <3>3, SMT DEF RequestReadsBack, DCP_PACKETSIZE, frame
  <2>3. CASE input.kind = "lookup"
    <3>1. frame = LookupFrame(r) /\ "port" \notin DOMAIN input
      BY <1>1, <2>3 DEF SentFrame, RequestInputs
    <3>2. input.handle \in Handles /\ "handle" \in DOMAIN input
      BY <1>1, <2>3 DEF RequestInputs
    <3>3. r.handle = input.handle
      BY <3>2, RequestFields
    <3> HIDE DEF r, frame
    <3>4. Sized(r.handle, 20)
      BY <3>2, <3>3, HandleType
    <3>5. /\ ReadsAs(frame, r.destIp, 34964, r.counter, 2) /\ Len(frame) = 198
          /\ HandleReads(frame, 122, r.handle) /\ frame[15] = 69
      BY <2>1, <3>1, <3>4, LookupsRead
    <3>6. input.handle # NoNode
      BY <3>2, HandlesAssumption
    <3>7. QED
      BY <2>1, <2>3, <3>1, <3>3, <3>5, <3>6, LookupReadsBack DEF frame
  <2>4. CASE input.kind = "remoteLookup"
    <3>1. frame = RemoteLookupFrame(r) /\ "port" \notin DOMAIN input
      BY <1>1, <2>4 DEF SentFrame, RequestInputs
    <3>2. input.handle \in Handles \cup {NoNode} /\ "handle" \in DOMAIN input
      BY <1>1, <2>4 DEF RequestInputs
    <3>3. r.handle = input.handle
      BY <3>2, RequestFields
    <3> DEFINE handle == IF r.handle = NoNode THEN Zeros(20) ELSE r.handle
    <3> HIDE DEF r, frame
    <3>4. Sized(r.handle, 20) \/ r.handle = NoNode
      BY <3>2, <3>3, HandleType
    <3>5. /\ ReadsAs(frame, r.destIp, 34964, r.counter, 2) /\ Len(frame) = 198
          /\ HandleReads(frame, 122, handle) /\ frame[15] = 69
      BY <2>1, <3>1, <3>4, LookupsRead
    <3>6. QED
      BY <2>1, <2>4, <3>1, <3>3, <3>5, LookupReadsBack DEF frame
  <2>5. ASSUME input.kind \in {"read", "remoteRead"}
        PROVE  /\ IsRead(r) /\ "port" \in DOMAIN input
               /\ r.port = input.port /\ r.index = input.index
               /\ r.slot = input.slot /\ r.subslot = input.subslot
               /\ Bytes(r.deviceId) \o Bytes(r.vendorId) = Identity
    <3>1. /\ input.port \in {34964, 49153} /\ input.slot \in {0, 258}
          /\ input.subslot \in {1, 32769} /\ input.index \in Indexes
          /\ "port" \in DOMAIN input /\ "slot" \in DOMAIN input
          /\ "subslot" \in DOMAIN input /\ "index" \in DOMAIN input
      BY <1>1, <2>5 DEF RequestInputs
    <3>2. /\ input.port \in Short /\ input.slot \in Short /\ input.subslot \in Short
          /\ input.index \in Short
      BY <3>1, SMT DEF Short, MaxWord, Indexes, IM0, PDREALDATASUBMODUL
    <3>3. /\ r.port = input.port /\ r.slot = input.slot /\ r.subslot = input.subslot
          /\ r.index = input.index
      BY <3>1, RequestFields
    <3>4. /\ r.deviceId = Word(1, 2) /\ r.vendorId = Word(0, 42)
          /\ r.objectTail = Identity \/ r.objectTail = Zeros(4)
      BY RequestFields
    <3> HIDE DEF r
    <3>5. Sized(r.objectTail, 4)
      BY <3>4, IdentityIs, 4 \in Nat, ZerosSized
    <3>6. IsRead(r)
      BY <2>1, <3>2, <3>3, <3>4, <3>5, IdentityIs DEF IsRead
    <3>7. QED
      BY <3>1, <3>3, <3>4, <3>6, IdentityIs
  <2>6. CASE input.kind = "read"
    <3>1. frame = ReadFrame(r)
      BY <2>6 DEF SentFrame
    <3> DEFINE slot == IF r.index = PDREALDATASUBMODUL THEN r.slot ELSE 0
               subslot == IF r.index = PDREALDATASUBMODUL THEN r.subslot ELSE 1
    <3> HIDE DEF r, frame
    <3>2. IsReadAsAsked(frame, r, Identity, slot, subslot)
      BY <2>5, <2>6, <3>1, ReadsRead
    <3>3. AskedPlace(input) = <<slot, subslot>>
      BY <2>5, <2>6 DEF AskedPlace
    <3> HIDE DEF slot, subslot
    <3>4. QED
      BY <2>1, <2>5, <2>6, <3>2, <3>3, ReadReadsBack DEF frame
  <2>7. CASE input.kind = "remoteRead"
    <3>1. frame = RemoteReadFrame(r)
      BY <2>7 DEF SentFrame
    <3> DEFINE ports == r.index = PDREALDATASUBMODUL
               slot == IF ports \/ r.index = IM0 THEN r.slot ELSE 0
               subslot == IF ports THEN r.subslot ELSE 1
    <3>2. r.layer = 3 => r.objectTail = Identity
      <4>1. "layer" \in DOMAIN input
        BY <1>1, <2>7 DEF RequestInputs
      <4>2. QED
        BY <4>1, RequestFields
    <3> HIDE DEF r, frame
    <3>3. IsReadAsAsked(frame, r, Identity, slot, subslot)
      BY <2>5, <2>7, <3>1, <3>2, ReadsRead
    <3>4. AskedPlace(input) = <<slot, subslot>>
      BY <2>5, <2>7 DEF AskedPlace
    <3> HIDE DEF slot, subslot
    <3>5. QED
      BY <2>1, <2>5, <2>7, <3>3, <3>4, ReadReadsBack DEF frame
  <2>8. input.kind \in {"identify", "lookup", "remoteLookup", "read", "remoteRead"}
    BY <1>1 DEF RequestInputs
  <2>9. QED
    BY <2>2, <2>3, <2>4, <2>6, <2>7, <2>8
<1>2. Init => RequestReadsBack
  <2>1. Init => (algorithm = "request" => input \in RequestInputs)
    BY DEF Init
  <2>2. algorithm # "request" => RequestReadsBack
    BY DEF RequestReadsBack
  <2>3. QED
    BY <1>1, <2>1, <2>2
<1>3. RequestReadsBack /\ [Next]_vars => RequestReadsBack'
  BY DEF Next, vars, RequestReadsBack, LookupUnderstood, ReadUnderstood
<1>4. QED
  BY <1>2, <1>3, PTL DEF Spec

-----------------------------------------------------------------------------
(* The record of a port.                                                    *)

\* What is read out of a record where this part stands.
LEMMA BytesFromIs ==
  ASSUME NEW record, NEW o, NEW part, Stands(record, o, part), NEW n, Sized(part, n)
  PROVE  BytesFrom(record, o, n) = part
<1>1. /\ o \in Nat /\ n \in Nat /\ Len(record) \in Nat /\ o + n <= Len(record)
      /\ part \in Seq(Byte) /\ Len(part) = n
      /\ \A i \in 1..n : record[o + i] = part[i]
  BY DEF Stands, Sized
<1>2. ASSUME NEW i \in 1..n PROVE ByteAt(record, o + i - 1) = part[i]
  <2>1. o + i - 1 < Len(record) /\ (o + i - 1) + 1 = o + i
    BY <1>1
  <2>2. QED
    BY <1>1, <2>1 DEF ByteAt
<1> DEFINE s == [i \in 1..n |-> ByteAt(record, o + i - 1)]
<1>3. /\ s \in Seq(Byte) /\ Len(s) = n /\ \A i \in 1..n : s[i] = part[i]
  <2>1. \A i \in 1..n : part[i] \in Byte
    BY <1>1
  <2>2. \A i \in 1..n : ByteAt(record, o + i - 1) \in Byte
    BY <1>2, <2>1
  <2>3. s \in Seq(Byte) /\ Len(s) = n
    BY <1>1, <2>2
  <2>4. \A i \in 1..n : s[i] = part[i]
    BY <1>2
  <2>5. QED
    BY <2>3, <2>4
<1> HIDE DEF s
<1>4. s = part
  BY <1>1, <1>3
<1>5. QED
  BY <1>4 DEF s, BytesFrom

LEMMA ByteAtIs ==
  ASSUME NEW record, NEW o, NEW byte, Stands(record, o, <<byte>>)
  PROVE  ByteAt(record, o) = byte
<1> DEFINE b == <<byte>>
<1>1. Len(b) = 1 /\ b[1] = byte /\ 1 \in 1..1
  OBVIOUS
<1>2. Stands(record, o, b)
  OBVIOUS
<1> HIDE DEF b
<1>3. o \in Nat /\ Len(record) \in Nat /\ o + 1 <= Len(record) /\ record[o + 1] = b[1]
  BY <1>1, <1>2 DEF Stands
<1>4. o < Len(record)
  BY <1>3
<1>5. QED
  BY <1>1, <1>3, <1>4 DEF ByteAt

\* The padding of so many bytes.
Padding(n) == (4 - (n % 4)) % 4

LEMMA AlignedReads ==
  ASSUME NEW n, NEW a, NEW parts, Laid(a, n, parts), NEW m, m = n + Padding(n)
  PROVE  /\ Laid(Aligned(a), m, And(parts, n, Zeros(Padding(n))))
         /\ m \in Nat /\ m % 4 = 0
<1>1. n \in Nat /\ Len(a) = n
  BY DEF Laid, Sized
<1>2. Padding(n) \in Nat /\ (n + Padding(n)) % 4 = 0
  BY <1>1, SMT DEF Padding
<1>3. Sized(Zeros(Padding(n)), Padding(n))
  BY <1>2, ZerosSized
<1>4. Aligned(a) = a \o Zeros(Padding(n))
  BY <1>1 DEF Aligned, Padding
<1>5. Laid(Aligned(a), m, And(parts, n, Zeros(Padding(n))))
  BY <1>3, <1>4, AlsoLaid
<1>6. QED
  BY <1>1, <1>2, <1>5

LEMMA OneSized ==
  ASSUME NEW byte \in Byte
  PROVE  Sized(<<byte>>, 1)
  BY DEF Sized

\* What stands where in the record of a port whose own ID has k bytes.
PortStands(record, k, own, count, m, peers, mau, state) ==
  LET end   == 14 + k
      start == end + Padding(end)
  IN  /\ Stands(record, 12, <<k>>) /\ Stands(record, 13, own)
      /\ Stands(record, 13 + k, <<count>>) /\ Stands(record, end, Zeros(Padding(end)))
      /\ Stands(record, start, peers) /\ Stands(record, start + m, mau)
      /\ Stands(record, start + m + 12, state)

LEMMA PortBytesRead ==
  ASSUME NEW k \in Byte, NEW own, Sized(own, k), NEW count \in Byte,
         NEW m, NEW peers, Sized(peers, m),
         NEW mau, Sized(mau, 2), NEW state, Sized(state, 2)
  PROVE  PortStands(PortBytes(own, count, peers, mau, state), k, own, count, m, peers,
                    mau, state)
<1> DEFINE end == 14 + k
           start == end + Padding(end)
           a == Zeros(12)
           l == <<k>>
           c == <<count>>
           q == Zeros(Padding(end))
           z == Zeros(10)
           y == Zeros(6)
           s2 == a \o l
           s3 == s2 \o own
           s4 == s3 \o c
           s5 == Aligned(s4)
           s6 == s5 \o peers
           s7 == s6 \o mau
           s8 == s7 \o z
           s9 == s8 \o state
           s10 == s9 \o y
           p1 == And({}, 12, l)
           p2 == And(p1, 13, own)
           p3 == And(p2, 13 + k, c)
           p4 == And(p3, end, q)
           p5 == And(p4, start, peers)
           p6 == And(p5, start + m, mau)
           p7 == And(p6, start + m + 12, state)
<1>1. Sized(a, 12) /\ Sized(z, 10) /\ Sized(y, 6)
  BY 12 \in Nat, 10 \in Nat, 6 \in Nat, ZerosSized
<1>2. Sized(l, 1) /\ Sized(c, 1)
  BY OneSized
<1>3. PortBytes(own, count, peers, mau, state) = s10
  BY DEF PortBytes, Sized
<1>4. /\ <<12, l>> \in p7 /\ <<13, own>> \in p7 /\ <<13 + k, c>> \in p7
      /\ <<end, q>> \in p7 /\ <<start, peers>> \in p7 /\ <<start + m, mau>> \in p7
      /\ <<start + m + 12, state>> \in p7
  BY DEF And
<1>5. m \in Nat /\ k \in Nat /\ end = (13 + k) + 1
  BY DEF Sized
<1> HIDE DEF a, l, c, q, z, y, s2, s3, s4, s5, s6, s7, s8, s9, s10, p1, p2, p3, p4, p5, p6, p7
<1>6. Laid(a, 12, {})
  BY <1>1, NoneLaid
<1>7. Laid(s2, 13, p1)
  BY <1>2, <1>6, 13 = 12 + 1, AlsoLaid DEF s2, p1
<1>8. Laid(s3, 13 + k, p2)
  BY <1>7, AlsoLaid DEF s3, p2
<1>9. Laid(s4, end, p3)
  <2> HIDE DEF end
  <2>1. QED
    BY <1>2, <1>5, <1>8, AlsoLaid DEF s4, p3
<1>10. Laid(s5, start, p4) /\ start \in Nat
  <2> HIDE DEF end
  <2>1. QED
    BY <1>9, AlignedReads DEF s5, p4, q
<1> HIDE DEF start
<1>11. Laid(s6, start + m, p5)
  BY <1>10, AlsoLaid DEF s6, p5
<1>12. Laid(s7, start + m + 2, p6)
  BY <1>11, AlsoLaid DEF s7, p6
<1>13. Laid(s8, start + m + 12, p6)
  BY <1>1, <1>5, <1>10, <1>12, start + m + 12 = (start + m + 2) + 10, StillLaid DEF s8
<1>14. Laid(s9, start + m + 14, p7)
  BY <1>5, <1>10, <1>13, start + m + 14 = (start + m + 12) + 2, AlsoLaid DEF s9, p7
<1>15. Laid(s10, start + m + 20, p7)
  BY <1>1, <1>5, <1>10, <1>14, start + m + 20 = (start + m + 14) + 6, StillLaid DEF s10
<1>16. /\ Stands(s10, 12, l) /\ Stands(s10, 13, own) /\ Stands(s10, 13 + k, c)
       /\ Stands(s10, end, q) /\ Stands(s10, start, peers) /\ Stands(s10, start + m, mau)
       /\ Stands(s10, start + m + 12, state)
  BY <1>4, <1>15 DEF Laid
<1>17. QED
  BY <1>3, <1>16, Zenon DEF PortStands, l, c, q, end, start

LEMMA PeerBytesRead ==
  ASSUME NEW j \in Byte, NEW port, Sized(port, j), NEW n \in Byte, NEW chassis, Sized(chassis, n),
         NEW mac, Sized(mac, 6), NEW end, end = 2 + j + n, NEW o, o = end + Padding(end)
  PROVE  LET peer == PeerBytes(port, chassis, mac) IN
         /\ Sized(peer, o + 12) /\ o \in Nat
         /\ Stands(peer, 0, <<j>>) /\ Stands(peer, 1, port) /\ Stands(peer, 1 + j, <<n>>)
         /\ Stands(peer, 2 + j, chassis) /\ Stands(peer, o + 4, mac)
<1> DEFINE l == <<j>>
           c == <<n>>
           z == Zeros(4)
           y == Zeros(2)
           s2 == l \o port
           s3 == s2 \o c
           s4 == s3 \o chassis
           s5 == Aligned(s4)
           s6 == s5 \o z
           s7 == s6 \o mac
           s8 == s7 \o y
           p1 == And({}, 0, l)
           p2 == And(p1, 1, port)
           p3 == And(p2, 1 + j, c)
           p4 == And(p3, 2 + j, chassis)
           p5 == And(p4, end, Zeros(Padding(end)))
           p6 == And(p5, o + 4, mac)
<1>1. Sized(z, 4) /\ Sized(y, 2)
  BY 4 \in Nat, 2 \in Nat, ZerosSized
<1>2. Sized(l, 1) /\ Sized(c, 1)
  BY OneSized
<1>3. PeerBytes(port, chassis, mac) = s8
  BY DEF PeerBytes, Sized
<1>4. /\ <<0, l>> \in p6 /\ <<1, port>> \in p6 /\ <<1 + j, c>> \in p6
      /\ <<2 + j, chassis>> \in p6 /\ <<o + 4, mac>> \in p6
  BY DEF And
<1>5. j \in Nat /\ 2 + j = (1 + j) + 1
  BY DEF Byte
<1> HIDE DEF l, c, z, y, s2, s3, s4, s5, s6, s7, s8, p1, p2, p3, p4, p5, p6
<1>6. Laid(l, 1, p1)
  BY <1>2, FirstLaid DEF p1
<1>7. Laid(s2, 1 + j, p2)
  BY <1>6, AlsoLaid DEF s2, p2
<1>8. Laid(s3, 2 + j, p3)
  BY <1>2, <1>5, <1>7, AlsoLaid DEF s3, p3
<1>9. Laid(s4, end, p4)
  BY <1>8, AlsoLaid DEF s4, p4
<1>10. Laid(s5, o, p5) /\ o \in Nat
  BY <1>9, AlignedReads DEF s5, p5
<1>11. Laid(s6, o + 4, p5)
  BY <1>1, <1>10, StillLaid DEF s6
<1>12. Laid(s7, o + 10, p6)
  BY <1>10, <1>11, o + 10 = (o + 4) + 6, AlsoLaid DEF s7, p6
<1>13. Laid(s8, o + 12, p6)
  BY <1>1, <1>10, <1>12, o + 12 = (o + 10) + 2, StillLaid DEF s8
<1>14. /\ Sized(s8, o + 12) /\ Stands(s8, 0, l) /\ Stands(s8, 1, port) /\ Stands(s8, 1 + j, c)
       /\ Stands(s8, 2 + j, chassis) /\ Stands(s8, o + 4, mac)
  BY <1>4, <1>13 DEF Laid
<1>15. QED
  BY <1>3, <1>10, <1>14, Zenon DEF l, c

\* The same when the own ID has eight bytes.
LEMMA EightBytesRead ==
  ASSUME NEW own, Sized(own, 8), NEW count \in Byte, NEW m, NEW peers, Sized(peers, m),
         NEW mau, Sized(mau, 2), NEW state, Sized(state, 2)
  PROVE  LET record == PortBytes(own, count, peers, mau, state) IN
         /\ Stands(record, 12, <<8>>) /\ Stands(record, 13, own)
         /\ Stands(record, 21, <<count>>) /\ Stands(record, 24, peers)
         /\ Stands(record, 24 + m, mau) /\ Stands(record, 36 + m, state)
<1> DEFINE record == PortBytes(own, count, peers, mau, state)
<1>1. 8 \in Byte
  BY DEF Byte
<1>2. PortStands(record, 8, own, count, m, peers, mau, state)
  BY <1>1, PortBytesRead
<1>3. 13 + 8 = 21 /\ 14 + 8 = 22 /\ 22 + Padding(22) = 24
  BY DEF Padding
<1>4. m \in Nat
  BY DEF Sized
<1>5. 24 + m + 12 = 36 + m
  BY <1>4
<1> HIDE DEF record
<1>6. QED
  BY <1>2, <1>3, <1>5 DEF PortStands, record

(***************************************************************************)
(* A port's record is read as it was filled, whatever stands in its fields, *)
(* when the port IDs have eight bytes and there is one peer or none: a      *)
(* chassis ID of every length, with the padding behind it, leaves the peer's *)
(* MAC, the MAU type and the state where the code looks for them; without a  *)
(* peer the MAU type has its bytes swapped (packetCapture.c:1205-1281).      *)
(***************************************************************************)
THEOREM PortIsRead ==
  ASSUME NEW own, Sized(own, 8), NEW port, Sized(port, 8),
         NEW n \in Byte, NEW chassis, Sized(chassis, n), NEW mac, Sized(mac, 6),
         NEW mau, Sized(mau, 2), NEW state, Sized(state, 2)
  PROVE  /\ PortData(PortBytes(own, 0, <<>>, mau, state)) =
              [ownPortID |-> own, peerPortID |-> <<>>, peerChassisID |-> <<>>,
               peerMacAddress |-> <<>>, MAUType |-> Reverse(mau), portState |-> state]
         /\ PortData(PortBytes(own, 1, PeerBytes(port, chassis, mac), mau, state)) =
              [ownPortID |-> own, peerPortID |-> port, peerChassisID |-> chassis,
               peerMacAddress |-> mac, MAUType |-> mau, portState |-> state]
<1>1. PortData(PortBytes(own, 0, <<>>, mau, state)) =
        [ownPortID |-> own, peerPortID |-> <<>>, peerChassisID |-> <<>>,
         peerMacAddress |-> <<>>, MAUType |-> Reverse(mau), portState |-> state]
  <2> DEFINE none == <<>>
             record == PortBytes(own, 0, none, mau, state)
  <2>1. Sized(none, 0) /\ 0 \in Byte
    BY DEF Sized, Byte
  <2> HIDE DEF none
  <2>2. /\ Stands(record, 12, <<8>>) /\ Stands(record, 13, own)
        /\ Stands(record, 21, <<0>>)
        /\ Stands(record, 24 + 0, mau) /\ Stands(record, 36 + 0, state)
    BY <2>1, EightBytesRead
  <2> HIDE DEF record
  <2>3. ByteAt(record, 12) = 8 /\ ByteAt(record, 21) = 0
    BY <2>2, ByteAtIs
  <2>4. BytesFrom(record, 13, 8) = own
    BY <2>2, BytesFromIs
  <2>5. BytesFrom(record, 24, 2) = mau /\ BytesFrom(record, 36, 2) = state
    BY <2>2, 24 + 0 = 24, 36 + 0 = 36, BytesFromIs
  <2>6. PortData(record) =
          [ownPortID |-> own, peerPortID |-> <<>>, peerChassisID |-> <<>>,
           peerMacAddress |-> <<>>, MAUType |-> Reverse(mau), portState |-> state]
    BY <2>3, <2>4, <2>5 DEF PortData
  <2>7. QED
    BY <2>6 DEF record, none
<1>2. PortData(PortBytes(own, 1, PeerBytes(port, chassis, mac), mau, state)) =
        [ownPortID |-> own, peerPortID |-> port, peerChassisID |-> chassis,
         peerMacAddress |-> mac, MAUType |-> mau, portState |-> state]
  <2> DEFINE o == (10 + n) + Padding(10 + n)
             m == o + 12
             peer == PeerBytes(port, chassis, mac)
             record == PortBytes(own, 1, peer, mau, state)
             at == BehindChassis(n)
  <2>1. /\ Sized(peer, m) /\ o \in Nat
        /\ Stands(peer, 0, <<8>>) /\ Stands(peer, 1, port) /\ Stands(peer, 9, <<n>>)
        /\ Stands(peer, 10, chassis) /\ Stands(peer, o + 4, mac)
    <3>1. 8 \in Byte /\ 10 + n = 2 + 8 + n /\ 1 + 8 = 9 /\ 2 + 8 = 10
      BY DEF Byte
    <3>2. QED
      BY <3>1, PeerBytesRead
  <2>2. 1 \in Byte
    BY DEF Byte
  <2>3. at = 24 + (o + 4) /\ at + 8 = 24 + m /\ at + 20 = 36 + m
    BY SMT DEF BehindChassis, Padding, Byte
  <2> HIDE DEF o, peer, m, at
  <2>4. /\ Stands(record, 12, <<8>>) /\ Stands(record, 13, own)
        /\ Stands(record, 21, <<1>>) /\ Stands(record, 24, peer)
        /\ Stands(record, at + 8, mau) /\ Stands(record, at + 20, state)
    BY <2>1, <2>2, <2>3, EightBytesRead
  <2> HIDE DEF record
  <2>5. Stands(record, 24, <<8>>)
    BY <2>1, <2>4, 24 = 24 + 0, StandsWithin
  <2>6. Stands(record, 25, port)
    BY <2>1, <2>4, 25 = 24 + 1, StandsWithin
  <2>7. Stands(record, 33, <<n>>)
    BY <2>1, <2>4, 33 = 24 + 9, StandsWithin
  <2>8. Stands(record, 34, chassis)
    BY <2>1, <2>4, 34 = 24 + 10, StandsWithin
  <2>9. Stands(record, at, mac)
    BY <2>1, <2>3, <2>4, StandsWithin
  <2>10. /\ ByteAt(record, 12) = 8 /\ ByteAt(record, 21) = 1
         /\ ByteAt(record, 24) = 8 /\ ByteAt(record, 33) = n
    BY <2>4, <2>5, <2>7, ByteAtIs
  <2>11. /\ BytesFrom(record, 13, 8) = own /\ BytesFrom(record, 25, 8) = port
         /\ BytesFrom(record, 34, n) = chassis
    BY <2>4, <2>6, <2>8, BytesFromIs
  <2>12. /\ BytesFrom(record, at, 6) = mac /\ BytesFrom(record, at + 8, 2) = mau
         /\ BytesFrom(record, at + 20, 2) = state
    BY <2>4, <2>9, BytesFromIs
  <2>13. PortData(record) =
           [ownPortID |-> own, peerPortID |-> port, peerChassisID |-> chassis,
            peerMacAddress |-> mac, MAUType |-> mau, portState |-> state]
    BY <2>10, <2>11, <2>12 DEF PortData, at
  <2>14. QED
    BY <2>13 DEF record, peer
<1>3. QED
  BY <1>1, <1>2

\* A byte of a part.
LEMMA ByteOfPart ==
  ASSUME NEW record, NEW o, NEW part, Stands(record, o, part), NEW i \in 1..Len(part),
         NEW at, at = o + i - 1
  PROVE  ByteAt(record, at) = part[i]
<1>1. /\ o \in Nat /\ Len(record) \in Nat /\ Len(part) \in Nat
      /\ o + Len(part) <= Len(record) /\ record[o + i] = part[i]
  BY DEF Stands
<1> DEFINE l == Len(part)
           m == Len(record)
<1>2. i \in Nat /\ i <= l /\ l \in Nat /\ m \in Nat /\ o + l <= m
  BY <1>1
<1> HIDE DEF l, m
<1>3. at < m /\ at + 1 = o + i
  BY <1>1, <1>2
<1>4. QED
  BY <1>1, <1>3 DEF ByteAt, m

\* What is read of a record whose own port ID, of k bytes, and whose peers are these.
OtherIDsMisread(read, k, own, count, peers) ==
  /\ k >= 12 /\ own[9] # 0 => DOMAIN read.peerPortID = 1..own[12]
  /\ k = 7 => read.peerPortID = <<>>
  /\ \A j \in Byte : \A port :
       (/\ Sized(port, j) /\ Stands(peers, 1, port) /\ j > 8
        /\ (k = 8 /\ count # 0) \/ (k \in {9, 10} /\ own[9] # 0))
       => DOMAIN read.peerChassisID = 1..port[9]

(***************************************************************************)
(* A port ID that is not of eight bytes is taken for one.  When the port's  *)
(* own has twelve or more, the peer's has as many bytes as its twelfth      *)
(* character says, also when there is no peer.  When it has seven, no peer is *)
(* seen.  When the first peer's has more than eight, the chassis ID has as   *)
(* many as its ninth character says (protocols.h:661,                       *)
(* packetCapture.c:1205-1281).                                               *)
(***************************************************************************)
THEOREM OtherIDsAreMisread ==
  ASSUME NEW k \in Byte, NEW own, Sized(own, k), NEW count \in Byte,
         NEW m, NEW peers, Sized(peers, m), NEW mau, Sized(mau, 2), NEW state, Sized(state, 2)
  PROVE  OtherIDsMisread(PortData(PortBytes(own, count, peers, mau, state)), k, own, count, peers)
<1> DEFINE record == PortBytes(own, count, peers, mau, state)
           read == PortData(record)
           end == 14 + k
           start == end + Padding(end)
<1>1. PortStands(record, k, own, count, m, peers, mau, state)
  BY PortBytesRead
<1>2. /\ Stands(record, 13, own) /\ Stands(record, 13 + k, <<count>>)
      /\ Stands(record, end, Zeros(Padding(end))) /\ Stands(record, start, peers)
  BY <1>1, Zenon DEF PortStands
<1>3. k \in Nat /\ Len(own) = k
  BY DEF Sized
<1> HIDE DEF record
<1>4. read = IF ByteAt(record, 21) = 0
             THEN [ownPortID |-> BytesFrom(record, 13, ByteAt(record, 12)),
                   peerPortID |-> <<>>, peerChassisID |-> <<>>, peerMacAddress |-> <<>>,
                   MAUType   |-> Reverse(BytesFrom(record, 24, 2)),
                   portState |-> BytesFrom(record, 36, 2)]
             ELSE LET mac == BehindChassis(ByteAt(record, 33)) IN
                  [ownPortID |-> BytesFrom(record, 13, ByteAt(record, 12)),
                   peerPortID     |-> BytesFrom(record, 25, ByteAt(record, 24)),
                   peerChassisID  |-> BytesFrom(record, 34, ByteAt(record, 33)),
                   peerMacAddress |-> BytesFrom(record, mac, 6),
                   MAUType        |-> BytesFrom(record, mac + 8, 2),
                   portState      |-> BytesFrom(record, mac + 20, 2)]
  BY Zenon DEF PortData
<1>5. /\ ByteAt(record, 21) = 0 => read.peerPortID = <<>>
      /\ ByteAt(record, 21) # 0 =>
           /\ read.peerPortID = BytesFrom(record, 25, ByteAt(record, 24))
           /\ read.peerChassisID = BytesFrom(record, 34, ByteAt(record, 33))
  BY <1>4
<1> HIDE DEF read
<1>6. \A o, n : DOMAIN BytesFrom(record, o, n) = 1..n
  BY DEF BytesFrom
<1>7. k >= 9 => ByteAt(record, 21) = own[9]
  <2>1. k >= 9 => 9 \in 1..Len(own)
    BY <1>3
  <2>2. 21 = 13 + 9 - 1
    OBVIOUS
  <2>3. QED
    BY <1>2, <2>1, <2>2, ByteOfPart
<1>8. k = 8 => ByteAt(record, 21) = count
  <2>1. k = 8 => 13 + k = 21
    OBVIOUS
  <2>2. QED
    BY <1>2, <2>1, ByteAtIs
<1>9. ASSUME k >= 12, own[9] # 0 PROVE DOMAIN read.peerPortID = 1..own[12]
  <2>1. ByteAt(record, 24) = own[12]
    <3>1. 12 \in 1..Len(own) /\ 24 = 13 + 12 - 1
      BY <1>3, <1>9
    <3>2. QED
      BY <1>2, <3>1, ByteOfPart
  <2>2. ByteAt(record, 21) # 0
    BY <1>3, <1>7, <1>9
  <2>3. QED
    BY <1>5, <1>6, <2>1, <2>2
<1>10. ASSUME k = 7 PROVE read.peerPortID = <<>>
  <2>1. end = 21 /\ Padding(end) = 3
    BY <1>10, SMT DEF Padding
  <2>2. Zeros(3) = [i \in 1..3 |-> 0]
    BY DEF Zeros
  <2>3. 1 \in 1..Len(Zeros(3)) /\ Zeros(3)[1] = 0
    BY <2>2
  <2>4. Stands(record, 21, Zeros(3))
    BY <1>2, <2>1
  <2>5. ByteAt(record, 21) = 0
    <3>1. 21 = 21 + 1 - 1
      OBVIOUS
    <3>2. QED
      BY <2>3, <2>4, <3>1, ByteOfPart
  <2>6. QED
    BY <1>5, <2>5
<1>11. ASSUME NEW j \in Byte, NEW port, Sized(port, j), Stands(peers, 1, port), j > 8,
              (k = 8 /\ count # 0) \/ (k \in {9, 10} /\ own[9] # 0)
       PROVE  DOMAIN read.peerChassisID = 1..port[9]
  <2>1. k \in {8, 9, 10}
    BY <1>11
  <2>2. start = 24
    BY <2>1, SMT DEF Padding
  <2>3. Stands(record, 25, port)
    <3>1. Stands(record, 24, peers) /\ 25 = 24 + 1
      BY <1>2, <2>2
    <3>2. QED
      BY <1>11, <3>1, StandsWithin
  <2>4. ByteAt(record, 33) = port[9]
    <3>1. 9 \in 1..Len(port) /\ 33 = 25 + 9 - 1
      BY <1>11 DEF Sized, Byte
    <3>2. QED
      BY <2>3, <3>1, ByteOfPart
  <2>5. ByteAt(record, 21) # 0
    BY <1>3, <1>7, <1>8, <1>11
  <2>6. QED
    BY <1>5, <1>6, <2>4, <2>5
<1>12. QED
  <2>1. OtherIDsMisread(read, k, own, count, peers)
    BY <1>9, <1>10, <1>11 DEF OtherIDsMisread
  <2>2. QED
    BY <2>1, Zenon DEF read, record

-----------------------------------------------------------------------------
(* The interface among the blocks of a record.                              *)

HeaderLoop == INSTANCE LeftFold WITH Step <- NextHeader, Base <- NoRecord

\* The first n blocks of the first multiple block begin at these offsets, none of
\* them is an interface, and they end before the multiple block or with it.
Passed(record, at, n) ==
  /\ n \in Nat /\ at[1] = 16 /\ record.headers[0].length \in Nat
  /\ \A k \in 1..n :
       /\ at[k] \in Nat /\ at[k] \in DOMAIN record.headers
       /\ record.headers[at[k]].length \in Nat /\ record.headers[at[k]].kind # "interface"
       /\ at[k + 1] = at[k] + 4 + record.headers[at[k]].length
  /\ at[n + 1] <= 4 + record.headers[0].length

\* A sequence in which each is greater than the one before is ascending.
LEMMA Ascends ==
  ASSUME NEW n \in Nat, NEW at, at[1] \in Nat,
         \A k \in 1..n : at[k] \in Nat /\ at[k + 1] \in Nat /\ at[k + 1] > at[k]
  PROVE  /\ \A k \in 1..(n + 1) : at[k] \in Nat
         /\ \A j, k \in 1..(n + 1) : j < k => at[j] < at[k]
<1>1. \A k \in 1..(n + 1) : at[k] \in Nat
  <2>1. ASSUME NEW k \in 1..(n + 1) PROVE at[k] \in Nat
    <3>1. k = 1 \/ (k - 1 \in 1..n /\ (k - 1) + 1 = k)
      OBVIOUS
    <3>2. QED
      BY <3>1
  <2>2. QED
    BY <2>1
<1> DEFINE S == {d \in Nat : \A j \in 1..n : j + d <= n => at[j] < at[j + 1 + d]}
<1>2. 0 \in S
  OBVIOUS
<1>3. ASSUME NEW d \in Nat, d \in S PROVE d + 1 \in S
  <2>1. ASSUME NEW j \in 1..n, j + (d + 1) <= n PROVE at[j] < at[j + 1 + (d + 1)]
    <3>1. /\ j + d <= n /\ j + 1 + d \in 1..n /\ (j + 1 + d) + 1 = j + 1 + (d + 1)
          /\ j \in 1..(n + 1) /\ j + 1 + d \in 1..(n + 1) /\ j + 1 + (d + 1) \in 1..(n + 1)
      BY <2>1
    <3>2. at[j] < at[j + 1 + d]
      BY <1>3, <3>1
    <3>3. at[j + 1 + d] < at[j + 1 + (d + 1)]
      BY <3>1
    <3>4. /\ at[j] \in Nat /\ at[j + 1 + d] \in Nat /\ at[j + 1 + (d + 1)] \in Nat
      BY <1>1, <3>1
    <3>5. QED
      BY <3>2, <3>3, <3>4
  <2>2. QED
    BY <2>1
<1> HIDE DEF S
<1>4. ASSUME NEW j \in 1..(n + 1), NEW k \in 1..(n + 1), j < k PROVE at[j] < at[k]
  <2>1. /\ k - j - 1 \in Nat /\ j + 1 + (k - j - 1) = k
        /\ j \in 1..n /\ j + (k - j - 1) <= n
    BY <1>4
  <2>2. k - j - 1 \in S
    BY <1>2, <1>3, <2>1, HeaderLoop!Induction
  <2>3. QED
    BY <2>1, <2>2 DEF S
<1>5. QED
  BY <1>1, <1>4

LEMMA BlocksAscend ==
  ASSUME NEW record, NEW n, NEW at, Passed(record, at, n)
  PROVE  /\ \A k \in 1..(n + 1) : at[k] \in Nat
         /\ \A j, k \in 1..(n + 1) : j < k => at[j] < at[k]
<1>1. /\ n \in Nat /\ at[1] \in Nat
      /\ \A k \in 1..n : at[k] \in Nat /\ at[k + 1] \in Nat /\ at[k + 1] > at[k]
  BY DEF Passed
<1>2. QED
  BY <1>1, Ascends

\* The walk with the block at bh to be looked at, in the first multiple block.
Before(record, bh) ==
  [bh |-> bh, mbh |-> 0, length |-> record.headers[0].length, start |-> 20,
   result |-> "walking"]

\* Behind these blocks the walk looks at what stands there, and ends when that
\* ends it.
LEMMA WalkArrives ==
  ASSUME NEW record, IsFiniteSet(DOMAIN record.headers), NEW n, NEW at,
         Passed(record, at, n),
         NEW end, end = NextHeader(Before(record, at[n + 1]), record), end.result # "walking"
  PROVE  FindInterface(record) = end
<1> DEFINE total == 2 * Cardinality(DOMAIN record.headers) + 1
           rounds == [round \in 1..total |-> record]
           length == record.headers[0].length
<1>1. /\ n \in Nat /\ at[1] = 16 /\ length \in Nat /\ at[n + 1] <= 4 + length
      /\ \A k \in 1..n : at[k] \in DOMAIN record.headers
  BY DEF Passed
<1>2. \A k \in 1..n :
        /\ record.headers[at[k]].kind # "interface"
        /\ at[k + 1] = at[k] + 4 + record.headers[at[k]].length
  BY DEF Passed
<1>3. /\ \A k \in 1..(n + 1) : at[k] \in Nat
      /\ \A j, k \in 1..(n + 1) : j < k => at[j] < at[k]
  BY BlocksAscend
<1>4. total \in Nat /\ n + 1 <= total
  <2> DEFINE f == [k \in 1..n |-> at[k]]
  <2>1. f \in Injection(1..n, DOMAIN record.headers)
    <3>1. \A j, k \in 1..n : at[j] \in Nat /\ at[k] \in Nat /\ (j < k => at[j] < at[k])
      BY <1>1, <1>3
    <3>2. \A j, k \in 1..n : f[j] = f[k] => j = k
      BY <1>1, <3>1
    <3>3. f \in [1..n -> DOMAIN record.headers]
      BY <1>1
    <3>4. QED
      BY <3>2, <3>3 DEF Injection, IsInjective
  <2>2. Cardinality(1..n) = n
    BY <1>1, FS_Interval
  <2>3. Cardinality(1..n) <= Cardinality(DOMAIN record.headers)
    BY <2>1, FS_Injection
  <2>4. Cardinality(DOMAIN record.headers) \in Nat
    BY FS_CardinalityType
  <2>5. QED
    BY <1>1, <2>2, <2>3, <2>4
<1> HIDE DEF total
<1>5. rounds \in Seq({record}) /\ Len(rounds) = total /\ \A k \in 1..total : rounds[k] = record
  BY <1>4
<1>6. FindInterface(record) = HeaderLoop!FoldedFrom(StartOfWalk(record), rounds)
  BY DEF FindInterface, HeaderLoop!FoldedFrom, FoldLeft, HeaderLoop!FoldLeft,
         MapThenFoldSet, HeaderLoop!MapThenFoldSet, Max, HeaderLoop!Max, total
<1> HIDE DEF rounds
<1>7. PICK state : HeaderLoop!StatesOf(state, StartOfWalk(record), rounds)
  BY <1>5, HeaderLoop!FoldStepsFrom
<1>8. /\ state[0] = StartOfWalk(record)
      /\ \A k \in 0..(total - 1) : state[k + 1] = NextHeader(state[k], record)
      /\ FindInterface(record) = state[total]
  <2>1. \A k \in 0..(total - 1) : k + 1 \in 1..total
    BY <1>4
  <2>2. QED
    BY <1>5, <1>6, <1>7, <2>1 DEF HeaderLoop!StatesOf
<1>9. state[0] = Before(record, at[0 + 1])
  BY <1>1, <1>8 DEF StartOfWalk, Before
<1>10. ASSUME NEW k \in 0..(total - 1), k < n, state[k] = Before(record, at[k + 1])
       PROVE  state[k + 1] = Before(record, at[(k + 1) + 1])
  <2>1. k + 1 \in 1..n /\ k + 1 \in 1..(n + 1) /\ (k + 1) + 1 \in 1..(n + 1)
    BY <1>1, <1>4, <1>10
  <2> DEFINE w == state[k]
             b == at[k + 1]
             next == b + 4 + record.headers[b].length
             behind == [w EXCEPT !.bh = next]
  <2>2. /\ b \in DOMAIN record.headers /\ record.headers[b].kind # "interface"
        /\ at[(k + 1) + 1] = next
    BY <1>1, <1>2, <2>1
  <2>3. next - 20 < length
    <3>1. next <= at[n + 1] /\ next \in Nat /\ at[n + 1] \in Nat
      <4>1. at[n + 1] \in Nat /\ at[(k + 1) + 1] \in Nat /\ n + 1 \in 1..(n + 1)
        BY <1>1, <1>3, <2>1
      <4>2. (k + 1) + 1 = n + 1 \/ (k + 1) + 1 < n + 1
        BY <1>1, <2>1
      <4>3. (k + 1) + 1 < n + 1 => at[(k + 1) + 1] < at[n + 1]
        BY <1>3, <2>1, <4>1
      <4>4. QED
        BY <2>2, <4>1, <4>2, <4>3
    <3>2. QED
      BY <1>1, <3>1
  <2>4. /\ w.bh = b /\ w.result = "walking" /\ w.start = 20 /\ w.length = length
    BY <1>10 DEF Before
  <2>5. behind = Before(record, next)
    BY <1>10 DEF Before
  <2> HIDE DEF next
  <2>6. behind.bh = next /\ behind.start = 20 /\ behind.length = length
    BY <2>5 DEF Before
  <2> HIDE DEF w, b
  <2>7. NextHeader(w, record) = behind
    BY <2>2, <2>3, <2>4, <2>6 DEF NextHeader, next
  <2>8. QED
    BY <1>8, <2>2, <2>5, <2>7 DEF w
<1>11. ASSUME NEW k \in 0..(total - 1), state[k] = end PROVE state[k + 1] = end
  <2>1. state[k + 1] = NextHeader(end, record)
    BY <1>8, <1>11
  <2>2. NextHeader(end, record) = end
    BY Zenon DEF NextHeader
  <2>3. QED
    BY <2>1, <2>2
<1> DEFINE S == {k \in 0..total : IF k <= n THEN state[k] = Before(record, at[k + 1])
                                  ELSE state[k] = end}
<1>12. 0 \in S
  BY <1>1, <1>4, <1>9
<1>13. ASSUME NEW k \in 0..(total - 1), k \in S PROVE k + 1 \in S
  <2>1. CASE k < n
    BY <1>1, <1>4, <1>10, <1>13, <2>1
  <2>2. CASE k = n
    <3>1. state[n] = Before(record, at[n + 1]) /\ k \in 0..(total - 1)
      BY <1>13, <2>2
    <3>2. state[k + 1] = NextHeader(state[n], record)
      BY <1>8, <2>2, <3>1
    <3>3. state[k + 1] = end
      BY <3>1, <3>2
    <3>4. QED
      BY <1>1, <1>4, <2>2, <3>3
  <2>3. CASE k > n
    BY <1>1, <1>4, <1>11, <1>13, <2>3
  <2>4. QED
    BY <1>1, <2>1, <2>2, <2>3
<1> HIDE DEF S
<1>14. total \in S
  BY <1>4, <1>12, <1>13, HeaderLoop!Induction
<1>15. ~(total <= n)
  BY <1>1, <1>4
<1>16. QED
  BY <1>8, <1>14, <1>15 DEF S

\* The fields behind a name of any length are at the next fourth byte behind it.
LEMMA FieldsAreAligned ==
  ASSUME NEW bh \in Nat, NEW name \in Nat
  PROVE  LET aligned == bh + 4 * ((7 + name + 3) \div 4) IN
         InterfaceFields(bh, name) =
           [nameOfStation |-> bh + 7, deviceMACaddress |-> aligned,
            subnetmask |-> aligned + 12, defaultGateway |-> aligned + 16]
<1>1. bh + 7 + name + (IF (name + 23) % 4 = 0 THEN 0 ELSE 4 - ((name + 23) % 4))
        = bh + 4 * ((7 + name + 3) \div 4)
  BY SMT
<1>2. QED
  BY <1>1 DEF InterfaceFields

(***************************************************************************)
(* An interface in the first multiple block is found at its offset, behind  *)
(* however many other blocks of whatever lengths, and the fields behind its *)
(* name, of any length, at the next fourth byte (packetCapture.c:1048-1156). *)
(***************************************************************************)
THEOREM InterfaceIsFound ==
  ASSUME NEW record, IsFiniteSet(DOMAIN record.headers), NEW n, NEW at,
         Passed(record, at, n), at[n + 1] \in DOMAIN record.headers,
         record.headers[at[n + 1]].kind = "interface"
  PROVE  LET found == FindInterface(record)
         IN  /\ found.result = "found" /\ found.bh = at[n + 1]
             /\ \A name \in Nat :
                  LET aligned == at[n + 1] + 4 * ((7 + name + 3) \div 4) IN
                  InterfaceFields(found.bh, name) =
                    [nameOfStation |-> at[n + 1] + 7, deviceMACaddress |-> aligned,
                     subnetmask |-> aligned + 12, defaultGateway |-> aligned + 16]
<1> DEFINE here == Before(record, at[n + 1])
           end == NextHeader(here, record)
<1>1. here.result = "walking" /\ here.bh = at[n + 1]
  BY DEF Before
<1>2. end = [here EXCEPT !.result = "found"]
  BY <1>1 DEF NextHeader
<1>3. end.result = "found" /\ end.bh = at[n + 1]
  BY <1>2 DEF Before
<1> HIDE DEF end
<1>4. FindInterface(record) = end
  <2>1. end.result # "walking"
    BY <1>3
  <2>2. QED
    BY <2>1, WalkArrives DEF end
<1>5. at[n + 1] \in Nat
  <2>1. n + 1 \in 1..(n + 1)
    BY DEF Passed
  <2>2. QED
    BY <2>1, BlocksAscend
<1>6. QED
  BY <1>3, <1>4, <1>5, FieldsAreAligned

(***************************************************************************)
(* When the first multiple block has none, the walk looks at what stands    *)
(* behind it: at nothing, when the record is over there; and else at the    *)
(* next multiple block's header, as if it were a block of the first.  It    *)
(* ends well when the record ends with that.  When more follows, it goes on *)
(* 16 times the first block's length, where no header is unless the record   *)
(* is as long as that (packetCapture.c:1130-1156).                           *)
(***************************************************************************)
THEOREM InterfaceIsLost ==
  ASSUME NEW record, IsFiniteSet(DOMAIN record.headers), record.length \in Nat, NEW n, NEW at,
         Passed(record, at, n), at[n + 1] = 4 + record.headers[0].length
  PROVE  LET length == record.headers[0].length
             next   == record.headers[at[n + 1]]
             behind == at[n + 1] + 4 + next.length
             result == FindInterface(record).result
         IN  /\ at[n + 1] \notin DOMAIN record.headers => result = Stray
             /\ (/\ at[n + 1] \in DOMAIN record.headers
                 /\ next.kind = "multiple" /\ next.length \in Nat /\ next.length >= 12)
                => /\ behind >= record.length => result = "none"
                   /\ behind < record.length /\ 16 * length \notin DOMAIN record.headers
                        => result = Stray
<1> DEFINE length == record.headers[0].length
           next == record.headers[at[n + 1]]
           behind == at[n + 1] + 4 + next.length
           here == Before(record, at[n + 1])
           end == NextHeader(here, record)
           there == [here EXCEPT !.bh = behind]
<1>1. /\ here.result = "walking" /\ here.bh = at[n + 1] /\ here.start = 20
      /\ here.length = length /\ here.mbh = 0
  BY DEF Before
<1>2. /\ there.bh = behind /\ there.start = 20 /\ there.length = length /\ there.mbh = 0
  BY DEF Before
<1>3. /\ [here EXCEPT !.result = Stray].result = Stray
      /\ [there EXCEPT !.result = Stray].result = Stray
      /\ [there EXCEPT !.result = "none"].result = "none"
  BY DEF Before
<1>4. length \in Nat
  BY DEF Passed
<1>5. at[n + 1] \in Nat
  <2>1. n + 1 \in 1..(n + 1)
    BY DEF Passed
  <2>2. QED
    BY <2>1, BlocksAscend
<1> HIDE DEF here, there, length
<1>6. ASSUME at[n + 1] \notin DOMAIN record.headers PROVE end.result = Stray
  BY <1>1, <1>3, <1>6 DEF NextHeader
<1>7. ASSUME at[n + 1] \in DOMAIN record.headers,
             next.kind = "multiple", next.length \in Nat, next.length >= 12
      PROVE  /\ behind >= record.length => end.result = "none"
             /\ behind < record.length /\ 16 * length \notin DOMAIN record.headers
                  => end.result = Stray
  <2>1. next.kind # "interface"
    BY <1>7
  <2>2. ~(behind - 20 < length)
    BY <1>4, <1>7 DEF length
  <2> HIDE DEF behind
  <2>3. end = IF behind < record.length THEN EnterMultiple(there, record)
              ELSE [there EXCEPT !.result = "none"]
    BY <1>1, <1>2, <1>7, <2>1, <2>2 DEF NextHeader, there, behind
  <2>4. ASSUME behind >= record.length PROVE end.result = "none"
    <3>1. ~(behind < record.length)
      BY <1>7, <1>5, <2>4 DEF behind
    <3>2. QED
      BY <1>3, <2>3, <3>1
  <2>5. ASSUME behind < record.length, 16 * length \notin DOMAIN record.headers
        PROVE  end.result = Stray
    <3>1. NextMultiple(there) = 16 * length
      BY <1>2, <1>4 DEF NextMultiple
    <3>2. EnterMultiple(there, record) = [there EXCEPT !.result = Stray]
      BY <2>5, <3>1 DEF EnterMultiple
    <3>3. QED
      BY <1>3, <2>3, <2>5, <3>2
  <2>6. QED
    BY <2>4, <2>5
<1> HIDE DEF end, behind
<1>8. end.result # "walking" => FindInterface(record) = end
  BY WalkArrives DEF end, here
<1>9. Stray # "walking" /\ "none" # "walking"
  BY StrayAssumption
<1>10. QED
  BY <1>6, <1>7, <1>8, <1>9 DEF behind, length

-----------------------------------------------------------------------------
(* A record of any multiple blocks.                                         *)

LaidBlocks == INSTANCE LeftFold WITH Step <- WithBlock, Base <- NoRecord

LaidMultiples == INSTANCE LeftFold WITH Step <- WithMultiple, Base <- NoRecord

Block == [kind : {"interface", "other"}, length : Nat]

\* All headers are in the record.
IsRecord(record) ==
  /\ record.length \in Nat /\ IsFiniteSet(DOMAIN record.headers)
  /\ \A o \in DOMAIN record.headers : o \in Nat /\ o < record.length

\* The second record goes on with the first.
GoesOn(record, longer) ==
  /\ record.length <= longer.length
  /\ \A o \in DOMAIN record.headers :
       o \in DOMAIN longer.headers /\ longer.headers[o] = record.headers[o]

HeaderAdded(headers, record, offset, header) ==
  /\ DOMAIN headers = DOMAIN record.headers \cup {offset}
  /\ IsFiniteSet(DOMAIN headers) /\ headers[offset] = header
  /\ \A o \in DOMAIN record.headers : o # offset => headers[o] = record.headers[o]

LEMMA HeaderIsAdded ==
  ASSUME NEW record, IsFiniteSet(DOMAIN record.headers), NEW offset, NEW header
  PROVE  HeaderAdded(WithHeader(record, offset, header), record, offset, header)
<1> DEFINE headers == WithHeader(record, offset, header)
<1>1. /\ DOMAIN headers = DOMAIN record.headers \cup {offset}
      /\ headers[offset] = header
      /\ \A o \in DOMAIN record.headers : o # offset => headers[o] = record.headers[o]
  BY DEF WithHeader
<1>2. IsFiniteSet(DOMAIN record.headers \cup {offset})
  BY FS_AddElement
<1> HIDE DEF headers
<1>3. IsFiniteSet(DOMAIN headers)
  BY <1>1, <1>2
<1>4. HeaderAdded(headers, record, offset, header)
  BY <1>1, <1>3 DEF HeaderAdded
<1>5. QED
  BY <1>4 DEF headers

LEMMA BlockIsLaid ==
  ASSUME NEW record, IsRecord(record), NEW block \in Block,
         NEW longer, longer = WithBlock(record, block)
  PROVE  /\ IsRecord(longer) /\ GoesOn(record, longer)
         /\ longer.length = record.length + 4 + block.length
         /\ record.length \in DOMAIN longer.headers
         /\ longer.headers[record.length] = block
<1> DEFINE headers == WithHeader(record, record.length, block)
<1>1. block.length \in Nat /\ record.length \in Nat
  BY DEF Block, IsRecord
<1>2. longer.length = record.length + 4 + block.length /\ longer.headers = headers
  BY DEF WithBlock
<1> HIDE DEF headers
<1>3. /\ DOMAIN headers = DOMAIN record.headers \cup {record.length}
      /\ headers[record.length] = block
      /\ \A o \in DOMAIN record.headers : o # record.length => headers[o] = record.headers[o]
      /\ IsFiniteSet(DOMAIN headers)
  <2>1. IsFiniteSet(DOMAIN record.headers)
    BY DEF IsRecord
  <2>2. HeaderAdded(headers, record, record.length, block)
    BY <2>1, HeaderIsAdded DEF headers
  <2>3. QED
    BY <2>2 DEF HeaderAdded
<1>4. \A o \in DOMAIN record.headers : o \in Nat /\ o < record.length
  BY DEF IsRecord
<1>5. IsRecord(longer)
  <2>1. ASSUME NEW o \in DOMAIN headers PROVE o \in Nat /\ o < longer.length
    BY <1>1, <1>2, <1>3, <1>4
  <2>2. QED
    BY <1>1, <1>2, <1>3, <2>1 DEF IsRecord
<1>6. GoesOn(record, longer)
  BY <1>1, <1>2, <1>3, <1>4 DEF GoesOn
<1>7. QED
  BY <1>2, <1>3, <1>5, <1>6

LEMMA GoesOnAgain ==
  ASSUME NEW a, NEW b, NEW c, IsRecord(a), IsRecord(b), IsRecord(c),
         GoesOn(a, b), GoesOn(b, c)
  PROVE  GoesOn(a, c)
  BY DEF GoesOn, IsRecord

\* These blocks stand one behind the other, from here to the end.
BlocksStandAt(record, blocks, at, start) ==
  /\ at[1] = start /\ at[Len(blocks) + 1] = record.length
  /\ \A k \in 1..Len(blocks) :
       /\ at[k] \in DOMAIN record.headers /\ record.headers[at[k]] = blocks[k]
       /\ at[k + 1] = at[k] + 4 + blocks[k].length

LEMMA BlocksAreLaid ==
  ASSUME NEW record, IsRecord(record), NEW blocks \in Seq(Block),
         NEW longer, longer = FoldLeft(WithBlock, record, blocks)
  PROVE  /\ IsRecord(longer) /\ GoesOn(record, longer)
         /\ \E at : /\ BlocksStandAt(longer, blocks, at, record.length)
                    /\ \A k \in 1..(Len(blocks) + 1) :
                         at[k] \in Nat /\ at[k] >= record.length /\ at[k] <= longer.length
<1> DEFINE n == Len(blocks)
<1>1. n \in Nat /\ \A k \in 1..n : blocks[k] \in Block
  OBVIOUS
<1>2. longer = LaidBlocks!FoldedFrom(record, blocks)
  BY DEF LaidBlocks!FoldedFrom, FoldLeft, LaidBlocks!FoldLeft, MapThenFoldSet,
         LaidBlocks!MapThenFoldSet, Max, LaidBlocks!Max
<1>3. PICK state : LaidBlocks!StatesOf(state, record, blocks)
  BY LaidBlocks!FoldStepsFrom
<1>4. /\ state[0] = record /\ state[n] = longer
      /\ \A k \in 0..(n - 1) : state[k + 1] = WithBlock(state[k], blocks[k + 1])
  BY <1>2, <1>3 DEF LaidBlocks!StatesOf
<1>5. \A k \in 0..(n - 1) : blocks[k + 1] \in Block
  BY <1>1
<1> DEFINE S == {k \in 0..n : IsRecord(state[k])}
           T(m) == {k \in 0..n : k >= m => GoesOn(state[m], state[k])}
<1>6. \A k \in 0..n : IsRecord(state[k])
  <2>1. 0 \in S
    BY <1>1, <1>4
  <2>2. ASSUME NEW k \in 0..(n - 1), k \in S PROVE k + 1 \in S
    <3>1. /\ IsRecord(state[k]) /\ blocks[k + 1] \in Block
          /\ state[k + 1] = WithBlock(state[k], blocks[k + 1])
      BY <1>4, <1>5, <2>2
    <3>2. IsRecord(state[k + 1])
      BY <3>1, BlockIsLaid
    <3>3. QED
      BY <1>1, <3>2
  <2> HIDE DEF S
  <2>3. ASSUME NEW m \in 0..n PROVE m \in S
    <3>1. m \in Nat /\ \A k \in 0..(m - 1) : k \in 0..(n - 1)
      BY <1>1
    <3>2. \A k \in 0..(m - 1) : k \in S => k + 1 \in S
      BY <2>2, <3>1
    <3>3. QED
      BY <2>1, <3>1, <3>2, LaidBlocks!Induction
  <2>4. QED
    BY <2>3 DEF S
<1>7. \A k \in 0..(n - 1) :
        /\ GoesOn(state[k], state[k + 1])
        /\ state[k + 1].length = state[k].length + 4 + blocks[k + 1].length
        /\ state[k].length \in DOMAIN state[k + 1].headers
        /\ state[k + 1].headers[state[k].length] = blocks[k + 1]
  <2>1. ASSUME NEW k \in 0..(n - 1)
        PROVE  /\ GoesOn(state[k], state[k + 1])
               /\ state[k + 1].length = state[k].length + 4 + blocks[k + 1].length
               /\ state[k].length \in DOMAIN state[k + 1].headers
               /\ state[k + 1].headers[state[k].length] = blocks[k + 1]
    <3>1. k \in 0..n
      BY <1>1
    <3>2. /\ IsRecord(state[k]) /\ blocks[k + 1] \in Block
          /\ state[k + 1] = WithBlock(state[k], blocks[k + 1])
      BY <1>4, <1>5, <1>6, <3>1
    <3> DEFINE now == state[k]
               block == blocks[k + 1]
               next == state[k + 1]
    <3> HIDE DEF now, block, next
    <3>3. IsRecord(now) /\ block \in Block /\ next = WithBlock(now, block)
      BY <3>2, Zenon DEF now, block, next
    <3>4. /\ GoesOn(now, next) /\ next.length = now.length + 4 + block.length
          /\ now.length \in DOMAIN next.headers /\ next.headers[now.length] = block
      BY <3>3, BlockIsLaid
    <3>5. QED
      BY <3>4, Zenon DEF now, block, next
  <2>2. QED
    BY <2>1
<1>8. ASSUME NEW m \in 0..n PROVE GoesOn(state[m], longer)
  <2>1. 0 \in T(m)
    <3>1. 0 \in 0..n /\ (0 >= m => m = 0)
      BY <1>1
    <3>2. GoesOn(state[0], state[0])
      BY <1>6, <3>1 DEF GoesOn, IsRecord
    <3>3. QED
      BY <3>1, <3>2
  <2>2. ASSUME NEW k \in 0..(n - 1), k \in T(m) PROVE k + 1 \in T(m)
    <3>1. k \in 0..n /\ k + 1 \in 0..n
      BY <1>1
    <3>2. CASE k + 1 <= m
      <4>1. k + 1 >= m => k + 1 = m
        BY <1>1, <3>2
      <4>2. GoesOn(state[k + 1], state[k + 1])
        BY <1>6, <3>1 DEF GoesOn, IsRecord
      <4>3. QED
        BY <3>1, <4>1, <4>2
    <3>3. CASE k + 1 > m
      <4>1. k >= m
        BY <1>1, <3>3
      <4>2. GoesOn(state[m], state[k])
        BY <2>2, <4>1
      <4>3. GoesOn(state[m], state[k + 1])
        BY <1>6, <1>7, <3>1, <4>2, GoesOnAgain
      <4>4. QED
        BY <3>1, <4>3
    <3>4. QED
      BY <1>1, <3>2, <3>3
  <2>3. n \in T(m)
    <3> HIDE DEF T
    <3>1. QED
      BY <1>1, <2>1, <2>2, LaidBlocks!Induction
  <2>4. n >= m
    BY <1>1
  <2>5. QED
    BY <1>4, <2>3, <2>4
<1> DEFINE at == [k \in 1..(n + 1) |-> state[k - 1].length]
<1>9. \A k \in 1..(n + 1) :
        /\ k - 1 \in 0..n
        /\ at[k] \in Nat /\ at[k] >= record.length /\ at[k] <= longer.length
  <2>1. ASSUME NEW k \in 1..(n + 1)
        PROVE  /\ k - 1 \in 0..n
               /\ at[k] \in Nat /\ at[k] >= record.length /\ at[k] <= longer.length
    <3>1. k - 1 \in 0..n
      BY <1>1
    <3>2. state[k - 1].length \in Nat
      BY <1>6, <3>1 DEF IsRecord
    <3>3. GoesOn(record, state[k - 1])
      <4> DEFINE U == {j \in 0..n : GoesOn(record, state[j])}
      <4>1. 0 \in U
        <5>1. 0 \in 0..n
          BY <1>1
        <5>2. QED
          BY <1>4, <5>1 DEF GoesOn, IsRecord
      <4>2. ASSUME NEW j \in 0..(n - 1), j \in U PROVE j + 1 \in U
        <5>1. j \in 0..n /\ j + 1 \in 0..n
          BY <1>1
        <5>2. QED
          BY <1>6, <1>7, <4>2, <5>1, GoesOnAgain
      <4> HIDE DEF U
      <4>3. k - 1 \in Nat /\ \A j \in 0..((k - 1) - 1) : j \in 0..(n - 1)
        BY <1>1
      <4>4. \A j \in 0..((k - 1) - 1) : j \in U => j + 1 \in U
        BY <4>2, <4>3
      <4>5. k - 1 \in U
        BY <4>1, <4>3, <4>4, LaidBlocks!Induction
      <4>6. QED
        BY <4>5 DEF U
    <3>4. record.length \in Nat
      BY DEF IsRecord
    <3>5. state[k - 1].length >= record.length
      BY <3>2, <3>3, <3>4 DEF GoesOn
    <3>6. state[k - 1].length <= longer.length
      BY <1>8, <3>1 DEF GoesOn
    <3>7. QED
      BY <3>1, <3>2, <3>5, <3>6
  <2>2. QED
    BY <2>1
<1>10. at[1] = record.length /\ at[n + 1] = longer.length
  BY <1>1, <1>4
<1>11. ASSUME NEW k \in 1..n
       PROVE  /\ at[k] \in DOMAIN longer.headers /\ longer.headers[at[k]] = blocks[k]
              /\ at[k + 1] = at[k] + 4 + blocks[k].length
  <2>1. /\ k - 1 \in 0..(n - 1) /\ (k - 1) + 1 = k /\ k \in 0..n
        /\ k \in 1..(n + 1) /\ k + 1 \in 1..(n + 1) /\ (k + 1) - 1 = k
    BY <1>1
  <2>2. at[k] = state[k - 1].length /\ at[k + 1] = state[k].length
    BY <2>1
  <2> HIDE DEF at
  <2>3. /\ state[k].length = state[k - 1].length + 4 + blocks[k].length
        /\ state[k - 1].length \in DOMAIN state[k].headers
        /\ state[k].headers[state[k - 1].length] = blocks[k]
    BY <1>7, <2>1
  <2>4. GoesOn(state[k], longer)
    BY <1>8, <2>1
  <2>5. QED
    BY <2>2, <2>3, <2>4 DEF GoesOn
<1> HIDE DEF at
<1>12. BlocksStandAt(longer, blocks, at, record.length)
  BY <1>10, <1>11 DEF BlocksStandAt
<1>13. IsRecord(longer) /\ GoesOn(record, longer)
  <2>1. 0 \in 0..n /\ n \in 0..n
    BY <1>1
  <2>2. QED
    BY <1>4, <1>6, <1>8, <2>1
<1>14. QED
  BY <1>9, <1>12, <1>13

\* A multiple block is laid with its header before its blocks.
MultipleStandsAt(record, blocks, at, start) ==
  /\ start \in DOMAIN record.headers
  /\ record.headers[start] = [kind |-> "multiple", length |-> record.length - start - 4]
  /\ BlocksStandAt(record, blocks, at, start + 16)
  /\ \A k \in 1..(Len(blocks) + 1) :
       at[k] \in Nat /\ at[k] >= start + 16 /\ at[k] <= record.length

LEMMA MultipleIsLaid ==
  ASSUME NEW record, IsRecord(record), NEW blocks \in Seq(Block),
         NEW longer, longer = WithMultiple(record, blocks)
  PROVE  /\ IsRecord(longer) /\ GoesOn(record, longer)
         /\ longer.length >= record.length + 16
         /\ \E at : MultipleStandsAt(longer, blocks, at, record.length)
<1> DEFINE start == record.length
           begun == [length |-> start + 16, headers |-> record.headers]
           all == FoldLeft(WithBlock, begun, blocks)
           multiple == [kind |-> "multiple", length |-> all.length - start - 4]
           headers == WithHeader(all, start, multiple)
           n == Len(blocks)
<1>1. start \in Nat /\ n \in Nat /\ begun.length = start + 16 /\ begun.headers = record.headers
  BY DEF IsRecord
<1>2. longer.length = all.length /\ longer.headers = headers
  BY DEF WithMultiple
<1>3. IsRecord(begun)
  BY <1>1 DEF IsRecord
<1> HIDE DEF start, begun, all, multiple, headers
<1>4. PICK at : /\ BlocksStandAt(all, blocks, at, begun.length)
                /\ \A k \in 1..(n + 1) :
                     at[k] \in Nat /\ at[k] >= begun.length /\ at[k] <= all.length
  BY <1>3, BlocksAreLaid DEF all
<1>5. IsRecord(all) /\ GoesOn(begun, all)
  BY <1>3, BlocksAreLaid DEF all
<1>6. /\ DOMAIN headers = DOMAIN all.headers \cup {start} /\ headers[start] = multiple
      /\ \A o \in DOMAIN all.headers : o # start => headers[o] = all.headers[o]
      /\ IsFiniteSet(DOMAIN headers)
  <2>1. IsFiniteSet(DOMAIN all.headers)
    BY <1>5 DEF IsRecord
  <2>2. HeaderAdded(headers, all, start, multiple)
    BY <2>1, HeaderIsAdded DEF headers
  <2>3. QED
    BY <2>2 DEF HeaderAdded
<1>7. /\ all.length \in Nat /\ all.length >= start + 16
      /\ \A o \in DOMAIN all.headers : o \in Nat /\ o < all.length
  BY <1>1, <1>5 DEF IsRecord, GoesOn
<1>8. IsRecord(longer)
  <2>1. ASSUME NEW o \in DOMAIN headers PROVE o \in Nat /\ o < all.length
    BY <1>1, <1>6, <1>7
  <2>2. QED
    BY <1>2, <1>6, <1>7, <2>1 DEF IsRecord
<1>9. GoesOn(record, longer)
  <2>1. \A o \in DOMAIN record.headers : o # start
    BY DEF IsRecord, start
  <2>2. start <= longer.length
    BY <1>1, <1>2, <1>7
  <2>3. QED
    BY <1>1, <1>2, <1>5, <1>6, <2>1, <2>2 DEF GoesOn, start
<1>10. MultipleStandsAt(longer, blocks, at, start)
  <2>1. \A k \in 1..(n + 1) :
          at[k] \in Nat /\ at[k] >= start + 16 /\ at[k] <= longer.length
    BY <1>1, <1>2, <1>4
  <2>2. \A k \in 1..n : at[k] # start
    <3>1. \A k \in 1..n : k \in 1..(n + 1)
      BY <1>1
    <3>2. QED
      BY <1>1, <2>1, <3>1
  <2>3. \A k \in 1..n : at[k] \in DOMAIN headers /\ headers[at[k]] = blocks[k]
    BY <1>4, <1>6, <2>2 DEF BlocksStandAt
  <2>4. BlocksStandAt(longer, blocks, at, start + 16)
    BY <1>1, <1>2, <1>4, <2>3 DEF BlocksStandAt
  <2>5. start \in DOMAIN headers /\ headers[start] = multiple
    BY <1>6
  <2>6. multiple = [kind |-> "multiple", length |-> longer.length - start - 4]
    BY <1>2 DEF multiple
  <2>7. QED
    BY <1>2, <2>1, <2>4, <2>5, <2>6 DEF MultipleStandsAt
<1>11. QED
  BY <1>1, <1>2, <1>7, <1>8, <1>9, <1>10 DEF start

\* A record goes on from multiple block to multiple block.
RecordsAre(record, multiples) ==
  /\ record[0] = NoRecord /\ record[Len(multiples)] = InterfaceRecord(multiples)
  /\ \A k \in 0..Len(multiples) :
       IsRecord(record[k]) /\ GoesOn(record[k], record[Len(multiples)])
  /\ \A k \in 0..(Len(multiples) - 1) :
       /\ record[k + 1].length >= record[k].length + 16
       /\ \E at : MultipleStandsAt(record[k + 1], multiples[k + 1], at, record[k].length)

LEMMA RecordIsLaid ==
  ASSUME NEW multiples \in Seq(Seq(Block))
  PROVE  \E record : RecordsAre(record, multiples)
<1> DEFINE n == Len(multiples)
<1>1. n \in Nat /\ \A k \in 0..(n - 1) : multiples[k + 1] \in Seq(Block)
  OBVIOUS
<1>2. InterfaceRecord(multiples) = LaidMultiples!FoldedFrom(NoRecord, multiples)
  BY DEF InterfaceRecord, LaidMultiples!FoldedFrom, FoldLeft, LaidMultiples!FoldLeft,
         MapThenFoldSet, LaidMultiples!MapThenFoldSet, Max, LaidMultiples!Max
<1>3. PICK state : LaidMultiples!StatesOf(state, NoRecord, multiples)
  BY LaidMultiples!FoldStepsFrom
<1>4. /\ state[0] = NoRecord /\ state[n] = InterfaceRecord(multiples)
      /\ \A k \in 0..(n - 1) : state[k + 1] = WithMultiple(state[k], multiples[k + 1])
  BY <1>2, <1>3 DEF LaidMultiples!StatesOf
<1>5. IsRecord(NoRecord)
  <2>1. NoRecord.length = 0 /\ DOMAIN NoRecord.headers = {}
    BY DEF NoRecord
  <2>2. QED
    BY <2>1, FS_EmptySet DEF IsRecord
<1>6. ASSUME NEW k \in 0..(n - 1), IsRecord(state[k])
      PROVE  /\ IsRecord(state[k + 1]) /\ GoesOn(state[k], state[k + 1])
             /\ state[k + 1].length >= state[k].length + 16
             /\ \E at : MultipleStandsAt(state[k + 1], multiples[k + 1], at, state[k].length)
  <2>1. multiples[k + 1] \in Seq(Block) /\ state[k + 1] = WithMultiple(state[k], multiples[k + 1])
    BY <1>1, <1>4
  <2>2. QED
    BY <1>6, <2>1, MultipleIsLaid
<1> DEFINE S == {k \in 0..n : IsRecord(state[k])}
<1>7. \A k \in 0..n : IsRecord(state[k])
  <2>1. 0 \in S
    BY <1>1, <1>4, <1>5
  <2>2. ASSUME NEW k \in 0..(n - 1), k \in S PROVE k + 1 \in S
    BY <1>1, <1>6, <2>2
  <2> HIDE DEF S
  <2>3. ASSUME NEW m \in 0..n PROVE m \in S
    <3>1. m \in Nat /\ \A k \in 0..(m - 1) : k \in 0..(n - 1)
      BY <1>1
    <3>2. \A k \in 0..(m - 1) : k \in S => k + 1 \in S
      BY <2>2, <3>1
    <3>3. QED
      BY <2>1, <3>1, <3>2, LaidMultiples!Induction
  <2>4. QED
    BY <2>3 DEF S
<1>8. ASSUME NEW m \in 0..n PROVE GoesOn(state[m], state[n])
  <2> DEFINE T == {k \in 0..n : k >= m => GoesOn(state[m], state[k])}
  <2>1. 0 \in T
    <3>1. 0 \in 0..n /\ (0 >= m => m = 0)
      BY <1>1
    <3>2. GoesOn(state[0], state[0])
      BY <1>7, <3>1 DEF GoesOn, IsRecord
    <3>3. QED
      BY <3>1, <3>2
  <2>2. ASSUME NEW k \in 0..(n - 1), k \in T PROVE k + 1 \in T
    <3>1. k \in 0..n /\ k + 1 \in 0..n
      BY <1>1
    <3>2. CASE k + 1 <= m
      <4>1. k + 1 >= m => k + 1 = m
        BY <1>1, <3>2
      <4>2. GoesOn(state[k + 1], state[k + 1])
        BY <1>7, <3>1 DEF GoesOn, IsRecord
      <4>3. QED
        BY <3>1, <4>1, <4>2
    <3>3. CASE k + 1 > m
      <4>1. k >= m
        BY <1>1, <3>3
      <4>2. GoesOn(state[m], state[k])
        BY <2>2, <4>1
      <4>3. GoesOn(state[k], state[k + 1])
        BY <1>6, <1>7, <3>1
      <4>4. GoesOn(state[m], state[k + 1])
        BY <1>7, <3>1, <4>2, <4>3, GoesOnAgain
      <4>5. QED
        BY <3>1, <4>4
    <3>4. QED
      BY <1>1, <3>2, <3>3
  <2>3. n \in T
    <3> HIDE DEF T
    <3>1. QED
      BY <1>1, <2>1, <2>2, LaidMultiples!Induction
  <2>4. n >= m
    BY <1>1
  <2>5. QED
    BY <2>3, <2>4
<1>9. \A k \in 0..(n - 1) : k \in 0..n
  BY <1>1
<1>10. RecordsAre(state, multiples)
  BY <1>4, <1>6, <1>7, <1>8, <1>9 DEF RecordsAre
<1>11. QED
  BY <1>10

\* Where the blocks of the first multiple block stand, and what is behind them.
FirstStands(record, multiples, at) ==
  LET first  == multiples[1]
      behind == at[Len(first) + 1]
      next   == record.headers[behind]
  IN  /\ IsRecord(record) /\ at[1] = 16
      /\ \A k \in 1..(Len(first) + 1) : at[k] \in Nat /\ at[k] <= behind
      /\ \A k \in 1..Len(first) :
           /\ at[k] \in DOMAIN record.headers /\ record.headers[at[k]] = first[k]
           /\ at[k + 1] = at[k] + 4 + first[k].length
      /\ record.headers[0].length \in Nat /\ behind = 4 + record.headers[0].length
      /\ Len(multiples) = 1 => behind = record.length
      /\ Len(multiples) > 1 =>
           /\ behind \in DOMAIN record.headers /\ next.kind = "multiple"
           /\ next.length \in Nat /\ next.length >= 12
           /\ Len(multiples) = 2 => behind + 4 + next.length = record.length
           /\ Len(multiples) > 2 => behind + 4 + next.length < record.length

LEMMA FirstIsLaid ==
  ASSUME NEW multiples \in Seq(Seq(Block)), multiples # <<>>,
         NEW record, RecordsAre(record, multiples)
  PROVE  \E at : FirstStands(InterfaceRecord(multiples), multiples, at)
<1> DEFINE n == Len(multiples)
           whole == InterfaceRecord(multiples)
           first == multiples[1]
           m == Len(first)
<1>1. n \in Nat /\ n >= 1 /\ m \in Nat /\ \A k \in 1..m : first[k] \in Block
  <2>1. n \in Nat /\ n >= 1 /\ first \in Seq(Block)
    OBVIOUS
  <2>2. QED
    BY <2>1
<1>2. /\ record[0] = NoRecord /\ record[n] = whole
      /\ \A k \in 0..n : IsRecord(record[k]) /\ GoesOn(record[k], whole)
      /\ \A k \in 0..(n - 1) :
           /\ record[k + 1].length >= record[k].length + 16
           /\ \E at : MultipleStandsAt(record[k + 1], multiples[k + 1], at, record[k].length)
  BY DEF RecordsAre
<1>3. /\ 0 \in 0..(n - 1) /\ 0 + 1 = 1 /\ 1 \in 0..n /\ n \in 0..n
      /\ n > 1 => 1 \in 0..(n - 1) /\ 1 + 1 = 2 /\ 2 \in 0..n
      /\ n > 2 => 2 \in 0..(n - 1) /\ 2 + 1 = 3 /\ 3 \in 0..n
  BY <1>1
<1>4. record[0].length = 0
  BY <1>2 DEF NoRecord
<1> HIDE DEF whole
<1>5. PICK at : MultipleStandsAt(record[1], first, at, 0)
  BY <1>2, <1>3, <1>4
<1>6. /\ 0 \in DOMAIN record[1].headers
      /\ record[1].headers[0] = [kind |-> "multiple", length |-> record[1].length - 0 - 4]
      /\ at[1] = 0 + 16 /\ at[m + 1] = record[1].length
      /\ \A k \in 1..m :
           /\ at[k] \in DOMAIN record[1].headers /\ record[1].headers[at[k]] = first[k]
           /\ at[k + 1] = at[k] + 4 + first[k].length
      /\ \A k \in 1..(m + 1) : at[k] \in Nat /\ at[k] >= 0 + 16 /\ at[k] <= record[1].length
  BY <1>5 DEF MultipleStandsAt, BlocksStandAt
<1>7. /\ IsRecord(record[1]) /\ IsRecord(whole) /\ GoesOn(record[1], whole)
      /\ record[1].length \in Nat /\ record[1].length >= 16
  <2>1. record[1].length >= 0 + 16
    BY <1>2, <1>3, <1>4
  <2>2. QED
    BY <1>2, <1>3, <2>1 DEF IsRecord
<1>8. /\ \A k \in 1..m : at[k] \in DOMAIN whole.headers /\ whole.headers[at[k]] = first[k]
      /\ whole.headers[0] = [kind |-> "multiple", length |-> record[1].length - 0 - 4]
  BY <1>6, <1>7 DEF GoesOn
<1>9. whole.headers[0].length \in Nat /\ at[m + 1] = 4 + whole.headers[0].length
  <2>1. whole.headers[0].length = record[1].length - 0 - 4
    BY <1>8
  <2>2. QED
    BY <1>6, <1>7, <2>1
<1>10. n = 1 => at[m + 1] = whole.length
  BY <1>2, <1>6
<1>11. ASSUME n > 1
       PROVE  LET next == whole.headers[at[m + 1]] IN
              /\ at[m + 1] \in DOMAIN whole.headers /\ next.kind = "multiple"
              /\ next.length \in Nat /\ next.length >= 12
              /\ n = 2 => at[m + 1] + 4 + next.length = whole.length
              /\ n > 2 => at[m + 1] + 4 + next.length < whole.length
  <2> DEFINE start == record[1].length
             next == whole.headers[start]
  <2>1. PICK b : MultipleStandsAt(record[2], multiples[2], b, start)
    BY <1>2, <1>3, <1>11
  <2>2. /\ start \in DOMAIN record[2].headers
        /\ record[2].headers[start]
             = [kind |-> "multiple", length |-> record[2].length - start - 4]
    BY <2>1 DEF MultipleStandsAt
  <2>3. GoesOn(record[2], whole) /\ record[2].length \in Nat /\ whole.length \in Nat
    BY <1>2, <1>3, <1>7, <1>11 DEF IsRecord
  <2>4. start \in DOMAIN whole.headers /\ next = record[2].headers[start]
    BY <2>2, <2>3 DEF GoesOn
  <2>5. next.kind = "multiple" /\ next.length = record[2].length - start - 4
    BY <2>2, <2>4
  <2>6. record[2].length >= start + 16
    BY <1>2, <1>3, <1>11
  <2>7. next.length \in Nat /\ next.length >= 12 /\ start + 4 + next.length = record[2].length
    <3> DEFINE l == next.length
               two == record[2].length
    <3>1. start \in Nat /\ two \in Nat /\ two >= start + 16 /\ l = two - start - 4
      BY <1>7, <2>3, <2>5, <2>6
    <3> HIDE DEF l, two, start
    <3>2. l \in Nat /\ l >= 12 /\ start + 4 + l = two
      BY <3>1
    <3>3. QED
      BY <3>2 DEF l, two
  <2>8. n = 2 => record[2].length = whole.length
    BY <1>2
  <2>9. ASSUME n > 2 PROVE record[2].length < whole.length
    <3>1. record[3].length >= record[2].length + 16
      BY <1>2, <1>3, <2>9
    <3>2. GoesOn(record[3], whole) /\ record[3].length \in Nat
      BY <1>2, <1>3, <2>9 DEF IsRecord
    <3>3. record[3].length <= whole.length
      BY <3>2 DEF GoesOn
    <3> DEFINE two == record[2].length
               three == record[3].length
               all == whole.length
    <3>4. two \in Nat /\ three \in Nat /\ all \in Nat /\ three >= two + 16 /\ three <= all
      BY <2>3, <3>1, <3>2, <3>3
    <3> HIDE DEF two, three, all
    <3>5. two < all
      BY <3>4
    <3>6. QED
      BY <3>5 DEF two, all
  <2> HIDE DEF next, start
  <2>10. at[m + 1] = start
    BY <1>6 DEF start
  <2>11. QED
    BY <2>4, <2>5, <2>7, <2>8, <2>9, <2>10 DEF next
<1>12. FirstStands(whole, multiples, at)
  BY <1>6, <1>7, <1>8, <1>9, <1>10, <1>11 DEF FirstStands
<1>13. QED
  BY <1>12 DEF whole

\* Of a record of any multiple blocks, the first interface in the first of them is
\* found; without one, what the walk comes to depends on how many there are.
LEMMA RecordIsWalked ==
  ASSUME NEW multiples \in Seq(Seq(Block)), multiples # <<>>,
         NEW record, NEW at, FirstStands(record, multiples, at)
  PROVE  LET first == multiples[1]
             found == FindInterface(record)
         IN  /\ \A i \in 1..Len(first) :
                  (/\ first[i].kind = "interface"
                   /\ \A j \in 1..Len(first) : j < i => first[j].kind # "interface")
                  => found.result = "found" /\ found.bh = at[i]
             /\ (\A i \in 1..Len(first) : first[i].kind # "interface")
                => /\ Len(multiples) = 1 => found.result = Stray
                   /\ Len(multiples) = 2 => found.result = "none"
                   /\ Len(multiples) > 2 /\ record.length <= 16 * record.headers[0].length
                        => found.result = Stray
<1> DEFINE first == multiples[1]
           m == Len(first)
           found == FindInterface(record)
           length == record.headers[0].length
           behind == at[m + 1]
           next == record.headers[behind]
<1>1. m \in Nat /\ \A k \in 1..m : first[k].length \in Nat
  <2>1. first \in Seq(Block)
    OBVIOUS
  <2>2. m \in Nat /\ \A k \in 1..m : first[k] \in Block
    BY <2>1
  <2>3. \A block \in Block : block.length \in Nat
    BY DEF Block
  <2>4. QED
    BY <2>2, <2>3
<1>2. /\ IsRecord(record) /\ IsFiniteSet(DOMAIN record.headers) /\ at[1] = 16
      /\ record.length \in Nat /\ \A o \in DOMAIN record.headers : o \in Nat /\ o < record.length
      /\ \A k \in 1..(m + 1) : at[k] \in Nat /\ at[k] <= behind
      /\ \A k \in 1..m :
           /\ at[k] \in DOMAIN record.headers /\ record.headers[at[k]] = first[k]
           /\ at[k + 1] = at[k] + 4 + first[k].length
      /\ length \in Nat /\ behind = 4 + length
  BY DEF FirstStands, IsRecord
<1>3. ASSUME NEW n \in 0..m, \A j \in 1..n : first[j].kind # "interface"
      PROVE  Passed(record, at, n)
  <2>1. n \in Nat /\ n + 1 \in 1..(m + 1) /\ \A k \in 1..n : k \in 1..m /\ k \in 1..(m + 1)
    BY <1>1
  <2>2. at[n + 1] <= 4 + length
    BY <1>2, <2>1
  <2>3. \A k \in 1..n :
          /\ at[k] \in Nat /\ at[k] \in DOMAIN record.headers
          /\ record.headers[at[k]] = first[k] /\ at[k + 1] = at[k] + 4 + first[k].length
    BY <1>2, <2>1
  <2>4. \A k \in 1..n :
          record.headers[at[k]].length \in Nat /\ record.headers[at[k]].kind # "interface"
    BY <1>1, <1>3, <2>1, <2>3
  <2>5. QED
    BY <1>2, <2>1, <2>2, <2>3, <2>4 DEF Passed
<1>4. ASSUME NEW i \in 1..m, first[i].kind = "interface",
             \A j \in 1..m : j < i => first[j].kind # "interface"
      PROVE  found.result = "found" /\ found.bh = at[i]
  <2> DEFINE n == i - 1
  <2>1. n \in 0..m /\ n + 1 = i /\ \A j \in 1..n : j \in 1..m /\ j < i
    BY <1>1
  <2> HIDE DEF n
  <2>2. Passed(record, at, n)
    BY <1>3, <1>4, <2>1
  <2>3. at[n + 1] \in DOMAIN record.headers /\ record.headers[at[n + 1]].kind = "interface"
    BY <1>2, <1>4, <2>1
  <2> HIDE DEF found
  <2>4. found.result = "found" /\ found.bh = at[n + 1]
    BY <1>2, <2>2, <2>3, InterfaceIsFound DEF found
  <2>5. QED
    BY <2>1, <2>4
<1>5. ASSUME \A i \in 1..m : first[i].kind # "interface"
      PROVE  /\ Len(multiples) = 1 => found.result = Stray
             /\ Len(multiples) = 2 => found.result = "none"
             /\ Len(multiples) > 2 /\ record.length <= 16 * length => found.result = Stray
  <2>1. Passed(record, at, m)
    BY <1>1, <1>3, <1>5
  <2>2. /\ behind \notin DOMAIN record.headers => found.result = Stray
        /\ (/\ behind \in DOMAIN record.headers
            /\ next.kind = "multiple" /\ next.length \in Nat /\ next.length >= 12)
           => /\ behind + 4 + next.length >= record.length => found.result = "none"
              /\ (behind + 4 + next.length < record.length
                  /\ 16 * length \notin DOMAIN record.headers) => found.result = Stray
    BY <1>2, <2>1, InterfaceIsLost
  <2>3. /\ Len(multiples) = 1 => behind = record.length
        /\ Len(multiples) > 1 =>
             /\ behind \in DOMAIN record.headers /\ next.kind = "multiple"
             /\ next.length \in Nat /\ next.length >= 12
             /\ Len(multiples) = 2 => behind + 4 + next.length = record.length
             /\ Len(multiples) > 2 => behind + 4 + next.length < record.length
    BY DEF FirstStands
  <2>4. record.length \notin DOMAIN record.headers
    BY <1>2
  <2>5. record.length <= 16 * length => 16 * length \notin DOMAIN record.headers
    BY <1>2
  <2>6. record.length >= record.length
    BY <1>2
  <2> HIDE DEF behind, next, found, length
  <2>7. Len(multiples) = 1 => found.result = Stray
    BY <2>2, <2>3, <2>4
  <2>8. Len(multiples) = 2 => found.result = "none"
    BY <2>2, <2>3, <2>6
  <2>9. Len(multiples) > 2 /\ record.length <= 16 * length => found.result = Stray
    BY <2>2, <2>3, <2>5
  <2>10. QED
    BY <2>7, <2>8, <2>9
<1>6. QED
  BY <1>4, <1>5

\* The inputs of Algorithms: few blocks of few bytes.
IsFew(blocks) ==
  /\ blocks \in Seq(Block) /\ Len(blocks) <= 2
  /\ \A k \in 1..Len(blocks) :
       /\ blocks[k].length <= 32
       /\ blocks[k].kind # "interface" => blocks[k].length = 20

LEMMA FewAre ==
  ASSUME NEW in \in InterfaceInputs
  PROVE  /\ in.name \in Nat /\ in.multiples \in Seq(Seq(Block))
         /\ Len(in.multiples) \in {1, 2, 3}
         /\ \A k \in 1..Len(in.multiples) : IsFew(in.multiples[k])
<1>1. PICK name \in 0..8 :
        in \in [multiples : UNION {[1..n -> SeqOf({InterfaceBlock(name), OtherBlock}, 2)]
                                     : n \in 1..3}, name : {name}]
  BY DEF InterfaceInputs
<1> DEFINE some == {InterfaceBlock(name), OtherBlock}
<1>2. in.name = name /\ in.multiples \in UNION {[1..n -> SeqOf(some, 2)] : n \in 1..3}
  BY <1>1
<1>3. PICK n \in 1..3 : in.multiples \in [1..n -> SeqOf(some, 2)]
  BY <1>2
<1>4. /\ InterfaceBlock(name).kind = "interface" /\ InterfaceBlock(name).length \in Nat
      /\ InterfaceBlock(name).length <= 32 /\ InterfaceBlock(name) \in Block
  <2>1. 24 + 4 * ((name + 3) \div 4) \in Nat /\ 24 + 4 * ((name + 3) \div 4) <= 32
    BY SMT
  <2>2. QED
    BY <2>1 DEF InterfaceBlock, Block
<1>5. OtherBlock.kind = "other" /\ OtherBlock.length = 20 /\ OtherBlock \in Block
  BY DEF OtherBlock, Block
<1>6. ASSUME NEW blocks \in SeqOf(some, 2) PROVE IsFew(blocks)
  <2>1. PICK k \in 0..2 : blocks \in [1..k -> some]
    BY DEF SeqOf
  <2>2. some \subseteq Block
    BY <1>4, <1>5
  <2> HIDE DEF some
  <2>3. blocks \in Seq(Block) /\ Len(blocks) = k
    BY <2>1, <2>2
  <2>4. ASSUME NEW i \in 1..k
        PROVE  /\ blocks[i].length <= 32
               /\ blocks[i].kind # "interface" => blocks[i].length = 20
    <3>1. blocks[i] = InterfaceBlock(name) \/ blocks[i] = OtherBlock
      BY <2>1 DEF some
    <3>2. QED
      BY <1>4, <1>5, <3>1
  <2>5. QED
    BY <2>3, <2>4 DEF IsFew
<1> HIDE DEF some
<1>7. \A blocks \in SeqOf(some, 2) : blocks \in Seq(Block)
  BY <1>6 DEF IsFew
<1>8. in.multiples \in Seq(Seq(Block)) /\ Len(in.multiples) = n
  BY <1>3, <1>7
<1>9. \A k \in 1..n : IsFew(in.multiples[k])
  BY <1>3, <1>6
<1>10. n \in {1, 2, 3} /\ name \in Nat
  OBVIOUS
<1>11. QED
  BY <1>2, <1>8, <1>9, <1>10

\* Multiple blocks of few blocks are short.
LEMMA FewAreShort ==
  ASSUME NEW record, NEW longer, IsRecord(record), IsRecord(longer),
         NEW blocks, IsFew(blocks), NEW at,
         MultipleStandsAt(longer, blocks, at, record.length)
  PROVE  longer.length <= record.length + 88
<1> DEFINE n == Len(blocks)
           start == record.length
           end == longer.length
<1>1. /\ n \in {0, 1, 2} /\ start \in Nat /\ end \in Nat
      /\ \A k \in 1..n : blocks[k].length \in Nat /\ blocks[k].length <= 32
  <2>1. blocks \in Seq(Block) /\ n <= 2 /\ \A k \in 1..n : blocks[k].length <= 32
    BY DEF IsFew
  <2>2. n \in Nat /\ \A k \in 1..n : blocks[k] \in Block
    BY <2>1
  <2>3. \A block \in Block : block.length \in Nat
    BY DEF Block
  <2>4. start \in Nat /\ end \in Nat
    BY DEF IsRecord
  <2> HIDE DEF n
  <2>5. n \in {0, 1, 2}
    BY <2>1, <2>2
  <2>6. QED
    BY <2>1, <2>2, <2>3, <2>4, <2>5
<1>2. /\ at[1] = start + 16 /\ at[n + 1] = end
      /\ \A k \in 1..n : at[k + 1] = at[k] + 4 + blocks[k].length
  BY DEF MultipleStandsAt, BlocksStandAt
<1> HIDE DEF n, start, end
<1>3. CASE n = 0
  BY <1>1, <1>2, <1>3 DEF start, end
<1>4. CASE n = 1
  <2>1. 1 \in 1..n /\ at[1 + 1] = end
    BY <1>2, <1>4
  <2>2. blocks[1].length \in Nat /\ blocks[1].length <= 32 /\ end = at[1] + 4 + blocks[1].length
    BY <1>1, <1>2, <2>1
  <2>3. QED
    BY <1>1, <1>2, <2>2 DEF start, end
<1>5. CASE n = 2
  <2>1. 1 \in 1..n /\ 2 \in 1..n /\ at[2 + 1] = end /\ 1 + 1 = 2
    BY <1>2, <1>5
  <2>2. /\ blocks[1].length \in Nat /\ blocks[1].length <= 32
        /\ blocks[2].length \in Nat /\ blocks[2].length <= 32
        /\ at[2] = at[1] + 4 + blocks[1].length /\ end = at[2] + 4 + blocks[2].length
    BY <1>1, <1>2, <2>1
  <2>3. QED
    BY <1>1, <1>2, <2>2 DEF start, end
<1>6. QED
  BY <1>1, <1>3, <1>4, <1>5

\* What Algorithms says of each of its records with blocks.
LEMMA InterfacesRight ==
  ASSUME input \in InterfaceInputs
  PROVE  InterfaceRight
<1> DEFINE multiples == input.multiples
           first == multiples[1]
           whole == InterfaceRecord(multiples)
           n == Len(multiples)
           m == Len(first)
           found == FindInterface(whole)
           here == {i \in DOMAIN first : first[i].kind = "interface"}
           length == whole.headers[0].length
<1>1. /\ input.name \in Nat /\ multiples \in Seq(Seq(Block)) /\ n \in {1, 2, 3}
      /\ \A k \in 1..n : IsFew(multiples[k])
  BY FewAre
<1>2. /\ 1 \in 1..n /\ multiples # <<>>
  <2>1. Len(<<>>) = 0
    OBVIOUS
  <2>2. multiples = <<>> => n = 0
    BY <2>1
  <2> HIDE DEF n
  <2>3. 1 \in 1..n /\ n # 0
    BY <1>1
  <2>4. QED
    BY <2>2, <2>3
<1>3. IsFew(first)
  BY <1>1, <1>2
<1>4. /\ first \in Seq(Block) /\ m \in {0, 1, 2} /\ DOMAIN first = 1..m
      /\ \A k \in 1..m : first[k].kind # "interface" => first[k].length = 20
  <2>1. /\ first \in Seq(Block) /\ m <= 2
        /\ \A k \in 1..m : first[k].kind # "interface" => first[k].length = 20
    BY <1>3 DEF IsFew
  <2>2. m \in Nat /\ DOMAIN first = 1..m
    BY <2>1
  <2> HIDE DEF m
  <2>3. m \in {0, 1, 2}
    BY <2>1, <2>2
  <2>4. QED
    BY <2>1, <2>2, <2>3
<1>5. PICK record : RecordsAre(record, multiples)
  BY <1>1, RecordIsLaid
<1>6. PICK at : FirstStands(whole, multiples, at)
  BY <1>1, <1>2, <1>5, FirstIsLaid
<1>7. /\ \A i \in 1..m :
           (/\ first[i].kind = "interface"
            /\ \A j \in 1..m : j < i => first[j].kind # "interface")
           => found.result = "found" /\ found.bh = at[i]
      /\ (\A i \in 1..m : first[i].kind # "interface")
         => /\ n = 1 => found.result = Stray
            /\ n = 2 => found.result = "none"
            /\ n > 2 /\ whole.length <= 16 * length => found.result = Stray
  BY <1>1, <1>2, <1>6, RecordIsWalked
<1>8. /\ at[1] = 16 /\ \A k \in 1..m : at[k + 1] = at[k] + 4 + first[k].length
      /\ \A k \in 1..(m + 1) : at[k] \in Nat
      /\ length \in Nat /\ at[m + 1] = 4 + length
      /\ n = 1 => at[m + 1] = whole.length
  BY <1>6 DEF FirstStands
<1> HIDE DEF multiples, first, whole, n, m, found, length
<1>9. ASSUME here = {}
      PROVE  found.result = IF n = 2 THEN "none" ELSE Stray
  <2>1. \A i \in 1..m : first[i].kind # "interface"
    BY <1>4, <1>9
  <2>2. at[m + 1] = 16 + 24 * m
    <3>1. CASE m = 0
      BY <1>8, <3>1
    <3>2. CASE m = 1
      <4>1. 1 \in 1..m /\ first[1].length = 20
        BY <1>4, <2>1, <3>2
      <4>2. at[1 + 1] = 16 + 4 + 20
        BY <1>8, <4>1
      <4>3. QED
        BY <3>2, <4>2
    <3>3. CASE m = 2
      <4>1. 1 \in 1..m /\ first[1].length = 20 /\ 2 \in 1..m /\ first[2].length = 20
        BY <1>4, <2>1, <3>3
      <4>2. at[1 + 1] = 16 + 4 + 20 /\ at[2 + 1] = at[2] + 4 + 20
        BY <1>8, <4>1
      <4>3. QED
        BY <3>3, <4>2
    <3>4. QED
      BY <1>4, <3>1, <3>2, <3>3
  <2>3. n > 2 => whole.length <= 16 * length
    <3> SUFFICES ASSUME n > 2 PROVE whole.length <= 16 * length
      OBVIOUS
    <3>1. n = 3
      <4>1. n \in {1, 2, 3}
        BY <1>1 DEF n, multiples
      <4>2. QED
        BY <4>1
    <3>2. /\ record[n] = whole /\ \A k \in 0..n : IsRecord(record[k])
          /\ \A k \in 0..(n - 1) : \E b :
               MultipleStandsAt(record[k + 1], multiples[k + 1], b, record[k].length)
      BY <1>5 DEF RecordsAre, n, whole
    <3>3. /\ IsRecord(record[0]) /\ IsRecord(record[1]) /\ IsRecord(record[2])
          /\ IsRecord(record[3]) /\ record[3] = whole
          /\ IsFew(multiples[2]) /\ IsFew(multiples[3])
      <4>1. 0 \in 0..n /\ 1 \in 0..n /\ 2 \in 0..n /\ 3 \in 0..n /\ 2 \in 1..n /\ 3 \in 1..n
        BY <3>1
      <4>2. \A k \in 1..n : IsFew(multiples[k])
        BY <1>1 DEF n, multiples
      <4>3. QED
        BY <3>1, <3>2, <4>1, <4>2
    <3>4. /\ \E b : MultipleStandsAt(record[2], multiples[2], b, record[1].length)
          /\ \E b : MultipleStandsAt(record[3], multiples[3], b, record[2].length)
      <4>1. 1 \in 0..(n - 1) /\ 2 \in 0..(n - 1) /\ 1 + 1 = 2 /\ 2 + 1 = 3
        BY <3>1
      <4>2. QED
        BY <3>2, <4>1
    <3>5. record[2].length <= record[1].length + 88 /\ record[3].length <= record[2].length + 88
      BY <3>3, <3>4, FewAreShort
    <3>6. record[1].length = at[m + 1]
      <4>1. PICK b : MultipleStandsAt(record[1], first, b, record[0].length)
        <5>1. 0 \in 0..(n - 1) /\ 0 + 1 = 1
          BY <3>1
        <5>2. QED
          BY <3>2, <5>1 DEF first
      <4>2. record[0].length = 0
        BY <1>5 DEF RecordsAre, NoRecord
      <4>3. /\ 0 \in DOMAIN record[1].headers
            /\ record[1].headers[0] = [kind |-> "multiple", length |-> record[1].length - 0 - 4]
        BY <4>1, <4>2 DEF MultipleStandsAt
      <4>4. GoesOn(record[1], whole)
        <5>1. 1 \in 0..n
          BY <3>1
        <5>2. QED
          BY <1>5, <5>1 DEF RecordsAre, n, whole
      <4>5. length = record[1].length - 0 - 4
        BY <4>3, <4>4 DEF GoesOn, length
      <4>6. record[1].length \in Nat
        BY <3>3 DEF IsRecord
      <4> DEFINE one == record[1].length
      <4> HIDE DEF one
      <4>7. one \in Nat /\ length = one - 0 - 4
        BY <4>5, <4>6 DEF one
      <4>8. at[m + 1] = one
        BY <1>8, <4>7
      <4>9. QED
        BY <4>8 DEF one
    <3> DEFINE one == record[1].length
               two == record[2].length
               three == record[3].length
    <3>7. one \in Nat /\ two \in Nat /\ three \in Nat
      BY <3>3 DEF IsRecord
    <3>8. one = 16 + 24 * m /\ length = 12 + 24 * m /\ two <= one + 88 /\ three <= two + 88
      BY <1>4, <1>8, <2>2, <3>5, <3>6
    <3> HIDE DEF one, two, three
    <3>9. three <= 16 * length
      BY <1>4, <3>7, <3>8
    <3>10. QED
      BY <3>3, <3>9 DEF three
  <2>4. n \in {1, 2, 3}
    BY <1>1 DEF n, multiples
  <2>5. CASE n = 2
    BY <1>7, <2>1, <2>5
  <2>6. CASE n = 1
    BY <1>7, <2>1, <2>6
  <2>7. CASE n = 3
    <3>1. found.result = Stray
      BY <1>7, <2>1, <2>3, <2>7
    <3>2. QED
      BY <2>7, <3>1
  <2>8. QED
    BY <2>4, <2>5, <2>6, <2>7
<1>10. ASSUME here # {}
       PROVE  /\ found.result = "found" /\ found.bh = 16 + 24 * (Min(here) - 1)
              /\ found.bh \in Nat
  <2> DEFINE i == Min(here)
  <2>1. i \in 1..m /\ first[i].kind = "interface" /\ \A j \in here : i <= j
    <3>1. here \subseteq {1, 2} /\ \E x \in here : \A y \in here : x <= y
      BY <1>4, <1>10
    <3>2. i \in here /\ \A j \in here : i <= j
      BY <3>1 DEF Min
    <3>3. QED
      BY <1>4, <3>2
  <2> HIDE DEF i
  <2>2. \A j \in 1..m : j < i => first[j].kind # "interface"
    <3>1. ASSUME NEW j \in 1..m, j < i, first[j].kind = "interface" PROVE FALSE
      <4>1. j \in here
        BY <1>4, <3>1
      <4>2. i <= j /\ i \in Nat /\ j \in Nat
        BY <1>4, <2>1, <4>1
      <4>3. QED
        BY <3>1, <4>2
    <3>2. QED
      BY <3>1
  <2>3. found.result = "found" /\ found.bh = at[i]
    BY <1>7, <2>1, <2>2
  <2>4. i \in {1, 2}
    BY <1>4, <2>1
  <2>5. at[i] = 16 + 24 * (i - 1)
    <3>1. CASE i = 1
      BY <1>8, <3>1
    <3>2. CASE i = 2
      <4>1. 1 \in 1..m /\ 1 < i
        BY <1>4, <2>1, <3>2
      <4>2. first[1].length = 20 /\ at[1 + 1] = at[1] + 4 + first[1].length
        BY <1>4, <1>8, <2>2, <4>1
      <4>3. QED
        BY <1>8, <3>2, <4>2
    <3>3. QED
      BY <2>4, <3>1, <3>2
  <2>6. 16 + 24 * (i - 1) \in Nat
    BY <2>4
  <2>7. QED
    BY <2>3, <2>5, <2>6 DEF i
<1> HIDE DEF here
<1>11. here # {} =>
         LET aligned == found.bh + 4 * ((7 + input.name + 3) \div 4) IN
         InterfaceFields(found.bh, input.name) =
           [nameOfStation |-> found.bh + 7, deviceMACaddress |-> aligned,
            subnetmask |-> aligned + 12, defaultGateway |-> aligned + 16]
  BY <1>1, <1>10, FieldsAreAligned
<1>12. IF here = {} THEN found.result = IF n = 2 THEN "none" ELSE Stray
       ELSE /\ found.result = "found" /\ found.bh = 16 + 24 * (Min(here) - 1)
            /\ LET aligned == found.bh + 4 * ((7 + input.name + 3) \div 4) IN
               InterfaceFields(found.bh, input.name) =
                 [nameOfStation |-> found.bh + 7, deviceMACaddress |-> aligned,
                  subnetmask |-> aligned + 12, defaultGateway |-> aligned + 16]
  BY <1>9, <1>10, <1>11
<1>13. QED
  BY <1>12, Zenon DEF InterfaceRight, here, found, whole, n, first, multiples

-----------------------------------------------------------------------------
(* The records of Algorithms.                                               *)

LEMMA BytesAre ==
  ASSUME NEW n \in Nat, NEW bytes \in [1..n -> Byte]
  PROVE  Sized(bytes, n)
  BY DEF Sized

LEMMA CopiesAre ==
  ASSUME NEW byte \in Byte, NEW n \in Nat
  PROVE  /\ Sized(Copies(byte, n), n) /\ DOMAIN Copies(byte, n) = 1..n
         /\ \A i \in 1..n : Copies(byte, n)[i] = byte
<1>1. Copies(byte, n) \in [1..n -> Byte]
  BY DEF Copies
<1>2. Sized(Copies(byte, n), n)
  BY <1>1, BytesAre
<1>3. QED
  BY <1>2 DEF Copies

\* The bytes of a peer whose port ID has j bytes and whose chassis ID has n.
PeerStands(peer, j, n, port) ==
  LET end == 2 + j + n
  IN  Sized(peer, (end + Padding(end)) + 12) /\ Stands(peer, 1, port)

LEMMA PeerIsLaid ==
  ASSUME NEW j \in Byte, NEW port, Sized(port, j), NEW n \in Byte, NEW chassis, Sized(chassis, n),
         NEW mac, Sized(mac, 6)
  PROVE  PeerStands(PeerBytes(port, chassis, mac), j, n, port)
<1> DEFINE end == 2 + j + n
           o == end + Padding(end)
<1>1. /\ Sized(PeerBytes(port, chassis, mac), o + 12)
      /\ Stands(PeerBytes(port, chassis, mac), 1, port)
  BY PeerBytesRead
<1>2. QED
  BY <1>1, Zenon DEF PeerStands, o, end

LEMMA MacIs ==
  ASSUME NEW n \in {1, 2}
  PROVE  Sized(Mac(n), 6)
<1>1. \A i \in 1..6 : 16 * n + i \in Byte
  BY DEF Byte
<1>2. Mac(n) \in [1..6 -> Byte]
  BY <1>1 DEF Mac
<1>3. QED
  BY <1>2, 6 \in Nat, BytesAre

\* What Algorithms says of each of its records of a port.
LEMMA PortsRight ==
  ASSUME input \in PortInputs
  PROVE  PortRight
<1> DEFINE own == Copies(111, input.own)
           port == Copies(112, input.peer)
           chassis == Copies(99, input.chassis)
           first == PeerBytes(port, chassis, Mac(1))
           second == PeerBytes(port, chassis, Mac(2))
           none == <<>>
           mau == <<5, 6>>
           state == <<7, 8>>
           peers == CASE input.peers = 0 -> none
                      [] input.peers = 1 -> first
                      [] input.peers = 2 -> first \o second
           record == PortBytes(own, input.peers, peers, mau, state)
           read == PortData(record)
           one(bytes) == IF input.peers = 0 THEN none ELSE bytes
           right == [ownPortID |-> own, peerPortID |-> one(port),
                     peerChassisID |-> one(chassis), peerMacAddress |-> one(Mac(1)),
                     MAUType |-> IF input.peers = 0 THEN <<6, 5>> ELSE mau,
                     portState |-> state]
<1>1. /\ input.own \in {7, 8, 9, 14} /\ input.peers \in {0, 1, 2}
      /\ input.peer \in {7, 8, 14}
      /\ input.chassis \in Nat /\ input.chassis <= 9
  BY DEF PortInputs
<1>2. /\ input.own \in Byte /\ input.own \in Nat /\ input.peers \in Byte
      /\ input.peer \in Byte /\ input.peer \in Nat /\ input.chassis \in Byte
      /\ 111 \in Byte /\ 112 \in Byte /\ 99 \in Byte
  BY <1>1 DEF Byte
<1>3. /\ Sized(own, input.own) /\ \A i \in 1..input.own : own[i] = 111
      /\ Sized(port, input.peer) /\ DOMAIN port = 1..input.peer
      /\ \A i \in 1..input.peer : port[i] = 112
      /\ Sized(chassis, input.chassis) /\ DOMAIN chassis = 1..input.chassis
  BY <1>1, <1>2, CopiesAre
<1>4. Sized(mau, 2) /\ Sized(state, 2) /\ Reverse(mau) = <<6, 5>>
  <2>1. mau \in Seq(Byte) /\ state \in Seq(Byte) /\ Len(mau) = 2 /\ Len(state) = 2
    BY DEF Byte
  <2>2. Reverse(mau) = <<6, 5>>
    BY DEF Reverse
  <2>3. QED
    BY <2>1, <2>2 DEF Sized
<1>5. Sized(none, 0) /\ DOMAIN none = {}
  BY DEF Sized
<1> DEFINE end == 2 + input.peer + input.chassis
           o == end + Padding(end)
<1> HIDE DEF own, port, chassis, mau, state, none
<1>6. /\ Sized(first, o + 12) /\ Stands(first, 1, port) /\ Sized(second, o + 12)
  <2>1. Sized(Mac(1), 6) /\ Sized(Mac(2), 6)
    BY MacIs
  <2>2. /\ PeerStands(PeerBytes(port, chassis, Mac(1)), input.peer, input.chassis, port)
        /\ PeerStands(PeerBytes(port, chassis, Mac(2)), input.peer, input.chassis, port)
    BY <1>2, <1>3, <2>1, PeerIsLaid
  <2>3. QED
    BY <2>2, Zenon DEF PeerStands, first, second, o, end
<1> HIDE DEF first, second, o
<1>7. \E m : /\ Sized(peers, m) /\ (input.peers > 0 => Stands(peers, 1, port))
  <2>1. CASE input.peers = 0
    <3>1. peers = none /\ ~(input.peers > 0)
      BY <2>1
    <3>2. QED
      BY <1>5, <3>1
  <2>2. CASE input.peers = 1
    <3>1. peers = first
      BY <2>2
    <3>2. QED
      BY <1>6, <3>1
  <2>3. CASE input.peers = 2
    <3>1. peers = first \o second
      BY <2>3
    <3> HIDE DEF peers
    <3>2. Sized(first \o second, (o + 12) + (o + 12))
      BY <1>6, Appended
    <3>3. Laid(first, o + 12, And({}, 1, port))
      BY <1>6 DEF Laid, And
    <3>4. Laid(first \o second, (o + 12) + (o + 12), And({}, 1, port))
      BY <1>6, <3>3, StillLaid
    <3>5. Stands(first \o second, 1, port)
      BY <3>4 DEF Laid, And
    <3>6. QED
      BY <3>1, <3>2, <3>5
  <2>4. QED
    BY <1>1, <2>1, <2>2, <2>3
<1> HIDE DEF peers
<1>8. PICK m : Sized(peers, m) /\ (input.peers > 0 => Stands(peers, 1, port))
  BY <1>7
<1>9. ASSUME input.own = 8, input.peers < 2, input.peers = 1 => input.peer = 8
      PROVE  read = right
  <2>1. CASE input.peers = 0
    <3>1. /\ peers = none /\ Sized(own, 8)
          /\ Sized(Copies(112, 8), 8) /\ Sized(Mac(1), 6)
      BY <1>2, <1>3, <1>9, <2>1, CopiesAre, MacIs DEF peers
    <3>2. PortData(PortBytes(own, 0, <<>>, mau, state)) =
            [ownPortID |-> own, peerPortID |-> <<>>, peerChassisID |-> <<>>,
             peerMacAddress |-> <<>>, MAUType |-> Reverse(mau), portState |-> state]
      BY <1>2, <1>3, <1>4, <3>1, PortIsRead
    <3>3. right = [ownPortID |-> own, peerPortID |-> <<>>, peerChassisID |-> <<>>,
                   peerMacAddress |-> <<>>, MAUType |-> <<6, 5>>, portState |-> state]
      BY <2>1 DEF none
    <3>4. QED
      BY <1>4, <2>1, <3>1, <3>2, <3>3 DEF none
  <2>2. CASE input.peers = 1
    <3>1. peers = first /\ Sized(own, 8) /\ Sized(port, 8) /\ Sized(Mac(1), 6)
      BY <1>3, <1>9, <2>2, MacIs DEF peers
    <3>2. PortData(PortBytes(own, 1, PeerBytes(port, chassis, Mac(1)), mau, state)) =
            [ownPortID |-> own, peerPortID |-> port, peerChassisID |-> chassis,
             peerMacAddress |-> Mac(1), MAUType |-> mau, portState |-> state]
      BY <1>2, <1>3, <1>4, <3>1, PortIsRead
    <3>3. right = [ownPortID |-> own, peerPortID |-> port, peerChassisID |-> chassis,
                   peerMacAddress |-> Mac(1), MAUType |-> mau, portState |-> state]
      BY <2>2
    <3>4. QED
      BY <2>2, <3>1, <3>2, <3>3 DEF first
  <2>3. QED
    BY <1>1, <1>9, <2>1, <2>2
<1>10. /\ input.own >= 12 /\ own[9] # 0 => DOMAIN read.peerPortID = 1..own[12]
       /\ input.own = 7 => read.peerPortID = <<>>
       /\ \A j \in Byte : \A p :
            (/\ Sized(p, j) /\ Stands(peers, 1, p) /\ j > 8
             /\ (input.own = 8 /\ input.peers # 0) \/ (input.own \in {9, 10} /\ own[9] # 0))
            => DOMAIN read.peerChassisID = 1..p[9]
  <2>1. OtherIDsMisread(read, input.own, own, input.peers, peers)
    <3> HIDE DEF read
    <3>1. read = PortData(PortBytes(own, input.peers, peers, mau, state))
      BY Zenon DEF read, record
    <3>2. OtherIDsMisread(PortData(PortBytes(own, input.peers, peers, mau, state)),
                          input.own, own, input.peers, peers)
      BY <1>2, <1>3, <1>4, <1>8, OtherIDsAreMisread
    <3>3. QED
      BY <3>1, <3>2
  <2> HIDE DEF read
  <2>2. QED
    BY <2>1, Zenon DEF OtherIDsMisread
<1>11. /\ DOMAIN right.peerPortID = IF input.peers = 0 THEN {} ELSE 1..input.peer
       /\ DOMAIN right.peerChassisID = IF input.peers = 0 THEN {} ELSE 1..input.chassis
  BY <1>1, <1>3, <1>5
<1> HIDE DEF read, right
<1>12. ASSUME input.own > 10 PROVE read # right
  <2>1. input.own = 14
    BY <1>1, <1>12
  <2>2. own[9] = 111 /\ own[12] = 111
    BY <1>3, <2>1
  <2>3. DOMAIN read.peerPortID = 1..111
    BY <1>10, <2>1, <2>2
  <2>4. 111 \notin DOMAIN right.peerPortID
    BY <1>1, <1>11
  <2>5. 111 \in DOMAIN read.peerPortID
    BY <2>3
  <2>6. QED
    BY <2>4, <2>5
<1>13. ASSUME input.peers > 0, input.peer > 8, input.own <= 10 PROVE read # right
  <2>1. input.peer = 14 /\ input.peers # 0 /\ input.own \in {7, 8, 9}
    BY <1>1, <1>13
  <2>2. CASE input.own = 7
    <3>1. read.peerPortID = <<>>
      BY <1>10, <2>2
    <3>2. 1 \notin DOMAIN read.peerPortID
      BY <3>1
    <3>3. 1 \in DOMAIN right.peerPortID
      BY <1>11, <2>1
    <3>4. QED
      BY <3>2, <3>3
  <2>3. CASE input.own \in {8, 9}
    <3>1. Stands(peers, 1, port) /\ Sized(port, 14) /\ 14 \in Byte /\ 14 > 8 /\ port[9] = 112
      BY <1>2, <1>3, <1>8, <1>13, <2>1
    <3>2. input.own = 9 => own[9] = 111
      BY <1>3
    <3>3. (input.own = 8 /\ input.peers # 0) \/ (input.own \in {9, 10} /\ own[9] # 0)
      BY <2>1, <2>3, <3>2
    <3>4. DOMAIN read.peerChassisID = 1..port[9]
      <4>1. \A p : (/\ Sized(p, 14) /\ Stands(peers, 1, p) /\ 14 > 8
                    /\ (input.own = 8 /\ input.peers # 0)
                         \/ (input.own \in {9, 10} /\ own[9] # 0))
                   => DOMAIN read.peerChassisID = 1..p[9]
        BY <1>10, <3>1, Zenon
      <4>2. QED
        BY <3>1, <3>3, <4>1, Zenon
    <3>5. 112 \in DOMAIN read.peerChassisID
      BY <3>1, <3>4
    <3>6. 112 \notin DOMAIN right.peerChassisID
      BY <1>1, <1>11, <2>1
    <3>7. QED
      BY <3>5, <3>6
  <2>4. QED
    BY <2>1, <2>2, <2>3
<1>14. /\ input.own = 8 /\ input.peers < 2 /\ (input.peers = 1 => input.peer = 8)
            => read = right
       /\ input.own > 10 \/ (input.peers > 0 /\ input.peer > 8) => read # right
  <2>1. input.own > 10 \/ input.own <= 10
    BY <1>1
  <2>2. QED
    BY <1>9, <1>12, <1>13, <2>1
<1>15. PortData(PortRecord(input)) = read
  BY Zenon DEF PortRecord, read, record, peers, first, second, none, own, port, chassis, mau, state
<1>16. QED
  BY <1>14, <1>15, Zenon DEF PortRight, right, own, port, chassis, mau, state, none

(***************************************************************************)
(* The records are read right for just the devices that the code is made    *)
(* for, with the inputs of Algorithms (packetCapture.c:1048-1281).          *)
(***************************************************************************)
THEOREM RecordsRight == Spec => []RecordsRead
<1> DEFINE RecordInput == /\ algorithm = "interface" => input \in InterfaceInputs
                          /\ algorithm = "port" => input \in PortInputs
<1>1. Init => RecordInput
  BY DEF Init
<1>2. RecordInput /\ [Next]_vars => RecordInput'
  BY DEF Next, vars
<1>3. RecordInput => RecordsRead
  BY InterfacesRight, PortsRight DEF RecordsRead
<1>4. QED
  BY <1>1, <1>2, <1>3, PTL DEF Spec

-----------------------------------------------------------------------------
(* The blocks of a DCP answer.                                             *)

BlockLoop == INSTANCE LeftFold WITH Step <- NextRound, Base <- StartOfBlocks

\* The first n blocks of a packet stand at these offsets, one behind the other and
\* within its data, and nothing ends the walk there.
GotOver(packet, at, n) ==
  /\ n \in Nat /\ at[1] \in Nat /\ at[1] = PndcpOffset(packet) + 12
  /\ \A k \in 1..n :
       /\ at[k] \in Nat /\ at[k] - at[1] < packet.dataLength
       /\ HeaderAt(packet, at[k]) /\ ~Nameless(packet.blocks[at[k]])
       /\ packet.blocks[at[k]].length \in Nat
       /\ at[k + 1] = at[k] + 4 + RoundedUp(packet.blocks[at[k]].length)

\* The value is of the last among the first n blocks that are of the kind.
LastSets(value, kind, packet, at, n) ==
  \/ value = Unset /\ \A k \in 1..n : packet.blocks[at[k]].kind # kind
  \/ \E k \in 1..n : /\ packet.blocks[at[k]].kind = kind
                     /\ value = ValueAt(packet, at[k])
                     /\ \A j \in 1..n : j > k => packet.blocks[at[j]].kind # kind

SheetIs(sheet, packet, at, n) ==
  DOMAIN sheet = Fields /\ \A f \in Fields : LastSets(sheet[f], f, packet, at, n)

\* Just the first n blocks have been read.
Walked(walk, packet, at, n) ==
  /\ walk = [count |-> at[n + 1] - at[1], sheet |-> walk.sheet, result |-> "walking"]
  /\ SheetIs(walk.sheet, packet, at, n)

LEMMA RoundedUpIs ==
  ASSUME NEW length \in Nat
  PROVE  /\ RoundedUp(length) \in Nat
         /\ length < 65535 => RoundedUp(length) = 2 * ((length + 1) \div 2)
         /\ length = 65535 => RoundedUp(length) = 0
  BY SMT DEF RoundedUp

LEMMA OffsetsAscend ==
  ASSUME NEW packet, NEW n, NEW at, GotOver(packet, at, n)
  PROVE  /\ \A k \in 1..(n + 1) : at[k] \in Nat
         /\ \A j, k \in 1..(n + 1) : j < k => at[j] < at[k]
<1>1. ASSUME NEW k \in 1..n
      PROVE  at[k] \in Nat /\ at[k + 1] \in Nat /\ at[k + 1] > at[k]
  <2> DEFINE size == RoundedUp(packet.blocks[at[k]].length)
  <2>1. at[k] \in Nat /\ at[k + 1] = at[k] + 4 + size /\ size \in Nat
    BY RoundedUpIs DEF GotOver
  <2> HIDE DEF size
  <2>2. QED
    BY <2>1
<1>2. n \in Nat /\ at[1] \in Nat
  BY DEF GotOver
<1>3. QED
  BY <1>1, <1>2, Ascends

\* One round.
LEMMA NextIsWalked ==
  ASSUME NEW packet, NEW n, NEW at, GotOver(packet, at, n), NEW m \in Nat, m < n,
         NEW walk, Walked(walk, packet, at, m)
  PROVE  Walked(NextRound(walk, packet), packet, at, m + 1)
<1> DEFINE next == NextRound(walk, packet)
           here == at[m + 1]
           block == packet.blocks[here]
<1>1. /\ m + 1 \in 1..n /\ (m + 1) + 1 = m + 2
      /\ \A i \in 1..(m + 1) : i \in 1..m \/ i = m + 1
      /\ \A i \in 1..m : i \in 1..(m + 1) /\ ~(i > m + 1) /\ m + 1 > i
      /\ m + 1 \in 1..(m + 1) /\ ~(m + 1 > m + 1)
  BY DEF GotOver
<1>2. /\ HeaderAt(packet, here) /\ ~Nameless(block) /\ here - at[1] < packet.dataLength
      /\ at[m + 2] = here + 4 + RoundedUp(block.length) /\ RoundedUp(block.length) \in Nat
      /\ here \in Nat /\ at[1] \in Nat /\ at[1] = PndcpOffset(packet) + 12
  BY <1>1, RoundedUpIs DEF GotOver
<1> DEFINE old == walk.sheet
<1>3. /\ walk = [count |-> here - at[1], sheet |-> old, result |-> "walking"]
      /\ walk.count = here - at[1] /\ walk.result = "walking"
  <2>1. walk = [count |-> here - at[1], sheet |-> old, result |-> "walking"]
    BY DEF Walked
  <2> HIDE DEF old, here
  <2>2. QED
    BY <2>1
<1>4. PndcpOffset(packet) + 12 + walk.count = here
  <2> DEFINE first == at[1]
             offset == PndcpOffset(packet) + 12
  <2>1. offset + walk.count = first + (here - first)
    BY <1>2, <1>3
  <2>2. first \in Nat /\ here \in Nat
    BY <1>2
  <2> HIDE DEF first, here, offset
  <2>3. offset + walk.count = here
    BY <2>1, <2>2
  <2>4. QED
    BY <2>3 DEF offset
<1>5. next = NextBlock(packet, walk)
  BY <1>2, <1>3 DEF NextRound
<1>6. NextBlock(packet, walk)
        = [walk EXCEPT !.count = @ + 4 + RoundedUp(block.length),
                       !.sheet = [f \in Fields |-> IF f = block.kind
                                                   THEN ValueAt(packet, here)
                                                   ELSE walk.sheet[f]]]
  BY <1>2, <1>4 DEF NextBlock
<1> DEFINE sheet == [f \in Fields |-> IF f = block.kind THEN ValueAt(packet, here)
                                      ELSE walk.sheet[f]]
           count == walk.count + 4 + RoundedUp(block.length)
<1>7. next = [count |-> count, sheet |-> sheet, result |-> "walking"]
  <2>1. next = [walk EXCEPT !.count = count, !.sheet = sheet]
    BY <1>5, <1>6
  <2> HIDE DEF next, count, sheet, here, old
  <2>2. QED
    BY <1>3, <2>1
<1>8. count = at[(m + 1) + 1] - at[1]
  <2> DEFINE size == RoundedUp(block.length)
             first == at[1]
             there == at[m + 2]
  <2>1. count = here - first + 4 + size /\ there = here + 4 + size
    BY <1>2, <1>3
  <2>2. here \in Nat /\ first \in Nat /\ size \in Nat
    BY <1>2
  <2> HIDE DEF size, here, first, there, count
  <2>3. count = there - first
    BY <2>1, <2>2
  <2>4. QED
    BY <1>1, <2>3 DEF there, first
<1>9. SheetIs(walk.sheet, packet, at, m)
  BY DEF Walked
<1>10. ASSUME NEW f \in Fields PROVE LastSets(sheet[f], f, packet, at, m + 1)
  <2>1. CASE block.kind = f
    <3>1. sheet[f] = ValueAt(packet, here)
      BY <2>1
    <3>2. \A j \in 1..(m + 1) : ~(j > m + 1)
      BY <1>1
    <3> HIDE DEF sheet
    <3>3. QED
      BY <1>1, <2>1, <3>1, <3>2 DEF LastSets
  <2>2. CASE block.kind # f
    <3>1. sheet[f] = walk.sheet[f]
      BY <2>2
    <3> HIDE DEF sheet
    <3>2. LastSets(walk.sheet[f], f, packet, at, m)
      BY <1>9 DEF SheetIs
    <3>3. CASE walk.sheet[f] = Unset /\ \A i \in 1..m : packet.blocks[at[i]].kind # f
      BY <1>1, <2>2, <3>1, <3>3 DEF LastSets
    <3>4. CASE \E i \in 1..m :
                 /\ packet.blocks[at[i]].kind = f /\ walk.sheet[f] = ValueAt(packet, at[i])
                 /\ \A j \in 1..m : j > i => packet.blocks[at[j]].kind # f
      <4>1. PICK i \in 1..m :
              /\ packet.blocks[at[i]].kind = f /\ walk.sheet[f] = ValueAt(packet, at[i])
              /\ \A j \in 1..m : j > i => packet.blocks[at[j]].kind # f
        BY <3>4
      <4>2. i \in 1..(m + 1)
            /\ \A j \in 1..(m + 1) : j > i => packet.blocks[at[j]].kind # f
        BY <1>1, <2>2, <4>1
      <4>3. QED
        BY <3>1, <4>1, <4>2 DEF LastSets
    <3>5. QED
      BY <3>2, <3>3, <3>4 DEF LastSets
  <2>3. QED
    BY <2>1, <2>2
<1>11. SheetIs(sheet, packet, at, m + 1)
  <2>1. DOMAIN sheet = Fields
    OBVIOUS
  <2> HIDE DEF sheet
  <2>2. QED
    BY <1>10, <2>1 DEF SheetIs
<1> HIDE DEF next, sheet, count
<1>12. next.sheet = sheet
  BY <1>7
<1>13. QED
  BY <1>7, <1>8, <1>11, <1>12, Zenon DEF Walked, next

\* Behind these blocks the walk looks at what stands there, and ends when that
\* ends it.
LEMMA AnswerArrives ==
  ASSUME NEW packet, IsFiniteSet(DOMAIN packet.blocks), NEW n, NEW at,
         GotOver(packet, at, n)
  PROVE  \E walk : /\ Walked(walk, packet, at, n)
                   /\ NextRound(walk, packet).result # "walking"
                        => WalkBlocks(packet) = NextRound(walk, packet)
<1> DEFINE total == Cardinality(DOMAIN packet.blocks) + 1
           rounds == [round \in 1..total |-> packet]
<1>1. /\ n \in Nat /\ at[1] \in Nat
      /\ \A k \in 1..n : at[k] \in DOMAIN packet.blocks
  BY DEF GotOver, HeaderAt
<1>2. /\ \A k \in 1..(n + 1) : at[k] \in Nat
      /\ \A j, k \in 1..(n + 1) : j < k => at[j] < at[k]
  BY OffsetsAscend
<1>3. total \in Nat /\ n + 1 <= total
  <2> DEFINE f == [k \in 1..n |-> at[k]]
  <2>1. f \in Injection(1..n, DOMAIN packet.blocks)
    <3>1. \A j, k \in 1..n : at[j] \in Nat /\ at[k] \in Nat /\ (j < k => at[j] < at[k])
      BY <1>1, <1>2
    <3>2. \A j, k \in 1..n : f[j] = f[k] => j = k
      BY <1>1, <3>1
    <3>3. f \in [1..n -> DOMAIN packet.blocks]
      BY <1>1
    <3>4. QED
      BY <3>2, <3>3 DEF Injection, IsInjective
  <2>2. Cardinality(1..n) = n
    BY <1>1, FS_Interval
  <2>3. Cardinality(1..n) <= Cardinality(DOMAIN packet.blocks)
    BY <2>1, FS_Injection
  <2>4. Cardinality(DOMAIN packet.blocks) \in Nat
    BY FS_CardinalityType
  <2>5. QED
    BY <1>1, <2>2, <2>3, <2>4
<1> HIDE DEF total
<1>4. rounds \in Seq({packet}) /\ Len(rounds) = total /\ \A k \in 1..total : rounds[k] = packet
  BY <1>3
<1>5. WalkBlocks(packet) = BlockLoop!Folded(rounds)
  BY DEF WalkBlocks, BlockLoop!Folded, BlockLoop!FoldedFrom, FoldLeft,
         BlockLoop!FoldLeft, MapThenFoldSet, BlockLoop!MapThenFoldSet, Max,
         BlockLoop!Max, total
<1> HIDE DEF rounds
<1>6. PICK state :
        /\ state[0] = StartOfBlocks
        /\ \A k \in 0..(Len(rounds) - 1) : state[k + 1] = NextRound(state[k], rounds[k + 1])
        /\ BlockLoop!Folded(rounds) = state[Len(rounds)]
  BY <1>4, BlockLoop!FoldSteps
<1>7. /\ \A k \in 0..(total - 1) : state[k + 1] = NextRound(state[k], packet)
      /\ WalkBlocks(packet) = state[total]
  <2>1. \A k \in 0..(total - 1) : k + 1 \in 1..total
    BY <1>3
  <2>2. QED
    BY <1>4, <1>5, <1>6, <2>1
<1>8. Walked(state[0], packet, at, 0)
  <2>1. StartOfBlocks = [count |-> 0, sheet |-> [f \in Fields |-> Unset],
                         result |-> "walking"]
    BY DEF StartOfBlocks
  <2> DEFINE sheet == [f \in Fields |-> Unset]
  <2>2. DOMAIN sheet = Fields /\ \A f \in Fields : sheet[f] = Unset
    OBVIOUS
  <2> HIDE DEF sheet
  <2>3. SheetIs(sheet, packet, at, 0)
    BY <2>2 DEF SheetIs, LastSets
  <2>4. at[0 + 1] - at[1] = 0
    BY <1>1
  <2>5. state[0] = [count |-> 0, sheet |-> sheet, result |-> "walking"]
    BY <1>6, <2>1 DEF sheet
  <2>6. state[0].sheet = sheet
    BY <2>5
  <2>7. QED
    BY <2>3, <2>4, <2>5, <2>6, Zenon DEF Walked
<1> DEFINE S == {k \in Nat : k <= n => Walked(state[k], packet, at, k)}
<1>9. 0 \in S
  BY <1>8
<1>10. ASSUME NEW k \in 0..(n - 1), k \in S PROVE k + 1 \in S
  <2>1. k \in Nat /\ k < n /\ k <= n /\ k + 1 \in Nat /\ k \in 0..(total - 1)
    BY <1>1, <1>3
  <2>2. Walked(state[k], packet, at, k)
    BY <1>10, <2>1, Zenon
  <2>3. Walked(NextRound(state[k], packet), packet, at, k + 1)
    BY <2>1, <2>2, NextIsWalked
  <2>4. QED
    BY <1>7, <2>1, <2>3
<1>11. n \in S
  <2> HIDE DEF S
  <2>1. QED
    BY <1>1, <1>9, <1>10, BlockLoop!Induction
<1>12. Walked(state[n], packet, at, n)
  BY <1>1, <1>11
<1> HIDE DEF S
<1> DEFINE end == NextRound(state[n], packet)
<1>13. ASSUME end.result # "walking" PROVE state[total] = end
  <2> DEFINE T == {d \in Nat : n + 1 + d <= total => state[n + 1 + d] = end}
             rest == total - (n + 1)
  <2>1. rest \in Nat /\ n + 1 + rest = total
    BY <1>1, <1>3
  <2>2. 0 \in T
    <3>1. n \in 0..(total - 1) /\ n + 1 + 0 = n + 1
      BY <1>1, <1>3
    <3>2. state[n + 1] = end
      BY <1>7, <3>1
    <3> HIDE DEF end
    <3>3. QED
      BY <3>1, <3>2
  <2>3. ASSUME NEW d \in 0..(rest - 1), d \in T PROVE d + 1 \in T
    <3>1. /\ d \in Nat /\ d + 1 \in Nat /\ n + 1 + d \in 0..(total - 1)
          /\ n + 1 + d <= total /\ (n + 1 + d) + 1 = n + 1 + (d + 1)
      BY <1>1, <2>1
    <3>2. state[n + 1 + d] = end
      BY <2>3, <3>1
    <3>3. state[(n + 1 + d) + 1] = NextRound(end, packet)
      BY <1>7, <3>1, <3>2
    <3> HIDE DEF end
    <3>4. NextRound(end, packet) = end
      BY <1>13 DEF NextRound
    <3>5. QED
      BY <3>1, <3>3, <3>4
  <2> HIDE DEF T, rest
  <2>4. rest \in T
    BY <2>1, <2>2, <2>3, BlockLoop!Induction
  <2>5. total <= total
    BY <1>3
  <2> HIDE DEF end
  <2>6. QED
    BY <2>1, <2>4, <2>5 DEF T
<1>14. QED
  BY <1>7, <1>12, <1>13

(***************************************************************************)
(* Of any packet, however many blocks of whatever lengths the walk gets     *)
(* over.  When they are all of the data, the device is listed, and a field   *)
(* has what was captured of the last block with that field.  When the next  *)
(* header was not captured, or none stands there, the code goes on with     *)
(* bytes that are not the answer's; at a name without BlockInfo it leaves,    *)
(* and the device is not listed (packetCapture.c:97-251).                    *)
(***************************************************************************)
THEOREM AnswerIsRead ==
  ASSUME NEW packet, IsFiniteSet(DOMAIN packet.blocks), packet.dataLength \in Nat,
         NEW n, NEW at, GotOver(packet, at, n)
  PROVE  LET walk == WalkBlocks(packet)
             more == at[n + 1] - at[1] < packet.dataLength
         IN  /\ ~more => /\ walk.result = "listed"
                         /\ SheetIs(walk.sheet, packet, at, n)
             /\ more /\ ~HeaderAt(packet, at[n + 1]) => walk.result = Torn
             /\ (/\ more /\ HeaderAt(packet, at[n + 1])
                 /\ Nameless(packet.blocks[at[n + 1]])) => walk.result = "left"
<1>1. PICK walk : /\ Walked(walk, packet, at, n)
                  /\ NextRound(walk, packet).result # "walking"
                       => WalkBlocks(packet) = NextRound(walk, packet)
  BY AnswerArrives
<1> DEFINE here == at[n + 1]
           more == here - at[1] < packet.dataLength
           end == NextRound(walk, packet)
           sheet == walk.sheet
           count == here - at[1]
<1>2. /\ walk = [count |-> count, sheet |-> sheet, result |-> "walking"]
      /\ SheetIs(sheet, packet, at, n)
  BY <1>1 DEF Walked
<1>3. here \in Nat /\ at[1] \in Nat /\ at[1] = PndcpOffset(packet) + 12
  <2>1. n + 1 \in 1..(n + 1)
    BY DEF GotOver
  <2>2. QED
    BY <2>1, OffsetsAscend DEF GotOver
<1>4. PndcpOffset(packet) + 12 + count = here
  <2> DEFINE first == at[1]
             offset == PndcpOffset(packet) + 12
  <2>1. offset + count = first + (here - first) /\ first \in Nat /\ here \in Nat
    BY <1>3
  <2> HIDE DEF first, here, offset, count
  <2>2. offset + count = here
    BY <2>1
  <2>3. QED
    BY <2>2 DEF offset
<1> HIDE DEF sheet, count
<1>5. walk.count = count /\ walk.result = "walking"
  BY <1>2
<1>6. \A result : /\ [walk EXCEPT !.result = result].result = result
                  /\ [walk EXCEPT !.result = result].sheet = sheet
  BY <1>2
<1>7. more <=> walk.count < packet.dataLength
  BY <1>5 DEF count
<1> HIDE DEF here, more
<1>8. ASSUME ~more PROVE end = [walk EXCEPT !.result = "listed"]
  BY <1>5, <1>7, <1>8 DEF NextRound
<1>9. ASSUME more PROVE end = NextBlock(packet, walk)
  BY <1>5, <1>7, <1>9 DEF NextRound
<1>10. ASSUME more, ~HeaderAt(packet, here) PROVE end = [walk EXCEPT !.result = Torn]
  BY <1>4, <1>5, <1>9, <1>10 DEF NextBlock
<1>11. ASSUME more, HeaderAt(packet, here), Nameless(packet.blocks[here])
       PROVE  end = [walk EXCEPT !.result = "left"]
  BY <1>4, <1>5, <1>9, <1>11 DEF NextBlock
<1>12. Torn # "walking" /\ "left" # "walking" /\ "listed" # "walking"
  BY TornAssumption
<1> HIDE DEF end
<1>13. end.result # "walking" => WalkBlocks(packet) = end
  BY <1>1 DEF end
<1>14. ASSUME ~more
       PROVE  /\ WalkBlocks(packet).result = "listed"
              /\ SheetIs(WalkBlocks(packet).sheet, packet, at, n)
  <2>1. end.result = "listed" /\ end.sheet = sheet
    BY <1>6, <1>8, <1>14
  <2>2. QED
    BY <1>2, <1>12, <1>13, <2>1
<1>15. ASSUME more, ~HeaderAt(packet, here) PROVE WalkBlocks(packet).result = Torn
  BY <1>6, <1>10, <1>12, <1>13, <1>15
<1>16. ASSUME more, HeaderAt(packet, here), Nameless(packet.blocks[here])
       PROVE  WalkBlocks(packet).result = "left"
  BY <1>6, <1>11, <1>12, <1>13, <1>16
<1>17. QED
  BY <1>14, <1>15, <1>16, Zenon DEF more, here

-----------------------------------------------------------------------------
(* Packets with VLAN tags.                                                 *)

\* A set of numbers up to n that has 0 has a greatest one.
LEMMA GreatestExists ==
  ASSUME NEW P, P \subseteq Nat, 0 \in P, NEW n \in Nat, \A p \in P : p <= n
  PROVE  Max(P) \in P /\ \A p \in P : p <= Max(P)
<1> DEFINE Greatest(m, k) == m \in P /\ \A p \in P : p <= k => p <= m
           S == {k \in Nat : \E m \in P : Greatest(m, k)}
<1>1. 0 \in S
  BY 0 \in Nat
<1>2. ASSUME NEW k \in 0..(n - 1), k \in S PROVE k + 1 \in S
  <2>1. PICK m \in P : Greatest(m, k)
    BY <1>2
  <2>2. k \in Nat /\ k + 1 \in Nat
    OBVIOUS
  <2>3. CASE k + 1 \in P
    <3>1. Greatest(k + 1, k + 1)
      BY <2>3
    <3>2. QED
      BY <2>2, <2>3, <3>1
  <2>4. CASE k + 1 \notin P
    <3>1. \A p \in P : p <= k + 1 => p <= k
      <4>1. ASSUME NEW p \in P, p <= k + 1 PROVE p <= k
        <5>1. p \in Nat /\ p # k + 1
          BY <2>4
        <5>2. QED
          BY <2>2, <4>1, <5>1
      <4>2. QED
        BY <4>1
    <3>2. Greatest(m, k + 1)
      BY <2>1, <3>1
    <3>3. QED
      BY <2>2, <3>2
  <2>5. QED
    BY <2>3, <2>4
<1> HIDE DEF S
<1>3. n \in S
  BY <1>1, <1>2, BlockLoop!Induction
<1>4. PICK m \in P : Greatest(m, n)
  BY <1>3 DEF S
<1>5. \A p \in P : p <= m
  BY <1>4
<1>6. QED
  BY <1>5 DEF Max

\* The types of a packet: any number of tags, and what it carries.
Tagged(types, type) ==
  /\ type \notin Tags
  /\ \E tags \in Seq(Tags) : types = Append(tags, type)

LEMMA TaggedIs ==
  ASSUME NEW types, NEW type, Tagged(types, type)
  PROVE  /\ Len(types) \in Nat /\ Len(types) > 0 /\ types[Len(types)] = type
         /\ Last(types) = type /\ type \notin Tags
         /\ \A i \in 1..(Len(types) - 1) : types[i] \in Tags
<1>1. PICK tags \in Seq(Tags) : types = Append(tags, type)
  BY DEF Tagged
<1>2. /\ Len(types) = Len(tags) + 1 /\ types[Len(tags) + 1] = type
      /\ \A i \in 1..Len(tags) : types[i] = tags[i] /\ tags[i] \in Tags
  <2>1. /\ Append(tags, type)[Len(tags) + 1] = type
        /\ Len(Append(tags, type)) = Len(tags) + 1
        /\ \A i \in 1..Len(tags) : Append(tags, type)[i] = tags[i]
    OBVIOUS
  <2>2. \A i \in 1..Len(tags) : tags[i] \in Tags
    OBVIOUS
  <2>3. QED
    BY <1>1, <2>1, <2>2
<1>3. Len(tags) \in Nat
  OBVIOUS
<1>4. (Len(tags) + 1) - 1 = Len(tags) /\ Len(tags) + 1 > 0 /\ Len(tags) + 1 \in Nat
  BY <1>3
<1>5. QED
  BY <1>2, <1>4 DEF Last, Tagged

(***************************************************************************)
(* The DCP header is found behind any number of VLAN tags, when the packet  *)
(* carries PROFINET and its whole header has been captured, and not         *)
(* otherwise (packetCapture.c:24-74).                                       *)
(***************************************************************************)
THEOREM HeaderIsFound ==
  ASSUME NEW packet, packet.caplen \in Int, NEW type, Tagged(packet.types, type)
  PROVE  LET header == 14 + 4 * (Len(packet.types) - 1) IN
         /\ header \in Nat
         /\ PndcpOffset(packet)
              = IF type = PROFINET /\ packet.caplen >= header + 12 THEN header ELSE -1
<1> DEFINE n == Len(packet.types) - 1
           header == 14 + 4 * n
           passed == {k \in 0..n : \A i \in 1..k : packet.types[i] \in Tags
                                                   /\ packet.caplen >= 14 + 4 * i}
           payload == PayloadOffset(packet)
           caplen == packet.caplen
<1>1. /\ n \in Nat /\ packet.types[n + 1] = type /\ type \notin Tags
      /\ \A i \in 1..n : packet.types[i] \in Tags
  <2>1. Len(packet.types) \in Nat /\ Len(packet.types) > 0
    BY TaggedIs
  <2>2. n \in Nat /\ n + 1 = Len(packet.types)
    BY <2>1
  <2>3. QED
    BY <2>2, TaggedIs
<1>2. /\ payload.type = packet.types[Max(passed) + 1]
      /\ payload.offset = 14 + 4 * Max(passed)
  BY DEF PayloadOffset
<1>3. PndcpOffset(packet)
        = IF caplen < 14 \/ payload.type # PROFINET \/ caplen < payload.offset + 12
          THEN -1 ELSE payload.offset
  BY DEF PndcpOffset
<1>4. caplen \in Int
  OBVIOUS
<1> HIDE DEF n, payload, caplen
<1>5. /\ passed \subseteq Nat /\ 0 \in passed /\ \A k \in passed : k <= n
  BY <1>1
<1>6. Max(passed) \in passed /\ \A k \in passed : k <= Max(passed)
  BY <1>1, <1>5, GreatestExists
<1>7. header \in Nat /\ header >= 14
  BY <1>1
<1>8. CASE caplen >= header
  <2>1. \A i \in 1..n : caplen >= 14 + 4 * i
    BY <1>1, <1>4, <1>8
  <2>2. n \in passed
    BY <1>1, <2>1 DEF caplen
  <2>3. Max(passed) = n
    <3> HIDE DEF passed
    <3>1. Max(passed) \in Nat /\ Max(passed) <= n /\ n <= Max(passed)
      BY <1>5, <1>6, <2>2
    <3>2. QED
      BY <1>1, <3>1
  <2> HIDE DEF passed
  <2>4. payload.type = type /\ payload.offset = header
    BY <1>1, <1>2, <2>3
  <2> HIDE DEF header
  <2>5. ~(caplen < 14) /\ (caplen < header + 12 <=> ~(caplen >= header + 12))
    BY <1>4, <1>7, <1>8
  <2>6. PndcpOffset(packet)
          = IF type = PROFINET /\ caplen >= header + 12 THEN header ELSE -1
    BY <1>3, <2>4, <2>5
  <2>7. QED
    BY <1>7, <2>6 DEF header, n, caplen
<1>9. CASE ~(caplen >= header)
  <2>1. ~(type = PROFINET /\ caplen >= header + 12)
    BY <1>4, <1>7, <1>9
  <2>2. CASE n = 0
    <3>1. caplen < 14
      BY <1>4, <1>9, <2>2
    <3>2. QED
      BY <1>3, <1>7, <2>1, <3>1 DEF n, caplen
  <2>3. CASE n # 0
    <3>1. n \in 1..n
      BY <1>1, <2>3
    <3>2. n \notin passed
      BY <1>9, <3>1 DEF caplen
    <3> DEFINE m == Max(passed)
    <3>3. m \in Nat /\ m <= n /\ m # n
      BY <1>5, <1>6, <3>2
    <3> HIDE DEF passed, m
    <3>4. m + 1 \in 1..n
      BY <1>1, <3>3
    <3>5. payload.type \in Tags
      BY <1>1, <1>2, <3>4 DEF m
    <3>6. PROFINET \notin Tags
      BY SMT DEF PROFINET, Tags
    <3>7. QED
      BY <1>3, <1>7, <2>1, <3>5, <3>6 DEF n, caplen
  <2>4. QED
    BY <2>2, <2>3
<1>10. QED
  BY <1>8, <1>9

-----------------------------------------------------------------------------
(* The answers of Algorithms.                                              *)

OffsetLoop == INSTANCE LeftFold WITH Step <- AddBlock, Base <- 0

\* What the prefixes of the blocks take.
SizeOf(blocks, i) == FoldLeft(AddBlock, 0, SubSeq(blocks, 1, i))

\* A block behind its header, with the padding.
RoomOf(length) == 2 * ((length + 1) \div 2)

LEMMA SizesAre ==
  ASSUME NEW R, NEW blocks \in Seq(R), \A i \in DOMAIN blocks : blocks[i].length \in Nat,
         NEW n \in Nat, n <= Len(blocks)
  PROVE  /\ SizeOf(blocks, 0) = 0 /\ SizeOf(blocks, n) \in Nat
         /\ n < Len(blocks) =>
              SizeOf(blocks, n + 1)
                = SizeOf(blocks, n) + 4 + RoomOf(blocks[n + 1].length)
<1>1. \A i \in Nat : SizeOf(blocks, i) = OffsetLoop!Folded(SubSeq(blocks, 1, i))
  BY DEF SizeOf, OffsetLoop!Folded, OffsetLoop!FoldedFrom, FoldLeft,
         OffsetLoop!FoldLeft, MapThenFoldSet,
         OffsetLoop!MapThenFoldSet, Max, OffsetLoop!Max
<1>2. SizeOf(blocks, 0) = 0
  <2>1. SubSeq(blocks, 1, 0) \in Seq(R) /\ Len(SubSeq(blocks, 1, 0)) = 0
    OBVIOUS
  <2>2. OffsetLoop!Folded(SubSeq(blocks, 1, 0)) = 0
    BY <2>1, OffsetLoop!FoldSteps
  <2>3. QED
    BY <1>1, <2>2, 0 \in Nat
<1>3. ASSUME NEW i \in Nat, i < Len(blocks)
      PROVE  /\ SizeOf(blocks, i + 1) = AddBlock(SizeOf(blocks, i), blocks[i + 1])
             /\ i + 1 \in DOMAIN blocks /\ i + 1 \in Nat
  <2>1. i + 1 \in DOMAIN blocks /\ i + 1 \in Nat
    BY <1>3
  <2>2. OffsetLoop!Folded(SubSeq(blocks, 1, i + 1))
          = AddBlock(OffsetLoop!Folded(SubSeq(blocks, 1, i)), blocks[i + 1])
    BY <1>3, OffsetLoop!FoldOfPrefix
  <2>3. QED
    BY <1>1, <2>1, <2>2
<1>4. ASSUME NEW i \in Nat, i < Len(blocks)
      PROVE  /\ SizeOf(blocks, i + 1)
                  = SizeOf(blocks, i) + 4 + RoomOf(blocks[i + 1].length)
             /\ RoomOf(blocks[i + 1].length) \in Nat
  <2> DEFINE length == blocks[i + 1].length
  <2>1. length \in Nat /\ SizeOf(blocks, i + 1) = SizeOf(blocks, i) + 4 + RoomOf(length)
    BY <1>3, <1>4 DEF AddBlock, RoomOf
  <2> HIDE DEF length
  <2>2. RoomOf(length) \in Nat
    BY <2>1 DEF RoomOf
  <2>3. QED
    BY <2>1, <2>2 DEF length
<1> DEFINE S == {k \in Nat : SizeOf(blocks, k) \in Nat}
<1>5. 0 \in S
  BY <1>2
<1>6. ASSUME NEW k \in 0..(n - 1), k \in S PROVE k + 1 \in S
  <2>1. k \in Nat /\ k < Len(blocks) /\ k + 1 \in Nat
    OBVIOUS
  <2> DEFINE size == SizeOf(blocks, k)
             more == RoomOf(blocks[k + 1].length)
  <2>2. SizeOf(blocks, k + 1) = size + 4 + more /\ more \in Nat /\ size \in Nat
    BY <1>4, <1>6, <2>1
  <2> HIDE DEF size, more
  <2>3. SizeOf(blocks, k + 1) \in Nat
    BY <2>2
  <2>4. QED
    BY <2>1, <2>3
<1> HIDE DEF S
<1>7. n \in S
  BY <1>5, <1>6, OffsetLoop!Induction
<1>8. SizeOf(blocks, n) \in Nat
  BY <1>7 DEF S
<1>9. QED
  BY <1>2, <1>4, <1>8

\* The data has a length of sixteen bits, which counts the blocks up to one that
\* claims the greatest length.
Counted(in, i) ==
  /\ in.blocks[i].length \in {n \in Nat : n <= 65535}
  /\ (\A j \in 1..(i - 1) : in.blocks[j].length # 65535)
       => StartOf(in, i) - StartOf(in, 1) <= 65530

\* Any answer: its blocks, its tags, and how much of it was captured.
IsAnswer(in, type) ==
  /\ \E R : in.blocks \in Seq(R)
  /\ \A i \in DOMAIN in.blocks : Counted(in, i)
  /\ Tagged(in.types, type) /\ in.caplen \in Nat

Starts(in) == [i \in 1..(Len(in.blocks) + 1) |-> StartOf(in, i)]

LEMMA StartsAre ==
  ASSUME NEW in, NEW type, IsAnswer(in, type)
  PROVE  /\ HeaderOf(in) \in Nat /\ Len(in.blocks) \in Nat
         /\ DOMAIN in.blocks = 1..Len(in.blocks)
         /\ StartOf(in, 1) = HeaderOf(in) + 12
         /\ \A i \in 1..(Len(in.blocks) + 1) : StartOf(in, i) \in Nat
         /\ \A i \in 1..Len(in.blocks) :
              /\ in.blocks[i].length \in Nat /\ in.blocks[i].length <= 65535
              /\ RoomOf(in.blocks[i].length) \in Nat
              /\ StartOf(in, i + 1)
                   = StartOf(in, i) + 4 + RoomOf(in.blocks[i].length)
         /\ \A i, j \in 1..(Len(in.blocks) + 1) : i < j => StartOf(in, i) < StartOf(in, j)
<1> DEFINE n == Len(in.blocks)
           h == HeaderOf(in)
           length(i) == RoomOf(in.blocks[i].length)
<1>1. PICK R : in.blocks \in Seq(R)
  BY DEF IsAnswer
<1>2. n \in Nat /\ DOMAIN in.blocks = 1..n
  BY <1>1
<1>3. h \in Nat
  <2>1. Len(in.types) \in Nat /\ Len(in.types) > 0
    BY TaggedIs DEF IsAnswer
  <2>2. QED
    BY <2>1 DEF HeaderOf
<1>4. ASSUME NEW i \in 1..n
      PROVE  /\ in.blocks[i].length \in Nat /\ in.blocks[i].length <= 65535
             /\ length(i) \in Nat
  <2> DEFINE l == in.blocks[i].length
  <2>1. l \in Nat /\ l <= 65535
    BY <1>2 DEF IsAnswer, Counted
  <2> HIDE DEF l
  <2>2. RoomOf(l) \in Nat
    BY <2>1 DEF RoomOf
  <2>3. QED
    BY <2>1, <2>2 DEF l
<1>5. \A i \in Nat : StartOf(in, i) = h + 12 + SizeOf(in.blocks, i - 1)
  BY DEF StartOf, SizeOf
<1> HIDE DEF h, length
<1>6. \A k \in Nat : k <= n =>
        /\ SizeOf(in.blocks, 0) = 0 /\ SizeOf(in.blocks, k) \in Nat
        /\ k < n => SizeOf(in.blocks, k + 1) = SizeOf(in.blocks, k) + 4 + length(k + 1)
  <2>1. \A i \in DOMAIN in.blocks : in.blocks[i].length \in Nat
    BY <1>2, <1>4
  <2>2. QED
    BY <1>1, <2>1, SizesAre DEF length
<1> HIDE DEF n
<1>7. StartOf(in, 1) = h + 12
  <2>1. 1 - 1 = 0 /\ 1 \in Nat /\ 0 \in Nat /\ 0 <= n
    BY <1>2
  <2>2. StartOf(in, 1) = h + 12 + 0
    BY <1>5, <1>6, <2>1
  <2>3. QED
    BY <1>3, <2>2
<1>8. ASSUME NEW i \in 1..(n + 1) PROVE StartOf(in, i) \in Nat
  <2>1. i \in Nat /\ i - 1 \in Nat /\ i - 1 <= n
    BY <1>2
  <2>2. SizeOf(in.blocks, i - 1) \in Nat
    BY <1>6, <2>1
  <2>3. QED
    BY <1>3, <1>5, <2>1, <2>2
<1>9. ASSUME NEW i \in 1..n
      PROVE  StartOf(in, i + 1) = StartOf(in, i) + 4 + length(i)
  <2>1. /\ i \in Nat /\ i - 1 \in Nat /\ i - 1 <= n /\ i - 1 < n /\ (i - 1) + 1 = i
        /\ (i + 1) - 1 = i /\ i + 1 \in Nat
    BY <1>2
  <2> DEFINE before == SizeOf(in.blocks, i - 1)
             after  == SizeOf(in.blocks, i)
             size   == length(i)
  <2>2. before \in Nat /\ after = before + 4 + size /\ size \in Nat
    BY <1>4, <1>6, <2>1
  <2>3. StartOf(in, i) = h + 12 + before /\ StartOf(in, i + 1) = h + 12 + after
    BY <1>5, <2>1
  <2> HIDE DEF before, after, size
  <2>4. StartOf(in, i + 1) = StartOf(in, i) + 4 + size
    BY <1>3, <2>2, <2>3
  <2>5. QED
    BY <2>4 DEF size
<1>10. \A i, j \in 1..(n + 1) : i < j => StartOf(in, i) < StartOf(in, j)
  <2> DEFINE at == Starts(in)
  <2>1. \A i \in 1..(n + 1) : at[i] = StartOf(in, i)
    BY DEF Starts, n
  <2>2. ASSUME NEW i \in 1..n
        PROVE  at[i] \in Nat /\ at[i + 1] \in Nat /\ at[i + 1] > at[i]
    <3>1. i \in 1..(n + 1) /\ i + 1 \in 1..(n + 1)
      BY <1>2
    <3> DEFINE here == StartOf(in, i)
               there == StartOf(in, i + 1)
               size == length(i)
    <3>2. there = here + 4 + size /\ here \in Nat /\ size \in Nat
      BY <1>4, <1>8, <1>9, <3>1
    <3> HIDE DEF here, there, size
    <3>3. there \in Nat /\ there > here
      BY <3>2
    <3>4. at[i] = here /\ at[i + 1] = there
      BY <2>1, <3>1 DEF here, there
    <3>5. QED
      BY <3>2, <3>3, <3>4
  <2>3. at[1] \in Nat
    <3>1. 1 \in 1..(n + 1)
      BY <1>2
    <3>2. QED
      BY <1>8, <2>1, <3>1
  <2> HIDE DEF at
  <2>4. \A j, k \in 1..(n + 1) : j < k => at[j] < at[k]
    BY <1>2, <2>2, <2>3, Ascends
  <2>5. QED
    BY <2>1, <2>4
<1>11. QED
  BY <1>2, <1>3, <1>4, <1>7, <1>8, <1>9, <1>10 DEF n, h, length

\* The packet has the blocks at their starts.
HasBlocks(packet, in, n) ==
  /\ IsFiniteSet(DOMAIN packet.blocks)
  /\ DOMAIN packet.blocks = {StartOf(in, i) : i \in 1..n}
  /\ \A i \in 1..n :
       packet.blocks[StartOf(in, i)]
         = [kind |-> in.blocks[i].kind, length |-> in.blocks[i].length, value |-> i]

ClaimsData(packet, total) ==
  /\ total \in Nat /\ packet.dataLength \in Nat
  /\ packet.dataLength = IF total <= 65535 THEN total ELSE 65535

LEMMA PacketIs ==
  ASSUME NEW in, NEW type, IsAnswer(in, type)
  PROVE  /\ PacketOf(in).types = in.types /\ PacketOf(in).service = in.service
         /\ PacketOf(in).caplen = in.caplen
         /\ HasBlocks(PacketOf(in), in, Len(in.blocks))
         /\ ClaimsData(PacketOf(in),
                       StartOf(in, Len(in.blocks) + 1) - StartOf(in, 1))
<1> DEFINE n == Len(in.blocks)
           packet == PacketOf(in)
           At(offset) == CHOOSE i \in DOMAIN in.blocks : StartOf(in, i) = offset
           first == StartOf(in, 1)
           last == StartOf(in, n + 1)
           total == last - first
           h == HeaderOf(in)
<1>1. /\ n \in Nat /\ DOMAIN in.blocks = 1..n /\ first = h + 12 /\ h \in Nat
      /\ \A i \in 1..(n + 1) : StartOf(in, i) \in Nat
      /\ \A i, j \in 1..(n + 1) : i < j => StartOf(in, i) < StartOf(in, j)
  BY StartsAre
<1>2. /\ packet.types = in.types /\ packet.service = in.service
      /\ packet.caplen = in.caplen
      /\ packet.dataLength = IF last - h - 12 <= 65535 THEN last - h - 12 ELSE 65535
      /\ packet.blocks = [offset \in {StartOf(in, i) : i \in DOMAIN in.blocks} |->
           [kind |-> in.blocks[At(offset)].kind, length |-> in.blocks[At(offset)].length,
            value |-> At(offset)]]
  BY DEF PacketOf
<1> HIDE DEF packet, n
<1>3. DOMAIN packet.blocks = {StartOf(in, i) : i \in 1..n}
  BY <1>1, <1>2
<1>4. IsFiniteSet(DOMAIN packet.blocks)
  <2>1. IsFiniteSet(1..n)
    BY <1>1, FS_Interval
  <2> DEFINE starts == {StartOf(in, i) : i \in 1..n}
             f == [i \in 1..n |-> StartOf(in, i)]
  <2>2. f \in Surjection(1..n, starts)
    BY DEF Surjection
  <2> HIDE DEF starts, f
  <2>3. IsFiniteSet(starts)
    BY <2>1, <2>2, FS_Surjection
  <2>4. QED
    BY <1>3, <2>3 DEF starts
<1>5. ASSUME NEW i \in 1..n, NEW j \in 1..n, StartOf(in, i) = StartOf(in, j)
      PROVE  i = j
  <2>1. i < j \/ j < i \/ i = j
    BY <1>1
  <2>2. i \in 1..(n + 1) /\ j \in 1..(n + 1)
    BY <1>1
  <2>3. StartOf(in, i) \in Nat /\ StartOf(in, j) \in Nat
    BY <1>1, <2>2
  <2>4. ~(StartOf(in, i) < StartOf(in, j)) /\ ~(StartOf(in, j) < StartOf(in, i))
    BY <1>5, <2>3
  <2>5. QED
    BY <1>1, <2>1, <2>2, <2>4
<1>6. ASSUME NEW i \in 1..n
      PROVE  packet.blocks[StartOf(in, i)]
               = [kind |-> in.blocks[i].kind, length |-> in.blocks[i].length, value |-> i]
  <2>1. i \in DOMAIN in.blocks
    BY <1>1
  <2>2. At(StartOf(in, i)) \in DOMAIN in.blocks
        /\ StartOf(in, At(StartOf(in, i))) = StartOf(in, i)
    BY <2>1
  <2> HIDE DEF At
  <2>3. At(StartOf(in, i)) = i
    BY <1>1, <1>5, <2>2
  <2>4. QED
    BY <1>2, <2>1, <2>3
<1>7. /\ total \in Nat /\ packet.dataLength \in Nat
      /\ packet.dataLength = IF total <= 65535 THEN total ELSE 65535
  <2>1. 1 \in 1..(n + 1) /\ n + 1 \in 1..(n + 1) /\ (1 < n + 1 \/ n = 0)
    BY <1>1
  <2>2. first \in Nat /\ last \in Nat /\ (first < last \/ n = 0)
    BY <1>1, <2>1
  <2>3. n = 0 => first = last
    BY <1>1
  <2> HIDE DEF first, last, h
  <2>4. last - h - 12 = total /\ total \in Nat
    BY <1>1, <2>2, <2>3
  <2> HIDE DEF total
  <2>5. packet.dataLength = IF total <= 65535 THEN total ELSE 65535
    BY <1>2, <2>4
  <2>6. QED
    BY <2>4, <2>5
<1>8. packet.types = in.types /\ packet.service = in.service /\ packet.caplen = in.caplen
  BY <1>2
<1>9. HasBlocks(packet, in, n)
  BY <1>3, <1>4, <1>6, Zenon DEF HasBlocks
<1>10. ClaimsData(packet, total)
  <2> HIDE DEF total
  <2>1. QED
    BY <1>7 DEF ClaimsData
<1>11. QED
  BY <1>8, <1>9, <1>10, Zenon DEF packet, n

\* Up to the first block that ends the walk, or claims the greatest length, all
\* stand within the data.
LEMMA BlocksGotOver ==
  ASSUME NEW in, NEW type, IsAnswer(in, type),
         PndcpOffset(PacketOf(in)) = HeaderOf(in),
         NEW m \in Nat, m <= Len(in.blocks), \A i \in 1..m : WalkedOver(in, i)
  PROVE  /\ GotOver(PacketOf(in), Starts(in), m)
         /\ m < Len(in.blocks) =>
              /\ StartOf(in, m + 1) - StartOf(in, 1) < PacketOf(in).dataLength
              /\ StartOf(in, m + 1) - StartOf(in, 1) <= 65530
<1> DEFINE n == Len(in.blocks)
           packet == PacketOf(in)
           at == Starts(in)
           first == StartOf(in, 1)
           last == StartOf(in, n + 1)
<1>1. /\ n \in Nat /\ DOMAIN in.blocks = 1..n /\ first = HeaderOf(in) + 12
      /\ HeaderOf(in) \in Nat
      /\ \A i \in 1..(n + 1) : StartOf(in, i) \in Nat
      /\ \A i, j \in 1..(n + 1) : i < j => StartOf(in, i) < StartOf(in, j)
  BY StartsAre
<1>2. \A i \in 1..n :
        /\ in.blocks[i].length \in Nat /\ in.blocks[i].length <= 65535
        /\ StartOf(in, i + 1) = StartOf(in, i) + 4 + RoomOf(in.blocks[i].length)
  BY StartsAre
<1>3. packet.caplen = in.caplen /\ HasBlocks(packet, in, n) /\ ClaimsData(packet, last - first)
  BY PacketIs
<1>4. \A i \in 1..(n + 1) : at[i] = StartOf(in, i)
  BY DEF Starts
<1> HIDE DEF packet, at, n, first, last
<1>5. ASSUME NEW i \in 1..n, \A j \in 1..(i - 1) : in.blocks[j].length # 65535
      PROVE  StartOf(in, i) - first < packet.dataLength /\ StartOf(in, i) - first <= 65530
  <2>1. i \in 1..(n + 1) /\ n + 1 \in 1..(n + 1) /\ i < n + 1 /\ 1 \in 1..(n + 1)
    BY <1>1
  <2> DEFINE here == StartOf(in, i)
             length == packet.dataLength
  <2>2. here - first <= 65530
    <3>1. i \in DOMAIN in.blocks
      BY <1>1
    <3>2. Counted(in, i)
      BY <3>1 DEF IsAnswer
    <3>3. QED
      BY <1>5, <3>2 DEF Counted, first
  <2>3. here \in Nat /\ first \in Nat /\ last \in Nat /\ here < last
    BY <1>1, <2>1 DEF first, last
  <2>4. length = IF last - first <= 65535 THEN last - first ELSE 65535
    BY <1>3 DEF ClaimsData
  <2> HIDE DEF here, length
  <2>5. here - first < length
    BY <2>2, <2>3, <2>4
  <2>6. QED
    BY <2>2, <2>5 DEF here, length
<1>6. \A i \in 1..m : /\ Captured(in, i) /\ in.blocks[i].length # 65535
                      /\ in.blocks[i].kind \in Names => in.blocks[i].length # 0
  BY DEF WalkedOver
<1>7. m <= n
  BY DEF n
<1>8. ASSUME NEW k \in 1..m
      PROVE  /\ at[k] \in Nat /\ at[k] - at[1] < packet.dataLength
             /\ HeaderAt(packet, at[k]) /\ ~Nameless(packet.blocks[at[k]])
             /\ packet.blocks[at[k]].length \in Nat
             /\ at[k + 1] = at[k] + 4 + RoundedUp(packet.blocks[at[k]].length)
  <2>1. /\ k \in 1..n /\ k \in 1..(n + 1) /\ k + 1 \in 1..(n + 1) /\ 1 \in 1..(n + 1)
        /\ \A j \in 1..(k - 1) : j \in 1..m
    BY <1>1, <1>7
  <2> DEFINE block == packet.blocks[at[k]]
             l == in.blocks[k].length
  <2>2. /\ at[k] = StartOf(in, k) /\ at[k + 1] = StartOf(in, k + 1) /\ at[1] = first
        /\ at[k] \in Nat
    BY <1>1, <1>4, <2>1 DEF first
  <2>3. /\ at[k] \in DOMAIN packet.blocks
        /\ block = [kind |-> in.blocks[k].kind, length |-> l, value |-> k]
    BY <1>3, <2>1, <2>2 DEF HasBlocks
  <2>4. block.kind = in.blocks[k].kind /\ block.length = l
    BY <2>3
  <2>5. /\ l \in Nat /\ l <= 65535 /\ l # 65535
        /\ in.blocks[k].kind \in Names => l # 0
        /\ at[k + 1] = at[k] + 4 + RoomOf(l)
    BY <1>2, <1>6, <2>1, <2>2
  <2>6. HeaderAt(packet, at[k])
    BY <1>3, <1>6, <2>2, <2>3 DEF HeaderAt, Captured
  <2>7. at[k] - at[1] < packet.dataLength
    BY <1>5, <1>6, <2>1, <2>2
  <2> HIDE DEF block, l, at
  <2>8. RoundedUp(l) = RoomOf(l) /\ (RoundedUp(l) = 0 => l = 0)
    <3>1. l < 65535
      BY <2>5
    <3>2. RoundedUp(l) = RoomOf(l)
      BY <2>5, <3>1, RoundedUpIs DEF RoomOf
    <3>3. 2 * ((l + 1) \div 2) = 0 => l = 0
      BY <2>5
    <3>4. QED
      BY <3>2, <3>3 DEF RoomOf
  <2>9. ~Nameless(block)
    BY <2>4, <2>5, <2>8 DEF Nameless
  <2>10. QED
    BY <2>2, <2>4, <2>5, <2>6, <2>7, <2>8, <2>9 DEF block
<1>9. at[1] \in Nat /\ at[1] = PndcpOffset(packet) + 12
  <2>1. 1 \in 1..(n + 1)
    BY <1>1
  <2>2. at[1] = HeaderOf(in) + 12
    BY <1>1, <1>4, <2>1 DEF first
  <2>3. QED
    BY <1>1, <2>2 DEF packet
<1>10. GotOver(packet, at, m)
  BY <1>8, <1>9 DEF GotOver
<1>11. ASSUME m < n
       PROVE  /\ StartOf(in, m + 1) - first < packet.dataLength
              /\ StartOf(in, m + 1) - first <= 65530
  <2>1. m + 1 \in 1..n /\ \A j \in 1..((m + 1) - 1) : j \in 1..m
    BY <1>1, <1>11
  <2>2. QED
    BY <1>5, <1>6, <2>1
<1>12. QED
  BY <1>10, <1>11 DEF packet, at, n, first

\* How the walk ends that has got over just so many blocks.
LEMMA AnswerEnds ==
  ASSUME NEW in, NEW type, IsAnswer(in, type),
         PndcpOffset(PacketOf(in)) = HeaderOf(in),
         NEW m \in Nat, m <= Len(in.blocks), \A i \in 1..m : WalkedOver(in, i),
         m < Len(in.blocks) => ~WalkedOver(in, m + 1)
  PROVE  LET walk == WalkBlocks(PacketOf(in)) IN
         IF m < Len(in.blocks)
         THEN walk.result = IF Captured(in, m + 1) /\ in.blocks[m + 1].kind \in Names
                            THEN "left" ELSE Torn
         ELSE walk.result = "listed" /\ SheetIs(walk.sheet, PacketOf(in), Starts(in), m)
<1> DEFINE n == Len(in.blocks)
           packet == PacketOf(in)
           at == Starts(in)
           next == m + 1
           here == StartOf(in, next)
           first == StartOf(in, 1)
           last == StartOf(in, n + 1)
           walk == WalkBlocks(packet)
<1>1. /\ n \in Nat
      /\ \A i \in 1..(n + 1) : StartOf(in, i) \in Nat
      /\ \A i, j \in 1..(n + 1) : i < j => StartOf(in, i) < StartOf(in, j)
  BY StartsAre
<1>2. /\ packet.caplen = in.caplen /\ HasBlocks(packet, in, n)
      /\ ClaimsData(packet, last - first)
  BY PacketIs
<1>3. IsFiniteSet(DOMAIN packet.blocks) /\ packet.dataLength \in Nat
  BY <1>2 DEF HasBlocks, ClaimsData
<1>4. \A i \in 1..(n + 1) : at[i] = StartOf(in, i)
  BY DEF Starts
<1>5. /\ GotOver(packet, at, m)
      /\ m < n => here - first < packet.dataLength /\ here - first <= 65530
  BY BlocksGotOver
<1>6. m \in Nat /\ m <= n /\ next \in 1..(n + 1) /\ 1 \in 1..(n + 1)
      /\ n + 1 \in 1..(n + 1)
  BY <1>1
<1>7. at[next] = here /\ at[1] = first /\ here \in Nat /\ first \in Nat /\ last \in Nat
  BY <1>1, <1>4, <1>6
<1>8. \A i \in 1..n : in.blocks[i].length \in Nat /\ in.blocks[i].length <= 65535
  BY StartsAre
<1>9. CASE m = n
  <2>1. ~(at[m + 1] - at[1] < packet.dataLength)
    <3> DEFINE total == last - first
               length == packet.dataLength
    <3>1. /\ length = IF total <= 65535 THEN total ELSE 65535
          /\ total \in Nat /\ at[m + 1] - at[1] = total
      BY <1>2, <1>7, <1>9 DEF ClaimsData
    <3> HIDE DEF total, length
    <3>2. ~(total < length)
      BY <3>1
    <3>3. QED
      BY <3>1, <3>2 DEF length
  <2> HIDE DEF packet, at
  <2>2. walk.result = "listed" /\ SheetIs(walk.sheet, packet, at, m)
    BY <1>3, <1>5, <2>1, AnswerIsRead
  <2>3. ~(m < n)
    BY <1>6, <1>9
  <2>4. QED
    BY <2>2, <2>3 DEF packet, at
<1>10. CASE m < n
  <2>1. /\ next \in 1..n /\ ~WalkedOver(in, next)
        /\ at[m + 1] - at[1] < packet.dataLength /\ here - first <= 65530
    BY <1>1, <1>5, <1>6, <1>7, <1>10
  <2> DEFINE block == packet.blocks[here]
             l == in.blocks[next].length
  <2>2. /\ here \in DOMAIN packet.blocks
        /\ block = [kind |-> in.blocks[next].kind, length |-> l, value |-> next]
    BY <1>2, <2>1 DEF HasBlocks
  <2>3. block.kind = in.blocks[next].kind /\ block.length = l /\ l \in Nat /\ l <= 65535
    BY <1>8, <2>1, <2>2
  <2>4. HeaderAt(packet, here) <=> Captured(in, next)
    BY <1>2, <2>2 DEF HeaderAt, Captured
  <2>5. /\ ~HeaderAt(packet, here) => walk.result = Torn
        /\ HeaderAt(packet, here) /\ Nameless(block) => walk.result = "left"
    <3> HIDE DEF packet, at
    <3>1. QED
      BY <1>3, <1>5, <1>7, <2>1, AnswerIsRead
  <2> HIDE DEF packet, at, block, l, here, next, first, walk
  <2>6. CASE ~Captured(in, next)
    <3>1. walk.result = Torn
      BY <2>4, <2>5, <2>6
    <3>2. QED
      BY <1>10, <2>6, <3>1 DEF n, next, walk, packet
  <2>7. CASE Captured(in, next) /\ in.blocks[next].kind \in Names
    <3>1. l = 0 \/ l = 65535
      BY <2>1, <2>7 DEF WalkedOver, l
    <3>2. RoundedUp(l) = 0
      BY <3>1, SMT DEF RoundedUp
    <3>3. walk.result = "left"
      BY <2>3, <2>4, <2>5, <2>7, <3>2 DEF Nameless
    <3>4. QED
      BY <1>10, <2>7, <3>3 DEF n, next, walk, packet
  <2>8. CASE Captured(in, next) /\ in.blocks[next].kind \notin Names
    <3>1. l = 65535
      BY <2>1, <2>8 DEF WalkedOver, l
    <3>2. RoundedUp(l) = 0 /\ RoomOf(l) = 65536
      BY <3>1, SMT DEF RoundedUp, RoomOf
    <3>3. HeaderAt(packet, here) /\ ~Nameless(block)
      BY <2>3, <2>4, <2>8 DEF Nameless
    \* The walk gets over it by four bytes, to where no block starts.
    <3> DEFINE there == here + 4
               up == [at EXCEPT ![next + 1] = there]
               beyond == StartOf(in, next + 1)
               total == last - first
    <3>4. /\ beyond = here + 4 + 65536 /\ beyond \in Nat /\ there \in Nat
          /\ next + 1 \in 1..(n + 1) /\ next \in 1..(n + 1) /\ next \in Nat
      <4>1. beyond = here + 4 + RoomOf(l)
        BY <2>1, StartsAre DEF n, here, l
      <4>2. next + 1 \in 1..(n + 1) /\ next \in 1..(n + 1) /\ next \in Nat
        BY <1>1, <2>1
      <4>3. QED
        BY <1>1, <1>7, <3>2, <4>1, <4>2
    <3>5. /\ \A k \in 1..next : up[k] = at[k]
          /\ up[next + 1] = there
      <4>1. DOMAIN at = 1..(n + 1)
        BY DEF at, Starts, n
      <4> HIDE DEF there
      <4>2. \A k \in 1..next : k # next + 1 /\ k \in DOMAIN at
        BY <3>4, <4>1, <1>1
      <4>3. QED
        BY <3>4, <4>1, <4>2
    <3> HIDE DEF up
    <3>6. GotOver(packet, up, next)
      <4>1. ASSUME NEW k \in 1..next
            PROVE  /\ up[k] \in Nat /\ up[k] - up[1] < packet.dataLength
                   /\ HeaderAt(packet, up[k]) /\ ~Nameless(packet.blocks[up[k]])
                   /\ packet.blocks[up[k]].length \in Nat
                   /\ up[k + 1] = up[k] + 4 + RoundedUp(packet.blocks[up[k]].length)
        <5>1. up[k] = at[k] /\ up[1] = at[1]
          BY <3>4, <3>5
        <5>2. CASE k = next
          <6>1. up[k] = here /\ up[k + 1] = there /\ packet.blocks[up[k]] = block
            BY <1>7, <3>5, <5>1, <5>2 DEF block
          <6>2. up[k] - up[1] < packet.dataLength
            BY <2>1, <5>1, <5>2 DEF next
          <6>3. there = here + 4 + RoundedUp(block.length)
            BY <1>7, <2>3, <3>2
          <6>4. QED
            BY <1>7, <2>3, <3>3, <6>1, <6>2, <6>3
        <5>3. CASE k # next
          <6>1. k \in 1..m /\ k + 1 \in 1..next
            BY <3>4, <5>3 DEF next
          <6>2. up[k + 1] = at[k + 1]
            BY <3>5, <6>1
          <6>3. QED
            BY <1>5, <5>1, <6>1, <6>2 DEF GotOver
        <5>4. QED
          BY <5>2, <5>3
      <4>2. up[1] \in Nat /\ up[1] = PndcpOffset(packet) + 12
        BY <1>5, <3>4, <3>5 DEF GotOver
      <4>3. QED
        BY <3>4, <4>1, <4>2 DEF GotOver
    <3>7. up[next + 1] - up[1] < packet.dataLength
      <4> DEFINE length == packet.dataLength
      <4>1. length = IF total <= 65535 THEN total ELSE 65535
        BY <1>2 DEF ClaimsData
      <4>2. beyond <= last
        <5>1. next + 1 = n + 1 \/ next + 1 < n + 1
          BY <1>1, <3>4
        <5>2. last = StartOf(in, n + 1) /\ n + 1 \in 1..(n + 1)
          BY <1>6
        <5> HIDE DEF last
        <5>3. beyond = last \/ beyond < last
          BY <1>1, <3>4, <5>1, <5>2
        <5>4. QED
          BY <1>7, <3>4, <5>3
      <4>3. up[next + 1] = here + 4 /\ up[1] = first
        BY <1>7, <3>4, <3>5
      <4> HIDE DEF length, last, beyond
      <4>4. here + 4 - first < length
        BY <1>7, <2>1, <3>4, <4>1, <4>2
      <4>5. QED
        BY <1>7, <4>3, <4>4 DEF length
    <3>8. ~HeaderAt(packet, up[next + 1])
      <4>1. ASSUME NEW i \in 1..n PROVE StartOf(in, i) # there
        <5>1. i \in 1..(n + 1) /\ (i = next \/ i < next \/ i = next + 1 \/ next + 1 < i)
          BY <1>1, <3>4
        <5>2. StartOf(in, i) = here \/ StartOf(in, i) < here \/ StartOf(in, i) = beyond
              \/ StartOf(in, i) > beyond
          <6>1. i < next => StartOf(in, i) < here
            BY <1>1, <3>4, <5>1 DEF here
          <6>2. next + 1 < i => beyond < StartOf(in, i)
            BY <1>1, <3>4, <5>1
          <6>3. StartOf(in, i) \in Nat
            BY <1>1, <5>1
          <6> DEFINE that == StartOf(in, i)
          <6>4. i = next => that = here
            BY DEF here
          <6>5. i = next + 1 => that = beyond
            OBVIOUS
          <6> HIDE DEF that, beyond
          <6>6. that = here \/ that < here \/ that = beyond \/ that > beyond
            BY <3>4, <5>1, <6>1, <6>2, <6>3, <6>4, <6>5 DEF that
          <6>7. QED
            BY <6>6 DEF that, beyond
        <5>3. StartOf(in, i) \in Nat
          BY <1>1, <5>1
        <5> DEFINE that == StartOf(in, i)
        <5> HIDE DEF that, beyond
        <5>4. that # there
          BY <1>7, <3>4, <5>2, <5>3 DEF that
        <5>5. QED
          BY <5>4 DEF that
      <4>2. there \notin DOMAIN packet.blocks
        BY <1>2, <4>1 DEF HasBlocks
      <4>3. QED
        BY <3>5, <4>2 DEF HeaderAt
    <3>9. walk.result = Torn
      BY <1>3, <3>4, <3>6, <3>7, <3>8, AnswerIsRead DEF walk
    <3>10. QED
      BY <1>10, <2>8, <3>9 DEF n, next, walk, packet
  <2>9. QED
    BY <2>6, <2>7, <2>8
<1>11. QED
  BY <1>6, <1>9, <1>10

\* What the walk makes of a block that it gets over.
LEMMA ValueIs ==
  ASSUME NEW in, NEW type, IsAnswer(in, type), NEW i \in 1..Len(in.blocks),
         WalkedOver(in, i), in.blocks[i].kind \in Fields
  PROVE  ValueAt(PacketOf(in), StartOf(in, i)) = IF Carried(in, i) THEN i ELSE Torn
<1> DEFINE n == Len(in.blocks)
           packet == PacketOf(in)
           here == StartOf(in, i)
           there == StartOf(in, i + 1)
           block == packet.blocks[here]
           kind == in.blocks[i].kind
           l == in.blocks[i].length
           end == here + 6 + ValueSize(block)
           caplen == in.caplen
<1>1. block = [kind |-> kind, length |-> l, value |-> i] /\ packet.caplen = caplen
  BY PacketIs DEF HasBlocks
<1>2. there = here + 4 + RoomOf(l) /\ here \in Nat /\ l \in Nat /\ l <= 65535
  <2>1. /\ n \in Nat
        /\ \A k \in 1..(n + 1) : StartOf(in, k) \in Nat
        /\ \A k \in 1..n :
             /\ in.blocks[k].length \in Nat /\ in.blocks[k].length <= 65535
             /\ StartOf(in, k + 1) = StartOf(in, k) + 4 + RoomOf(in.blocks[k].length)
    BY StartsAre
  <2> HIDE DEF n
  <2>2. i \in 1..n
    BY DEF n
  <2>3. i \in 1..(n + 1)
    BY <2>1, <2>2
  <2>4. QED
    BY <2>1, <2>2, <2>3
<1>3. l # 65535 /\ (kind \in Names => l # 0) /\ here + 4 <= caplen
  BY DEF WalkedOver, Captured
<1>4. ValueAt(packet, here)
        = IF /\ end <= caplen \/ ValueSize(block) = 0
             /\ end <= here + 4 + block.length \/ block.kind \in Names
          THEN block.value ELSE Torn
  BY <1>1 DEF ValueAt
<1>5. Carried(in, i)
        <=> LET has(b) == b <= l /\ here + 4 + b <= caplen IN
            \/ kind = "deviceIp" /\ has(14)
            \/ kind = "deviceId" /\ has(6)
            \/ kind = "deviceRoleDetail" /\ has(3)
            \/ /\ kind \in Names
               /\ l > 2 => there <= caplen
  BY DEF Carried
<1>6. caplen \in Nat
  BY DEF IsAnswer
<1> HIDE DEF packet, block, here, there, kind, l, caplen
<1>7. block.kind = kind /\ block.length = l /\ block.value = i
  BY <1>1
<1>8. ValueSize(block)
        = CASE kind \in Names            -> RoundedUp(l) - 2
            [] kind = "deviceIp"         -> 12
            [] kind = "deviceId"         -> 4
            [] kind = "deviceRoleDetail" -> 1
  BY <1>7 DEF ValueSize
<1> DEFINE size == ValueSize(block)
           right == /\ end <= caplen \/ size = 0
                    /\ end <= here + 4 + l \/ kind \in Names
<1>9. ValueAt(packet, here) = IF right THEN i ELSE Torn
  BY <1>4, <1>7
<1>10. CASE kind \in Names
  <2>1. kind # "deviceIp" /\ kind # "deviceId" /\ kind # "deviceRoleDetail"
    BY <1>10 DEF Names
  <2> DEFINE rest == RoundedUp(l) - 2
  <2>2. size = rest
    <3> HIDE DEF rest, size
    <3>1. size = CASE kind \in Names            -> rest
                   [] kind = "deviceIp"         -> 12
                   [] kind = "deviceId"         -> 4
                   [] kind = "deviceRoleDetail" -> 1
      BY <1>8 DEF rest, size
    <3>2. QED
      BY <1>10, <2>1, <3>1
  <2>3. RoundedUp(l) = RoomOf(l) /\ RoomOf(l) = 2 * ((l + 1) \div 2)
    <3>1. l < 65535
      BY <1>2, <1>3
    <3>2. QED
      BY <1>2, <3>1, RoundedUpIs DEF RoomOf
  <2> DEFINE room == RoomOf(l)
  <2>4. end = there /\ (size = 0 <=> ~(l > 2))
    <3>1. l > 0
      BY <1>2, <1>3, <1>10
    <3>2. room \in Nat /\ (room = 2 <=> ~(l > 2))
      BY <1>2, <2>3, <3>1
    <3> HIDE DEF room, size
    <3>3. size = room - 2 /\ there = here + 4 + room
      BY <1>2, <2>2, <2>3 DEF room
    <3>4. here + 6 + size = there /\ (size = 0 <=> room = 2)
      BY <1>2, <3>2, <3>3
    <3>5. QED
      BY <3>2, <3>4 DEF size
  <2> HIDE DEF end, size
  <2>5. right <=> Carried(in, i)
    BY <1>5, <1>10, <2>1, <2>4
  <2>6. QED
    BY <1>9, <2>5 DEF packet, here
<1>11. CASE kind \notin Names
  <2>1. kind = "deviceIp" \/ kind = "deviceId" \/ kind = "deviceRoleDetail"
    BY <1>11 DEF Fields, kind
  <2>2. CASE kind = "deviceIp"
    <3>1. size = 12 /\ kind # "deviceId" /\ kind # "deviceRoleDetail"
      BY <1>8, <1>11, <2>2
    <3>2. right <=> 14 <= l /\ here + 4 + 14 <= caplen
      BY <1>2, <1>6, <1>11, <3>1
    <3> HIDE DEF right
    <3>3. right <=> Carried(in, i)
      BY <1>5, <1>11, <2>2, <3>1, <3>2
    <3>4. QED
      BY <1>9, <3>3 DEF packet, here
  <2>3. CASE kind = "deviceId"
    <3>1. size = 4 /\ kind # "deviceIp" /\ kind # "deviceRoleDetail"
      BY <1>8, <1>11, <2>3
    <3>2. right <=> 6 <= l /\ here + 4 + 6 <= caplen
      BY <1>2, <1>6, <1>11, <3>1
    <3> HIDE DEF right
    <3>3. right <=> Carried(in, i)
      BY <1>5, <1>11, <2>3, <3>1, <3>2
    <3>4. QED
      BY <1>9, <3>3 DEF packet, here
  <2>4. CASE kind = "deviceRoleDetail"
    <3>1. size = 1 /\ kind # "deviceIp" /\ kind # "deviceId"
      BY <1>8, <1>11, <2>4
    <3>2. right <=> 3 <= l /\ here + 4 + 3 <= caplen
      BY <1>2, <1>6, <1>11, <3>1
    <3> HIDE DEF right
    <3>3. right <=> Carried(in, i)
      BY <1>5, <1>11, <2>4, <3>1, <3>2
    <3>4. QED
      BY <1>9, <3>3 DEF packet, here
  <2>5. QED
    BY <2>1, <2>2, <2>3, <2>4
<1>12. QED
  BY <1>10, <1>11

\* The greatest number of a set, when one is known.
LEMMA GreatestIs ==
  ASSUME NEW P, P \subseteq Nat, NEW m \in P, \A p \in P : p <= m
  PROVE  Max(P) = m
<1>1. \A x \in P : (\A y \in P : x >= y) => x = m
  BY m \in Nat
<1>2. \A y \in P : m >= y
  OBVIOUS
<1>3. QED
  BY <1>1, <1>2 DEF Max

\* What EveryBlockRead says of an input.
BlocksRead(in) ==
  LET n      == Len(in.blocks)
      walk   == ReadAnswer(PacketOf(in))
      passed == Max({k \in 0..n : \A i \in 1..k : WalkedOver(in, i)})
      next   == passed + 1
      with(f) == {i \in 1..n : in.blocks[i].kind = f}
  IN  IF ~ /\ Last(in.types) = PROFINET /\ in.service = <<5, 1>>
           /\ in.caplen >= HeaderOf(in) + 12
      THEN walk.result = "none"
      ELSE IF passed < n
      THEN walk.result = IF Captured(in, next) /\ in.blocks[next].kind \in Names
                         THEN "left" ELSE Torn
      ELSE /\ walk.result = "listed"
           /\ \A f \in Fields :
                walk.sheet[f] = IF with(f) = {} THEN Unset
                                ELSE IF Carried(in, Max(with(f)))
                                THEN Max(with(f)) ELSE Torn

(***************************************************************************)
(* Of every answer, with any number of blocks that claim any lengths, any   *)
(* number of tags, and captured to any byte: whether the handler lists the  *)
(* device, leaves, or reads what is not the answer's, and which fields are   *)
(* read right when the device is listed (packetCapture.c:24-74, 97-251).     *)
(***************************************************************************)
THEOREM EveryAnswerRead ==
  ASSUME NEW in, NEW type, IsAnswer(in, type)
  PROVE  BlocksRead(in)
<1> DEFINE packet == PacketOf(in)
           n == Len(in.blocks)
           whole == /\ Last(in.types) = PROFINET
                    /\ in.caplen >= HeaderOf(in) + 12
           read == ReadAnswer(packet)
           P == {k \in 0..n : \A i \in 1..k : WalkedOver(in, i)}
           passed == Max(P)
<1>1. /\ HeaderOf(in) \in Nat /\ n \in Nat /\ DOMAIN in.blocks = 1..n
  BY StartsAre
<1>2. /\ packet.types = in.types /\ packet.service = in.service
      /\ packet.caplen = in.caplen /\ packet.caplen \in Int
  <2> HIDE DEF packet
  <2>1. /\ packet.types = in.types /\ packet.service = in.service
        /\ packet.caplen = in.caplen
    BY PacketIs DEF packet
  <2>2. in.caplen \in Nat
    BY DEF IsAnswer
  <2>3. QED
    BY <2>1, <2>2
<1> HIDE DEF packet, n, read
<1>3. Tagged(packet.types, type) /\ Last(in.types) = type
  BY <1>2, TaggedIs DEF IsAnswer
<1>4. PndcpOffset(packet) = IF whole THEN HeaderOf(in) ELSE -1
  BY <1>2, <1>3, HeaderIsFound DEF HeaderOf
<1>5. HeaderOf(in) # -1
  BY <1>1
<1>6. CASE ~(whole /\ in.service = <<5, 1>>)
  <2>1. PndcpOffset(packet) = -1 \/ packet.service # <<5, 1>>
    BY <1>2, <1>4, <1>6
  <2>2. read = [StartOfBlocks EXCEPT !.result = "none"]
    BY <2>1 DEF ReadAnswer, read
  <2>3. read.result = "none"
    BY <2>2 DEF StartOfBlocks
  <2>4. ~(/\ Last(in.types) = PROFINET /\ in.service = <<5, 1>>
          /\ in.caplen >= HeaderOf(in) + 12)
    BY <1>6
  <2>5. QED
    BY <2>3, <2>4, Zenon DEF BlocksRead, read, packet
<1>7. CASE whole /\ in.service = <<5, 1>>
  <2>1. /\ P \subseteq Nat /\ 0 \in P /\ \A k \in P : k <= n
    BY <1>1
  <2>2. passed \in P /\ \A k \in P : k <= passed
    BY <1>1, <2>1, GreatestExists
  <2>3. passed \in Nat /\ passed <= n /\ \A i \in 1..passed : WalkedOver(in, i)
    <3> HIDE DEF passed
    <3>1. QED
      BY <1>1, <2>2
  <2>4. ASSUME passed < n PROVE ~WalkedOver(in, passed + 1)
    <3> DEFINE m == passed
    <3>1. m \in Nat /\ m < n /\ (\A i \in 1..m : WalkedOver(in, i)) /\ \A k \in P : k <= m
      BY <2>2, <2>3, <2>4
    <3> HIDE DEF m
    <3>2. m + 1 \in 0..n /\ ~(m + 1 <= m) /\ \A i \in 1..(m + 1) : i \in 1..m \/ i = m + 1
      BY <1>1, <3>1
    <3>3. m + 1 \notin P
      BY <3>1, <3>2
    <3>4. ~WalkedOver(in, m + 1)
      BY <3>1, <3>2, <3>3
    <3>5. QED
      BY <3>4 DEF m
  <2> HIDE DEF P, passed
  <2>5. PndcpOffset(packet) = HeaderOf(in)
    BY <1>4, <1>7
  <2>6. read = WalkBlocks(packet)
    BY <1>2, <1>5, <1>7, <2>5 DEF ReadAnswer, read
  <2>7. IF passed < n
        THEN read.result = IF Captured(in, passed + 1)
                              /\ in.blocks[passed + 1].kind \in Names
                           THEN "left" ELSE Torn
        ELSE read.result = "listed" /\ SheetIs(read.sheet, packet, Starts(in), passed)
    BY <2>3, <2>4, <2>5, <2>6, AnswerEnds DEF packet, n
  <2>8. ASSUME ~(passed < n), NEW f \in Fields
        PROVE  LET with == {i \in 1..n : in.blocks[i].kind = f} IN
               read.sheet[f] = IF with = {} THEN Unset
                               ELSE IF Carried(in, Max(with)) THEN Max(with) ELSE Torn
    <3> DEFINE with == {i \in 1..n : in.blocks[i].kind = f}
               value == read.sheet[f]
               at == Starts(in)
    <3>1. passed = n
      BY <1>1, <2>3, <2>8
    <3>2. LastSets(value, f, packet, at, n)
      BY <2>7, <2>8, <3>1 DEF SheetIs
    <3>3. ASSUME NEW i \in 1..n
          PROVE  packet.blocks[at[i]].kind = in.blocks[i].kind /\ at[i] = StartOf(in, i)
      <4>1. i \in 1..(n + 1)
        BY <1>1
      <4>2. at[i] = StartOf(in, i)
        BY <4>1 DEF Starts, n
      <4>3. HasBlocks(packet, in, n)
        BY PacketIs DEF packet, n
      <4>4. packet.blocks[StartOf(in, i)]
              = [kind |-> in.blocks[i].kind, length |-> in.blocks[i].length, value |-> i]
        BY <4>3 DEF HasBlocks
      <4>5. QED
        BY <4>2, <4>4
    <3> HIDE DEF value, at
    <3>4. CASE value = Unset /\ \A i \in 1..n : packet.blocks[at[i]].kind # f
      <4>1. with = {}
        BY <3>3, <3>4
      <4>2. QED
        BY <3>4, <4>1 DEF value
    <3>5. CASE \E i \in 1..n :
                 /\ packet.blocks[at[i]].kind = f /\ value = ValueAt(packet, at[i])
                 /\ \A j \in 1..n : j > i => packet.blocks[at[j]].kind # f
      <4>1. PICK i \in 1..n :
              /\ packet.blocks[at[i]].kind = f /\ value = ValueAt(packet, at[i])
              /\ \A j \in 1..n : j > i => packet.blocks[at[j]].kind # f
        BY <3>5
      <4>2. i \in with /\ with \subseteq Nat
        BY <1>1, <3>3, <4>1
      <4>3. ASSUME NEW j \in with PROVE j <= i
        <5>1. j \in 1..n /\ packet.blocks[at[j]].kind = f
          BY <3>3
        <5>2. ~(j > i)
          BY <4>1, <5>1
        <5>3. QED
          BY <1>1, <4>1, <5>1, <5>2
      <4>4. in.blocks[i].kind = f /\ WalkedOver(in, i) /\ value = ValueAt(packet, StartOf(in, i))
        BY <2>3, <3>1, <3>3, <4>1
      <4> HIDE DEF with
      <4>5. Max(with) = i /\ with # {}
        BY <4>2, <4>3, GreatestIs
      <4>6. value = IF Carried(in, i) THEN i ELSE Torn
        BY <4>1, <4>4, ValueIs DEF packet, n
      <4>7. QED
        BY <4>5, <4>6 DEF with, value
    <3>6. QED
      BY <3>2, <3>4, <3>5 DEF LastSets
  <2>9. QED
    BY <1>7, <2>7, <2>8, Zenon DEF BlocksRead, read, packet, n, passed, P
<1>8. QED
  BY <1>6, <1>7

LEMMA TypesTagged ==
  ASSUME NEW types \in TypesWith({2048, PROFINET})
  PROVE  Tagged(types, Last(types))
<1>1. PICK tags \in SeqOf(Tags, 2), type \in {2048, PROFINET} :
         types = Append(tags, type)
  BY DEF TypesWith
<1>2. PICK n \in 0..2 : tags \in [1..n -> Tags]
  BY DEF SeqOf
<1>3. tags \in Seq(Tags)
  BY <1>2
<1>4. type \notin Tags
  BY SMT DEF PROFINET, Tags
<1>5. Tagged(types, type)
  BY <1>1, <1>3, <1>4 DEF Tagged
<1>6. Last(types) = type
  BY <1>5, TaggedIs
<1>7. QED
  BY <1>5, <1>6

\* A block of a run fits in a frame, or claims the greatest length.
Fits(block) ==
  block.length \in Nat /\ (block.length <= 1500 \/ block.length = 65535)

LEMMA BlocksAre ==
  ASSUME NEW n \in Nat, NEW blocks \in BlocksOf(n)
  PROVE  /\ \E R : blocks \in Seq(R)
         /\ Len(blocks) = n /\ \A i \in DOMAIN blocks : Fits(blocks[i])
<1> DEFINE R == [kind : Fields \cup {"other"}, length : Blocks]
<1>1. \A r \in R : Fits(r)
  <2>1. \A b \in Blocks : b \in Nat /\ (b <= 1500 \/ b = 65535)
    BY BlocksAssumption
  <2>2. QED
    BY <2>1 DEF Fits
<1> HIDE DEF R
<1>2. blocks \in [1..n -> R]
  BY DEF BlocksOf, R
<1>3. blocks \in Seq(R) /\ Len(blocks) = n
  BY <1>2
<1>4. \A i \in DOMAIN blocks : blocks[i] \in R
  BY <1>2
<1>5. QED
  BY <1>1, <1>3, <1>4

\* Three blocks do not reach the greatest length before one that claims it.
LEMMA FewAreCounted ==
  ASSUME NEW in, NEW R, in.blocks \in Seq(R), Len(in.blocks) <= 3, HeaderOf(in) \in Nat,
         \A i \in DOMAIN in.blocks : Fits(in.blocks[i]), NEW i \in DOMAIN in.blocks
  PROVE  Counted(in, i)
<1> DEFINE blocks == in.blocks
           n == Len(blocks)
           size(k) == SizeOf(blocks, k)
           room(k) == RoomOf(blocks[k].length)
           h == HeaderOf(in)
<1>1. n \in Nat /\ n <= 3 /\ DOMAIN blocks = 1..n /\ h \in Nat
  OBVIOUS
<1>2. \A k \in 1..n : /\ blocks[k].length \in Nat
                      /\ blocks[k].length <= 1500 \/ blocks[k].length = 65535
  BY <1>1 DEF Fits
<1>3. size(0) = 0 /\ (0 < n => size(1) = size(0) + 4 + room(1))
      /\ (1 < n => size(2) = size(1) + 4 + room(2))
  <2>1. \A k \in DOMAIN blocks : blocks[k].length \in Nat
    BY <1>1, <1>2
  <2>2. \A k \in Nat : k <= n =>
          /\ size(0) = 0
          /\ k < n => size(k + 1) = size(k) + 4 + room(k + 1)
    BY <2>1, SizesAre
  <2> HIDE DEF size, room, n
  <2>3. size(0) = 0 /\ (0 < n => size(0 + 1) = size(0) + 4 + room(0 + 1))
        /\ (1 < n => size(1 + 1) = size(1) + 4 + room(1 + 1))
    BY <1>1, <2>2
  <2>4. QED
    BY <2>3
<1>4. /\ StartOf(in, 1) = h + 12 + size(0)
      /\ StartOf(in, i) = h + 12 + size(i - 1)
  BY 1 - 1 = 0 DEF StartOf, SizeOf
<1> HIDE DEF blocks, n, size, h
<1>5. ASSUME NEW k \in 1..n, blocks[k].length # 65535
      PROVE  room(k) \in Nat /\ room(k) <= 1500
  <2> DEFINE l == blocks[k].length
  <2>1. l \in Nat /\ l <= 1500
    BY <1>2, <1>5
  <2> HIDE DEF l
  <2>2. 2 * ((l + 1) \div 2) \in Nat /\ 2 * ((l + 1) \div 2) <= 1500
    BY <2>1
  <2>3. QED
    BY <2>2 DEF RoomOf, l
<1> HIDE DEF room
<1>6. i \in 1..n
  BY <1>1 DEF blocks
<1>7. ASSUME \A j \in 1..(i - 1) : blocks[j].length # 65535
      PROVE  StartOf(in, i) - StartOf(in, 1) <= 65530
  <2>1. i = 1 \/ i = 2 \/ i = 3
    BY <1>1, <1>6
  <2>2. size(0) = 0
    BY <1>3
  <2>3. CASE i = 1
    BY <1>1, <1>4, <2>2, <2>3
  <2>4. CASE i = 2
    <3>1. 1 \in 1..n /\ 1 \in 1..(i - 1) /\ 0 < n /\ i - 1 = 1
      BY <1>1, <1>6, <2>4
    <3>2. room(1) \in Nat /\ room(1) <= 1500
      BY <1>5, <1>7, <3>1
    <3>3. size(1) = 4 + room(1)
      BY <1>3, <2>2, <3>1, <3>2
    <3>4. StartOf(in, 1) = h + 12 /\ StartOf(in, i) = h + 12 + size(1)
      BY <1>1, <1>4, <2>2, <3>1
    <3>5. QED
      BY <1>1, <3>2, <3>3, <3>4
  <2>5. CASE i = 3
    <3>1. /\ 1 \in 1..n /\ 1 \in 1..(i - 1) /\ 0 < n /\ i - 1 = 2
          /\ 2 \in 1..n /\ 2 \in 1..(i - 1) /\ 1 < n
      BY <1>1, <1>6, <2>5
    <3>2. room(1) \in Nat /\ room(1) <= 1500 /\ room(2) \in Nat /\ room(2) <= 1500
      BY <1>5, <1>7, <3>1
    <3>3. size(2) = 8 + room(1) + room(2)
      BY <1>3, <2>2, <3>1, <3>2
    <3>4. StartOf(in, 1) = h + 12 /\ StartOf(in, i) = h + 12 + size(2)
      BY <1>1, <1>4, <2>2, <3>1
    <3>5. QED
      BY <1>1, <3>2, <3>3, <3>4
  <2>6. QED
    BY <2>1, <2>3, <2>4, <2>5
<1>8. blocks[i].length \in {l \in Nat : l <= 65535}
  <2>1. blocks[i].length \in Nat /\ blocks[i].length <= 65535
    BY <1>2, <1>6
  <2>2. QED
    BY <2>1
<1>9. QED
  BY <1>7, <1>8 DEF Counted, blocks

\* The four kinds of inputs.
LEMMA InputIsAnswer ==
  ASSUME NEW in \in BlockInputs
  PROVE  IsAnswer(in, Last(in.types))
<1> DEFINE ip   == [kind |-> "deviceIp", length |-> 14]
           one  == <<ip>>
           upTo == UNION {BlocksOf(n) : n \in 0..2}
           few  == TypesWith({PROFINET})
           many == TypesWith({2048, PROFINET})
           answers(bs, ts, cs) ==
             [blocks : bs, types : ts, service : {<<5, 1>>}, caplen : cs]
           others == [blocks : {one}, types : many,
                      service : {<<5, 0>>, <<5, 1>>, <<3, 1>>}, caplen : 0..52]
<1>1. \/ in \in answers(BlocksOf(3), {<<PROFINET>>}, {MaxFrame})
      \/ in \in answers(upTo, few, {MaxFrame})
      \/ in \in answers(BlocksOf(2), {<<PROFINET>>}, 26..62)
      \/ in \in others
  <2> DEFINE full  == answers(BlocksOf(3), {<<PROFINET>>}, {MaxFrame})
             short == answers(upTo, few, {MaxFrame})
             part  == answers(BlocksOf(2), {<<PROFINET>>}, 26..62)
  <2>1. BlockInputs = full \cup short \cup part \cup others
    BY DEF BlockInputs
  <2> HIDE DEF full, short, part, others
  <2>2. in \in full \/ in \in short \/ in \in part \/ in \in others
    BY <2>1
  <2>3. QED
    BY <2>2 DEF full, short, part
<1>2. 0..52 \subseteq Nat /\ 26..62 \subseteq Nat /\ {MaxFrame} \subseteq Nat
  BY SMT DEF MaxFrame
<1>3. <<PROFINET>> \in few
  <2>1. <<>> \in SeqOf(Tags, 2)
    <3>1. <<>> \in [1..0 -> Tags]
      OBVIOUS
    <3>2. QED
      BY <3>1, SMT DEF SeqOf
  <2>2. <<PROFINET>> = Append(<<>>, PROFINET)
    OBVIOUS
  <2> DEFINE none == <<>>
  <2> HIDE DEF none
  <2>3. Append(none, PROFINET) \in few
    BY <2>1 DEF TypesWith, none
  <2>4. QED
    BY <2>2, <2>3 DEF none
<1>4. few \subseteq many
  BY DEF TypesWith
<1> HIDE DEF few, many, upTo, one
<1>5. in.types \in many /\ in.caplen \in Nat
  BY <1>1, <1>2, <1>3, <1>4
<1>6. \/ in.blocks \in BlocksOf(3)
      \/ in.blocks \in upTo
      \/ in.blocks \in BlocksOf(2)
      \/ in.blocks = one
  BY <1>1
<1>7. /\ \E R : in.blocks \in Seq(R)
      /\ Len(in.blocks) <= 3 /\ \A i \in DOMAIN in.blocks : Fits(in.blocks[i])
  <2>1. CASE in.blocks \in BlocksOf(3)
    <3>1. 3 \in Nat /\ 3 <= 3
      OBVIOUS
    <3>2. QED
      BY <2>1, <3>1, BlocksAre
  <2>2. CASE in.blocks \in upTo \/ in.blocks \in BlocksOf(2)
    <3>1. PICK n \in 0..2 : in.blocks \in BlocksOf(n)
      BY <2>2, 2 \in 0..2 DEF upTo
    <3>2. n \in Nat /\ n <= 3
      OBVIOUS
    <3>3. QED
      BY <3>1, <3>2, BlocksAre
  <2>3. CASE in.blocks = one
    <3>1. Fits(ip)
      BY DEF Fits
    <3> HIDE DEF ip
    <3>2. in.blocks = <<ip>>
      BY <2>3 DEF one
    <3>3. in.blocks \in Seq({ip}) /\ Len(in.blocks) <= 3
      BY <3>2
    <3>4. \A i \in DOMAIN in.blocks : in.blocks[i] = ip
      BY <3>2
    <3>5. QED
      BY <3>1, <3>3, <3>4
  <2>4. QED
    BY <1>6, <2>1, <2>2, <2>3
<1>8. Tagged(in.types, Last(in.types))
  BY <1>5, TypesTagged DEF many
<1>9. HeaderOf(in) \in Nat
  <2>1. Len(in.types) \in Nat /\ Len(in.types) > 0
    BY <1>8, TaggedIs
  <2>2. QED
    BY <2>1 DEF HeaderOf
<1>10. \A i \in DOMAIN in.blocks : Counted(in, i)
  BY <1>7, <1>9, FewAreCounted
<1>11. QED
  BY <1>5, <1>7, <1>8, <1>10 DEF IsAnswer

(***************************************************************************)
(* In particular of the packets of the runs, with blocks of whatever length *)
(* (packetCapture.c:24-74, 97-251).                                         *)
(***************************************************************************)
THEOREM BlocksRight == Spec => []EveryBlockRead
<1>1. \A in \in BlockInputs : IsAnswer(in, Last(in.types))
  BY InputIsAnswer
<1>2. Init => EveryBlockRead
  <2>1. Init => (algorithm = "blocks" => input \in BlockInputs)
    BY DEF Init
  <2>2. algorithm = "blocks" /\ input \in BlockInputs => BlocksRead(input)
    BY <1>1, EveryAnswerRead
  <2>3. QED
    BY <2>1, <2>2, Zenon DEF EveryBlockRead, BlocksRead
<1>3. EveryBlockRead /\ [Next]_vars => EveryBlockRead'
  BY DEF Next, vars, EveryBlockRead
<1>4. QED
  BY <1>2, <1>3, PTL DEF Spec

LEMMA JoinedInts ==
  ASSUME NEW a \in Seq(Int), NEW b \in Seq(Int)
  PROVE  /\ a \o b \in Seq(Int) /\ Len(a \o b) = Len(a) + Len(b) /\ Len(b) \in Nat
         /\ \A i \in 1..Len(a) : (a \o b)[i] = a[i]
OBVIOUS

LEMMA ParsedIs ==
  ASSUME NEW second \in SecondNumbers, NEW rest \in SeqOf(Edge, 2)
  PROVE  LET n == Parsed(second, rest) IN
         /\ n \in Seq(Int) /\ Len(n) >= 3 /\ Len(n) <= 5
         /\ n[1] = 192 /\ n[2] = second /\ n[3] = 0
<1>1. PICK k \in 0..2 : rest \in [1..k -> Edge]
  BY DEF SeqOf
<1>2. rest \in Seq(Int) /\ Len(rest) <= 2
  BY <1>1 DEF Edge
<1> DEFINE start == <<192, second, 0>>
<1>3. second \in Int
  BY DEF SecondNumbers
<1>4. /\ start \in Seq(Int) /\ Len(start) = 3
      /\ start[1] = 192 /\ start[2] = second /\ start[3] = 0
  BY <1>3
<1> HIDE DEF start
<1> DEFINE n == start \o rest
<1>5. /\ n \in Seq(Int) /\ Len(n) = 3 + Len(rest) /\ Len(rest) \in Nat
      /\ \A i \in 1..3 : n[i] = start[i]
  <2>1. /\ n \in Seq(Int) /\ Len(n) = Len(start) + Len(rest) /\ Len(rest) \in Nat
        /\ \A i \in 1..Len(start) : n[i] = start[i]
    <3>1. start \in Seq(Int) /\ rest \in Seq(Int)
      BY <1>2, <1>4
    <3>2. QED
      BY <3>1, JoinedInts
  <2>2. Len(start) = 3
    BY <1>4
  <2>3. QED
    BY <2>1, <2>2
<1>6. n[1] = start[1] /\ n[2] = start[2] /\ n[3] = start[3]
  BY <1>5
<1>7. n = Parsed(second, rest)
  BY DEF Parsed, start
<1> HIDE DEF n
<1>8. QED
  BY <1>2, <1>4, <1>5, <1>6, <1>7

\* Of these numbers it is enough to look at the second, fourth and last.
LEMMA AskedTarget ==
  ASSUME NEW n \in Seq(Int), NEW length \in Int, NEW blanks \in Int,
         Len(n) >= 3, Len(n) <= 5, n[1] = 192, n[2] \in SecondNumbers, n[3] = 0
  PROVE  IsTarget(n, length, blanks)
           <=> /\ Len(n) >= 4 /\ n[2] = 168 /\ n[4] >= 0 /\ n[Len(n)] <= 255
               /\ n[4] <= n[Len(n)] /\ length <= 63 /\ length >= 7 + blanks
<1> DEFINE end == Len(n)
<1>1. /\ end \in Nat /\ end >= 3 /\ end <= 5 /\ DOMAIN n = 1..end
      /\ \A i \in 1..end : n[i] \in Int
  OBVIOUS
<1> HIDE DEF end
<1>2. n[2] >= 0 /\ n[2] <= 255 <=> n[2] = 168
  BY SMT DEF SecondNumbers
<1>3. CASE end < 4
  BY <1>1, <1>3 DEF IsTarget, end
<1>4. CASE end >= 4
  <2>1. end = 4 \/ end = 5
    BY <1>1, <1>4
  <2>2. n[4] \in Int /\ n[end] \in Int
    BY <1>1, <2>1
  <2>3. (\A i \in DOMAIN n : n[i] >= 0 /\ n[i] <= 255)
          <=> /\ n[1] >= 0 /\ n[1] <= 255 /\ n[2] >= 0 /\ n[2] <= 255
              /\ n[3] >= 0 /\ n[3] <= 255 /\ n[4] >= 0 /\ n[4] <= 255
              /\ n[end] >= 0 /\ n[end] <= 255
    <3>1. CASE end = 4
      BY <1>1, <3>1
    <3>2. CASE end = 5
      BY <1>1, <3>2
    <3>3. QED
      BY <2>1, <3>1, <3>2
  <2>4. n[4] >= 0 /\ n[end] <= 255 /\ n[4] <= n[end] => n[4] <= 255 /\ n[end] >= 0
    <3> DEFINE first == n[4]
               last  == n[end]
    <3> HIDE DEF first, last
    <3>1. first \in Int /\ last \in Int
      BY <2>2 DEF first, last
    <3>2. first >= 0 /\ last <= 255 /\ first <= last => first <= 255 /\ last >= 0
      BY <3>1
    <3>3. QED
      BY <3>2 DEF first, last
  <2>5. n[1] >= 0 /\ n[1] <= 255 /\ n[3] >= 0 /\ n[3] <= 255
    BY SMT
  <2>6. QED
    BY <1>2, <1>4, <2>1, <2>3, <2>4, <2>5 DEF IsTarget, end
<1>5. QED
  BY <1>1, <1>3, <1>4

(***************************************************************************)
(* In particular those of the runs (remoteScan.c:1403-1484).                *)
(***************************************************************************)
THEOREM TargetsRight == Spec => []TargetsAreTheRange
<1>1. ASSUME algorithm = "target", input \in TargetInputs
      PROVE  TargetsAreTheRange
  <2> DEFINE n      == input.numbers
             length == input.length
             blanks == input.blanks
             end    == Len(n)
             asked  == /\ end >= 4 /\ n[2] = 168 /\ n[4] >= 0 /\ n[end] <= 255
                       /\ n[4] <= n[end] /\ length <= 63 /\ length >= 7 + blanks
  <2>1. n \in ParsedTargets /\ length \in Int /\ blanks \in Int
    BY <1>1 DEF TargetInputs
  <2> HIDE DEF n, length, blanks
  <2>2. PICK b \in SecondNumbers : \E rest \in SeqOf(Edge, 2) : n = Parsed(b, rest)
    BY <2>1, SMT DEF ParsedTargets
  <2>3. /\ n \in Seq(Int) /\ end >= 3 /\ end <= 5
        /\ n[1] = 192 /\ n[2] \in SecondNumbers /\ n[3] = 0
    BY <2>2, ParsedIs
  <2>4. IsTarget(n, length, blanks) <=> asked
    BY <2>1, <2>3, AskedTarget
  <2>5. TargetIP(n, length, blanks)
          = IF IsTarget(n, length, blanks)
            THEN [i \in 1..(n[end] - n[4] + 1) |-> <<n[1], n[2], n[3], n[4] + i - 1>>]
            ELSE Failed
    BY <2>1, <2>3, TargetsAreAsked
  <2>6. asked => n[1] = 192 /\ n[2] = 168 /\ n[3] = 0
    BY <2>3
  <2>7. IF asked
        THEN TargetIP(n, length, blanks)
               = [i \in 1..(n[end] - n[4] + 1) |-> <<192, 168, 0, n[4] + i - 1>>]
        ELSE TargetIP(n, length, blanks) = Failed
    <3> HIDE DEF asked
    <3>1. QED
      BY <2>4, <2>5, <2>6
  <2>8. QED
    BY <2>7 DEF TargetsAreTheRange, n, length, blanks
<1>2. Init => TargetsAreTheRange
  <2>1. Init /\ algorithm = "target" => input \in TargetInputs
    BY DEF Init
  <2>2. algorithm # "target" => TargetsAreTheRange
    BY DEF TargetsAreTheRange
  <2>3. QED
    BY <1>1, <2>1, <2>2
<1>3. TargetsAreTheRange /\ [Next]_vars => TargetsAreTheRange'
  <2> DEFINE right(in) ==
               LET n    == in.numbers
                   list == TargetIP(n, in.length, in.blanks)
                   last == Len(n)
               IN  IF /\ last >= 4 /\ n[2] = 168 /\ n[4] >= 0 /\ n[last] <= 255
                      /\ n[4] <= n[last] /\ in.length <= 63
                      /\ in.length >= 7 + in.blanks
                   THEN list = [i \in 1..(n[last] - n[4] + 1) |->
                                  <<192, 168, 0, n[4] + i - 1>>]
                   ELSE list = Failed
  <2>1. /\ TargetsAreTheRange <=> (algorithm = "target" => right(input))
        /\ TargetsAreTheRange' <=> (algorithm' = "target" => right(input'))
    BY Zenon DEF TargetsAreTheRange
  <2> HIDE DEF right
  <2>2. [Next]_vars => algorithm' = algorithm /\ input' = input
    BY DEF Next, vars
  <2>3. QED
    BY <2>1, <2>2
<1>4. QED
  BY <1>2, <1>3, PTL DEF Spec
=============================================================================
