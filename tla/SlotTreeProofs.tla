--------------------------- MODULE SlotTreeProofs ---------------------------
(***************************************************************************)
(* Theorems about SlotTree for every number of devices, whatever is plugged *)
(* in them and however often they answer.                                   *)
(***************************************************************************)
EXTENDS SlotTree, TLAPS, WellFoundedInduction

-----------------------------------------------------------------------------
(* Slots, trees and their places.                                          *)

LEMMA SetElem ==
  ASSUME NEW S, NEW q \in Seq(S), NEW i \in DOMAIN q, NEW x \in S
  PROVE  /\ [q EXCEPT ![i] = x] \in Seq(S)
         /\ Len([q EXCEPT ![i] = x]) = Len(q)
         /\ DOMAIN [q EXCEPT ![i] = x] = DOMAIN q
         /\ [q EXCEPT ![i] = x][i] = x
         /\ \A j \in DOMAIN q : j # i => [q EXCEPT ![i] = x][j] = q[j]
  OBVIOUS

LEMMA AddElem ==
  ASSUME NEW S, NEW q \in Seq(S), NEW x \in S
  PROVE  /\ Append(q, x) \in Seq(S) /\ Append(q, x) # <<>>
         /\ Len(Append(q, x)) = Len(q) + 1
         /\ DOMAIN Append(q, x) = DOMAIN q \cup {Len(q) + 1}
         /\ Append(q, x)[Len(q) + 1] = x
         /\ \A j \in DOMAIN q : Append(q, x)[j] = q[j]
  OBVIOUS

LEMMA LastElem ==
  ASSUME NEW S, NEW q \in Seq(S), q # <<>>
  PROVE  Len(q) \in DOMAIN q /\ Len(q) \in Nat /\ Len(q) >= 1 /\ q[Len(q)] \in S
  OBVIOUS

\* A device's tree is another one.
LEMMA WithTreeIs ==
  ASSUME StateOK, NEW d \in Devices, trees[d] # <<>>, NEW new \in Seq(Slot),
         trees' = WithTree(d, new)
  PROVE  /\ trees' \in [Devices -> Seq(Seq(Slot))]
         /\ \A e \in Devices : e # d => trees'[e] = trees[e]
         /\ trees'[d] # <<>> /\ Len(trees'[d]) = Len(trees[d])
         /\ trees'[d][Len(trees[d])] = new
         /\ \A g \in DOMAIN trees[d] :
              g # Len(trees[d]) => trees'[d][g] = trees[d][g]
<1>1. trees \in [Devices -> Seq(Seq(Slot))] /\ trees[d] \in Seq(Seq(Slot))
        /\ Len(trees[d]) \in DOMAIN trees[d]
  BY DEF StateOK
<1> DEFINE q == [trees[d] EXCEPT ![Len(trees[d])] = new]
<1>2. /\ q \in Seq(Seq(Slot)) /\ Len(q) = Len(trees[d]) /\ q # <<>>
      /\ q[Len(trees[d])] = new
      /\ \A g \in DOMAIN trees[d] : g # Len(trees[d]) => q[g] = trees[d][g]
  BY <1>1, SetElem
<1>3. trees' = [trees EXCEPT ![d] = q]
  BY <1>1 DEF WithTree
<1> HIDE DEF q
<1>4. trees' \in [Devices -> Seq(Seq(Slot))] /\ trees'[d] = q
        /\ \A e \in Devices : e # d => trees'[e] = trees[e]
  BY <1>1, <1>2, <1>3
<1>5. QED
  BY <1>2, <1>4

LEMMA CurrentIs ==
  ASSUME StateOK, NEW d \in Devices, trees[d] # <<>>
  PROVE  /\ Len(trees[d]) \in DOMAIN trees[d]
         /\ Current(d) = trees[d][Len(trees[d])] /\ Current(d) \in Seq(Slot)
  BY DEF StateOK, Current

-----------------------------------------------------------------------------
(* Building a tree.                                                        *)

\* old's slots and subslots are in new at the same places.
Within(old, new) ==
  /\ DOMAIN old \subseteq DOMAIN new
  /\ \A s \in DOMAIN old : DOMAIN old[s].subs \subseteq DOMAIN new[s].subs

\* Only subslots that have been answered in old have been so in new.
NoNewData(old, new) ==
  \A s \in DOMAIN new : \A u \in DOMAIN new[s].subs :
    new[s].subs[u].answered =>
      s \in DOMAIN old /\ u \in DOMAIN old[s].subs /\ old[s].subs[u].answered

LEMMA PluggedType ==
  ASSUME NEW mods \in Seq(Plugged), NEW i \in DOMAIN mods
  PROVE  mods[i].number \in Nat /\ mods[i].subs \in Seq(Nat)
<1>1. mods[i] \in Plugged
  OBVIOUS
<1>2. QED
  BY <1>1 DEF Plugged

\* The last slot of a tree is changed.
LEMMA SetLast ==
  ASSUME NEW tree \in Seq(Slot), NEW mods, tree # <<>>, NEW slot \in Slot,
         NEW new, new = [tree EXCEPT ![Len(tree)] = slot],
         \A s \in DOMAIN tree :
           s < Len(tree) => Done(tree[s], mods[s]) /\ tree[s].subs # <<>>,
         DOMAIN tree[Len(tree)].subs \subseteq DOMAIN slot.subs,
         \A u \in DOMAIN slot.subs : slot.subs[u].answered =>
           /\ u \in DOMAIN tree[Len(tree)].subs
           /\ tree[Len(tree)].subs[u].answered
  PROVE  /\ new \in Seq(Slot) /\ Len(new) = Len(tree) /\ new # <<>>
         /\ new[Len(tree)] = slot
         /\ \A s \in DOMAIN new :
              s < Len(tree) => Done(new[s], mods[s]) /\ new[s].subs # <<>>
         /\ Within(tree, new) /\ NoNewData(tree, new)
<1>1. Len(tree) \in DOMAIN tree
  OBVIOUS
<1>2. /\ new \in Seq(Slot) /\ Len(new) = Len(tree) /\ DOMAIN new = DOMAIN tree
      /\ new[Len(tree)] = slot
      /\ \A s \in DOMAIN tree : s # Len(tree) => new[s] = tree[s]
  BY <1>1, SetElem
<1>3. new # <<>>
  BY <1>2
<1>4. \A s \in DOMAIN new :
        s < Len(tree) => Done(new[s], mods[s]) /\ new[s].subs # <<>>
  BY <1>2
<1>5. Within(tree, new)
  BY <1>2 DEF Within
<1>6. NoNewData(tree, new)
  BY <1>2 DEF NoNewData
<1>7. QED
  BY <1>2, <1>3, <1>4, <1>5, <1>6

LEMMA SlotFilled ==
  ASSUME NEW tree \in Seq(Slot), NEW mods \in Seq(Plugged),
         Shape(tree, mods, "slot"), NEW new,
         new = [tree EXCEPT ![Len(tree)].number = mods[Len(tree)].number],
         NEW stage,
         stage = IF Ends(mods[Len(tree)].subs) THEN "idle" ELSE "link"
  PROVE  new \in Seq(Slot) /\ Shape(new, mods, stage)
         /\ Within(tree, new) /\ NoNewData(tree, new)
<1> DEFINE n == Len(tree)
           slot == [tree[n] EXCEPT !.number = mods[n].number]
<1>1. n \in DOMAIN tree /\ n \in DOMAIN mods /\ tree[n] \in Slot /\ tree # <<>>
        /\ tree[n].subs = <<>>
        /\ \A s \in DOMAIN tree :
             s < n => Done(tree[s], mods[s]) /\ tree[s].subs # <<>>
  BY DEF Shape
<1>2. mods[n].number \in Nat /\ mods[n].subs \in Seq(Nat)
  BY <1>1, PluggedType
<1>3. slot \in Slot /\ slot.number = mods[n].number /\ slot.subs = <<>>
  BY <1>1, <1>2 DEF Slot
<1>4. new = [tree EXCEPT ![n] = slot]
  BY <1>1
<1> HIDE DEF slot
<1>5. /\ DOMAIN tree[Len(tree)].subs \subseteq DOMAIN slot.subs
      /\ \A u \in DOMAIN slot.subs : slot.subs[u].answered =>
           /\ u \in DOMAIN tree[Len(tree)].subs
           /\ tree[Len(tree)].subs[u].answered
  BY <1>1, <1>3
<1>6. /\ new \in Seq(Slot) /\ Len(new) = Len(tree) /\ new # <<>>
      /\ new[Len(tree)] = slot
      /\ \A s \in DOMAIN new :
           s < Len(tree) => Done(new[s], mods[s]) /\ new[s].subs # <<>>
      /\ Within(tree, new) /\ NoNewData(tree, new)
  BY <1>1, <1>3, <1>4, <1>5, SetLast
<1>7. Like(slot, mods[n], 0) /\ Len(slot.subs) = 0
  BY <1>2, <1>3 DEF Like
<1>8. stage = "idle" => mods[n].subs = <<>> /\ Done(slot, mods[n])
  BY <1>2, <1>7 DEF Ends, Done
<1>9. stage = "link" => Len(slot.subs) < Len(mods[n].subs)
  BY <1>2, <1>7 DEF Ends
<1>10. stage \in {"idle", "link"}
  OBVIOUS
<1>11. Shape(new, mods, stage)
  BY <1>3, <1>6, <1>7, <1>8, <1>9, <1>10 DEF Shape
<1>12. QED
  BY <1>6, <1>11

LEMMA SubslotLinked ==
  ASSUME NEW tree \in Seq(Slot), NEW mods \in Seq(Plugged),
         Shape(tree, mods, "link"), NEW sub \in NewSubslots, NEW new,
         new = [tree EXCEPT ![Len(tree)].subs = Append(@, sub)]
  PROVE  new \in Seq(Slot) /\ Shape(new, mods, "subslot")
         /\ Within(tree, new) /\ NoNewData(tree, new)
<1> DEFINE n == Len(tree)
           subs == Append(tree[n].subs, sub)
           slot == [tree[n] EXCEPT !.subs = subs]
<1>1. n \in DOMAIN tree /\ n \in DOMAIN mods /\ tree[n] \in Slot /\ tree # <<>>
        /\ Like(tree[n], mods[n], Len(tree[n].subs))
        /\ Len(tree[n].subs) < Len(mods[n].subs)
        /\ \A s \in DOMAIN tree :
             s < n => Done(tree[s], mods[s]) /\ tree[s].subs # <<>>
  BY DEF Shape
<1>2. mods[n].number \in Nat /\ mods[n].subs \in Seq(Nat)
  BY <1>1, PluggedType
<1>3. sub \in Subslot /\ ~sub.answered
  BY TreeAssumption DEF NewSubslots, Subslot
<1>4. tree[n].subs \in Seq(Subslot)
  BY <1>1 DEF Slot
<1>5. /\ subs \in Seq(Subslot) /\ Len(subs) = Len(tree[n].subs) + 1
      /\ DOMAIN subs = DOMAIN tree[n].subs \cup {Len(tree[n].subs) + 1}
      /\ subs[Len(tree[n].subs) + 1] = sub /\ subs # <<>>
      /\ \A u \in DOMAIN tree[n].subs : subs[u] = tree[n].subs[u]
  BY <1>3, <1>4, AddElem
<1> HIDE DEF subs
<1>6. slot \in Slot /\ slot.number = tree[n].number /\ slot.subs = subs
  BY <1>1, <1>5 DEF Slot
<1>7. new = [tree EXCEPT ![n] = slot]
  BY <1>1 DEF subs
<1> HIDE DEF slot
<1>8. \A u \in DOMAIN slot.subs : slot.subs[u].answered =>
           /\ u \in DOMAIN tree[Len(tree)].subs
           /\ tree[Len(tree)].subs[u].answered
  BY <1>3, <1>5, <1>6
<1>9. /\ new \in Seq(Slot) /\ Len(new) = Len(tree) /\ new # <<>>
      /\ new[Len(tree)] = slot
      /\ \A s \in DOMAIN new :
           s < Len(tree) => Done(new[s], mods[s]) /\ new[s].subs # <<>>
      /\ Within(tree, new) /\ NoNewData(tree, new)
  BY <1>1, <1>5, <1>6, <1>7, <1>8, SetLast
<1>10. Like(slot, mods[n], Len(slot.subs) - 1) /\ slot.subs # <<>>
  <2>1. Len(slot.subs) - 1 = Len(tree[n].subs) /\ Len(tree[n].subs) \in Nat
          /\ Len(mods[n].subs) \in Nat
    <3>1. Len(tree[n].subs) \in Nat
      BY <1>4
    <3>2. Len(mods[n].subs) \in Nat
      BY <1>2
    <3>3. Len(slot.subs) = Len(tree[n].subs) + 1
      BY <1>5, <1>6
    <3>4. QED
      BY <3>1, <3>2, <3>3
  <2>2. /\ tree[n].number = mods[n].number
        /\ \A u \in DOMAIN tree[n].subs : u <= Len(tree[n].subs) =>
             tree[n].subs[u].number = mods[n].subs[u]
    BY <1>1 DEF Like
  <2>3. slot.number = mods[n].number /\ Len(slot.subs) <= Len(mods[n].subs)
    BY <1>1, <1>6, <2>1, <2>2
  <2>4. ASSUME NEW u \in DOMAIN slot.subs, u <= Len(tree[n].subs)
        PROVE  slot.subs[u].number = mods[n].subs[u]
    <3>1. u \in DOMAIN tree[n].subs
      BY <1>4, <1>5, <1>6, <2>4
    <3>2. tree[n].subs[u].number = mods[n].subs[u]
      BY <2>4, <2>2, <3>1
    <3>3. QED
      BY <1>5, <1>6, <3>1, <3>2
  <2>5. QED
    BY <1>5, <1>6, <2>1, <2>3, <2>4 DEF Like
<1>11. Shape(new, mods, "subslot")
  BY <1>1, <1>9, <1>10 DEF Shape
<1>12. QED
  BY <1>9, <1>11

LEMMA SubslotFilled ==
  ASSUME NEW tree \in Seq(Slot), NEW mods \in Seq(Plugged),
         Shape(tree, mods, "subslot"), NEW n, n = Len(tree[Len(tree)].subs),
         NEW new,
         new = [tree EXCEPT ![Len(tree)].subs[n].number =
                              mods[Len(tree)].subs[n]],
         NEW stage,
         stage = IF n < Len(mods[Len(tree)].subs) THEN "link"
                 ELSE IF Len(tree) < Len(mods) THEN "more" ELSE "idle"
  PROVE  new \in Seq(Slot) /\ Shape(new, mods, stage)
         /\ Within(tree, new) /\ NoNewData(tree, new)
<1> DEFINE l == Len(tree)
           sub == [tree[l].subs[n] EXCEPT !.number = mods[l].subs[n]]
           subs == [tree[l].subs EXCEPT ![n] = sub]
           slot == [tree[l] EXCEPT !.subs = subs]
<1>1. l \in DOMAIN tree /\ l \in DOMAIN mods /\ tree[l] \in Slot /\ tree # <<>>
        /\ Like(tree[l], mods[l], n - 1) /\ tree[l].subs # <<>>
        /\ Len(tree) <= Len(mods)
        /\ \A s \in DOMAIN tree :
             s < l => Done(tree[s], mods[s]) /\ tree[s].subs # <<>>
  BY DEF Shape
<1>2. mods[l].number \in Nat /\ mods[l].subs \in Seq(Nat)
  BY <1>1, PluggedType
<1>3. tree[l].subs \in Seq(Subslot) /\ n \in DOMAIN tree[l].subs
        /\ tree[l].subs[n] \in Subslot
  BY <1>1 DEF Slot
<1>4. n \in DOMAIN mods[l].subs /\ mods[l].subs[n] \in Nat
  BY <1>1, <1>2, <1>3 DEF Like
<1>5. sub \in Subslot /\ sub.number = mods[l].subs[n]
        /\ sub.answered = tree[l].subs[n].answered
  BY <1>3, <1>4 DEF Subslot
<1> HIDE DEF sub
<1>6. /\ subs \in Seq(Subslot) /\ Len(subs) = n
      /\ DOMAIN subs = DOMAIN tree[l].subs /\ subs[n] = sub
      /\ \A u \in DOMAIN tree[l].subs : u # n => subs[u] = tree[l].subs[u]
  BY <1>3, <1>5, SetElem
<1> HIDE DEF subs
<1>7. slot \in Slot /\ slot.number = tree[l].number /\ slot.subs = subs
  BY <1>1, <1>6 DEF Slot
<1>8. new = [tree EXCEPT ![l] = slot]
  BY <1>1, <1>3 DEF subs, sub
<1> HIDE DEF slot
<1>9. \A u \in DOMAIN slot.subs : slot.subs[u].answered =>
           /\ u \in DOMAIN tree[Len(tree)].subs
           /\ tree[Len(tree)].subs[u].answered
  BY <1>3, <1>5, <1>6, <1>7
<1>10. /\ new \in Seq(Slot) /\ Len(new) = Len(tree) /\ new # <<>>
       /\ new[Len(tree)] = slot
       /\ \A s \in DOMAIN new :
            s < Len(tree) => Done(new[s], mods[s]) /\ new[s].subs # <<>>
       /\ Within(tree, new) /\ NoNewData(tree, new)
  BY <1>1, <1>6, <1>7, <1>8, <1>9, SetLast
<1>11. Like(slot, mods[l], Len(slot.subs)) /\ slot.subs # <<>>
  <2>1. slot.number = mods[l].number /\ Len(slot.subs) <= Len(mods[l].subs)
          /\ slot.subs # <<>>
    BY <1>1, <1>2, <1>3, <1>6, <1>7 DEF Like
  <2>2. ASSUME NEW u \in DOMAIN slot.subs
        PROVE  slot.subs[u].number = mods[l].subs[u]
    <3>1. u \in DOMAIN tree[l].subs /\ u \in 1..n
      BY <1>3, <1>6, <1>7
    <3>2. CASE u = n
      BY <1>5, <1>6, <1>7, <3>2
    <3>3. CASE u # n
      <4>1. u <= n - 1
        BY <1>3, <3>1, <3>3
      <4>2. tree[l].subs[u].number = mods[l].subs[u]
        BY <1>1, <3>1, <4>1 DEF Like
      <4>3. QED
        BY <1>6, <1>7, <3>1, <3>3, <4>2
    <3>4. QED
      BY <3>2, <3>3
  <2>3. QED
    BY <2>1, <2>2 DEF Like
<1>12. stage = "link" => Len(slot.subs) < Len(mods[l].subs)
  BY <1>6, <1>7
<1>13. stage # "link" => Done(slot, mods[l])
  BY <1>2, <1>4, <1>6, <1>7, <1>11 DEF Done
<1>14. /\ stage \in {"link", "more", "idle"}
       /\ stage = "more" => Len(tree) < Len(mods)
       /\ stage = "idle" => Len(tree) = Len(mods)
  BY <1>1
<1>15. Shape(new, mods, stage)
  BY <1>1, <1>10, <1>11, <1>12, <1>13, <1>14 DEF Shape
<1>16. QED
  BY <1>10, <1>15

LEMMA SlotLinked ==
  ASSUME NEW tree \in Seq(Slot), NEW mods \in Seq(Plugged),
         Shape(tree, mods, "more"), NEW slot \in NewSlots, NEW new,
         new = Append(tree, slot)
  PROVE  new \in Seq(Slot) /\ Shape(new, mods, "slot")
         /\ Within(tree, new) /\ NoNewData(tree, new)
<1>1. slot \in Slot /\ slot.subs = <<>>
  <2>1. <<>> \in Seq(Subslot)
    OBVIOUS
  <2>2. QED
    BY <2>1, TreeAssumption DEF NewSlots, Slot
<1>2. /\ tree # <<>> /\ Len(tree) < Len(mods)
      /\ \A s \in DOMAIN tree : Done(tree[s], mods[s]) /\ tree[s].subs # <<>>
  BY DEF Shape
<1>3. /\ new \in Seq(Slot) /\ new # <<>> /\ Len(new) = Len(tree) + 1
      /\ DOMAIN new = DOMAIN tree \cup {Len(tree) + 1}
      /\ new[Len(tree) + 1] = slot
      /\ \A s \in DOMAIN tree : new[s] = tree[s]
  BY <1>1, AddElem
<1>4. Shape(new, mods, "slot")
  BY <1>1, <1>2, <1>3 DEF Shape
<1>5. Within(tree, new)
  BY <1>3 DEF Within
<1>6. NoNewData(tree, new)
  BY <1>1, <1>3 DEF NoNewData
<1>7. QED
  BY <1>3, <1>4, <1>5, <1>6

-----------------------------------------------------------------------------
(* Filling a tree.                                                         *)

LEMMA Smallest ==
  ASSUME NEW T, T \subseteq Nat, T # {}
  PROVE  \E x \in T : \A y \in T : x <= y
<1> DEFINE R == OpToRel(<, Nat)
<1>1. \A x, y \in Nat : <<x, y>> \in R <=> x < y
  BY DEF OpToRel
<1>2. IsWellFoundedOn(R, Nat)
  BY NatLessThanWellFounded, Zenon
<1> HIDE DEF R
<1>3. PICK x \in T : \A y \in T : ~ (<<y, x>> \in R)
  BY <1>2, WFMin
<1>4. ASSUME NEW y \in T PROVE x <= y
  <2>1. x \in Nat /\ y \in Nat /\ ~(<<y, x>> \in R)
    BY <1>3
  <2>2. ~(y < x)
    BY <1>1, <2>1
  <2>3. QED
    BY <2>1, <2>2
<1>5. QED
  BY <1>4

\* The handlers' walk along next finds a slot, or a subslot, with the number when
\* there is one.
LEMMA SlotOfIs ==
  ASSUME NEW S, NEW tree \in Seq(S), NEW n
  PROVE  \/ SlotOf(tree, n) = 0 /\ \A s \in DOMAIN tree : tree[s].number # n
         \/ SlotOf(tree, n) \in DOMAIN tree /\ tree[SlotOf(tree, n)].number = n
<1> DEFINE hits == {s \in DOMAIN tree : tree[s].number = n}
<1>1. CASE hits = {}
  BY <1>1 DEF SlotOf
<1>2. CASE hits # {}
  <2>1. hits \subseteq Nat
    OBVIOUS
  <2>2. \E s \in hits : \A t \in hits : s <= t
    BY <1>2, <2>1, Smallest
  <2>3. SlotOf(tree, n) = CHOOSE s \in hits : \A t \in hits : s <= t
    BY <1>2 DEF SlotOf
  <2>4. SlotOf(tree, n) \in hits
    BY <2>2, <2>3
  <2>5. QED
    BY <2>4
<1>3. QED
  BY <1>1, <1>2

\* The trees say the same is plugged.
SamePlan(old, new) ==
  /\ DOMAIN new = DOMAIN old
  /\ \A s \in DOMAIN old :
       /\ new[s].number = old[s].number
       /\ DOMAIN new[s].subs = DOMAIN old[s].subs
       /\ \A u \in DOMAIN old[s].subs :
            new[s].subs[u].number = old[s].subs[u].number

LEMMA SubsType ==
  ASSUME NEW tree \in Seq(Slot), NEW s \in DOMAIN tree
  PROVE  tree[s] \in Slot /\ tree[s].subs \in Seq(Subslot) /\ tree[s].number \in Nat
<1>1. tree[s] \in Slot
  OBVIOUS
<1>2. QED
  BY <1>1 DEF Slot

LEMMA SameLen ==
  ASSUME NEW S, NEW p \in Seq(S), NEW q \in Seq(S), DOMAIN p = DOMAIN q
  PROVE  Len(p) = Len(q) /\ (p = <<>> <=> q = <<>>)
  OBVIOUS

LEMMA SameShape ==
  ASSUME NEW old \in Seq(Slot), NEW new \in Seq(Slot), SamePlan(old, new),
         NEW mods, NEW stage, Shape(old, mods, stage)
  PROVE  Shape(new, mods, stage)
<1>1. Len(new) = Len(old) /\ new # <<>> /\ old # <<>>
  BY SameLen DEF SamePlan, Shape
<1>2. Len(old) \in DOMAIN old
  BY <1>1
<1>3. ASSUME NEW s \in DOMAIN old
      PROVE  /\ new[s].number = old[s].number
             /\ Len(new[s].subs) = Len(old[s].subs)
             /\ new[s].subs = <<>> <=> old[s].subs = <<>>
             /\ DOMAIN new[s].subs = DOMAIN old[s].subs
             /\ \A u \in DOMAIN old[s].subs :
                  new[s].subs[u].number = old[s].subs[u].number
  <2>1. s \in DOMAIN new /\ DOMAIN new[s].subs = DOMAIN old[s].subs
    BY DEF SamePlan
  <2>2. new[s].subs \in Seq(Subslot) /\ old[s].subs \in Seq(Subslot)
    BY <2>1, SubsType
  <2>3. Len(new[s].subs) = Len(old[s].subs)
          /\ (new[s].subs = <<>> <=> old[s].subs = <<>>)
    BY <2>1, <2>2, SameLen
  <2>4. QED
    BY <2>1, <2>3 DEF SamePlan
<1>4. ASSUME NEW s \in DOMAIN old, NEW real, NEW n
      PROVE  Like(old[s], real, n) => Like(new[s], real, n)
  BY <1>3 DEF Like
<1>5. ASSUME NEW s \in DOMAIN old, NEW real
      PROVE  Done(old[s], real) => Done(new[s], real)
  BY <1>3, <1>4 DEF Done
<1>6. DOMAIN new = DOMAIN old
  BY DEF SamePlan
<1>7. \A s \in DOMAIN new :
        s < Len(new) => Done(new[s], mods[s]) /\ new[s].subs # <<>>
  BY <1>1, <1>3, <1>5, <1>6 DEF Shape
<1>8. QED
  BY <1>1, <1>2, <1>3, <1>4, <1>5, <1>7 DEF Shape

\* new is the tree in which the subslot has its port data, the slot its I&M data.
MarksSub(tree, s, u, new) == new = [tree EXCEPT ![s].subs[u].answered = TRUE]

MarksSlot(tree, s, new) == new = [tree EXCEPT ![s].read = TRUE]

LEMMA SubMarked ==
  ASSUME NEW tree \in Seq(Slot), NEW s \in DOMAIN tree,
         NEW u \in DOMAIN tree[s].subs, NEW new,
         MarksSub(tree, s, u, new)
  PROVE  /\ new \in Seq(Slot) /\ SamePlan(tree, new)
         /\ new[s].subs[u].answered
         /\ \A i \in DOMAIN tree : \A j \in DOMAIN tree[i].subs :
              i # s \/ j # u =>
                new[i].subs[j].answered = tree[i].subs[j].answered
<1> DEFINE sub == [tree[s].subs[u] EXCEPT !.answered = TRUE]
           subs == [tree[s].subs EXCEPT ![u] = sub]
           slot == [tree[s] EXCEPT !.subs = subs]
<1>1. tree[s] \in Slot /\ tree[s].subs \in Seq(Subslot)
        /\ tree[s].subs[u] \in Subslot
  BY SubsType
<1>2. sub \in Subslot /\ sub.number = tree[s].subs[u].number
        /\ sub.answered = TRUE
  BY <1>1 DEF Subslot
<1> HIDE DEF sub
<1>3. /\ subs \in Seq(Subslot) /\ DOMAIN subs = DOMAIN tree[s].subs
      /\ subs[u] = sub
      /\ \A j \in DOMAIN tree[s].subs : j # u => subs[j] = tree[s].subs[j]
  BY <1>1, <1>2, SetElem
<1> HIDE DEF subs
<1>4. slot \in Slot /\ slot.number = tree[s].number /\ slot.subs = subs
  BY <1>1, <1>3 DEF Slot
<1>5. new = [tree EXCEPT ![s] = slot]
  BY <1>1 DEF subs, sub, MarksSub
<1> HIDE DEF slot
<1>6. /\ new \in Seq(Slot) /\ DOMAIN new = DOMAIN tree /\ new[s] = slot
      /\ \A i \in DOMAIN tree : i # s => new[i] = tree[i]
  BY <1>4, <1>5, SetElem
<1>7. SamePlan(tree, new)
  <2>1. /\ subs[u].number = tree[s].subs[u].number
        /\ \A j \in DOMAIN tree[s].subs :
             subs[j].number = tree[s].subs[j].number
    BY <1>2, <1>3
  <2>2. ASSUME NEW i \in DOMAIN tree
        PROVE  /\ new[i].number = tree[i].number
               /\ DOMAIN new[i].subs = DOMAIN tree[i].subs
               /\ \A j \in DOMAIN tree[i].subs :
                    new[i].subs[j].number = tree[i].subs[j].number
    <3>1. CASE i = s
      BY <1>3, <1>4, <1>6, <2>1, <3>1
    <3>2. CASE i # s
      BY <1>6, <3>2
    <3>3. QED
      BY <3>1, <3>2
  <2>3. QED
    BY <1>6, <2>2 DEF SamePlan
<1>8. new[s].subs[u].answered
  BY <1>2, <1>3, <1>4, <1>6
<1>9. \A i \in DOMAIN tree : \A j \in DOMAIN tree[i].subs :
        i # s \/ j # u => new[i].subs[j] = tree[i].subs[j]
  BY <1>3, <1>4, <1>6
<1>10. QED
  BY <1>6, <1>7, <1>8, <1>9

LEMMA SlotMarked ==
  ASSUME NEW tree \in Seq(Slot), NEW s \in DOMAIN tree, NEW new,
         MarksSlot(tree, s, new)
  PROVE  /\ new \in Seq(Slot) /\ SamePlan(tree, new)
         /\ \A i \in DOMAIN tree : new[i].subs = tree[i].subs
<1> DEFINE slot == [tree[s] EXCEPT !.read = TRUE]
<1>1. tree[s] \in Slot
  BY SubsType
<1>2. slot \in Slot /\ slot.number = tree[s].number /\ slot.subs = tree[s].subs
  BY <1>1 DEF Slot
<1>3. new = [tree EXCEPT ![s] = slot]
  BY <1>1 DEF MarksSlot
<1> HIDE DEF slot
<1>4. /\ new \in Seq(Slot) /\ DOMAIN new = DOMAIN tree /\ new[s] = slot
      /\ \A i \in DOMAIN tree : i # s => new[i] = tree[i]
  BY <1>2, <1>3, SetElem
<1>5. \A i \in DOMAIN tree :
        new[i].number = tree[i].number /\ new[i].subs = tree[i].subs
  BY <1>2, <1>4
<1>6. SamePlan(tree, new)
  BY <1>4, <1>5 DEF SamePlan
<1>7. QED
  BY <1>4, <1>5, <1>6

LEMMA SamePlanWithin ==
  ASSUME NEW old, NEW new, SamePlan(old, new) PROVE Within(old, new)
  BY DEF SamePlan, Within

-----------------------------------------------------------------------------
(* The main thread keeps the types and its walk.                           *)

LEMMA SlotsType ==
  ASSUME StateOK, NEW d \in Devices, NEW g \in DOMAIN trees[d],
         NEW s \in DOMAIN trees[d][g]
  PROVE  /\ trees[d] \in Seq(Seq(Slot)) /\ trees[d] # <<>>
         /\ trees[d][g] \in Seq(Slot) /\ trees[d][g][s] \in Slot
         /\ trees[d][g][s].subs \in Seq(Subslot)
         /\ trees[d][g][s].number \in Nat
<1>1. trees[d] \in Seq(Seq(Slot))
  BY DEF StateOK
<1>2. trees[d] # <<>> /\ trees[d][g] \in Seq(Slot)
  BY <1>1
<1>3. QED
  BY <1>1, <1>2, SubsType

LEMMA HereType ==
  ASSUME StateOK, WalkInv, Walking
  PROVE  /\ k \in Devices /\ cursor.gen \in DOMAIN trees[k]
         /\ cursor.slot \in DOMAIN trees[k][cursor.gen]
         /\ trees[k] \in Seq(Seq(Slot)) /\ trees[k] # <<>>
         /\ trees[k][cursor.gen] \in Seq(Slot)
         /\ Here \in Slot /\ Here.subs \in Seq(Subslot)
         /\ Current(k) \in Seq(Slot)
<1>1. /\ k \in Devices /\ cursor.gen \in DOMAIN trees[k]
      /\ cursor.slot \in DOMAIN trees[k][cursor.gen]
  BY DEF WalkInv
<1>2. QED
  BY <1>1, SlotsType, CurrentIs DEF Here

\* A request that main sends.
LEMMA AskType ==
  ASSUME StateOK, k \in Devices, NEW what \in {"slots", "port", "im"},
         NEW slot \in Nat, NEW sub \in Nat,
         requests' = requests \cup
                       {[what |-> what, d |-> k, slot |-> slot, sub |-> sub]}
  PROVE  requests' \subseteq Request
  BY DEF StateOK, Request

LEMMA MainTypes == StateOK /\ WalkInv /\ MainStep => StateOK'
<1> SUFFICES ASSUME StateOK, WalkInv, MainStep PROVE StateOK'
  OBVIOUS
<1> USE DEF mainVars, history
<1>1. Count \in Nat /\ k \in Nat /\ k >= 1
        /\ cursor \in [gen : Nat, slot : Nat, sub : Nat]
  BY TreeAssumption DEF StateOK, WalkInv
<1>2. CASE Launch
  BY <1>2 DEF Launch, StateOK
<1>3. CASE AskSlots
  <2>1. k \in Devices /\ k + 1 \in Nat
    BY <1>1, <1>3 DEF AskSlots, Devices
  <2>2. requests' \subseteq Request
    BY <1>3, <2>1, AskType DEF AskSlots, StateOK
  <2>3. QED
    BY <1>3, <2>1, <2>2 DEF AskSlots, StateOK
<1>4. CASE EnterDevice
  <2>1. k \in Devices
    BY <1>1, <1>4 DEF EnterDevice, Devices
  <2>2. Len(trees[k]) \in Nat
    BY <2>1 DEF StateOK
  <2>3. cursor' \in [gen : Nat, slot : Nat, sub : Nat] /\ k' \in Nat
          /\ mpc' \in {"device", "slot"}
    BY <1>1, <1>4, <2>2 DEF EnterDevice
  <2>4. QED
    BY <1>4, <2>3 DEF EnterDevice, StateOK
<1>5. CASE EnterSlot
  <2>1. cursor' \in [gen : Nat, slot : Nat, sub : Nat]
          /\ mpc' \in {"send", "next"}
    BY <1>1, <1>5 DEF EnterSlot
  <2>2. QED
    BY <1>5, <2>1 DEF EnterSlot, StateOK
<1>6. CASE Unresolved
  <2>1. k \in Devices
    BY <1>6 DEF Unresolved, WalkInv, Walking
  <2>2. QED
    BY <1>6, <2>1 DEF Unresolved, AfterSend, StateOK
<1>7. CASE FindSlot
  <2>1. Walking
    BY <1>7 DEF FindSlot, Walking
  <2>2. k \in Devices /\ k \in 0..Count /\ Current(k) \in Seq(Slot)
          /\ Len(trees[k]) \in Nat /\ cursor.slot >= 1
    BY <1>1, <2>1, HereType DEF Devices
  <2>3. UNCHANGED <<trees, job, phase, k, cursor, capture, late, missed, got>>
    BY <1>7 DEF FindSlot
  <2>4. CASE Die(k) /\ UNCHANGED <<seen, number, requests>>
    BY <2>2, <2>3, <2>4 DEF Die, StateOK
  <2>5. CASE cursor.slot <= Len(Current(k))
    <3>1. cursor.slot \in DOMAIN Current(k)
      BY <1>1, <2>2, <2>5
    <3>2. Current(k)[cursor.slot].number \in Nat
      BY <2>2, <3>1, SubsType
    <3>3. CASE /\ seen' = Len(trees[k]) /\ number' = Current(k)[cursor.slot].number
               /\ mpc' = "sub" /\ UNCHANGED <<requests, fault>>
      BY <2>2, <2>3, <3>2, <3>3 DEF StateOK
    <3>4. CASE /\ Ask("im", Current(k)[cursor.slot].number, 1)
               /\ mpc' = AfterSend /\ UNCHANGED <<seen, number, fault>>
      <4>1. requests' \subseteq Request
        BY <2>2, <3>2, <3>4, AskType DEF Ask
      <4>2. QED
        BY <2>3, <3>4, <4>1 DEF AfterSend, StateOK
    <3>5. QED
      BY <1>1, <1>7, <2>2, <2>5, <3>3, <3>4 DEF FindSlot
  <2>6. QED
    BY <1>7, <2>4, <2>5 DEF FindSlot
<1>8. CASE FindSubslot
  <2>1. k \in Devices /\ k \in 0..Count /\ seen \in DOMAIN trees[k]
          /\ cursor.slot \in DOMAIN trees[k][seen] /\ phase = 2
    BY <1>1, <1>8 DEF FindSubslot, WalkInv, Walking, Devices
  <2>2. SubsSeen \in Seq(Subslot)
    BY <2>1, SlotsType DEF SubsSeen
  <2>3. UNCHANGED <<trees, job, phase, k, cursor, seen, number, capture, late,
                    missed, got>>
    BY <1>8 DEF FindSubslot
  <2>4. CASE Die(k) /\ UNCHANGED requests
    BY <2>1, <2>3, <2>4 DEF Die, StateOK
  <2>5. CASE /\ cursor.sub <= Len(SubsSeen)
             /\ Ask("port", number, SubsSeen[cursor.sub].number)
             /\ mpc' = AfterSend /\ UNCHANGED fault
    <3>1. cursor.sub >= 1 /\ cursor.sub \in Nat
      <4>1. Here.subs \in Seq(Subslot) /\ cursor.sub \in DOMAIN Here.subs
        BY <1>8, <2>1, HereType DEF FindSubslot, WalkInv, Walking
      <4>2. QED
        BY <4>1
    <3>2. SubsSeen[cursor.sub] \in Subslot
      BY <2>2, <2>5, <3>1
    <3>3. SubsSeen[cursor.sub].number \in Nat /\ number \in Nat
      BY <3>2 DEF Subslot, StateOK
    <3>4. requests' \subseteq Request
      BY <2>1, <2>5, <3>3, AskType DEF Ask
    <3>5. QED
      BY <2>3, <2>5, <3>4 DEF AfterSend, StateOK
  <2>6. QED
    BY <1>8, <2>4, <2>5 DEF FindSubslot
<1>9. CASE NextSubslot
  <2>1. cursor' \in [gen : Nat, slot : Nat, sub : Nat]
          /\ mpc' \in {"send", "next"}
    BY <1>1, <1>9 DEF NextSubslot
  <2>2. QED
    BY <1>9, <2>1 DEF NextSubslot, StateOK
<1>10. CASE NextSlot
  <2> DEFINE on == [cursor EXCEPT !.slot = @ + 1]
  <2>1. on \in [gen : Nat, slot : Nat, sub : Nat]
    BY <1>1
  <2> HIDE DEF on
  <2>2. [on EXCEPT !.sub = 0] \in [gen : Nat, slot : Nat, sub : Nat]
    BY <2>1
  <2>3. NoCursor \in [gen : Nat, slot : Nat, sub : Nat]
    BY DEF NoCursor
  <2>4. cursor' = [on EXCEPT !.sub = 0] \/ cursor' = NoCursor
    BY <1>10, Zenon DEF NextSlot, on
  <2>5. mpc' \in {"slot", "device"} /\ (k' = k \/ k' = k + 1)
    BY <1>10, Zenon DEF NextSlot
  <2>6. UNCHANGED <<trees, job, phase, seen, number, capture, requests, history>>
    BY <1>10, Zenon DEF NextSlot
  <2>7. cursor' \in [gen : Nat, slot : Nat, sub : Nat]
    BY <2>2, <2>3, <2>4
  <2>8. k' \in Nat
    BY <1>1, <2>5
  <2>9. UNCHANGED history
    BY <2>6
  <2>10. QED
    BY <2>5, <2>6, <2>7, <2>8, <2>9 DEF StateOK
<1>11. CASE SendsOver
  BY <1>11 DEF SendsOver, StateOK
<1>12. CASE Join
  BY <1>12 DEF Join, StateOK
<1>13. QED
  BY <1>2, <1>3, <1>4, <1>5, <1>6, <1>7, <1>8, <1>9, <1>10, <1>11, <1>12
  DEF MainStep

LEMMA MainWalks == StateOK /\ WalkInv /\ MainStep => WalkInv'
<1> SUFFICES ASSUME StateOK, WalkInv, MainStep PROVE WalkInv'
  OBVIOUS
<1> USE DEF mainVars, history
<1>1. Count \in Nat /\ k \in Nat /\ k >= 1 /\ phase \in 1..3
        /\ cursor \in [gen : Nat, slot : Nat, sub : Nat]
        /\ trees \in [Devices -> Seq(Seq(Slot))]
        /\ \A d \in Devices : \A g \in DOMAIN trees[d] : trees[d][g] # <<>>
  BY TreeAssumption DEF StateOK, WalkInv
<1>2. trees' = trees
  BY DEF MainStep, Launch, AskSlots, EnterDevice, EnterSlot, Unresolved, FindSlot,
         FindSubslot, NextSubslot, NextSlot, SendsOver, Join
\* main stays in the slot, or leaves the walk.
<1>3. ASSUME UNCHANGED <<phase, k>>, Walking, mpc' \in {"send", "sub", "after", "next"},
             cursor'.gen = cursor.gen, cursor'.slot = cursor.slot,
             mpc' \in {"sub", "after"} => phase = 2,
             mpc' \in {"send", "sub", "after"} /\ phase = 2 =>
               cursor'.sub \in DOMAIN Here.subs,
             mpc' = "sub" =>
               seen' \in DOMAIN trees[k] /\ cursor.slot \in DOMAIN trees[k][seen']
      PROVE  WalkInv'
  BY <1>1, <1>2, <1>3 DEF WalkInv, Walking, Here
<1>4. ASSUME k' >= 1, ~Walking', mpc' # "slot" PROVE WalkInv'
  BY <1>1, <1>2, <1>4 DEF WalkInv, Walking
<1>5. CASE Launch \/ AskSlots \/ SendsOver \/ Join
  BY <1>1, <1>4, <1>5 DEF Launch, AskSlots, SendsOver, Join, Walking
<1>6. CASE EnterDevice
  <2>1. k \in Devices /\ phase > 1
    BY <1>1, <1>6 DEF EnterDevice, Devices
  <2>2. CASE trees[k] = <<>>
    BY <1>1, <1>4, <1>6, <2>2 DEF EnterDevice, Walking
  <2>3. CASE trees[k] # <<>>
    <3>1. /\ cursor' = [gen |-> Len(trees[k]), slot |-> 1, sub |-> 0]
          /\ mpc' = "slot" /\ UNCHANGED <<k, phase>>
      BY <1>6, <2>3 DEF EnterDevice
    <3>2. trees[k] \in Seq(Seq(Slot)) /\ Len(trees[k]) \in DOMAIN trees[k]
      BY <1>1, <2>1, <2>3
    <3>3. trees[k][Len(trees[k])] \in Seq(Slot) /\ trees[k][Len(trees[k])] # <<>>
      BY <1>1, <2>1, <3>2
    <3>4. 1 \in DOMAIN trees[k][Len(trees[k])]
      BY <3>3
    <3>5. QED
      BY <1>1, <1>2, <2>1, <3>1, <3>2, <3>4 DEF WalkInv, Walking
  <2>4. QED
    BY <2>2, <2>3
<1>7. CASE EnterSlot
  <2>1. Walking /\ UNCHANGED <<phase, k>>
    BY <1>7 DEF EnterSlot, Walking
  <2>2. Here.subs \in Seq(Subslot)
    BY <2>1, HereType
  <2>3. CASE phase = 2 /\ Here.subs # <<>>
               /\ mpc' = "send" /\ cursor' = [cursor EXCEPT !.sub = 1]
    <3>1. cursor'.gen = cursor.gen /\ cursor'.slot = cursor.slot /\ cursor'.sub = 1
      BY <1>1, <2>3
    <3>2. 1 \in DOMAIN Here.subs
      BY <2>2, <2>3
    <3>3. QED
      BY <1>3, <2>1, <2>3, <3>1, <3>2
  <2>4. CASE mpc' = "next" /\ cursor' = cursor
    BY <1>3, <2>1, <2>4
  <2>5. CASE phase = 3 /\ mpc' = "send" /\ cursor' = cursor
    BY <1>3, <2>1, <2>5
  <2>6. QED
    BY <1>7, <2>3, <2>4, <2>5 DEF EnterSlot
<1>8. CASE Unresolved
  BY <1>3, <1>8 DEF Unresolved, AfterSend, WalkInv, Walking
<1>9. CASE FindSlot
  <2>1. Walking /\ UNCHANGED <<phase, k, cursor>> /\ mpc = "send"
    BY <1>9 DEF FindSlot, Walking
  <2>2. CASE mpc' = "dead"
    BY <1>1, <1>4, <2>1, <2>2 DEF Walking
  <2>3. CASE /\ cursor.slot <= Len(Current(k)) /\ phase = 2
             /\ seen' = Len(trees[k]) /\ mpc' = "sub"
    <3>1. trees[k] # <<>> /\ k \in Devices /\ cursor.slot >= 1
      BY <1>1, <2>1, HereType
    <3>2. Len(trees[k]) \in DOMAIN trees[k] /\ Current(k) = trees[k][Len(trees[k])]
            /\ Current(k) \in Seq(Slot)
      BY <3>1, CurrentIs
    <3>3. cursor.slot \in DOMAIN trees[k][seen']
      BY <1>1, <2>3, <3>1, <3>2
    <3>4. QED
      BY <1>3, <2>1, <2>3, <3>2, <3>3 DEF WalkInv
  <2>4. CASE phase = 3 /\ mpc' = AfterSend
    BY <1>3, <2>1, <2>4 DEF AfterSend
  <2>5. QED
    BY <1>9, <2>2, <2>3, <2>4 DEF FindSlot, Die
<1>10. CASE FindSubslot
  <2>1. Walking /\ UNCHANGED <<phase, k, cursor>> /\ mpc = "sub" /\ phase = 2
    BY <1>10 DEF FindSubslot, Walking, WalkInv
  <2>2. CASE mpc' = "dead"
    BY <1>1, <1>4, <2>1, <2>2 DEF Walking
  <2>3. CASE mpc' = AfterSend
    BY <1>3, <2>1, <2>3 DEF AfterSend, WalkInv
  <2>4. QED
    BY <1>10, <2>2, <2>3 DEF FindSubslot, Die
<1>11. CASE NextSubslot
  <2>1. Walking /\ UNCHANGED <<phase, k>> /\ mpc = "after" /\ phase = 2
    BY <1>11 DEF NextSubslot, Walking, WalkInv
  <2>2. CASE /\ cursor.sub < Len(Here.subs) /\ mpc' = "send"
             /\ cursor' = [cursor EXCEPT !.sub = @ + 1]
    <3>1. /\ cursor'.gen = cursor.gen /\ cursor'.slot = cursor.slot
          /\ cursor'.sub = cursor.sub + 1
      BY <1>1, <2>2
    <3>2. Here.subs \in Seq(Subslot)
      BY <2>1, HereType
    <3>3. cursor'.sub \in DOMAIN Here.subs
      BY <1>1, <2>2, <3>1, <3>2
    <3>4. QED
      BY <1>3, <2>1, <2>2, <3>1, <3>3
  <2>3. CASE mpc' = "next" /\ cursor' = cursor
    BY <1>3, <2>1, <2>3
  <2>4. QED
    BY <1>11, <2>2, <2>3 DEF NextSubslot
<1>12. CASE NextSlot
  <2>1. Walking /\ phase' = phase
    BY <1>12 DEF NextSlot, Walking
  <2>2. CASE /\ cursor.slot < Len(trees[k][cursor.gen]) /\ mpc' = "slot"
             /\ cursor' = [cursor EXCEPT !.slot = @ + 1, !.sub = 0] /\ k' = k
    <3>1. cursor'.gen = cursor.gen /\ cursor'.slot = cursor.slot + 1
      BY <1>1, <2>2
    <3>2. trees[k][cursor.gen] \in Seq(Slot) /\ cursor.gen \in DOMAIN trees[k]
            /\ k \in Devices /\ phase > 1
      BY <2>1, HereType DEF WalkInv
    <3>3. cursor'.slot \in DOMAIN trees[k][cursor.gen]
      BY <1>1, <2>2, <3>1, <3>2
    <3>4. QED
      BY <1>1, <1>2, <2>1, <2>2, <3>1, <3>2, <3>3 DEF WalkInv, Walking
  <2>3. CASE mpc' = "device" /\ k' = k + 1
    BY <1>1, <1>4, <2>3 DEF Walking
  <2>4. QED
    BY <1>12, <2>2, <2>3 DEF NextSlot
<1>13. QED
  BY <1>5, <1>6, <1>7, <1>8, <1>9, <1>10, <1>11, <1>12 DEF MainStep

-----------------------------------------------------------------------------
(* What the handlers do to the trees.                                      *)

LEMMA ModulesType ==
  ASSUME NEW d \in Devices PROVE Modules[d] \in Seq(Plugged)
  BY TreeAssumption

\* The tree that is being built, one step further.
LEMMA BuildStep ==
  ASSUME StateOK, PlugInv,
         FillSlot \/ LinkSubslot \/ FillSubslot \/ LinkSlot
  PROVE  /\ UNCHANGED <<mainVars, capture, requests, history>>
         /\ job # NoJob /\ job.d \in Devices /\ trees[job.d] # <<>>
         /\ job' = NoJob \/ (job' \in [d : {job.d}, stage : {"slot", "link",
                                                     "subslot", "more"}])
         /\ \E new \in Seq(Slot) :
              /\ trees' = WithTree(job.d, new)
              /\ Shape(new, Modules[job.d],
                       IF job' = NoJob THEN "idle" ELSE job'.stage)
              /\ Within(Current(job.d), new) /\ NoNewData(Current(job.d), new)
<1>1. job.stage # "idle" => job # NoJob
  BY DEF NoJob
<1>2. job.stage \in {"slot", "link", "subslot", "more"}
  BY DEF FillSlot, LinkSubslot, FillSubslot, LinkSlot, Building
<1>3. job # NoJob /\ job \in [d : Devices, stage : {"slot", "link", "subslot", "more"}]
  BY <1>1, <1>2 DEF StateOK
<1>4. job.d \in Devices /\ trees[job.d] # <<>>
        /\ Shape(Tree, Modules[job.d], job.stage)
  BY <1>3 DEF PlugInv, StageOf, Tree
<1>5. Tree \in Seq(Slot) /\ Modules[job.d] \in Seq(Plugged) /\ Tree = Current(job.d)
  BY <1>4, CurrentIs, ModulesType DEF Tree
<1>6. \A s \in {"slot", "link", "subslot", "more"} :
        /\ [job EXCEPT !.stage = s] # NoJob
        /\ [job EXCEPT !.stage = s].stage = s
        /\ [job EXCEPT !.stage = s] \in
             [d : {job.d}, stage : {"slot", "link", "subslot", "more"}]
  BY <1>3 DEF NoJob, Devices
<1>7. CASE FillSlot
  <2> DEFINE new == [Tree EXCEPT ![At].number = Real.number]
             stage == IF Ends(Real.subs) THEN "idle" ELSE "link"
  <2>1. /\ trees' = WithTree(job.d, new)
        /\ job' = IF Ends(Real.subs) THEN NoJob ELSE [job EXCEPT !.stage = "link"]
        /\ UNCHANGED <<mainVars, capture, requests, history>>
        /\ job.stage = "slot"
    BY <1>7 DEF FillSlot, Building
  <2>2. /\ new \in Seq(Slot) /\ Shape(new, Modules[job.d], stage)
        /\ Within(Tree, new) /\ NoNewData(Tree, new)
    BY <1>4, <1>5, <2>1, SlotFilled DEF At, Real
  <2> HIDE DEF new
  <2>3. stage = IF job' = NoJob THEN "idle" ELSE job'.stage
    BY <1>6, <2>1
  <2>4. QED
    BY <1>3, <1>4, <1>5, <1>6, <2>1, <2>2, <2>3
<1>8. CASE LinkSubslot
  <2>1. PICK sub \in NewSubslots :
          trees' = WithTree(job.d, [Tree EXCEPT ![At].subs = Append(@, sub)])
    BY <1>8 DEF LinkSubslot
  <2> DEFINE new == [Tree EXCEPT ![At].subs = Append(@, sub)]
  <2>2. /\ job' = [job EXCEPT !.stage = "subslot"] /\ job.stage = "link"
        /\ UNCHANGED <<mainVars, capture, requests, history>>
    BY <1>8 DEF LinkSubslot, Building
  <2>3. /\ new \in Seq(Slot) /\ Shape(new, Modules[job.d], "subslot")
        /\ Within(Tree, new) /\ NoNewData(Tree, new)
    BY <1>4, <1>5, <2>2, SubslotLinked DEF At
  <2>4. trees' = WithTree(job.d, new)
    BY <2>1
  <2> HIDE DEF new
  <2>5. QED
    BY <1>3, <1>4, <1>5, <1>6, <2>2, <2>3, <2>4
<1>9. CASE FillSubslot
  <2> DEFINE n == Len(Tree[At].subs)
             new == [Tree EXCEPT ![At].subs[n].number = Real.subs[n]]
             stage == IF n < Len(Real.subs) THEN "link"
                      ELSE IF MoreSlots THEN "more" ELSE "idle"
  <2>1. /\ trees' = WithTree(job.d, new)
        /\ job' = IF n < Len(Real.subs) THEN [job EXCEPT !.stage = "link"]
                  ELSE IF MoreSlots THEN [job EXCEPT !.stage = "more"] ELSE NoJob
        /\ UNCHANGED <<mainVars, capture, requests, history>>
        /\ job.stage = "subslot"
    BY <1>9 DEF FillSubslot, Building
  <2>2. /\ new \in Seq(Slot) /\ Shape(new, Modules[job.d], stage)
        /\ Within(Tree, new) /\ NoNewData(Tree, new)
    <3>1. Shape(Tree, Modules[job.d], "subslot")
      BY <1>4, <2>1
    <3>2. n = Len(Tree[Len(Tree)].subs)
      BY DEF At
    <3>3. new = [Tree EXCEPT ![Len(Tree)].subs[n].number =
                               Modules[job.d][Len(Tree)].subs[n]]
      BY Zenon DEF At, Real
    <3>4. stage = IF n < Len(Modules[job.d][Len(Tree)].subs) THEN "link"
                  ELSE IF Len(Tree) < Len(Modules[job.d]) THEN "more" ELSE "idle"
      BY DEF At, Real, MoreSlots
    <3> HIDE DEF n, new, stage
    <3>5. QED
      BY <1>5, <3>1, <3>2, <3>3, <3>4, SubslotFilled, Zenon
  <2> HIDE DEF new
  <2>3. stage = IF job' = NoJob THEN "idle" ELSE job'.stage
    BY <1>6, <2>1
  <2>4. job' = NoJob \/ job' \in
          [d : {job.d}, stage : {"slot", "link", "subslot", "more"}]
    BY <1>6, <2>1
  <2>5. QED
    BY <1>3, <1>4, <1>5, <2>1, <2>2, <2>3, <2>4
<1>10. CASE LinkSlot
  <2>1. PICK slot \in NewSlots : trees' = WithTree(job.d, Append(Tree, slot))
    BY <1>10 DEF LinkSlot
  <2> DEFINE new == Append(Tree, slot)
  <2>2. /\ job' = [job EXCEPT !.stage = "slot"] /\ job.stage = "more"
        /\ UNCHANGED <<mainVars, capture, requests, history>>
    BY <1>10 DEF LinkSlot, Building
  <2>3. /\ new \in Seq(Slot) /\ Shape(new, Modules[job.d], "slot")
        /\ Within(Tree, new) /\ NoNewData(Tree, new)
    BY <1>4, <1>5, <2>2, SlotLinked
  <2>4. trees' = WithTree(job.d, new)
    BY <2>1
  <2> HIDE DEF new
  <2>5. QED
    BY <1>3, <1>4, <1>5, <1>6, <2>2, <2>3, <2>4
<1>11. QED
  BY <1>7, <1>8, <1>9, <1>10

\* A new tree is begun.
LEMMA TakeStep ==
  ASSUME StateOK, TakeSlots
  PROVE  /\ UNCHANGED <<mainVars, capture, requests, missed, got, fault>>
         /\ capture /\ job = NoJob
         /\ trees' \in [Devices -> Seq(Seq(Slot))]
         /\ \E d \in Devices, slot \in NewSlots :
              /\ late' = IF phase = 1 THEN late ELSE late \cup {d}
              /\ job' = [d |-> d, stage |-> "slot"]
              /\ \A e \in Devices : e # d => trees'[e] = trees[e]
              /\ trees'[d] # <<>> /\ Current(d)' = <<slot>>
              /\ Shape(<<slot>>, Modules[d], "slot") /\ slot.subs = <<>>
              /\ DOMAIN trees'[d] = DOMAIN trees[d] \cup {Len(trees[d]) + 1}
              /\ trees'[d][Len(trees[d]) + 1] = <<slot>>
              /\ \A g \in DOMAIN trees[d] : trees'[d][g] = trees[d][g]
<1>1. PICK d \in Devices, slot \in NewSlots :
        /\ Handling /\ Modules[d] # <<>>
        /\ trees' = [trees EXCEPT ![d] = Append(@, <<slot>>)]
        /\ job' = [d |-> d, stage |-> "slot"]
        /\ late' = IF phase = 1 THEN late ELSE late \cup {d}
        /\ UNCHANGED <<mainVars, capture, requests, missed, got, fault>>
  BY DEF TakeSlots
<1>2. slot \in Slot /\ slot.subs = <<>>
  <2>1. <<>> \in Seq(Subslot)
    OBVIOUS
  <2>2. QED
    BY <2>1, TreeAssumption DEF NewSlots, Slot
<1> DEFINE tree == <<slot>>
<1>3. /\ tree \in Seq(Slot) /\ tree # <<>> /\ Len(tree) = 1 /\ tree[1] = slot
      /\ DOMAIN tree = {1}
  BY <1>2
<1> HIDE DEF tree
<1>4. Modules[d] \in Seq(Plugged) /\ Len(Modules[d]) >= 1
  BY <1>1, ModulesType
<1>5. Shape(tree, Modules[d], "slot")
  BY <1>2, <1>3, <1>4 DEF Shape
<1>6. trees \in [Devices -> Seq(Seq(Slot))] /\ trees[d] \in Seq(Seq(Slot))
  BY DEF StateOK
<1> DEFINE q == Append(trees[d], tree)
<1>7. /\ q \in Seq(Seq(Slot)) /\ q # <<>> /\ Len(q) = Len(trees[d]) + 1
      /\ DOMAIN q = DOMAIN trees[d] \cup {Len(trees[d]) + 1}
      /\ q[Len(trees[d]) + 1] = tree
      /\ \A g \in DOMAIN trees[d] : q[g] = trees[d][g]
  BY <1>3, <1>6, AddElem
<1>8. trees' = [trees EXCEPT ![d] = q]
  BY <1>1 DEF tree
<1> HIDE DEF q
<1>9. trees' \in [Devices -> Seq(Seq(Slot))] /\ trees'[d] = q
        /\ \A e \in Devices : e # d => trees'[e] = trees[e]
  BY <1>6, <1>7, <1>8
<1>10. Current(d)' = tree
  BY <1>7, <1>9 DEF Current
<1>11. capture /\ job = NoJob
  BY <1>1 DEF Handling
<1>12. QED
  BY <1>1, <1>2, <1>5, <1>7, <1>9, <1>10, <1>11 DEF tree

\* Port data, or I&M data, are put where the numbers match; or NULL is
\* dereferenced.
LEMMA PortStep ==
  ASSUME StateOK, RequestInv, TakePort
  PROVE  /\ UNCHANGED <<job, phase, k, cursor, seen, number, capture, requests,
                        late, missed>>
         /\ capture /\ job = NoJob
         /\ \E r \in requests :
              /\ r.what = "port" /\ r.d \in Devices /\ trees[r.d] # <<>>
              /\ got' = got \cup {<<r.d, r.slot, r.sub>>}
              /\ HasSubslot(r)
              /\ \/ /\ Die(r.d) /\ trees' = trees
                    /\ ~Names(Current(r.d), r) \/
                       \E s, t \in DOMAIN Current(r.d) :
                         s # t /\ Current(r.d)[s].number = Current(r.d)[t].number
                 \/ \E new \in Seq(Slot) :
                      /\ trees' = WithTree(r.d, new) /\ SamePlan(Current(r.d), new)
                      /\ UNCHANGED <<mpc, fault>>
                      /\ \E s \in DOMAIN new : \E u \in DOMAIN new[s].subs :
                           /\ new[s].number = r.slot /\ new[s].subs[u].number = r.sub
                           /\ new[s].subs[u].answered
                           /\ \A i \in DOMAIN new : \A j \in DOMAIN new[i].subs :
                                i # s \/ j # u =>
                                  new[i].subs[j].answered =
                                    Current(r.d)[i].subs[j].answered
<1>1. PICK r \in requests :
        /\ Handling /\ r.what = "port" /\ HasSubslot(r)
        /\ got' = got \cup {<<r.d, r.slot, r.sub>>}
        /\ \/ /\ SubslotIn(Current(r.d), r)[2] = 0 /\ Die(r.d) /\ UNCHANGED trees
           \/ /\ SubslotIn(Current(r.d), r)[2] > 0
              /\ trees' = WithTree(r.d,
                   [Current(r.d) EXCEPT
                      ![SubslotIn(Current(r.d), r)[1]]
                       .subs[SubslotIn(Current(r.d), r)[2]].answered = TRUE])
              /\ UNCHANGED <<mpc, fault>>
        /\ UNCHANGED <<job, phase, k, cursor, seen, number, capture, requests,
                       late, missed>>
  BY DEF TakePort
<1> DEFINE tree == Current(r.d)
           s == SlotOf(tree, r.slot)
           u == SlotOf(tree[s].subs, r.sub)
<1>2. r.d \in Devices /\ trees[r.d] # <<>> /\ tree \in Seq(Slot)
  <2>1. r.d \in Devices
    BY DEF StateOK, Request
  <2>2. trees[r.d] # <<>>
    BY <1>1 DEF RequestInv
  <2>3. QED
    BY <2>1, <2>2, CurrentIs
<1> HIDE DEF tree
<1>3. \/ s = 0 /\ \A i \in DOMAIN tree : tree[i].number # r.slot
      \/ s \in DOMAIN tree /\ tree[s].number = r.slot
  BY <1>2, SlotOfIs
<1>4. SubslotIn(tree, r) = <<s, IF s = 0 THEN 0 ELSE u>>
  BY DEF SubslotIn
<1>5. s \in DOMAIN tree => /\ s # 0 /\ tree[s].subs \in Seq(Subslot)
  BY <1>2, SubsType
<1>6. s \in DOMAIN tree =>
        \/ u = 0 /\ \A i \in DOMAIN tree[s].subs : tree[s].subs[i].number # r.sub
        \/ u \in DOMAIN tree[s].subs /\ tree[s].subs[u].number = r.sub
  BY <1>5, SlotOfIs
<1>7. CASE SubslotIn(tree, r)[2] = 0 /\ Die(r.d) /\ UNCHANGED trees
  <2>1. ASSUME Names(tree, r)
        PROVE  \E i, j \in DOMAIN tree : i # j /\ tree[i].number = tree[j].number
    <3>1. PICK i \in DOMAIN tree :
            /\ tree[i].number = r.slot
            /\ \E v \in DOMAIN tree[i].subs : tree[i].subs[v].number = r.sub
      BY <1>1, <2>1 DEF Names
    <3>2. s \in DOMAIN tree /\ tree[s].number = r.slot
      BY <1>3, <3>1
    <3>3. u = 0
      BY <1>4, <1>5, <1>7, <3>2
    <3>4. u \notin DOMAIN tree[s].subs
      BY <1>5, <3>2, <3>3
    <3>5. i # s
      BY <1>6, <3>1, <3>2, <3>4
    <3>6. QED
      BY <3>1, <3>2, <3>5
  <2>2. QED
    BY <1>1, <1>2, <1>7, <2>1 DEF tree, Handling
<1>8. CASE /\ SubslotIn(tree, r)[2] > 0
           /\ trees' = WithTree(r.d,
                [tree EXCEPT ![SubslotIn(tree, r)[1]]
                               .subs[SubslotIn(tree, r)[2]].answered = TRUE])
           /\ UNCHANGED <<mpc, fault>>
  <2> DEFINE i == SubslotIn(tree, r)[1]
             j == SubslotIn(tree, r)[2]
             new == [tree EXCEPT ![i].subs[j].answered = TRUE]
  <2>1. trees' = WithTree(r.d, new) /\ UNCHANGED <<mpc, fault>> /\ j > 0
    BY <1>8, Zenon
  <2> HIDE DEF s, u
  <2>2. s # 0 /\ u > 0 /\ i = s /\ j = u
    <3>1. i = s /\ j = IF s = 0 THEN 0 ELSE u
      BY <1>4
    <3>2. QED
      BY <2>1, <3>1
  <2>3. /\ i \in DOMAIN tree /\ tree[i].number = r.slot
        /\ j \in DOMAIN tree[i].subs /\ tree[i].subs[j].number = r.sub
    BY <1>3, <1>6, <2>2
  <2>4. MarksSub(tree, i, j, new)
    BY Zenon DEF MarksSub
  <2> HIDE DEF i, j, new
  <2>5. /\ new \in Seq(Slot) /\ SamePlan(tree, new)
        /\ new[i].subs[j].answered
        /\ \A a \in DOMAIN tree : \A b \in DOMAIN tree[a].subs :
             a # i \/ b # j =>
               new[a].subs[b].answered = tree[a].subs[b].answered
    BY <1>2, <2>3, <2>4, SubMarked
  <2>6. /\ i \in DOMAIN new /\ j \in DOMAIN new[i].subs
        /\ new[i].number = r.slot /\ new[i].subs[j].number = r.sub
        /\ \A a \in DOMAIN new : a \in DOMAIN tree
             /\ DOMAIN new[a].subs = DOMAIN tree[a].subs
    BY <2>3, <2>5 DEF SamePlan
  <2>7. \E a \in DOMAIN new : \E b \in DOMAIN new[a].subs :
          /\ new[a].number = r.slot /\ new[a].subs[b].number = r.sub
          /\ new[a].subs[b].answered
          /\ \A v \in DOMAIN new : \A w \in DOMAIN new[v].subs :
               v # a \/ w # b =>
                 new[v].subs[w].answered = tree[v].subs[w].answered
    BY <2>5, <2>6
  <2>8. r.what = "port" /\ HasSubslot(r) /\ got' = got \cup {<<r.d, r.slot, r.sub>>}
          /\ UNCHANGED <<job, phase, k, cursor, seen, number, capture, requests,
                         late, missed>>
          /\ capture /\ job = NoJob
    BY <1>1, Zenon DEF Handling
  <2>9. QED
    BY <1>2, <2>1, <2>5, <2>7, <2>8 DEF tree
<1>9. QED
  BY <1>1, <1>7, <1>8 DEF tree

LEMMA IMStep ==
  ASSUME StateOK, RequestInv, TakeIM
  PROVE  /\ UNCHANGED <<job, phase, k, cursor, seen, number, capture, requests,
                        late, missed, got>>
         /\ capture /\ job = NoJob
         /\ \E r \in requests :
              /\ r.what = "im" /\ r.d \in Devices /\ trees[r.d] # <<>>
              /\ \/ Die(r.d) /\ trees' = trees /\ ~Names(Current(r.d), r)
                 \/ \E new \in Seq(Slot) :
                      /\ trees' = WithTree(r.d, new) /\ SamePlan(Current(r.d), new)
                      /\ UNCHANGED <<mpc, fault>>
                      /\ \A i \in DOMAIN new : new[i].subs = Current(r.d)[i].subs
<1>1. PICK r \in requests :
        /\ Handling /\ r.what = "im"
        /\ \/ /\ SlotOf(Current(r.d), r.slot) = 0 /\ Die(r.d) /\ UNCHANGED trees
           \/ /\ SlotOf(Current(r.d), r.slot) > 0
              /\ trees' = WithTree(r.d,
                   [Current(r.d) EXCEPT ![SlotOf(Current(r.d), r.slot)].read = TRUE])
              /\ UNCHANGED <<mpc, fault>>
        /\ UNCHANGED <<job, phase, k, cursor, seen, number, capture, requests,
                       late, missed, got>>
  BY DEF TakeIM
<1> DEFINE tree == Current(r.d)
           s == SlotOf(tree, r.slot)
<1>2. r.d \in Devices /\ trees[r.d] # <<>> /\ tree \in Seq(Slot)
  <2>1. r.d \in Devices
    BY DEF StateOK, Request
  <2>2. trees[r.d] # <<>>
    BY <1>1 DEF RequestInv
  <2>3. QED
    BY <2>1, <2>2, CurrentIs
<1> HIDE DEF tree
<1>3. \/ s = 0 /\ \A i \in DOMAIN tree : tree[i].number # r.slot
      \/ s \in DOMAIN tree /\ tree[s].number = r.slot
  BY <1>2, SlotOfIs
<1>4. CASE s = 0 /\ Die(r.d) /\ UNCHANGED trees
  <2>1. 0 \notin DOMAIN tree
    BY <1>2
  <2>2. ~Names(tree, r)
    BY <1>3, <1>4, <2>1 DEF Names
  <2>3. QED
    BY <1>1, <1>2, <1>4, <2>2 DEF tree, Handling
<1>5. CASE /\ s > 0 /\ trees' = WithTree(r.d, [tree EXCEPT ![s].read = TRUE])
           /\ UNCHANGED <<mpc, fault>>
  <2> DEFINE new == [tree EXCEPT ![s].read = TRUE]
  <2>1. trees' = WithTree(r.d, new) /\ UNCHANGED <<mpc, fault>> /\ s > 0
    BY <1>5, Zenon
  <2>2. s \in DOMAIN tree
    BY <1>3, <2>1
  <2>3. MarksSlot(tree, s, new)
    BY Zenon DEF MarksSlot
  <2> HIDE DEF s, new
  <2>4. /\ new \in Seq(Slot) /\ SamePlan(tree, new)
        /\ \A i \in DOMAIN tree : new[i].subs = tree[i].subs
    BY <1>2, <2>2, <2>3, SlotMarked
  <2>5. \A i \in DOMAIN new : new[i].subs = tree[i].subs
    BY <2>4 DEF SamePlan
  <2>6. r.what = "im" /\ capture /\ job = NoJob
          /\ UNCHANGED <<job, phase, k, cursor, seen, number, capture, requests,
                         late, missed, got>>
    BY <1>1, Zenon DEF Handling
  <2>7. QED
    BY <1>2, <2>1, <2>4, <2>5, <2>6 DEF tree
<1>6. QED
  BY <1>1, <1>4, <1>5 DEF tree

-----------------------------------------------------------------------------
(* A handler's step changes one device's trees.                            *)

OnlyTree(d) ==
  /\ trees' \in [Devices -> Seq(Seq(Slot))]
  /\ \A e \in Devices : e # d => trees'[e] = trees[e]
  /\ trees'[d] # <<>> /\ DOMAIN trees[d] \subseteq DOMAIN trees'[d]
  /\ \A g \in DOMAIN trees'[d] : trees'[d][g] # <<>>
  /\ \A g \in DOMAIN trees[d] : Within(trees[d][g], trees'[d][g])

\* Without a late answer the tree says what it said.
Settles(d) ==
  /\ Shape(Current(d)', Modules[d], StageOf(d)')
  /\ \A e \in Devices : e # d => StageOf(e)' = StageOf(e)
  /\ job' # NoJob => job'.d = d /\ (phase > 1 => d \in late')
  /\ phase > 1 /\ d \notin late' =>
       Len(trees'[d]) = Len(trees[d]) /\ SamePlan(Current(d), Current(d)')

Jobs == [d : Devices, stage : {"slot", "link", "subslot", "more"}] \cup {NoJob}

LEMMA WithinItself == ASSUME NEW tree PROVE Within(tree, tree)
  BY DEF Within

LEMMA SamePlanItself == ASSUME NEW tree PROVE SamePlan(tree, tree)
  BY DEF SamePlan

LEMMA TreeReplaced ==
  ASSUME StateOK, WalkInv, NEW d \in Devices, trees[d] # <<>>,
         NEW new \in Seq(Slot), new # <<>>, trees' = WithTree(d, new),
         Within(Current(d), new)
  PROVE  /\ OnlyTree(d) /\ Current(d)' = new /\ Len(trees'[d]) = Len(trees[d])
<1>1. /\ trees' \in [Devices -> Seq(Seq(Slot))]
      /\ \A e \in Devices : e # d => trees'[e] = trees[e]
      /\ trees'[d] # <<>> /\ Len(trees'[d]) = Len(trees[d])
      /\ trees'[d][Len(trees[d])] = new
      /\ \A g \in DOMAIN trees[d] :
           g # Len(trees[d]) => trees'[d][g] = trees[d][g]
  BY WithTreeIs
<1>2. Current(d)' = new
  BY <1>1 DEF Current
<1>3. DOMAIN trees'[d] = DOMAIN trees[d]
  BY <1>1 DEF StateOK
<1>4. Current(d) = trees[d][Len(trees[d])]
  BY DEF Current
<1>5. \A g \in DOMAIN trees'[d] : trees'[d][g] # <<>>
  BY <1>1, <1>3 DEF WalkInv
<1>6. \A g \in DOMAIN trees[d] : Within(trees[d][g], trees'[d][g])
  BY <1>1, <1>4, WithinItself
<1>7. QED
  BY <1>1, <1>2, <1>3, <1>5, <1>6 DEF OnlyTree

LEMMA TreeKept ==
  ASSUME StateOK, WalkInv, NEW d \in Devices, trees[d] # <<>>, trees' = trees
  PROVE  OnlyTree(d) /\ Current(d)' = Current(d) /\ Len(trees'[d]) = Len(trees[d])
<1>1. \A g \in DOMAIN trees[d] : Within(trees[d][g], trees'[d][g])
  BY WithinItself
<1>2. \A g \in DOMAIN trees'[d] : trees'[d][g] # <<>>
  BY DEF WalkInv
<1>3. QED
  BY <1>1, <1>2 DEF OnlyTree, Current, StateOK

LEMMA NoJobIdle ==
  /\ \A d \in Devices : job = NoJob => StageOf(d) = "idle"
  /\ \A d \in Devices : job' = NoJob => StageOf(d)' = "idle"
  BY DEF StageOf, NoJob, Devices

LEMMA HandlerTrees ==
  ASSUME StateOK, WalkInv, PlugInv, RequestInv, HandlerStep
  PROVE  /\ UNCHANGED <<phase, k, cursor, seen, number, capture, requests,
                        missed>>
         /\ capture /\ mpc' \in {mpc, "dead"}
         /\ late \subseteq late' /\ late' \subseteq Devices /\ job' \in Jobs
         /\ \E d \in Devices : OnlyTree(d) /\ Settles(d)
<1>1. late \subseteq Devices /\ job \in Jobs
  BY DEF StateOK, Jobs
<1>2. CASE FillSlot \/ LinkSubslot \/ FillSubslot \/ LinkSlot
  <2>1. PICK d \in Devices : d = job.d
    BY <1>2, BuildStep
  <2>2. /\ UNCHANGED <<phase, k, cursor, seen, number, requests, missed, mpc, late>>
        /\ capture' = capture
        /\ job # NoJob /\ d \in Devices /\ trees[d] # <<>>
        /\ \/ job' = NoJob
           \/ job' \in [d : {d}, stage : {"slot", "link", "subslot", "more"}]
    BY <1>2, <2>1, BuildStep DEF mainVars, history
  <2>3. PICK new \in Seq(Slot) :
          /\ trees' = WithTree(d, new)
          /\ Shape(new, Modules[d], IF job' = NoJob THEN "idle" ELSE job'.stage)
          /\ Within(Current(d), new)
    BY <1>2, <2>1, BuildStep
  <2>4. new # <<>>
    BY <2>3 DEF Shape
  <2>5. OnlyTree(d) /\ Current(d)' = new
    BY <2>2, <2>3, <2>4, TreeReplaced
  <2>6. job' # NoJob => job'.d = d
    BY <2>2
  <2>7. StageOf(d)' = IF job' = NoJob THEN "idle" ELSE job'.stage
    BY <2>1, <2>2, <2>6, NoJobIdle DEF StageOf
  <2>8. \A e \in Devices : e # d => StageOf(e)' = StageOf(e)
    BY <2>1, <2>2, <2>6, NoJobIdle DEF StageOf
  <2>9. capture /\ (phase > 1 => d \in late)
    BY <2>1, <2>2 DEF PlugInv
  <2>10. job' \in Jobs
    BY <2>2 DEF Jobs
  <2>11. Settles(d)
    BY <2>2, <2>3, <2>5, <2>6, <2>7, <2>8, <2>9 DEF Settles
  <2>12. QED
    BY <1>1, <2>2, <2>5, <2>9, <2>10, <2>11
<1>3. CASE TakeSlots
  <2>1. /\ UNCHANGED <<phase, k, cursor, seen, number, requests, missed, mpc>>
        /\ capture' = capture /\ capture /\ job = NoJob
        /\ trees' \in [Devices -> Seq(Seq(Slot))]
    BY <1>3, TakeStep DEF mainVars
  <2>2. PICK d \in Devices, slot \in NewSlots :
              /\ late' = IF phase = 1 THEN late ELSE late \cup {d}
              /\ job' = [d |-> d, stage |-> "slot"]
              /\ \A e \in Devices : e # d => trees'[e] = trees[e]
              /\ trees'[d] # <<>> /\ Current(d)' = <<slot>>
              /\ Shape(<<slot>>, Modules[d], "slot")
              /\ DOMAIN trees'[d] = DOMAIN trees[d] \cup {Len(trees[d]) + 1}
              /\ trees'[d][Len(trees[d]) + 1] = <<slot>>
              /\ \A g \in DOMAIN trees[d] : trees'[d][g] = trees[d][g]
    BY <1>3, TakeStep
  <2>3. \A g \in DOMAIN trees[d] : Within(trees[d][g], trees'[d][g])
    BY <2>2, WithinItself
  <2>4. \A g \in DOMAIN trees'[d] : trees'[d][g] # <<>>
    BY <2>2 DEF WalkInv
  <2>5. OnlyTree(d)
    BY <2>1, <2>2, <2>3, <2>4 DEF OnlyTree
  <2>6. job' # NoJob /\ job'.d = d /\ job'.stage = "slot" /\ job' \in Jobs
    BY <2>2 DEF NoJob, Jobs, Devices
  <2>7. StageOf(d)' = "slot"
    BY <2>6 DEF StageOf
  <2>8. \A e \in Devices : e # d => StageOf(e)' = StageOf(e)
    BY <2>1, <2>6, NoJobIdle DEF StageOf
  <2>9. Shape(Current(d)', Modules[d], StageOf(d)')
    BY <2>2, <2>7
  <2>10. late \subseteq late' /\ late' \subseteq Devices
           /\ (phase > 1 => d \in late')
    BY <1>1, <2>2 DEF StateOK
  <2>11. Settles(d)
    BY <2>6, <2>8, <2>9, <2>10 DEF Settles
  <2>12. QED
    BY <2>1, <2>5, <2>6, <2>10, <2>11
\* The handlers that fill a tree.
<1>4. ASSUME UNCHANGED <<job, phase, k, cursor, seen, number, capture, requests,
                         late, missed>>,
             capture, job = NoJob, NEW d \in Devices, trees[d] # <<>>,
             \/ mpc' = "dead" /\ trees' = trees
             \/ mpc' = mpc /\ \E new \in Seq(Slot) :
                  trees' = WithTree(d, new) /\ SamePlan(Current(d), new)
      PROVE  /\ mpc' \in {mpc, "dead"} /\ job' \in Jobs
             /\ late \subseteq late' /\ late' \subseteq Devices
             /\ OnlyTree(d) /\ Settles(d)
  <2>1. Current(d) \in Seq(Slot) /\ Shape(Current(d), Modules[d], "idle")
    BY <1>4, CurrentIs, NoJobIdle DEF PlugInv
  <2>2. PICK new \in Seq(Slot) :
          /\ OnlyTree(d) /\ Current(d)' = new /\ Len(trees'[d]) = Len(trees[d])
          /\ SamePlan(Current(d), new)
    <3>1. CASE trees' = trees
      BY <1>4, <2>1, <3>1, TreeKept, SamePlanItself
    <3>2. ASSUME NEW new \in Seq(Slot), trees' = WithTree(d, new),
                 SamePlan(Current(d), new)
          PROVE  OnlyTree(d) /\ Current(d)' = new /\ Len(trees'[d]) = Len(trees[d])
      <4>1. Within(Current(d), new)
        BY <3>2, SamePlanWithin
      <4>2. new # <<>>
        <5>1. Shape(new, Modules[d], "idle")
          BY <2>1, <3>2, SameShape
        <5>2. QED
          BY <5>1 DEF Shape
      <4>3. QED
        BY <1>4, <3>2, <4>1, <4>2, TreeReplaced
    <3>3. QED
      BY <1>4, <3>1, <3>2
  <2>3. Shape(new, Modules[d], "idle")
    BY <2>1, <2>2, SameShape
  <2>4. StageOf(d)' = "idle" /\ \A e \in Devices : StageOf(e)' = StageOf(e)
    BY <1>4, NoJobIdle
  <2>5. Settles(d)
    BY <1>4, <2>2, <2>3, <2>4 DEF Settles
  <2>6. QED
    BY <1>1, <1>4, <2>2, <2>5
<1>5. CASE TakePort
  <2>1. /\ UNCHANGED <<job, phase, k, cursor, seen, number, capture, requests,
                       late, missed>>
        /\ capture /\ job = NoJob
        /\ \E d \in Devices :
             /\ trees[d] # <<>>
             /\ \/ mpc' = "dead" /\ trees' = trees
                \/ mpc' = mpc /\ \E new \in Seq(Slot) :
                     trees' = WithTree(d, new) /\ SamePlan(Current(d), new)
    BY <1>5, PortStep DEF Die
  <2>2. QED
    BY <1>4, <2>1
<1>6. CASE TakeIM
  <2>1. /\ UNCHANGED <<job, phase, k, cursor, seen, number, capture, requests,
                       late, missed>>
        /\ capture /\ job = NoJob
        /\ \E d \in Devices :
             /\ trees[d] # <<>>
             /\ \/ mpc' = "dead" /\ trees' = trees
                \/ mpc' = mpc /\ \E new \in Seq(Slot) :
                     trees' = WithTree(d, new) /\ SamePlan(Current(d), new)
    BY <1>6, IMStep DEF Die
  <2>2. QED
    BY <1>4, <2>1
<1>7. QED
  BY <1>2, <1>3, <1>5, <1>6 DEF HandlerStep

-----------------------------------------------------------------------------
(* The handlers keep the invariants.                                       *)

LEMMA TreesGrow ==
  ASSUME StateOK, WalkInv, NEW d \in Devices, OnlyTree(d), NEW e \in Devices
  PROVE  /\ trees'[e] \in Seq(Seq(Slot)) /\ DOMAIN trees[e] \subseteq DOMAIN trees'[e]
         /\ \A g \in DOMAIN trees'[e] : trees'[e][g] # <<>>
         /\ \A g \in DOMAIN trees[e] : Within(trees[e][g], trees'[e][g])
         /\ trees[e] # <<>> => trees'[e] # <<>>
<1>1. trees'[e] \in Seq(Seq(Slot))
  BY DEF OnlyTree
<1>2. CASE e = d
  BY <1>1, <1>2 DEF OnlyTree
<1>3. CASE e # d
  BY <1>1, <1>3, WithinItself DEF OnlyTree, WalkInv
<1>4. QED
  BY <1>2, <1>3

LEMMA HandlerWalks ==
  ASSUME StateOK, WalkInv, PlugInv, RequestInv, HandlerStep PROVE WalkInv'
<1>1. /\ UNCHANGED <<phase, k, cursor, seen>> /\ mpc' \in {mpc, "dead"}
      /\ \E d \in Devices : OnlyTree(d)
  BY HandlerTrees
<1>2. ASSUME NEW e \in Devices
      PROVE  /\ DOMAIN trees[e] \subseteq DOMAIN trees'[e]
             /\ \A g \in DOMAIN trees'[e] : trees'[e][g] # <<>>
             /\ \A g \in DOMAIN trees[e] : Within(trees[e][g], trees'[e][g])
  BY <1>1, TreesGrow
<1>3. Walking' => Walking /\ mpc' = mpc
  BY <1>1 DEF Walking
<1>4. Walking =>
        /\ phase > 1 /\ k \in Devices /\ cursor.gen \in DOMAIN trees'[k]
        /\ cursor.slot \in DOMAIN trees'[k][cursor.gen]
        /\ DOMAIN Here.subs \subseteq DOMAIN trees'[k][cursor.gen][cursor.slot].subs
  BY <1>2 DEF WalkInv, Within, Here
<1>5. mpc = "sub" =>
        seen \in DOMAIN trees'[k] /\ cursor.slot \in DOMAIN trees'[k][seen]
  BY <1>2 DEF WalkInv, Within, Walking
<1>6. mpc' \in {"sub", "after"} => phase' = 2
  BY <1>1 DEF WalkInv
<1>7. mpc' \in {"send", "sub", "after"} /\ phase' = 2 =>
        cursor'.sub \in DOMAIN Here'.subs
  <2>1. SUFFICES ASSUME mpc' \in {"send", "sub", "after"}, phase' = 2
                 PROVE  cursor'.sub \in DOMAIN Here'.subs
    OBVIOUS
  <2>2. mpc' = mpc /\ Walking
    BY <1>3, <2>1 DEF Walking
  <2>3. cursor.sub \in DOMAIN Here.subs
    BY <1>1, <2>1, <2>2 DEF WalkInv
  <2>4. Here' = trees'[k][cursor.gen][cursor.slot]
    BY <1>1 DEF Here
  <2>5. QED
    BY <1>1, <1>4, <2>2, <2>3, <2>4
<1>8. /\ k' >= 1
      /\ \A e \in Devices : \A g \in DOMAIN trees'[e] : trees'[e][g] # <<>>
  BY <1>1, <1>2 DEF WalkInv
<1>9. Walking' =>
        /\ phase' > 1 /\ k' \in Devices /\ cursor'.gen \in DOMAIN trees'[k']
        /\ cursor'.slot \in DOMAIN trees'[k'][cursor'.gen]
  BY <1>1, <1>3, <1>4
<1>10. mpc' = "sub" =>
         seen' \in DOMAIN trees'[k'] /\ cursor'.slot \in DOMAIN trees'[k'][seen']
  BY <1>1, <1>5
<1>11. QED
  BY <1>6, <1>7, <1>8, <1>9, <1>10, Zenon DEF WalkInv

LEMMA HandlerPlugs ==
  ASSUME StateOK, WalkInv, PlugInv, RequestInv, HandlerStep PROVE PlugInv'
<1>1. PICK d \in Devices : OnlyTree(d) /\ Settles(d)
  BY HandlerTrees
<1>2. capture' /\ capture' = capture /\ phase' = phase
  <2>1. capture /\ capture' = capture /\ phase' = phase
    BY HandlerTrees, Zenon
  <2>2. QED
    BY <2>1, Zenon
<1>3. trees'[d] # <<>> /\ \A e \in Devices : e # d => trees'[e] = trees[e]
  BY <1>1 DEF OnlyTree
<1>4. job' # NoJob => trees'[job'.d] # <<>> /\ (phase' > 1 => job'.d \in late')
  BY <1>1, <1>2, <1>3 DEF Settles
<1>5. ASSUME NEW e \in Devices, trees'[e] # <<>>
      PROVE  Shape(Current(e)', Modules[e], StageOf(e)')
  <2>1. CASE e = d
    BY <1>1, <2>1 DEF Settles
  <2>2. CASE e # d
    <3>1. StageOf(e)' = StageOf(e) /\ trees'[e] = trees[e]
      BY <1>1, <1>3, <2>2 DEF Settles
    <3>2. Current(e)' = Current(e)
      BY <3>1 DEF Current
    <3>3. QED
      BY <1>5, <3>1, <3>2 DEF PlugInv
  <2>3. QED
    BY <2>1, <2>2
<1>6. QED
  BY <1>2, <1>4, <1>5, Zenon DEF PlugInv

\* After phase 1 a device without a late answer has the tree it had, but for data.
LEMMA StillSame ==
  ASSUME StateOK, WalkInv, PlugInv, RequestInv, HandlerStep, phase > 1,
         NEW e \in Devices, e \notin late'
  PROVE  /\ e \notin late /\ Len(trees'[e]) = Len(trees[e])
         /\ trees'[e] = <<>> <=> trees[e] = <<>>
         /\ SamePlan(Current(e), Current(e)')
<1>1. PICK d \in Devices : OnlyTree(d) /\ Settles(d)
  BY HandlerTrees
<1>2. trees[e] \in Seq(Seq(Slot)) /\ trees'[e] \in Seq(Seq(Slot))
  BY <1>1 DEF OnlyTree, StateOK
<1>3. e \notin late
  BY HandlerTrees
<1>4. CASE e = d
  <2>1. Len(trees'[e]) = Len(trees[e]) /\ SamePlan(Current(e), Current(e)')
    BY <1>1, <1>4 DEF Settles
  <2>2. trees'[e] = <<>> <=> trees[e] = <<>>
    BY <1>2, <2>1
  <2>3. QED
    BY <1>3, <2>1, <2>2
<1>5. CASE e # d
  <2>1. trees'[e] = trees[e]
    BY <1>1, <1>5 DEF OnlyTree
  <2>2. Current(e)' = Current(e)
    BY <2>1 DEF Current
  <2>3. QED
    BY <1>3, <2>1, <2>2, SamePlanItself
<1>6. QED
  BY <1>4, <1>5

LEMMA HandlerCursor ==
  ASSUME StateOK, WalkInv, PlugInv, RequestInv, CursorInv, HandlerStep
  PROVE  CursorInv'
<1>1. SUFFICES ASSUME Walking', k' \notin late'
               PROVE  /\ cursor'.gen = Len(trees'[k'])
                      /\ mpc' = "sub" =>
                           seen' = Len(trees'[k']) /\ number' = Here'.number
  BY DEF CursorInv
<1>2. UNCHANGED <<phase, k, cursor, seen, number>> /\ mpc' \in {mpc, "dead"}
  BY HandlerTrees
<1>3. Walking /\ mpc' = mpc
  BY <1>1, <1>2 DEF Walking
<1>4. phase > 1 /\ k \in Devices /\ cursor.slot \in DOMAIN trees[k][cursor.gen]
  BY <1>3 DEF WalkInv
<1>5. /\ k \notin late /\ Len(trees'[k]) = Len(trees[k])
      /\ SamePlan(Current(k), Current(k)')
  BY <1>1, <1>2, <1>4, StillSame
<1>6. /\ cursor.gen = Len(trees[k])
      /\ mpc = "sub" => seen = Len(trees[k]) /\ number = Here.number
  BY <1>3, <1>5 DEF CursorInv
<1>7. Here = Current(k)[cursor.slot] /\ Here' = Current(k)'[cursor.slot]
        /\ cursor.slot \in DOMAIN Current(k)
  BY <1>2, <1>4, <1>5, <1>6 DEF Here, Current
<1>8. Here'.number = Here.number
  BY <1>5, <1>7 DEF SamePlan
<1>9. QED
  BY <1>2, <1>3, <1>5, <1>6, <1>8

LEMMA StillNames ==
  ASSUME NEW old, NEW new, NEW r, SamePlan(old, new), Names(old, r)
  PROVE  Names(new, r)
  BY DEF SamePlan, Names

LEMMA HandlerRequests ==
  ASSUME StateOK, WalkInv, PlugInv, RequestInv, HandlerStep PROVE RequestInv'
<1>1. UNCHANGED <<phase, requests>> /\ \E d \in Devices : OnlyTree(d)
  BY HandlerTrees
<1>2. ASSUME NEW r \in requests, r.what # "slots"
      PROVE  /\ phase > 1 /\ trees'[r.d] # <<>>
             /\ r.d \notin late' => Names(Current(r.d)', r)
  <2>1. r.d \in Devices
    BY DEF StateOK, Request
  <2>2. phase > 1 /\ trees[r.d] # <<>> /\ (r.d \notin late => Names(Current(r.d), r))
    BY <1>2 DEF RequestInv
  <2>3. trees'[r.d] # <<>>
    BY <1>1, <2>1, <2>2, TreesGrow
  <2>4. ASSUME r.d \notin late' PROVE Names(Current(r.d)', r)
    <3>1. r.d \notin late /\ SamePlan(Current(r.d), Current(r.d)')
      BY <2>1, <2>2, <2>4, StillSame
    <3>2. QED
      BY <2>2, <3>1, StillNames
  <2>5. QED
    BY <2>2, <2>3, <2>4
<1>3. QED
  BY <1>1, <1>2 DEF RequestInv

LEMMA HandlerWalked ==
  ASSUME StateOK, WalkInv, PlugInv, RequestInv, WalkedInv, HandlerStep
  PROVE  WalkedInv'
<1>1. UNCHANGED <<phase, k, cursor, requests, missed>> /\ mpc' \in {mpc, "dead"}
  BY HandlerTrees
<1>2. mpc' = "join" => k' > Count
  BY <1>1 DEF WalkedInv
<1>3. ASSUME phase' = 2, mpc' \notin {"launch", "dead"}, NEW d \in Devices \ (late' \cup missed'),
             trees'[d] # <<>>, NEW s \in DOMAIN Current(d)',
             NEW u \in DOMAIN Current(d)'[s].subs, Passed(d, s, u)'
      PROVE  PortOf(d, s, u)' \in requests'
  <2>1. phase = 2 /\ d \in Devices /\ d \notin late' /\ d \notin missed
    BY <1>1, <1>3
  <2>2. d \notin late /\ trees[d] # <<>> /\ SamePlan(Current(d), Current(d)')
    BY <1>3, <2>1, StillSame
  <2>3. s \in DOMAIN Current(d) /\ u \in DOMAIN Current(d)[s].subs
    BY <1>3, <2>2 DEF SamePlan
  <2>4. PortOf(d, s, u)' = PortOf(d, s, u)
    BY <2>2, <2>3 DEF PortOf, SamePlan
  <2>5. Passed(d, s, u)
    BY <1>1, <1>3 DEF Passed, Walking
  <2>6. mpc \notin {"launch", "dead"}
    BY <1>1, <1>3
  <2>7. QED
    BY <1>1, <2>1, <2>2, <2>3, <2>4, <2>5, <2>6 DEF WalkedInv
<1>4. QED
  BY <1>2, <1>3, Zenon DEF WalkedInv

LEMMA HandlerTypes ==
  ASSUME StateOK, WalkInv, PlugInv, RequestInv, HandlerStep PROVE StateOK'
<1>1. /\ UNCHANGED <<phase, k, cursor, seen, number, requests, missed>>
      /\ mpc' \in {mpc, "dead"} /\ late' \subseteq Devices /\ job' \in Jobs
      /\ trees' \in [Devices -> Seq(Seq(Slot))]
  <2>1. \E d \in Devices : OnlyTree(d)
    BY HandlerTrees
  <2>2. trees' \in [Devices -> Seq(Seq(Slot))]
    BY <2>1 DEF OnlyTree
  <2>3. /\ UNCHANGED <<phase, k, cursor, seen, number, requests, missed>>
        /\ mpc' \in {mpc, "dead"} /\ late' \subseteq Devices /\ job' \in Jobs
    BY HandlerTrees
  <2>4. QED
    BY <2>2, <2>3
<1>2. \A r \in requests :
        /\ r.d \in Devices /\ r.d \in 0..Count
        /\ <<r.d, r.slot, r.sub>> \in Devices \X Nat \X Nat
  <2>1. ASSUME NEW r \in requests PROVE r \in Request
    BY DEF StateOK
  <2>2. ASSUME NEW r \in requests
        PROVE  r.d \in Devices /\ r.slot \in Nat /\ r.sub \in Nat
    BY <2>1 DEF Request
  <2>3. Devices \subseteq 0..Count
    BY TreeAssumption DEF Devices
  <2>4. QED
    BY <2>2, <2>3
<1>3. got' \subseteq Devices \X Nat \X Nat /\ fault' \in 0..Count
  <2>1. got \subseteq Devices \X Nat \X Nat /\ fault \in 0..Count
    BY DEF StateOK
  <2>2. CASE UNCHANGED <<got, fault>>
    BY <2>1, <2>2
  <2>3. CASE \E r \in requests : got' \in {got, got \cup {<<r.d, r.slot, r.sub>>}}
                                   /\ fault' \in {fault, r.d}
    BY <1>2, <2>1, <2>3
  <2>4. CASE FillSlot \/ LinkSubslot \/ FillSubslot \/ LinkSlot
    BY <2>2, <2>4, BuildStep DEF history
  <2>5. CASE TakeSlots
    BY <2>2, <2>5, TakeStep
  <2>6. CASE TakePort
    BY <2>3, <2>6, PortStep DEF Die
  <2>7. CASE TakeIM
    BY <2>3, <2>7, IMStep DEF Die
  <2>8. QED
    BY <2>4, <2>5, <2>6, <2>7 DEF HandlerStep
<1>4. /\ mpc' \in {"launch", "device", "slot", "send", "sub", "after", "next",
                   "join", "exit", "dead"}
      /\ phase' \in 1..3 /\ k' \in Nat
      /\ cursor' \in [gen : Nat, slot : Nat, sub : Nat]
      /\ seen' \in Nat /\ number' \in Nat
      /\ requests' \subseteq Request /\ missed' \subseteq Devices
  BY <1>1 DEF StateOK
<1>5. QED
  BY <1>1, <1>3, <1>4 DEF StateOK, Jobs

\* A tree that is not being built.
LEMMA AllDone ==
  ASSUME NEW tree \in Seq(Slot), NEW mods \in Seq(Plugged),
         Shape(tree, mods, "idle"), NEW s \in DOMAIN tree
  PROVE  s \in DOMAIN mods /\ Done(tree[s], mods[s])
<1>1. s \in 1..Len(tree) /\ Len(tree) <= Len(mods) /\ Len(mods) \in Nat
        /\ Done(tree[Len(tree)], mods[Len(tree)])
        /\ (s < Len(tree) => Done(tree[s], mods[s]))
  BY DEF Shape
<1>2. s \in DOMAIN mods
  BY <1>1
<1>3. Len(tree) \in Nat
  OBVIOUS
<1>4. s < Len(tree) \/ s = Len(tree)
  BY <1>1, <1>3
<1>5. QED
  BY <1>1, <1>2, <1>4

LEMMA OneSlot ==
  ASSUME StateOK, PlugInv, NEW d \in Devices, trees[d] # <<>>, job = NoJob,
         NEW s \in DOMAIN Current(d), NEW t \in DOMAIN Current(d),
         Current(d)[s].number = Current(d)[t].number
  PROVE  s = t
<1>1. /\ Current(d) \in Seq(Slot) /\ Modules[d] \in Seq(Plugged)
      /\ Shape(Current(d), Modules[d], "idle")
  BY CurrentIs, ModulesType, NoJobIdle DEF PlugInv
<1>2. /\ s \in DOMAIN Modules[d] /\ Current(d)[s].number = Modules[d][s].number
      /\ t \in DOMAIN Modules[d] /\ Current(d)[t].number = Modules[d][t].number
  BY <1>1, AllDone DEF Done, Like
<1>3. QED
  BY <1>2, NumberAssumption

LEMMA HandlerDies ==
  ASSUME StateOK, WalkInv, PlugInv, RequestInv, DiesOfLateAnswer, HandlerStep
  PROVE  DiesOfLateAnswer'
<1>1. late \subseteq late'
  BY HandlerTrees
<1>2. CASE fault' = fault
  BY <1>1, <1>2 DEF DiesOfLateAnswer
<1>3. CASE FillSlot \/ LinkSubslot \/ FillSubslot \/ LinkSlot
  BY <1>2, <1>3, BuildStep DEF history
<1>4. CASE TakeSlots
  BY <1>2, <1>4, TakeStep
<1>5. CASE TakePort
  <2>1. job = NoJob /\ late' = late
    BY <1>5, PortStep
  <2>2. PICK r \in requests :
          /\ r.what = "port" /\ r.d \in Devices /\ trees[r.d] # <<>>
          /\ \/ fault' = fault
             \/ /\ fault' = r.d
                /\ ~Names(Current(r.d), r) \/
                   \E s, t \in DOMAIN Current(r.d) :
                     s # t /\ Current(r.d)[s].number = Current(r.d)[t].number
    BY <1>5, PortStep DEF Die
  <2>3. ~ \E s, t \in DOMAIN Current(r.d) :
            s # t /\ Current(r.d)[s].number = Current(r.d)[t].number
    BY <2>1, <2>2, OneSlot
  <2>4. ~Names(Current(r.d), r) => r.d \in late
    BY <2>2 DEF RequestInv
  <2>5. fault' = fault \/ fault' \in late'
    BY <2>1, <2>2, <2>3, <2>4
  <2>6. QED
    BY <1>2, <2>5 DEF DiesOfLateAnswer
<1>6. CASE TakeIM
  <2>1. late' = late
    BY <1>6, IMStep
  <2>2. PICK r \in requests :
          /\ r.what = "im"
          /\ fault' = fault \/ (fault' = r.d /\ ~Names(Current(r.d), r))
    BY <1>6, IMStep DEF Die
  <2>3. ~Names(Current(r.d), r) => r.d \in late
    BY <2>2 DEF RequestInv
  <2>4. fault' = fault \/ fault' \in late'
    BY <2>1, <2>2, <2>3
  <2>5. QED
    BY <1>2, <2>4 DEF DiesOfLateAnswer
<1>7. QED
  BY <1>3, <1>4, <1>5, <1>6 DEF HandlerStep

-----------------------------------------------------------------------------
(* Where the port data are.                                                *)

\* d's tree has the data that g came with.
Holds(d, g) ==
  /\ trees[d] # <<>>
  /\ \E s \in DOMAIN Current(d) : \E u \in DOMAIN Current(d)[s].subs :
       /\ Current(d)[s].subs[u].answered
       /\ Current(d)[s].number = g[2]
       /\ Current(d)[s].subs[u].number = g[3]

\* All data in d's tree came, and no tree with data is being built.
Come(d) ==
  trees[d] # <<>> =>
    \A s \in DOMAIN Current(d) : \A u \in DOMAIN Current(d)[s].subs :
      Current(d)[s].subs[u].answered =>
        /\ job.d # d
        /\ <<d, Current(d)[s].number, Current(d)[s].subs[u].number>> \in got

LEMMA DataIs ==
  DataInv <=>
    /\ got # {} => phase > 1
    /\ \A d \in Devices : Come(d)
    /\ fault = 0 => \A g \in got : g[1] \notin late => Holds(g[1], g)
  BY DEF DataInv, Come, Holds

LEMMA SameData ==
  ASSUME NEW d \in Devices, trees'[d] = trees[d]
  PROVE  /\ \A g : Holds(d, g)' <=> Holds(d, g)
         /\ Come(d) /\ got \subseteq got' /\ (job'.d = d => job.d = d) => Come(d)'
<1>1. Current(d)' = Current(d)
  BY DEF Current
<1>2. QED
  BY <1>1 DEF Holds, Come

LEMMA NoNewDataEver ==
  ASSUME StateOK, DataInv,
         UNCHANGED <<trees, job, phase, late, got, fault>>
  PROVE  DataInv'
<1>1. \A d \in Devices : Come(d)'
  BY SameData, DataIs
<1>2. ASSUME fault' = 0, NEW g \in got', g[1] \notin late'
      PROVE  Holds(g[1], g)'
  <2>1. Holds(g[1], g) /\ g[1] \in Devices
    BY <1>2, DataIs DEF StateOK
  <2>2. QED
    BY <2>1, SameData
<1>3. got' # {} => phase' > 1
  BY DataIs
<1>4. QED
  BY <1>1, <1>2, <1>3 DEF DataInv, Come, Holds

LEMMA BuildData ==
  ASSUME StateOK, WalkInv, PlugInv, RequestInv, DataInv,
         FillSlot \/ LinkSubslot \/ FillSubslot \/ LinkSlot
  PROVE  DataInv'
<1>1. PICK d \in Devices : d = job.d
  BY BuildStep
<1>2. /\ UNCHANGED <<phase, late, got, fault>> /\ trees[d] # <<>> /\ job # NoJob
      /\ job'.d \in {0, d}
  BY <1>1, BuildStep DEF mainVars, history, NoJob
<1>3. PICK new \in Seq(Slot) :
        /\ trees' = WithTree(d, new) /\ NoNewData(Current(d), new)
  BY <1>1, BuildStep
<1>4. /\ \A e \in Devices : e # d => trees'[e] = trees[e]
      /\ Current(d)' = new
  BY <1>2, <1>3, WithTreeIs DEF Current
<1>5. \A s \in DOMAIN new : \A u \in DOMAIN new[s].subs :
        ~new[s].subs[u].answered
  BY <1>1, <1>2, <1>3 DEF DataInv, NoNewData
<1>6. ASSUME NEW e \in Devices PROVE Come(e)'
  <2>1. CASE e = d
    BY <1>4, <1>5, <2>1 DEF Come
  <2>2. CASE e # d
    <3>1. job'.d # e
      BY <1>2, <2>2 DEF Devices
    <3>2. QED
      BY <1>2, <1>4, <2>2, <3>1, SameData, DataIs
  <2>3. QED
    BY <2>1, <2>2
<1>7. ASSUME fault = 0, NEW g \in got, g[1] \notin late PROVE Holds(g[1], g)'
  <2>1. g[1] \in Devices
    BY DEF StateOK
  <2>2. phase > 1 /\ Holds(g[1], g)
    BY <1>7, DataIs
  <2>3. g[1] # d
    BY <1>1, <1>2, <1>7, <2>2 DEF PlugInv
  <2>4. QED
    BY <1>4, <2>1, <2>2, <2>3, SameData
<1>8. got' # {} => phase' > 1
  BY <1>2, DataIs
<1>9. QED
  BY <1>2, <1>6, <1>7, <1>8 DEF DataInv, Come, Holds

LEMMA TakeData ==
  ASSUME StateOK, WalkInv, PlugInv, RequestInv, DataInv, TakeSlots
  PROVE  DataInv'
<1>1. /\ UNCHANGED <<phase, got, fault>> /\ job = NoJob
  BY TakeStep DEF mainVars
<1>2. PICK d \in Devices, slot \in NewSlots :
        /\ late' = IF phase = 1 THEN late ELSE late \cup {d}
        /\ job' = [d |-> d, stage |-> "slot"]
        /\ \A e \in Devices : e # d => trees'[e] = trees[e]
        /\ Current(d)' = <<slot>> /\ slot.subs = <<>>
  BY TakeStep
<1>3. job'.d = d
  BY <1>2
<1>4. ASSUME NEW e \in Devices PROVE Come(e)'
  <2>1. CASE e = d
    <3>1. DOMAIN Current(d)' = {1} /\ DOMAIN Current(d)'[1].subs = {}
      BY <1>2
    <3>2. QED
      BY <2>1, <3>1 DEF Come
  <2>2. CASE e # d
    BY <1>1, <1>2, <1>3, <2>2, SameData, DataIs
  <2>3. QED
    BY <2>1, <2>2
<1>5. ASSUME fault = 0, NEW g \in got, g[1] \notin late' PROVE Holds(g[1], g)'
  <2>1. g[1] \in Devices
    BY DEF StateOK
  <2>2. phase > 1
    BY DataIs
  <2>3. g[1] # d /\ g[1] \notin late
    BY <1>2, <1>5, <2>2
  <2>4. Holds(g[1], g)
    BY <1>5, <2>3, DataIs
  <2>5. QED
    BY <1>2, <2>1, <2>3, <2>4, SameData
<1>6. got' # {} => phase' > 1
  BY <1>1, DataIs
<1>7. QED
  BY <1>1, <1>4, <1>5, <1>6 DEF DataInv, Come, Holds

LEMMA PortTaken ==
  ASSUME StateOK, WalkInv, PlugInv, RequestInv, DataInv, TakePort
  PROVE  DataInv'
<1>1. UNCHANGED <<job, phase, late>> /\ job = NoJob
  BY PortStep
<1>2. PICK r \in requests :
        /\ r.what = "port" /\ r.d \in Devices /\ trees[r.d] # <<>>
        /\ got' = got \cup {<<r.d, r.slot, r.sub>>}
        /\ \/ fault' = r.d /\ trees' = trees
           \/ \E new \in Seq(Slot) :
                /\ trees' = WithTree(r.d, new) /\ SamePlan(Current(r.d), new)
                /\ fault' = fault
                /\ \E s \in DOMAIN new : \E u \in DOMAIN new[s].subs :
                     /\ new[s].number = r.slot /\ new[s].subs[u].number = r.sub
                     /\ new[s].subs[u].answered
                     /\ \A i \in DOMAIN new : \A j \in DOMAIN new[i].subs :
                          i # s \/ j # u =>
                            new[i].subs[j].answered =
                              Current(r.d)[i].subs[j].answered
  BY PortStep DEF Die
<1>3. phase' > 1
  BY <1>1, <1>2 DEF RequestInv
<1>4. job'.d = 0 /\ 0 \notin Devices
  BY <1>1 DEF NoJob, Devices
<1>5. CASE fault' = r.d /\ trees' = trees
  <2>1. \A e \in Devices : Come(e)'
    BY <1>1, <1>2, <1>5, SameData, DataIs
  <2>2. fault' # 0
    BY <1>2, <1>4, <1>5
  <2>3. QED
    BY <1>3, <2>1, <2>2 DEF DataInv, Come
<1>6. ASSUME NEW new \in Seq(Slot), trees' = WithTree(r.d, new),
             SamePlan(Current(r.d), new), fault' = fault,
             NEW s \in DOMAIN new, NEW u \in DOMAIN new[s].subs,
             new[s].number = r.slot, new[s].subs[u].number = r.sub,
             new[s].subs[u].answered,
             \A i \in DOMAIN new : \A j \in DOMAIN new[i].subs :
               i # s \/ j # u =>
                 new[i].subs[j].answered = Current(r.d)[i].subs[j].answered
      PROVE  DataInv'
  <2>1. /\ \A e \in Devices : e # r.d => trees'[e] = trees[e]
        /\ trees'[r.d] # <<>> /\ Current(r.d)' = new
    <3>1. r.d \in Devices /\ trees[r.d] # <<>> /\ trees' = WithTree(r.d, new)
      BY <1>2, <1>6
    <3>2. QED
      BY <3>1, WithTreeIs DEF Current
  <2>2. ASSUME NEW e \in Devices PROVE Come(e)'
    <3>1. CASE e = r.d
      <4>1. ASSUME NEW i \in DOMAIN new, NEW j \in DOMAIN new[i].subs,
                   new[i].subs[j].answered
            PROVE  <<e, new[i].number, new[i].subs[j].number>> \in got'
        <5>1. CASE i = s /\ j = u
          BY <1>2, <1>6, <3>1, <5>1
        <5>2. CASE i # s \/ j # u
          <6>1. /\ i \in DOMAIN Current(e) /\ j \in DOMAIN Current(e)[i].subs
                /\ Current(e)[i].number = new[i].number
                /\ Current(e)[i].subs[j].number = new[i].subs[j].number
            BY <1>6, <3>1 DEF SamePlan
          <6>2. Current(e)[i].subs[j].answered
            BY <1>6, <3>1, <4>1, <5>2
          <6>3. QED
            BY <1>2, <3>1, <6>1, <6>2, DataIs DEF Come
        <5>3. QED
          BY <5>1, <5>2
      <4>2. QED
        BY <1>4, <2>1, <3>1, <4>1 DEF Come
    <3>2. CASE e # r.d
      BY <1>1, <1>2, <2>1, <3>2, SameData, DataIs
    <3>3. QED
      BY <3>1, <3>2
  <2>3. ASSUME fault = 0, NEW g \in got', g[1] \notin late PROVE Holds(g[1], g)'
    <3>1. CASE g = <<r.d, r.slot, r.sub>>
      <4>1. g[1] = r.d /\ g[2] = r.slot /\ g[3] = r.sub
        BY <3>1
      <4>2. QED
        BY <1>6, <2>1, <4>1 DEF Holds
    <3>2. CASE g \in got
      <4>1. Holds(g[1], g) /\ g[1] \in Devices
        BY <2>3, <3>2, DataIs DEF StateOK
      <4>2. CASE g[1] = r.d
        <5>1. PICK i \in DOMAIN Current(r.d) :
                \E j \in DOMAIN Current(r.d)[i].subs :
                  /\ Current(r.d)[i].subs[j].answered
                  /\ Current(r.d)[i].number = g[2]
                  /\ Current(r.d)[i].subs[j].number = g[3]
          BY <4>1, <4>2 DEF Holds
        <5>2. PICK j \in DOMAIN Current(r.d)[i].subs :
                /\ Current(r.d)[i].subs[j].answered
                /\ Current(r.d)[i].number = g[2]
                /\ Current(r.d)[i].subs[j].number = g[3]
          BY <5>1
        <5>3. /\ i \in DOMAIN new /\ j \in DOMAIN new[i].subs
              /\ new[i].number = g[2] /\ new[i].subs[j].number = g[3]
          BY <1>6, <5>2 DEF SamePlan
        <5>4. new[i].subs[j].answered
          BY <1>6, <5>2, <5>3
        <5>5. QED
          BY <2>1, <4>2, <5>3, <5>4 DEF Holds
      <4>3. CASE g[1] # r.d
        BY <2>1, <4>1, <4>3, SameData
      <4>4. QED
        BY <4>2, <4>3
    <3>3. QED
      BY <1>2, <2>3, <3>1, <3>2
  <2>4. QED
    BY <1>1, <1>3, <1>6, <2>2, <2>3 DEF DataInv, Come, Holds
<1>7. QED
  BY <1>2, <1>5, <1>6

LEMMA IMTaken ==
  ASSUME StateOK, WalkInv, PlugInv, RequestInv, DataInv, TakeIM
  PROVE  DataInv'
<1>1. UNCHANGED <<job, phase, late, got>>
  BY IMStep
<1>2. PICK r \in requests :
        /\ r.d \in Devices /\ trees[r.d] # <<>>
        /\ \/ fault' = r.d /\ trees' = trees
           \/ \E new \in Seq(Slot) :
                /\ trees' = WithTree(r.d, new) /\ SamePlan(Current(r.d), new)
                /\ fault' = fault
                /\ \A i \in DOMAIN new : new[i].subs = Current(r.d)[i].subs
  BY IMStep DEF Die
<1>3. CASE fault' = r.d /\ trees' = trees
  <2>1. \A e \in Devices : Come(e)'
    BY <1>1, <1>3, SameData, DataIs
  <2>2. fault' # 0
    BY <1>2, <1>3 DEF Devices
  <2>3. QED
    BY <1>1, <2>1, <2>2, DataIs DEF DataInv, Come
<1>4. ASSUME NEW new \in Seq(Slot), trees' = WithTree(r.d, new),
             SamePlan(Current(r.d), new), fault' = fault,
             \A i \in DOMAIN new : new[i].subs = Current(r.d)[i].subs
      PROVE  DataInv'
  <2>1. /\ \A e \in Devices : e # r.d => trees'[e] = trees[e]
        /\ trees'[r.d] # <<>> /\ Current(r.d)' = new
    BY <1>2, <1>4, WithTreeIs DEF Current
  <2>2. /\ DOMAIN new = DOMAIN Current(r.d)
        /\ \A i \in DOMAIN new :
             /\ new[i].number = Current(r.d)[i].number
             /\ new[i].subs = Current(r.d)[i].subs
    BY <1>4 DEF SamePlan
  <2>3. ASSUME NEW e \in Devices PROVE Come(e)'
    <3>1. CASE e = r.d
      <4>1. Come(r.d)
        BY <1>2, DataIs
      <4>2. UNCHANGED <<job, got>>
        BY <1>1
      <4>3. Come(r.d)'
        BY <1>2, <2>1, <2>2, <4>1, <4>2 DEF Come
      <4>4. QED
        BY <3>1, <4>3
    <3>2. CASE e # r.d
      BY <1>1, <2>1, <3>2, SameData, DataIs
    <3>3. QED
      BY <3>1, <3>2
  <2>4. ASSUME fault = 0, NEW g \in got, g[1] \notin late PROVE Holds(g[1], g)'
    <3>1. Holds(g[1], g) /\ g[1] \in Devices
      BY <2>4, DataIs DEF StateOK
    <3>2. CASE g[1] = r.d
      <4>1. PICK i \in DOMAIN new : \E u \in DOMAIN new[i].subs :
              /\ new[i].subs[u].answered
              /\ new[i].number = g[2] /\ new[i].subs[u].number = g[3]
        BY <2>2, <3>1, <3>2 DEF Holds
      <4>2. trees'[g[1]] # <<>> /\ Current(g[1])' = new
        BY <2>1, <3>2
      <4>3. QED
        BY <4>1, <4>2 DEF Holds
    <3>3. CASE g[1] # r.d
      BY <2>1, <3>1, <3>3, SameData
    <3>4. QED
      BY <3>2, <3>3
  <2>5. got' # {} => phase' > 1
    BY <1>1, DataIs
  <2>6. QED
    BY <1>1, <1>4, <2>3, <2>4, <2>5 DEF DataInv, Come, Holds
<1>5. QED
  BY <1>2, <1>3, <1>4

LEMMA HandlerData ==
  ASSUME StateOK, WalkInv, PlugInv, RequestInv, DataInv, HandlerStep
  PROVE  DataInv'
  BY BuildData, TakeData, PortTaken, IMTaken DEF HandlerStep

-----------------------------------------------------------------------------
(* The main thread keeps the invariants.                                   *)

LEMMA MainKeeps ==
  ASSUME StateOK, WalkInv, MainStep
  PROVE  /\ UNCHANGED <<trees, job, late, got>> /\ (capture => capture')
         /\ phase' >= phase /\ (phase' # phase => ~capture)
         /\ requests \subseteq requests' /\ missed \subseteq missed'
         /\ fault' = fault \/ (fault' = k /\ k # 0 /\ mpc' = "dead")
<1> USE DEF history
<1>1. phase \in 1..3 /\ k \in Nat /\ k >= 1
  BY DEF StateOK, WalkInv
<1>2. CASE Launch
  BY <1>1, <1>2 DEF Launch
<1>3. CASE AskSlots
  BY <1>1, <1>3 DEF AskSlots
<1>4. CASE EnterDevice \/ EnterSlot \/ NextSubslot \/ NextSlot \/ SendsOver
  <2>1. UNCHANGED <<trees, job, phase, capture, requests, history>>
    BY <1>4, Zenon DEF EnterDevice, EnterSlot, NextSubslot, NextSlot, SendsOver
  <2>2. QED
    BY <1>1, <2>1
<1>5. CASE Unresolved
  BY <1>1, <1>5 DEF Unresolved
<1>6. CASE FindSlot
  BY <1>1, <1>6 DEF FindSlot, Die, Ask
<1>7. CASE FindSubslot
  BY <1>1, <1>7 DEF FindSubslot, Die, Ask
<1>8. CASE Join
  BY <1>1, <1>8 DEF Join
<1>9. QED
  BY <1>2, <1>3, <1>4, <1>5, <1>6, <1>7, <1>8 DEF MainStep

LEMMA MainPlugs ==
  ASSUME StateOK, WalkInv, PlugInv, MainStep PROVE PlugInv'
<1>1. /\ UNCHANGED <<trees, job, late>> /\ (capture => capture')
      /\ (phase' # phase => ~capture)
  BY MainKeeps
<1>2. \A d \in Devices : Current(d)' = Current(d) /\ StageOf(d)' = StageOf(d)
  BY <1>1 DEF Current, StageOf
<1>3. job # NoJob => capture' /\ trees[job.d] # <<>> /\ (phase' > 1 => job.d \in late)
  BY <1>1 DEF PlugInv
<1>4. \A d \in Devices :
        trees[d] # <<>> => Shape(Current(d), Modules[d], StageOf(d))
  BY DEF PlugInv
<1>5. QED
  BY <1>1, <1>2, <1>3, <1>4, Zenon DEF PlugInv

LEMMA MainData ==
  ASSUME StateOK, WalkInv, DataInv, MainStep PROVE DataInv'
<1>1. /\ UNCHANGED <<trees, job, late, got>> /\ phase' >= phase
      /\ (fault' = 0 => fault = 0) /\ phase \in 1..3 /\ phase' \in Nat
  <2>1. phase' \in Nat
    BY DEF MainStep, Launch, AskSlots, EnterDevice, EnterSlot, Unresolved,
           FindSlot, FindSubslot, NextSubslot, NextSlot, SendsOver, Join, StateOK
  <2>2. QED
    BY <2>1, MainKeeps DEF StateOK
<1>2. \A d \in Devices : Come(d)'
  BY <1>1, SameData, DataIs
<1>3. got' # {} => phase' > 1
  BY <1>1, DataIs
<1>4. ASSUME fault' = 0, NEW g \in got', g[1] \notin late' PROVE Holds(g[1], g)'
  <2>1. g[1] \in Devices /\ Holds(g[1], g)
    BY <1>1, <1>4, DataIs DEF StateOK
  <2>2. QED
    BY <1>1, <2>1, SameData
<1>5. QED
  BY <1>2, <1>3, <1>4 DEF DataInv, Come, Holds

\* While main walks and no answer came late, its slot is the one that
\* sendpacket_IM_rem finds.
LEMMA SameSlot ==
  ASSUME StateOK, WalkInv, CursorInv, Walking, k \notin late
  PROVE  /\ cursor.gen = Len(trees[k]) /\ Here = Current(k)[cursor.slot]
         /\ cursor.slot \in DOMAIN Current(k) /\ cursor.slot <= Len(Current(k))
         /\ Current(k) \in Seq(Slot)
         /\ mpc = "sub" => SubsSeen = Here.subs /\ number = Here.number
<1>1. cursor.gen = Len(trees[k])
      /\ (mpc = "sub" => seen = Len(trees[k]) /\ number = Here.number)
  BY DEF CursorInv
<1>2. cursor.slot \in DOMAIN trees[k][cursor.gen] /\ Current(k) \in Seq(Slot)
  BY HereType
<1>3. Current(k) = trees[k][cursor.gen]
  BY <1>1 DEF Current
<1>4. Here = Current(k)[cursor.slot] /\ cursor.slot \in DOMAIN Current(k)
  BY <1>2, <1>3 DEF Here
<1>5. mpc = "sub" => SubsSeen = Here.subs
  BY <1>1 DEF SubsSeen, Here
<1>6. cursor.slot <= Len(Current(k))
  BY <1>2, <1>4
<1>7. QED
  BY <1>1, <1>2, <1>4, <1>5, <1>6

LEMMA MainDies ==
  ASSUME StateOK, WalkInv, CursorInv, DiesOfLateAnswer, MainStep
  PROVE  DiesOfLateAnswer'
<1>1. late' = late
  BY MainKeeps
<1>2. CASE fault' = fault
  BY <1>1, <1>2 DEF DiesOfLateAnswer
<1>3. CASE FindSlot
  <2>1. Walking
    BY <1>3 DEF FindSlot, Walking
  <2>2. fault' = fault \/ (fault' = k /\ cursor.slot > Len(Current(k)))
    BY <1>3 DEF FindSlot, Die
  <2>3. cursor \in [gen : Nat, slot : Nat, sub : Nat] /\ Current(k) \in Seq(Slot)
    BY <2>1, HereType DEF StateOK
  <2>4. cursor.slot > Len(Current(k)) => ~(cursor.slot <= Len(Current(k)))
    BY <2>3
  <2>5. k \in late \/ fault' = fault
    BY <2>1, <2>2, <2>4, SameSlot
  <2>6. QED
    BY <1>1, <1>2, <2>2, <2>5 DEF DiesOfLateAnswer
<1>4. CASE FindSubslot
  <2>1. Walking /\ mpc = "sub" /\ phase = 2
    BY <1>4 DEF FindSubslot, Walking, WalkInv
  <2>2. fault' = fault \/ (fault' = k /\ cursor.sub > Len(SubsSeen))
    BY <1>4 DEF FindSubslot, Die
  <2>3. cursor.sub \in DOMAIN Here.subs /\ Here.subs \in Seq(Subslot)
    BY <2>1, HereType DEF WalkInv
  <2>4. ~(cursor.sub > Len(Here.subs))
    BY <2>3
  <2>5. k \in late \/ fault' = fault
    BY <2>1, <2>2, <2>4, SameSlot
  <2>6. QED
    BY <1>1, <1>2, <2>2, <2>5 DEF DiesOfLateAnswer
<1>5. CASE ~FindSlot /\ ~FindSubslot
  <2>1. fault' = fault
    BY <1>5 DEF MainStep, Launch, AskSlots, EnterDevice, EnterSlot, Unresolved,
                NextSubslot, NextSlot, SendsOver, Join, history
  <2>2. QED
    BY <1>2, <2>1
<1>6. QED
  BY <1>3, <1>4, <1>5

LEMMA MainCursor ==
  ASSUME StateOK, WalkInv, CursorInv, MainStep PROVE CursorInv'
<1>1. trees' = trees /\ late' = late
  BY MainKeeps
<1>2. cursor \in [gen : Nat, slot : Nat, sub : Nat]
  BY DEF StateOK
\* main stays in the tree.
<1>3. ASSUME Walking, k' = k, cursor'.gen = cursor.gen, mpc' # "sub"
      PROVE  CursorInv'
  BY <1>1, <1>3 DEF CursorInv
<1>4. ASSUME ~Walking' PROVE CursorInv'
  BY <1>4 DEF CursorInv
<1>5. CASE Launch \/ AskSlots \/ SendsOver \/ Join
  BY <1>4, <1>5 DEF Launch, AskSlots, SendsOver, Join, Walking
<1>6. CASE EnterDevice
  <2>1. CASE trees[k] = <<>>
    BY <1>4, <1>6, <2>1 DEF EnterDevice, Walking
  <2>2. CASE trees[k] # <<>>
    BY <1>1, <1>6, <2>2 DEF EnterDevice, CursorInv
  <2>3. QED
    BY <2>1, <2>2
<1>7. CASE EnterSlot
  <2>1. Walking /\ k' = k /\ mpc' # "sub" /\ cursor'.gen = cursor.gen
    BY <1>2, <1>7 DEF EnterSlot, Walking
  <2>2. QED
    BY <1>3, <2>1
<1>8. CASE Unresolved
  <2>1. Walking /\ k' = k /\ mpc' # "sub" /\ cursor'.gen = cursor.gen
    BY <1>2, <1>8 DEF Unresolved, AfterSend, Walking
  <2>2. QED
    BY <1>3, <2>1
<1>9. CASE FindSlot
  <2>1. Walking /\ k' = k /\ cursor' = cursor
    BY <1>9 DEF FindSlot, Walking
  <2>2. CASE mpc' # "sub"
    BY <1>3, <2>1, <2>2
  <2>3. CASE mpc' = "sub"
    <3>1. seen' = Len(trees[k]) /\ number' = Current(k)[cursor.slot].number
      BY <1>9, <2>3 DEF FindSlot, Die, AfterSend
    <3>2. Here' = Here
      BY <1>1, <2>1 DEF Here
    <3>3. k \notin late =>
            /\ cursor.gen = Len(trees[k]) /\ Here = Current(k)[cursor.slot]
      BY <2>1, SameSlot
    <3>4. QED
      BY <1>1, <2>1, <3>1, <3>2, <3>3 DEF CursorInv
  <2>4. QED
    BY <2>2, <2>3
<1>10. CASE FindSubslot
  <2>1. Walking /\ k' = k /\ mpc' # "sub" /\ cursor'.gen = cursor.gen
    BY <1>2, <1>10 DEF FindSubslot, Die, AfterSend, Walking
  <2>2. QED
    BY <1>3, <2>1
<1>11. CASE NextSubslot
  <2>1. Walking /\ k' = k /\ mpc' # "sub" /\ cursor'.gen = cursor.gen
    BY <1>2, <1>11 DEF NextSubslot, Walking
  <2>2. QED
    BY <1>3, <2>1
<1>12. CASE NextSlot
  <2>1. Walking
    BY <1>12 DEF NextSlot, Walking
  <2>2. CASE mpc' = "slot" /\ k' = k
             /\ cursor' = [cursor EXCEPT !.slot = @ + 1, !.sub = 0]
    <3>1. cursor'.gen = cursor.gen
      BY <1>2, <2>2
    <3>2. QED
      BY <1>3, <2>1, <2>2, <3>1
  <2>3. CASE mpc' = "device"
    BY <1>4, <2>3 DEF Walking
  <2>4. QED
    BY <1>12, <2>2, <2>3 DEF NextSlot
<1>13. QED
  BY <1>5, <1>6, <1>7, <1>8, <1>9, <1>10, <1>11, <1>12 DEF MainStep

LEMMA MainRequests ==
  ASSUME StateOK, WalkInv, CursorInv, RequestInv, MainStep PROVE RequestInv'
<1>1. UNCHANGED <<trees, late>> /\ phase' >= phase
  BY MainKeeps
<1>2. \A d \in Devices : Current(d)' = Current(d)
  BY <1>1 DEF Current
<1>3. phase \in 1..3 /\ phase' \in 1..3
  BY MainTypes DEF StateOK
\* What was on the wire stays right, and so is a new request that names what
\* main's tree has.
<1>4. ASSUME NEW r \in requests, r.what # "slots"
      PROVE  /\ phase' > 1 /\ trees'[r.d] # <<>>
             /\ r.d \notin late' => Names(Current(r.d)', r)
  <2>1. r.d \in Devices
    BY DEF StateOK, Request
  <2>2. QED
    BY <1>1, <1>2, <1>3, <1>4, <2>1 DEF RequestInv
<1>5. ASSUME NEW new, requests' = requests \cup {new},
             new.what # "slots" =>
               /\ phase > 1 /\ new.d \in Devices /\ trees[new.d] # <<>>
               /\ new.d \notin late => Names(Current(new.d), new)
      PROVE  RequestInv'
  <2>1. ASSUME new.what # "slots"
        PROVE  /\ phase' > 1 /\ trees'[new.d] # <<>>
               /\ new.d \notin late' => Names(Current(new.d)', new)
    BY <1>1, <1>2, <1>3, <1>5, <2>1
  <2>2. QED
    BY <1>4, <1>5, <2>1 DEF RequestInv
<1>6. CASE requests' = requests
  BY <1>4, <1>6 DEF RequestInv
<1>7. CASE AskSlots
  <2>1. CASE requests' = requests \cup
                           {[what |-> "slots", d |-> k, slot |-> 0, sub |-> 1]}
    BY <1>5, <2>1
  <2>2. QED
    BY <1>6, <1>7, <2>1 DEF AskSlots
<1>8. CASE FindSlot
  <2>1. Walking
    BY <1>8 DEF FindSlot, Walking
  <2>2. k \in Devices /\ trees[k] # <<>> /\ phase > 1
    BY <2>1, HereType DEF WalkInv
  <2>3. CASE Ask("im", Current(k)[cursor.slot].number, 1)
    <3> DEFINE new == [what |-> "im", d |-> k,
                       slot |-> Current(k)[cursor.slot].number, sub |-> 1]
    <3>1. k \notin late => Names(Current(k), new)
      BY <2>1, SameSlot DEF Names
    <3>2. requests' = requests \cup {new}
      BY <2>3 DEF Ask
    <3>3. new.d = k
      OBVIOUS
    <3> HIDE DEF new
    <3>4. QED
      BY <1>5, <2>2, <3>1, <3>2, <3>3
  <2>4. QED
    BY <1>6, <1>8, <2>3 DEF FindSlot
<1>9. CASE FindSubslot
  <2>1. Walking /\ mpc = "sub" /\ phase = 2
    BY <1>9 DEF FindSubslot, Walking, WalkInv
  <2>2. k \in Devices /\ trees[k] # <<>> /\ phase > 1
          /\ cursor.sub \in DOMAIN Here.subs
    BY <2>1, HereType DEF WalkInv
  <2>3. CASE Ask("port", number, SubsSeen[cursor.sub].number)
    <3> DEFINE new == [what |-> "port", d |-> k, slot |-> number,
                       sub |-> SubsSeen[cursor.sub].number]
    <3>1. k \notin late => Names(Current(k), new)
      BY <2>1, <2>2, SameSlot DEF Names
    <3>2. requests' = requests \cup {new}
      BY <2>3 DEF Ask
    <3>3. new.d = k
      OBVIOUS
    <3> HIDE DEF new
    <3>4. QED
      BY <1>5, <2>2, <3>1, <3>2, <3>3
  <2>4. QED
    BY <1>6, <1>9, <2>3 DEF FindSubslot
<1>10. CASE ~AskSlots /\ ~FindSlot /\ ~FindSubslot
  <2>1. requests' = requests
    BY <1>10, Zenon DEF MainStep, Launch, EnterDevice, EnterSlot, Unresolved,
                 NextSubslot, NextSlot, SendsOver, Join
  <2>2. QED
    BY <1>6, <2>1
<1>11. QED
  BY <1>7, <1>8, <1>9, <1>10

\* main's walk of the ports leaves out nothing.
LEMMA MainWalked ==
  ASSUME StateOK, WalkInv, CursorInv, WalkedInv, MainStep PROVE WalkedInv'
<1>1. /\ UNCHANGED <<trees, late>> /\ requests \subseteq requests'
      /\ missed \subseteq missed'
      /\ cursor \in [gen : Nat, slot : Nat, sub : Nat] /\ k \in Nat /\ k >= 1
      /\ Count \in Nat
  BY MainKeeps, TreeAssumption DEF StateOK, WalkInv
<1>2. mpc' = "join" => k' > Count
  BY <1>1 DEF MainStep, Launch, AskSlots, EnterDevice, EnterSlot, Unresolved,
        FindSlot, FindSubslot, NextSubslot, NextSlot, SendsOver, Join, Die,
        AfterSend
<1>3. SUFFICES ASSUME phase' = 2, mpc' \notin {"launch", "dead"},
                      NEW d \in Devices \ (late' \cup missed'), trees'[d] # <<>>,
                      NEW s \in DOMAIN Current(d)',
                      NEW u \in DOMAIN Current(d)'[s].subs, Passed(d, s, u)'
               PROVE  PortOf(d, s, u)' \in requests'
  BY <1>2, Zenon DEF WalkedInv
<1>4. /\ d \in Devices /\ d \notin late /\ d \notin missed /\ trees[d] # <<>>
      /\ Current(d)' = Current(d) /\ PortOf(d, s, u)' = PortOf(d, s, u)
      /\ s \in DOMAIN Current(d) /\ u \in DOMAIN Current(d)[s].subs
  BY <1>1, <1>3 DEF Current, PortOf
<1>5. d \in Nat /\ Current(d) \in Seq(Slot) /\ s \in Nat
        /\ Current(d)[s].subs \in Seq(Subslot) /\ u \in Nat /\ u >= 1 /\ s >= 1
        /\ s <= Len(Current(d)) /\ u <= Len(Current(d)[s].subs)
  <2>1. Current(d) \in Seq(Slot) /\ d \in Nat
    BY <1>4, CurrentIs DEF Devices
  <2>2. Current(d)[s].subs \in Seq(Subslot)
    BY <1>4, <2>1, SubsType
  <2>3. QED
    BY <1>4, <2>1, <2>2
<1>6. ASSUME phase = 2, mpc \notin {"launch", "dead"}, Passed(d, s, u)
      PROVE  PortOf(d, s, u)' \in requests'
  BY <1>1, <1>4, <1>6 DEF WalkedInv
<1>7. CASE Launch
  <2>1. k' = 1 /\ ~Walking'
    BY <1>7 DEF Launch, Walking
  <2>2. QED
    BY <1>3, <1>4, <2>1 DEF Passed, Devices
<1>8. CASE AskSlots
  BY <1>3, <1>8 DEF AskSlots
<1>9. CASE EnterDevice
  <2>1. phase = 2 /\ mpc = "device"
    BY <1>3, <1>9 DEF EnterDevice
  <2>2. CASE trees[k] = <<>>
    <3>1. k' = k + 1 /\ ~Walking' /\ d # k
      BY <1>4, <1>9, <2>2 DEF EnterDevice, Walking
    <3>2. Passed(d, s, u)
      BY <1>1, <1>3, <1>5, <3>1 DEF Passed
    <3>3. QED
      BY <1>6, <2>1, <3>2
  <2>3. CASE trees[k] # <<>>
    <3>1. k' = k /\ cursor'.slot = 1 /\ cursor'.sub = 0 /\ mpc' = "slot"
      BY <1>9, <2>3 DEF EnterDevice
    <3>2. Passed(d, s, u)
      BY <1>1, <1>3, <1>5, <3>1 DEF Passed
    <3>3. QED
      BY <1>6, <2>1, <3>2
  <2>4. QED
    BY <2>2, <2>3
<1>10. CASE EnterSlot
  <2>1. phase = 2 /\ mpc = "slot" /\ Walking /\ k' = k
    BY <1>3, <1>10 DEF EnterSlot, Walking
  <2>2. CASE /\ mpc' = "send" /\ cursor' = [cursor EXCEPT !.sub = 1]
    <3>1. cursor'.slot = cursor.slot /\ cursor'.sub = 1
      BY <1>1, <2>2
    <3>2. Passed(d, s, u)
      BY <1>1, <1>3, <1>5, <2>1, <2>2, <3>1 DEF Passed
    <3>3. QED
      BY <1>6, <2>1, <3>2
  <2>3. CASE Here.subs = <<>> /\ mpc' = "next" /\ cursor' = cursor
    <3>1. d = k => s # cursor.slot
      BY <1>4, <2>1, <2>3, SameSlot
    <3>2. Passed(d, s, u)
      BY <1>1, <1>3, <1>5, <2>1, <2>3, <3>1 DEF Passed
    <3>3. QED
      BY <1>6, <2>1, <3>2
  <2>4. QED
    BY <1>10, <2>1, <2>2, <2>3 DEF EnterSlot
<1>11. CASE Unresolved
  <2>1. phase = 2 /\ mpc = "send" /\ k' = k /\ missed' = missed \cup {k}
    BY <1>3, <1>11 DEF Unresolved
  <2>2. d # k
    BY <1>3, <2>1
  <2>3. Passed(d, s, u)
    BY <1>3, <2>1, <2>2 DEF Passed
  <2>4. QED
    BY <1>6, <2>1, <2>3
<1>12. CASE FindSlot
  <2>1. phase = 2 /\ mpc = "send" /\ UNCHANGED <<k, cursor>> /\ mpc' = "sub"
    BY <1>3, <1>12 DEF FindSlot, Die
  <2>2. Passed(d, s, u)
    BY <1>3, <2>1 DEF Passed, Walking
  <2>3. QED
    BY <1>6, <2>1, <2>2
<1>13. CASE FindSubslot
  <2>1. /\ mpc = "sub" /\ Walking /\ phase = 2 /\ UNCHANGED <<k, cursor>>
        /\ mpc' = "after"
        /\ Ask("port", number, SubsSeen[cursor.sub].number)
    BY <1>3, <1>13 DEF FindSubslot, Die, AfterSend, Walking
  <2>2. CASE d = k /\ s = cursor.slot /\ u = cursor.sub
    <3>1. SubsSeen = Current(d)[s].subs /\ number = Current(d)[s].number
      BY <1>4, <2>1, <2>2, SameSlot
    <3>2. PortOf(d, s, u) = [what |-> "port", d |-> k, slot |-> number,
                             sub |-> SubsSeen[cursor.sub].number]
      BY <2>2, <3>1 DEF PortOf
    <3>3. QED
      BY <1>4, <2>1, <3>2 DEF Ask
  <2>3. CASE ~(d = k /\ s = cursor.slot /\ u = cursor.sub)
    <3>1. Passed(d, s, u)
      BY <1>3, <2>1, <2>3 DEF Passed
    <3>2. QED
      BY <1>6, <2>1, <3>1
  <2>4. QED
    BY <2>2, <2>3
<1>14. CASE NextSubslot
  <2>1. phase = 2 /\ mpc = "after" /\ Walking /\ k' = k
    BY <1>3, <1>14 DEF NextSubslot, Walking
  <2>2. CASE mpc' = "send" /\ cursor' = [cursor EXCEPT !.sub = @ + 1]
    <3>1. cursor'.slot = cursor.slot /\ cursor'.sub = cursor.sub + 1
      BY <1>1, <2>2
    <3>2. Passed(d, s, u)
      BY <1>1, <1>3, <1>5, <2>1, <2>2, <3>1 DEF Passed
    <3>3. QED
      BY <1>6, <2>1, <3>2
  <2>3. CASE ~(cursor.sub < Len(Here.subs)) /\ mpc' = "next" /\ cursor' = cursor
    <3>1. d = k /\ s = cursor.slot => Here.subs = Current(d)[s].subs
      BY <1>4, <2>1, SameSlot
    <3>2. d = k /\ s = cursor.slot => u <= cursor.sub
      BY <1>1, <1>5, <2>3, <3>1
    <3>3. Passed(d, s, u)
      BY <1>1, <1>3, <1>5, <2>1, <2>3, <3>2 DEF Passed
    <3>4. QED
      BY <1>6, <2>1, <3>3
  <2>4. QED
    BY <1>14, <2>2, <2>3 DEF NextSubslot
<1>15. CASE NextSlot
  <2>1. phase = 2 /\ mpc = "next" /\ Walking
    BY <1>3, <1>15 DEF NextSlot, Walking
  <2>2. CASE /\ mpc' = "slot" /\ k' = k
             /\ cursor' = [cursor EXCEPT !.slot = @ + 1, !.sub = 0]
    <3>1. cursor'.slot = cursor.slot + 1 /\ cursor'.sub = 0
      BY <1>1, <2>2
    <3>2. Passed(d, s, u)
      BY <1>1, <1>3, <1>5, <2>1, <2>2, <3>1 DEF Passed
    <3>3. QED
      BY <1>6, <2>1, <3>2
  <2>3. CASE /\ cursor.slot = Len(trees[k][cursor.gen])
             /\ mpc' = "device" /\ k' = k + 1
    <3>1. d = k => s <= cursor.slot
      BY <1>4, <1>5, <2>1, <2>3, SameSlot DEF Current
    <3>2. ~Walking'
      BY <2>3 DEF Walking
    <3>3. Passed(d, s, u)
      BY <1>1, <1>3, <1>5, <2>1, <2>3, <3>1, <3>2 DEF Passed
    <3>4. QED
      BY <1>6, <2>1, <3>3
  <2>4. QED
    BY <1>15, <2>2, <2>3 DEF NextSlot
<1>16. CASE SendsOver \/ Join
  <2>1. phase = 2 /\ mpc \notin {"launch", "dead"} /\ k' = k /\ ~Walking'
    BY <1>3, <1>16 DEF SendsOver, Join, Walking
  <2>2. Passed(d, s, u)
    BY <1>3, <2>1 DEF Passed
  <2>3. QED
    BY <1>6, <2>1, <2>2
<1>17. QED
  BY <1>7, <1>8, <1>9, <1>10, <1>11, <1>12, <1>13, <1>14, <1>15, <1>16
  DEF MainStep

-----------------------------------------------------------------------------
(* The invariant.                                                          *)

LEMMA InitInv == Init => TreeInv
<1> SUFFICES ASSUME Init PROVE TreeInv
  OBVIOUS
<1>1. Count \in Nat /\ <<>> \in Seq(Seq(Slot))
  BY TreeAssumption
<1>2. StateOK
  BY <1>1 DEF Init, StateOK, NoCursor
<1>3. capture \in BOOLEAN
  BY Zenon DEF Init
<1>4. WalkInv
  BY <1>1 DEF Init, WalkInv, Walking
<1>5. PlugInv
  BY DEF Init, PlugInv
<1>6. CursorInv /\ RequestInv /\ WalkedInv
  BY DEF Init, CursorInv, Walking, RequestInv, WalkedInv
<1>7. DataInv /\ DiesOfLateAnswer
  BY DEF Init, DataInv, DiesOfLateAnswer
<1>8. QED
  BY <1>2, <1>3, <1>4, <1>5, <1>6, <1>7 DEF TreeInv, TypeOK

LEMMA HandlerInv == TreeInv /\ HandlerStep => TreeInv'
<1> SUFFICES ASSUME TreeInv, HandlerStep PROVE TreeInv'
  OBVIOUS
<1>1. /\ StateOK /\ WalkInv /\ PlugInv /\ CursorInv /\ RequestInv /\ WalkedInv
      /\ DataInv /\ DiesOfLateAnswer
  BY DEF TreeInv, TypeOK
<1>2. capture \in BOOLEAN /\ capture' = capture
  <2>1. capture' = capture
    BY <1>1, HandlerTrees, Zenon
  <2>2. QED
    BY <2>1, Zenon DEF TreeInv, TypeOK
<1>3. capture' \in BOOLEAN
  BY <1>2, Zenon
<1>4. QED
  BY <1>1, <1>3, HandlerTypes, HandlerWalks, HandlerPlugs, HandlerCursor,
     HandlerRequests, HandlerWalked, HandlerData, HandlerDies
  DEF TreeInv, TypeOK

LEMMA MainInv == TreeInv /\ MainStep => TreeInv'
<1> SUFFICES ASSUME TreeInv, MainStep PROVE TreeInv'
  OBVIOUS
<1>1. /\ StateOK /\ WalkInv /\ PlugInv /\ CursorInv /\ RequestInv /\ WalkedInv
      /\ DataInv /\ DiesOfLateAnswer
  BY DEF TreeInv, TypeOK
<1>2. capture' \in BOOLEAN
  <2>1. capture' = TRUE \/ capture' = capture
    BY Zenon DEF MainStep, Launch, AskSlots, EnterDevice, EnterSlot, Unresolved,
       FindSlot, FindSubslot, NextSubslot, NextSlot, SendsOver, Join
  <2>2. QED
    BY <2>1, Zenon DEF TreeInv, TypeOK
<1>3. QED
  BY <1>1, <1>2, MainTypes, MainWalks, MainPlugs, MainCursor, MainRequests,
     MainWalked, MainData, MainDies
  DEF TreeInv, TypeOK

LEMMA EndInv == TreeInv /\ EndCapture => TreeInv'
<1> SUFFICES ASSUME TreeInv, EndCapture PROVE TreeInv'
  OBVIOUS
<1> USE DEF mainVars, history
<1>1. /\ StateOK /\ WalkInv /\ PlugInv /\ CursorInv /\ RequestInv /\ WalkedInv
      /\ DataInv /\ DiesOfLateAnswer
  BY DEF TreeInv, TypeOK
<1>2. UNCHANGED <<trees, job, mpc, phase, k, cursor, seen, number, requests, late,
                  missed, got, fault>>
  BY DEF EndCapture
<1>3. capture' \in BOOLEAN
  BY Zenon DEF EndCapture
<1>4. StateOK'
  BY <1>1, <1>2 DEF StateOK
<1>5. WalkInv'
  BY <1>1, <1>2 DEF WalkInv, Walking, Here
<1>6. PlugInv'
  <2>1. job' = NoJob
    BY <1>2 DEF EndCapture, Handling
  <2>2. \A d \in Devices : Current(d)' = Current(d) /\ StageOf(d)' = StageOf(d)
    BY <1>2 DEF Current, StageOf
  <2>3. QED
    BY <1>1, <1>2, <2>1, <2>2 DEF PlugInv
<1>7. CursorInv'
  BY <1>1, <1>2 DEF CursorInv, Walking, Here
<1>8. RequestInv'
  BY <1>1, <1>2 DEF RequestInv, Current, Names
<1>9. WalkedInv'
  BY <1>1, <1>2 DEF WalkedInv, Current, PortOf, Passed, Walking
<1>10. DataInv'
  BY <1>1, <1>2, NoNewDataEver
<1>11. DiesOfLateAnswer'
  BY <1>1, <1>2 DEF DiesOfLateAnswer
<1>12. QED
  BY <1>3, <1>4, <1>5, <1>6, <1>7, <1>8, <1>9, <1>10, <1>11 DEF TreeInv, TypeOK

LEMMA StutterInv == TreeInv /\ UNCHANGED vars => TreeInv'
<1> SUFFICES ASSUME TreeInv, UNCHANGED vars PROVE TreeInv'
  OBVIOUS
<1>1. UNCHANGED <<trees, job, mpc, phase, k, cursor, seen, number, requests, late,
                  missed, got, fault, capture>>
  BY Zenon DEF vars, mainVars, history
<1>2. capture' \in BOOLEAN
  BY <1>1, Zenon DEF TreeInv, TypeOK
<1>3. StateOK' /\ WalkInv'
  BY <1>1 DEF TreeInv, TypeOK, StateOK, WalkInv, Walking, Here
<1>4. PlugInv'
  BY <1>1 DEF TreeInv, PlugInv, Current, StageOf
<1>5. CursorInv' /\ RequestInv'
  BY <1>1 DEF TreeInv, CursorInv, RequestInv, Walking, Here, Current, Names
<1>6. WalkedInv'
  BY <1>1 DEF TreeInv, WalkedInv, Current, PortOf, Passed, Walking
<1>7. DataInv' /\ DiesOfLateAnswer'
  <2>1. DataInv'
    BY <1>1, NoNewDataEver DEF TreeInv, TypeOK
  <2>2. DiesOfLateAnswer'
    BY <1>1 DEF TreeInv, DiesOfLateAnswer
  <2>3. QED
    BY <2>1, <2>2
<1>8. QED
  BY <1>2, <1>3, <1>4, <1>5, <1>6, <1>7 DEF TreeInv, TypeOK

LEMMA TreeInvariant == Spec => []TreeInv
<1>1. TreeInv /\ [Next]_vars => TreeInv'
  BY HandlerInv, MainInv, EndInv, StutterInv DEF Next, Stopped
<1>2. QED
  BY InitInv, <1>1, PTL DEF Spec

-----------------------------------------------------------------------------
(* The theorems.                                                           *)

\* Every variable has its type.
THEOREM TypeInvariant == Spec => []TypeOK
<1>1. TreeInv => TypeOK
  BY DEF TreeInv
<1>2. QED
  BY <1>1, TreeInvariant, PTL

LEMMA PlanIs ==
  ASSUME NEW tree \in Seq(Slot), NEW mods \in Seq(Plugged),
         Shape(tree, mods, "idle")
  PROVE  Plan(tree) = SubSeq(mods, 1, Len(tree))
<1>1. ASSUME NEW s \in DOMAIN tree
      PROVE  [number |-> tree[s].number,
              subs |-> [u \in DOMAIN tree[s].subs |-> tree[s].subs[u].number]]
             = mods[s]
  <2>1. s \in DOMAIN mods /\ Done(tree[s], mods[s])
    BY AllDone
  <2>2. mods[s] \in Plugged /\ mods[s].subs \in Seq(Nat)
          /\ tree[s].subs \in Seq(Subslot)
    BY <2>1, PluggedType, SubsType
  <2>3. /\ tree[s].number = mods[s].number
        /\ Len(tree[s].subs) = Len(mods[s].subs)
        /\ \A u \in DOMAIN tree[s].subs : tree[s].subs[u].number = mods[s].subs[u]
    BY <2>1, <2>2 DEF Done, Like
  <2>4. DOMAIN tree[s].subs = DOMAIN mods[s].subs
    BY <2>2, <2>3
  <2>5. mods[s].subs = [u \in DOMAIN mods[s].subs |-> mods[s].subs[u]]
    BY <2>2
  <2>6. [u \in DOMAIN tree[s].subs |-> tree[s].subs[u].number] = mods[s].subs
    BY <2>3, <2>4, <2>5
  <2>7. mods[s] = [number |-> mods[s].number, subs |-> mods[s].subs]
    BY <2>2 DEF Plugged
  <2>8. QED
    BY <2>3, <2>6, <2>7
<1>2. DOMAIN tree = 1..Len(tree) /\ Len(tree) \in Nat /\ Len(tree) <= Len(mods)
  BY DEF Shape
<1>3. Plan(tree) = [s \in 1..Len(tree) |-> mods[s]]
  BY <1>1, <1>2 DEF Plan
<1>4. SubSeq(mods, 1, Len(tree)) = [s \in 1..Len(tree) |-> mods[s]]
  BY <1>2
<1>5. QED
  BY <1>3, <1>4

(***************************************************************************)
(* Whatever was built, replaced or filled in which order, a tree that is    *)
(* not being built is the device's plugged slots from the first on, up to   *)
(* the first without submodules.                                            *)
(***************************************************************************)
THEOREM PluggedAsBuilt == Spec => []TreeIsPlugged
<1>1. TreeInv => TreeIsPlugged
  <2> SUFFICES ASSUME TreeInv, NEW d \in Devices, Whole(d)
               PROVE  LET plan == Plan(Current(d)) IN
                      /\ plan = SubSeq(Modules[d], 1, Len(plan))
                      /\ \/ Len(plan) = Len(Modules[d])
                         \/ plan[Len(plan)].subs = <<>>
    BY DEF TreeIsPlugged
  <2> DEFINE tree == Current(d)
             plan == Plan(tree)
  <2>1. StateOK /\ PlugInv /\ trees[d] # <<>> /\ StageOf(d) = "idle"
    BY DEF TreeInv, TypeOK, Whole, StageOf
  <2>2. /\ tree \in Seq(Slot) /\ Modules[d] \in Seq(Plugged)
        /\ Shape(tree, Modules[d], "idle")
    BY <2>1, CurrentIs, ModulesType DEF PlugInv
  <2> HIDE DEF tree
  <2>3. plan = SubSeq(Modules[d], 1, Len(tree))
    BY <2>2, PlanIs
  <2>4. /\ Len(tree) \in DOMAIN tree /\ Len(tree) \in Nat
        /\ Len(tree) <= Len(Modules[d])
        /\ Len(tree) = Len(Modules[d]) \/ tree[Len(tree)].subs = <<>>
    BY <2>2 DEF Shape
  <2>5. Len(plan) = Len(tree)
    BY <2>2, <2>3, <2>4
  <2>6. tree[Len(tree)].subs = <<>> => plan[Len(tree)].subs = <<>>
    BY <2>4 DEF Plan
  <2>7. QED
    BY <2>3, <2>4, <2>5, <2>6 DEF tree
<1>2. QED
  BY <1>1, TreeInvariant, PTL

(***************************************************************************)
(* NULL is dereferenced, by a handler or by sendpacket_IM_rem, only in the  *)
(* tree of a device that answered for its slots once more after phase 1.    *)
(***************************************************************************)
THEOREM OnlyLateAnswersKill == Spec => []DiesOfLateAnswer
<1>1. TreeInv => DiesOfLateAnswer
  BY DEF TreeInv
<1>2. QED
  BY <1>1, TreeInvariant, PTL

(***************************************************************************)
(* When main has walked the ports, every subslot of every device has been   *)
(* asked for, unless its tree was replaced or its MAC did not resolve.      *)
(***************************************************************************)
THEOREM NoPortLeftOut == Spec => []EveryPortAsked
<1>1. TreeInv => EveryPortAsked
  <2> SUFFICES ASSUME TreeInv, mpc = "join", phase = 2,
                      NEW d \in Devices \ (late \cup missed), trees[d] # <<>>,
                      NEW s \in DOMAIN Current(d),
                      NEW u \in DOMAIN Current(d)[s].subs
               PROVE  PortOf(d, s, u) \in requests
    BY DEF EveryPortAsked, PortOf
  <2>1. k > Count /\ k \in Nat /\ WalkedInv
    BY DEF TreeInv, WalkedInv, TypeOK, StateOK
  <2>2. d < k
    BY <2>1, TreeAssumption DEF Devices
  <2>3. QED
    BY <2>1, <2>2 DEF WalkedInv, Passed
<1>2. QED
  BY <1>1, TreeInvariant, PTL

(***************************************************************************)
(* Port data stand where they were asked for and came for, and in a device  *)
(* without a late answer exactly the subslots that answered have theirs.    *)
(***************************************************************************)
THEOREM DataWhereItBelongs == Spec => []PortDataKept
<1>1. TreeInv => PortDataKept
  <2> SUFFICES ASSUME TreeInv, NEW d \in Devices, Whole(d)
               PROVE  LET kept == UNION
          {{<<d, slot.number, slot.subs[u].number>> :
              u \in {v \in DOMAIN slot.subs : slot.subs[v].answered}} :
            slot \in {Current(d)[s] : s \in DOMAIN Current(d)}}
                          came == {g \in got : g[1] = d} IN
                      kept \subseteq came
                        /\ (d \notin late /\ fault = 0 => kept = came)
    BY DEF PortDataKept
  <2> DEFINE data(slot) ==
               {<<d, slot.number, slot.subs[u].number>> :
                  u \in {v \in DOMAIN slot.subs : slot.subs[v].answered}}
             kept == UNION {data(slot) :
                              slot \in {Current(d)[s] : s \in DOMAIN Current(d)}}
             came == {g \in got : g[1] = d}
  <2>1. trees[d] # <<>> /\ DataInv /\ got \subseteq Devices \X Nat \X Nat
    BY DEF TreeInv, TypeOK, StateOK, Whole
  <2>2. ASSUME NEW g \in kept PROVE g \in came
    <3>1. PICK s \in DOMAIN Current(d) : g \in data(Current(d)[s])
      BY <2>2
    <3>2. PICK u \in DOMAIN Current(d)[s].subs :
            /\ Current(d)[s].subs[u].answered
            /\ g = <<d, Current(d)[s].number, Current(d)[s].subs[u].number>>
      BY <3>1
    <3>3. QED
      BY <2>1, <3>2 DEF DataInv
  <2>3. ASSUME d \notin late, fault = 0, NEW g \in came PROVE g \in kept
    <3>1. g \in got /\ g[1] = d /\ g = <<d, g[2], g[3]>>
      BY <2>1, <2>3
    <3>2. PICK s \in DOMAIN Current(d) : \E u \in DOMAIN Current(d)[s].subs :
            /\ Current(d)[s].subs[u].answered
            /\ Current(d)[s].number = g[2]
            /\ Current(d)[s].subs[u].number = g[3]
      BY <2>1, <2>3, <3>1 DEF DataInv
    <3>3. g \in data(Current(d)[s])
      BY <3>1, <3>2
    <3>4. QED
      BY <3>2, <3>3
  <2>4. QED
    BY <2>2, <2>3
<1>2. QED
  BY <1>1, TreeInvariant, PTL
=============================================================================
