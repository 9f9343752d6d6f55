------------------------- MODULE HLSEncoder_proofs --------------------------
(***************************************************************************)
(* Proofs about HLSParser for every window size, every set of variants and *)
(* names and every sequence of uploaded playlists, and about HLSEncoder    *)
(* for every window of the encoders and every order of their uploads, lost *)
(* playlists and restarts.                                                 *)
(***************************************************************************)
EXTENDS HLSEncoder, FiniteSetTheorems, SequenceTheorems, TLAPS

\* Positions up to n are finitely many.
LEMMA PositionsFinite ==
    ASSUME NEW items, NEW n \in Nat
    PROVE  /\ SegmentsUpTo(items, n) \subseteq 1..n
           /\ TagsUpTo(items, n) \subseteq 1..n
           /\ IsFiniteSet(SegmentsUpTo(items, n))
           /\ IsFiniteSet(TagsUpTo(items, n))
           /\ Cardinality(SegmentsUpTo(items, n)) \in Nat
           /\ Cardinality(TagsUpTo(items, n)) \in Nat
<1>1. IsFiniteSet(1..n)
  BY FS_Interval
<1>2. SegmentsUpTo(items, n) \subseteq 1..n /\ TagsUpTo(items, n) \subseteq 1..n
  BY DEF SegmentsUpTo, TagsUpTo
<1>3. IsFiniteSet(SegmentsUpTo(items, n)) /\ IsFiniteSet(TagsUpTo(items, n))
  BY <1>1, <1>2, FS_Subset
<1> QED BY <1>2, <1>3, FS_CardinalityType

\* A set of positions is finite.
LEMMA SubsetFinite ==
    ASSUME NEW n \in Nat, NEW C \in SUBSET (1..n)
    PROVE  IsFiniteSet(C)
<1>1. IsFiniteSet(1..n)
  BY FS_Interval
<1> QED BY <1>1, FS_Subset

\* The positions C, moved by b.
Shift(b, C) == {b + j : j \in C}

\* Moving a set of positions by b does not change how many they are.
LEMMA ShiftCount ==
    ASSUME NEW b \in Nat, NEW k \in Nat, NEW C \in SUBSET (1..k)
    PROVE  /\ IsFiniteSet(Shift(b, C))
           /\ Cardinality(Shift(b, C)) = Cardinality(C)
<1> DEFINE D == Shift(b, C)
           f == [j \in C |-> b + j]
<1>1. IsFiniteSet(C)
  BY SubsetFinite
<1>2. f \in [C -> D] /\ \A i, j \in C : f[i] = f[j] => i = j
  BY DEF Shift
<1>3. \A d \in D : \E j \in C : f[j] = d
  BY DEF Shift
<1>4. f \in Bijection(C, D)
  BY <1>2, <1>3 DEF Bijection, Injection, Surjection, IsInjective
<1>5. ExistsBijection(C, D)
  BY <1>4 DEF ExistsBijection
<1> QED BY <1>1, <1>5, FS_Bijection

\* Counting up to b + k is counting up to b and then k more.
LEMMA CountSplit ==
    ASSUME NEW b \in Nat, NEW k \in Nat,
           NEW B \in SUBSET (1..b), NEW C \in SUBSET (1..k)
    PROVE  Cardinality(B \cup Shift(b, C)) = Cardinality(B) + Cardinality(C)
<1> DEFINE D == Shift(b, C)
<1>1. IsFiniteSet(B)
  BY SubsetFinite
<1>2. IsFiniteSet(D) /\ Cardinality(D) = Cardinality(C)
  BY ShiftCount
<1>3. B \cap D = {}
  BY DEF Shift
<1>4. Cardinality(B \cap D) = 0
  BY <1>3, FS_EmptySet
<1>5. Cardinality(B \cup D) = Cardinality(B) + Cardinality(D) - Cardinality(B \cap D)
  BY <1>1, <1>2, FS_Union
<1>6. Cardinality(B) \in Nat /\ Cardinality(D) \in Nat
  BY <1>1, <1>2, FS_CardinalityType
<1> QED BY <1>2, <1>4, <1>5, <1>6

\* The first k of the items are those of h after its first b.
Continues(items, h, b, k) == \A j \in 1..k : items[j] = h[b + j]

\* A sequence that shows k items of h after the first b counts on from there.
LEMMA CountOn ==
    ASSUME NEW h, NEW items, NEW b \in Nat, NEW k \in Nat,
           Continues(items, h, b, k)
    PROVE  /\ Cardinality(SegmentsUpTo(h, b + k))
                = Cardinality(SegmentsUpTo(h, b)) + Cardinality(SegmentsUpTo(items, k))
           /\ Cardinality(TagsUpTo(h, b + k))
                = Cardinality(TagsUpTo(h, b)) + Cardinality(TagsUpTo(items, k))
<1>0. \A B \in SUBSET (1..b), C \in SUBSET (1..k) :
         Cardinality(B \cup Shift(b, C)) = Cardinality(B) + Cardinality(C)
  BY CountSplit
<1>1. SegmentsUpTo(h, b + k) = SegmentsUpTo(h, b) \cup Shift(b, SegmentsUpTo(items, k))
  <2>1. ASSUME NEW i \in SegmentsUpTo(h, b + k), i > b
        PROVE  i \in Shift(b, SegmentsUpTo(items, k))
    <3>1. i - b \in 1..k /\ i = b + (i - b)
      BY <2>1 DEF SegmentsUpTo
    <3>2. i - b \in SegmentsUpTo(items, k)
      BY <2>1, <3>1 DEF SegmentsUpTo, Continues
    <3> QED BY <3>1, <3>2 DEF Shift
  <2>2. ASSUME NEW i \in SegmentsUpTo(h, b + k), ~(i > b)
        PROVE  i \in SegmentsUpTo(h, b)
    BY <2>2 DEF SegmentsUpTo
  <2>3. ASSUME NEW j \in SegmentsUpTo(items, k)
        PROVE  b + j \in SegmentsUpTo(h, b + k)
    BY <2>3 DEF SegmentsUpTo, Continues
  <2>4. SegmentsUpTo(h, b) \subseteq SegmentsUpTo(h, b + k)
    BY DEF SegmentsUpTo
  <2> QED BY <2>1, <2>2, <2>3, <2>4 DEF Shift
<1>2. TagsUpTo(h, b + k) = TagsUpTo(h, b) \cup Shift(b, TagsUpTo(items, k))
  <2>1. ASSUME NEW i \in TagsUpTo(h, b + k), i > b
        PROVE  i \in Shift(b, TagsUpTo(items, k))
    <3>1. i - b \in 1..k /\ i = b + (i - b)
      BY <2>1 DEF TagsUpTo
    <3>2. i - b \in TagsUpTo(items, k)
      BY <2>1, <3>1 DEF TagsUpTo, Continues
    <3> QED BY <3>1, <3>2 DEF Shift
  <2>2. ASSUME NEW i \in TagsUpTo(h, b + k), ~(i > b)
        PROVE  i \in TagsUpTo(h, b)
    BY <2>2 DEF TagsUpTo
  <2>3. ASSUME NEW j \in TagsUpTo(items, k)
        PROVE  b + j \in TagsUpTo(h, b + k)
    BY <2>3 DEF TagsUpTo, Continues
  <2>4. TagsUpTo(h, b) \subseteq TagsUpTo(h, b + k)
    BY DEF TagsUpTo
  <2> QED BY <2>1, <2>2, <2>3, <2>4 DEF Shift
<1>3. Cardinality(SegmentsUpTo(h, b) \cup Shift(b, SegmentsUpTo(items, k)))
        = Cardinality(SegmentsUpTo(h, b)) + Cardinality(SegmentsUpTo(items, k))
  <2>1. SegmentsUpTo(h, b) \in SUBSET (1..b) /\ SegmentsUpTo(items, k) \in SUBSET (1..k)
    BY DEF SegmentsUpTo
  <2> QED BY <2>1, <1>0, Zenon
<1>4. Cardinality(TagsUpTo(h, b) \cup Shift(b, TagsUpTo(items, k)))
        = Cardinality(TagsUpTo(h, b)) + Cardinality(TagsUpTo(items, k))
  <2>1. TagsUpTo(h, b) \in SUBSET (1..b) /\ TagsUpTo(items, k) \in SUBSET (1..k)
    BY DEF TagsUpTo
  <2> QED BY <2>1, <1>0, Zenon
<1> QED BY <1>1, <1>2, <1>3, <1>4

\* One more position, which holds a segment.
LEMMA CountSegment ==
    ASSUME NEW h, NEW b \in Nat, IsSegment(h[b + 1])
    PROVE  /\ Cardinality(SegmentsUpTo(h, b + 1)) = Cardinality(SegmentsUpTo(h, b)) + 1
           /\ Cardinality(TagsUpTo(h, b + 1)) = Cardinality(TagsUpTo(h, b))
<1>1. /\ b + 1 \notin SegmentsUpTo(h, b)
      /\ SegmentsUpTo(h, b + 1) = SegmentsUpTo(h, b) \cup {b + 1}
      /\ TagsUpTo(h, b + 1) = TagsUpTo(h, b)
  BY DEF SegmentsUpTo, TagsUpTo
<1>2. IsFiniteSet(SegmentsUpTo(h, b))
  BY PositionsFinite
<1>3. Cardinality(SegmentsUpTo(h, b) \cup {b + 1}) = Cardinality(SegmentsUpTo(h, b)) + 1
  BY <1>1, <1>2, FS_AddElement
<1> QED BY <1>1, <1>3

\* The same for a tag.
LEMMA CountTag ==
    ASSUME NEW h, NEW b \in Nat, ~IsSegment(h[b + 1])
    PROVE  /\ Cardinality(TagsUpTo(h, b + 1)) = Cardinality(TagsUpTo(h, b)) + 1
           /\ Cardinality(SegmentsUpTo(h, b + 1)) = Cardinality(SegmentsUpTo(h, b))
<1>1. /\ b + 1 \notin TagsUpTo(h, b)
      /\ TagsUpTo(h, b + 1) = TagsUpTo(h, b) \cup {b + 1}
      /\ SegmentsUpTo(h, b + 1) = SegmentsUpTo(h, b)
  BY DEF SegmentsUpTo, TagsUpTo
<1>2. IsFiniteSet(TagsUpTo(h, b))
  BY PositionsFinite
<1>3. Cardinality(TagsUpTo(h, b) \cup {b + 1}) = Cardinality(TagsUpTo(h, b)) + 1
  BY <1>1, <1>2, FS_AddElement
<1> QED BY <1>1, <1>3

\* A longer history is counted the same up to where the old one ended.
LEMMA CountSame ==
    ASSUME NEW h \in Seq(Items), NEW item \in Items, NEW b \in 0..Len(h)
    PROVE  /\ SegmentsUpTo(Append(h, item), b) = SegmentsUpTo(h, b)
           /\ TagsUpTo(Append(h, item), b) = TagsUpTo(h, b)
<1>1. \A j \in 1..b : Append(h, item)[j] = h[j]
  OBVIOUS
<1> QED BY <1>1 DEF SegmentsUpTo, TagsUpTo

\* A window `items` on the history h after its first b items, with the counts
\* of what precedes it.
ShowsAt(items, seq, dseq, h, b) ==
    /\ b \in Nat
    /\ b + Len(items) <= Len(h)
    /\ \A i \in 1..Len(items) : items[i] = h[b + i]
    /\ seq = Cardinality(SegmentsUpTo(h, b))
    /\ dseq = Cardinality(TagsUpTo(h, b))

\* In such a window every item is numbered by its place in the history.
LEMMA WindowNumbers ==
    ASSUME NEW items \in Seq(Items), NEW seq, NEW dseq, NEW h \in Seq(Items), NEW b,
           ShowsAt(items, seq, dseq, h, b), NEW k \in 0..Len(items)
    PROVE  /\ seq + Cardinality(SegmentsUpTo(items, k)) = Cardinality(SegmentsUpTo(h, b + k))
           /\ dseq + Cardinality(TagsUpTo(items, k)) = Cardinality(TagsUpTo(h, b + k))
<1>1. b \in Nat /\ k \in Nat
  BY DEF ShowsAt
<1>2. Continues(items, h, b, k)
  BY DEF ShowsAt, Continues
<1>3. /\ Cardinality(SegmentsUpTo(h, b + k))
            = Cardinality(SegmentsUpTo(h, b)) + Cardinality(SegmentsUpTo(items, k))
      /\ Cardinality(TagsUpTo(h, b + k))
            = Cardinality(TagsUpTo(h, b)) + Cardinality(TagsUpTo(items, k))
  BY <1>1, <1>2, CountOn
<1> QED BY <1>3 DEF ShowsAt

\* What a window shows does not depend on what is appended to the history.
LEMMA WindowStays ==
    ASSUME NEW items \in Seq(Items), NEW seq, NEW dseq, NEW h \in Seq(Items), NEW b,
           ShowsAt(items, seq, dseq, h, b), NEW item \in Items
    PROVE  ShowsAt(items, seq, dseq, Append(h, item), b)
<1>1. b \in 0..Len(h) /\ b \in Nat
  BY DEF ShowsAt
<1>2. /\ SegmentsUpTo(Append(h, item), b) = SegmentsUpTo(h, b)
      /\ TagsUpTo(Append(h, item), b) = TagsUpTo(h, b)
  BY <1>1, CountSame
<1>3. Len(Append(h, item)) = Len(h) + 1 /\ \A j \in 1..Len(h) : Append(h, item)[j] = h[j]
  OBVIOUS
<1> QED BY <1>1, <1>2, <1>3 DEF ShowsAt

\* LivePlaylist.append while the window is not full.
LEMMA WindowGrows ==
    ASSUME NEW items \in Seq(Items), NEW seq, NEW dseq, NEW h \in Seq(Items), NEW b,
           ShowsAt(items, seq, dseq, h, b), b + Len(items) = Len(h), NEW item \in Items
    PROVE  ShowsAt(Append(items, item), seq, dseq, Append(h, item), b)
<1>1. ShowsAt(items, seq, dseq, Append(h, item), b)
  BY WindowStays
<1>2. /\ Len(Append(h, item)) = Len(h) + 1
      /\ Append(h, item)[Len(h) + 1] = item
  OBVIOUS
<1>3. /\ Len(Append(items, item)) = Len(items) + 1
      /\ Append(items, item)[Len(items) + 1] = item
      /\ \A i \in 1..Len(items) : Append(items, item)[i] = items[i]
  OBVIOUS
<1> QED BY <1>1, <1>2, <1>3 DEF ShowsAt

\* LivePlaylist.append when the window is full and slides.
LEMMA WindowSlides ==
    ASSUME NEW items \in Seq(Items), NEW seq \in Nat, NEW dseq \in Nat,
           NEW h \in Seq(Items), NEW b, NEW item \in Items, items # <<>>,
           ShowsAt(items, seq, dseq, h, b), b + Len(items) = Len(h)
    PROVE  /\ IsSegment(Head(items)) =>
                ShowsAt(Append(Tail(items), item), seq + 1, dseq, Append(h, item), b + 1)
           /\ ~IsSegment(Head(items)) =>
                ShowsAt(Append(Tail(items), item), seq, dseq + 1, Append(h, item), b + 1)
<1>1. ShowsAt(items, seq, dseq, Append(h, item), b)
  BY WindowStays
<1>2. PICK g \in Seq(Items) : g = Append(h, item)
  <2>1. Append(h, item) \in Seq(Items)
    OBVIOUS
  <2> QED BY <2>1, Zenon
<1>3. b \in Nat /\ b + 1 \in Nat
  BY DEF ShowsAt
<1>4. Len(items) >= 1 /\ Head(items) = items[1]
  OBVIOUS
<1>5. Head(items) = g[b + 1]
  BY <1>1, <1>2, <1>4 DEF ShowsAt
<1>6. Len(g) = Len(h) + 1 /\ g[Len(h) + 1] = item
  BY <1>2
<1>7. PICK new \in Seq(Items) : new = Append(Tail(items), item)
  <2>1. Append(Tail(items), item) \in Seq(Items)
    OBVIOUS
  <2> QED BY <2>1, Zenon
<1>8. /\ Len(new) = Len(items) /\ new[Len(items)] = item
      /\ \A i \in 1..(Len(items) - 1) : new[i] = items[i + 1]
  BY <1>4, <1>7
<1>9. \A i \in 1..Len(new) : new[i] = g[b + 1 + i]
  <2>1. \A i \in 1..Len(items) : items[i] = g[b + i]
    BY <1>1, <1>2 DEF ShowsAt
  <2>2. ASSUME NEW i \in 1..(Len(items) - 1) PROVE new[i] = g[b + 1 + i]
    BY <1>3, <1>8, <2>1
  <2>3. new[Len(items)] = g[b + 1 + Len(items)]
    BY <1>3, <1>6, <1>8
  <2>4. \A i \in 1..Len(new) : i = Len(items) \/ i \in 1..(Len(items) - 1)
    BY <1>8
  <2> QED BY <2>2, <2>3, <2>4
<1>10. b + 1 + Len(new) <= Len(g)
  BY <1>3, <1>6, <1>8
<1>11. seq = Cardinality(SegmentsUpTo(g, b)) /\ dseq = Cardinality(TagsUpTo(g, b))
  BY <1>1, <1>2 DEF ShowsAt
<1>12. ASSUME IsSegment(Head(items)) PROVE ShowsAt(new, seq + 1, dseq, g, b + 1)
  <2>1. IsSegment(g[b + 1])
    BY <1>5, <1>12
  <2>2. /\ Cardinality(SegmentsUpTo(g, b + 1)) = Cardinality(SegmentsUpTo(g, b)) + 1
        /\ Cardinality(TagsUpTo(g, b + 1)) = Cardinality(TagsUpTo(g, b))
    BY <1>3, <2>1, CountSegment
  <2> QED BY <1>3, <1>9, <1>10, <1>11, <2>2 DEF ShowsAt
<1>13. ASSUME ~IsSegment(Head(items)) PROVE ShowsAt(new, seq, dseq + 1, g, b + 1)
  <2>1. ~IsSegment(g[b + 1])
    BY <1>5, <1>13
  <2>2. /\ Cardinality(TagsUpTo(g, b + 1)) = Cardinality(TagsUpTo(g, b)) + 1
        /\ Cardinality(SegmentsUpTo(g, b + 1)) = Cardinality(SegmentsUpTo(g, b))
    BY <1>3, <2>1, CountTag
  <2> QED BY <1>3, <1>9, <1>10, <1>11, <2>2 DEF ShowsAt
<1> QED BY <1>2, <1>7, <1>12, <1>13

-----------------------------------------------------------------------------
\* The playlist lp shows the end of the first n items of the history h, as many
\* as the window holds.
Shows(lp, h, n) ==
    /\ n \in 0..Len(h)
    /\ Len(lp.Items) = (IF n < Size THEN n ELSE Size)
    /\ ShowsAt(lp.Items, lp.Sequence, lp.DiscontinuitySequence, h, n - Len(lp.Items))

\* That is enough for a player to number each item by its place in the history.
LEMMA ShowsIsNumbered ==
    ASSUME NEW lp \in LivePlaylists, NEW h \in Seq(Items), NEW n, Shows(lp, h, n)
    PROVE  Numbered(lp, h, n)
<1>1. PICK items \in Seq(Items), seq \in Nat, dseq \in Nat :
        items = lp.Items /\ seq = lp.Sequence /\ dseq = lp.DiscontinuitySequence
  BY DEF LivePlaylists
<1>2. PICK b : b = n - Len(items)
  OBVIOUS
<1>3. ShowsAt(items, seq, dseq, h, b) /\ n \in 0..Len(h)
  BY <1>1, <1>2 DEF Shows
<1>4. b \in Nat /\ \A i \in 1..Len(items) : items[i] = h[b + i]
  BY <1>3 DEF ShowsAt
<1>5. ASSUME NEW i \in 1..Len(items)
      PROVE  /\ seq + Cardinality(SegmentsUpTo(items, i - 1))
                  = Cardinality(SegmentsUpTo(h, b + i - 1))
             /\ dseq + Cardinality(TagsUpTo(items, i - 1))
                  = Cardinality(TagsUpTo(h, b + i - 1))
  <2>1. PICK k \in 0..Len(items) : k = i - 1
    OBVIOUS
  <2>2. /\ seq + Cardinality(SegmentsUpTo(items, k)) = Cardinality(SegmentsUpTo(h, b + k))
        /\ dseq + Cardinality(TagsUpTo(items, k)) = Cardinality(TagsUpTo(h, b + k))
    BY <1>3, WindowNumbers
  <2>3. b + k = b + i - 1
    BY <1>4, <2>1
  <2> QED BY <2>1, <2>2, <2>3
<1>6. n - Len(lp.Items) = b /\ 0 <= b /\ n <= Len(h)
  BY <1>1, <1>2, <1>3, <1>4
<1>7. \A i \in 1..Len(lp.Items) :
         /\ lp.Items[i] = h[b + i]
         /\ MediaSequence(lp, i) = Cardinality(SegmentsUpTo(h, b + i - 1))
         /\ DiscontinuityNumber(lp, i) = Cardinality(TagsUpTo(h, b + i - 1))
  BY <1>1, <1>4, <1>5 DEF MediaSequence, DiscontinuityNumber
<1> QED BY <1>6, <1>7 DEF Numbered

\* LivePlaylist.append keeps it, whether the window still grows or slides.
LEMMA AppendShows ==
    ASSUME NEW lp \in LivePlaylists, NEW h \in Seq(Items), NEW item \in Items,
           Shows(lp, h, Len(h))
    PROVE  /\ append(lp, item, Size) \in LivePlaylists
           /\ Shows(append(lp, item, Size), Append(h, item), Len(Append(h, item)))
<1>1. PICK items \in Seq(Items), seq \in Nat, dseq \in Nat :
        items = lp.Items /\ seq = lp.Sequence /\ dseq = lp.DiscontinuitySequence
  BY DEF LivePlaylists
<1>2. PICK b : b = Len(h) - Len(items)
  OBVIOUS
<1>3. /\ ShowsAt(items, seq, dseq, h, b)
      /\ Len(items) = (IF Len(h) < Size THEN Len(h) ELSE Size)
  BY <1>1, <1>2 DEF Shows
<1>4. b \in Nat /\ b + Len(items) = Len(h) /\ Size \in Nat \ {0} /\ Len(h) \in Nat
  BY <1>2, <1>3, SizeAssumption DEF ShowsAt
<1>5. Len(Append(h, item)) = Len(h) + 1
  OBVIOUS
<1>6. CASE Len(items) # Size
  <2>1. append(lp, item, Size)
          = [Sequence |-> seq, DiscontinuitySequence |-> dseq, Items |-> Append(items, item)]
    BY <1>1, <1>6 DEF append, LivePlaylists
  <2>2. ShowsAt(Append(items, item), seq, dseq, Append(h, item), b)
    BY <1>3, <1>4, WindowGrows
  <2>3. Len(Append(items, item)) = Len(items) + 1 /\ Append(items, item) \in Seq(Items)
    OBVIOUS
  <2>4. /\ Len(h) + 1 - (Len(items) + 1) = b
        /\ Len(items) + 1 = (IF Len(h) + 1 < Size THEN Len(h) + 1 ELSE Size)
    <3>1. Len(h) < Size /\ Len(items) = Len(h)
      BY <1>3, <1>4, <1>6
    <3> QED BY <1>2, <1>4, <3>1
  <2> QED BY <1>4, <1>5, <2>1, <2>2, <2>3, <2>4 DEF Shows, LivePlaylists
<1>7. CASE Len(items) = Size
  <2>1. items # <<>>
    BY <1>4, <1>7
  <2>2. PICK new \in Seq(Items) : new = Append(Tail(items), item)
    <3>1. Append(Tail(items), item) \in Seq(Items)
      BY <2>1
    <3> QED BY <3>1, Zenon
  <2>3. Len(new) = Len(items)
    <3>1. Tail(items) \in Seq(Items) /\ Len(Tail(items)) = Len(items) - 1
      BY <2>1
    <3>2. Len(new) = Len(Tail(items)) + 1
      BY <2>2, <3>1
    <3> QED BY <3>1, <3>2
  <2>4. /\ Len(h) + 1 - Len(new) = b + 1
        /\ Len(new) = (IF Len(h) + 1 < Size THEN Len(h) + 1 ELSE Size)
    <3>1. ~(Len(h) < Size) /\ Len(new) = Size
      BY <1>3, <1>4, <1>7, <2>3
    <3>2. ~(Len(h) + 1 < Size)
      BY <1>4, <3>1
    <3> QED BY <1>2, <1>4, <1>7, <3>1, <3>2
  <2>5. CASE IsSegment(Head(items))
    <3>1. append(lp, item, Size)
            = [Sequence |-> seq + 1, DiscontinuitySequence |-> dseq, Items |-> new]
      BY <1>1, <1>7, <2>2, <2>5, Zenon DEF append
    <3>2. ShowsAt(new, seq + 1, dseq, Append(h, item), b + 1)
      BY <1>3, <1>4, <2>1, <2>2, <2>5, WindowSlides
    <3>3. PICK r : r = append(lp, item, Size)
      OBVIOUS
    <3>4. /\ r \in LivePlaylists /\ r.Items = new
          /\ r.Sequence = seq + 1 /\ r.DiscontinuitySequence = dseq
      BY <3>1, <3>3 DEF LivePlaylists
    <3>5. Shows(r, Append(h, item), Len(h) + 1)
      <4>1. ShowsAt(r.Items, r.Sequence, r.DiscontinuitySequence, Append(h, item),
                    Len(h) + 1 - Len(r.Items))
        BY <2>4, <3>2, <3>4
      <4>2. Len(h) + 1 \in 0..Len(Append(h, item))
        BY <1>4, <1>5
      <4>3. Len(r.Items) = (IF Len(h) + 1 < Size THEN Len(h) + 1 ELSE Size)
        BY <2>4, <3>4
      <4> QED BY <4>1, <4>2, <4>3 DEF Shows
    <3> QED BY <1>5, <3>3, <3>4, <3>5
  <2>6. CASE ~IsSegment(Head(items))
    <3>1. append(lp, item, Size)
            = [Sequence |-> seq, DiscontinuitySequence |-> dseq + 1, Items |-> new]
      BY <1>1, <1>7, <2>2, <2>6, Zenon DEF append
    <3>2. ShowsAt(new, seq, dseq + 1, Append(h, item), b + 1)
      BY <1>3, <1>4, <2>1, <2>2, <2>6, WindowSlides
    <3>3. PICK r : r = append(lp, item, Size)
      OBVIOUS
    <3>4. /\ r \in LivePlaylists /\ r.Items = new
          /\ r.Sequence = seq /\ r.DiscontinuitySequence = dseq + 1
      BY <3>1, <3>3 DEF LivePlaylists
    <3>5. Shows(r, Append(h, item), Len(h) + 1)
      <4>1. ShowsAt(r.Items, r.Sequence, r.DiscontinuitySequence, Append(h, item),
                    Len(h) + 1 - Len(r.Items))
        BY <2>4, <3>2, <3>4
      <4>2. Len(h) + 1 \in 0..Len(Append(h, item))
        BY <1>4, <1>5
      <4>3. Len(r.Items) = (IF Len(h) + 1 < Size THEN Len(h) + 1 ELSE Size)
        BY <2>4, <3>4
      <4> QED BY <4>1, <4>2, <4>3 DEF Shows
    <3> QED BY <1>5, <3>3, <3>4, <3>5
  <2> QED BY <2>5, <2>6
<1> QED BY <1>6, <1>7

\* A playlist file stays right while more is appended to the history.
LEMMA GrowShows ==
    ASSUME NEW lp \in LivePlaylists, NEW h \in Seq(Items), NEW n, NEW item \in Items,
           Shows(lp, h, n)
    PROVE  Shows(lp, Append(h, item), n)
<1>1. lp.Items \in Seq(Items)
  BY DEF LivePlaylists
<1>2. ShowsAt(lp.Items, lp.Sequence, lp.DiscontinuitySequence, Append(h, item),
              n - Len(lp.Items))
  BY <1>1, WindowStays DEF Shows
<1>3. n \in 0..Len(Append(h, item))
  BY DEF Shows
<1> QED BY <1>2, <1>3 DEF Shows

-----------------------------------------------------------------------------
\* append returns a playlist.
LEMMA AppendType ==
    ASSUME NEW lp \in LivePlaylists, NEW item \in Items
    PROVE  append(lp, item, Size) \in LivePlaylists
<1>1. PICK items \in Seq(Items), seq \in Nat, dseq \in Nat :
        items = lp.Items /\ seq = lp.Sequence /\ dseq = lp.DiscontinuitySequence
  BY DEF LivePlaylists
<1>2. CASE Len(items) # Size
  <2>1. append(lp, item, Size)
          = [Sequence |-> seq, DiscontinuitySequence |-> dseq, Items |-> Append(items, item)]
    BY <1>1, <1>2 DEF append, LivePlaylists
  <2>2. Append(items, item) \in Seq(Items)
    OBVIOUS
  <2> QED BY <2>1, <2>2 DEF LivePlaylists
<1>3. CASE Len(items) = Size
  <2>1. items # <<>>
    BY <1>3, SizeAssumption
  <2>2. Append(Tail(items), item) \in Seq(Items)
    BY <2>1
  <2>3. \E s, d \in Nat :
          append(lp, item, Size)
            = [Sequence |-> s, DiscontinuitySequence |-> d, Items |-> Append(Tail(items), item)]
    <3>1. seq + 1 \in Nat /\ dseq + 1 \in Nat
      OBVIOUS
    <3>2. CASE IsSegment(Head(items))
      <4>1. append(lp, item, Size) = [Sequence |-> seq + 1, DiscontinuitySequence |-> dseq,
                                      Items |-> Append(Tail(items), item)]
        BY <1>1, <1>3, <3>2, Zenon DEF append
      <4> QED BY <3>1, <4>1
    <3>3. CASE ~IsSegment(Head(items))
      <4>1. append(lp, item, Size) = [Sequence |-> seq, DiscontinuitySequence |-> dseq + 1,
                                      Items |-> Append(Tail(items), item)]
        BY <1>1, <1>3, <3>3, Zenon DEF append
      <4> QED BY <3>1, <4>1
    <3> QED BY <3>2, <3>3
  <2> QED BY <2>2, <2>3 DEF LivePlaylists
<1> QED BY <1>2, <1>3

\* The values checkDiscontinuity computes with.
LEMMA SourceType ==
    ASSUME NEW source \in Sources
    PROVE  /\ source \in SourcePlaylists
           /\ source.Sequence \in Nat
           /\ source.Items \in Seq(Items)
           /\ Len(source.Items) \in Nat
           /\ SegmentSize(source.Items) \in Nat
<1>1. source \in SourcePlaylists
  BY SourcesAssumption
<1>2. source.Sequence \in Nat /\ source.Items \in Seq(Items)
  BY <1>1 DEF SourcePlaylists
<1>3. Len(source.Items) \in Nat
  BY <1>2
<1> QED BY <1>1, <1>2, <1>3, PositionsFinite DEF SegmentSize

\* A discontinuity is an item but no segment, and a segment is its name.
LEMMA ItemTypes ==
    /\ Discontinuity \in Items /\ ~IsSegment(Discontinuity)
    /\ \A item \in Items : IsSegment(item) => item.name \in Names /\ item = Segment(item.name)
BY DEF Items, Discontinuity, IsSegment, Segment

\* expireFile only forgets paths.
LEMMA ExpireType ==
    ASSUME NEW tracked, NEW gone
    PROVE  expireFile(tracked, gone) \subseteq tracked
BY DEF expireFile

\* What an iteration of appendItems does to the types.
LEMMA MergeTypes ==
    ASSUME TypeOK, NEW p \in Playlists, NEW index, merging(p, index)
    PROVE  /\ job.source.Items \in Seq(Items)
           /\ index \in Nat
           /\ Len(job.source.Items) \in Nat
           /\ index < Len(job.source.Items) => job.source.Items[index + 1] \in Items
           /\ [job EXCEPT !.index = index + 1] \in Jobs
<1>1. job.source.Items \in Seq(Items) /\ job.index = index /\ index \in Nat
  BY DEF TypeOK, Jobs, SourcePlaylists, merging
<1>2. [job EXCEPT !.index = index + 1] \in Jobs
  <2>1. job \in Jobs /\ index + 1 \in Nat
    BY <1>1 DEF TypeOK
  <2> QED BY <2>1 DEF Jobs
<1>3. PICK items \in Seq(Items) : items = job.source.Items
  BY <1>1, Zenon
<1>4. Len(items) \in Nat /\ (index < Len(items) => items[index + 1] \in Items)
  BY <1>1
<1> QED BY <1>1, <1>2, <1>3, <1>4

\* The parser keeps the types of its fields, of the playlist files and of the
\* history whatever is uploaded.
THEOREM TypeCorrect == Spec => []TypeOK
<1>1. Init => TypeOK
  BY DEF Init, TypeOK, newLivePlaylist, LivePlaylists, idle, Jobs, SourcePlaylists
<1>2. TypeOK /\ [Next]_vars => TypeOK'
  <2> SUFFICES ASSUME TypeOK, [Next]_vars PROVE TypeOK'
    OBVIOUS
  <2>1. ASSUME NEW p \in Playlists, NEW source \in Sources, ParsePlaylist(p, source)
        PROVE  TypeOK'
    <3>1. /\ output' \in [Playlists -> LivePlaylists]
          /\ files' \subseteq Paths
          /\ log' \in [Playlists -> Seq(Items)]
      <4>1. CASE SequenceWentBackwards(p, source)
        <5>1. insertDiscontinuity(p)
          BY <2>1, <4>1 DEF ParsePlaylist
        <5>2. applyDiscontinuity(output[p], Size) \in LivePlaylists
          BY AppendType, ItemTypes DEF applyDiscontinuity, TypeOK
        <5>3. Append(log[p], Discontinuity) \in Seq(Items)
          BY ItemTypes DEF TypeOK
        <5>4. files' \subseteq files
          BY <5>1, ExpireType DEF insertDiscontinuity
        <5> QED BY <5>1, <5>2, <5>3, <5>4 DEF insertDiscontinuity, TypeOK
      <4>2. CASE ~SequenceWentBackwards(p, source)
        BY <2>1, <4>2 DEF ParsePlaylist, TypeOK
      <4> QED BY <4>1, <4>2
    <3>2. skippedItems(p, source) \in Int
      BY SourceType DEF skippedItems, TypeOK
    <3>3. job' \in Jobs
      BY <2>1, SourceType DEF ParsePlaylist, Jobs
    <3> QED BY <2>1, <3>1, <3>2, <3>3, SourceType DEF ParsePlaylist, TypeOK
  <2>2. ASSUME NEW p \in Playlists, NEW index \in 0..MaxLog, SkipItem(p, index)
        PROVE  TypeOK'
    <3>1. merging(p, index)
      BY <2>2 DEF SkipItem
    <3>2. job' \in Jobs
      BY <2>2, <3>1, MergeTypes DEF SkipItem
    <3> QED BY <2>2, <3>2 DEF SkipItem, TypeOK, variants
  <2>3. ASSUME NEW p \in Playlists, NEW index \in 0..MaxLog, CopySegment(p, index)
        PROVE  TypeOK'
    <3>1. merging(p, index) /\ index < Len(job.source.Items)
      BY <2>3 DEF CopySegment
    <3>2. PICK segment \in Items : segment = job.source.Items[index + 1]
      BY <3>1, MergeTypes
    <3>3. /\ IsSegment(segment)
          /\ files' = expireFile(keepFile(files, SegmentPath(segment.name)),
                                 deleted(output[p], Size))
          /\ output' = [output EXCEPT ![p] = append(output[p], segment, Size)]
          /\ log' = [log EXCEPT ![p] = Append(log[p], segment)]
      BY <2>3, <3>2 DEF CopySegment
    <3>4. SegmentPath(segment.name) \in Paths
      BY <3>3, ItemTypes DEF Paths
    <3>5. files' \subseteq Paths
      BY <3>3, <3>4, ExpireType DEF keepFile, TypeOK
    <3>6. append(output[p], segment, Size) \in LivePlaylists
      BY AppendType DEF TypeOK
    <3>7. Append(log[p], segment) \in Seq(Items)
      BY DEF TypeOK
    <3>8. job' \in Jobs
      BY <2>3, <3>1, MergeTypes DEF CopySegment
    <3> QED BY <2>3, <3>3, <3>5, <3>6, <3>7, <3>8 DEF CopySegment, TypeOK
  <2>4. ASSUME NEW p \in Playlists, merged(p)
        PROVE  /\ lastIndex' \in [Playlists -> Int] /\ job' \in Jobs
               /\ UNCHANGED <<lastSize, lastSequence, output, log>>
    <3>1. Len(job.source.Items) \in Nat
      BY <2>4, MergeTypes DEF merged
    <3> QED BY <2>4, <3>1 DEF merged, idle, Jobs, SourcePlaylists, TypeOK
  <2>5. ASSUME NEW p \in Playlists, writePlaylist(p) PROVE TypeOK'
    <3>1. NestedPath(p) \in Paths /\ Len(log[p]) \in Nat
      BY DEF Paths, TypeOK
    <3> QED BY <2>4, <2>5, <3>1 DEF writePlaylist, keepFile, TypeOK
  <2>6. ASSUME NEW p \in Playlists, writePlaylistFails(p) PROVE TypeOK'
    BY <2>4, <2>6 DEF writePlaylistFails, TypeOK
  <2>7. CASE UNCHANGED vars
    BY <2>7 DEF vars, variants, TypeOK
  <2> QED BY <2>1, <2>2, <2>3, <2>5, <2>6, <2>7 DEF Next, MergeStep
<1> QED BY <1>1, <1>2, PTL DEF Spec

-----------------------------------------------------------------------------
\* Every output playlist shows the end of what was appended to it, and every
\* playlist file the end of what had been appended when it was written.
WindowInv ==
    \A p \in Playlists :
        /\ Shows(output[p], log[p], Len(log[p]))
        /\ Shows(disk[p], log[p], written[p])

\* An item appended to one output playlist and to its history.
Appended(p, item) ==
    /\ output' = [output EXCEPT ![p] = append(output[p], item, Size)]
    /\ log' = [log EXCEPT ![p] = Append(log[p], item)]

\* Such a step keeps every window right, on disk too.
LEMMA AppendedKeepsWindows ==
    ASSUME TypeOK, WindowInv, NEW p \in Playlists, NEW item \in Items, Appended(p, item),
           UNCHANGED <<disk, written>>
    PROVE  WindowInv'
<1>1. /\ output[p] \in LivePlaylists /\ disk[p] \in LivePlaylists /\ log[p] \in Seq(Items)
      /\ Shows(output[p], log[p], Len(log[p])) /\ Shows(disk[p], log[p], written[p])
  BY DEF TypeOK, WindowInv
<1>2. Shows(append(output[p], item, Size), Append(log[p], item), Len(Append(log[p], item)))
  BY <1>1, AppendShows
<1>3. Shows(disk[p], Append(log[p], item), written[p])
  BY <1>1, GrowShows
<1>4. /\ output'[p] = append(output[p], item, Size) /\ log'[p] = Append(log[p], item)
      /\ \A q \in Playlists : q # p => output'[q] = output[q] /\ log'[q] = log[q]
      /\ disk' = disk /\ written' = written
  BY DEF Appended, TypeOK
<1> QED BY <1>2, <1>3, <1>4 DEF WindowInv

\* A new playlist shows the empty history.
LEMMA NewShows == Shows(newLivePlaylist, <<>>, 0)
<1>1. SegmentsUpTo(<<>>, 0) = {} /\ TagsUpTo(<<>>, 0) = {}
  BY DEF SegmentsUpTo, TagsUpTo
<1>2. ShowsAt(<<>>, 0, 0, <<>>, 0)
  <2>1. Cardinality({}) = 0
    BY FS_EmptySet
  <2>2. /\ Cardinality(SegmentsUpTo(<<>>, 0)) = 0
        /\ Cardinality(TagsUpTo(<<>>, 0)) = 0
    BY <1>1, <2>1
  <2>3. Len(<<>>) = 0 /\ 0 \in Nat /\ 1..0 = {}
    OBVIOUS
  <2> QED BY <2>2, <2>3 DEF ShowsAt
<1> QED BY <1>2, SizeAssumption DEF Shows, newLivePlaylist

\* No upload, restart or failed write breaks a window.
LEMMA WindowsStayRight == Spec => []WindowInv
<1>1. Init => WindowInv
  <2> SUFFICES ASSUME Init, NEW p \in Playlists
               PROVE  /\ Shows(output[p], log[p], Len(log[p]))
                      /\ Shows(disk[p], log[p], written[p])
    BY DEF WindowInv
  <2>1. /\ output[p] = newLivePlaylist /\ disk[p] = newLivePlaylist
        /\ log[p] = <<>> /\ written[p] = 0 /\ Len(<<>>) = 0
    BY DEF Init
  <2> QED BY <2>1, NewShows
<1>2. TypeOK /\ WindowInv /\ [Next]_vars => WindowInv'
  <2> SUFFICES ASSUME TypeOK, WindowInv, [Next]_vars PROVE WindowInv'
    OBVIOUS
  <2>1. ASSUME NEW p \in Playlists, NEW source \in Sources, ParsePlaylist(p, source)
        PROVE  WindowInv'
    <3>1. CASE SequenceWentBackwards(p, source)
      <4>1. insertDiscontinuity(p) /\ UNCHANGED <<disk, written>>
        BY <2>1, <3>1 DEF ParsePlaylist
      <4>2. Appended(p, Discontinuity)
        BY <4>1 DEF insertDiscontinuity, applyDiscontinuity, Appended
      <4> QED BY <4>1, <4>2, ItemTypes, AppendedKeepsWindows
    <3>2. CASE ~SequenceWentBackwards(p, source)
      BY <2>1, <3>2 DEF ParsePlaylist, WindowInv
    <3> QED BY <3>1, <3>2
  <2>2. ASSUME NEW p \in Playlists, NEW index \in 0..MaxLog, SkipItem(p, index)
        PROVE  WindowInv'
    BY <2>2 DEF SkipItem, variants, WindowInv
  <2>3. ASSUME NEW p \in Playlists, NEW index \in 0..MaxLog, CopySegment(p, index)
        PROVE  WindowInv'
    <3>1. PICK segment \in Items : segment = job.source.Items[index + 1]
      BY <2>3, MergeTypes DEF CopySegment
    <3>2. Appended(p, segment) /\ UNCHANGED <<disk, written>>
      BY <2>3, <3>1 DEF CopySegment, Appended
    <3> QED BY <3>2, AppendedKeepsWindows
  <2>4. ASSUME NEW p \in Playlists, writePlaylist(p) PROVE WindowInv'
    <3>1. /\ output' = output /\ log' = log
          /\ disk'[p] = output[p] /\ written'[p] = Len(log[p])
          /\ \A q \in Playlists : q # p => disk'[q] = disk[q] /\ written'[q] = written[q]
      BY <2>4 DEF writePlaylist, merged, TypeOK
    <3> QED BY <3>1 DEF WindowInv
  <2>5. ASSUME NEW p \in Playlists, writePlaylistFails(p) PROVE WindowInv'
    BY <2>5 DEF writePlaylistFails, merged, WindowInv
  <2>6. CASE UNCHANGED vars
    BY <2>6 DEF vars, variants, WindowInv
  <2> QED BY <2>1, <2>2, <2>3, <2>4, <2>5, <2>6 DEF Next, MergeStep
<1> QED BY <1>1, <1>2, TypeCorrect, PTL DEF Spec

\* Whatever is uploaded, a player gives an item of an output playlist or of a
\* playlist file the same two numbers in every version of it.
THEOREM NumberingIsStable == Spec => []StableNumbering
<1>1. TypeOK /\ WindowInv => StableNumbering
  <2> SUFFICES ASSUME TypeOK, WindowInv, NEW p \in Playlists
               PROVE  /\ Numbered(output[p], log[p], Len(log[p]))
                      /\ Numbered(disk[p], log[p], written[p])
    BY DEF StableNumbering
  <2>1. output[p] \in LivePlaylists /\ disk[p] \in LivePlaylists /\ log[p] \in Seq(Items)
    BY DEF TypeOK
  <2>2. Shows(output[p], log[p], Len(log[p])) /\ Shows(disk[p], log[p], written[p])
    BY DEF WindowInv
  <2> QED BY <2>1, <2>2, ShowsIsNumbered
<1> QED BY <1>1, TypeCorrect, WindowsStayRight, PTL

-----------------------------------------------------------------------------
\* A longer prefix holds at least as many segments and tags.
LEMMA CountsGrow ==
    ASSUME NEW h, NEW m \in Nat, NEW n \in Nat, m <= n
    PROVE  /\ Cardinality(SegmentsUpTo(h, m)) <= Cardinality(SegmentsUpTo(h, n))
           /\ Cardinality(TagsUpTo(h, m)) <= Cardinality(TagsUpTo(h, n))
<1>1. SegmentsUpTo(h, m) \subseteq SegmentsUpTo(h, n) /\ TagsUpTo(h, m) \subseteq TagsUpTo(h, n)
  BY DEF SegmentsUpTo, TagsUpTo
<1>2. IsFiniteSet(SegmentsUpTo(h, n)) /\ IsFiniteSet(TagsUpTo(h, n))
  BY PositionsFinite
<1> QED BY <1>1, <1>2, FS_Subset

\* The numbers a playlist starts at and ends at.
LEMMA ShowsBounds ==
    ASSUME NEW lp \in LivePlaylists, NEW h \in Seq(Items), NEW n, Shows(lp, h, n)
    PROVE  LET b == IF n < Size THEN 0 ELSE n - Size
           IN  /\ b \in Nat /\ n \in Nat
               /\ lp.Sequence = Cardinality(SegmentsUpTo(h, b))
               /\ lp.DiscontinuitySequence = Cardinality(TagsUpTo(h, b))
               /\ lp.Sequence + SegmentSize(lp.Items) = Cardinality(SegmentsUpTo(h, n))
<1>1. PICK items \in Seq(Items), seq \in Nat, dseq \in Nat :
        items = lp.Items /\ seq = lp.Sequence /\ dseq = lp.DiscontinuitySequence
  BY DEF LivePlaylists
<1>2. PICK b : b = IF n < Size THEN 0 ELSE n - Size
  OBVIOUS
<1>3. n \in Nat /\ b \in Nat /\ b = n - Len(items) /\ b + Len(items) = n
  <2>1. n \in 0..Len(h) /\ Len(items) = (IF n < Size THEN n ELSE Size)
    BY <1>1 DEF Shows
  <2>2. n \in Nat /\ Size \in Nat
    BY <2>1, SizeAssumption
  <2>3. CASE n < Size
    BY <1>2, <2>1, <2>2, <2>3
  <2>4. CASE ~(n < Size)
    BY <1>2, <2>1, <2>2, <2>4
  <2> QED BY <2>3, <2>4
<1>4. ShowsAt(items, seq, dseq, h, b)
  BY <1>1, <1>3 DEF Shows
<1>5. PICK k \in 0..Len(items) : k = Len(items)
  OBVIOUS
<1>6. seq + Cardinality(SegmentsUpTo(items, k)) = Cardinality(SegmentsUpTo(h, b + k))
  BY <1>4, WindowNumbers
<1>7. seq + SegmentSize(items) = Cardinality(SegmentsUpTo(h, n))
  BY <1>3, <1>5, <1>6 DEF SegmentSize
<1>8. seq = Cardinality(SegmentsUpTo(h, b)) /\ dseq = Cardinality(TagsUpTo(h, b))
  BY <1>4 DEF ShowsAt
<1> QED BY <1>1, <1>2, <1>3, <1>7, <1>8

\* A playlist written later starts and ends no earlier.
LEMMA LaterShowsMore ==
    ASSUME NEW old \in LivePlaylists, NEW new \in LivePlaylists, NEW h \in Seq(Items),
           NEW m, NEW n, m <= n, Shows(old, h, m), Shows(new, h, n)
    PROVE  /\ new.Sequence >= old.Sequence
           /\ new.DiscontinuitySequence >= old.DiscontinuitySequence
           /\ new.Sequence + SegmentSize(new.Items) >= old.Sequence + SegmentSize(old.Items)
<1>1. PICK a : a = IF m < Size THEN 0 ELSE m - Size
  OBVIOUS
<1>2. PICK b : b = IF n < Size THEN 0 ELSE n - Size
  OBVIOUS
<1>3. /\ a \in Nat /\ m \in Nat /\ old.Sequence = Cardinality(SegmentsUpTo(h, a))
      /\ old.DiscontinuitySequence = Cardinality(TagsUpTo(h, a))
      /\ old.Sequence + SegmentSize(old.Items) = Cardinality(SegmentsUpTo(h, m))
  BY <1>1, ShowsBounds
<1>4. /\ b \in Nat /\ n \in Nat /\ new.Sequence = Cardinality(SegmentsUpTo(h, b))
      /\ new.DiscontinuitySequence = Cardinality(TagsUpTo(h, b))
      /\ new.Sequence + SegmentSize(new.Items) = Cardinality(SegmentsUpTo(h, n))
  BY <1>2, ShowsBounds
<1>5. a <= b
  BY <1>1, <1>2, <1>3, <1>4, SizeAssumption
<1>6. /\ Cardinality(SegmentsUpTo(h, a)) \in Nat /\ Cardinality(SegmentsUpTo(h, b)) \in Nat
      /\ Cardinality(TagsUpTo(h, a)) \in Nat /\ Cardinality(TagsUpTo(h, b)) \in Nat
      /\ Cardinality(SegmentsUpTo(h, m)) \in Nat /\ Cardinality(SegmentsUpTo(h, n)) \in Nat
  BY <1>3, <1>4, PositionsFinite
<1>7. /\ Cardinality(SegmentsUpTo(h, a)) <= Cardinality(SegmentsUpTo(h, b))
      /\ Cardinality(TagsUpTo(h, a)) <= Cardinality(TagsUpTo(h, b))
      /\ Cardinality(SegmentsUpTo(h, m)) <= Cardinality(SegmentsUpTo(h, n))
  BY <1>3, <1>4, <1>5, CountsGrow
<1> QED BY <1>3, <1>4, <1>6, <1>7

\* A rewritten playlist file never takes back what a player has seen of it.
THEOREM FilesNeverRewind == Spec => NeverRewinds
<1> DEFINE Rewrite ==
       \A p \in Playlists :
          /\ disk'[p].Sequence >= disk[p].Sequence
          /\ disk'[p].DiscontinuitySequence >= disk[p].DiscontinuitySequence
          /\ disk'[p].Sequence + SegmentSize(disk'[p].Items)
                >= disk[p].Sequence + SegmentSize(disk[p].Items)
<1>1. TypeOK /\ WindowInv /\ [Next]_vars => [Rewrite]_vars
  <2> SUFFICES ASSUME TypeOK, WindowInv, Next, NEW p \in Playlists
               PROVE  /\ disk'[p].Sequence >= disk[p].Sequence
                      /\ disk'[p].DiscontinuitySequence >= disk[p].DiscontinuitySequence
                      /\ disk'[p].Sequence + SegmentSize(disk'[p].Items)
                            >= disk[p].Sequence + SegmentSize(disk[p].Items)
    OBVIOUS
  <2>1. /\ output[p] \in LivePlaylists /\ disk[p] \in LivePlaylists /\ log[p] \in Seq(Items)
        /\ Shows(output[p], log[p], Len(log[p])) /\ Shows(disk[p], log[p], written[p])
    BY DEF TypeOK, WindowInv
  <2>2. written[p] <= Len(log[p]) /\ written[p] <= written[p]
    BY <2>1 DEF Shows
  <2>3. disk'[p] = disk[p] \/ disk'[p] = output[p]
    <3>1. ASSUME NEW q \in Playlists, writePlaylist(q)
          PROVE  disk'[p] = disk[p] \/ disk'[p] = output[p]
      BY <3>1 DEF writePlaylist, TypeOK
    <3>2. CASE disk' = disk
      BY <3>2
    <3> QED BY <3>1, <3>2 DEF Next, MergeStep, ParsePlaylist, SkipItem, CopySegment,
                              writePlaylistFails
  <2>4. CASE disk'[p] = disk[p]
    BY <2>1, <2>2, <2>4, LaterShowsMore
  <2>5. CASE disk'[p] = output[p]
    BY <2>1, <2>2, <2>5, LaterShowsMore
  <2> QED BY <2>3, <2>4, <2>5
<1> QED BY <1>1, TypeCorrect, WindowsStayRight, PTL DEF Spec, NeverRewinds

-----------------------------------------------------------------------------
(***************************************************************************)
(* HLSParser implements MediaPlaylist.                                     *)
(***************************************************************************)
Media == INSTANCE MediaPlaylist

\* A playlist that shows the end of a history is what MediaPlaylist computes
\* from the whole of it: items and both counters.
LEMMA ShowsIsWindow ==
    ASSUME NEW lp \in LivePlaylists, NEW h \in Seq(Items), Shows(lp, h, Len(h))
    PROVE  lp = Media!window(h)
<1>1. PICK n \in Nat : n = Len(h)
  OBVIOUS
<1>2. PICK items \in Seq(Items), seq \in Nat, dseq \in Nat :
        lp = [Sequence |-> seq, DiscontinuitySequence |-> dseq, Items |-> items]
  BY DEF LivePlaylists
<1>3. PICK b : b = IF n > Size THEN n - Size ELSE 0
  OBVIOUS
<1>4. /\ Len(items) = (IF n < Size THEN n ELSE Size)
      /\ ShowsAt(items, seq, dseq, h, n - Len(items))
  BY <1>1, <1>2 DEF Shows
<1>5. b \in Nat /\ b = n - Len(items) /\ Len(items) = n - b /\ b <= n
  BY <1>3, <1>4, SizeAssumption
<1>6. /\ \A i \in 1..Len(items) : items[i] = h[b + i]
      /\ seq = Cardinality(SegmentsUpTo(h, b)) /\ dseq = Cardinality(TagsUpTo(h, b))
  BY <1>4, <1>5 DEF ShowsAt
<1>7. items = SubSeq(h, b + 1, n)
  <2> DEFINE end == SubSeq(h, b + 1, n)
  <2>1. end \in Seq(Items) /\ Len(end) = n - b /\ \A i \in 1..(n - b) : end[i] = h[b + i]
    BY <1>1, <1>5
  <2> HIDE DEF end
  <2>2. Len(items) = Len(end) /\ \A i \in 1..Len(items) : items[i] = end[i]
    BY <1>5, <1>6, <2>1
  <2>3. items = end
    BY <2>1, <2>2, SeqEqual
  <2> QED BY <2>3 DEF end
<1>8. Media!SegmentsUpTo(h, b) = SegmentsUpTo(h, b) /\ Media!TagsUpTo(h, b) = TagsUpTo(h, b)
  BY DEF Media!SegmentsUpTo, Media!TagsUpTo, Media!IsSegment, SegmentsUpTo, TagsUpTo, IsSegment
<1>9. Media!before(h) = b
  BY <1>1, <1>3 DEF Media!before
<1>10. \A S : Media!Cardinality(S) = Cardinality(S)
  BY Zenon DEF Media!Cardinality, Cardinality
<1> QED BY <1>1, <1>2, <1>6, <1>7, <1>8, <1>9, <1>10 DEF Media!window

\* An item appended by a merge or a discontinuity extends the playlist.
LEMMA AppendedExtends ==
    ASSUME NEW p \in Playlists, NEW item \in Items, Appended(p, item), disk' = disk
    PROVE  Media!Next
<1>1. item \in Media!Items
  BY DEF Items, Discontinuity, Media!Items, Media!Discontinuity
<1>2. Media!Extend(p, item)
  BY DEF Appended, Media!Extend
<1> QED BY <1>1, <1>2 DEF Media!Next

\* The parser is a media playlist: whatever is uploaded, and although append
\* slides the window and counts one item at a time over uploads, restarts and
\* failed writes, each playlist file is computed from all that was appended.
THEOREM ParserIsMediaPlaylist == Spec => Media!Spec
<1>1. Init => Media!Init
  <2> SUFFICES ASSUME Init PROVE Media!Init
    OBVIOUS
  <2>1. newLivePlaylist = Media!window(<<>>)
    <3>1. newLivePlaylist \in LivePlaylists /\ <<>> \in Seq(Items) /\ Len(<<>>) = 0
      BY DEF newLivePlaylist, LivePlaylists
    <3> QED BY <3>1, NewShows, ShowsIsWindow
  <2> QED BY <2>1 DEF Init, Media!Init
<1>2. TypeOK /\ WindowInv /\ [Next]_vars => [Media!Next]_Media!playlistVars
  <2> SUFFICES ASSUME TypeOK, WindowInv, [Next]_vars
               PROVE  Media!Next \/ (log' = log /\ disk' = disk)
    BY DEF Media!playlistVars
  <2>1. ASSUME NEW p \in Playlists, NEW source \in Sources, ParsePlaylist(p, source)
        PROVE  Media!Next \/ (log' = log /\ disk' = disk)
    <3>1. CASE SequenceWentBackwards(p, source)
      <4>1. insertDiscontinuity(p) /\ disk' = disk
        BY <2>1, <3>1 DEF ParsePlaylist
      <4>2. Appended(p, Discontinuity)
        BY <4>1 DEF insertDiscontinuity, applyDiscontinuity, Appended
      <4> QED BY <4>1, <4>2, ItemTypes, AppendedExtends
    <3>2. CASE ~SequenceWentBackwards(p, source)
      BY <2>1, <3>2 DEF ParsePlaylist
    <3> QED BY <3>1, <3>2
  <2>2. ASSUME NEW p \in Playlists, NEW index \in 0..MaxLog, CopySegment(p, index)
        PROVE  Media!Next
    <3>1. PICK segment \in Items : segment = job.source.Items[index + 1]
      BY <2>2, MergeTypes DEF CopySegment
    <3>2. Appended(p, segment) /\ disk' = disk
      BY <2>2, <3>1 DEF CopySegment, Appended
    <3> QED BY <3>2, AppendedExtends
  <2>3. ASSUME NEW p \in Playlists, writePlaylist(p)
        PROVE  Media!Next
    <3>1. log' = log /\ disk' = [disk EXCEPT ![p] = output[p]]
      BY <2>3 DEF writePlaylist, merged
    <3>2. output[p] = Media!window(log[p])
      BY ShowsIsWindow DEF TypeOK, WindowInv
    <3>3. Media!Publish(p)
      BY <3>1, <3>2 DEF Media!Publish
    <3> QED BY <3>3 DEF Media!Next
  <2>4. ASSUME NEW p \in Playlists,
               (\E index \in 0..MaxLog : SkipItem(p, index)) \/ writePlaylistFails(p)
        PROVE  log' = log /\ disk' = disk
    BY <2>4 DEF SkipItem, writePlaylistFails, merged, variants
  <2>5. CASE UNCHANGED vars
    BY <2>5 DEF vars, variants
  <2> QED BY <2>1, <2>2, <2>3, <2>4, <2>5 DEF Next, MergeStep
<1> QED BY <1>1, <1>2, TypeCorrect, WindowsStayRight, PTL DEF Spec, Media!Spec

-----------------------------------------------------------------------------
\* A segment that an output playlist lists.
Listed(n) ==
    \E p \in Playlists : \E i \in 1..Len(output[p].Items) : output[p].Items[i] = Segment(n)

\* append lists the new item, and every old one it does not return as deleted.
LEMMA AppendLists ==
    ASSUME NEW lp \in LivePlaylists, NEW item \in Items
    PROVE  LET new == append(lp, item, Size).Items
           IN  /\ \E i \in 1..Len(new) : new[i] = item
               /\ \A j \in 1..Len(lp.Items) :
                     \/ \E i \in 1..Len(new) : new[i] = lp.Items[j]
                     \/ lp.Items[j] \in deleted(lp, Size)
<1>1. PICK items \in Seq(Items) : items = lp.Items
  BY DEF LivePlaylists
<1>2. PICK new : new = append(lp, item, Size).Items
  OBVIOUS
<1>3. CASE Len(items) # Size
  <2>1. new = Append(items, item)
    BY <1>1, <1>2, <1>3 DEF append, LivePlaylists
  <2>2. /\ Len(new) = Len(items) + 1 /\ new[Len(items) + 1] = item
        /\ \A j \in 1..Len(items) : new[j] = items[j] /\ j \in 1..Len(new)
    BY <2>1
  <2>3. \E i \in 1..Len(new) : new[i] = item
    BY <2>2
  <2> QED BY <1>1, <1>2, <2>2, <2>3
<1>4. CASE Len(items) = Size
  <2>1. items # <<>> /\ Len(items) >= 1
    BY <1>4, SizeAssumption
  <2>2. new = Append(Tail(items), item)
    BY <1>1, <1>2, <1>4, Zenon DEF append
  <2>3. /\ Len(new) = Len(items) /\ new[Len(items)] = item
        /\ \A j \in 2..Len(items) : new[j - 1] = items[j] /\ j - 1 \in 1..Len(new)
    BY <2>1, <2>2
  <2>4. deleted(lp, Size) = {items[1]}
    BY <1>1, <1>4, <2>1 DEF deleted
  <2>5. \E i \in 1..Len(new) : new[i] = item
    BY <2>1, <2>3
  <2>6. \A j \in 1..Len(items) : j = 1 \/ j \in 2..Len(items)
    OBVIOUS
  <2> QED BY <1>1, <1>2, <2>3, <2>4, <2>5, <2>6
<1> QED BY <1>3, <1>4

\* A step that appends an item and expires what append returned.
LEMMA AppendedKeepsTracking ==
    ASSUME TypeOK, TrackedIsListed, NEW p \in Playlists, NEW item \in Items, NEW kept,
           output' = [output EXCEPT ![p] = append(output[p], item, Size)],
           files' = expireFile(kept, deleted(output[p], Size)),
           \A n \in Names : SegmentPath(n) \in kept => SegmentPath(n) \in files \/ item = Segment(n)
    PROVE  TrackedIsListed'
<1> SUFFICES ASSUME NEW n \in Names, SegmentPath(n) \in files' PROVE Listed(n)'
  BY DEF TrackedIsListed, Listed
<1>1. SegmentPath(n) \in kept
  BY DEF expireFile
<1>2. Segment(n) \notin deleted(output[p], Size)
  <2>1. IsSegment(Segment(n)) /\ Segment(n).name = n
    BY DEF IsSegment, Segment
  <2> QED BY <2>1 DEF expireFile
<1>3. PICK new : new = append(output[p], item, Size).Items
  OBVIOUS
<1>4. output'[p].Items = new /\ \A q \in Playlists : q # p => output'[q] = output[q]
  BY <1>3 DEF TypeOK
<1>5. output[p] \in LivePlaylists
  BY DEF TypeOK
<1>6. /\ \E i \in 1..Len(new) : new[i] = item
      /\ \A j \in 1..Len(output[p].Items) :
            \/ \E i \in 1..Len(new) : new[i] = output[p].Items[j]
            \/ output[p].Items[j] \in deleted(output[p], Size)
  BY <1>3, <1>5, AppendLists
<1>7. CASE item = Segment(n)
  BY <1>4, <1>6, <1>7 DEF Listed
<1>8. CASE SegmentPath(n) \in files
  <2>1. PICK q \in Playlists : \E i \in 1..Len(output[q].Items) : output[q].Items[i] = Segment(n)
    BY <1>8 DEF TrackedIsListed
  <2>2. CASE q = p
    <3>1. \E i \in 1..Len(new) : new[i] = Segment(n)
      BY <1>2, <1>6, <2>1, <2>2
    <3> QED BY <1>4, <3>1 DEF Listed
  <2>3. CASE q # p
    BY <1>4, <2>1, <2>3 DEF Listed
  <2> QED BY <2>2, <2>3
<1> QED BY <1>1, <1>7, <1>8

\* The registry is never asked to keep a segment that no playlist lists: each
\* one pushed out of a window has been expired.
THEOREM NothingKeptForever == Spec => []TrackedIsListed
<1>1. Init => TrackedIsListed
  BY DEF Init, TrackedIsListed
<1>2. TypeOK /\ TrackedIsListed /\ [Next]_vars => TrackedIsListed'
  <2> SUFFICES ASSUME TypeOK, TrackedIsListed, [Next]_vars PROVE TrackedIsListed'
    OBVIOUS
  <2>1. ASSUME NEW p \in Playlists, NEW source \in Sources, ParsePlaylist(p, source)
        PROVE  TrackedIsListed'
    <3>1. CASE SequenceWentBackwards(p, source)
      <4>1. insertDiscontinuity(p)
        BY <2>1, <3>1 DEF ParsePlaylist
      <4>2. /\ output' = [output EXCEPT ![p] = append(output[p], Discontinuity, Size)]
            /\ files' = expireFile(files, deleted(output[p], Size))
        BY <4>1 DEF insertDiscontinuity, applyDiscontinuity
      <4> QED BY <4>2, ItemTypes, AppendedKeepsTracking
    <3>2. CASE ~SequenceWentBackwards(p, source)
      BY <2>1, <3>2 DEF ParsePlaylist, TrackedIsListed
    <3> QED BY <3>1, <3>2
  <2>2. ASSUME NEW p \in Playlists, NEW index \in 0..MaxLog, SkipItem(p, index)
        PROVE  TrackedIsListed'
    BY <2>2 DEF SkipItem, variants, TrackedIsListed
  <2>3. ASSUME NEW p \in Playlists, NEW index \in 0..MaxLog, CopySegment(p, index)
        PROVE  TrackedIsListed'
    <3>1. PICK segment \in Items : segment = job.source.Items[index + 1]
      BY <2>3, MergeTypes DEF CopySegment
    <3>2. PICK kept : kept = keepFile(files, SegmentPath(segment.name))
      OBVIOUS
    <3>3. /\ IsSegment(segment)
          /\ files' = expireFile(kept, deleted(output[p], Size))
          /\ output' = [output EXCEPT ![p] = append(output[p], segment, Size)]
      BY <2>3, <3>1, <3>2 DEF CopySegment
    <3>4. \A n \in Names :
            SegmentPath(n) \in kept => SegmentPath(n) \in files \/ segment = Segment(n)
      <4>1. segment = Segment(segment.name)
        BY <3>3, ItemTypes
      <4>2. \A n \in Names : SegmentPath(n) = SegmentPath(segment.name) => n = segment.name
        BY DEF SegmentPath
      <4> QED BY <3>2, <4>1, <4>2 DEF keepFile
    <3> QED BY <3>3, <3>4, AppendedKeepsTracking
  <2>4. ASSUME NEW p \in Playlists, writePlaylist(p) PROVE TrackedIsListed'
    <3>1. output' = output /\ files' = files \cup {NestedPath(p)}
      BY <2>4 DEF writePlaylist, merged, keepFile
    <3>2. \A n \in Names : SegmentPath(n) # NestedPath(p)
      BY DEF SegmentPath, NestedPath
    <3> QED BY <3>1, <3>2 DEF TrackedIsListed
  <2>5. ASSUME NEW p \in Playlists, writePlaylistFails(p) PROVE TrackedIsListed'
    BY <2>5 DEF writePlaylistFails, merged, TrackedIsListed
  <2>6. CASE UNCHANGED vars
    BY <2>6 DEF vars, variants, TrackedIsListed
  <2> QED BY <2>1, <2>2, <2>3, <2>4, <2>5, <2>6 DEF Next, MergeStep
<1> QED BY <1>1, <1>2, TypeCorrect, PTL DEF Spec

(***************************************************************************)
(* What merging relies on.                                                 *)
(***************************************************************************)
\* No playlist is lost before the encoder's window is full, and an encoder is
\* restarted after its second playlist at the earliest.
LateLosses == LossFrom >= Window /\ MinUploads >= 2

first(n) == IF n > Window THEN n - Window ELSE 0

\* ParsePlaylist is merging a playlist of this name.
mergingOf(p) == job.pc = "append" /\ job.playlist = p

\* The items of it up to here are merged or skipped.
position(p) == IF job.index > lastIndex[p] THEN job.index ELSE lastIndex[p]
remaining(p) == IF mergingOf(p) THEN Len(job.source.Items) - position(p) ELSE 0

EncoderTypes ==
    /\ run \in [Playlists -> 0..MaxRestarts]
    /\ segments \in [Playlists -> 0..MaxSegments]
    /\ lost \in [Playlists -> Nat]
    /\ copied \in [Playlists -> Nat]
    /\ merges \in [Playlists -> Nat]
    /\ expected \in [Playlists -> Seq(Items)]

\* What an encoder has uploaded.
RunInv(p) ==
    /\ copied[p] <= segments[p]
    /\ merges[p] <= copied[p]
    /\ merges[p] = 0 => copied[p] = 0
    /\ copied[p] < Window => segments[p] = copied[p]

\* What the parser remembers of the last playlist it merged.
LastInv(p) ==
    /\ merges[p] > 0 => /\ lastSequence[p] = first(copied[p])
                        /\ lastSize[p] = copied[p] - first(copied[p])
    /\ merges[p] = 0 => IF run[p] = 0 THEN lastSequence[p] = 0 /\ lastSize[p] = 0
                                      ELSE lastSequence[p] + lastSize[p] >= 2
    /\ IF mergingOf(p)
       THEN /\ Len(job.source.Items) = lastSize[p]
            /\ lastIndex[p] <= lastSize[p] /\ job.index <= lastSize[p]
            /\ \A k \in 1..lastSize[p] : IsSegment(job.source.Items[k])
       ELSE lastIndex[p] = lastSize[p]

\* What was appended, and what is still to be.
LogInv(p) ==
    /\ Len(expected[p]) = Len(log[p]) + remaining(p)
    /\ \A i \in 1..Len(log[p]) : expected[p][i] = log[p][i]
    /\ mergingOf(p) => \A k \in 1..remaining(p) :
          expected[p][Len(log[p]) + k] = job.source.Items[position(p) + k]

EncoderInv ==
    /\ LateLosses /\ EncoderTypes
    /\ \A p \in Playlists : RunInv(p) /\ LastInv(p) /\ LogInv(p)

\* A segment an encoder has uploaded, of an earlier run or of this one.
uploaded(p, r, n) == r < run[p] \/ (r = run[p] /\ n < copied[p])
NamesInv ==
    \A p \in Playlists : \A i \in 1..Len(expected[p]) :
        IsSegment(expected[p][i]) =>
            /\ \E r, n \in Nat : expected[p][i] = Segment(<<p, r, n>>) /\ uploaded(p, r, n)
            /\ \A j \in 1..Len(expected[p]) : expected[p][j] = expected[p][i] => j = i

(***************************************************************************)
(* The encoders' playlists.                                                *)
(***************************************************************************)
\* A range of segments is a list of items.
LEMMA RangeFacts ==
    ASSUME NEW p \in Playlists, NEW r \in 0..MaxRestarts, NEW n \in 0..MaxSegments, NEW i \in 0..n
    PROVE  /\ SegmentRange(p, r, i, n) \in Seq(Items)
           /\ Len(SegmentRange(p, r, i, n)) = n - i
           /\ \A k \in 1..(n - i) :
                 /\ SegmentRange(p, r, i, n)[k] = Segment(SegmentName(p, r, i + k - 1))
                 /\ IsSegment(SegmentRange(p, r, i, n)[k])
<1>0. n \in Nat /\ i \in Nat /\ n - i \in Nat
  BY BoundsAssumption
<1>1. ASSUME NEW k \in 1..(n - i)
      PROVE  /\ Segment(SegmentName(p, r, i + k - 1)) \in Items
             /\ IsSegment(Segment(SegmentName(p, r, i + k - 1)))
  <2>1. i + k - 1 \in 0..MaxSegments
    BY <1>0, BoundsAssumption
  <2>2. SegmentName(p, r, i + k - 1) \in Names
    BY <2>1, EncodersAssumption DEF EncoderNames
  <2> QED BY <2>2 DEF Segment, Items, IsSegment
<1>2. PICK f : f = SegmentRange(p, r, i, n)
  OBVIOUS
<1>3. /\ f \in [1..(n - i) -> Items]
      /\ \A k \in 1..(n - i) : f[k] = Segment(SegmentName(p, r, i + k - 1))
  BY <1>1, <1>2 DEF SegmentRange
<1>4. f \in Seq(Items) /\ Len(f) = n - i
  BY <1>0, <1>3
<1> QED BY <1>1, <1>2, <1>3, <1>4

\* An encoder lists the end of its run, of which every item is a segment.
LEMMA SourceFacts ==
    ASSUME NEW p \in Playlists, NEW r \in 0..MaxRestarts, NEW n \in 0..MaxSegments
    PROVE  /\ first(n) \in 0..n
           /\ SourcePlaylist(p, r, n).Sequence = first(n)
           /\ SourcePlaylist(p, r, n).Items = SegmentRange(p, r, first(n), n)
           /\ SourcePlaylist(p, r, n) \in Sources
           /\ SegmentSize(SourcePlaylist(p, r, n).Items) = n - first(n)
<1>1. first(n) \in 0..n
  BY BoundsAssumption DEF first
<1>2. /\ SourcePlaylist(p, r, n).Sequence = first(n)
      /\ SourcePlaylist(p, r, n).Items = SegmentRange(p, r, first(n), n)
  BY DEF SourcePlaylist, first
<1>3. SourcePlaylist(p, r, n) \in Sources
  BY EncodersAssumption DEF EncoderSources
<1>4. SegmentSize(SegmentRange(p, r, first(n), n)) = n - first(n)
  <2>1. /\ Len(SegmentRange(p, r, first(n), n)) = n - first(n)
        /\ \A k \in 1..(n - first(n)) : IsSegment(SegmentRange(p, r, first(n), n)[k])
    BY <1>1, RangeFacts
  <2>2. SegmentsUpTo(SegmentRange(p, r, first(n), n), n - first(n)) = 1..(n - first(n))
    BY <2>1 DEF SegmentsUpTo
  <2>3. n - first(n) \in Nat
    BY <1>1, BoundsAssumption
  <2>4. Cardinality(1..(n - first(n))) = n - first(n)
    BY <2>3, FS_Interval
  <2> QED BY <2>1, <2>2, <2>4 DEF SegmentSize
<1> QED BY <1>1, <1>2, <1>3, <1>4

\* A step of the encoders is one of the parser, or none.
LEMMA ParserStep ==
    ASSUME EncoderTypes, [EncoderNext]_allVars
    PROVE  [Next]_vars
<1>1. ASSUME NEW p \in Playlists, Upload(p) PROVE Next
  <2>1. run[p] \in 0..MaxRestarts /\ segments[p] + 1 \in 0..MaxSegments
    BY <1>1, BoundsAssumption DEF Upload, EncoderTypes
  <2>2. SourcePlaylist(p, run[p], segments[p] + 1) \in Sources
    BY <2>1, SourceFacts
  <2> QED BY <1>1, <2>2 DEF Upload, Next
<1>2. ASSUME NEW p \in Playlists, LoseUpload(p) \/ Restart(p) PROVE UNCHANGED vars
  BY <1>2 DEF LoseUpload, Restart
<1>3. CASE UNCHANGED allVars
  BY <1>3 DEF allVars
<1> QED BY <1>1, <1>2, <1>3 DEF EncoderNext, Next

\* Two lists appended to a third.
LEMMA ConcatTwice ==
    ASSUME NEW e \in Seq(Items), NEW mark \in Seq(Items), NEW new \in Seq(Items),
           NEW h, h = e \o mark \o new
    PROVE  /\ h \in Seq(Items) /\ Len(h) = Len(e) + Len(mark) + Len(new)
           /\ \A k \in 1..Len(e) : h[k] = e[k]
           /\ \A k \in 1..Len(mark) : h[Len(e) + k] = mark[k]
           /\ \A k \in 1..Len(new) : h[Len(e) + Len(mark) + k] = new[k]
<1>1. PICK g : g = e \o mark
  OBVIOUS
<1>2. /\ g \in Seq(Items) /\ Len(g) = Len(e) + Len(mark)
      /\ \A k \in 1..(Len(e) + Len(mark)) : g[k] = IF k <= Len(e) THEN e[k] ELSE mark[k - Len(e)]
  BY <1>1, ConcatProperties
<1>3. /\ h \in Seq(Items) /\ Len(h) = Len(g) + Len(new)
      /\ \A k \in 1..(Len(g) + Len(new)) : h[k] = IF k <= Len(g) THEN g[k] ELSE new[k - Len(g)]
  <2>1. h = g \o new
    BY <1>1
  <2>2. g \in Seq(Items) /\ new \in Seq(Items)
    BY <1>2
  <2>3. /\ g \o new \in Seq(Items) /\ Len(g \o new) = Len(g) + Len(new)
        /\ \A k \in 1..(Len(g) + Len(new)) :
              (g \o new)[k] = IF k <= Len(g) THEN g[k] ELSE new[k - Len(g)]
    BY <2>2, ConcatProperties, Zenon
  <2> QED BY <2>1, <2>3
<1>4. Len(e) \in Nat /\ Len(mark) \in Nat /\ Len(g) \in Nat /\ Len(new) \in Nat
  BY <1>2
<1>5. \A k \in 1..Len(e) : h[k] = e[k]
  BY <1>2, <1>3, <1>4
<1>6. ASSUME NEW k \in 1..Len(mark) PROVE h[Len(e) + k] = mark[k]
  <2>1. PICK j : j = Len(e) + k
    OBVIOUS
  <2>2. j \in 1..Len(g) /\ j \in 1..(Len(g) + Len(new)) /\ j > Len(e) /\ j - Len(e) = k
    BY <1>2, <1>4, <2>1
  <2> QED BY <1>2, <1>3, <1>4, <2>1, <2>2
<1>7. ASSUME NEW k \in 1..Len(new) PROVE h[Len(e) + Len(mark) + k] = new[k]
  <2>1. PICK j : j = Len(g) + k
    OBVIOUS
  <2>2. j \in 1..(Len(g) + Len(new)) /\ j > Len(g) /\ j - Len(g) = k
    BY <1>4, <2>1
  <2>3. h[j] = new[k]
    BY <1>3, <1>4, <2>2
  <2> QED BY <1>2, <2>1, <2>3
<1> QED BY <1>2, <1>3, <1>5, <1>6, <1>7

\* The counters of the encoders: no playlist is merged before its segments exist.
CountsInv == EncoderTypes /\ \A p \in Playlists : copied[p] <= segments[p]

\* Uploads, losses and restarts keep the counters.
LEMMA CountsNext ==
    ASSUME CountsInv, [EncoderNext]_allVars
    PROVE  CountsInv'
<1>0. MaxSegments \in Nat /\ MaxRestarts \in Nat
  BY BoundsAssumption
<1>1. ASSUME NEW p \in Playlists, Upload(p) PROVE CountsInv'
  <2>1. PICK n, i, new, mark :
          /\ n = segments[p] + 1
          /\ i = IF copied[p] > first(n) THEN copied[p] ELSE first(n)
          /\ new = SegmentRange(p, run[p], i, n)
          /\ mark = IF run[p] > 0 /\ merges[p] = 0 THEN <<Discontinuity>> ELSE <<>>
    OBVIOUS
  <2>2. /\ run[p] \in 0..MaxRestarts /\ segments[p] \in 0..MaxSegments /\ copied[p] \in Nat
        /\ merges[p] \in Nat /\ copied[p] <= segments[p] /\ expected[p] \in Seq(Items)
    BY DEF CountsInv, EncoderTypes
  <2>3. segments[p] + 1 <= MaxSegments
    BY <1>1 DEF Upload
  <2>4. n \in Nat /\ n \in 0..MaxSegments /\ copied[p] <= n /\ first(n) \in 0..n
    <3>1. n \in Nat /\ n \in 0..MaxSegments /\ copied[p] <= n
      BY <1>0, <2>1, <2>2, <2>3
    <3> QED BY <2>2, <3>1, SourceFacts
  <2>5. i \in 0..n
    BY <2>1, <2>2, <2>4
  <2>6. new \in Seq(Items)
    BY <2>1, <2>2, <2>4, <2>5, RangeFacts
  <2>7. mark \in Seq(Items)
    BY <2>1, ItemTypes
  <2>8. expected[p] \o mark \o new \in Seq(Items)
    BY <2>2, <2>6, <2>7, ConcatTwice
  <2>9. SourcePlaylist(p, run[p], n).Sequence = first(n)
    BY <2>2, <2>4, SourceFacts
  <2>10. /\ expected' = [expected EXCEPT ![p] = @ \o mark \o new]
         /\ segments' = [segments EXCEPT ![p] = n] /\ copied' = [copied EXCEPT ![p] = n]
         /\ merges' = [merges EXCEPT ![p] = @ + 1] /\ UNCHANGED <<run, lost>>
    BY <1>1, <2>1, <2>9 DEF Upload
  <2>11. expected' \in [Playlists -> Seq(Items)]
    BY <2>8, <2>10 DEF CountsInv, EncoderTypes
  <2>12. /\ segments' \in [Playlists -> 0..MaxSegments] /\ copied' \in [Playlists -> Nat]
         /\ \A q \in Playlists : copied'[q] <= segments'[q]
    BY <2>4, <2>10 DEF CountsInv, EncoderTypes
  <2>13. merges' \in [Playlists -> Nat]
    BY <2>10 DEF CountsInv, EncoderTypes
  <2> QED BY <2>10, <2>11, <2>12, <2>13 DEF CountsInv, EncoderTypes
<1>2. ASSUME NEW p \in Playlists, LoseUpload(p) PROVE CountsInv'
  <2>1. segments' = [segments EXCEPT ![p] = @ + 1] /\ segments[p] \in LossFrom..(MaxSegments - 1)
        /\ lost' = [lost EXCEPT ![p] = @ + 1] /\ UNCHANGED <<run, copied, merges, expected>>
    BY <1>2 DEF LoseUpload
  <2>2. segments[p] \in 0..MaxSegments /\ LossFrom \in Nat
    BY BoundsAssumption DEF CountsInv, EncoderTypes
  <2>3. segments[p] + 1 \in 0..MaxSegments
    BY <1>0, <2>1, <2>2
  <2>4. segments' \in [Playlists -> 0..MaxSegments] /\ lost' \in [Playlists -> Nat]
    BY <2>1, <2>3 DEF CountsInv, EncoderTypes
  <2>5. \A q \in Playlists : segments'[q] = segments[q] \/ segments'[q] = segments[q] + 1
    BY <2>1 DEF CountsInv, EncoderTypes
  <2>6. \A q \in Playlists : /\ segments[q] \in 0..MaxSegments /\ copied[q] \in Nat
                             /\ copied[q] <= segments[q]
    BY DEF CountsInv, EncoderTypes
  <2>7. \A q \in Playlists : copied[q] <= segments'[q]
    BY <1>0, <2>5, <2>6
  <2> QED BY <2>1, <2>4, <2>7 DEF CountsInv, EncoderTypes
<1>3. ASSUME NEW p \in Playlists, Restart(p) PROVE CountsInv'
  <2>1. /\ run' = [run EXCEPT ![p] = @ + 1] /\ segments' = [segments EXCEPT ![p] = 0]
        /\ copied' = [copied EXCEPT ![p] = 0] /\ merges' = [merges EXCEPT ![p] = 0]
        /\ lost' = lost /\ run[p] < MaxRestarts /\ expected' = expected
    BY <1>3 DEF Restart
  <2>2. run[p] + 1 \in 0..MaxRestarts
    BY <1>0, <2>1 DEF CountsInv, EncoderTypes
  <2>3. run' \in [Playlists -> 0..MaxRestarts]
    BY <2>1, <2>2 DEF CountsInv, EncoderTypes
  <2>4. /\ segments' \in [Playlists -> 0..MaxSegments] /\ copied' \in [Playlists -> Nat]
        /\ merges' \in [Playlists -> Nat]
        /\ \A q \in Playlists : copied'[q] <= segments'[q]
    BY <1>0, <2>1 DEF CountsInv, EncoderTypes
  <2> QED BY <2>1, <2>3, <2>4 DEF CountsInv, EncoderTypes
<1>4. CASE UNCHANGED encoderVars
  BY <1>4 DEF encoderVars, CountsInv, EncoderTypes
<1> QED BY <1>1, <1>2, <1>3, <1>4 DEF EncoderNext, allVars

\* Encoders are one way to upload: what is proved of the parser for every
\* sequence of uploads holds with their uploads, losses and restarts.
THEOREM EncodersAreUploads == EncoderSpec => Spec
<1>1. EncoderInit => Init /\ CountsInv
  <2>1. EncoderInit => EncoderTypes
    BY BoundsAssumption DEF EncoderInit, EncoderTypes
  <2> QED BY <2>1 DEF EncoderInit, CountsInv
<1>2. CountsInv /\ [EncoderNext]_allVars => CountsInv' /\ [Next]_vars
  BY CountsNext, ParserStep DEF CountsInv
<1> QED BY <1>1, <1>2, PTL DEF EncoderSpec, Spec


\* The numbers of an upload: merging continues where the last playlist ended,
\* or at the first segment of the window if that is later, and starts over
\* exactly for the first playlist after a restart.
LEMMA UploadNumbers ==
    ASSUME TypeOK, EncoderInv, NEW p \in Playlists, Upload(p),
           NEW n, n = segments[p] + 1,
           NEW source, source = SourcePlaylist(p, run[p], n)
    PROVE  /\ n \in 1..MaxSegments /\ first(n) \in 0..n /\ copied[p] \in 0..(n - 1)
           /\ run[p] \in 0..MaxRestarts
           /\ source.Sequence = first(n) /\ source.Items = SegmentRange(p, run[p], first(n), n)
           /\ SegmentSize(source.Items) = n - first(n)
           /\ SequenceWentBackwards(p, source) <=> run[p] > 0 /\ merges[p] = 0
           /\ skippedItems(p, source) \in Int /\ skippedItems(p, source) <= n - first(n)
           /\ (IF 0 > skippedItems(p, source) THEN 0 ELSE skippedItems(p, source))
                 = (IF copied[p] > first(n) THEN copied[p] ELSE first(n)) - first(n)
           /\ merges[p] = 0 => n = 1
<1>1. /\ n \in 1..MaxSegments /\ n \in Nat /\ n - 1 = segments[p] /\ n \in 0..MaxSegments
      /\ run[p] \in 0..MaxRestarts /\ run[p] \in Nat
      /\ copied[p] \in Nat /\ merges[p] \in Nat /\ segments[p] \in Nat
  <2>1. segments[p] + 1 <= MaxSegments
    BY DEF Upload
  <2>2. /\ run[p] \in 0..MaxRestarts /\ segments[p] \in 0..MaxSegments
        /\ copied[p] \in Nat /\ merges[p] \in Nat
    BY DEF EncoderInv, EncoderTypes
  <2>3. MaxSegments \in Nat /\ MaxRestarts \in Nat
    BY BoundsAssumption
  <2> QED BY <2>1, <2>2, <2>3
<1>2. /\ copied[p] <= n - 1 /\ merges[p] <= copied[p]
      /\ merges[p] = 0 => copied[p] = 0
      /\ copied[p] < Window => n - 1 = copied[p]
  BY <1>1 DEF EncoderInv, RunInv
<1>3. /\ source.Sequence = first(n) /\ source.Items = SegmentRange(p, run[p], first(n), n)
      /\ SegmentSize(source.Items) = n - first(n) /\ first(n) \in 0..n
  BY <1>1, SourceFacts
<1>4. /\ lastIndex[p] = lastSize[p]
      /\ merges[p] > 0 => /\ lastSequence[p] = first(copied[p])
                          /\ lastSize[p] = copied[p] - first(copied[p])
      /\ merges[p] = 0 /\ run[p] = 0 => lastSequence[p] = 0 /\ lastSize[p] = 0
      /\ merges[p] = 0 /\ run[p] # 0 => lastSequence[p] + lastSize[p] >= 2
  BY DEF EncoderInv, LastInv, mergingOf, Upload, ParsePlaylist
<1>5. lastIndex[p] \in Int /\ lastSize[p] \in Nat /\ lastSequence[p] \in Nat
  BY DEF TypeOK
<1>6. Window \in Nat \ {0}
  BY BoundsAssumption
<1>7. SequenceWentBackwards(p, source) <=> n < lastSequence[p] + lastSize[p]
  BY <1>1, <1>3, <1>5 DEF SequenceWentBackwards
<1>8. skippedItems(p, source)
        = LET diff == lastSequence[p] - first(n) + (n - first(n)) - lastSize[p]
          IN  IF n < lastSequence[p] + lastSize[p] THEN 0
              ELSE IF diff < 0 THEN lastIndex[p] + diff ELSE lastIndex[p]
  BY <1>3, <1>7 DEF skippedItems
<1>9. PICK skip : skip = skippedItems(p, source)
  OBVIOUS
<1>10. merges[p] = 0 => n = 1 /\ first(n) = 0 /\ copied[p] = 0
  BY <1>1, <1>2, <1>6 DEF first
<1>11. CASE merges[p] = 0
  <2>1. CASE run[p] = 0
    <3>1. skip = 0 /\ ~(n < lastSequence[p] + lastSize[p])
      BY <1>4, <1>8, <1>9, <1>10, <1>11, <2>1
    <3> QED BY <1>1, <1>2, <1>3, <1>7, <1>9, <1>10, <1>11, <2>1, <3>1
  <2>2. CASE run[p] > 0
    <3>4. run[p] # 0
      BY <1>1, <2>2
    <3>5. lastSequence[p] + lastSize[p] >= 2
      BY <1>4, <1>11, <3>4
    <3>6. n = 1
      BY <1>10, <1>11
    <3>0. n < lastSequence[p] + lastSize[p]
      BY <1>5, <3>5, <3>6
    <3>1. skip = 0 /\ n < lastSequence[p] + lastSize[p]
      BY <1>8, <1>9, <3>0
    <3>2. /\ skip \in Int /\ skip <= n - first(n)
          /\ (IF 0 > skip THEN 0 ELSE skip)
               = (IF copied[p] > first(n) THEN copied[p] ELSE first(n)) - first(n)
      BY <1>10, <1>11, <3>1
    <3>3. SequenceWentBackwards(p, source) <=> run[p] > 0 /\ merges[p] = 0
      BY <1>7, <1>11, <2>2, <3>1
    <3> QED BY <1>1, <1>2, <1>3, <1>9, <1>10, <3>2, <3>3
  <2> QED BY <1>1, <2>1, <2>2
<1>12. CASE merges[p] > 0
  <2>1. /\ lastSequence[p] = first(copied[p]) /\ lastSize[p] = copied[p] - first(copied[p])
        /\ lastIndex[p] = copied[p] - first(copied[p])
    BY <1>4, <1>12
  <2>2. CASE copied[p] < Window
    <3>1. n = copied[p] + 1 /\ first(n) = 0 /\ first(copied[p]) = 0
      BY <1>1, <1>2, <1>6, <2>2 DEF first
    <3>2. skip = copied[p] /\ ~(n < lastSequence[p] + lastSize[p])
      BY <1>1, <1>8, <1>9, <2>1, <3>1
    <3>3. /\ skip \in Int /\ skip <= n - first(n)
          /\ (IF 0 > skip THEN 0 ELSE skip)
               = (IF copied[p] > first(n) THEN copied[p] ELSE first(n)) - first(n)
      BY <1>1, <1>2, <3>1, <3>2
    <3> QED BY <1>1, <1>2, <1>3, <1>7, <1>9, <1>12, <3>2, <3>3
  <2>3. CASE copied[p] >= Window
    <3>1. /\ first(n) = n - Window /\ first(copied[p]) = copied[p] - Window
      BY <1>1, <1>2, <1>6, <2>3 DEF first
    <3>2. skip = Window + copied[p] - n /\ ~(n < lastSequence[p] + lastSize[p])
      <4>1. /\ lastSequence[p] = copied[p] - Window /\ lastSize[p] = Window
            /\ lastIndex[p] = Window
        BY <1>1, <1>6, <2>1, <3>1
      <4>2. PICK c \in Nat, w \in Nat : c = copied[p] /\ w = Window
        BY <1>1, <1>6
      <4>3. c <= n - 1 /\ first(n) = n - w /\ lastSequence[p] = c - w /\ lastSize[p] = w
            /\ lastIndex[p] = w
        BY <1>2, <3>1, <4>1, <4>2
      <4>4. ~(n < lastSequence[p] + lastSize[p])
        BY <1>1, <4>3
      <4>5. lastSequence[p] - first(n) + (n - first(n)) - lastSize[p] = c - n /\ c - n < 0
        BY <1>1, <4>3
      <4>6. skip = lastIndex[p] + (c - n)
        BY <1>8, <1>9, <4>4, <4>5
      <4>7. skip = w + c - n
        BY <1>1, <4>3, <4>6
      <4> QED BY <4>2, <4>4, <4>7
    <3>3. /\ skip \in Int /\ skip <= n - first(n)
          /\ (IF 0 > skip THEN 0 ELSE skip)
               = (IF copied[p] > first(n) THEN copied[p] ELSE first(n)) - first(n)
      BY <1>1, <1>2, <1>6, <3>1, <3>2
    <3> QED BY <1>1, <1>2, <1>3, <1>7, <1>9, <1>12, <3>2, <3>3
  <2> QED BY <1>1, <1>6, <2>2, <2>3
<1> QED BY <1>1, <1>11, <1>12

\* An upload begins a merge that will bring the output up to date.
LEMMA UploadKeeps ==
    ASSUME TypeOK, EncoderInv, NEW p \in Playlists, Upload(p)
    PROVE  EncoderInv'
<1>1. PICK n, source, i, new, mark :
        /\ n = segments[p] + 1
        /\ source = SourcePlaylist(p, run[p], n)
        /\ i = IF copied[p] > first(n) THEN copied[p] ELSE first(n)
        /\ new = SegmentRange(p, run[p], i, n)
        /\ mark = IF run[p] > 0 /\ merges[p] = 0 THEN <<Discontinuity>> ELSE <<>>
  OBVIOUS
<1>2. PICK skip : skip = skippedItems(p, source)
  OBVIOUS
<1>3. /\ n \in 1..MaxSegments /\ first(n) \in 0..n /\ copied[p] \in 0..(n - 1)
      /\ run[p] \in 0..MaxRestarts
      /\ source.Sequence = first(n) /\ source.Items = SegmentRange(p, run[p], first(n), n)
      /\ SegmentSize(source.Items) = n - first(n)
      /\ SequenceWentBackwards(p, source) <=> run[p] > 0 /\ merges[p] = 0
      /\ skip \in Int /\ skip <= n - first(n)
      /\ (IF 0 > skip THEN 0 ELSE skip) = i - first(n)
      /\ merges[p] = 0 => n = 1
  <2>1. (IF copied[p] > first(n) THEN copied[p] ELSE first(n)) - first(n) = i - first(n)
    BY <1>1
  <2> HIDE <1>1
  <2>2. n = segments[p] + 1 /\ source = SourcePlaylist(p, run[p], n)
    BY <1>1
  <2> QED BY <1>2, <2>1, <2>2, UploadNumbers
<1>4. /\ job.pc = "idle"
      /\ job' = [pc |-> "append", playlist |-> p, source |-> source, index |-> 0]
      /\ lastIndex' = [lastIndex EXCEPT ![p] = skip]
      /\ lastSequence' = [lastSequence EXCEPT ![p] = first(n)]
      /\ lastSize' = [lastSize EXCEPT ![p] = n - first(n)]
      /\ log' = IF run[p] > 0 /\ merges[p] = 0
                THEN [log EXCEPT ![p] = Append(log[p], Discontinuity)] ELSE log
      /\ segments' = [segments EXCEPT ![p] = n]
      /\ copied' = [copied EXCEPT ![p] = n]
      /\ merges' = [merges EXCEPT ![p] = @ + 1]
      /\ expected' = [expected EXCEPT ![p] = @ \o mark \o new]
      /\ run' = run /\ lost' = lost
  <2>1. ParsePlaylist(p, source)
    BY <1>1 DEF Upload
  <2>2. /\ segments' = [segments EXCEPT ![p] = n]
        /\ copied' = [copied EXCEPT ![p] = n]
        /\ merges' = [merges EXCEPT ![p] = @ + 1]
        /\ run' = run /\ lost' = lost
    BY <1>1 DEF Upload
  <2>3. expected' = [expected EXCEPT ![p] = @ \o mark \o new]
    BY <1>1, <1>3 DEF Upload
  <2>4. log' = IF run[p] > 0 /\ merges[p] = 0
               THEN [log EXCEPT ![p] = Append(log[p], Discontinuity)] ELSE log
    BY <1>3, <2>1 DEF ParsePlaylist, insertDiscontinuity
  <2>5. /\ job.pc = "idle"
        /\ job' = [pc |-> "append", playlist |-> p, source |-> source, index |-> 0]
        /\ lastIndex' = [lastIndex EXCEPT ![p] = skip]
        /\ lastSequence' = [lastSequence EXCEPT ![p] = first(n)]
        /\ lastSize' = [lastSize EXCEPT ![p] = n - first(n)]
    BY <1>2, <1>3, <2>1 DEF ParsePlaylist
  <2> QED BY <2>2, <2>3, <2>4, <2>5
<1>5. /\ n \in Nat /\ i \in 0..n /\ i >= first(n) /\ first(n) \in Nat /\ n \in 0..MaxSegments
      /\ MaxSegments \in Nat /\ Window \in Nat \ {0}
  BY <1>1, <1>3, BoundsAssumption
<1>6. /\ new \in Seq(Items) /\ Len(new) = n - i
      /\ source.Items \in Seq(Items) /\ Len(source.Items) = n - first(n)
      /\ \A k \in 1..(n - first(n)) : IsSegment(source.Items[k])
      /\ \A k \in 1..(n - i) : new[k] = source.Items[i - first(n) + k]
  <2>1. /\ new \in Seq(Items) /\ Len(new) = n - i
        /\ \A k \in 1..(n - i) : new[k] = Segment(SegmentName(p, run[p], i + k - 1))
    <3>1. /\ SegmentRange(p, run[p], i, n) \in Seq(Items)
          /\ Len(SegmentRange(p, run[p], i, n)) = n - i
          /\ \A k \in 1..(n - i) :
                /\ SegmentRange(p, run[p], i, n)[k] = Segment(SegmentName(p, run[p], i + k - 1))
                /\ IsSegment(SegmentRange(p, run[p], i, n)[k])
      BY <1>3, <1>5, RangeFacts, Zenon
    <3> QED BY <1>1, <3>1, Zenon
  <2>2. /\ source.Items \in Seq(Items) /\ Len(source.Items) = n - first(n)
        /\ \A k \in 1..(n - first(n)) :
              /\ source.Items[k] = Segment(SegmentName(p, run[p], first(n) + k - 1))
              /\ IsSegment(source.Items[k])
    <3>1. /\ SegmentRange(p, run[p], first(n), n) \in Seq(Items)
          /\ Len(SegmentRange(p, run[p], first(n), n)) = n - first(n)
          /\ \A k \in 1..(n - first(n)) :
                /\ SegmentRange(p, run[p], first(n), n)[k]
                     = Segment(SegmentName(p, run[p], first(n) + k - 1))
                /\ IsSegment(SegmentRange(p, run[p], first(n), n)[k])
      BY <1>3, <1>5, RangeFacts, Zenon
    <3> QED BY <1>3, <3>1, Zenon
  <2>3. ASSUME NEW k \in 1..(n - i) PROVE new[k] = source.Items[i - first(n) + k]
    <3>1. i - first(n) + k \in 1..(n - first(n)) /\ first(n) + (i - first(n) + k) - 1 = i + k - 1
      BY <1>5
    <3>2. source.Items[i - first(n) + k]
            = Segment(SegmentName(p, run[p], first(n) + (i - first(n) + k) - 1))
      BY <2>2, <3>1
    <3> QED BY <2>1, <3>1, <3>2
  <2> QED BY <2>1, <2>2, <2>3
<1>7. /\ expected \in [Playlists -> Seq(Items)] /\ expected[p] \in Seq(Items)
      /\ log[p] \in Seq(Items) /\ log \in [Playlists -> Seq(Items)]
      /\ mark \in Seq(Items) /\ Len(mark) \in 0..1
  BY <1>1, ItemTypes DEF EncoderInv, EncoderTypes, TypeOK
<1>8. PICK h : h = expected[p] \o mark \o new
  OBVIOUS
<1>9. /\ h \in Seq(Items) /\ Len(h) = Len(expected[p]) + Len(mark) + (n - i)
      /\ \A k \in 1..Len(expected[p]) : h[k] = expected[p][k]
      /\ \A k \in 1..Len(mark) : h[Len(expected[p]) + k] = mark[k]
      /\ \A k \in 1..(n - i) : h[Len(expected[p]) + Len(mark) + k] = new[k]
  <2>1. new \in Seq(Items) /\ expected[p] \in Seq(Items) /\ mark \in Seq(Items)
    BY <1>6, <1>7
  <2>2. /\ h \in Seq(Items) /\ Len(h) = Len(expected[p]) + Len(mark) + Len(new)
        /\ \A k \in 1..Len(expected[p]) : h[k] = expected[p][k]
        /\ \A k \in 1..Len(mark) : h[Len(expected[p]) + k] = mark[k]
        /\ \A k \in 1..Len(new) : h[Len(expected[p]) + Len(mark) + k] = new[k]
    <3>1. PICK e \in Seq(Items) : e = expected[p]
      BY <2>1, Zenon
    <3>2. h = e \o mark \o new
      BY <1>8, <3>1
    <3> HIDE <1>8
    <3> QED BY <2>1, <3>1, <3>2, ConcatTwice
  <2>3. Len(new) = n - i
    BY <1>6
  <2> QED BY <2>2, <2>3, Zenon
<1>10. /\ expected' \in [Playlists -> Seq(Items)] /\ expected'[p] = h
       /\ \A q \in Playlists : q # p => expected'[q] = expected[q]
  BY <1>4, <1>7, <1>8, <1>9
<1>11. EncoderTypes'
  <2>1. segments' \in [Playlists -> 0..MaxSegments] /\ copied' \in [Playlists -> Nat]
    BY <1>4, <1>5 DEF EncoderInv, EncoderTypes
  <2>2. merges' \in [Playlists -> Nat]
    BY <1>4 DEF EncoderInv, EncoderTypes
  <2>3. run' \in [Playlists -> 0..MaxRestarts] /\ lost' \in [Playlists -> Nat]
    BY <1>4 DEF EncoderInv, EncoderTypes
  <2> QED BY <1>10, <2>1, <2>2, <2>3 DEF EncoderTypes
<1>12. /\ segments'[p] = n /\ copied'[p] = n /\ merges'[p] = merges[p] + 1 /\ merges[p] \in Nat
       /\ lastIndex'[p] = skip /\ lastSequence'[p] = first(n) /\ lastSize'[p] = n - first(n)
       /\ \A q \in Playlists : q # p =>
             /\ segments'[q] = segments[q] /\ copied'[q] = copied[q] /\ merges'[q] = merges[q]
             /\ lastIndex'[q] = lastIndex[q] /\ lastSequence'[q] = lastSequence[q]
             /\ lastSize'[q] = lastSize[q] /\ log'[q] = log[q]
  BY <1>4 DEF EncoderInv, EncoderTypes, TypeOK
<1>13. /\ mergingOf(p)' /\ job'.source.Items = source.Items /\ job'.index = 0
       /\ \A q \in Playlists : ~mergingOf(q) /\ (q # p => ~mergingOf(q)')
  BY <1>4 DEF mergingOf
<1>14. RunInv(p)'
  <2>1. merges[p] <= copied[p]
    BY DEF EncoderInv, RunInv
  <2> QED BY <1>3, <1>5, <1>12, <2>1 DEF RunInv
<1>15. LastInv(p)'
  <2>1. /\ mergingOf(p)' /\ Len(job'.source.Items) = n - first(n)
        /\ \A k \in 1..(n - first(n)) : IsSegment(job'.source.Items[k])
    BY <1>6, <1>13
  <2>2. lastIndex'[p] <= n - first(n) /\ job'.index <= n - first(n)
    BY <1>3, <1>5, <1>12, <1>13
  <2>3. merges'[p] > 0 /\ merges'[p] # 0
    BY <1>12
  <2> QED BY <1>12, <2>1, <2>2, <2>3 DEF LastInv
<1>16. LogInv(p)'
  <2>1. position(p)' = i - first(n) /\ remaining(p)' = n - i
    <3>1. position(p)' = IF 0 > skip THEN 0 ELSE skip
      BY <1>12, <1>13 DEF position
    <3>2. position(p)' = i - first(n)
      BY <1>3, <3>1
    <3>3. Len(job'.source.Items) = n - first(n)
      BY <1>6, <1>13
    <3>4. remaining(p)' = Len(job'.source.Items) - position(p)'
      BY <1>13 DEF remaining
    <3> QED BY <1>5, <3>2, <3>3, <3>4
  <2>2. /\ Len(expected[p]) = Len(log[p]) /\ \A k \in 1..Len(log[p]) : expected[p][k] = log[p][k]
    BY <1>7, <1>13 DEF EncoderInv, LogInv, remaining
  <2>3. /\ Len(log'[p]) = Len(log[p]) + Len(mark)
        /\ \A k \in 1..Len(log[p]) : log'[p][k] = log[p][k]
        /\ \A k \in 1..Len(mark) : log'[p][Len(log[p]) + k] = mark[k]
    <3>1. CASE run[p] > 0 /\ merges[p] = 0
      <4>1. log'[p] = Append(log[p], Discontinuity) /\ mark = <<Discontinuity>>
        BY <1>1, <1>4, <1>7, <3>1
      <4> QED BY <1>7, <4>1
    <3>2. CASE ~(run[p] > 0 /\ merges[p] = 0)
      <4>1. log'[p] = log[p] /\ mark = <<>>
        BY <1>1, <1>4, <1>7, <3>2
      <4> QED BY <1>7, <4>1
    <3> QED BY <3>1, <3>2
  <2>4. \A k \in 1..Len(log'[p]) : h[k] = log'[p][k]
    <3> SUFFICES ASSUME NEW k \in 1..Len(log'[p]) PROVE h[k] = log'[p][k]
      OBVIOUS
    <3>1. CASE k <= Len(log[p])
      BY <1>7, <1>9, <2>2, <2>3, <3>1
    <3>2. CASE k > Len(log[p])
      <4>0. PICK j : j = k - Len(log[p])
        OBVIOUS
      <4>1. j \in 1..Len(mark) /\ k = Len(log[p]) + j
        BY <1>7, <2>3, <3>2, <4>0
      <4> QED BY <1>9, <2>2, <2>3, <4>1
    <3> QED BY <1>7, <2>3, <3>1, <3>2
  <2>5. \A k \in 1..(n - i) : h[Len(log'[p]) + k] = source.Items[i - first(n) + k]
    BY <1>6, <1>9, <2>2, <2>3
  <2>6. Len(h) = Len(log'[p]) + (n - i)
    BY <1>9, <2>2, <2>3
  <2> QED BY <1>10, <1>13, <2>1, <2>4, <2>5, <2>6 DEF LogInv
<1>17. ASSUME NEW q \in Playlists, q # p PROVE RunInv(q)' /\ LastInv(q)' /\ LogInv(q)'
  <2>1. RunInv(q) /\ LastInv(q) /\ LogInv(q) /\ ~mergingOf(q) /\ ~mergingOf(q)'
    BY <1>13, <1>17 DEF EncoderInv
  <2>2. RunInv(q)'
    BY <1>12, <1>17, <2>1 DEF RunInv
  <2>3. LastInv(q)'
    BY <1>4, <1>12, <1>17, <2>1 DEF LastInv
  <2>4. LogInv(q)'
    BY <1>10, <1>12, <1>17, <2>1 DEF LogInv, remaining
  <2> QED BY <2>2, <2>3, <2>4
<1>18. LateLosses
  BY DEF EncoderInv
<1> QED BY <1>11, <1>14, <1>15, <1>16, <1>17, <1>18 DEF EncoderInv, LateLosses

\* A lost playlist, and a restart: the next playlist will tell.
LEMMA EncoderKeeps ==
    ASSUME TypeOK, EncoderInv, NEW p \in Playlists, LoseUpload(p) \/ Restart(p)
    PROVE  EncoderInv'
<1>1. UNCHANGED <<vars, expected>>
  BY DEF LoseUpload, Restart
<1>2. /\ UNCHANGED <<lastIndex, lastSize, lastSequence, log, job, expected>>
      /\ \A q \in Playlists : /\ mergingOf(q)' <=> mergingOf(q)
                              /\ remaining(q)' = remaining(q) /\ position(q)' = position(q)
  BY <1>1 DEF vars, variants, mergingOf, remaining, position
<1>3. /\ Window \in Nat \ {0} /\ MaxSegments \in Nat /\ MaxRestarts \in Nat /\ LossFrom \in Nat
      /\ MinUploads \in Nat /\ LossFrom >= Window /\ MinUploads >= 2
  BY BoundsAssumption DEF EncoderInv, LateLosses
<1>4. /\ run[p] \in 0..MaxRestarts /\ segments[p] \in 0..MaxSegments /\ lost[p] \in Nat
      /\ copied[p] \in Nat /\ merges[p] \in Nat
  BY DEF EncoderInv, EncoderTypes
<1>5. lastSize[p] \in Nat /\ lastSequence[p] \in Nat
  BY DEF TypeOK
<1>6. ASSUME NEW q \in Playlists PROVE LogInv(q)'
  BY <1>2 DEF EncoderInv, LogInv
<1>7. ASSUME NEW q \in Playlists, q # p,
             segments'[q] = segments[q] /\ copied'[q] = copied[q] /\ merges'[q] = merges[q]
             /\ run'[q] = run[q]
      PROVE  RunInv(q)' /\ LastInv(q)'
  BY <1>2, <1>7 DEF EncoderInv, RunInv, LastInv
<1>8. CASE LoseUpload(p)
  <2>1. /\ segments' = [segments EXCEPT ![p] = @ + 1] /\ lost' = [lost EXCEPT ![p] = @ + 1]
        /\ UNCHANGED <<run, copied, merges>> /\ segments[p] \in LossFrom..(MaxSegments - 1)
    BY <1>8 DEF LoseUpload
  <2>2. segments[p] + 1 \in 0..MaxSegments /\ segments[p] >= Window
    BY <1>3, <1>4, <2>1
  <2>3. EncoderTypes'
    BY <1>2, <2>1, <2>2 DEF EncoderInv, EncoderTypes
  <2>4. segments'[p] = segments[p] + 1 /\ \A q \in Playlists : q # p => segments'[q] = segments[q]
    BY <2>1 DEF EncoderInv, EncoderTypes
  <2>5. RunInv(p)'
    BY <1>3, <1>4, <2>1, <2>2, <2>4 DEF EncoderInv, RunInv
  <2>6. LastInv(p)'
    BY <1>2, <2>1 DEF EncoderInv, LastInv
  <2> QED BY <1>6, <1>7, <2>1, <2>3, <2>4, <2>5, <2>6 DEF EncoderInv, LateLosses
<1>9. CASE Restart(p)
  <2>1. /\ run' = [run EXCEPT ![p] = @ + 1] /\ segments' = [segments EXCEPT ![p] = 0]
        /\ copied' = [copied EXCEPT ![p] = 0] /\ merges' = [merges EXCEPT ![p] = 0]
        /\ lost' = lost /\ run[p] < MaxRestarts /\ merges[p] >= MinUploads
    BY <1>9 DEF Restart
  <2>2. run[p] + 1 \in 0..MaxRestarts /\ merges[p] >= 2 /\ run[p] + 1 # 0
    BY <1>3, <1>4, <2>1
  <2>3. EncoderTypes'
    <3>1. run' \in [Playlists -> 0..MaxRestarts]
      BY <2>1, <2>2 DEF EncoderInv, EncoderTypes
    <3>2. /\ segments' \in [Playlists -> 0..MaxSegments] /\ copied' \in [Playlists -> Nat]
          /\ merges' \in [Playlists -> Nat]
      BY <1>3, <2>1 DEF EncoderInv, EncoderTypes
    <3> QED BY <1>2, <2>1, <3>1, <3>2 DEF EncoderInv, EncoderTypes
  <2>4. /\ run'[p] = run[p] + 1 /\ segments'[p] = 0 /\ copied'[p] = 0 /\ merges'[p] = 0
        /\ \A q \in Playlists : q # p => /\ run'[q] = run[q] /\ segments'[q] = segments[q]
                                         /\ copied'[q] = copied[q] /\ merges'[q] = merges[q]
    BY <2>1 DEF EncoderInv, EncoderTypes
  <2>5. RunInv(p)'
    BY <1>3, <2>4 DEF RunInv
  <2>6. lastSequence[p] + lastSize[p] >= 2
    <3>1. copied[p] >= 2
      BY <1>4, <2>2 DEF EncoderInv, RunInv
    <3>2. lastSequence[p] = first(copied[p]) /\ lastSize[p] = copied[p] - first(copied[p])
      BY <1>4, <2>2 DEF EncoderInv, LastInv
    <3>3. first(copied[p]) \in Nat
      BY <1>3, <1>4 DEF first
    <3> QED BY <1>4, <3>1, <3>2, <3>3
  <2>7. LastInv(p)'
    <3>1. IF mergingOf(p)
          THEN /\ Len(job.source.Items) = lastSize[p]
               /\ lastIndex[p] <= lastSize[p] /\ job.index <= lastSize[p]
               /\ \A k \in 1..lastSize[p] : IsSegment(job.source.Items[k])
          ELSE lastIndex[p] = lastSize[p]
      BY DEF EncoderInv, LastInv
    <3> QED BY <1>2, <2>2, <2>4, <2>6, <3>1 DEF LastInv
  <2> QED BY <1>6, <1>7, <2>3, <2>4, <2>5, <2>7 DEF EncoderInv, LateLosses
<1> QED BY <1>8, <1>9

\* A merge copies the items that remain, one after the other, and no others.
LEMMA MergeKeeps ==
    ASSUME TypeOK, EncoderInv, MergeStep, UNCHANGED encoderVars
    PROVE  EncoderInv'
<1>1. /\ UNCHANGED <<run, segments, lost, copied, merges, expected>>
      /\ EncoderTypes' /\ LateLosses'
      /\ \A q \in Playlists : RunInv(q)'
  BY DEF encoderVars, EncoderInv, EncoderTypes, RunInv, LateLosses
<1>2. PICK p \in Playlists :
        \/ \E index \in 0..MaxLog : SkipItem(p, index) \/ CopySegment(p, index)
        \/ merged(p)
  BY DEF MergeStep, writePlaylist, writePlaylistFails
<1>3. job.pc = "append" /\ job.playlist = p /\ mergingOf(p)
  BY <1>2 DEF SkipItem, CopySegment, merged, merging, mergingOf
<1>4. /\ Len(job.source.Items) = lastSize[p] /\ lastIndex[p] <= lastSize[p]
      /\ job.index <= lastSize[p] /\ \A k \in 1..lastSize[p] : IsSegment(job.source.Items[k])
      /\ lastSize[p] \in Nat /\ lastIndex[p] \in Int /\ job.index \in Nat
      /\ job.source.Items \in Seq(Items) /\ log[p] \in Seq(Items) /\ expected[p] \in Seq(Items)
  <2>1. job.source.Items \in Seq(Items) /\ job.index \in Nat
    BY DEF TypeOK, Jobs, SourcePlaylists
  <2>2. /\ lastSize[p] \in Nat /\ lastIndex[p] \in Int /\ log[p] \in Seq(Items)
        /\ expected[p] \in Seq(Items)
    BY DEF TypeOK, EncoderInv, EncoderTypes
  <2> QED BY <1>3, <2>1, <2>2 DEF EncoderInv, LastInv
<1>5. /\ position(p) = IF job.index > lastIndex[p] THEN job.index ELSE lastIndex[p]
      /\ remaining(p) = lastSize[p] - position(p)
      /\ Len(expected[p]) = Len(log[p]) + remaining(p)
      /\ \A i \in 1..Len(log[p]) : expected[p][i] = log[p][i]
      /\ \A k \in 1..remaining(p) : expected[p][Len(log[p]) + k] = job.source.Items[position(p) + k]
  BY <1>3, <1>4 DEF EncoderInv, LogInv, position, remaining
<1>6. /\ UNCHANGED <<lastSize, lastSequence>>
      /\ \A q \in Playlists : q # p => /\ lastIndex'[q] = lastIndex[q] /\ log'[q] = log[q]
                                       /\ ~mergingOf(q) /\ ~mergingOf(q)'
  <2>1. UNCHANGED <<lastSize, lastSequence>>
    BY <1>2 DEF SkipItem, CopySegment, merged, variants
  <2>2. \A q \in Playlists : q # p => lastIndex'[q] = lastIndex[q] /\ log'[q] = log[q]
    BY <1>2 DEF SkipItem, CopySegment, merged, variants, TypeOK
  <2>3. job' = idle \/ job' = [job EXCEPT !.index = job.index + 1]
    BY <1>2 DEF SkipItem, CopySegment, merged, merging
  <2>4. job'.pc = "idle" \/ job'.playlist = p
    BY <1>3, <2>3 DEF idle, TypeOK, Jobs
  <2> QED BY <1>3, <2>1, <2>2, <2>4 DEF mergingOf
<1>7. ASSUME NEW q \in Playlists, q # p PROVE LastInv(q)' /\ LogInv(q)'
  BY <1>1, <1>6, <1>7 DEF EncoderInv, LastInv, LogInv, remaining
<1>8. ASSUME NEW index \in 0..MaxLog, SkipItem(p, index) \/ CopySegment(p, index)
      PROVE  /\ job'.pc = "append" /\ job'.playlist = p /\ job'.source = job.source
             /\ job'.index = job.index + 1 /\ job.index = index /\ mergingOf(p)'
             /\ index < lastSize[p] /\ lastIndex' = lastIndex
  <2>1. /\ job' = [job EXCEPT !.index = index + 1]
        /\ job.index = index /\ index < Len(job.source.Items)
        /\ lastIndex' = lastIndex
    BY <1>8 DEF SkipItem, CopySegment, merging, variants
  <2>2. /\ job'.pc = "append" /\ job'.playlist = p
        /\ job'.source = job.source /\ job'.index = index + 1
    BY <1>3, <2>1 DEF TypeOK, Jobs
  <2> QED BY <1>4, <2>1, <2>2 DEF mergingOf
<1>9. ASSUME NEW index \in 0..MaxLog, SkipItem(p, index) PROVE LastInv(p)' /\ LogInv(p)'
  <2>1. /\ job'.source = job.source /\ job'.index = job.index + 1 /\ job.index = index
        /\ mergingOf(p)' /\ index < lastSize[p] /\ lastIndex' = lastIndex /\ log' = log
    BY <1>8, <1>9 DEF SkipItem, variants
  <2>2. index < lastIndex[p]
    <3>1. index + 1 \in 1..lastSize[p]
      BY <1>4, <2>1
    <3> QED BY <1>4, <1>9, <3>1 DEF SkipItem
  <2>3. position(p)' = position(p) /\ remaining(p)' = remaining(p)
    <3>1. position(p)' = lastIndex[p] /\ position(p) = lastIndex[p]
      BY <1>4, <2>1, <2>2 DEF position
    <3> QED BY <1>3, <2>1, <3>1 DEF remaining
  <2>4. LastInv(p)'
    BY <1>1, <1>3, <1>4, <1>6, <2>1 DEF EncoderInv, LastInv
  <2>5. LogInv(p)'
    BY <1>1, <1>5, <2>1, <2>3 DEF LogInv
  <2> QED BY <2>4, <2>5
<1>10. ASSUME NEW index \in 0..MaxLog, CopySegment(p, index) PROVE LastInv(p)' /\ LogInv(p)'
  <2>1. /\ job'.source = job.source /\ job'.index = job.index + 1 /\ job.index = index
        /\ mergingOf(p)' /\ index < lastSize[p] /\ lastIndex' = lastIndex
        /\ index >= lastIndex[p]
    BY <1>8, <1>10 DEF CopySegment
  <2>2. log'[p] = Append(log[p], job.source.Items[index + 1])
    BY <1>10 DEF CopySegment, TypeOK
  <2>3. job.source.Items[index + 1] \in Items
    BY <1>4, <2>1
  <2>4. /\ Len(log'[p]) = Len(log[p]) + 1
        /\ \A i \in 1..Len(log[p]) : log'[p][i] = log[p][i]
        /\ log'[p][Len(log[p]) + 1] = job.source.Items[index + 1]
    BY <1>4, <2>2, <2>3
  <2>5. /\ position(p) = index /\ position(p)' = index + 1
        /\ remaining(p) = lastSize[p] - index /\ remaining(p)' = lastSize[p] - (index + 1)
    <3>1. position(p) = index /\ position(p)' = index + 1
      BY <1>4, <2>1 DEF position
    <3> QED BY <1>4, <1>5, <2>1, <3>1 DEF remaining
  <2>6. LastInv(p)'
    BY <1>1, <1>3, <1>4, <1>6, <2>1 DEF EncoderInv, LastInv
  <2>7. /\ Len(expected[p]) = Len(log'[p]) + remaining(p)'
    <3>1. Len(log[p]) \in Nat /\ Len(expected[p]) = Len(log[p]) + (lastSize[p] - index)
      BY <1>4, <1>5, <2>5
    <3>2. PICK a \in Nat : a = Len(log[p])
      BY <3>1
    <3>3. PICK s \in Nat : s = lastSize[p]
      BY <1>4
    <3>4. a + (s - index) = (a + 1) + (s - (index + 1))
      OBVIOUS
    <3>5. Len(log'[p]) = a + 1 /\ remaining(p)' = s - (index + 1)
      BY <2>4, <2>5, <3>2, <3>3
    <3> QED BY <3>1, <3>2, <3>3, <3>4, <3>5
  <2>8. ASSUME NEW i \in 1..Len(log'[p]) PROVE expected[p][i] = log'[p][i]
    <3>1. expected[p][Len(log[p]) + 1] = job.source.Items[index + 1]
      <4>1. 1 \in 1..remaining(p)
        BY <1>4, <2>1, <2>5
      <4> QED BY <1>5, <2>5, <4>1
    <3>2. i \in 1..Len(log[p]) \/ i = Len(log[p]) + 1
      BY <1>4, <2>4
    <3> QED BY <1>5, <2>4, <3>1, <3>2
  <2>9. ASSUME NEW k \in 1..remaining(p)'
        PROVE  expected[p][Len(log'[p]) + k] = job.source.Items[position(p)' + k]
    <3>1. k + 1 \in 1..remaining(p)
      BY <1>4, <2>1, <2>5
    <3>2. expected[p][Len(log[p]) + (k + 1)] = job.source.Items[index + (k + 1)]
      BY <1>5, <2>5, <3>1
    <3>3. Len(log'[p]) + k = Len(log[p]) + (k + 1) /\ position(p)' + k = index + (k + 1)
      <4>1. Len(log[p]) \in Nat
        BY <1>4
      <4>2. PICK a \in Nat : a = Len(log[p])
        BY <4>1
      <4>3. k \in Nat
        BY <3>1, <1>4, <2>5
      <4>4. (a + 1) + k = a + (k + 1) /\ (index + 1) + k = index + (k + 1)
        BY <4>3
      <4> QED BY <2>4, <2>5, <4>2, <4>4
    <3> QED BY <3>2, <3>3
  <2>10. LogInv(p)'
    BY <1>1, <2>1, <2>7, <2>8, <2>9 DEF LogInv
  <2> QED BY <2>6, <2>10
<1>11. CASE merged(p)
  <2>1. /\ lastIndex'[p] = lastSize[p] /\ job' = idle /\ log' = log /\ job.index = lastSize[p]
    BY <1>4, <1>11 DEF merged, merging, TypeOK
  <2>2. ~mergingOf(p)' /\ remaining(p)' = 0 /\ remaining(p) = 0
    <3>1. position(p) = lastSize[p]
      BY <1>4, <1>5, <2>1
    <3> QED BY <1>4, <1>5, <2>1, <3>1 DEF mergingOf, remaining, idle
  <2>3. LastInv(p)'
    BY <1>1, <1>6, <2>1, <2>2 DEF EncoderInv, LastInv
  <2>4. LogInv(p)'
    BY <1>1, <1>5, <2>1, <2>2 DEF LogInv
  <2> QED BY <1>1, <1>7, <2>3, <2>4 DEF EncoderInv
<1> QED BY <1>1, <1>2, <1>7, <1>9, <1>10, <1>11 DEF EncoderInv

\* Every step of the parser and of the encoders.
LEMMA EncoderInvNext ==
    ASSUME TypeOK, EncoderInv, [EncoderNext]_allVars
    PROVE  EncoderInv'
<1>1. CASE UNCHANGED allVars
  BY <1>1 DEF allVars, vars, variants, encoderVars, EncoderInv, EncoderTypes, RunInv, LastInv,
              LogInv, mergingOf, remaining, position, LateLosses
<1> QED BY <1>1, UploadKeeps, EncoderKeeps, MergeKeeps DEF EncoderNext

\* Nothing is uploaded yet.
LEMMA EncoderInvInit ==
    ASSUME LateLosses, EncoderInit
    PROVE  EncoderInv
<1>1. EncoderTypes
  BY BoundsAssumption DEF EncoderInit, EncoderTypes
<1>2. \A p \in Playlists : RunInv(p)
  BY BoundsAssumption DEF EncoderInit, RunInv
<1>3. \A p \in Playlists : ~mergingOf(p)
  BY DEF EncoderInit, Init, idle, mergingOf
<1>4. \A p \in Playlists : LastInv(p)
  BY <1>3 DEF EncoderInit, Init, LastInv
<1>5. \A p \in Playlists : LogInv(p)
  BY <1>3 DEF EncoderInit, Init, LogInv, remaining
<1> QED BY <1>1, <1>2, <1>4, <1>5 DEF EncoderInv

\* Between two merges the output lists what the encoders produced, whatever is
\* uploaded or lost once a window is full and wherever they are restarted.
THEOREM MergesAreExact == LateLosses /\ EncoderSpec => []OnlyNewSegments
<1>1. LateLosses /\ EncoderInit => EncoderInv
  BY EncoderInvInit
<1>2. TypeOK /\ EncoderInv /\ [EncoderNext]_allVars => EncoderInv'
  BY EncoderInvNext
<1>3. TypeOK /\ EncoderInv => OnlyNewSegments
  <2> SUFFICES ASSUME TypeOK, EncoderInv, job.pc = "idle" PROVE log = expected
    BY DEF OnlyNewSegments
  <2>1. log \in [Playlists -> Seq(Items)] /\ expected \in [Playlists -> Seq(Items)]
    BY DEF TypeOK, EncoderInv, EncoderTypes
  <2>2. ASSUME NEW p \in Playlists PROVE log[p] = expected[p]
    <3>1. PICK a \in Seq(Items), b \in Seq(Items) : a = log[p] /\ b = expected[p]
      BY <2>1
    <3>2. Len(b) = Len(a) + 0 /\ \A i \in 1..Len(a) : b[i] = a[i]
      BY <3>1 DEF EncoderInv, LogInv, remaining, mergingOf
    <3>3. Len(a) = Len(b)
      BY <3>2
    <3> QED BY <3>1, <3>2, <3>3, SeqEqual
  <2> QED BY <2>1, <2>2
<1> QED BY <1>1, <1>2, <1>3, EncodersAreUploads, TypeCorrect, PTL DEF EncoderSpec

-----------------------------------------------------------------------------
\* An upload names its new segments as no segment was named before.
LEMMA UploadNames ==
    ASSUME ~ReuseNames, TypeOK, EncoderInv, NamesInv, NEW p \in Playlists, Upload(p)
    PROVE  NamesInv'
<1>1. PICK n, i, new, mark :
        /\ n = segments[p] + 1
        /\ i = IF copied[p] > first(n) THEN copied[p] ELSE first(n)
        /\ new = SegmentRange(p, run[p], i, n)
        /\ mark = IF run[p] > 0 /\ merges[p] = 0 THEN <<Discontinuity>> ELSE <<>>
  OBVIOUS
<1>2. /\ n \in 1..MaxSegments /\ first(n) \in 0..n /\ copied[p] \in 0..(n - 1)
      /\ run[p] \in 0..MaxRestarts /\ SourcePlaylist(p, run[p], n).Sequence = first(n)
  <2>1. PICK source : source = SourcePlaylist(p, run[p], n)
    OBVIOUS
  <2>2. n = segments[p] + 1
    BY <1>1
  <2> QED BY <2>1, <2>2, UploadNumbers
<1>3. /\ n \in Nat /\ n \in 0..MaxSegments /\ i \in 0..n /\ i \in Nat /\ i >= copied[p]
      /\ copied[p] \in Nat /\ run[p] \in Nat /\ copied[p] < n
  BY <1>1, <1>2, BoundsAssumption
<1>4. /\ new \in Seq(Items) /\ Len(new) = n - i
      /\ \A k \in 1..(n - i) : new[k] = Segment(<<p, run[p], i + k - 1>>)
  <2>1. /\ SegmentRange(p, run[p], i, n) \in Seq(Items)
        /\ Len(SegmentRange(p, run[p], i, n)) = n - i
        /\ \A k \in 1..(n - i) :
              /\ SegmentRange(p, run[p], i, n)[k] = Segment(SegmentName(p, run[p], i + k - 1))
              /\ IsSegment(SegmentRange(p, run[p], i, n)[k])
    BY <1>2, <1>3, RangeFacts, Zenon
  <2> QED BY <1>1, <2>1, Zenon DEF SegmentName
<1>5. mark \in Seq(Items) /\ Len(mark) \in Nat /\ \A k \in 1..Len(mark) : ~IsSegment(mark[k])
  <2>1. mark = <<Discontinuity>> \/ mark = <<>>
    BY <1>1
  <2>2. CASE mark = <<>>
    BY <2>2
  <2>3. CASE mark = <<Discontinuity>>
    <3>1. Discontinuity \in Items /\ ~IsSegment(Discontinuity)
      BY ItemTypes
    <3>2. mark \in Seq(Items) /\ Len(mark) = 1 /\ mark[1] = Discontinuity
      BY <2>3, <3>1
    <3> QED BY <3>1, <3>2
  <2> QED BY <2>1, <2>2, <2>3
<1>6. PICK e \in Seq(Items) : e = expected[p]
  BY DEF EncoderInv, EncoderTypes
<1>7. PICK h : h = e \o mark \o new
  OBVIOUS
<1>8. PICK base \in Nat : base = Len(e) + Len(mark)
  BY <1>5, <1>6
<1>9. /\ Len(h) = base + (n - i)
      /\ \A k \in 1..Len(e) : h[k] = e[k]
      /\ \A k \in 1..Len(mark) : h[Len(e) + k] = mark[k]
      /\ \A k \in 1..(n - i) : h[base + k] = new[k]
  <2>1. /\ Len(h) = Len(e) + Len(mark) + Len(new)
        /\ \A k \in 1..Len(e) : h[k] = e[k]
        /\ \A k \in 1..Len(mark) : h[Len(e) + k] = mark[k]
        /\ \A k \in 1..Len(new) : h[Len(e) + Len(mark) + k] = new[k]
    <3>1. new \in Seq(Items) /\ mark \in Seq(Items) /\ e \in Seq(Items)
      BY <1>4, <1>5
    <3> QED BY <1>7, <3>1, ConcatTwice
  <2>2. Len(new) = n - i
    BY <1>4
  <2>3. Len(e) + Len(mark) = base
    BY <1>8
  <2> HIDE <1>7
  <2> QED BY <2>1, <2>2, <2>3, Zenon
<1>10. /\ expected'[p] = h /\ copied'[p] = n /\ run' = run
       /\ \A q \in Playlists : q # p => expected'[q] = expected[q] /\ copied'[q] = copied[q]
  <2>1. /\ expected' = [expected EXCEPT ![p] = @ \o mark \o new]
        /\ copied' = [copied EXCEPT ![p] = n] /\ run' = run
    BY <1>1, <1>2 DEF Upload
  <2> QED BY <1>6, <1>7, <2>1 DEF EncoderInv, EncoderTypes
<1>11. ASSUME NEW j \in 1..Len(h), IsSegment(h[j])
       PROVE  \/ j \in 1..Len(e) /\ h[j] = e[j]
              \/ /\ j > Len(e) /\ j - base \in 1..(n - i)
                 /\ h[j] = Segment(<<p, run[p], i + (j - base) - 1>>)
  <2>1. Len(e) \in Nat /\ n - i \in Nat
    BY <1>3, <1>6
  <2>2. CASE j <= Len(e)
    BY <1>9, <2>1, <2>2
  <2>3. CASE j > Len(e) /\ j <= base
    <3>1. PICK k : k = j - Len(e)
      OBVIOUS
    <3>2. k \in 1..Len(mark) /\ j = Len(e) + k
      BY <1>5, <1>8, <2>1, <2>3, <3>1
    <3> QED BY <1>5, <1>9, <1>11, <3>2
  <2>4. CASE j > base
    <3>1. PICK k : k = j - base
      OBVIOUS
    <3>2. k \in 1..(n - i) /\ j = base + k /\ j > Len(e)
      BY <1>5, <1>8, <1>9, <2>1, <2>4, <3>1
    <3> QED BY <1>4, <1>9, <3>1, <3>2
  <2> QED BY <2>1, <2>2, <2>3, <2>4
<1>12. \A j \in 1..Len(e) : IsSegment(e[j]) =>
          /\ \E r, m \in Nat : /\ e[j] = Segment(<<p, r, m>>) /\ uploaded(p, r, m)
                               /\ r <= run[p] /\ (r = run[p] => m < copied[p])
          /\ \A k \in 1..Len(e) : e[k] = e[j] => k = j
  <2>1. \A r \in Nat, m \in Nat : uploaded(p, r, m) => r <= run[p] /\ (r = run[p] => m < copied[p])
    BY <1>3 DEF uploaded
  <2> QED BY <1>6, <2>1 DEF NamesInv
<1>13. ASSUME NEW q \in Playlists, NEW r \in Nat, NEW m \in Nat, uploaded(q, r, m)
       PROVE  uploaded(q, r, m)'
  BY <1>3, <1>10, <1>13 DEF uploaded
<1>14. ASSUME NEW j \in 1..Len(h), IsSegment(h[j])
       PROVE  /\ \E r, m \in Nat : h[j] = Segment(<<p, r, m>>) /\ uploaded(p, r, m)'
              /\ \A k \in 1..Len(h) : h[k] = h[j] => k = j
  <2>1. CASE j \in 1..Len(e) /\ h[j] = e[j]
    <3>1. PICK r \in Nat, m \in Nat :
            /\ e[j] = Segment(<<p, r, m>>) /\ uploaded(p, r, m)
            /\ r <= run[p] /\ (r = run[p] => m < copied[p])
      BY <1>12, <1>14, <2>1
    <3>2. ASSUME NEW k \in 1..Len(h), h[k] = h[j] PROVE k = j
      <4>1. CASE k \in 1..Len(e) /\ h[k] = e[k]
        BY <1>12, <1>14, <2>1, <3>2, <4>1
      <4>2. CASE k - base \in 1..(n - i) /\ h[k] = Segment(<<p, run[p], i + (k - base) - 1>>)
        <5>1. Segment(<<p, run[p], i + (k - base) - 1>>) = Segment(<<p, r, m>>)
          BY <2>1, <3>1, <3>2, <4>2
        <5>2. r = run[p] /\ m = i + (k - base) - 1
          BY <5>1 DEF Segment
        <5>3. PICK d \in 1..(n - i) : d = k - base
          BY <4>2
        <5>4. m = i + d - 1 /\ m < copied[p]
          BY <3>1, <5>2, <5>3
        <5> QED BY <1>3, <5>3, <5>4
      <4> QED BY <1>11, <1>14, <3>2, <4>1, <4>2
    <3>3. uploaded(p, r, m)'
      BY <1>13, <3>1
    <3> QED BY <2>1, <3>1, <3>2, <3>3
  <2>2. CASE j - base \in 1..(n - i) /\ h[j] = Segment(<<p, run[p], i + (j - base) - 1>>)
    <3>0. PICK d \in 1..(n - i) : d = j - base
      BY <2>2
    <3>4. i + d - 1 \in Nat /\ i + d - 1 < n /\ i + d - 1 >= copied[p]
      BY <1>3
    <3>1. PICK m \in Nat : m = i + (j - base) - 1 /\ m < n /\ m >= copied[p]
      BY <3>0, <3>4
    <3>6. PICK r \in Nat : r = run[p]
      BY <1>3
    <3>2. uploaded(p, r, m)'
      BY <1>10, <3>1, <3>6 DEF uploaded
    <3>3. ASSUME NEW k \in 1..Len(h), h[k] = h[j] PROVE k = j
      <4>1. CASE k \in 1..Len(e) /\ h[k] = e[k]
        <5>1. PICK s \in Nat, l \in Nat :
                e[k] = Segment(<<p, s, l>>) /\ (s = run[p] => l < copied[p])
          BY <1>12, <1>14, <3>3, <4>1
        <5>2. Segment(<<p, s, l>>) = Segment(<<p, run[p], m>>)
          BY <2>2, <3>1, <3>3, <4>1, <5>1
        <5>3. s = run[p] /\ l = m
          BY <5>2 DEF Segment
        <5>4. m < copied[p] /\ m >= copied[p]
          BY <3>1, <5>1, <5>3
        <5> QED BY <1>3, <5>4
      <4>2. CASE k - base \in 1..(n - i) /\ h[k] = Segment(<<p, run[p], i + (k - base) - 1>>)
        <5>1. Segment(<<p, run[p], i + (k - base) - 1>>)
                = Segment(<<p, run[p], i + (j - base) - 1>>)
          BY <2>2, <3>3, <4>2
        <5>2. i + (k - base) - 1 = i + (j - base) - 1
          BY <5>1 DEF Segment
        <5>3. j \in Int /\ k \in Int
          OBVIOUS
        <5> QED BY <1>3, <5>2, <5>3
      <4> QED BY <1>11, <1>14, <3>3, <4>1, <4>2
    <3>5. h[j] = Segment(<<p, r, m>>)
      BY <2>2, <3>1, <3>6
    <3> QED BY <3>2, <3>3, <3>5
  <2> QED BY <1>11, <1>14, <2>1, <2>2
<1>15. ASSUME NEW q \in Playlists, q # p, NEW j \in 1..Len(expected[q]), IsSegment(expected[q][j])
       PROVE  /\ \E r, m \in Nat : expected[q][j] = Segment(<<q, r, m>>) /\ uploaded(q, r, m)'
              /\ \A k \in 1..Len(expected[q]) : expected[q][k] = expected[q][j] => k = j
  BY <1>13, <1>15 DEF NamesInv
<1> QED
  <2> SUFFICES ASSUME NEW q \in Playlists, NEW j \in 1..Len(expected'[q]),
                      IsSegment(expected'[q][j])
               PROVE  /\ \E r, m \in Nat : /\ expected'[q][j] = Segment(<<q, r, m>>)
                                            /\ uploaded(q, r, m)'
                      /\ \A k \in 1..Len(expected'[q]) : expected'[q][k] = expected'[q][j] => k = j
    BY DEF NamesInv
  <2>1. CASE q = p
    BY <1>10, <1>14, <2>1
  <2>2. CASE q # p
    BY <1>10, <1>15, <2>2
  <2> QED BY <2>1, <2>2

\* No other step forgets what was uploaded.
LEMMA NamesNext ==
    ASSUME ~ReuseNames, TypeOK, EncoderInv, NamesInv, [EncoderNext]_allVars
    PROVE  NamesInv'
<1>1. ASSUME NEW p \in Playlists, LoseUpload(p) \/ Restart(p) PROVE NamesInv'
  <2>1. /\ expected' = expected
        /\ \A q \in Playlists : \/ run'[q] = run[q] /\ copied'[q] = copied[q]
                                \/ run'[q] = run[q] + 1
    BY <1>1 DEF LoseUpload, Restart, EncoderInv, EncoderTypes
  <2>2. \A q \in Playlists : run[q] \in Nat /\ copied[q] \in Nat
    BY BoundsAssumption DEF EncoderInv, EncoderTypes
  <2>3. ASSUME NEW q \in Playlists, NEW r \in Nat, NEW m \in Nat, uploaded(q, r, m)
        PROVE  uploaded(q, r, m)'
    <3>1. CASE run'[q] = run[q] /\ copied'[q] = copied[q]
      BY <2>3, <3>1 DEF uploaded
    <3>2. CASE run'[q] = run[q] + 1
      BY <2>2, <2>3, <3>2 DEF uploaded
    <3> QED BY <2>1, <3>1, <3>2
  <2> QED BY <2>1, <2>3 DEF NamesInv
<1>2. CASE UNCHANGED encoderVars
  BY <1>2 DEF encoderVars, NamesInv, uploaded
<1> QED BY <1>1, <1>2, UploadNames DEF EncoderNext, allVars

\* An output playlist lists the end of what has been appended to it, all of
\* which the encoder produced.
LEMMA ListedIsExpected ==
    ASSUME TypeOK, WindowInv, EncoderInv, NEW p \in Playlists
    PROVE  \E b \in Nat :
              /\ b + Len(output[p].Items) = Len(log[p])
              /\ \A i \in 1..Len(output[p].Items) :
                    /\ b + i \in 1..Len(expected[p])
                    /\ output[p].Items[i] = expected[p][b + i]
<1>1. PICK items \in Seq(Items), h \in Seq(Items), e \in Seq(Items) :
        items = output[p].Items /\ h = log[p] /\ e = expected[p]
  BY DEF TypeOK, LivePlaylists, EncoderInv, EncoderTypes
<1>2. PICK b : b = Len(h) - Len(items)
  OBVIOUS
<1>3. b \in Nat /\ \A i \in 1..Len(items) : items[i] = h[b + i]
  <2>1. Shows(output[p], log[p], Len(log[p]))
    BY DEF WindowInv
  <2> QED BY <1>1, <1>2, <2>1 DEF Shows, ShowsAt
<1>4. remaining(p) \in Nat
  <2>1. CASE ~mergingOf(p)
    BY <2>1 DEF remaining
  <2>2. CASE mergingOf(p)
    <3>1. /\ Len(job.source.Items) = lastSize[p] /\ lastIndex[p] <= lastSize[p]
          /\ job.index <= lastSize[p]
      BY <2>2 DEF EncoderInv, LastInv
    <3>2. lastSize[p] \in Nat /\ lastIndex[p] \in Int /\ job.index \in Nat
      BY DEF TypeOK, Jobs
    <3> QED BY <2>2, <3>1, <3>2 DEF remaining, position
  <2> QED BY <2>1, <2>2
<1>5. Len(e) = Len(h) + remaining(p) /\ \A i \in 1..Len(h) : e[i] = h[i]
  BY <1>1 DEF EncoderInv, LogInv
<1>6. Len(h) \in Nat /\ Len(items) \in Nat /\ b + Len(items) = Len(h) /\ Len(h) <= Len(e)
  BY <1>1, <1>2, <1>4, <1>5
<1>7. ASSUME NEW i \in 1..Len(items) PROVE b + i \in 1..Len(e) /\ items[i] = e[b + i]
  <2>1. b + i \in 1..Len(h)
    BY <1>3, <1>6
  <2>2. b + i \in 1..Len(e)
    BY <1>6, <2>1
  <2> QED BY <1>3, <1>5, <2>1, <2>2
<1> QED BY <1>1, <1>3, <1>6, <1>7

\* A name tells the variant it belongs to.
LEMMA NamedByVariant ==
    ASSUME NamesInv, NEW p \in Playlists, NEW k \in 1..Len(expected[p]), IsSegment(expected[p][k])
    PROVE  \E r, m : expected[p][k].name = <<p, r, m>>
<1>1. \A i \in 1..Len(expected[p]) :
        IsSegment(expected[p][i]) =>
            \E r, m \in Nat : expected[p][i] = Segment(<<p, r, m>>) /\ uploaded(p, r, m)
  BY Zenon DEF NamesInv
<1>2. PICK r \in Nat, m \in Nat : expected[p][k] = Segment(<<p, r, m>>)
  BY <1>1, Zenon
<1> QED BY <1>2 DEF Segment

\* Expiring what append pushed out expires nothing that is still listed,
\* because no name is listed twice.
LEMMA AppendedKeepsFiles ==
    ASSUME TypeOK, WindowInv, EncoderInv, NamesInv, ListedIsKept,
           NEW p \in Playlists, NEW item \in Items, NEW kept,
           output' = [output EXCEPT ![p] = append(output[p], item, Size)],
           files' = expireFile(kept, deleted(output[p], Size)),
           files \subseteq kept,
           IsSegment(item) => /\ SegmentPath(item.name) \in kept
                              /\ Len(log[p]) + 1 \in 1..Len(expected[p])
                              /\ expected[p][Len(log[p]) + 1] = item
    PROVE  ListedIsKept'
<1>1. PICK b \in Nat :
        /\ b + Len(output[p].Items) = Len(log[p])
        /\ \A i \in 1..Len(output[p].Items) :
              b + i \in 1..Len(expected[p]) /\ output[p].Items[i] = expected[p][b + i]
  BY ListedIsExpected
<1>2. PICK items \in Seq(Items), e \in Seq(Items) : items = output[p].Items /\ e = expected[p]
  BY DEF TypeOK, LivePlaylists, EncoderInv, EncoderTypes
<1>3. PICK new : new = append(output[p], item, Size).Items
  OBVIOUS
<1>4. output'[p].Items = new /\ \A q \in Playlists : q # p => output'[q] = output[q]
  BY <1>3 DEF TypeOK
<1>5. \A j, k \in 1..Len(e) : IsSegment(e[j]) /\ e[k] = e[j] => k = j
  BY <1>2 DEF NamesInv
<1>6. \A m : SegmentPath(m) \in files' <=>
         /\ SegmentPath(m) \in kept
         /\ \A d \in deleted(output[p], Size) : IsSegment(d) => d.name # m
  BY DEF expireFile, SegmentPath
<1>7. ASSUME NEW q \in Playlists, NEW i \in 1..Len(output[q].Items), IsSegment(output[q].Items[i])
      PROVE  SegmentPath(output[q].Items[i].name) \in kept
  BY <1>7 DEF ListedIsKept
<1>8. ASSUME NEW i \in 1..Len(new), IsSegment(new[i]) PROVE SegmentPath(new[i].name) \in files'
  <2>1. CASE Len(items) # Size
    <3>1. new = Append(items, item)
      <4>1. output[p] \in LivePlaylists
        BY DEF TypeOK
      <4> QED BY <1>2, <1>3, <2>1, <4>1 DEF append, LivePlaylists
    <3>2. deleted(output[p], Size) = {}
      BY <1>2, <2>1 DEF deleted
    <3>3. (i \in 1..Len(items) /\ new[i] = items[i]) \/ new[i] = item
      BY <3>1
    <3>4. SegmentPath(new[i].name) \in kept
      BY <1>2, <1>7, <1>8, <3>3
    <3> QED BY <1>6, <3>2, <3>4
  <2>2. CASE Len(items) = Size
    <3>1. items # <<>> /\ Len(items) \in Nat /\ Len(items) >= 1
      BY <2>2, SizeAssumption
    <3>2. new = Append(Tail(items), item)
      BY <1>2, <1>3, <2>2, Zenon DEF append
    <3>3. /\ Len(new) = Len(items) /\ new[Len(items)] = item
          /\ \A j \in 1..(Len(items) - 1) : new[j] = items[j + 1]
      BY <3>1, <3>2
    <3>4. deleted(output[p], Size) = {items[1]} /\ items[1] \in Items
      BY <1>2, <2>2, <3>1 DEF deleted
    <3>5. items[1] = e[b + 1] /\ b + 1 \in 1..Len(e)
      BY <1>1, <1>2, <3>1
    <3>6. /\ SegmentPath(new[i].name) \in kept /\ new[i] \in Items
          /\ \E k \in 1..Len(e) : k # b + 1 /\ new[i] = e[k]
      <4>1. CASE i = Len(items)
        <5>1. new[i] = item /\ IsSegment(item)
          BY <1>8, <3>3, <4>1
        <5>2. PICK k : k = Len(log[p]) + 1
          OBVIOUS
        <5>3. k = b + Len(items) + 1 /\ k # b + 1
          <6>1. b + Len(items) = Len(log[p])
            BY <1>1, <1>2
          <6>2. k = b + Len(items) + 1
            BY <5>2, <6>1
          <6> QED BY <3>1, <6>2
        <5>4. k \in 1..Len(e) /\ e[k] = item /\ SegmentPath(item.name) \in kept
          BY <1>2, <5>1, <5>2
        <5> QED BY <5>1, <5>3, <5>4
      <4>2. CASE i # Len(items)
        <5>1. i \in 1..(Len(items) - 1) /\ i + 1 \in 1..Len(items)
          BY <3>1, <3>3, <4>2
        <5>2. new[i] = items[i + 1] /\ items[i + 1] \in Items
          BY <3>3, <5>1
        <5>3. b + (i + 1) \in 1..Len(e) /\ items[i + 1] = e[b + (i + 1)] /\ b + (i + 1) # b + 1
          BY <1>1, <1>2, <5>1
        <5>4. SegmentPath(items[i + 1].name) \in kept
          BY <1>2, <1>7, <1>8, <5>1, <5>2
        <5> QED BY <5>2, <5>3, <5>4
      <4> QED BY <4>1, <4>2
    <3>7. ASSUME IsSegment(items[1]) PROVE items[1].name # new[i].name
      <4>1. items[1] = Segment(items[1].name) /\ new[i] = Segment(new[i].name)
        BY <1>8, <3>4, <3>6, <3>7, ItemTypes
      <4>2. items[1] # new[i]
        BY <1>5, <3>5, <3>6, <3>7
      <4> QED BY <4>1, <4>2
    <3> QED BY <1>6, <3>4, <3>6, <3>7
  <2> QED BY <2>1, <2>2
<1>9. ASSUME NEW q \in Playlists, q # p, NEW i \in 1..Len(output[q].Items),
             IsSegment(output[q].Items[i])
      PROVE  SegmentPath(output[q].Items[i].name) \in files'
  <2>1. PICK r, m : output[q].Items[i].name = <<q, r, m>>
    <3>1. PICK k \in 1..Len(expected[q]) : output[q].Items[i] = expected[q][k]
      BY <1>9, ListedIsExpected
    <3>2. IsSegment(expected[q][k])
      BY <1>9, <3>1
    <3> QED BY <3>1, <3>2, NamedByVariant
  <2>2. ASSUME NEW d \in deleted(output[p], Size), IsSegment(d)
        PROVE  d.name # output[q].Items[i].name
    <3>1. Len(items) = Size /\ d = Head(items)
      BY <1>2, <2>2 DEF deleted
    <3>2. 1 \in 1..Len(items) /\ d = items[1]
      BY <3>1, SizeAssumption
    <3>3. d = e[b + 1] /\ b + 1 \in 1..Len(e)
      BY <1>1, <1>2, <3>2
    <3>4. PICK k \in 1..Len(expected[p]) : d = expected[p][k] /\ IsSegment(expected[p][k])
      BY <1>2, <2>2, <3>3
    <3>5. PICK s, l : d.name = <<p, s, l>>
      BY <3>4, NamedByVariant
    <3> QED BY <1>9, <2>1, <3>5
  <2> QED BY <1>6, <1>7, <1>9, <2>2
<1> SUFFICES ASSUME NEW q \in Playlists, NEW i \in 1..Len(output'[q].Items),
                    IsSegment(output'[q].Items[i])
             PROVE  SegmentPath(output'[q].Items[i].name) \in files'
  BY DEF ListedIsKept
<1>10. CASE q = p
  BY <1>4, <1>8, <1>10
<1>11. CASE q # p
  BY <1>4, <1>9, <1>11
<1> QED BY <1>10, <1>11

\* Every step of the parser and of the encoders.
LEMMA KeptNext ==
    ASSUME TypeOK, WindowInv, EncoderInv, NamesInv, ListedIsKept, [EncoderNext]_allVars
    PROVE  ListedIsKept'
<1>1. ASSUME output' = output, files \subseteq files' PROVE ListedIsKept'
  BY <1>1 DEF ListedIsKept
<1>2. ASSUME NEW p \in Playlists, Upload(p) PROVE ListedIsKept'
  <2>1. PICK source : ParsePlaylist(p, source)
    BY <1>2 DEF Upload
  <2>2. CASE SequenceWentBackwards(p, source)
    <3>1. /\ output' = [output EXCEPT ![p] = append(output[p], Discontinuity, Size)]
          /\ files' = expireFile(files, deleted(output[p], Size))
      BY <2>1, <2>2 DEF ParsePlaylist, insertDiscontinuity, applyDiscontinuity
    <3> QED BY <3>1, ItemTypes, AppendedKeepsFiles
  <2>3. CASE ~SequenceWentBackwards(p, source)
    BY <1>1, <2>1, <2>3 DEF ParsePlaylist
  <2> QED BY <2>2, <2>3
<1>3. ASSUME NEW p \in Playlists, NEW index \in 0..MaxLog, CopySegment(p, index)
      PROVE  ListedIsKept'
  <2>1. PICK segment \in Items : segment = job.source.Items[index + 1]
    BY <1>3, MergeTypes DEF CopySegment
  <2>2. PICK kept : kept = keepFile(files, SegmentPath(segment.name))
    OBVIOUS
  <2>3. /\ output' = [output EXCEPT ![p] = append(output[p], segment, Size)]
        /\ files' = expireFile(kept, deleted(output[p], Size))
        /\ files \subseteq kept /\ SegmentPath(segment.name) \in kept
    BY <1>3, <2>1, <2>2 DEF CopySegment, keepFile
  <2>4. /\ mergingOf(p) /\ job.index = index /\ index < Len(job.source.Items)
        /\ index >= lastIndex[p] /\ index \in Nat
    BY <1>3 DEF CopySegment, merging, mergingOf
  <2>5. /\ lastIndex[p] \in Int /\ Len(job.source.Items) \in Nat /\ Len(log[p]) \in Nat
    BY <1>3, MergeTypes DEF CopySegment, TypeOK
  <2>6. position(p) = index /\ remaining(p) = Len(job.source.Items) - index
    BY <2>4, <2>5 DEF position, remaining
  <2>7. 1 \in 1..remaining(p) /\ remaining(p) \in Nat /\ remaining(p) >= 1
    BY <2>4, <2>5, <2>6
  <2>8. /\ Len(expected[p]) = Len(log[p]) + remaining(p)
        /\ expected[p][Len(log[p]) + 1] = job.source.Items[index + 1]
    <3>1. /\ Len(expected[p]) = Len(log[p]) + remaining(p)
          /\ \A k \in 1..remaining(p) :
                expected[p][Len(log[p]) + k] = job.source.Items[position(p) + k]
      BY <2>4 DEF EncoderInv, LogInv
    <3> QED BY <2>6, <2>7, <3>1
  <2>9. Len(log[p]) + 1 \in 1..Len(expected[p])
    BY <2>5, <2>7, <2>8
  <2> QED BY <2>1, <2>3, <2>8, <2>9, AppendedKeepsFiles
<1>4. ASSUME NEW p \in Playlists,
             \/ \E index \in 0..MaxLog : SkipItem(p, index)
             \/ writePlaylist(p) \/ writePlaylistFails(p) \/ LoseUpload(p) \/ Restart(p)
      PROVE  ListedIsKept'
  <2>1. output' = output /\ files \subseteq files'
    BY <1>4 DEF SkipItem, writePlaylist, writePlaylistFails, merged, keepFile, LoseUpload, Restart,
                variants, vars
  <2> QED BY <1>1, <2>1
<1>5. CASE UNCHANGED allVars
  BY <1>1, <1>5 DEF allVars, vars, variants
<1> QED BY <1>2, <1>3, <1>4, <1>5 DEF EncoderNext, MergeStep

\* No listed segment is left to expire as long as no two segments of a variant
\* share a name and merging is exact.
THEOREM ListedStayKept == ~ReuseNames /\ LateLosses /\ EncoderSpec => []ListedIsKept
<1>1. LateLosses /\ EncoderInit => EncoderInv
  BY EncoderInvInit
<1>2. TypeOK /\ EncoderInv /\ [EncoderNext]_allVars => EncoderInv'
  BY EncoderInvNext
<1>3. EncoderInit => NamesInv /\ ListedIsKept
  BY DEF EncoderInit, Init, NamesInv, ListedIsKept, newLivePlaylist
<1>4. ~ReuseNames /\ TypeOK /\ EncoderInv /\ NamesInv /\ [EncoderNext]_allVars => NamesInv'
  BY NamesNext
<1>5. TypeOK /\ WindowInv /\ EncoderInv /\ NamesInv /\ ListedIsKept /\ [EncoderNext]_allVars
        => ListedIsKept'
  BY KeptNext
<1>6. ASSUME ~ReuseNames PROVE LateLosses /\ EncoderSpec => []ListedIsKept
  <2>1. TypeOK /\ EncoderInv /\ NamesInv /\ [EncoderNext]_allVars => NamesInv'
    BY <1>4, <1>6
  <2> QED BY <1>1, <1>2, <1>3, <1>5, <2>1, EncodersAreUploads, TypeCorrect, WindowsStayRight,
             PTL DEF EncoderSpec
<1> QED BY <1>6
=============================================================================
