---------------------------- MODULE LivePlaylist ----------------------------
(***************************************************************************)
(* The output playlist of one HLS variant, upload/hls.go `LivePlaylist`:   *)
(* a window of at most `size` items with the two counters an HLS player    *)
(* numbers the items by.  A segment is identified by its file name; every  *)
(* other tag of a playlist is an item without a name.                      *)
(***************************************************************************)
EXTENDS Integers, Sequences, FiniteSets

CONSTANTS
    Names,   \* segment file names
    NoName   \* the name field of an item that is not a segment

ASSUME NamesAssumption == NoName \notin Names

Segment(n)    == [kind |-> "segment", name |-> n]
Discontinuity == [kind |-> "discontinuity", name |-> NoName]

Items == [kind: {"segment"}, name: Names] \cup {Discontinuity}

IsSegment(item) == item.kind = "segment"

\* Positions up to i of a sequence of items that hold a segment, or do not.
SegmentsUpTo(items, i) == {j \in 1..i : IsSegment(items[j])}
TagsUpTo(items, i)     == {j \in 1..i : ~IsSegment(items[j])}

LivePlaylists == [Sequence: Nat, DiscontinuitySequence: Nat, Items: Seq(Items)]

newLivePlaylist == [Sequence |-> 0, DiscontinuitySequence |-> 0, Items |-> <<>>]

\* The item `append` removes to make room: none until the window is full.
deleted(lp, size) == IF Len(lp.Items) = size THEN {Head(lp.Items)} ELSE {}

\* Mutant of append: the window slides without counting what it drops.
appendUncounted(lp, item, size) ==
    IF Len(lp.Items) = size
    THEN [lp EXCEPT !.Items = Append(Tail(lp.Items), item)]
    ELSE [lp EXCEPT !.Items = Append(lp.Items, item)]

append(lp, item, size) ==
    IF Len(lp.Items) = size
    THEN [Sequence |->
              IF IsSegment(Head(lp.Items)) THEN lp.Sequence + 1 ELSE lp.Sequence,
          DiscontinuitySequence |->
              IF IsSegment(Head(lp.Items)) THEN lp.DiscontinuitySequence
                                           ELSE lp.DiscontinuitySequence + 1,
          Items |-> Append(Tail(lp.Items), item)]
    ELSE [lp EXCEPT !.Items = Append(lp.Items, item)]

\* Mutant of applyDiscontinuity: an encoder restart starts a new playlist.
startOver(lp, size) == append(newLivePlaylist, Discontinuity, size)

applyDiscontinuity(lp, size) == append(lp, Discontinuity, size)

(***************************************************************************)
(* How an HLS player numbers the i-th item of a playlist: media sequence   *)
(* and discontinuity sequence of the header plus what precedes the item.   *)
(***************************************************************************)
MediaSequence(lp, i) ==
    lp.Sequence + Cardinality(SegmentsUpTo(lp.Items, i - 1))
DiscontinuityNumber(lp, i) ==
    lp.DiscontinuitySequence + Cardinality(TagsUpTo(lp.Items, i - 1))
=============================================================================
