---------------------------- MODULE MediaPlaylist ---------------------------
(***************************************************************************)
(* What HLSParser promises to players, as RFC 8216 asks it of a live media *)
(* playlist: items are only ever appended, and a playlist file shows the   *)
(* last of them, numbered by all that came before.  Uploads, encoders,     *)
(* merging, locks and errors are not part of the promise.  HLSParser       *)
(* implements this specification.                                          *)
(***************************************************************************)
EXTENDS LivePlaylist

CONSTANTS Playlists, Size

VARIABLES
    log,    \* every item of a playlist so far
    disk    \* the playlist files

playlistVars == <<log, disk>>

\* How many items of a history have left the window.
before(h) == IF Len(h) > Size THEN Len(h) - Size ELSE 0

\* The playlist of a history: its last Size items, and the counts before them.
window(h) ==
    [Sequence |-> Cardinality(SegmentsUpTo(h, before(h))),
     DiscontinuitySequence |-> Cardinality(TagsUpTo(h, before(h))),
     Items |-> SubSeq(h, before(h) + 1, Len(h))]

Init ==
    /\ log = [p \in Playlists |-> <<>>]
    /\ disk = [p \in Playlists |-> window(<<>>)]

Extend(p, item) ==
    /\ log' = [log EXCEPT ![p] = Append(@, item)]
    /\ UNCHANGED disk

Publish(p) ==
    /\ disk' = [disk EXCEPT ![p] = window(log[p])]
    /\ UNCHANGED log

Next == \E p \in Playlists : Publish(p) \/ \E item \in Items : Extend(p, item)

Spec == Init /\ [][Next]_playlistVars
=============================================================================
