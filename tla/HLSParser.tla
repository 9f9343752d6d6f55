----------------------------- MODULE HLSParser ------------------------------
(***************************************************************************)
(* upload/hls.go `HLSParser`: one per live stream.  Every uploaded variant *)
(* playlist is merged into a live output playlist that is written to disk, *)
(* and the segments it lists are kept from expiring by the file registry.  *)
(*                                                                         *)
(* ParsePlaylist holds h.mutex while it merges, but each keepFile inside   *)
(* it sends to the registry and may wait, so the merge is several steps:   *)
(* take the lock and check for a discontinuity, one step per source item,  *)
(* write and unlock.  Uploads waiting for the lock get it in any order:    *)
(* the next one merged is any member of Sources.                           *)
(***************************************************************************)
EXTENDS LivePlaylist

CONSTANTS
    Playlists,   \* variant playlist names of the stream
    Size,        \* PlaylistConfig.Size
    Sources,     \* source playlists that may be uploaded
    MaxLog       \* bound: items ever appended to one output playlist

ASSUME SizeAssumption    == Size \in Nat \ {0}
SourcePlaylists == [Sequence: Nat, Items: Seq(Items)]

ASSUME SourcesAssumption == Sources \subseteq SourcePlaylists

VARIABLES
    \* VariantPlaylist, by name.  A variant is created by its first upload
    \* with the values it has here initially.
    lastIndex, lastSize, lastSequence, output,
    files,       \* h.files: the paths whose keep channel is open
    job,         \* the ParsePlaylist call that holds h.mutex
    disk,        \* the playlist files
    log,         \* history: every item ever appended to an output playlist
    written      \* history: Len(log[p]) when disk[p] was written

variants == <<lastIndex, lastSize, lastSequence, output, log>>
vars == <<variants, files, job, disk, written>>

\* filepath.Join(h.basePath, name): keepFile and expireFile take names of
\* segments, but writePlaylist passes the path it has already joined.
SegmentPath(n) == <<"segment", n>>
NestedPath(p)  == <<"nested playlist", p>>
Paths == {SegmentPath(n) : n \in Names} \cup {NestedPath(p) : p \in Playlists}

SegmentSize(items) == Cardinality(SegmentsUpTo(items, Len(items)))

Jobs == [pc: {"idle", "append"}, playlist: Playlists \cup {NoName},
         source: SourcePlaylists, index: Nat]

idle == [pc |-> "idle", playlist |-> NoName,
         source |-> [Sequence |-> 0, Items |-> <<>>], index |-> 0]

Init ==
    /\ lastIndex = [p \in Playlists |-> 0]
    /\ lastSize = [p \in Playlists |-> 0]
    /\ lastSequence = [p \in Playlists |-> 0]
    /\ output = [p \in Playlists |-> newLivePlaylist]
    /\ files = {}
    /\ job = idle
    /\ disk = [p \in Playlists |-> newLivePlaylist]
    /\ log = [p \in Playlists |-> <<>>]
    /\ written = [p \in Playlists |-> 0]

(***************************************************************************)
(* The file registry calls.                                                *)
(***************************************************************************)
\* Mutant of keepFile: the channel is not recorded.
keepNothing(tracked, path) == tracked

keepFile(tracked, path) == tracked \cup {path}

\* Mutant of expireFile: the channel of a dropped segment is never closed.
expireNothing(tracked, gone) == tracked

\* Close the channels of the segments among the items just removed.
expireFile(tracked, gone) ==
    tracked \ {SegmentPath(item.name) : item \in {i \in gone : IsSegment(i)}}

(***************************************************************************)
(* ParsePlaylist up to the merge loop: take h.mutex, checkDiscontinuity.   *)
(***************************************************************************)
SequenceWentBackwards(p, source) ==
    source.Sequence + SegmentSize(source.Items) < lastSequence[p] + lastSize[p]

\* Mutant of skippedItems: a restart does not start over at the first item.
skippedItemsKept(p, source) ==
    LET diff == lastSequence[p] - source.Sequence
                + SegmentSize(source.Items) - lastSize[p]
    IN  IF diff < 0 THEN lastIndex[p] + diff ELSE lastIndex[p]

\* v.lastIndex after checkDiscontinuity: the items before it are not copied.
skippedItems(p, source) ==
    LET diff == lastSequence[p] - source.Sequence
                + SegmentSize(source.Items) - lastSize[p]
    IN  IF SequenceWentBackwards(p, source) THEN 0
        ELSE IF diff < 0 THEN lastIndex[p] + diff ELSE lastIndex[p]

insertDiscontinuity(p) ==
    /\ output' = [output EXCEPT ![p] = applyDiscontinuity(output[p], Size)]
    /\ files' = expireFile(files, deleted(output[p], Size))
    /\ log' = [log EXCEPT ![p] = Append(log[p], Discontinuity)]

\* The lock is free.
ParsePlaylist(p, source) ==
    /\ job.pc = "idle"
    /\ Len(log[p]) + Len(source.Items) < MaxLog
    /\ IF SequenceWentBackwards(p, source)
       THEN insertDiscontinuity(p)
       ELSE UNCHANGED <<output, files, log>>
    /\ lastIndex' = [lastIndex EXCEPT ![p] = skippedItems(p, source)]
    /\ lastSequence' = [lastSequence EXCEPT ![p] = source.Sequence]
    /\ lastSize' = [lastSize EXCEPT ![p] = SegmentSize(source.Items)]
    /\ job' = [pc |-> "append", playlist |-> p, source |-> source, index |-> 0]
    /\ UNCHANGED <<disk, written>>

(***************************************************************************)
(* appendItems: one iteration, for the item at job.index.                  *)
(***************************************************************************)
merging(p, index) ==
    /\ job.pc = "append"
    /\ job.playlist = p
    /\ job.index = index

SkipItem(p, index) ==
    /\ merging(p, index)
    /\ index < Len(job.source.Items)
    /\ \/ ~IsSegment(job.source.Items[index + 1])
       \/ index < lastIndex[p]
    /\ job' = [job EXCEPT !.index = index + 1]
    /\ UNCHANGED <<variants, files, disk, written>>

CopySegment(p, index) ==
    /\ merging(p, index)
    /\ index < Len(job.source.Items)
    /\ index >= lastIndex[p]
    /\ LET segment == job.source.Items[index + 1]
       IN  /\ IsSegment(segment)
           /\ files' = expireFile(keepFile(files, SegmentPath(segment.name)),
                                  deleted(output[p], Size))
           /\ output' = [output EXCEPT ![p] = append(output[p], segment, Size)]
           /\ log' = [log EXCEPT ![p] = Append(log[p], segment)]
    /\ job' = [job EXCEPT !.index = index + 1]
    /\ UNCHANGED <<lastIndex, lastSize, lastSequence, disk, written>>

(***************************************************************************)
(* The end of appendItems, writePlaylist and the unlock.                   *)
(***************************************************************************)
merged(p) ==
    /\ merging(p, Len(job.source.Items))
    /\ lastIndex' = [lastIndex EXCEPT ![p] = Len(job.source.Items)]
    /\ job' = idle
    /\ UNCHANGED <<lastSize, lastSequence, output, log>>

writePlaylist(p) ==
    /\ merged(p)
    /\ disk' = [disk EXCEPT ![p] = output[p]]
    /\ written' = [written EXCEPT ![p] = Len(log[p])]
    /\ files' = keepFile(files, NestedPath(p))

\* WriteFile returns an error: the upload fails after the merge.
writePlaylistFails(p) ==
    /\ merged(p)
    /\ UNCHANGED <<disk, written, files>>

MergeStep ==
    \E p \in Playlists :
        \/ \E index \in 0..MaxLog : SkipItem(p, index) \/ CopySegment(p, index)
        \/ writePlaylist(p)
        \/ writePlaylistFails(p)

Next ==
    \/ \E p \in Playlists, source \in Sources : ParsePlaylist(p, source)
    \/ MergeStep

Spec == Init /\ [][Next]_vars

-----------------------------------------------------------------------------
\* Every variable has the type of the Go field it stands for.
TypeOK ==
    /\ lastIndex \in [Playlists -> Int]
    /\ lastSize \in [Playlists -> Nat]
    /\ lastSequence \in [Playlists -> Nat]
    /\ output \in [Playlists -> LivePlaylists]
    /\ files \subseteq Paths
    /\ job \in Jobs
    /\ disk \in [Playlists -> LivePlaylists]
    /\ log \in [Playlists -> Seq(Items)]
    /\ written \in [Playlists -> Nat]

\* lp shows the last items of the first n items of the history h, and a
\* player numbers each of them by the segments and tags ever before it.
Numbered(lp, h, n) ==
    LET base == n - Len(lp.Items)
    IN  /\ 0 <= base
        /\ n <= Len(h)
        /\ \A i \in 1..Len(lp.Items) :
              /\ lp.Items[i] = h[base + i]
              /\ MediaSequence(lp, i)
                    = Cardinality(SegmentsUpTo(h, base + i - 1))
              /\ DiscontinuityNumber(lp, i)
                    = Cardinality(TagsUpTo(h, base + i - 1))

\* Whatever is uploaded, in whatever order (growing, shrinking, repeated or
\* restarted source playlists), a player that reloads the playlist file gives
\* an item the same media sequence and discontinuity number every time: the
\* position the item has among everything LivePlaylist.append ever appended.
StableNumbering ==
    \A p \in Playlists :
        /\ Numbered(output[p], log[p], Len(log[p]))
        /\ Numbered(disk[p], log[p], written[p])

\* A segment file that HLSParser still keeps from expiring is listed in an
\* output playlist: each segment that append or applyDiscontinuity pushes out
\* has been handed to expireFile, so the stream's disk use is bounded.
TrackedIsListed ==
    \A n \in Names :
        SegmentPath(n) \in files =>
            \E p \in Playlists : \E i \in 1..Len(output[p].Items) :
                output[p].Items[i] = Segment(n)

\* A rewritten playlist file never takes back what a player has seen: neither
\* sequence number decreases, and the list never ends before its old end.
NeverRewinds ==
    [][\A p \in Playlists :
          /\ disk'[p].Sequence >= disk[p].Sequence
          /\ disk'[p].DiscontinuitySequence >= disk[p].DiscontinuitySequence
          /\ disk'[p].Sequence + SegmentSize(disk'[p].Items)
                >= disk[p].Sequence + SegmentSize(disk[p].Items)]_vars
=============================================================================
