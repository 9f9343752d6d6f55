----------------------------- MODULE HLSEncoder -----------------------------
(***************************************************************************)
(* HLSParser fed by encoders, one per variant playlist.  An encoder is     *)
(* external (FFmpeg behind the upload-proxy): it numbers its segments from *)
(* zero, uploads after each one the playlist of its last Window segments,  *)
(* and starts over with nothing when it is restarted.  The proxy gives up  *)
(* on an upload that stays undeliverable, so a playlist may be lost.       *)
(***************************************************************************)
EXTENDS HLSParser

CONSTANTS
    Window,       \* segments in a source playlist
    MaxSegments,  \* bound: segments of one encoder run
    MaxRestarts,  \* bound: restarts of an encoder
    MaxLost,      \* bound: playlists of a variant that are lost
    LossFrom,     \* segments of a run before one of its playlists may be lost
    MinUploads,   \* segments uploaded before an encoder may be restarted
    ReuseNames    \* whether a restarted encoder names its segments as before

VARIABLES
    run,          \* restarts so far
    segments,     \* segments the current run has produced
    lost,         \* lost playlists
    copied,       \* history: segments of this run up to the last merged list
    merges,       \* history: playlists of this run that were merged
    expected      \* history: what the output should have listed in total

encoderVars == <<run, segments, lost, copied, merges, expected>>
allVars == <<vars, encoderVars>>

SegmentName(p, r, n) == IF ReuseNames THEN <<p, n>> ELSE <<p, r, n>>

EncoderNames ==
    {SegmentName(p, r, n) : p \in Playlists, r \in 0..MaxRestarts, n \in 0..MaxSegments}

\* Segments i..n-1 of a run, as playlist items.
SegmentRange(p, r, i, n) ==
    [k \in 1..(n - i) |-> Segment(SegmentName(p, r, i + k - 1))]

\* The playlist an encoder uploads when its run has n segments.
SourcePlaylist(p, r, n) ==
    LET first == IF n > Window THEN n - Window ELSE 0
    IN  [Sequence |-> first, Items |-> SegmentRange(p, r, first, n)]

EncoderSources ==
    {SourcePlaylist(p, r, n) :
        p \in Playlists, r \in 0..MaxRestarts, n \in 0..MaxSegments}

ASSUME BoundsAssumption ==
    /\ Window \in Nat \ {0}
    /\ {MaxSegments, MaxRestarts, MaxLost, LossFrom, MinUploads} \subseteq Nat
ASSUME EncodersAssumption == EncoderNames \subseteq Names /\ EncoderSources \subseteq Sources

EncoderInit ==
    /\ Init
    /\ run = [p \in Playlists |-> 0]
    /\ segments = [p \in Playlists |-> 0]
    /\ lost = [p \in Playlists |-> 0]
    /\ copied = [p \in Playlists |-> 0]
    /\ merges = [p \in Playlists |-> 0]
    /\ expected = [p \in Playlists |-> <<>>]

\* The encoder finishes a segment and its playlist reaches the upload-server.
Upload(p) ==
    LET n == segments[p] + 1
        source == SourcePlaylist(p, run[p], n)
        new == SegmentRange(p, run[p],
                   IF copied[p] > source.Sequence THEN copied[p] ELSE source.Sequence, n)
        restarted == run[p] > 0 /\ merges[p] = 0
    IN  /\ n <= MaxSegments
        /\ ParsePlaylist(p, source)
        /\ segments' = [segments EXCEPT ![p] = n]
        /\ copied' = [copied EXCEPT ![p] = n]
        /\ merges' = [merges EXCEPT ![p] = @ + 1]
        /\ expected' = [expected EXCEPT ![p] =
                @ \o (IF restarted THEN <<Discontinuity>> ELSE <<>>) \o new]
        /\ UNCHANGED <<run, lost>>

\* The playlist upload after a segment is dropped on the way.
LoseUpload(p) ==
    /\ segments[p] \in LossFrom..(MaxSegments - 1)
    /\ lost[p] < MaxLost
    /\ segments' = [segments EXCEPT ![p] = @ + 1]
    /\ lost' = [lost EXCEPT ![p] = @ + 1]
    /\ UNCHANGED <<vars, run, copied, merges, expected>>

Restart(p) ==
    /\ run[p] < MaxRestarts
    /\ merges[p] >= MinUploads
    /\ run' = [run EXCEPT ![p] = @ + 1]
    /\ segments' = [segments EXCEPT ![p] = 0]
    /\ copied' = [copied EXCEPT ![p] = 0]
    /\ merges' = [merges EXCEPT ![p] = 0]
    /\ UNCHANGED <<vars, lost, expected>>

EncoderNext ==
    \/ \E p \in Playlists : Upload(p) \/ LoseUpload(p) \/ Restart(p)
    \/ MergeStep /\ UNCHANGED encoderVars

EncoderSpec == EncoderInit /\ [][EncoderNext]_allVars

-----------------------------------------------------------------------------
\* Merging copies the new segments of every source playlist and nothing else:
\* between two merges, everything an encoder produced is listed exactly once
\* and in order, with one discontinuity where a run ended (checkDiscontinuity
\* and appendItems).
OnlyNewSegments ==
    job.pc = "idle" => log = expected

\* A segment an output playlist lists is still kept by the registry.
ListedIsKept ==
    \A p \in Playlists : \A i \in 1..Len(output[p].Items) :
        LET item == output[p].Items[i]
        IN  IsSegment(item) => SegmentPath(item.name) \in files
=============================================================================
