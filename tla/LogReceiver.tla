----------------------------- MODULE LogReceiver ----------------------------
(***************************************************************************)
(* logreceiver/parser.go and logreceiver/hls.go: viewers are counted from  *)
(* the relay's access log.  One goroutine reads log lines, a ticker        *)
(* expires streams and starts fetches of their master playlists, every     *)
(* fetch runs on its own and may be slow, and scrapes count at any time.   *)
(*                                                                         *)
(* Lines that are not a GET of a segment below /hls/ or /hlsll/ change     *)
(* nothing and are left out.  A quality is its name, without resolution or *)
(* language; audio names are those a master playlist lists as MediaItem.   *)
(***************************************************************************)
EXTENDS Integers, Sequences, FiniteSets, SequencesExt

CONSTANTS
    Users,          \* UserId
    StreamSlugs,
    Transports,     \* StreamTransport
    Names,          \* qualities
    Audio,          \* the names that are audio qualities
    Masters,        \* the master playlists: sets of names
    SlidingWindow,  \* ParserConfig.SlidingWindow
    MinSegments,    \* ParserConfig.MinSegments
    StreamTimeout,  \* ParserConfig.StreamTimeout
    TickInterval,   \* 5 seconds between updates of the playlists
    CountInterval,  \* 3 seconds between counts
    NoStream,
    NoLine,
    NoPlaylist,     \* the relay does not answer with a master playlist
    Started,        \* a fetch the relay has not answered yet
    MaxSegments,    \* bound: segments of a user
    MaxFetches,     \* bound: fetches of a stream at one time
    MaxRewrites     \* bound: changes of the master playlists

ASSUME TimesAssumption ==
    /\ {SlidingWindow, MinSegments, StreamTimeout, CountInterval, MaxSegments} \subseteq Nat
    /\ TickInterval \in Nat \ {0}
ASSUME NamesAssumption == Audio \subseteq Names /\ Masters \subseteq SUBSET Names

VARIABLES
    streams,    \* h.streams, with the time since lastUsed
    fetches,    \* updateMasterPlaylist of the slug's stream: what they have read
    line,       \* the log line between GetQuality's two locks
    segments,   \* p.segments, each with its age
    viewers,    \* p.viewers
    sinceCount, \* time since p.lastCount
    timer, tick,\* time to the next tick, and whether one waits
    master,     \* the master playlist the relay serves for a slug
    rewrites,   \* changes of it so far
    log         \* history: all segments added that the window covers

receiverVars == <<streams, fetches, line, segments, viewers, sinceCount, timer, tick,
                  master, rewrites, log>>

StreamIds == StreamSlugs \X Transports \X Names
HLSStreams == [transport: Transports, qualities: SUBSET Names, idle: 0..(StreamTimeout + 1)]
Playlists == Masters \cup {NoPlaylist}

ASSUME UsersAssumption == IsFiniteSet(Users)
ASSUME NoStreamAssumption == NoStream \notin HLSStreams

ReceiverInit ==
    /\ streams = [s \in StreamSlugs |-> NoStream]
    /\ fetches = [s \in StreamSlugs |-> <<>>]
    /\ line = NoLine
    /\ segments = [u \in Users |-> <<>>]
    /\ viewers = [i \in StreamIds |-> 0]
    /\ sinceCount = CountInterval + 1
    /\ timer = TickInterval
    /\ tick = FALSE
    /\ master \in [StreamSlugs \X Transports -> Playlists]
    /\ rewrites = 0
    /\ log = segments

(***************************************************************************)
(* The goroutine that reads the log: parseEntry and GetQuality.            *)
(***************************************************************************)
\* A segment of a stream that is not in the map only adds the stream.
addStream(s, t) ==
    /\ line = NoLine
    /\ streams[s] = NoStream
    /\ streams' = [streams EXCEPT ![s] = [transport |-> t, qualities |-> {}, idle |-> 0]]
    /\ UNCHANGED <<fetches, line, segments, viewers, sinceCount, timer, tick,
                   master, rewrites, log>>

\* The stream is found; it may leave the map before its mutex is taken, and
\* the line goes on with what the stream was.
FindStream(u, s, n) ==
    /\ line = NoLine
    /\ streams[s] # NoStream
    /\ Len(segments[u]) < MaxSegments
    /\ line' = [user |-> u, slug |-> s, name |-> n, gone |-> NoStream]
    /\ UNCHANGED <<streams, fetches, segments, viewers, sinceCount, timer, tick,
                   master, rewrites, log>>

found == IF line.gone = NoStream THEN streams[line.slug] ELSE line.gone

\* addSegment, if the stream has the quality.
added(segs) ==
    IF line.name \in found.qualities
    THEN [segs EXCEPT ![line.user] =
            Append(@, [age |-> 0, id |-> <<line.slug, found.transport, line.name>>])]
    ELSE segs

GetQuality ==
    /\ line # NoLine
    /\ streams' = IF line.gone = NoStream THEN [streams EXCEPT ![line.slug].idle = 0]
                                          ELSE streams
    /\ segments' = added(segments)
    /\ log' = added(log)
    /\ line' = NoLine
    /\ UNCHANGED <<fetches, viewers, sinceCount, timer, tick, master, rewrites>>

(***************************************************************************)
(* updatePlaylists, and the fetches it starts.                             *)
(***************************************************************************)
known == {s \in StreamSlugs : streams[s] # NoStream}
expired == {s \in known : streams[s].idle > StreamTimeout}

\* Mutant of started: continue is missing, an expired stream is fetched too.
startedAll(s) == s \in known

\* Mutant of started: only a stream without qualities is fetched.
startedOnce(s) == s \in known \ expired /\ streams[s].qualities = {}

started(s) == s \in known \ expired

\* A stream that leaves the map as the line that has found it may see it: one of
\* its fetches may be done first.
leaving(s) ==
    {[streams[s] EXCEPT !.qualities = q] : q \in {streams[s].qualities} \cup
        {q \in Masters : \E i \in DOMAIN fetches[s] : fetches[s][i] \in {q, Started}}}

\* A fetch writes to the stream it was started for: when that leaves the map
\* only such a line sees what its fetches do.
UpdatePlaylists ==
    /\ tick
    /\ tick' = FALSE
    /\ \A s \in StreamSlugs : started(s) => Len(fetches[s]) < MaxFetches
    /\ streams' = [s \in StreamSlugs |-> IF s \in expired THEN NoStream ELSE streams[s]]
    /\ fetches' = [s \in StreamSlugs |->
                     IF started(s) THEN Append(fetches[s], Started) ELSE <<>>]
    /\ IF line # NoLine /\ line.slug \in expired /\ line.gone = NoStream
       THEN \E stream \in leaving(line.slug) : line' = [line EXCEPT !.gone = stream]
       ELSE line' = line
    /\ UNCHANGED <<segments, viewers, sinceCount, timer, master, rewrites, log>>

\* The relay answers fetchPlaylist.
Fetch(s, i) ==
    /\ i \in DOMAIN fetches[s]
    /\ fetches[s][i] = Started
    /\ fetches' = [fetches EXCEPT ![s][i] = master[<<s, streams[s].transport>>]]
    /\ UNCHANGED <<streams, line, segments, viewers, sinceCount, timer, tick,
                   master, rewrites, log>>

\* An error, or a playlist that is no master playlist, changes nothing.
read(s, playlist) == IF playlist = NoPlaylist THEN streams[s].qualities ELSE playlist

updateMasterPlaylist(s, i) ==
    /\ i \in DOMAIN fetches[s]
    /\ fetches[s][i] # Started
    /\ streams' = [streams EXCEPT ![s].qualities = read(s, fetches[s][i])]
    /\ fetches' = [fetches EXCEPT ![s] = RemoveAt(@, i)]
    /\ UNCHANGED <<line, segments, viewers, sinceCount, timer, tick, master, rewrites, log>>

(***************************************************************************)
(* Collect and count.                                                      *)
(***************************************************************************)
\* Mutant of outdated: segments go when they are as old as the window.
outdatedEarly(segment) == segment.age >= SlidingWindow

outdated(segment) == segment.age > SlidingWindow

\* slices.Delete up to the last outdated segment.
trimmed(segs) ==
    SubSeq(segs, Max({0} \cup {k \in DOMAIN segs : outdated(segs[k])}) + 1, Len(segs))

\* videoStreams and audioStreams: the segments of each that are not outdated.
watched(segs, ids) ==
    [i \in ids |-> Cardinality({k \in DOMAIN segs : segs[k].id = i /\ ~outdated(segs[k])})]

\* maxQuality: nothing, or whichever of the most watched the map yields first.
maxQuality(count) ==
    LET top == {i \in DOMAIN count : \A j \in DOMAIN count : count[j] <= count[i]}
        enough == {i \in top : count[i] > MinSegments}
    IN IF enough = {} THEN {<<>>} ELSE enough

AudioIds == {i \in StreamIds : i[3] \in Audio}
VideoIds == StreamIds \ AudioIds

\* What count() may find: a video and an audio stream, or neither, per user.
Picks == [Users -> (VideoIds \cup {<<>>}) \X (AudioIds \cup {<<>>})]
tally(choice) ==
    [i \in StreamIds |-> Cardinality({u \in Users : i \in {choice[u][1], choice[u][2]}})]

Collect ==
    /\ sinceCount > CountInterval
    /\ sinceCount' = 0
    /\ segments' = [u \in Users |-> trimmed(segments[u])]
    /\ \E choice \in Picks :
          /\ \A u \in Users :
                /\ choice[u][1] \in maxQuality(watched(segments[u], VideoIds))
                /\ choice[u][2] \in maxQuality(watched(segments[u], AudioIds))
          /\ viewers' = tally(choice)
    /\ UNCHANGED <<streams, fetches, line, timer, tick, master, rewrites, log>>

(***************************************************************************)
(* The relay and the clock.                                                *)
(***************************************************************************)
ChangeMaster(s, t) ==
    /\ rewrites < MaxRewrites
    /\ rewrites' = rewrites + 1
    /\ \E playlist \in Playlists : master' = [master EXCEPT ![<<s, t>>] = playlist]
    /\ UNCHANGED <<streams, fetches, line, segments, viewers, sinceCount, timer, tick, log>>

older(segs) ==
    [k \in DOMAIN segs |-> [segs[k] EXCEPT !.age = IF @ > SlidingWindow THEN @ ELSE @ + 1]]

\* The segments the window covers, in their order: SelectSeq, by positions.
covered(segs) ==
    LET kept == {k \in DOMAIN segs : segs[k].age <= SlidingWindow}
        nth(j) == CHOOSE k \in kept : Cardinality({i \in kept : i < k}) = j - 1
    IN  [j \in 1..Cardinality(kept) |-> segs[nth(j)]]

\* Goroutines run within a unit of time; fetches may take longer.
Advance ==
    /\ ~tick
    /\ line = NoLine
    /\ timer' = IF timer = 1 THEN TickInterval ELSE timer - 1
    /\ tick' = (timer = 1)
    /\ streams' = [s \in StreamSlugs |->
          IF s \in known
          THEN [streams[s] EXCEPT !.idle = IF @ > StreamTimeout THEN @ ELSE @ + 1]
          ELSE NoStream]
    /\ segments' = [u \in Users |-> older(segments[u])]
    /\ log' = [u \in Users |-> covered(older(log[u]))]
    /\ sinceCount' = IF sinceCount > CountInterval THEN sinceCount ELSE sinceCount + 1
    /\ UNCHANGED <<fetches, line, viewers, master, rewrites>>

ReceiverNext ==
    \/ \E s \in StreamSlugs, t \in Transports : addStream(s, t) \/ ChangeMaster(s, t)
    \/ \E u \in Users, s \in StreamSlugs, n \in Names : FindStream(u, s, n)
    \/ GetQuality \/ UpdatePlaylists \/ Collect \/ Advance
    \/ \E s \in StreamSlugs, i \in 1..MaxFetches : Fetch(s, i) \/ updateMasterPlaylist(s, i)

\* The goroutines run, time passes, and the relay answers every fetch.
ReceiverFairness ==
    /\ WF_receiverVars(GetQuality) /\ WF_receiverVars(UpdatePlaylists) /\ SF_receiverVars(Advance)
    /\ \A s \in StreamSlugs, i \in 1..MaxFetches :
          WF_receiverVars(Fetch(s, i)) /\ WF_receiverVars(updateMasterPlaylist(s, i))

ReceiverSpec == ReceiverInit /\ [][ReceiverNext]_receiverVars
FairReceiverSpec == ReceiverSpec /\ ReceiverFairness

-----------------------------------------------------------------------------
Segments == [age: 0..(SlidingWindow + 1), id: StreamIds]
SegmentLists == UNION {[1..n -> Segments] : n \in 0..MaxSegments}
Lines ==
    [user: Users, slug: StreamSlugs, name: Names, gone: HLSStreams \cup {NoStream}]

\* Every variable has the type of the Go field it stands for; a stream has
\* fetches only while it is in the map, and a line in progress has a stream.
ReceiverTypeOK ==
    /\ streams \in [StreamSlugs -> HLSStreams \cup {NoStream}]
    /\ fetches \in [StreamSlugs -> Seq(Playlists \cup {Started})]
    /\ \A s \in StreamSlugs : fetches[s] # <<>> => s \in known
    /\ line \in Lines \cup {NoLine}
    /\ line # NoLine => line.gone # NoStream \/ line.slug \in known
    /\ {segments, log} \subseteq [Users -> SegmentLists]
    /\ viewers \in [StreamIds -> 0..Cardinality(Users)]
    /\ sinceCount \in 0..(CountInterval + 1)
    /\ timer \in 1..TickInterval /\ tick \in BOOLEAN
    /\ master \in [StreamSlugs \X Transports -> Playlists]

\* The reference for count(): of everything a user fetched in the sliding
\* window, whenever earlier counts trimmed it, one of the streams of one type
\* that were fetched most, if that is often enough.  Whether exactly MinSegments
\* times is enough is left open: the comment of the option (parser.go:28) calls
\* it the minimum to be counted, maxQuality (parser.go:340) asks for more.
times(u, i) == Cardinality({k \in DOMAIN log[u] : log[u][k].id = i})
most(u, ids) == {i \in ids : \A j \in ids : times(u, j) <= times(u, i)}
picks(u, ids, i) ==
    \/ i \in most(u, ids) /\ times(u, i) > 0 /\ times(u, i) >= MinSegments
    \/ i = <<>> /\ \A j \in most(u, ids) : times(u, j) <= MinSegments

\* A count gives every user who watched more than MinSegments segments to one
\* most watched video and one most watched audio stream, and nobody who watched
\* fewer; and it leaves no segment and no user behind that the sliding window no
\* longer covers, however lines, counts and the passing of time were interleaved
\* before.
CountIsExact ==
    [][sinceCount' < sinceCount =>
          /\ segments' = log
          /\ \E choice \in Picks :
                /\ \A u \in Users :
                      picks(u, VideoIds, choice[u][1]) /\ picks(u, AudioIds, choice[u][2])
                /\ viewers' = tally(choice)]_receiverVars

\* The qualities of a stream are not those of the master playlist the relay
\* serves.
Lagging(s) ==
    /\ s \in known
    /\ master[<<s, streams[s].transport>>] \notin {NoPlaylist, streams[s].qualities}

\* A stream that is in use follows its master playlist although fetches have
\* no timeout, overlap, and may bring an older playlist after a newer one.
QualitiesFollow == \A s \in StreamSlugs : Lagging(s) ~> ~Lagging(s)
=============================================================================
