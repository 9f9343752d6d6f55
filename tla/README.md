# Verification of stream-api

stream-api is the Go code behind a live streaming setup: encoders upload HLS
and DASH files through an *upload-proxy* to one or more *upload-servers*, which
merge and serve them; the *stream-api* daemons publish sources to Consul, claim
them for transcoding, run the transcoders under systemd and show the state of
it all; two small exporters count viewers and encoding progress.  This
directory holds TLA+ models of its stateful parts, TLC runs that check them on
small instances, and TLAPS proofs for every value of the constants.

## 1. Inventory

| part | source | state | operations | talks to |
|---|---|---|---|---|
| HLS parser | `upload/hls.go` | per variant: `lastIndex`, `lastSize`, `lastSequence`, output playlist; `h.files` (open keep channels); files on disk | `ParsePlaylist` (`checkDiscontinuity`, `appendItems`, `writePlaylist`), `Cleanup`, master playlists | file registry (keep, close) |
| file registry | `upload/file_registry.go` | `r.files` (deadline, keep channel), channel `r.add`, ticker | `RegisterFile`, `KeepFile`, `run` (`expire`, `cleanup`), `Stop` | disk |
| stream store | `upload/stream_store.go`, `upload/stream.go` | map of streams; per stream origin, time of its last upload, ttl, parsers, `alive` | `UpdateStream`, `timeout`, `removeStream`, `Stop` | parsers, registry (via `alive`) |
| upload server | `upload/server.go`, `handler.go`, `auth.go`, `writer.go` | requests under way, temporary files, metrics of a slug | `Validate`, `HandleFile`, `WriteFile`, `CopyFile` | store, registry, parser |
| proxy sink | `cmd/upload-proxy/sink.go` | queue, worker, counters | `handle`, `work`, `upload`, `UpdateConfig`, `Start`, `Stop` | an upload-server |
| upload proxy | `cmd/upload-proxy/proxy.go` | list of sinks, grace deadlines | `HandleUpload`, `UpdateConfig`, `runTimeout` | sinks |
| Consul client | `client/` | session id, cache of each watch | `renewSession`, `keepaliveSession`, `PutWithSession`, `Delete`, watch handler | Consul |
| publisher | `publish/` | streams with ttl | scrape, `processUpdate`, expiry | Consul client |
| transcoder | `transcode/` | `services`, `transcoders`, `streams`, `streamTranscoders` | watch handlers, `shouldClaim`, `claimStream`, tick | Consul client, services |
| services | `systemd/` | unit, config file, stopping and stopped flags | `Run`, `Restart`, `Stop`, `syncUnitState` | systemd over D-Bus |
| monitor | `monitor/` | streams, transcoders, claims; websocket clients | watch handlers, broadcast, REST for settings | Consul client |
| publish auth | `auth/` | settings of each stream | watch handler, `Auth` | Consul client |
| log receiver | `logreceiver/` | sessions per viewer | log line, expiry | syslog |
| exporter | `cmd/transcoding-exporter/` | metrics per stream | progress upload | FFmpeg |

What is hard in it: handlers of many requests run concurrently with goroutines
that expire what the requests have made; ticks come late; a `select` takes any
ready branch; the proxy drops, delays and repeats uploads; an encoder restarts
with its numbering at zero; a Consul session ends while its owner is still
working; a unit is asked to stop while it is being claimed again; a request goes
on while its stream is removed; a websocket client joins in the middle of a
broadcast; a fetch is overtaken by a later one.  The hazards
are listed with their lines in `PROJECT.json`.

What makes each part correct:

- **HLS parser**: every version of an output playlist numbers an item the same
  way and never takes anything back; every new segment is listed once; what is
  listed is kept and what is kept is listed.
- **File registry**: while its directory is kept, no file goes before its deadline
  or while it is kept itself; no file stays that nobody keeps; every file on disk
  is known, by its path or by its directory.
- **Stream store**: the origin of a stream is exclusive for its duration,
  whatever is removed and recreated; a silent stream goes.
- **Upload handler and writer**: what `Validate` accepted holds for the time it
  promises; a request that is done by then does not meet what `Cleanup` left
  behind, and one that is not does no harm beyond its slug; players never read
  half a playlist, although uploads of a path share a temporary file.
- **Sink**: bounded queue, nothing unaccounted for, order per connection, and
  nobody waits for good.
- **Proxy**: one running sink per configured server, whatever is reloaded; an
  upload reaches every sink; a removed sink is stopped after its grace period.
- **Publisher**: a registration survives missed scrapes and ended sessions, and
  only ends when it should.
- **Transcoder**: a unit only runs under a claim; a claim means a service;
  capacity is respected; what is gone is stopped and what stays is transcoded; a
  shutdown leaves neither units nor claims behind but for what it cut short, and
  ends.
- **Monitor and publish auth**: the first state a client is sent and the updates
  after it join without a gap; clients and the check of publishers follow Consul.
  (No command starts `auth` at this commit: `cmd/stream-api` does not import it.
  It is modelled as the package would run beside the monitor.)
- **Log receiver**: a count is what the window's segments say, whenever it is
  made; the qualities of a stream follow its master playlist.

## 2. Modules

    LivePlaylist     the sliding output playlist and how a player numbers it
      MediaPlaylist  abstract: what a playlist file promises to players
      HLSParser      the parser of one stream, fed with arbitrary playlists,
                     proved to implement MediaPlaylist
        HLSEncoder   the parser fed by encoders (composition)
    FileRegistry     the registry with upload handlers and keepers
    StreamStore      the map of streams with its ticker
    AtomicWriter     files written under a temporary name, as parts of steps
      UploadHandler  whole requests over StreamStore and AtomicWriter (composition)
    LossyChannel     abstract: what a sink promises to a connection
      UploadSink     one queue of the upload-proxy with handlers and worker,
                     shown to implement LossyChannel
    UploadProxy      the list of sinks with reloads, removal and requests
    ConsulClient     sessions and keys, as parts of steps of its users
      Publisher      ingest hosts on top of it (composition)
      Transcoder     transcoding machines, their services and units (composition)
    Monitor          watches, the server goroutine, websocket clients, and auth's view
    LogReceiver      viewers counted from log lines, with fetches of playlists

`MC*.tla` give TLC values that a `.cfg` cannot write; `*_proofs.tla` hold the
theorems of a module and of those it extends, and `Observers_proofs` those of
`Monitor` and `LogReceiver`.  `PROJECT.json` maps every definition to its lines.

**LivePlaylist / HLSParser** (`upload/hls.go`).  `h.mutex` makes merges
exclusive, but `keepFile` sends to the registry inside the merge, so a merge is
a step per item (`ParsePlaylist`, `SkipItem`/`CopySegment`,
`writePlaylist`/`writePlaylistFails`), with `job` as its program counter.  `log`
and `written` are history: everything ever appended, and how much of it the
file on disk had.  `NestedPath` is not a typo: `writePlaylist` hands
`keepFile` a path that is joined with the base path twice.  `HLSEncoder` is
FFmpeg behind the proxy: it numbers from zero, uploads its last `Window`
segments, restarts, and has playlists lost.

**MediaPlaylist** is not a translation of code: it is what RFC 8216 lets a player
rely on.  Items are only appended, and a playlist file is computed from all of
them (`window`): the last `Size` items, with the counts of what came before.
`HLSParser` never has the whole history in hand; it slides a window and counts
an item at a time.  `log` and `disk` stand for themselves.

**FileRegistry** (`upload/file_registry.go`, `HandleFile`, `writer.go`).  The files
of one stream's directory, and the directory, which is a path of the registry
too: `HandleFile` keeps it with the alive channel of the Stream it has in hand,
and `os.RemoveAll` of it takes every file below with it, the temporary ones
included (`removeAll`).  An upload is `KeepDirectory`, `KeepThumbnail` (for some),
`RegisterFile`, `OpenFile`, and `CopyFile` or `CopyFails` after any time; the
channel it found may be closed when it is sent.  `KeepFile` and `SendKeep` are
the calls of playlist requests, one at a time.  `r.add` has one slot; the
registry's `select` takes a tick or an entry in any order; deadlines are kept as
time left and `Advance` is the clock.  A registration is ignored while an older
entry has a keep channel.

**StreamStore** (`upload/stream_store.go`, `stream.go`).  The clock and a
ticker channel with one slot, so that a tick comes late but never twice;
`exclusive` is what is left of `StreamOriginDuration`.

**AtomicWriter / UploadHandler** (`upload/server.go`, `handler.go`, `stream.go`,
`writer.go`, `Cleanup` of `hls.go`).  `UploadHandler` extends `StreamStore`: a
request is a step per call that others can come between (`Validate`,
`GetStream`, `KeepDirectory`, `KeepThumbnail`, `GetHLSParser`, `Merge`,
`OpenFile`, `WriteFile`, `Rename`, `KeepPlaylist`), and may break off or take for
ever: neither the server nor a handler has a timeout.  The store removes a Stream
at any tick, also under a request; what the request has in hand is then
`"removed"`, and a parser made in a removed Stream is `"late"`.  A request whose
`age` is `StreamOriginDuration` is late.  Late requests do what they do in the
code: they write to the nil map of `Cleanup` or register metrics twice and panic,
which ends the request (`panic`), change the map while `Cleanup` walks it, which
ends the process (`Crash`), make a second parser beside the one of the next
stream, and have the registry keep its directory with a closed channel.
`panicked` remembers a panic that is not a late request's and does not follow
from one; `stale` the slugs whose Stream was removed under a playlist upload.
`kept` is what the registry last got the channel of the live Stream for: the
directory and a thumbnail.  (`KeepPlaylist` keeps a path that is joined with the
base path twice, so a playlist is kept by its directory alone.)  An open file is
followed by where its directory entry went (temporary name, path, or none), since
the temporary name is the same for all uploads of a path.  When opening it fails
the handler panics on the nil file, which is part of `Break`.  What a playlist
holds is `HLSParser`, and deadlines are `FileRegistry`.

**LossyChannel** is not a translation of code: it is the promise a connection
can rely on.  Uploads are numbered, may be lost, and arrive once and in order.
The refinement mapping is in `UploadSink`: accepted is the last
upload of a connection whose handler has returned, in transit is what is queued
or in the worker's hands, and delivered is the last upload the server
acknowledged.

**UploadSink** (`cmd/upload-proxy/sink.go`).  `handle` is per connection
(`Handle`, `Enqueue`, `QueueFull`, `DropFront`), the `select` and the receive
after it being different steps; the worker is `Take` ... `WorkerExit`; a reload
is `Stop` and, once the worker has ended, `Start`.  Counters are history.

**UploadProxy** (`cmd/upload-proxy/proxy.go`, `main.go`, the grace period of
`sink.go`).  The list is a Go slice: an array with a capacity, and a length.
`UpdateConfig` and `runTimeout` hold `sinkMutex`, but every store a request can
see is a step of its own: a new array (`NewSink`), the length (`AppendLength`),
the element (`AppendElement`), each slot a compaction rewrites (`KeepSink`).
`HandleUpload` reads array and length without the lock, in either order, and
then a slot at a time; reading past an array or finding nil is `Panic`.  What a
sink does with an upload is `UploadSink`.  A configuration is a set: an address
that is named twice would panic when its metrics are registered again.
`got`, `expected` and `disturbed` are history.

**ConsulClient** (`client/consul.go`).  Consul is external and modelled from how
it is used: a key is held by a session, goes with it (`Behavior: delete`) and
is then under lock delay; `Delete` asks nobody.  A call succeeds, fails, or is
carried out with its answer lost.  `keepaliveSession` may give up on a session
that lives on, and renewing may fail.

**Publisher** (`publish/publisher.go`).  One step per source asked and per call
to Consul.  A scrape reports any set of streams, or fails during an outage.

**Transcoder** (`transcode/transcoder.go`, `systemd/service.go`, the watch of
`client/consul.go`).  The watch handler computes differences to its cache and
waits (`pending`) until `run` takes them (`inbox`) and handles them one by one;
`run` is interrupted by nothing else, the tick is a step followed by one call of
`claimStream` per stream.  A claim is three steps, with `claim` as its program
counter: `claimStream` looks at the capacity and whether the service is stopping,
`PutClaim` puts the key and starts a service or finds one, and `RestartService`
restarts the unit of the one it found.  Between them a signal may come and the
service may stop, so that a claim is put after `Cleanup` deleted it or a unit
restarted after it was stopped.  A service's goroutine is `ServiceStart`,
`SyncUnitState`, `StopUnit`, `Unclaim`.  `lost`, `leaked` and `orphans` are history: they name
the ways in which claim, service and unit may come apart.  Who comes first by
load (`first`) is an input, because the statuses `shouldClaim` reads are under
`transcoders/` and this program writes them to `service/transcode/`: without
another writer (`Announced = {}`) nothing is ever claimed.  A machine ends in two
ways: it restarts, forgetting all it had, or (`Interrupted`) a signal ends its
context, `run` returns when its `select` takes that branch, `main` waits for the
services, and the process exits (`Signal`, `RunReturns`, `Wait`, `Exit`).  `late`
is history: services `run` still started after the signal.

**Monitor** (`monitor/`, `auth/watcher.go`, the watch of `client/consul.go`).  A
watch hands differences to a watcher, the watcher whole maps to the server
goroutine through a channel of one, and the server writes to its clients one at
a time (`TakeUpdate`, `Broadcast`, `BroadcastEnds`), with `AddClient` and
`RemoveClient` as further branches of its `select`.  `view` is what a client
shows after it has read what is `unread`.  `HandleStreamSettings` is the watcher
of publish auth.  Entries that cannot be parsed are ignored as in the code.

**LogReceiver** (`logreceiver/parser.go`, `hls.go`).  `GetQuality` takes the lock
twice, and between the two the stream may expire and be made anew (`line.gone`,
with the qualities a fetch may still store, `leaving`).
Fetches run on their own, without a timeout, and may finish in any order.
`log` is history: the reference a count is compared with.

## 3. Runs

| run | shows |
|---|---|
| `hls_encoder` | encoders with restarts and lost playlists: `StableNumbering`, `NeverRewinds`, `TrackedIsListed`, `OnlyNewSegments`, `ListedIsKept` |
| `file_registry` | uploads of any duration, keeps and ended streams at any time: `NoOrphan`, `KeptStays`, `PromiseStays`, `EventuallyRemoved` |
| `upload_handler` | two requests, one of any duration, with timeouts, late ticks, takeovers and broken-off uploads: `Outlives`, `OriginExclusive`, `SilentStreamRemoved` of the store; `ValidatedIsHandled`, `NoPanic`, `KeepsStayLive`, `WholeFiles` |
| `upload_sink` | full queue, retries, a reload: `Accounted`, `QueueDrains`, and `ImplementsChannel` (the refinement, which says that uploads arrive once and in order) |
| `upload_proxy` | reloads, removals and a request without the lock: `ListFollowsConfig`, `Delivered`, `RemovedIsStopped` |
| `publisher` | two hosts with the same stream: `TakenByOwnerOrLoser`, `SurvivesMisses`, `StaysRegistered`, `GetsUnregistered` |
| `transcoder` | two machines and a stream, claims cut short by the end of a service, a session or a daemon: `UnitIsClaimed`, `ClaimIsServed`, `ViewFollows`, `ShutdownIsClean` |
| `transcoder_live` | a machine with capacity for one of two streams, restarts and shutdowns: capacity (`TypeOK`), `GoneIsStopped`, `GetsTranscoded`, `ShutdownEnds` |
| `monitor` | changes while clients come and go: `NoGap`, `ViewsFollow`, `SettingsFollow` |
| `log_receiver` | log lines, expiry, overlapping fetches and counts: types (`ReceiverTypeOK`), `CountIsExact`, `QualitiesFollow` |

Type invariants are proved for every component (section 4); the runs
`transcoder_live` and `log_receiver` check them too, where they carry the
capacity of a machine and the life of a stream.

Two runs show where the code does not do what its comments or documents say
(`findings` in `PROJECT.json`):

- `hls_lost_playlist`: when a playlist is lost just while the source list
  reaches its full length, the next merge skips a segment for good.
- `sink_handle_blocks`: a handler that found the queue full waits on an emptied
  one until the next upload.

Exceptions that are part of the properties, because the code behaves so:

- `KeptStays` and `PromiseStays` are about files that were kept in time and not
  uploaded again under the same name, *and whose directory is kept*: when a stream
  has timed out and `KeepDelay` is over, its directory goes with all files, also
  those with time left of their 30 seconds.  With the defaults of the store
  (`StreamTimeout` 10 s) and the registry (`KeepDelay` 10 s) that is so; the 15
  minutes the command sets by default hide it.  `NoOrphan` asks that the directory of
  a file is known: the entry of a file that took longer to upload than its
  deadline is gone when the file gets its name.
- `ValidatedIsHandled` is about requests that are not late, `NoPanic` and
  `KeepsStayLive` say that what goes wrong is a late request's doing.  With the
  defaults late is 6 s after the validation, which the proxy's deadline of 60 s
  for a segment does not prevent.
- `WholeFiles` excepts playlists of a slug whose Stream was removed under an
  upload (two parsers, two mutexes), and files other than playlists that were
  uploaded twice at the same time, where the shared temporary file lets players
  read a part.
- `GetsUnregistered` and `ClaimIsServed` except keys whose put was carried out but
  reported as failed (nobody deletes them, and a transcoder's tick skips a stream
  that is claimed, by whomever); `ClaimIsServed` also claims that could not be
  deleted, or were put when the service had stopped.
- `UnitIsClaimed` excepts machines that lost their claim, whose service nobody
  stops, and units left behind by a restart of the daemon, a failed `StopUnit`, or
  a `Restart` after the service's stop.  `ShutdownIsClean` excepts those too, and
  services started after the signal, whose first calls may come after their
  context has ended.
- `Delivered` excepts requests that overlap the removal of a sink (the compaction
  moves sinks under the request, so that it skips one and serves another twice).
- `CountIsExact` leaves open whether exactly `MinSegments` segments are enough (see
  section 5).
- `ViewsFollow` is about clients that read and entries that can be parsed, and not
  about transcoders, whose entries `ParseServiceName` never accepts.

### Bounds

A bound is a constant named in the module (`Max...`) and appears only in the
guards of the environment's actions.

- `hls_encoder`: a source window of three in an output window of four, six
  segments per run, two restarts, two losses.  `LossFrom` lets losses begin when
  the window slides (earlier is `hls_lost_playlist`) and `MinUploads` is two: a
  run with a single merged segment cannot be told from the next one.
  `ReuseNames` is false: `h.files` has one channel per path, so when a restarted
  encoder names its segments as before, expiring an old segment releases the
  new one of the same name while it is listed, and `ListedIsKept` fails.
- `file_registry`: one file and its directory, two channels (a stream's may be sent
  after it was closed, when the next stream's is in use), one call of a playlist
  request at a time; the interval, the keep delay and the lifetime differ so that
  every order of a tick and a deadline occurs.  A copy takes any time: it outlives
  the entry of the file, the alive channel and the directory.
- `upload_handler`: one slug (slugs share nothing), two origins, two requests at
  a time, a playlist and a thumbnail as files (a manifest's request ends after
  `KeepDirectory`, as a request that is broken off there does; the proofs cover
  every kind); durations 4, 1, 2, the limit of `O + 2I <= T`.  One of the two
  requests may become late (`Slow`), at any step and for any time; the proofs let
  all of them.
- `upload_sink`: two connections with two uploads each in a queue of three, where
  retries (at most one queued) as well as drops from a full queue happen, and
  one reload.
- `upload_proxy`: two valid addresses and an invalid one, one request (requests do
  not see each other), three reloads: sinks are removed and made anew, the array
  grows, is compacted and has its free slot used again.
- `publisher`: two hosts, one stream, `TTL` 3, one new session or restart,
  outages without bound.
- `transcoder`: two machines with capacity for two services and one stream, so that
  there is room to claim a stream again that has a service and its unit is
  restarted in place; two events (a change of the stream, of the network, or a
  signal), one new session or restart, no failing calls to systemd (their effects
  on a claim are in `transcoder_live` and the proofs).  `transcoder_live`: one
  machine and two streams with capacity for one, two events, one change of who
  comes first, one failing unit or call.  No session is made while a machine is
  shutting down.
- `monitor`: a slug and a machine, two connections (one joins or leaves while the
  other is written to), two changes, a connection that buffers one message.
- `log_receiver`: a user, a slug and a transport, three qualities (one audio), a
  sliding window of one unit, three segments, two fetches at a time, one change
  of the master playlist, from any pair of playlists or none.

No symmetry is used.  `CHECK_DEADLOCK FALSE` stands only where a bounded history
ends (`hls_encoder`, `hls_lost_playlist`, and `monitor` when every client has
left); the other systems never stop.

### Fairness

Liveness is checked under fairness of goroutines and tickers (weak fairness of
their steps) and of time.  Strong fairness is assumed of

- a tick or a branch of a `select` that competes with others, because Go chooses
  uniformly among ready branches: `Receive`, `Tick` and `RunReturns` in `Transcoder`;
- a sender on a channel or a goroutine waiting for a mutex, which are served in
  order: `Produce` in `UploadSink`;
- the clock, where a step that runs within a unit of time puts it off:
  `FileRegistry`, `LogReceiver`.

Nothing is assumed of the handlers of `FileRegistry` and `UploadHandler`: an upload
may take for ever.

Of the environment little is assumed: uploads, reloads, outages, restarts,
signals and failures may happen or not.  Properties that need the network name
it (`<>[](net = "up" ...)`), and `EventuallyRemoved` asks that the registry and its
senders are idle again and again.  Sessions that nobody renews end and lock
delays pass, which Consul promises; in `LogReceiver` the relay answers every
fetch in the end, and in `Monitor` a connected client reads (the server writes
without a deadline, so that a client that does not read stops all others).

## 4. Proofs

All for every value of the constants, without the bounds' values:

- `HLSEncoder_proofs`, of the parser by itself: `TypeCorrect`,
  `NumberingIsStable`, `FilesNeverRewind`, `NothingKeptForever`.
  `StableNumbering` is not inductive; `WindowInv` is: the output *and* the file
  on disk `Shows` a window of the history whose `Sequence` and
  `DiscontinuitySequence` count the segments and tags before it.  The lemmas are
  about counting (`CountOn`: the count over a window adds to the count before
  it) and windows (`WindowGrows`, `WindowSlides`, `AppendShows`).
  `FilesNeverRewind` follows because both files show the same history and the
  newer one no less of it (`LaterShowsMore`).

  `ParserIsMediaPlaylist` is the refinement `Spec => Media!Spec`.  An item copied
  by a merge and the discontinuity of a restart map to `Extend` (`AppendedExtends`),
  a written file to `Publish`, and a skipped item, a failed write or a playlist
  that restarts nothing to a stutter.  That the output which is written is the
  `window` of the history needs `WindowInv`, turned from a statement about
  positions into an equality of playlists by `ShowsIsWindow`.

  With encoders: `EncodersAreUploads` (`EncoderSpec => Spec`, so that all of the
  above holds with restarts and losses), `MergesAreExact` and `ListedStayKept`.
  The last two have `LateLosses` as a hypothesis: no playlist is lost before the
  source window is full, and an encoder restarts after its second playlist at
  the earliest.  The code needs it: without the first part
  `hls_lost_playlist` is a counterexample.  `EncoderInv` says what
  `lastSequence` and `lastSize` are in terms of what the encoder has uploaded
  (`RunInv`, `LastInv`), and that the history followed by what the merge under
  way has still to copy is what was expected (`LogInv`).  The heart is
  `UploadNumbers`, the arithmetic of `checkDiscontinuity`: merging continues
  where the last playlist ended or at the start of the window, whichever is
  later, and starts over exactly for the first playlist of a run.
  `ListedStayKept` adds that names are not reused: then no segment is expected
  twice (`NamesInv`), and expiring what `append` pushed out expires nothing that
  is still listed.
- `FileRegistry_proofs`: `TypeCorrect`, `NoFileOrphaned`, `KeptFilesStay`,
  `PromisesHold`, from `DeadlinesAssumption` (`KeepDelay <= Lifetime`, 10 s and 30 s
  in the code) and for uploads of any duration.  `OrphanInv` adds that a directory
  that `HandleFile` has kept is known, and cannot expire before the temporary file
  is opened; if it expires after that the copy fails.  `ProtectInv` follows the
  last keep and the last registration of a path, the directory's too, from `r.add`
  to `r.files`, through the moment in which the registry notices the closed
  channel.
- `UploadHandler_proofs`, of the store: `TypeCorrect`, `OriginRemembered`,
  `OriginIsExclusive`, from `TimeoutAssumption` (`StreamOriginDuration + 2
  StreamExpireInterval <= StreamTimeout`), which the defaults of the code (6 s,
  2 s, 10 s) just meet.  The inductive invariant bounds the exclusive time left
  by the ttl left and the ticks that may still come.

  Of the handlers: `ImplementsStore` (every step of a request is a step of
  `StreamStore` or leaves it alone, so that the store's theorems hold of the
  composition), `HandlerTypeCorrect`, `AcceptedIsServed`, `NeverPanics`,
  `LiveKeepsStay`, `FilesAreWhole`, for requests of any duration.  `HeldInv` says
  that the exclusive time left of a slug is at least what `Validate` gave a
  request and the request has not used; with `Outlives` the store removes no
  Stream under a request that is not late.  `RequestInv` follows what a request
  has of its Stream and its parser, and that a Stream removed under a playlist
  upload is remembered (`stale`): whatever a late request leaves behind is traced
  to it.  `FilesAreWhole` needs that `h.mutex` separates the writers with the
  slug's parser (`MutexInv`), and that a writer nobody has overlapped is alone
  with its temporary file (`ApartInv`, `AloneInv`).
- `UploadSink_proofs`: `TypeCorrect`, `NothingVanishes` (`AccountedInv` adds that
  the worker only stops after a reload), `ServerSeesOrder` (`OrderInv`: the
  queue is sorted by connection, after what is in hand, after what was sent;
  `OrderKept`), and `SinkIsLossyChannel`: `Spec => Channel!Spec`.  The initial states
  map to initial states; a step of a handler, the worker, a reload or the clock
  maps to `Accept`, `Lose`, `Deliver` or a stutter.  That the upload delivered is
  the oldest in transit needs `OrderInv`, and what a step takes from the queue or
  adds to it is turned into what it takes from or adds to the set in transit by
  the lemma `TransitIs`.
- `UploadProxy_proofs`: `TypeCorrect`, `ConfigIsFollowed`, `UploadsAreDelivered`.
  While the lock is held the list is the slots of `positions`: those a compaction
  has kept and those it has not come to.  `ListInv` says that they hold one running
  sink per address, the ones of the configuration but for what is still to be
  created, and that every other slot of the array is nil, stopped or a duplicate
  of a listed one (`SlotsInv`).  A request that walks an array is then
  followed by three invariants, one for each way it may be disturbed: what it
  must serve is ahead of it or has the upload (`FoundInv`), every slot it visits
  is written (`WrittenInv`), and no two hold the same sink (`OnceInv`).
- `Publisher_proofs`: `TypeCorrect`, `MissesSurvived`, `StoredIsOwned`,
  `OnlyOwnerOrLoserTakes`.  `MissesInv` bounds ttl and misses together, with one
  miss less between the step that counts the ttl down and the tick that counts
  the miss.  `OwnInv` says that what a host stores is under its session or has
  been lost, and that it only deletes what it stores; `OnlyOwnerOrLoserTakes`
  follows, although `Delete` asks nobody.
- `Transcoder_proofs`: `TypeCorrect` (with the capacity, `CapacityInv`),
  `ViewIsComplete`, `UnitsAreClaimed` with `OneMachineTranscodes` (of two machines
  that run a unit for a stream one has lost its claim or left the unit behind),
  `ClaimsAreServed`, `ShutdownCleansUp`.
  `CapacityInv` needs that a claim which has found room for a service still has it
  when it has put its key.  `StateInv` adds to the types that the tick only claims
  streams that exist, while no batch is being handled, and that a service that
  gives its claim back was told to stop.  `ViewsInv` says which of two updates
  for an entry counts, the batch that waits or the one being handled.  `ClaimsInv` ties each state of
  a service to its claim and its unit: it transcodes only while the machine has
  the claim or has lost it, and its unit is off otherwise or left behind.  The
  steps of a claim keep it although the service may be at any stage when the key
  is put or the unit restarted (`PutClaims`, `RestartClaims`).
- `Observers_proofs`, of the monitor: `TypeCorrect`, `ClientsMissNothing`.
  `GapInv` says that a client the broadcast has still to reach lacks no more than
  the message under way, and that this message is part of the server's state
  already.

  Of the log receiver: `ReceiverTypeCorrect`, `CountsAreExact`.  A count trims
  `p.segments` up to the first segment that is young enough and counts the rest,
  while `CountIsExact` asks for every segment the window covers.  The two agree
  because of `WindowInv`: the segments the window covers (`log`) are the end of
  `p.segments`, and ages never rise along it.  It is kept because a segment is
  appended with age zero (`WindowAppend`), because time adds the same to all ages
  and what it pushes out of the window is a beginning of the list (`WindowOlder`),
  and because trimming stops where the window begins (`WindowTrim`).  Where that
  is, is a statement about all positions of a list of any length: it rests on
  `LeastNatural` (a set of numbers that is not empty has a least one), from the
  library's theorem that `<` is well-founded.  What `maxQuality` finds
  over the same segments is then what `picks` allows (`MaxQualityPicks`), and the
  number of users is finite (`UsersAssumption`), which bounds every count (`TallyType`).

Assumptions are the named `ASSUME`s of the modules: sizes, counts and durations
are numbers (positive where the code divides or waits), model values are
distinct from the data, encoders' names and playlists are among those of the
parser (`EncodersAssumption`), and the two orders of durations named above
(`TimeoutAssumption`, `DeadlinesAssumption`).  No duration of a request or an
upload is assumed.  TLC evaluates them in every run.

Only model-checked: liveness (`SilentStreamRemoved`, `EventuallyRemoved`,
`QueueDrains`, `RemovedIsStopped`, `StaysRegistered`, `GetsUnregistered`,
`GoneIsStopped`, `GetsTranscoded`, `ShutdownEnds`, `ViewsFollow`,
`SettingsFollow`, `QualitiesFollow`), because fairness and `ENABLED` are beyond the
prover.  Every invariant and every action property of a run that is expected to
pass is also a theorem.

## 5. Not modelled, and the plan

Not modelled because nothing in them changes state, or only I/O does:
authentication of uploads, the API stub, what metrics measure, configuration, the
REST calls of the monitor that only read, the parsing of paths, of syslog lines
and user agents, and of the answers of streaming servers, D-Bus messages.
Master playlists are a pure function of the names of the variants.  `ByLoad` is
an input of `Transcoder` (who comes first), as the statuses it sorts come from
outside.  The transcoding exporter copies FFmpeg's numbers to metrics and
nothing depends on it.

Hazards of the code that no property is about:

- `upload/hls.go:223`: a restart is only noticed when the new playlist ends before
  the old one did; an encoder that merged a single segment is continued by the
  next one (`MinUploads`).
- `upload/hls.go:265`: a name that is listed twice shares one keep channel
  (`ReuseNames`).
- `upload/limit_reader.go:22`: a file of exactly the limit is refused.
- `upload/file_registry.go:57`: after `Stop` nobody receives from `r.add`, which is
  only called when the process exits.
- `systemd/service.go:91`: when `RestartUnit` fails the unit is left as it is, since
  `syncUnitState` only looks for failed units; `GetsTranscoded` ends at the service.
- `transcode/transcoder.go:169`: statuses are written to another prefix than
  `shouldClaim` reads (`Announced`).
- `transcode/transcoder.go:354`: when `Connect` fails a nil service is stored, and the
  next tick dereferences it.
- `logreceiver/hls.go:192`: streams are kept by slug alone, so the transport of the
  first request decides which master playlist is fetched for both.
- `logreceiver/parser.go:340`: the code and its comment disagree.  `max >
  p.conf.MinSegments` asks for more than `MinSegments` segments, while line 28 calls
  it the "minimum number of segments a user must have watched to be counted": a
  user with exactly that many is not counted.  `CountIsExact` holds under either
  reading, as it leaves exactly `MinSegments` open.
- `monitor/server.go:128`: `WriteJSON` has no deadline, so that a client that does not
  read stops the broadcast and everything behind it; `ViewsFollow` assumes that
  clients read.
- `monitor/server.go:145`: a connection may be removed before it is added and stay
  in `clients`; writes to it fail and are logged.
- `monitor/watcher.go:114`: `ParseServiceName` ignores every `transcoders/<name>`.
- `cmd/transcoding-exporter/progress.go:60`: the end of an old progress upload
  deletes the metrics of the new one.

Open, in this order:

1. A lease that `ConsulClient` implements, as an abstract specification.
2. Master playlists against a reference definition.
3. Liveness proofs, once a prover handles fairness.
