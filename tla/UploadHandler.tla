---------------------------- MODULE UploadHandler ---------------------------
(***************************************************************************)
(* A whole request of the upload server: HandleUpload of upload/server.go, *)
(* Validate and HandleFile of upload/handler.go, and the parser and alive  *)
(* channel of upload/stream.go, over the stream store that may remove the  *)
(* Stream at any tick and the writer that other requests may be using.     *)
(*                                                                         *)
(* A request has the Stream GetStream returned and the parser it got from  *)
(* it.  They are "live" while that Stream is the one in the store's map;   *)
(* Cleanup turns them into "removed".  A parser that is made in a removed  *)
(* Stream is "late": nothing will ever clean it up.                        *)
(*                                                                         *)
(* Nothing limits how long a request takes.  One that was validated longer *)
(* than StreamOriginDuration ago is late: its origin may have lost the     *)
(* slug, and its Stream may be gone.                                       *)
(*                                                                         *)
(* What cannot change state is left out: requests that fail authentication *)
(* (401), and what is in a playlist (HLSParser) or a deadline of the       *)
(* registry (FileRegistry).  Server.Stop closes the listener before it     *)
(* stops the store: only requests that are under way go on after that.     *)
(***************************************************************************)
EXTENDS StreamStore, FiniteSets

CONSTANTS
    Requests,     \* requests handled at one time
    Slow,         \* bound: those that may become late
    Kinds         \* extensions of uploaded files

ASSUME SlowAssumption == Slow \subseteq Requests
ASSUME KindsAssumption == Kinds \subseteq {"m3u8", "mpd", "jpg", "ts"}

VARIABLES
    req,          \* the requests
    parser,       \* the streams that have a parser
    metrics,      \* the slugs whose HLSMetrics are registered
    kept,         \* what the registry last got a live Stream's channel for
    stale,        \* history: slugs whose Stream was removed under a playlist upload
    panicked,     \* history: a panic that is no late request's, nor follows from one
    tmp, file, fd, apart

Files == Slugs \X Kinds
\* What is kept with a Stream's channel: its directory and its thumbnail.
Keeps == Slugs \X {"dir", "jpg"}

AW == INSTANCE AtomicWriter WITH Paths <- Files, Writers <- Requests

written == <<tmp, file, fd, apart>>
handler == <<req, parser, metrics, kept, stale, panicked>>
hvars == <<vars, handler, written>>

Idle == [pc |-> "idle"]
active(r) == req[r] # Idle
late(r) == req[r].age = StreamOriginDuration
path(r) == <<req[r].slug, req[r].kind>>

HandlerInit ==
    /\ Init
    /\ req = [r \in Requests |-> Idle]
    /\ parser = {}
    /\ metrics = {}
    /\ kept = {}
    /\ stale = {}
    /\ panicked = FALSE
    /\ AW!WriterInit

go(r, pc) == req' = [req EXCEPT ![r].pc = pc]
end(r) == req' = [req EXCEPT ![r] = Idle]

\* registry.KeepFile(p, stream.alive), with an open or a closed channel.
keep(r, p) == kept' = IF req[r].stream = "live" THEN kept \cup {p} ELSE kept \ {p}

(***************************************************************************)
(* HandleUpload: Validate, then the method.                                *)
(***************************************************************************)
Validate(r, s, o, k) ==
    /\ run = "running"
    /\ ~active(r)
    /\ UpdateStream(s, o)
    /\ req' = [req EXCEPT ![r] =
                 [pc |-> "stream", slug |-> s, kind |-> k,
                  stream |-> "none", parser |-> "none", age |-> 0]]
    /\ UNCHANGED <<parser, metrics, kept, stale, panicked, written>>

\* 403, or a method other than PUT and POST, which renews the stream too.
Answer(s, o) ==
    /\ run = "running"
    /\ RejectStream(s, o) \/ UpdateStream(s, o)
    /\ UNCHANGED <<handler, written>>

(***************************************************************************)
(* HandleFile.                                                             *)
(***************************************************************************)
GetStream(r) ==
    /\ req[r].pc = "stream"
    /\ IF req[r].slug \in data
       THEN req' = [req EXCEPT ![r].pc = "keepdir", ![r].stream = "live"]
       ELSE end(r)
    /\ UNCHANGED <<vars, parser, metrics, kept, stale, panicked, written>>

\* registry.KeepFile(dir, stream.alive), and the switch on the extension.
KeepDirectory(r) ==
    /\ req[r].pc = "keepdir"
    /\ keep(r, <<req[r].slug, "dir">>)
    /\ CASE req[r].kind = "m3u8" -> go(r, "parser")
         [] req[r].kind = "mpd"  -> end(r)
         [] req[r].kind = "jpg"  -> go(r, "keepjpg")
         [] OTHER -> go(r, "open")
    /\ UNCHANGED <<vars, parser, metrics, stale, panicked, written>>

\* registry.KeepFile(outputPath, stream.alive)
KeepThumbnail(r) ==
    /\ req[r].pc = "keepjpg"
    /\ keep(r, <<req[r].slug, "jpg">>)
    /\ go(r, "open")
    /\ UNCHANGED <<vars, parser, metrics, stale, panicked, written>>

blameless(r) == ~late(r) /\ req[r].slug \notin stale

\* net/http ends the request and goes on.
panic(r) == end(r) /\ panicked' = (panicked \/ blameless(r))

\* GetHLSParser, NewHLSParser and NewHLSMetrics, whose MustRegister panics if
\* the slug's metrics are registered.  In a removed Stream a request may find
\* the late parser another one has made, or that of a Stream removed earlier
\* may be in its way.
GetHLSParser(r) ==
    /\ req[r].pc = "parser"
    /\ LET s == req[r].slug
           live == req[r].stream = "live"
           got == IF live THEN "live" ELSE "late" IN
       \/ /\ s \in IF live THEN parser ELSE metrics \ parser
          /\ req' = [req EXCEPT ![r].pc = "parse", ![r].parser = got]
          /\ UNCHANGED <<parser, metrics, panicked>>
       \/ /\ live => s \notin parser
          /\ s \notin metrics
          /\ req' = [req EXCEPT ![r].pc = "parse", ![r].parser = got]
          /\ parser' = IF live THEN parser \cup {s} ELSE parser
          /\ metrics' = metrics \cup {s}
          /\ UNCHANGED panicked
       \/ /\ live => s \notin parser
          /\ s \in metrics
          /\ panic(r)
          /\ UNCHANGED <<parser, metrics>>
    /\ UNCHANGED <<vars, kept, stale, written>>

\* Mutant of locked: h.mutex is not used.
lockedNever(r) == FALSE

\* Somebody else is between h.mutex.Lock and Unlock of the slug's parser.  Of
\* two other parsers nothing says that they are the same one.
locked(r) ==
    /\ req[r].parser = "live"
    /\ \E q \in Requests \ {r} :
          /\ active(q) /\ req[q].slug = req[r].slug /\ req[q].parser = "live"
          /\ req[q].pc \in {"open", "write", "rename", "keep"}

\* ParsePlaylist has read the body: merge, and keepFile of new segments, which
\* writes to the nil map of a parser that is cleaned up.
Merge(r) ==
    /\ req[r].pc = "parse"
    /\ ~locked(r)
    /\ \/ go(r, "open") /\ UNCHANGED panicked
       \/ req[r].parser = "removed" /\ panic(r)
    /\ UNCHANGED <<vars, parser, metrics, kept, stale, written>>

\* writePlaylist and CopyFile: open the temporary file, write, rename.
OpenFile(r) ==
    /\ req[r].pc = "open"
    /\ AW!open(r, path(r))
    /\ go(r, "write")
    /\ UNCHANGED <<vars, parser, metrics, kept, stale, panicked>>

WriteFile(r) ==
    /\ req[r].pc = "write"
    /\ AW!write(r)
    /\ go(r, "rename")
    /\ UNCHANGED <<vars, parser, metrics, kept, stale, panicked>>

Rename(r) ==
    /\ req[r].pc = "rename"
    /\ \/ AW!rename(r) /\ IF req[r].kind = "m3u8" THEN go(r, "keep") ELSE end(r)
       \/ AW!renameFails(r) /\ end(r)
    /\ UNCHANGED <<vars, parser, metrics, kept, stale, panicked>>

\* keepFile(path) at the end of writePlaylist.  The path it keeps has the base
\* path in it twice, so that only its directory keeps the playlist.
KeepPlaylist(r) ==
    /\ req[r].pc = "keep"
    /\ IF req[r].parser = "removed" THEN panic(r) ELSE end(r) /\ UNCHANGED panicked
    /\ UNCHANGED <<vars, parser, metrics, kept, stale, written>>

\* The body breaks off or is too long, or the disk is full.  When open fails
\* the handler panics on the nil file, with no temporary file to remove.
Break(r) ==
    /\ \/ req[r].pc \in {"parse", "open"} /\ UNCHANGED written
       \/ req[r].pc = "write" /\ AW!fail(r)
    /\ end(r)
    /\ UNCHANGED <<vars, parser, metrics, kept, stale, panicked>>

(***************************************************************************)
(* The store's goroutine: removeStream calls Stream.Cleanup.               *)
(***************************************************************************)
removed(state) == IF state = "live" THEN "removed" ELSE state

\* Mutant of unregistered: Cleanup leaves the metrics registered.
unregisteredNone(gone) == {}

\* HLSParser.Cleanup unregisters the metrics of the parser, if there is one.
unregistered(gone) == gone \cap parser

\* delete(s.parsers, k)
remaining(gone) == parser \ gone

\* close(s.alive)
stillKept(gone) == {p \in kept : p[1] \notin gone}

\* The slugs whose Stream a playlist upload has.
overtaken(gone) ==
    {s \in gone : \E r \in Requests :
        active(r) /\ req[r].slug = s /\ req[r].kind = "m3u8" /\ req[r].stream = "live"}

\* Stream.Cleanup of each: close(alive), Cleanup of the parser.
cleanup(gone) ==
    /\ req' = [r \in Requests |->
                 IF active(r) /\ req[r].slug \in gone
                 THEN [req[r] EXCEPT !.stream = removed(@), !.parser = removed(@)]
                 ELSE req[r]]
    /\ kept' = stillKept(gone)
    /\ metrics' = metrics \ unregistered(gone)
    /\ parser' = remaining(gone)
    /\ stale' = stale \cup overtaken(gone)
    /\ UNCHANGED <<panicked, written>>

TimeoutStep == Timeout /\ cleanup(expired)
StopStep == Stop /\ cleanup(data)

\* HLSParser.Cleanup walks h.files without the mutex.  A handler whose Merge or
\* KeepPlaylist changes the map meanwhile ends the process.
races(r) ==
    /\ active(r) /\ req[r].parser = "live" /\ req[r].slug \in expired
    /\ \/ req[r].pc = "keep"
       \/ req[r].pc = "parse" /\ ~locked(r)

Crash ==
    /\ ticks = 1
    /\ \E r \in Requests : races(r) /\ panicked' = (panicked \/ blameless(r))
    /\ Stop
    /\ req' = [r \in Requests |-> Idle]
    /\ parser' = {} /\ metrics' = {} /\ kept' = {}
    /\ fd' = [r \in Requests |-> AW!NotOpen] /\ apart' = {}
    /\ UNCHANGED <<stale, tmp, file>>

AdvanceStep ==
    /\ run = "running"
    /\ \A r \in Requests \ Slow : active(r) => req[r].age + 1 < StreamOriginDuration
    /\ Advance
    /\ req' = [r \in Requests |->
                 IF active(r) /\ ~late(r) THEN [req[r] EXCEPT !.age = @ + 1] ELSE req[r]]
    /\ UNCHANGED <<parser, metrics, kept, stale, panicked, written>>

\* The server has stopped and the last handler has returned.
Exit ==
    /\ run = "returned"
    /\ \A r \in Requests : ~active(r)
    /\ UNCHANGED hvars

Handle(r) ==
    \/ GetStream(r) \/ KeepDirectory(r) \/ KeepThumbnail(r) \/ GetHLSParser(r)
    \/ Merge(r) \/ OpenFile(r) \/ WriteFile(r) \/ Rename(r) \/ KeepPlaylist(r)
    \/ Break(r)

HandlerNext ==
    \/ \E s \in Slugs, o \in Origins :
          Answer(s, o) \/ \E r \in Requests, k \in Kinds : Validate(r, s, o, k)
    \/ \E r \in Requests : Handle(r)
    \/ TimeoutStep \/ StopStep \/ Crash \/ AdvanceStep \/ Exit

\* The store's goroutine is scheduled and time passes.  A request may take for
\* ever.
HandlerFairness == WF_hvars(TimeoutStep) /\ WF_hvars(AdvanceStep)

HandlerSpec == HandlerInit /\ [][HandlerNext]_hvars
FairHandlerSpec == HandlerSpec /\ HandlerFairness

-----------------------------------------------------------------------------
States == {"none", "live", "removed", "late"}

Reqs == [pc: {"stream", "keepdir", "parser", "keepjpg", "parse", "open", "write", "rename",
              "keep"},
         slug: Slugs, kind: Kinds, stream: States, parser: States, age: 0..StreamOriginDuration]

\* Every variable has the type of what it stands for in the code.
HandlerTypeOK ==
    /\ req \in [Requests -> {Idle} \cup Reqs]
    /\ parser \subseteq data
    /\ metrics \subseteq Slugs
    /\ kept \subseteq Keeps
    /\ stale \subseteq Slugs
    /\ panicked \in BOOLEAN
    /\ AW!WriterTypeOK

\* What Validate accepted stays true for StreamOriginDuration: under a request
\* that is not late the stream is not removed or replaced, and no other origin
\* can take it over, although nothing renews it but the start of a request.
ValidatedIsHandled ==
    run = "running" =>
        \A r \in Requests : active(r) /\ ~late(r) =>
            /\ req[r].slug \in data
            /\ exclusive[req[r].slug] + req[r].age >= StreamOriginDuration
            /\ {req[r].stream, req[r].parser} \subseteq {"none", "live"}

\* A handler only panics or ends the process if it is late, or if a late one
\* has left metrics behind: nobody else meets the nil map of Cleanup, changes
\* the map that Cleanup walks, or registers the metrics of a slug twice.  The
\* registered metrics are those of the parsers in the store, but for slugs
\* whose Stream was removed under a playlist upload.
NoPanic ==
    /\ ~panicked
    /\ parser \subseteq metrics /\ metrics \ parser \subseteq stale

\* The registry is only told to keep the directory or the thumbnail of a live
\* stream with the channel of a stream that is gone, which makes it remove
\* them, by a late request that has the Stream that is gone.
KeepsStayLive ==
    [][\A p \in kept \ kept' :
          run' = "running" =>
              \/ p[1] \notin data'
              \/ \E r \in Requests :
                    active(r) /\ late(r) /\ req[r].stream = "removed" /\ req'[r] # req[r]]_hvars

\* AtomicWriter means what its name says.  Players never read part of a
\* playlist, as everybody who writes one holds the mutex of the one parser of
\* its slug, unless a Stream of the slug was removed under an upload and there
\* were two parsers; they never read part of another file that was not
\* uploaded twice at the same time.
WholeFiles ==
    \A p \in Files :
        /\ file[p] # "torn"
        /\ file[p] = "mixed" /\ p[2] = "m3u8" => p[1] \in stale
=============================================================================
