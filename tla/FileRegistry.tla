---------------------------- MODULE FileRegistry ----------------------------
(***************************************************************************)
(* upload/file_registry.go and the HandleFile calls that feed it: one      *)
(* goroutine owns the map of tracked paths; upload handlers send it new    *)
(* entries over a channel with one buffered slot, and it removes files     *)
(* when their deadline has passed and no open keep channel protects them.  *)
(* The files are those of one stream's directory, which is a tracked path  *)
(* itself: os.RemoveAll of the directory takes the files below with it.    *)
(*                                                                         *)
(* Time is counted in units; every deadline is kept as the time left, so   *)
(* `deadline.After(now)` is `left > 0` and no clock grows.                 *)
(***************************************************************************)
EXTENDS Integers, Sequences, FiniteSets

CONSTANTS
    Files,           \* segments and thumbnails in the directory
    Dir,             \* filepath.Dir(outputPath)
    Channels,        \* keep channels in use at one time
    NoChannel,       \* the nil channel
    ExpireInterval,  \* FileRegistryConfig.ExpireInterval
    KeepDelay,       \* FileRegistryConfig.KeepDelay
    Lifetime         \* handler.go: the deadline of an uploaded file

ASSUME IntervalsAssumption ==
    /\ ExpireInterval \in Nat \ {0}
    /\ KeepDelay \in Nat \ {0}
    /\ Lifetime \in Nat \ {0}
ASSUME ChannelAssumption == NoChannel \notin Channels
ASSUME PathAssumption == Dir \notin Files

\* The order of the code's deadlines: 10 s (DefaultKeepDelay) and 30 s.
ASSUME DeadlinesAssumption == KeepDelay <= Lifetime

VARIABLES
    files,     \* r.files: path -> entry; left = 0 with no channel is expirable
    add,       \* r.add
    call,      \* the KeepFile call of a playlist request, before its send
    open,      \* channels that have not been closed
    timer,     \* time to the next tick of the ticker
    tick,      \* whether ticker.C holds a tick
    disk,      \* the files that exist under their own name
    uploads,   \* HandleFile calls in progress, by file
    stopped,   \* whether run has returned
    keeper,    \* history: the channel of the last KeepFile that was in time
    grace,     \* history: time left of KeepDelay since the keeper was closed
    promise    \* history: time left to the deadline of an unkept file

registry == <<files, add, timer, tick, stopped>>
history == <<keeper, grace, promise>>
vars == <<registry, call, open, disk, uploads, history>>

Paths == Files \cup {Dir}

\* The time by which a path may be removed, and the channel that forbids it.
Entries == [path: Paths, left: 0..(Lifetime + KeepDelay), keep: Channels \cup {NoChannel}]
Calls == [path: Paths, left: {0}, keep: Channels]
NoEntry == [path |-> "none"]
tracked(p) == files[p] # NoEntry

\* The registry has an entry for the path, or one is on its way.
entriesOf(p) == {entry \in {files[p]} \cup {add[i] : i \in DOMAIN add} : entry.path = p}
known(p) == entriesOf(p) # {}

\* HandleFile, step by step: the alive channel it found is sent for the
\* directory, for a thumbnail also for the file; the file is registered, its
\* temporary file opened and copied.  "lost": the temporary file was removed.
Steps == {"keepdir", "keepfile", "register", "open", "copy", "lost"}
NoUpload == [pc |-> "none"]
Uploads == {NoUpload} \cup [pc: Steps, alive: Channels]
at(p, pc) == uploads[p].pc = pc

Init ==
    /\ files = [p \in Paths |-> NoEntry]
    /\ add = <<>>
    /\ call = NoEntry
    /\ open = Channels
    /\ timer = ExpireInterval
    /\ tick = FALSE
    /\ disk = {}
    /\ uploads = [p \in Files |-> NoUpload]
    /\ stopped = FALSE
    /\ keeper = [p \in Paths |-> NoChannel]
    /\ grace = [p \in Paths |-> 0]
    /\ promise = [p \in Files |-> 0]

(***************************************************************************)
(* r.add                                                                   *)
(***************************************************************************)
\* Send on r.add; the sender waits while the slot is taken.
send(entry) ==
    /\ add = <<>>
    /\ add' = <<entry>>

\* No tick can find the path expired before it receives the next entry.
InTime(p) == tracked(p) => files[p].keep # NoChannel \/ files[p].left > 0

\* In time, and not tracked with a keep channel, open or closed: a deadline
\* registered for the path will count.
plain(p) == InTime(p) /\ (tracked(p) => files[p].keep = NoChannel)

\* KeepFile.  The channel may be closed by the time the entry is sent.
keep(p, c) ==
    /\ send([path |-> p, left |-> 0, keep |-> c])
    /\ keeper' = [keeper EXCEPT ![p] = IF InTime(p) THEN c ELSE NoChannel]
    /\ grace' = [grace EXCEPT ![p] = IF InTime(p) /\ c \notin open THEN KeepDelay ELSE 0]
    /\ promise' = [q \in Files |-> IF q = p THEN 0 ELSE promise[q]]
    /\ UNCHANGED <<files, timer, tick, stopped, open, disk>>

(***************************************************************************)
(* HandleFile for a segment or a thumbnail.                                *)
(***************************************************************************)
\* GetStream: the stream is there, so its alive channel is open.
StartUpload(p, c) ==
    /\ uploads[p] = NoUpload
    /\ c \in open
    /\ uploads' = [uploads EXCEPT ![p] = [pc |-> "keepdir", alive |-> c]]
    /\ UNCHANGED <<registry, call, open, disk, history>>

\* A thumbnail is kept too, a segment is not: the extension is left open.
KeepDirectory(p) ==
    /\ at(p, "keepdir")
    /\ keep(Dir, uploads[p].alive)
    /\ \E pc \in {"keepfile", "register"} : uploads' = [uploads EXCEPT ![p].pc = pc]
    /\ UNCHANGED call

\* keep thumbnails/posters around
KeepThumbnail(p) ==
    /\ at(p, "keepfile")
    /\ keep(p, uploads[p].alive)
    /\ uploads' = [uploads EXCEPT ![p].pc = "register"]
    /\ UNCHANGED call

RegisterFile(p) ==
    /\ at(p, "register")
    /\ send([path |-> p, left |-> Lifetime, keep |-> NoChannel])
    /\ uploads' = [uploads EXCEPT ![p].pc = "open"]
    /\ promise' = [promise EXCEPT ![p] = IF plain(p) THEN Lifetime ELSE @]
    /\ UNCHANGED <<files, timer, tick, stopped, call, open, disk, keeper, grace>>

\* MkdirAll and the temporary file beside the path.
OpenFile(p) ==
    /\ at(p, "open")
    /\ uploads' = [uploads EXCEPT ![p].pc = "copy"]
    /\ UNCHANGED <<registry, call, open, disk, history>>

\* The body has been copied, after any time: os.Rename.
CopyFile(p) ==
    /\ at(p, "copy")
    /\ disk' = disk \cup {p}
    /\ uploads' = [uploads EXCEPT ![p] = NoUpload]
    /\ UNCHANGED <<registry, call, open, history>>

\* The error return: the body breaks off, a call on the file fails, or os.Rename
\* finds no temporary file any more.
CopyFails(p) ==
    /\ uploads[p].pc \in {"open", "copy", "lost"}
    /\ uploads' = [uploads EXCEPT ![p] = NoUpload]
    /\ UNCHANGED <<registry, call, open, disk, history>>

(***************************************************************************)
(* Playlist requests, one at a time (the bound): HandleFile with           *)
(* stream.alive for the directory, HLSParser for its segments.             *)
(***************************************************************************)
KeepFile(p, c) ==
    /\ call = NoEntry
    /\ c \in open
    /\ call' = [path |-> p, left |-> 0, keep |-> c]
    /\ UNCHANGED <<registry, open, disk, uploads, history>>

SendKeep ==
    /\ call # NoEntry
    /\ keep(call.path, call.keep)
    /\ call' = NoEntry
    /\ UNCHANGED uploads

CloseChannel(c) ==
    /\ c \in open
    /\ open' = open \ {c}
    /\ grace' = [p \in Paths |-> IF keeper[p] = c THEN KeepDelay ELSE grace[p]]
    /\ UNCHANGED <<registry, call, disk, uploads, keeper, promise>>

\* make(chan struct{}): a new channel under the name of a forgotten one.
MakeChannel(c) ==
    /\ c \notin open
    /\ \A p \in Paths : tracked(p) => files[p].keep # c
    /\ add # <<>> => add[1].keep # c
    /\ call # NoEntry => call.keep # c
    /\ \A p \in Files : uploads[p].pc \in {"keepdir", "keepfile"} => uploads[p].alive # c
    /\ open' = open \cup {c}
    /\ keeper' = [p \in Paths |-> IF keeper[p] = c THEN NoChannel ELSE keeper[p]]
    /\ UNCHANGED <<registry, call, disk, uploads, grace, promise>>

(***************************************************************************)
(* The run goroutine.                                                      *)
(***************************************************************************)
\* Mutant of accepts: a plain registration drops the keep channel.
acceptsAll(entry) == TRUE

\* avoid dropping keep channel
accepts(entry) ==
    ~(tracked(entry.path) /\ entry.keep = NoChannel
                          /\ files[entry.path].keep # NoChannel)

Receive ==
    /\ ~stopped
    /\ add # <<>>
    /\ add' = <<>>
    /\ files' = IF accepts(add[1]) THEN [files EXCEPT ![add[1].path] = add[1]]
                                   ELSE files
    /\ UNCHANGED <<timer, tick, stopped, call, open, disk, uploads, history>>

\* Mutant of noticesClose: the keep channel is never polled.
noticesCloseNever(p) == FALSE

noticesClose(p) == tracked(p) /\ files[p].keep # NoChannel /\ files[p].keep \notin open

\* Mutant of expires: a path goes one unit before its deadline.
expiresEarly(p) == tracked(p) /\ files[p].keep = NoChannel /\ files[p].left <= 1

expires(p) == tracked(p) /\ files[p].keep = NoChannel /\ files[p].left = 0

afterExpire(p) ==
    IF noticesClose(p)
    THEN [files[p] EXCEPT !.keep = NoChannel, !.left = KeepDelay]
    ELSE IF expires(p) THEN NoEntry ELSE files[p]

\* Mutant of removeAll: os.Remove, which leaves a directory that is not empty.
removeOne(paths) == disk' = disk \ paths /\ UNCHANGED uploads

\* os.RemoveAll of these paths: the directory takes its files with it, the
\* temporary ones too.
removeAll(paths) ==
    /\ disk' = IF Dir \in paths THEN {} ELSE disk \ paths
    /\ uploads' = [p \in Files |-> IF Dir \in paths /\ at(p, "copy")
                                   THEN [uploads[p] EXCEPT !.pc = "lost"] ELSE uploads[p]]

Expire ==
    /\ ~stopped
    /\ tick
    /\ tick' = FALSE
    /\ files' = [p \in Paths |-> afterExpire(p)]
    /\ removeAll({p \in Paths : expires(p)})
    /\ UNCHANGED <<add, timer, stopped, call, open, history>>

\* Stop cancels the context: run removes every tracked path and returns.
Cleanup ==
    /\ ~stopped
    /\ stopped' = TRUE
    /\ removeAll({p \in Paths : tracked(p)})
    /\ UNCHANGED <<files, add, timer, tick, call, open, history>>

(***************************************************************************)
(* The clock.  The goroutine and the senders are scheduled within a unit   *)
(* of time: what is ready at an instant is done before the next.  Copying  *)
(* a body takes any time.                                                  *)
(***************************************************************************)
Busy == \/ tick \/ add # <<>> \/ call # NoEntry
        \/ \E p \in Files : uploads[p].pc \in {"keepdir", "keepfile", "register", "open"}

less(n) == IF n = 0 THEN 0 ELSE n - 1

Advance ==
    /\ ~stopped
    /\ ~Busy
    /\ timer' = IF timer = 1 THEN ExpireInterval ELSE timer - 1
    /\ tick' = (timer = 1)
    /\ files' = [p \in Paths |->
                   IF tracked(p) THEN [files[p] EXCEPT !.left = less(@)] ELSE NoEntry]
    /\ grace' = [p \in Paths |-> less(grace[p])]
    /\ promise' = [p \in Files |-> less(promise[p])]
    /\ UNCHANGED <<add, stopped, call, open, disk, uploads, keeper>>

\* Nothing has to happen any more: the process is exiting.
Exit == stopped /\ UNCHANGED vars

Handle(p) == KeepDirectory(p) \/ KeepThumbnail(p) \/ RegisterFile(p) \/ OpenFile(p)

Next ==
    \/ \E p \in Files, c \in Channels : StartUpload(p, c)
    \/ \E p \in Files : Handle(p) \/ CopyFile(p) \/ CopyFails(p)
    \/ \E p \in Paths, c \in Channels : KeepFile(p, c)
    \/ SendKeep
    \/ \E c \in Channels : CloseChannel(c) \/ MakeChannel(c)
    \/ Receive \/ Expire \/ Cleanup \/ Advance \/ Exit

\* The goroutine is always scheduled, handlers get their turn on r.add, and
\* time passes however many calls are made.  A copy may take for ever.
Fairness == WF_vars(Receive) /\ WF_vars(Expire) /\ SF_vars(Advance)

Spec == Init /\ [][Next]_vars
FairSpec == Spec /\ Fairness

-----------------------------------------------------------------------------
\* Every variable has the type of the Go field or call it stands for.
TypeOK ==
    /\ files \in [Paths -> Entries \cup {NoEntry}]
    /\ \A p \in Paths : tracked(p) => files[p].path = p
    /\ add \in {<<>>} \cup {<<entry>> : entry \in Entries}
    /\ call \in Calls \cup {NoEntry}
    /\ open \subseteq Channels
    /\ timer \in 1..ExpireInterval
    /\ tick \in BOOLEAN
    /\ disk \subseteq Files
    /\ uploads \in [Files -> Uploads]
    /\ stopped \in BOOLEAN
    /\ keeper \in [Paths -> Channels \cup {NoChannel}]
    /\ grace \in [Paths -> 0..KeepDelay]
    /\ promise \in [Files -> 0..Lifetime]

\* The last KeepFile of the path is in force: its channel is open, or was
\* closed less than KeepDelay ago.
kept(p) == keeper[p] \in open \/ grace[p] > 0

\* KeepFile means what its comment says while the registry runs: a file is
\* not removed while the channel it was last kept with is open, nor for
\* KeepDelay after that channel was closed (a stale HandleFile may have sent it
\* when it was closed already) - as long as the same holds of its directory,
\* which goes with all its files.  The one exception is a KeepFile for a path
\* whose deadline is already over: its entry may wait in r.add while a tick,
\* ready at the same moment, removes the path.
KeptStays ==
    [][\A p \in disk : kept(p) /\ kept(Dir) /\ ~stopped' => p \in disk']_vars

\* RegisterFile means what its comment says: an uploaded file that is not kept
\* stays until the deadline its upload was registered with has passed, as long
\* as its directory is kept: a directory whose stream has ended goes after
\* KeepDelay, its files' deadlines notwithstanding.  Not promised is the
\* deadline of a path that is uploaded again when its old deadline is over, or
\* while its closed keep channel has not been noticed.
PromiseStays ==
    [][\A p \in disk :
          promise[p] > 0 /\ uploads[p] = NoUpload /\ kept(Dir) /\ ~stopped' => p \in disk']_vars

\* The directory of every file CopyFile wrote is known to the registry (in r.files
\* or in the slot of r.add), so that a tick or Stop still removes the file, however
\* long the copy took: a file whose own entry has expired meanwhile goes with its
\* directory, and once the directory was removed the copy fails.
NoOrphan ==
    ~stopped /\ disk # {} => known(Dir)

\* A KeepFile call for the path is under way, or the registry has its open channel.
renewed(p) == call.path = p \/ \E entry \in entriesOf(p) : entry.keep \in open

\* A file nobody keeps and nobody uploads again is removed in the end, unless
\* handlers come so fast that r.add is never empty and no time passes.  A file
\* that is known through its directory only goes with the directory, which the
\* uploads into it keep.
EventuallyRemoved ==
    []<>~Busy =>
        \A p \in Files :
            p \in disk ~>
                \/ p \notin disk \/ stopped \/ uploads[p] # NoUpload \/ renewed(p)
                \/ ~known(p) /\ (renewed(Dir) \/ \E q \in Files : uploads[q] # NoUpload)
=============================================================================
