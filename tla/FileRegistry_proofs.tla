------------------------ MODULE FileRegistry_proofs -------------------------
(***************************************************************************)
(* Proofs about FileRegistry for every set of files, every number of keep  *)
(* channels and every choice of intervals that keeps the order of the      *)
(* code's defaults.  Nothing is assumed of how long a copy takes.          *)
(***************************************************************************)
EXTENDS FileRegistry, TLAPS

USE IntervalsAssumption, ChannelAssumption, PathAssumption, DeadlinesAssumption

\* An entry for the path waits in the slot of r.add: any, or one of KeepFile,
\* or one of RegisterFile.
pending(p) == add # <<>> /\ add[1].path = p
pendingKeep(p) == pending(p) /\ add[1].keep # NoChannel
pendingPlain(p) == pending(p) /\ add[1].keep = NoChannel

\* A deadline waits in r.add with all its time left, and none is for the directory.
SendInv ==
    add # <<>> /\ add[1].keep = NoChannel => add[1].left = Lifetime /\ add[1].path # Dir

\* The directory is known while a HandleFile call that has kept it is under way, and
\* cannot expire before the temporary file is opened; nor is it forgotten as long as
\* there is a file in it.
OrphanInv ==
    ~stopped =>
       /\ \A p \in Files : uploads[p].pc \in {"keepfile", "register", "open"} =>
                              pending(Dir) \/ (tracked(Dir) /\ InTime(Dir))
       /\ \A p \in Files : uploads[p].pc = "copy" => pending(Dir) \/ tracked(Dir)
       /\ disk # {} => pending(Dir) \/ tracked(Dir)

\* Where the channel of the last KeepFile is, for as long as it protects the path:
\* in r.add, in r.files, or noticed as closed.
KeptInv(p) ==
    kept(p) =>
       \/ pendingKeep(p) /\ InTime(p)
       \/ tracked(p) /\ files[p].keep # NoChannel /\ files[p].keep = keeper[p] /\ ~pendingKeep(p)
       \/ /\ tracked(p) /\ files[p].keep = NoChannel /\ files[p].left >= grace[p]
          /\ keeper[p] \notin open /\ ~pendingKeep(p)

\* Where the deadline of the last RegisterFile is, for as long as it counts.
PromiseInv(p) ==
    promise[p] > 0 => \/ pendingPlain(p) /\ plain(p)
                      \/ tracked(p) /\ files[p].keep = NoChannel /\ files[p].left >= promise[p]

\* A KeepFile that waits in r.add is the last one, unless it came too late, and
\* ends the promise.
KeeperInv ==
    \A p \in Paths :
       pendingKeep(p) => /\ \/ keeper[p] = add[1].keep
                            \/ keeper[p] = NoChannel /\ grace[p] = 0
                         /\ p \in Files => promise[p] = 0

ProtectInv == /\ KeeperInv
              /\ \A p \in Paths : KeptInv(p)
              /\ \A p \in Files : PromiseInv(p)
-----------------------------------------------------------------------------
\* A file of the directory and the directory itself are paths of the registry.
LEMMA FilePaths == Files \subseteq Paths /\ Dir \in Paths
BY DEF Paths

\* A tracked path has an entry of its own, with the fields of Entries.
LEMMA TrackedEntry ==
    ASSUME TypeOK, NEW p \in Paths
    PROVE  /\ tracked(p) <=> files[p] \in Entries
           /\ tracked(p) => files[p].path = p /\ files[p].keep \in Channels \cup {NoChannel}
                            /\ files[p].left \in 0..(Lifetime + KeepDelay)
<1>1. NoEntry \notin Entries
  <2>1. \A e \in Entries : DOMAIN e = {"path", "left", "keep"}
    BY DEF Entries
  <2>2. DOMAIN NoEntry = {"path"}
    BY DEF NoEntry
  <2> QED BY <2>1, <2>2
<1>2. files[p] \in Entries \cup {NoEntry} /\ (tracked(p) => files[p].path = p)
  BY DEF TypeOK
<1> QED BY <1>1, <1>2 DEF tracked, Entries

\* The slot of r.add holds one entry or none.
LEMMA PendingEntry ==
    ASSUME TypeOK, add # <<>>
    PROVE  /\ add[1] \in Entries /\ add = <<add[1]>>
           /\ add[1].path \in Paths /\ add[1].keep \in Channels \cup {NoChannel}
           /\ add[1].left \in 0..(Lifetime + KeepDelay)
BY DEF TypeOK, Entries

\* A HandleFile call that is in progress is at one of its steps and has a channel.
LEMMA UploadFields ==
    ASSUME TypeOK, NEW p \in Files
    PROVE  /\ uploads[p] # NoUpload <=> uploads[p].pc \in Steps
           /\ uploads[p] # NoUpload => uploads[p] \in [pc: Steps, alive: Channels]
           /\ uploads[p] # NoUpload => uploads[p].alive \in Channels
<1>1. uploads[p] \in Uploads
  BY DEF TypeOK
<1>2. NoUpload.pc = "none"
  BY DEF NoUpload
<1> QED BY <1>1, <1>2 DEF Uploads, Steps

\* A HandleFile call that goes on to another step.
LEMMA UploadMoves ==
    ASSUME TypeOK, NEW p \in Files, uploads[p] # NoUpload, NEW pc \in Steps
    PROVE  /\ [uploads[p] EXCEPT !.pc = pc] \in Uploads
           /\ [uploads[p] EXCEPT !.pc = pc].pc = pc
BY UploadFields DEF Uploads

\* A playlist request's call has a path and a channel.
LEMMA CallFields ==
    ASSUME TypeOK, call # NoEntry
    PROVE  call.path \in Paths /\ call.keep \in Channels
BY DEF TypeOK, Calls

\* What os.RemoveAll leaves of the files and of the copies under way.
LEMMA RemoveAllFacts ==
    ASSUME TypeOK, NEW paths, removeAll(paths)
    PROVE  /\ disk' \subseteq disk /\ uploads' \in [Files -> Uploads]
           /\ Dir \in paths => disk' = {} /\ \A p \in Files : uploads'[p].pc # "copy"
           /\ Dir \notin paths => disk' = disk \ paths /\ uploads' = uploads
           /\ \A p \in Files : \/ uploads'[p].pc = uploads[p].pc
                               \/ uploads[p].pc = "copy" /\ uploads'[p].pc = "lost"
<1>0. uploads \in [Files -> Uploads] /\ "lost" \in Steps
  BY DEF TypeOK, Steps
<1>1. disk' \subseteq disk /\ (Dir \in paths => disk' = {}) /\ (Dir \notin paths => disk' = disk \ paths)
  BY DEF removeAll
<1>2. ASSUME NEW p \in Files
      PROVE  /\ uploads'[p] \in Uploads
             /\ Dir \in paths => uploads'[p].pc # "copy"
             /\ Dir \notin paths => uploads'[p] = uploads[p]
             /\ \/ uploads'[p].pc = uploads[p].pc
                \/ uploads[p].pc = "copy" /\ uploads'[p].pc = "lost"
  <2>1. CASE Dir \in paths /\ at(p, "copy")
    <3>1. uploads[p] # NoUpload
      BY <2>1 DEF at, NoUpload
    <3>2. uploads'[p] = [uploads[p] EXCEPT !.pc = "lost"]
      BY <2>1 DEF removeAll
    <3> QED BY <1>0, <2>1, <3>1, <3>2, UploadMoves DEF at
  <2>2. CASE ~(Dir \in paths /\ at(p, "copy"))
    <3>1. uploads'[p] = uploads[p]
      BY <2>2 DEF removeAll
    <3> QED BY <1>0, <2>2, <3>1 DEF at
  <2> QED BY <2>1, <2>2
<1>3. uploads' \in [Files -> Uploads]
  <2>1. uploads' = [p \in Files |-> uploads'[p]]
    BY DEF removeAll
  <2> QED BY <1>2, <2>1
<1>4. Dir \notin paths => uploads' = uploads
  <2>1. uploads = [p \in Files |-> uploads[p]]
    BY <1>0
  <2> QED BY <2>1 DEF removeAll
<1> QED BY <1>1, <1>2, <1>3, <1>4

\* What a tick leaves of a path.
LEMMA AfterExpireEntry ==
    ASSUME TypeOK, NEW p \in Paths
    PROVE  /\ afterExpire(p) \in Entries \cup {NoEntry}
           /\ afterExpire(p) = NoEntry <=> ~tracked(p) \/ expires(p)
           /\ tracked(p) /\ ~expires(p) => afterExpire(p).path = p
           /\ noticesClose(p) => afterExpire(p).keep = NoChannel /\ afterExpire(p).left = KeepDelay
           /\ tracked(p) /\ ~expires(p) /\ ~noticesClose(p) => afterExpire(p) = files[p]
<1>1. CASE ~tracked(p)
  BY <1>1 DEF afterExpire, noticesClose, expires, tracked
<1>2. CASE tracked(p) /\ noticesClose(p)
  <2>1. files[p] \in Entries /\ files[p].path = p
    BY <1>2, TrackedEntry
  <2>2. afterExpire(p) = [files[p] EXCEPT !.keep = NoChannel, !.left = KeepDelay]
    BY <1>2 DEF afterExpire
  <2>3. /\ afterExpire(p) \in Entries /\ afterExpire(p).path = p
        /\ afterExpire(p).keep = NoChannel /\ afterExpire(p).left = KeepDelay
    <3>1. KeepDelay \in 0..(Lifetime + KeepDelay)
      OBVIOUS
    <3>2. NoChannel \in Channels \cup {NoChannel}
      OBVIOUS
    <3> HIDE IntervalsAssumption, ChannelAssumption, DeadlinesAssumption
    <3> QED BY <2>1, <2>2, <3>1, <3>2 DEF Entries
  <2>4. afterExpire(p) # NoEntry
    <3>1. DOMAIN afterExpire(p) = {"path", "left", "keep"}
      BY <2>3 DEF Entries
    <3> QED BY <3>1 DEF NoEntry
  <2>5. ~expires(p)
    BY <1>2 DEF noticesClose, expires
  <2> QED BY <1>2, <2>3, <2>4, <2>5
<1>3. CASE tracked(p) /\ ~noticesClose(p)
  BY <1>3, TrackedEntry DEF afterExpire, tracked
<1> QED BY <1>1, <1>2, <1>3

\* Time passing leaves a tracked path tracked, with less time.
LEMMA AdvanceEntry ==
    ASSUME TypeOK, NEW p \in Paths, tracked(p)
    PROVE  LET later == [files[p] EXCEPT !.left = less(@)]
           IN  /\ later \in Entries /\ later # NoEntry /\ later.path = p
               /\ later.keep = files[p].keep /\ later.left = less(files[p].left)
<1> DEFINE later == [files[p] EXCEPT !.left = less(@)]
<1>1. files[p] \in Entries /\ files[p].path = p /\ files[p].left \in 0..(Lifetime + KeepDelay)
  BY TrackedEntry
<1>2. less(files[p].left) \in 0..(Lifetime + KeepDelay)
  BY <1>1 DEF less
<1>3. /\ later \in Entries /\ later.path = p
      /\ later.keep = files[p].keep /\ later.left = less(files[p].left)
  BY <1>1, <1>2 DEF Entries
<1>4. DOMAIN later = {"path", "left", "keep"}
  BY <1>3 DEF Entries
<1> QED BY <1>3, <1>4 DEF NoEntry

\* KeepFile, whoever calls it: what it changes of the state keeps its type.
LEMMA KeepTypes ==
    ASSUME TypeOK, NEW p \in Paths, NEW c \in Channels, keep(p, c)
    PROVE  /\ UNCHANGED <<files, timer, tick, stopped, open, disk>>
           /\ add' \in {<<>>} \cup {<<entry>> : entry \in Entries}
           /\ keeper' \in [Paths -> Channels \cup {NoChannel}]
           /\ grace' \in [Paths -> 0..KeepDelay] /\ promise' \in [Files -> 0..Lifetime]
<1>1. [path |-> p, left |-> 0, keep |-> c] \in Entries
  BY DEF Entries
<1>2. grace' \in [Paths -> 0..KeepDelay]
  <2>1. 0 \in 0..KeepDelay /\ KeepDelay \in 0..KeepDelay
    OBVIOUS
  <2> HIDE IntervalsAssumption, DeadlinesAssumption
  <2> QED BY <2>1 DEF keep, TypeOK
<1>3. promise' \in [Files -> 0..Lifetime]
  <2>1. 0 \in 0..Lifetime
    OBVIOUS
  <2> QED BY <2>1 DEF keep, TypeOK
<1>4. keeper' \in [Paths -> Channels \cup {NoChannel}]
  BY DEF keep, TypeOK
<1> QED BY <1>1, <1>2, <1>3, <1>4 DEF keep, send

\* The registry's map, its channel and the handlers' calls keep their types.
THEOREM TypeCorrect == Spec => []TypeOK
<1>1. Init => TypeOK
  <2>1. 0 \in 0..KeepDelay /\ 0 \in 0..Lifetime /\ ExpireInterval \in 1..ExpireInterval
    OBVIOUS
  <2>2. NoUpload \in Uploads
    BY DEF Uploads
  <2> QED BY <2>1, <2>2 DEF Init, TypeOK, tracked
<1>2. TypeOK /\ [Next]_vars => TypeOK'
  <2> SUFFICES ASSUME TypeOK, [Next]_vars PROVE TypeOK'
    OBVIOUS
  <2>0. uploads \in [Files -> Uploads]
    BY DEF TypeOK
  <2>1. ASSUME NEW p \in Files, NEW c \in Channels, StartUpload(p, c) PROVE TypeOK'
    <3>1. [pc |-> "keepdir", alive |-> c] \in Uploads
      BY DEF Uploads, Steps
    <3>2. uploads' \in [Files -> Uploads]
      BY <2>0, <2>1, <3>1 DEF StartUpload
    <3> QED BY <2>1, <3>2 DEF StartUpload, registry, history, TypeOK, tracked
  <2>2. ASSUME NEW p \in Files, KeepDirectory(p) \/ KeepThumbnail(p) PROVE TypeOK'
    <3>1. uploads[p] # NoUpload /\ uploads[p].alive \in Channels
      BY <2>2, UploadFields DEF KeepDirectory, KeepThumbnail, at, Steps
    <3> PICK q \in Paths : keep(q, uploads[p].alive) /\ UNCHANGED call
      BY <2>2, FilePaths DEF KeepDirectory, KeepThumbnail
    <3>2. uploads' \in [Files -> Uploads]
      <4> PICK pc \in Steps : uploads' = [uploads EXCEPT ![p].pc = pc]
        BY <2>2 DEF KeepDirectory, KeepThumbnail, Steps
      <4> QED BY <2>0, <3>1, UploadMoves
    <3> QED BY <3>1, <3>2, KeepTypes DEF TypeOK, tracked
  <2>3. ASSUME NEW p \in Files, RegisterFile(p) PROVE TypeOK'
    <3>1. uploads[p] # NoUpload /\ "open" \in Steps
      BY <2>3, UploadFields DEF RegisterFile, at, Steps
    <3>2. [path |-> p, left |-> Lifetime, keep |-> NoChannel] \in Entries
      BY FilePaths DEF Entries
    <3>3. uploads' \in [Files -> Uploads]
      BY <2>0, <2>3, <3>1, UploadMoves DEF RegisterFile
    <3>4. promise' \in [Files -> 0..Lifetime]
      BY <2>3 DEF RegisterFile, TypeOK
    <3> QED BY <2>3, <3>2, <3>3, <3>4 DEF RegisterFile, send, TypeOK, tracked
  <2>4. ASSUME NEW p \in Files, OpenFile(p) \/ CopyFile(p) \/ CopyFails(p) PROVE TypeOK'
    <3>1. uploads' \in [Files -> Uploads]
      <4>1. CASE OpenFile(p)
        <5>1. uploads[p] # NoUpload /\ "copy" \in Steps
          BY <4>1, UploadFields DEF OpenFile, at, Steps
        <5> QED BY <2>0, <4>1, <5>1, UploadMoves DEF OpenFile
      <4>2. CASE CopyFile(p) \/ CopyFails(p)
        BY <2>0, <4>2 DEF CopyFile, CopyFails, Uploads
      <4> QED BY <2>4, <4>1, <4>2
    <3> QED BY <2>4, <3>1 DEF OpenFile, CopyFile, CopyFails, registry, history, TypeOK, tracked
  <2>4a. ASSUME NEW p \in Paths, NEW c \in Channels, KeepFile(p, c) PROVE TypeOK'
    <3>1. call' \in Calls
      BY <2>4a DEF KeepFile, Calls
    <3> QED BY <2>4a, <3>1 DEF KeepFile, registry, history, TypeOK, tracked
  <2>4b. CASE SendKeep
    <3>1. call.path \in Paths /\ call.keep \in Channels /\ keep(call.path, call.keep)
      BY <2>4b, CallFields DEF SendKeep
    <3> QED BY <2>4b, <3>1, KeepTypes DEF SendKeep, TypeOK, tracked
  <2>5. ASSUME NEW c \in Channels, CloseChannel(c) PROVE TypeOK'
    BY <2>5 DEF CloseChannel, registry, TypeOK, tracked
  <2>6. ASSUME NEW c \in Channels, MakeChannel(c) PROVE TypeOK'
    BY <2>6 DEF MakeChannel, registry, TypeOK, tracked
  <2>7. CASE Receive
    <3>1. add[1] \in Entries /\ add[1].path \in Paths
      BY <2>7, PendingEntry DEF Receive
    <3>2. files' \in [Paths -> Entries \cup {NoEntry}]
      BY <2>7, <3>1 DEF Receive, TypeOK
    <3>3. \A p \in Paths : tracked(p)' => files'[p].path = p
      BY <2>7, <3>1 DEF Receive, TypeOK, tracked
    <3> QED BY <2>7, <3>2, <3>3 DEF Receive, history, TypeOK
  <2>8. CASE Expire
    <3>1. files' \in [Paths -> Entries \cup {NoEntry}]
      BY <2>8, AfterExpireEntry DEF Expire
    <3>2. \A p \in Paths : tracked(p)' => files'[p].path = p
      BY <2>8, AfterExpireEntry DEF Expire, tracked
    <3>3. disk' \subseteq disk /\ uploads' \in [Files -> Uploads]
      BY <2>8, RemoveAllFacts DEF Expire
    <3> QED BY <2>8, <3>1, <3>2, <3>3 DEF Expire, history, TypeOK
  <2>9. CASE Cleanup
    <3>1. disk' \subseteq disk /\ uploads' \in [Files -> Uploads]
      BY <2>9, RemoveAllFacts DEF Cleanup
    <3> QED BY <2>9, <3>1 DEF Cleanup, history, TypeOK, tracked
  <2>10. CASE Advance
    <3>1. files' \in [Paths -> Entries \cup {NoEntry}]
      BY <2>10, AdvanceEntry DEF Advance
    <3>2. \A p \in Paths : tracked(p)' => files'[p].path = p
      BY <2>10, AdvanceEntry DEF Advance, tracked
    <3>5. grace' \in [Paths -> 0..KeepDelay] /\ promise' \in [Files -> 0..Lifetime]
      <4>1. \A n \in 0..KeepDelay : less(n) \in 0..KeepDelay
        BY DEF less
      <4>2. \A n \in 0..Lifetime : less(n) \in 0..Lifetime
        BY DEF less
      <4> QED BY <2>10, <4>1, <4>2 DEF Advance, TypeOK
    <3>6. timer' \in 1..ExpireInterval /\ tick' \in BOOLEAN
      <4>1. \A n \in 1..ExpireInterval : (IF n = 1 THEN ExpireInterval ELSE n - 1) \in 1..ExpireInterval
        OBVIOUS
      <4>2. tick' \in BOOLEAN
        BY <2>10 DEF Advance
      <4> QED BY <2>10, <4>1, <4>2 DEF Advance, TypeOK
    <3> QED BY <2>10, <3>1, <3>2, <3>5, <3>6 DEF Advance, TypeOK
  <2>11. CASE UNCHANGED vars
    BY <2>11 DEF vars, registry, history, TypeOK, tracked
  <2> QED BY <2>1, <2>2, <2>3, <2>4, <2>4a, <2>4b, <2>5, <2>6, <2>7, <2>8, <2>9, <2>10, <2>11
          DEF Next, Handle, Exit
<1> QED BY <1>1, <1>2, PTL DEF Spec

\* Who sends: a KeepFile, of a HandleFile call or of a playlist request, for a path
\* and with a channel.
LEMMA KeepCalls ==
    ASSUME TypeOK, SendKeep \/ \E p \in Files : KeepDirectory(p) \/ KeepThumbnail(p)
    PROVE  /\ \E q \in Paths, c \in Channels : keep(q, c)
           /\ \A p \in Files : uploads'[p] # uploads[p] => uploads'[p].pc \in {"keepfile", "register"}
           /\ \A p \in Files : uploads'[p] = uploads[p] \/ uploads[p].pc = "keepfile" \/ pending(Dir)'
<1>0. uploads \in [Files -> Uploads]
  BY DEF TypeOK
<1>1. CASE SendKeep
  BY <1>1, CallFields DEF SendKeep
<1>2. ASSUME NEW p \in Files, KeepDirectory(p) \/ KeepThumbnail(p)
      PROVE  /\ \E q \in Paths, c \in Channels : keep(q, c)
             /\ \A q \in Files : uploads'[q] # uploads[q] => uploads'[q].pc \in {"keepfile", "register"}
             /\ \A q \in Files : uploads'[q] = uploads[q] \/ uploads[q].pc = "keepfile" \/ pending(Dir)'
  <2>1. uploads[p] # NoUpload /\ uploads[p].alive \in Channels
    BY <1>2, UploadFields DEF KeepDirectory, KeepThumbnail, at, Steps
  <2>2. \E q \in Paths, c \in Channels : keep(q, c)
    BY <1>2, <2>1, FilePaths DEF KeepDirectory, KeepThumbnail
  <2>3. PICK pc \in {"keepfile", "register"} : uploads' = [uploads EXCEPT ![p].pc = pc]
    BY <1>2 DEF KeepDirectory, KeepThumbnail
  <2>4. \A q \in Files : q # p => uploads'[q] = uploads[q]
    BY <1>0, <2>3
  <2>5. uploads'[p].pc = pc
    BY <1>0, <2>1, <2>3, UploadMoves DEF Steps
  <2>6. uploads[p].pc = "keepfile" \/ pending(Dir)'
    <3>1. CASE KeepDirectory(p)
      BY <3>1 DEF KeepDirectory, keep, send, pending
    <3>2. CASE KeepThumbnail(p)
      BY <3>2 DEF KeepThumbnail, at
    <3> QED BY <1>2, <3>1, <3>2
  <2> QED BY <2>2, <2>4, <2>5, <2>6
<1> QED BY <1>1, <1>2

\* A deadline keeps the whole lifetime until it is received: no time passes while
\* the slot of r.add is taken.
THEOREM SentWithLifetime == Spec => []SendInv
<1>1. Init => SendInv
  BY DEF Init, SendInv
<1>2. TypeOK /\ SendInv /\ [Next]_vars => SendInv'
  <2> SUFFICES ASSUME TypeOK, SendInv, [Next]_vars PROVE SendInv'
    OBVIOUS
  <2>1. CASE SendKeep \/ \E p \in Files : KeepDirectory(p) \/ KeepThumbnail(p)
    <3> PICK q \in Paths, c \in Channels : keep(q, c)
      BY <2>1, KeepCalls
    <3> QED BY DEF keep, send, SendInv
  <2>2. ASSUME NEW p \in Files, RegisterFile(p) PROVE SendInv'
    BY <2>2 DEF RegisterFile, send, SendInv
  <2>3. ASSUME NEW p \in Files, OpenFile(p) \/ CopyFile(p) \/ CopyFails(p) PROVE SendInv'
    BY <2>3 DEF OpenFile, CopyFile, CopyFails, registry, SendInv
  <2>4. ASSUME NEW p \in Paths, NEW c \in Channels,
               (p \in Files /\ StartUpload(p, c)) \/ KeepFile(p, c)
        PROVE  SendInv'
    BY <2>4 DEF StartUpload, KeepFile, registry, SendInv
  <2>5. ASSUME NEW c \in Channels, CloseChannel(c) \/ MakeChannel(c) PROVE SendInv'
    BY <2>5 DEF CloseChannel, MakeChannel, registry, SendInv
  <2>6. CASE Receive \/ Expire \/ Cleanup \/ Advance
    BY <2>6 DEF Receive, Expire, Cleanup, Advance, SendInv
  <2>7. CASE UNCHANGED vars
    BY <2>7 DEF vars, registry, SendInv
  <2> QED BY <2>1, <2>2, <2>3, <2>4, <2>5, <2>6, <2>7, FilePaths DEF Next, Handle, Exit
<1> QED BY <1>1, <1>2, TypeCorrect, PTL DEF Spec

\* Receiving an entry: the path it is for is tracked afterwards, the others are
\* as they were.
LEMMA ReceiveEntry ==
    ASSUME TypeOK, Receive
    PROVE  /\ \A p \in Paths : p # add[1].path => files'[p] = files[p]
           /\ accepts(add[1]) => files'[add[1].path] = add[1]
           /\ ~accepts(add[1]) => files' = files
           /\ add[1] \in Entries /\ add[1] # NoEntry /\ add[1].path \in Paths
           /\ add' = <<>>
<1>1. add[1] \in Entries /\ add[1].path \in Paths
  BY PendingEntry DEF Receive
<1>2. DOMAIN add[1] = {"path", "left", "keep"}
  BY <1>1 DEF Entries
<1>3. add[1] # NoEntry
  BY <1>2 DEF NoEntry
<1> QED BY <1>1, <1>3 DEF Receive, TypeOK

\* What time passing does to the registry.
LEMMA AdvanceFacts ==
    ASSUME TypeOK, Advance, NEW p \in Paths
    PROVE  /\ add = <<>> /\ add' = <<>>
           /\ tracked(p)' <=> tracked(p)
           /\ tracked(p) => files'[p].keep = files[p].keep /\ files'[p].left = less(files[p].left)
<1>1. add = <<>> /\ add' = <<>>
  BY DEF Advance, Busy
<1>2. CASE tracked(p)
  <2>1. files'[p] = [files[p] EXCEPT !.left = less(@)]
    BY <1>2 DEF Advance
  <2> QED BY <1>1, <1>2, <2>1, AdvanceEntry DEF tracked
<1>3. CASE ~tracked(p)
  BY <1>1, <1>3 DEF Advance, tracked
<1> QED BY <1>2, <1>3

\* The directory stays known from KeepDirectory on: no time passes until the temporary
\* file is open, and from there the directory is only forgotten together with it.
LEMMA OrphanStep == TypeOK /\ SendInv /\ OrphanInv /\ [Next]_vars => OrphanInv'
<1> SUFFICES ASSUME TypeOK, SendInv, OrphanInv, [Next]_vars, ~stopped' PROVE OrphanInv'
  BY DEF OrphanInv
<1> DEFINE early(p) == uploads[p].pc \in {"keepfile", "register", "open"}
           fresh == pending(Dir) \/ (tracked(Dir) /\ InTime(Dir))
           there == pending(Dir) \/ tracked(Dir)
<1>0. uploads \in [Files -> Uploads] /\ disk \subseteq Files
  BY DEF TypeOK
<1>s. /\ ~stopped
      /\ \A p \in Files : (early(p) => fresh) /\ (uploads[p].pc = "copy" => there)
      /\ disk # {} => there
  <2>1. ~stopped
    BY DEF Next, Handle, StartUpload, KeepDirectory, KeepThumbnail, RegisterFile, OpenFile, CopyFile,
           CopyFails, KeepFile, SendKeep, keep, CloseChannel, MakeChannel, Receive, Expire, Cleanup,
           Advance, Exit, registry, vars
  <2> QED BY <2>1 DEF OrphanInv
<1>g. /\ \A p \in Files : (early(p)' => fresh') /\ (uploads'[p].pc = "copy" => there')
      /\ disk' # {} => there'
      => OrphanInv'
  BY DEF OrphanInv
<1>1. ASSUME NEW p \in Files, NEW c \in Channels, StartUpload(p, c) PROVE OrphanInv'
  <2>1. \A q \in Files : uploads'[q] = uploads[q] \/ uploads'[q].pc = "keepdir"
    BY <1>0, <1>1 DEF StartUpload
  <2>2. (fresh' <=> fresh) /\ (there' <=> there) /\ disk' = disk
    BY <1>1 DEF StartUpload, registry, pending, tracked, InTime
  <2> QED BY <1>s, <1>g, <2>1, <2>2
<1>2. CASE SendKeep \/ \E p \in Files : KeepDirectory(p) \/ KeepThumbnail(p)
  <2> PICK q \in Paths, c \in Channels : keep(q, c)
    BY <1>2, KeepCalls
  <2>1. (fresh => fresh') /\ (there => there') /\ disk' = disk /\ (pending(Dir)' => fresh' /\ there')
    BY DEF keep, send, pending, tracked, InTime
  <2>2. \A p \in Files : \/ uploads'[p] = uploads[p]
                         \/ /\ uploads'[p].pc \in {"keepfile", "register"}
                            /\ uploads[p].pc = "keepfile" \/ pending(Dir)'
    BY <1>2, KeepCalls
  <2> QED BY <1>s, <1>g, <2>1, <2>2
<1>3. ASSUME NEW p \in Files, RegisterFile(p) \/ OpenFile(p) PROVE OrphanInv'
  <2>1. early(p) /\ \A q \in Files : q # p => uploads'[q] = uploads[q]
    BY <1>0, <1>3 DEF RegisterFile, OpenFile, at
  <2>2. (fresh => fresh') /\ (there => there') /\ (fresh' => there') /\ disk' = disk
    BY <1>3 DEF RegisterFile, OpenFile, send, registry, pending, tracked, InTime
  <2> QED BY <1>s, <1>g, <2>1, <2>2
<1>4. ASSUME NEW p \in Files, CopyFile(p) \/ CopyFails(p) PROVE OrphanInv'
  <2>1. \A q \in Files : uploads'[q] = uploads[q] \/ uploads'[q].pc = "none"
    BY <1>0, <1>4 DEF CopyFile, CopyFails, NoUpload
  <2>2. (fresh' <=> fresh) /\ (there' <=> there) /\ (disk' = disk \/ uploads[p].pc = "copy")
    BY <1>4 DEF CopyFile, CopyFails, at, registry, pending, tracked, InTime
  <2> QED BY <1>s, <1>g, <2>1, <2>2
<1>5. ASSUME NEW p \in Paths, NEW c \in Channels, KeepFile(p, c) PROVE OrphanInv'
  BY <1>5, <1>s DEF KeepFile, registry, OrphanInv, pending, tracked, InTime
<1>6. ASSUME NEW c \in Channels, CloseChannel(c) \/ MakeChannel(c) PROVE OrphanInv'
  BY <1>6, <1>s DEF CloseChannel, MakeChannel, registry, OrphanInv, pending, tracked, InTime
<1>7. CASE Receive
  <2>1. uploads' = uploads /\ disk' = disk
    BY <1>7 DEF Receive
  <2>2. CASE pending(Dir)
    <3>1. files'[Dir] = add[1] /\ add[1].keep # NoChannel
      BY <1>7, <2>2, ReceiveEntry DEF SendInv, accepts, pending
    <3>2. tracked(Dir)' /\ InTime(Dir)'
      BY <1>7, <3>1, ReceiveEntry DEF tracked, InTime
    <3> QED BY <1>g, <3>2
  <2>3. CASE ~pending(Dir)
    <3>1. files'[Dir] = files[Dir]
      BY <1>7, <2>3, FilePaths, ReceiveEntry DEF pending, Receive
    <3>2. (fresh => fresh') /\ (there => there')
      BY <2>3, <3>1 DEF tracked, InTime
    <3> QED BY <1>s, <1>g, <2>1, <3>2
  <2> QED BY <2>2, <2>3
<1>8. CASE Expire
  <2> DEFINE gone == {p \in Paths : expires(p)}
  <2>0. removeAll(gone) /\ add' = add /\ files'[Dir] = afterExpire(Dir) /\ (pending(Dir)' <=> pending(Dir))
    BY <1>8, FilePaths DEF Expire, pending
  <2>a. \A p \in Files : \/ uploads'[p].pc = uploads[p].pc
                         \/ uploads[p].pc = "copy" /\ uploads'[p].pc = "lost"
    BY <2>0, RemoveAllFacts
  <2>1. fresh => fresh'
    <3> SUFFICES ASSUME tracked(Dir), InTime(Dir) PROVE tracked(Dir)' /\ InTime(Dir)'
      BY <2>0
    <3>1. ~expires(Dir)
      BY FilePaths, TrackedEntry DEF expires, InTime
    <3>2. CASE noticesClose(Dir)
      BY <2>0, <3>1, <3>2, FilePaths, AfterExpireEntry DEF tracked, InTime
    <3>3. CASE ~noticesClose(Dir)
      BY <2>0, <3>1, <3>3, FilePaths, AfterExpireEntry DEF tracked, InTime
    <3> QED BY <3>2, <3>3
  <2>2. CASE expires(Dir)
    <3>1. Dir \in gone
      BY <2>2, FilePaths
    <3>2. disk' = {} /\ \A p \in Files : uploads'[p].pc # "copy"
      BY <2>0, <3>1, RemoveAllFacts
    <3> QED BY <1>s, <1>g, <2>a, <2>1, <3>2
  <2>3. CASE ~expires(Dir)
    <3>1. there => there'
      BY <2>0, <2>3, FilePaths, AfterExpireEntry DEF tracked
    <3>2. disk' \subseteq disk
      BY <2>0, RemoveAllFacts
    <3> QED BY <1>s, <1>g, <2>a, <2>1, <3>1, <3>2
  <2> QED BY <2>2, <2>3
<1>9. CASE Advance
  <2>1. (there => there') /\ UNCHANGED <<uploads, disk>> /\ \A p \in Files : ~early(p)
    BY <1>9, FilePaths, AdvanceFacts DEF Advance, Busy, pending
  <2> QED BY <1>s, <1>g, <2>1
<1>10. CASE UNCHANGED vars
  BY <1>10, <1>s DEF vars, registry, OrphanInv, pending, tracked, InTime
<1> QED BY <1>1, <1>2, <1>3, <1>4, <1>5, <1>6, <1>7, <1>8, <1>9, <1>10 DEF Next, Handle, Exit, Cleanup

\* No file on disk is forgotten, however long its copy took: the directory it is in
\* is known, in r.files or in r.add.
THEOREM NoFileOrphaned == Spec => []NoOrphan
<1>1. Init => OrphanInv
  BY DEF Init, OrphanInv, NoUpload
<1>2. TypeOK /\ OrphanInv => NoOrphan
  <2> SUFFICES ASSUME TypeOK, OrphanInv, ~stopped, disk # {} PROVE known(Dir)
    BY DEF NoOrphan
  <2>2. CASE tracked(Dir)
    BY <2>2, FilePaths, TrackedEntry DEF known, entriesOf
  <2>3. CASE pending(Dir)
    <3>1. 1 \in DOMAIN add
      BY <2>3, PendingEntry DEF pending
    <3> QED BY <2>3, <3>1 DEF pending, known, entriesOf
  <2> QED BY <2>2, <2>3 DEF OrphanInv
<1> QED BY <1>1, <1>2, OrphanStep, TypeCorrect, SentWithLifetime, PTL DEF Spec

\* KeepFile and MakeChannel are the only calls that change the keeper of a path.
LEMMA KeeperStep == TypeOK /\ KeeperInv /\ [Next]_vars => KeeperInv'
<1> SUFFICES ASSUME TypeOK, KeeperInv, [Next]_vars PROVE KeeperInv'
  OBVIOUS
<1>0. /\ keeper \in [Paths -> Channels \cup {NoChannel}] /\ promise \in [Files -> 0..Lifetime]
      /\ grace \in [Paths -> 0..KeepDelay]
  BY DEF TypeOK
<1> USE DEF KeeperInv, pendingKeep, pending
<1>1. ASSUME NEW p \in Files, OpenFile(p) \/ CopyFile(p) \/ CopyFails(p) PROVE KeeperInv'
  BY <1>1 DEF OpenFile, CopyFile, CopyFails, registry, history
<1>2. ASSUME NEW p \in Files, RegisterFile(p) PROVE KeeperInv'
  BY <1>2 DEF RegisterFile, send
<1>3. CASE SendKeep \/ \E p \in Files : KeepDirectory(p) \/ KeepThumbnail(p)
  <2> PICK q \in Paths, c \in Channels : keep(q, c)
    BY <1>3, KeepCalls
  <2> SUFFICES ASSUME NEW p \in Paths, pendingKeep(p)'
               PROVE  /\ \/ keeper'[p] = add'[1].keep
                         \/ keeper'[p] = NoChannel /\ grace'[p] = 0
                      /\ p \in Files => promise'[p] = 0
    OBVIOUS
  <2>1. p = q /\ add'[1].keep = c
    BY DEF keep, send
  <2>2. /\ keeper'[q] = IF InTime(q) THEN c ELSE NoChannel
        /\ ~InTime(q) => grace'[q] = 0
        /\ q \in Files => promise'[q] = 0
    BY <1>0 DEF keep
  <2> QED BY <2>1, <2>2
<1>4. ASSUME NEW c \in Channels, CloseChannel(c) \/ MakeChannel(c) PROVE KeeperInv'
  BY <1>0, <1>4 DEF CloseChannel, MakeChannel, registry
<1>5. CASE Receive \/ Expire \/ Cleanup
  BY <1>5 DEF Receive, Expire, Cleanup, history
<1>6. CASE Advance
  BY <1>6 DEF Advance, Busy
<1>7. CASE UNCHANGED vars
  BY <1>7 DEF vars, registry, history
<1>8. ASSUME NEW p \in Paths, NEW c \in Channels,
             (p \in Files /\ StartUpload(p, c)) \/ KeepFile(p, c)
      PROVE  KeeperInv'
  BY <1>8 DEF StartUpload, KeepFile, registry, history
<1> QED BY <1>1, <1>2, <1>3, <1>4, <1>5, <1>6, <1>7, <1>8, FilePaths DEF Next, Handle, Exit

\* The channel that protects a path is handed on from r.add to r.files and from
\* there to the deadline a tick sets, and nothing else takes its place.
LEMMA KeptStep ==
    ASSUME TypeOK, SendInv, KeeperInv, [Next]_vars, NEW p \in Paths, KeptInv(p)
    PROVE  KeptInv(p)'
<1> DEFINE inSlot == pendingKeep(p) /\ InTime(p)
           inMap  == tracked(p) /\ files[p].keep # NoChannel /\ files[p].keep = keeper[p]
                        /\ ~pendingKeep(p)
           closed == /\ tracked(p) /\ files[p].keep = NoChannel /\ files[p].left >= grace[p]
                     /\ keeper[p] \notin open /\ ~pendingKeep(p)
<1>0. /\ keeper \in [Paths -> Channels \cup {NoChannel}] /\ grace \in [Paths -> 0..KeepDelay]
      /\ open \subseteq Channels
  BY DEF TypeOK
<1> USE DEF kept
<1>k. keeper[p] \in open \/ grace[p] > 0 => inSlot \/ inMap \/ closed
  BY DEF KeptInv
<1>1. ASSUME NEW q \in Files, OpenFile(q) \/ CopyFile(q) \/ CopyFails(q) PROVE KeptInv(p)'
  BY <1>1, <1>k DEF OpenFile, CopyFile, CopyFails, registry, history, KeptInv, pendingKeep, pending,
                    InTime, tracked
<1>1a. ASSUME NEW q \in Paths, NEW c \in Channels,
              (q \in Files /\ StartUpload(q, c)) \/ KeepFile(q, c)
       PROVE  KeptInv(p)'
  BY <1>1a, <1>k DEF StartUpload, KeepFile, registry, history, KeptInv, pendingKeep, pending, InTime,
                     tracked
<1>2. ASSUME NEW q \in Files, RegisterFile(q) PROVE KeptInv(p)'
  BY <1>2, <1>k DEF RegisterFile, send, KeptInv, pendingKeep, pending, InTime, tracked
<1>3. ASSUME NEW q \in Paths, NEW c \in Channels, keep(q, c) PROVE KeptInv(p)'
  <2>1. CASE p = q
    <3>1. /\ keeper'[p] = IF InTime(p) THEN c ELSE NoChannel
          /\ ~InTime(p) => grace'[p] = 0
          /\ open' = open
      BY <1>0, <1>3, <2>1 DEF keep
    <3>2. InTime(p) => inSlot'
      BY <1>3, <2>1 DEF keep, send, pendingKeep, pending, InTime, tracked
    <3> QED BY <1>0, <3>1, <3>2 DEF KeptInv
  <2>2. CASE p # q
    <3>1. keeper'[p] = keeper[p] /\ grace'[p] = grace[p] /\ open' = open /\ files' = files
      BY <1>0, <1>3, <2>2 DEF keep
    <3>2. ~pendingKeep(p) /\ ~pendingKeep(p)'
      BY <1>3, <2>2 DEF keep, send, pendingKeep, pending
    <3> QED BY <1>k, <3>1, <3>2 DEF KeptInv, tracked
  <2> QED BY <2>1, <2>2
<1>4. ASSUME NEW c \in Channels, CloseChannel(c) PROVE KeptInv(p)'
  BY <1>0, <1>4, <1>k DEF CloseChannel, registry, KeptInv, pendingKeep, pending, InTime, tracked
<1>5. ASSUME NEW c \in Channels, MakeChannel(c) PROVE KeptInv(p)'
  <2>0. UNCHANGED <<files, add, grace>> /\ open' = open \cup {c}
    BY <1>5 DEF MakeChannel, registry
  <2>1. keeper'[p] = IF keeper[p] = c THEN NoChannel ELSE keeper[p]
    BY <1>5 DEF MakeChannel
  <2>2. (tracked(p) => files[p].keep # c) /\ (add # <<>> => add[1].keep # c)
    BY <1>5 DEF MakeChannel
  <2>3. keeper'[p] \in open' \/ grace'[p] > 0 => keeper[p] \in open \/ grace[p] > 0
    BY <1>0, <2>0, <2>1
  <2> QED BY <1>0, <1>k, <2>0, <2>1, <2>2, <2>3 DEF KeptInv, pendingKeep, pending, InTime, tracked
<1>6. CASE Receive
  <2>0. /\ UNCHANGED <<keeper, grace, open>> /\ ~pendingKeep(p)' /\ add # <<>>
    BY <1>6 DEF Receive, history, pendingKeep, pending
  <2>1. CASE inSlot
    <3>1. files'[p] = add[1] /\ add[1].keep # NoChannel
      BY <1>6, <2>1, ReceiveEntry DEF accepts, pendingKeep, pending
    <3>2. tracked(p)' /\ files'[p].keep # NoChannel
      BY <1>6, <3>1, ReceiveEntry DEF tracked
    <3>3. keeper[p] = add[1].keep \/ (keeper[p] = NoChannel /\ grace[p] = 0)
      BY <2>1 DEF KeeperInv
    <3> QED BY <1>0, <2>0, <3>1, <3>2, <3>3 DEF KeptInv
  <2>2. CASE inMap
    <3>1. files'[p] = files[p]
      BY <1>6, <2>0, <2>2, ReceiveEntry DEF accepts, pendingKeep, pending
    <3> QED BY <2>0, <2>2, <3>1 DEF KeptInv, tracked
  <2>3. CASE closed
    <3>1. CASE pending(p)
      <4>1. add[1].keep = NoChannel /\ add[1].left = Lifetime
        BY <2>0, <2>3, <3>1 DEF SendInv, pendingKeep, pending
      <4>2. files'[p] = add[1]
        BY <1>6, <2>3, <3>1, <4>1, ReceiveEntry DEF accepts, pending
      <4>3. tracked(p)'
        BY <1>6, <4>2, ReceiveEntry DEF tracked
      <4>4. grace[p] <= Lifetime
        BY <1>0
      <4> QED BY <2>0, <2>3, <4>1, <4>2, <4>3, <4>4 DEF KeptInv
    <3>2. CASE ~pending(p)
      <4>1. files'[p] = files[p]
        BY <1>6, <2>0, <3>2, ReceiveEntry DEF pending
      <4> QED BY <2>0, <2>3, <4>1 DEF KeptInv, tracked
    <3> QED BY <3>1, <3>2
  <2> QED BY <1>k, <2>0, <2>1, <2>2, <2>3 DEF KeptInv
<1>7. CASE Expire
  <2>0. UNCHANGED <<keeper, grace, open, add>> /\ files'[p] = afterExpire(p)
    BY <1>7 DEF Expire, history
  <2>1. pendingKeep(p)' <=> pendingKeep(p)
    BY <2>0 DEF pendingKeep, pending
  <2>2. CASE inSlot
    <3>1. ~expires(p)
      BY <2>2, TrackedEntry DEF InTime, expires
    <3>2. InTime(p)'
      BY <2>0, <2>2, <3>1, AfterExpireEntry DEF InTime, tracked
    <3> QED BY <2>1, <2>2, <3>2 DEF KeptInv
  <2>3. CASE inMap /\ ~noticesClose(p)
    <3>1. files'[p] = files[p]
      BY <2>0, <2>3, AfterExpireEntry DEF expires
    <3> QED BY <2>0, <2>1, <2>3, <3>1 DEF KeptInv, tracked
  <2>4. CASE inMap /\ noticesClose(p)
    <3>1. files'[p] # NoEntry /\ files'[p].keep = NoChannel /\ files'[p].left = KeepDelay
      BY <2>0, <2>4, AfterExpireEntry DEF noticesClose, expires
    <3>2. keeper[p] \notin open /\ grace[p] <= KeepDelay
      BY <1>0, <2>4 DEF noticesClose
    <3> QED BY <2>0, <2>1, <2>4, <3>1, <3>2 DEF KeptInv, tracked
  <2>5. CASE closed /\ grace[p] > 0
    <3>1. files'[p] = files[p]
      BY <1>0, <2>0, <2>5, TrackedEntry, AfterExpireEntry DEF expires, noticesClose
    <3> QED BY <2>0, <2>1, <2>5, <3>1 DEF KeptInv, tracked
  <2> QED BY <1>k, <2>0, <2>2, <2>3, <2>4, <2>5 DEF KeptInv
<1>8. CASE Cleanup
  BY <1>8, <1>k DEF Cleanup, history, KeptInv, pendingKeep, pending, InTime, tracked
<1>9. CASE Advance
  <2>1. /\ keeper' = keeper /\ open' = open /\ grace'[p] = less(grace[p])
        /\ ~pendingKeep(p) /\ ~pendingKeep(p)'
    BY <1>9, AdvanceFacts DEF Advance, pendingKeep, pending
  <2>2. grace'[p] > 0 => grace[p] > 0 /\ grace'[p] = grace[p] - 1
    BY <1>0, <2>1 DEF less
  <2>3. inMap => inMap'
    BY <1>9, <2>1, AdvanceFacts
  <2>4. closed /\ grace'[p] > 0 => closed'
    <3> SUFFICES ASSUME closed, grace'[p] > 0 PROVE closed'
      OBVIOUS
    <3>1. files[p].left \in 0..(Lifetime + KeepDelay)
      BY TrackedEntry
    <3>2. tracked(p)' /\ files'[p].keep = NoChannel /\ files'[p].left = less(files[p].left)
      BY <1>9, AdvanceFacts
    <3>3. files'[p].left >= grace'[p]
      BY <1>0, <2>2, <3>1, <3>2 DEF less
    <3> QED BY <2>1, <3>2, <3>3
  <2> QED BY <1>0, <1>k, <2>1, <2>2, <2>3, <2>4 DEF KeptInv
<1>10. CASE UNCHANGED vars
  BY <1>10, <1>k DEF vars, registry, history, KeptInv, pendingKeep, pending, InTime, tracked
<1>11. CASE SendKeep \/ \E q \in Files : KeepDirectory(q) \/ KeepThumbnail(q)
  BY <1>3, <1>11, KeepCalls
<1> QED BY <1>1, <1>1a, <1>2, <1>4, <1>5, <1>6, <1>7, <1>8, <1>9, <1>10, <1>11, FilePaths
        DEF Next, Handle, Exit

\* The deadline of a registration that counts is in r.add, then in r.files.
LEMMA PromiseStep ==
    ASSUME TypeOK, SendInv, KeeperInv, [Next]_vars, NEW p \in Files, PromiseInv(p)
    PROVE  PromiseInv(p)'
<1> DEFINE inMap == tracked(p) /\ files[p].keep = NoChannel /\ files[p].left >= promise[p]
<1>0. promise \in [Files -> 0..Lifetime]
  BY DEF TypeOK
<1>p. p \in Paths
  BY FilePaths
<1> USE <1>p
<1>k. promise[p] > 0 => (pendingPlain(p) /\ plain(p)) \/ inMap
  BY DEF PromiseInv
<1>1. ASSUME NEW q \in Files, OpenFile(q) \/ CopyFile(q) \/ CopyFails(q) PROVE PromiseInv(p)'
  BY <1>1, <1>k DEF OpenFile, CopyFile, CopyFails, registry, history, PromiseInv, pendingPlain,
                    pending, plain, InTime, tracked
<1>1a. ASSUME NEW q \in Paths, NEW c \in Channels,
              (q \in Files /\ StartUpload(q, c)) \/ KeepFile(q, c)
       PROVE  PromiseInv(p)'
  BY <1>1a, <1>k DEF StartUpload, KeepFile, registry, history, PromiseInv, pendingPlain, pending,
                     plain, InTime, tracked
<1>2. ASSUME NEW q \in Files, RegisterFile(q) PROVE PromiseInv(p)'
  <2>0. files' = files /\ ~pendingPlain(p) /\ (p = q => pendingPlain(p)')
    BY <1>2 DEF RegisterFile, send, pendingPlain, pending
  <2>1. CASE p = q /\ plain(p)
    BY <2>0, <2>1 DEF PromiseInv, plain, InTime, tracked
  <2>2. CASE ~(p = q /\ plain(p))
    <3>1. promise'[p] = promise[p]
      BY <1>0, <1>2, <2>2 DEF RegisterFile
    <3> QED BY <1>k, <2>0, <3>1 DEF PromiseInv, tracked
  <2> QED BY <2>1, <2>2
<1>3. ASSUME NEW q \in Paths, NEW c \in Channels, keep(q, c) PROVE PromiseInv(p)'
  <2>1. files' = files /\ ~pendingPlain(p) /\ promise'[p] \in {promise[p], 0}
    BY <1>0, <1>3 DEF keep, send, pendingPlain, pending
  <2> QED BY <1>k, <2>1 DEF PromiseInv, tracked
<1>4. ASSUME NEW c \in Channels, CloseChannel(c) \/ MakeChannel(c) PROVE PromiseInv(p)'
  BY <1>4, <1>k DEF CloseChannel, MakeChannel, registry, PromiseInv, pendingPlain, pending, plain,
                    InTime, tracked
<1>5. CASE Receive
  <2>0. promise' = promise /\ add # <<>>
    BY <1>5 DEF Receive, history
  <2>1. CASE promise[p] > 0 /\ pending(p)
    <3>1. add[1].keep = NoChannel /\ add[1].left = Lifetime
      BY <2>0, <2>1 DEF KeeperInv, SendInv, pendingKeep, pending
    <3>2. files'[p] = add[1]
      BY <1>5, <1>k, <2>1, <3>1, ReceiveEntry DEF accepts, pending, plain
    <3>3. tracked(p)' /\ promise[p] <= Lifetime
      BY <1>0, <1>5, <3>2, ReceiveEntry DEF tracked
    <3> QED BY <2>0, <3>1, <3>2, <3>3 DEF PromiseInv
  <2>2. CASE promise[p] > 0 /\ ~pending(p)
    <3>1. files'[p] = files[p]
      BY <1>5, <2>2, ReceiveEntry DEF pending, Receive
    <3> QED BY <1>k, <2>0, <2>2, <3>1 DEF PromiseInv, pendingPlain, tracked
  <2> QED BY <2>0, <2>1, <2>2 DEF PromiseInv
<1>6. CASE Expire
  <2>0. promise' = promise /\ add' = add /\ files'[p] = afterExpire(p)
    BY <1>6 DEF Expire, history
  <2>1. plain(p) => files'[p] = files[p]
    BY <2>0, TrackedEntry, AfterExpireEntry DEF plain, InTime, expires, noticesClose, tracked
  <2>2. promise[p] > 0 /\ inMap => plain(p)
    BY <1>0, TrackedEntry DEF plain, InTime
  <2> QED BY <1>k, <2>0, <2>1, <2>2 DEF PromiseInv, pendingPlain, pending, plain, InTime, tracked
<1>7. CASE Cleanup
  BY <1>7, <1>k DEF Cleanup, history, PromiseInv, pendingPlain, pending, plain, InTime, tracked
<1>8. CASE Advance
  <2>1. promise'[p] = less(promise[p]) /\ ~pendingPlain(p)
    BY <1>8, AdvanceFacts DEF Advance, pendingPlain, pending
  <2> SUFFICES ASSUME promise'[p] > 0 PROVE inMap'
    BY DEF PromiseInv
  <2>2. promise[p] > 0 /\ promise'[p] = promise[p] - 1
    BY <1>0, <2>1 DEF less
  <2>3. inMap
    BY <1>k, <2>1, <2>2
  <2>4. files[p].left \in 0..(Lifetime + KeepDelay)
    BY <2>3, TrackedEntry
  <2>5. tracked(p)' /\ files'[p].keep = NoChannel /\ files'[p].left = less(files[p].left)
    BY <1>8, <2>3, AdvanceFacts
  <2>6. files'[p].left >= promise'[p]
    BY <1>0, <2>2, <2>3, <2>4, <2>5 DEF less
  <2> QED BY <2>5, <2>6
<1>9. CASE UNCHANGED vars
  BY <1>9, <1>k DEF vars, registry, history, PromiseInv, pendingPlain, pending, plain, InTime, tracked
<1>10. CASE SendKeep \/ \E q \in Files : KeepDirectory(q) \/ KeepThumbnail(q)
  BY <1>3, <1>10, KeepCalls
<1> QED BY <1>1, <1>1a, <1>2, <1>4, <1>5, <1>6, <1>7, <1>8, <1>9, <1>10, FilePaths
        DEF Next, Handle, Exit

\* Every path that is protected, by an open channel, by the delay after its end
\* or by a deadline, has what protects it in r.add or in r.files.
THEOREM Protected == Spec => []ProtectInv
<1>1. Init => ProtectInv
  BY FilePaths DEF Init, ProtectInv, KeeperInv, KeptInv, PromiseInv, kept, pendingKeep, pending
<1>2. TypeOK /\ SendInv /\ ProtectInv /\ [Next]_vars => ProtectInv'
  BY KeeperStep, KeptStep, PromiseStep DEF ProtectInv
<1> QED BY <1>1, <1>2, TypeCorrect, SentWithLifetime, PTL DEF Spec

\* Only a tick that finds the file or its directory expired, or Cleanup, removes a file.
LEMMA RemovedByExpire ==
    ASSUME TypeOK, [Next]_vars, NEW p \in disk, p \notin disk', ~stopped'
    PROVE  expires(p) \/ expires(Dir)
<1>1. ASSUME NEW q \in Files, RegisterFile(q) \/ OpenFile(q) \/ CopyFile(q) \/ CopyFails(q) PROVE FALSE
  BY <1>1 DEF RegisterFile, OpenFile, CopyFile, CopyFails
<1>2. ASSUME NEW q \in Paths, NEW c \in Channels,
             (q \in Files /\ StartUpload(q, c)) \/ KeepFile(q, c) \/ keep(q, c)
      PROVE  FALSE
  BY <1>2 DEF StartUpload, KeepFile, keep
<1>3. ASSUME NEW c \in Channels, CloseChannel(c) \/ MakeChannel(c) PROVE FALSE
  BY <1>3 DEF CloseChannel, MakeChannel
<1>4. CASE Receive \/ Cleanup \/ Advance \/ UNCHANGED vars
  BY <1>4 DEF Receive, Cleanup, Advance, vars
<1>5. CASE Expire
  BY <1>5 DEF Expire, removeAll
<1>6. CASE SendKeep \/ \E q \in Files : KeepDirectory(q) \/ KeepThumbnail(q)
  BY <1>2, <1>6, KeepCalls
<1> QED BY <1>1, <1>2, <1>3, <1>4, <1>5, <1>6, FilePaths DEF Next, Handle, Exit

\* A path whose last KeepFile is in force is not found expired by a tick.
LEMMA KeptNotExpired ==
    ASSUME TypeOK, ProtectInv, NEW p \in Paths, kept(p)
    PROVE  ~expires(p)
<1>1. grace[p] \in 0..KeepDelay /\ keeper[p] \in Channels \cup {NoChannel} /\ open \subseteq Channels
  BY DEF TypeOK
<1>2. KeptInv(p)
  BY DEF ProtectInv
<1> QED BY <1>1, <1>2 DEF expires, KeptInv, InTime, kept

\* KeepFile keeps its word for every number of files and channels and every
\* order of registrations, ticks, closes and uploads, as long as it keeps it for
\* the directory too.
THEOREM KeptFilesStay == Spec => KeptStays
<1>1. TypeOK /\ ProtectInv /\ [Next]_vars =>
         [\A p \in disk : kept(p) /\ kept(Dir) /\ ~stopped' => p \in disk']_vars
  <2> SUFFICES ASSUME TypeOK, ProtectInv, [Next]_vars, NEW p \in disk,
                      kept(p), kept(Dir), ~stopped', p \notin disk'
               PROVE  FALSE
    OBVIOUS
  <2>1. p \in Paths /\ Dir \in Paths
    BY FilePaths DEF TypeOK
  <2>2. expires(p) \/ expires(Dir)
    BY RemovedByExpire
  <2> QED BY <2>1, <2>2, KeptNotExpired
<1> QED BY <1>1, TypeCorrect, Protected, PTL DEF Spec, KeptStays

\* RegisterFile keeps its word: a deadline that counts is not cut short while the
\* directory is kept.
THEOREM PromisesHold == Spec => PromiseStays
<1>1. TypeOK /\ ProtectInv /\ [Next]_vars =>
         [\A p \in disk :
             promise[p] > 0 /\ uploads[p] = NoUpload /\ kept(Dir) /\ ~stopped' => p \in disk']_vars
  <2> SUFFICES ASSUME TypeOK, ProtectInv, [Next]_vars, NEW p \in disk,
                      promise[p] > 0, kept(Dir), ~stopped', p \notin disk'
               PROVE  FALSE
    OBVIOUS
  <2>1. p \in Files /\ Dir \in Paths /\ promise[p] \in 0..Lifetime
    BY FilePaths DEF TypeOK
  <2>2. expires(p)
    BY <2>1, RemovedByExpire, KeptNotExpired
  <2>3. PromiseInv(p)
    BY <2>1 DEF ProtectInv
  <2> QED BY <2>1, <2>2, <2>3 DEF expires, PromiseInv, plain, InTime
<1> QED BY <1>1, TypeCorrect, Protected, PTL DEF Spec, PromiseStays
=============================================================================
