------------------------ MODULE UploadHandler_proofs ------------------------
(***************************************************************************)
(* Proofs about UploadHandler and the StreamStore it implements, for every *)
(* set of slugs, origins, requests and kinds of files, and every choice of *)
(* durations the assumptions of StreamStore and UploadHandler allow.       *)
(***************************************************************************)
EXTENDS UploadHandler, TLAPS

(***************************************************************************)
(* The stream store, whoever calls it.                                     *)
(***************************************************************************)
\* The map, the ticker and the history variables keep their types: a stream in
\* the map always has an origin, and ttl left until timeout removes it.
THEOREM TypeCorrect == Spec => []TypeOK
<1>1. Init => TypeOK
  BY DurationsAssumption DEF Init, TypeOK
<1>2. TypeOK /\ [Next]_vars => TypeOK'
  <2> SUFFICES ASSUME TypeOK, [Next]_vars PROVE TypeOK'
    OBVIOUS
  <2> USE DurationsAssumption DEF TypeOK
  <2>1. ASSUME NEW s \in Slugs, NEW o \in Origins, UpdateStream(s, o)
        PROVE  TypeOK'
    BY <2>1 DEF UpdateStream, originDeadline, renewed
  <2>2. ASSUME NEW s \in Slugs, NEW o \in Origins, RejectStream(s, o)
        PROVE  TypeOK'
    BY <2>2 DEF RejectStream, vars, streams, history
  <2>3. CASE Timeout
    BY <2>3 DEF Timeout, removeStreams, expired, aged, history
  <2>4. CASE Stop
    BY <2>4 DEF Stop, removeStreams, history
  <2>5. CASE Advance
    BY <2>5 DEF Advance, less
  <2>6. CASE UNCHANGED vars
    BY <2>6 DEF vars, streams, history
  <2> QED BY <2>1, <2>2, <2>3, <2>4, <2>5, <2>6 DEF Next
<1> QED BY <1>1, <1>2, PTL DEF Spec

\* timeout never forgets an origin that is still protected.  The inductive
\* argument: the exclusivity left is at most SafeTime, which a step of the
\* clock or of timeout shortens no faster, and which TimeoutAssumption makes
\* long enough when an upload is accepted.
THEOREM OriginRemembered == Spec => []Outlives
<1>1. Init => Outlives
  BY DEF Init, Outlives, OutlivesOrigin
<1>2. TypeOK /\ Outlives /\ [Next]_vars => Outlives'
  <2> SUFFICES ASSUME TypeOK, Outlives, [Next]_vars, run' = "running",
                      NEW t \in Slugs
               PROVE  OutlivesOrigin(t)'
    BY DEF Outlives
  <2> USE DurationsAssumption, TimeoutAssumption
      DEF TypeOK, Outlives, OutlivesOrigin, SafeTime
  <2>1. ASSUME NEW s \in Slugs, NEW o \in Origins, UpdateStream(s, o)
        PROVE  OutlivesOrigin(t)'
    <3>1. CASE s = t
      BY <2>1, <3>1 DEF UpdateStream, originDeadline, renewed
    <3>2. CASE s # t
      BY <2>1, <3>2 DEF UpdateStream
    <3> QED BY <3>1, <3>2
  <2>2. ASSUME NEW s \in Slugs, NEW o \in Origins, RejectStream(s, o)
        PROVE  OutlivesOrigin(t)'
    BY <2>2 DEF RejectStream, vars, streams, history
  <2>3. CASE Timeout
    <3>1. CASE t \in expired
      BY <2>3, <3>1 DEF Timeout, removeStreams, expired, aged, history
    <3>2. CASE t \notin expired
      BY <2>3, <3>2 DEF Timeout, removeStreams, expired, aged, history
    <3> QED BY <3>1, <3>2
  <2>4. CASE Stop
    BY <2>4 DEF Stop
  <2>5. CASE Advance
    BY <2>5 DEF Advance, less
  <2>6. CASE UNCHANGED vars
    BY <2>6 DEF vars, streams, history
  <2> QED BY <2>1, <2>2, <2>3, <2>4, <2>5, <2>6 DEF Next
<1> QED BY <1>1, <1>2, TypeCorrect, PTL DEF Spec

\* While the store runs, an upload from another origin is accepted only when
\* StreamOriginDuration has passed since the last accepted one, whether or not
\* the stream was removed and created again in between.
THEOREM OriginIsExclusive == Spec => OriginExclusive
<1> DEFINE Exclusive ==
      \A s \in Slugs : run = "running" /\ holder'[s] # holder[s] => held[s] = 0
<1>1. TypeOK /\ Outlives /\ [Next]_vars => [Exclusive]_vars
  <2> SUFFICES ASSUME TypeOK, Outlives, [Next]_vars, NEW t \in Slugs,
                      run = "running", holder'[t] # holder[t]
               PROVE  held[t] = 0
    OBVIOUS
  <2>1. ASSUME NEW s \in Slugs, NEW o \in Origins, UpdateStream(s, o)
        PROVE  held[t] = 0
    <3>1. s = t
      BY <2>1 DEF UpdateStream, TypeOK
    <3>2. t \notin data \/ origin[t] = o \/ exclusive[t] = 0
      BY <2>1, <3>1 DEF UpdateStream, allowed
    <3>3. t \in data => origin[t] # o
      BY <2>1, <3>1 DEF UpdateStream, TypeOK, Outlives, OutlivesOrigin
    <3> QED BY <3>2, <3>3 DEF Outlives, OutlivesOrigin
  <2>2. ASSUME NEW s \in Slugs, NEW o \in Origins, RejectStream(s, o)
        PROVE  FALSE
    BY <2>2 DEF RejectStream, vars, history
  <2>3. ~Timeout /\ ~Stop /\ ~Advance /\ ~UNCHANGED vars
    BY DEF Timeout, Stop, Advance, vars, history
  <2> QED BY <2>1, <2>2, <2>3 DEF Next
<1>2. Spec => [][Exclusive]_vars
  BY <1>1, TypeCorrect, OriginRemembered, PTL DEF Spec
<1> QED BY <1>2 DEF OriginExclusive

(***************************************************************************)
(* The requests.                                                           *)
(***************************************************************************)
Pcs == {"stream", "keepdir", "parser", "keepjpg", "parse", "open", "write", "rename", "keep"}

\* A writer has a file open from open to rename, and it is its own path.
writing(r) == active(r) /\ req[r].pc \in {"write", "rename"}
FdInv ==
    \A r \in Requests :
       IF writing(r) THEN fd[r] # AW!NotOpen /\ fd[r].path = path(r) ELSE fd[r] = AW!NotOpen

\* The Stream of a request that is live is the one in the map.
LiveInv == \A r \in Requests : active(r) /\ req[r].stream = "live" => req[r].slug \in data

\* What a request has of its Stream and its parser, by where it is.  A Stream
\* that was removed under a playlist upload makes the slug stale.
hasParser(r) ==
    req[r].kind = "m3u8" /\ req[r].pc \in {"parse", "open", "write", "rename", "keep"}
RequestInv(r) ==
    /\ req[r].stream \in {"none", "live", "removed"}
    /\ req[r].stream = "none" <=> req[r].pc = "stream"
    /\ req[r].parser = "none" <=> ~hasParser(r)
    /\ req[r].parser = "live" => req[r].stream = "live"
    /\ req[r].parser \in {"removed", "late"} => req[r].stream = "removed"
    /\ req[r].pc \in {"parser", "parse", "keep"} => req[r].kind = "m3u8"
    /\ req[r].pc = "keepjpg" => req[r].kind = "jpg"
    /\ req[r].kind = "m3u8" /\ req[r].stream = "removed" => req[r].slug \in stale
RequestsInv == \A r \in Requests : active(r) => RequestInv(r)

\* Until a request is late, its origin's exclusivity protects its Stream.
holdsStream(r) ==
    /\ req[r].slug \in data
    /\ held[req[r].slug] >= StreamOriginDuration - req[r].age
    /\ req[r].stream # "removed"
HeldInv == run = "running" => \A r \in Requests : active(r) /\ ~late(r) => holdsStream(r)

\* h.mutex: at most one request of a slug writes its playlist with the slug's
\* parser.
inMutex(r) ==
    active(r) /\ req[r].parser = "live" /\ req[r].pc \in {"open", "write", "rename", "keep"}
MutexInv ==
    \A r, q \in Requests : inMutex(r) /\ inMutex(q) /\ req[r].slug = req[q].slug => r = q

\* A writer nobody has overlapped is alone with its temporary file, which is whole
\* once it has written it.  That is every writer of a playlist, unless its slug
\* is stale.
ApartInv ==
    \A r \in apart : /\ r \in Requests /\ writing(r) /\ fd[r].at = "tmp"
                     /\ \A q \in Requests \ {r} : fd[q].path # fd[r].path
                     /\ req[r].pc = "rename" => tmp[fd[r].path] = "all"
AloneInv ==
    \A r \in Requests :
        writing(r) /\ req[r].kind = "m3u8" /\ req[r].slug \notin stale => r \in apart
-----------------------------------------------------------------------------
\* Every step of a request, of the store's goroutine and of the clock is a step
\* of the store by itself, or leaves the store alone.
LEMMA StoreStep == [HandlerNext]_hvars => [Next]_vars
<1> SUFFICES ASSUME [HandlerNext]_hvars PROVE [Next]_vars
  OBVIOUS
<1>1. ASSUME NEW s \in Slugs, NEW o \in Origins, Answer(s, o) PROVE Next
  BY <1>1 DEF Answer, Next
<1>2. ASSUME NEW s \in Slugs, NEW o \in Origins, NEW r \in Requests, NEW k \in Kinds,
             Validate(r, s, o, k)
      PROVE  Next
  BY <1>2 DEF Validate, Next
<1>3. ASSUME NEW r \in Requests, Handle(r) PROVE UNCHANGED vars
  BY <1>3 DEF Handle, GetStream, KeepDirectory, KeepThumbnail, GetHLSParser, Merge, OpenFile,
              WriteFile, Rename, KeepPlaylist, Break
<1>4. CASE TimeoutStep \/ StopStep \/ Crash \/ AdvanceStep
  BY <1>4 DEF TimeoutStep, StopStep, Crash, AdvanceStep, Next
<1>5. CASE Exit \/ UNCHANGED hvars
  BY <1>5 DEF Exit, hvars
<1> QED BY <1>1, <1>2, <1>3, <1>4, <1>5 DEF HandlerNext

\* The upload server implements the stream store's specification: what is proved
\* of the store alone holds with the handlers that use it.
THEOREM ImplementsStore == HandlerSpec => Spec
<1>1. HandlerInit => Init
  BY DEF HandlerInit
<1> QED BY <1>1, StoreStep, PTL DEF HandlerSpec, Spec

\* A request that is under way has all its fields.
LEMMA ActiveFields ==
    ASSUME HandlerTypeOK, NEW r \in Requests
    PROVE  /\ active(r) <=> req[r] \in Reqs
           /\ active(r) <=> req[r].pc \in Pcs
           /\ active(r) => /\ req[r].slug \in Slugs /\ req[r].kind \in Kinds
                           /\ req[r].stream \in States /\ req[r].parser \in States
                           /\ req[r].age \in 0..StreamOriginDuration
           /\ ~active(r) => req[r].pc = "idle"
<1>1. req[r] \in {Idle} \cup Reqs
  BY DEF HandlerTypeOK
<1>2. Idle.pc = "idle"
  BY DEF Idle
<1>3. \A e \in Reqs : /\ e.pc \in Pcs
                      /\ e.slug \in Slugs /\ e.kind \in Kinds
                      /\ e.stream \in States /\ e.parser \in States
                      /\ e.age \in 0..StreamOriginDuration
  BY DEF Reqs, Pcs
<1>4. "idle" \notin Pcs
  BY DEF Pcs
<1> QED BY <1>1, <1>2, <1>3, <1>4 DEF active

\* go: a request moves on, and nothing else of any request changes.
LEMMA GoFacts ==
    ASSUME HandlerTypeOK, NEW r \in Requests, active(r), NEW pc \in Pcs, go(r, pc)
    PROVE  /\ req' \in [Requests -> {Idle} \cup Reqs]
           /\ \A q \in Requests \ {r} : req'[q] = req[q]
           /\ req'[r] \in Reqs /\ req'[r] # Idle /\ req'[r].pc = pc
           /\ req'[r].slug = req[r].slug /\ req'[r].kind = req[r].kind
           /\ req'[r].age = req[r].age
           /\ req'[r].stream = req[r].stream /\ req'[r].parser = req[r].parser
<1>1. req[r] \in Reqs /\ req \in [Requests -> {Idle} \cup Reqs]
  BY ActiveFields DEF HandlerTypeOK
<1>2. req'[r] = [req[r] EXCEPT !.pc = pc] /\ \A q \in Requests \ {r} : req'[q] = req[q]
  BY <1>1 DEF go
<1>3. /\ req'[r] \in Reqs /\ req'[r].pc = pc
      /\ req'[r].slug = req[r].slug /\ req'[r].kind = req[r].kind
      /\ req'[r].age = req[r].age
      /\ req'[r].stream = req[r].stream /\ req'[r].parser = req[r].parser
  BY <1>1, <1>2 DEF Reqs, Pcs
<1>4. req' \in [Requests -> {Idle} \cup Reqs]
  BY <1>1, <1>2, <1>3 DEF go
<1>5. Idle.pc = "idle" /\ "idle" \notin Pcs
  BY DEF Idle, Pcs
<1> QED BY <1>2, <1>3, <1>4, <1>5

\* end: the handler of the request returns.
LEMMA EndFacts ==
    ASSUME HandlerTypeOK, NEW r \in Requests, end(r)
    PROVE  /\ req' \in [Requests -> {Idle} \cup Reqs]
           /\ \A q \in Requests \ {r} : req'[q] = req[q]
           /\ req'[r] = Idle
BY DEF HandlerTypeOK, end

\* GetStream and GetHLSParser give a request what they return.
LEMMA GetFacts ==
    ASSUME HandlerTypeOK, NEW r \in Requests, active(r), NEW got \in States
    PROVE  /\ req' = [req EXCEPT ![r].pc = "keepdir", ![r].stream = got] =>
                 /\ req' \in [Requests -> {Idle} \cup Reqs]
                 /\ \A q \in Requests \ {r} : req'[q] = req[q]
                 /\ req'[r] \in Reqs /\ req'[r] # Idle /\ req'[r].pc = "keepdir"
                 /\ req'[r].slug = req[r].slug /\ req'[r].kind = req[r].kind
                 /\ req'[r].age = req[r].age
                 /\ req'[r].stream = got /\ req'[r].parser = req[r].parser
           /\ req' = [req EXCEPT ![r].pc = "parse", ![r].parser = got] =>
                 /\ req' \in [Requests -> {Idle} \cup Reqs]
                 /\ \A q \in Requests \ {r} : req'[q] = req[q]
                 /\ req'[r] \in Reqs /\ req'[r] # Idle /\ req'[r].pc = "parse"
                 /\ req'[r].slug = req[r].slug /\ req'[r].kind = req[r].kind
                 /\ req'[r].age = req[r].age
                 /\ req'[r].stream = req[r].stream /\ req'[r].parser = got
<1>1. req[r] \in Reqs /\ req \in [Requests -> {Idle} \cup Reqs]
  BY ActiveFields DEF HandlerTypeOK
<1>2. \A e \in Reqs : e # Idle
  <2>1. Idle.pc = "idle"
    BY DEF Idle
  <2> QED BY <2>1 DEF Reqs
<1>3. ASSUME req' = [req EXCEPT ![r].pc = "keepdir", ![r].stream = got]
      PROVE  /\ req' \in [Requests -> {Idle} \cup Reqs]
             /\ \A q \in Requests \ {r} : req'[q] = req[q]
             /\ req'[r] \in Reqs /\ req'[r].pc = "keepdir"
             /\ req'[r].slug = req[r].slug /\ req'[r].kind = req[r].kind
             /\ req'[r].age = req[r].age
             /\ req'[r].stream = got /\ req'[r].parser = req[r].parser
  <2>1. req'[r] = [req[r] EXCEPT !.pc = "keepdir", !.stream = got]
    BY <1>1, <1>3
  <2>2. req'[r] \in Reqs
    BY <1>1, <2>1 DEF Reqs
  <2>3. req' \in [Requests -> {Idle} \cup Reqs] /\ \A q \in Requests \ {r} : req'[q] = req[q]
    BY <1>1, <1>3, <2>1, <2>2
  <2> QED BY <1>1, <2>1, <2>2, <2>3 DEF Reqs
<1>4. ASSUME req' = [req EXCEPT ![r].pc = "parse", ![r].parser = got]
      PROVE  /\ req' \in [Requests -> {Idle} \cup Reqs]
             /\ \A q \in Requests \ {r} : req'[q] = req[q]
             /\ req'[r] \in Reqs /\ req'[r].pc = "parse"
             /\ req'[r].slug = req[r].slug /\ req'[r].kind = req[r].kind
             /\ req'[r].age = req[r].age
             /\ req'[r].stream = req[r].stream /\ req'[r].parser = got
  <2>1. req'[r] = [req[r] EXCEPT !.pc = "parse", !.parser = got]
    BY <1>1, <1>4
  <2>2. req'[r] \in Reqs
    BY <1>1, <2>1 DEF Reqs
  <2>3. req' \in [Requests -> {Idle} \cup Reqs] /\ \A q \in Requests \ {r} : req'[q] = req[q]
    BY <1>1, <1>4, <2>1, <2>2
  <2> QED BY <1>1, <2>1, <2>2, <2>3 DEF Reqs
<1> QED BY <1>2, <1>3, <1>4

\* Validate: a new request.
LEMMA ValidateFacts ==
    ASSUME HandlerTypeOK, NEW r \in Requests, NEW s \in Slugs, NEW o \in Origins,
           NEW k \in Kinds, Validate(r, s, o, k)
    PROVE  /\ req' \in [Requests -> {Idle} \cup Reqs]
           /\ \A q \in Requests \ {r} : req'[q] = req[q]
           /\ req'[r] \in Reqs /\ req'[r] # Idle /\ req'[r].pc = "stream"
           /\ req'[r].slug = s /\ req'[r].kind = k
           /\ req'[r].age = 0 /\ req'[r].stream = "none" /\ req'[r].parser = "none"
<1> DEFINE new == [pc |-> "stream", slug |-> s, kind |-> k,
                   stream |-> "none", parser |-> "none", age |-> 0]
<1>1. new \in Reqs
  <2>1. 0 \in 0..StreamOriginDuration
    BY DurationsAssumption
  <2> QED BY <2>1 DEF Reqs, States
<1>2. req' = [req EXCEPT ![r] = new] /\ req \in [Requests -> {Idle} \cup Reqs]
  BY DEF Validate, HandlerTypeOK
<1>3. new # Idle
  BY <1>1 DEF Reqs, Idle
<1>4. req'[r] = new /\ \A q \in Requests \ {r} : req'[q] = req[q]
  BY <1>2
<1> QED BY <1>1, <1>2, <1>3, <1>4

\* Cleanup changes the streams and parsers of requests, nothing else of them.
LEMMA CleanupFacts ==
    ASSUME HandlerTypeOK, NEW gone, cleanup(gone)
    PROVE  /\ req' \in [Requests -> {Idle} \cup Reqs]
           /\ \A r \in Requests :
                 /\ active(r)' <=> active(r)
                 /\ req'[r].pc = req[r].pc
                 /\ active(r) => /\ req'[r].slug = req[r].slug /\ req'[r].kind = req[r].kind
                                 /\ req'[r].age = req[r].age
                 /\ active(r) /\ req[r].slug \in gone =>
                       /\ req'[r].stream = removed(req[r].stream)
                       /\ req'[r].parser = removed(req[r].parser)
                 /\ ~(active(r) /\ req[r].slug \in gone) => req'[r] = req[r]
<1> DEFINE after(r) == [req[r] EXCEPT !.stream = removed(@), !.parser = removed(@)]
<1>1. \A e \in States : removed(e) \in States
  BY DEF removed, States
<1>2. ASSUME NEW r \in Requests, active(r)
      PROVE  /\ after(r) \in Reqs
             /\ after(r).pc = req[r].pc /\ after(r).slug = req[r].slug
             /\ after(r).kind = req[r].kind /\ after(r).age = req[r].age
             /\ after(r).stream = removed(req[r].stream)
             /\ after(r).parser = removed(req[r].parser)
  <2>1. req[r] \in Reqs
    BY <1>2, ActiveFields
  <2>2. removed(req[r].stream) \in States /\ removed(req[r].parser) \in States
    BY <1>1, <1>2, ActiveFields
  <2> QED BY <2>1, <2>2 DEF Reqs
<1>3. \A e \in Reqs : e # Idle
  <2>1. Idle.pc = "idle"
    BY DEF Idle
  <2> QED BY <2>1 DEF Reqs
<1>4. \A r \in Requests :
         req'[r] = IF active(r) /\ req[r].slug \in gone THEN after(r) ELSE req[r]
  BY DEF cleanup
<1>5. req \in [Requests -> {Idle} \cup Reqs]
  BY DEF HandlerTypeOK
<1> HIDE DEF after
<1>6. \A r \in Requests : req'[r] \in {Idle} \cup Reqs
  BY <1>2, <1>4, <1>5
<1>7. req' \in [Requests -> {Idle} \cup Reqs]
  BY <1>6 DEF cleanup
<1>8. \A r \in Requests : active(r) => req[r] \in Reqs
  BY ActiveFields
<1> QED BY <1>2, <1>3, <1>4, <1>7, <1>8 DEF active

\* Time passing makes every request older, until it is late.
LEMMA AdvanceFacts ==
    ASSUME HandlerTypeOK, AdvanceStep
    PROVE  /\ req' \in [Requests -> {Idle} \cup Reqs]
           /\ \A r \in Requests :
                 /\ active(r)' <=> active(r)
                 /\ req'[r].pc = req[r].pc
                 /\ active(r) => /\ req'[r].slug = req[r].slug /\ req'[r].kind = req[r].kind
                                 /\ req'[r].stream = req[r].stream
                                 /\ req'[r].parser = req[r].parser
                                 /\ late(r) => req'[r].age = req[r].age
                                 /\ ~late(r) => req'[r].age = req[r].age + 1
<1> DEFINE after(r) == [req[r] EXCEPT !.age = @ + 1]
<1>1. ASSUME NEW r \in Requests, active(r), ~late(r)
      PROVE  /\ after(r) \in Reqs
             /\ after(r).pc = req[r].pc /\ after(r).slug = req[r].slug
             /\ after(r).kind = req[r].kind /\ after(r).age = req[r].age + 1
             /\ after(r).stream = req[r].stream /\ after(r).parser = req[r].parser
  <2>1. req[r] \in Reqs
    BY <1>1, ActiveFields
  <2>2. req[r].age + 1 \in 0..StreamOriginDuration
    <3>1. req[r].age \in 0..StreamOriginDuration /\ req[r].age # StreamOriginDuration
      BY <1>1, ActiveFields DEF late
    <3> QED BY <3>1, DurationsAssumption
  <2> QED BY <2>1, <2>2 DEF Reqs
<1>2. \A e \in Reqs : e # Idle
  <2>1. Idle.pc = "idle"
    BY DEF Idle
  <2> QED BY <2>1 DEF Reqs
<1>3. \A r \in Requests : req'[r] = IF active(r) /\ ~late(r) THEN after(r) ELSE req[r]
  BY DEF AdvanceStep
<1> HIDE DEF after
<1>4. \A r \in Requests : req'[r] \in {Idle} \cup Reqs
  BY <1>1, <1>3 DEF HandlerTypeOK
<1>5. req' \in [Requests -> {Idle} \cup Reqs]
  BY <1>4 DEF AdvanceStep
<1> QED BY <1>1, <1>2, <1>3, <1>5 DEF active

\* What every step of HandleFile has in common.
LEMMA HandleFacts ==
    ASSUME HandlerTypeOK, NEW r \in Requests, Handle(r)
    PROVE  /\ active(r) /\ UNCHANGED vars
           /\ req' \in [Requests -> {Idle} \cup Reqs]
           /\ \A q \in Requests \ {r} : req'[q] = req[q]
           /\ req'[r] # Idle =>
                 /\ req'[r].slug = req[r].slug /\ req'[r].kind = req[r].kind
                 /\ req'[r].age = req[r].age
<1>1. active(r)
  BY ActiveFields DEF Handle, GetStream, KeepDirectory, KeepThumbnail, GetHLSParser, Merge,
                      OpenFile, WriteFile, Rename, KeepPlaylist, Break
<1>2. UNCHANGED vars
  BY DEF Handle, GetStream, KeepDirectory, KeepThumbnail, GetHLSParser, Merge, OpenFile,
         WriteFile, Rename, KeepPlaylist, Break
<1>3. \/ end(r) \/ \E pc \in Pcs : go(r, pc)
      \/ \E got \in States : \/ req' = [req EXCEPT ![r].pc = "keepdir", ![r].stream = got]
                              \/ req' = [req EXCEPT ![r].pc = "parse", ![r].parser = got]
  <2>1. CASE GetStream(r)
    BY <2>1 DEF GetStream, States
  <2>2. CASE GetHLSParser(r)
    BY <2>2 DEF GetHLSParser, States, panic
  <2>3. CASE KeepDirectory(r) \/ KeepThumbnail(r) \/ Merge(r) \/ OpenFile(r) \/ WriteFile(r)
               \/ Rename(r) \/ KeepPlaylist(r) \/ Break(r)
    BY <2>3 DEF KeepDirectory, KeepThumbnail, Merge, OpenFile, WriteFile, Rename, KeepPlaylist,
                Break, Pcs, panic
  <2> QED BY <2>1, <2>2, <2>3 DEF Handle
<1> QED BY <1>1, <1>2, <1>3, GoFacts, EndFacts, GetFacts
-----------------------------------------------------------------------------
OpenFiles == [path: Files, at: {"tmp", "file", "gone"}]

\* A writer that has nothing open is not writing any path.
LEMMA OpenFields ==
    ASSUME AW!WriterTypeOK, NEW r \in Requests
    PROVE  /\ fd[r] # AW!NotOpen <=> fd[r] \in OpenFiles
           /\ fd[r] # AW!NotOpen <=> fd[r].path \in Files
           /\ fd[r] # AW!NotOpen => fd[r].at \in {"tmp", "file", "gone"}
           /\ fd[r] = AW!NotOpen => fd[r].at = "none"
<1>1. fd[r] \in {AW!NotOpen} \cup OpenFiles
  BY DEF AW!WriterTypeOK, OpenFiles
<1>2. AW!NotOpen.path = <<>> /\ AW!NotOpen.at = "none"
  BY DEF AW!NotOpen
<1>3. <<>> \notin Files
  BY DEF Files
<1>4. \A e \in OpenFiles : e.path \in Files /\ e.at \in {"tmp", "file", "gone"}
  BY DEF OpenFiles
<1> QED BY <1>1, <1>2, <1>3, <1>4

\* Where the open files of a path are after w renamed the temporary one.
LEMMA RenameMoves ==
    ASSUME AW!WriterTypeOK, NEW w \in Requests, AW!rename(w)
    PROVE  /\ fd' \in [Requests -> {AW!NotOpen} \cup OpenFiles]
           /\ fd'[w] = AW!NotOpen
           /\ \A v \in Requests \ {w} :
                 /\ fd'[v].path = fd[v].path
                 /\ fd[v].path # fd[w].path => fd'[v] = fd[v]
                 /\ fd[v].path = fd[w].path /\ fd'[v].at = "file" => fd[v].at = "tmp"
                 /\ fd'[v] = AW!NotOpen <=> fd[v] = AW!NotOpen
<1> DEFINE to == [tmp |-> "file", file |-> "gone"]
           p == fd[w].path
<1>1. DOMAIN to = {"tmp", "file"} /\ to["tmp"] = "file" /\ to["file"] = "gone"
  OBVIOUS
<1>2. \A v \in Requests : fd'[v] = IF v = w THEN AW!NotOpen
                                   ELSE IF fd[v].path = p /\ fd[v].at \in DOMAIN to
                                        THEN [fd[v] EXCEPT !.at = to[@]] ELSE fd[v]
  BY DEF AW!rename, AW!moved
<1> HIDE DEF to
<1>3. ASSUME NEW v \in Requests \ {w}
      PROVE  /\ fd'[v] \in {AW!NotOpen} \cup OpenFiles
             /\ fd'[v].path = fd[v].path
             /\ fd[v].path # p => fd'[v] = fd[v]
             /\ fd[v].path = p /\ fd'[v].at = "file" => fd[v].at = "tmp"
             /\ fd'[v] = AW!NotOpen <=> fd[v] = AW!NotOpen
  <2>1. CASE fd[v] = AW!NotOpen
    BY <1>1, <1>2, <2>1, OpenFields
  <2>2. CASE fd[v] # AW!NotOpen /\ fd[v].path = p /\ fd[v].at \in {"tmp", "file"}
    <3>1. fd[v] \in OpenFiles
      BY <2>2, OpenFields
    <3>2. fd'[v] = [fd[v] EXCEPT !.at = to[@]]
      BY <1>1, <1>2, <2>2
    <3>3. /\ fd'[v] \in OpenFiles /\ fd'[v].path = fd[v].path
          /\ fd'[v].at = (IF fd[v].at = "tmp" THEN "file" ELSE "gone")
      BY <1>1, <2>2, <3>1, <3>2 DEF OpenFiles
    <3>4. fd'[v] # AW!NotOpen
      BY <3>3 DEF AW!NotOpen, OpenFiles
    <3> QED BY <2>2, <3>3, <3>4
  <2>3. CASE fd[v] # AW!NotOpen /\ ~(fd[v].path = p /\ fd[v].at \in {"tmp", "file"})
    BY <1>1, <1>2, <2>3, OpenFields
  <2> QED BY <2>1, <2>2, <2>3
<1>4. fd'[w] = AW!NotOpen
  BY <1>2
<1>5. fd' \in [Requests -> {AW!NotOpen} \cup OpenFiles]
  <2>1. fd' = [v \in Requests |-> fd'[v]]
    BY DEF AW!rename, AW!moved
  <2> QED BY <1>3, <1>4, <2>1
<1> QED BY <1>3, <1>4, <1>5

\* Where they are after w failed and removed it.
LEMMA FailMoves ==
    ASSUME AW!WriterTypeOK, NEW w \in Requests, AW!fail(w)
    PROVE  /\ fd' \in [Requests -> {AW!NotOpen} \cup OpenFiles]
           /\ fd'[w] = AW!NotOpen
           /\ \A v \in Requests \ {w} :
                 /\ fd'[v].path = fd[v].path
                 /\ fd[v].path # fd[w].path => fd'[v] = fd[v]
                 /\ fd'[v].at = "file" => fd[v].at = "file"
                 /\ fd'[v] = AW!NotOpen <=> fd[v] = AW!NotOpen
<1> DEFINE to == [tmp |-> "gone"]
           p == fd[w].path
<1>1. DOMAIN to = {"tmp"} /\ to["tmp"] = "gone"
  OBVIOUS
<1>2. \A v \in Requests : fd'[v] = IF v = w THEN AW!NotOpen
                                   ELSE IF fd[v].path = p /\ fd[v].at \in DOMAIN to
                                        THEN [fd[v] EXCEPT !.at = to[@]] ELSE fd[v]
  BY DEF AW!fail, AW!moved
<1> HIDE DEF to
<1>3. ASSUME NEW v \in Requests \ {w}
      PROVE  /\ fd'[v] \in {AW!NotOpen} \cup OpenFiles
             /\ fd'[v].path = fd[v].path
             /\ fd[v].path # p => fd'[v] = fd[v]
             /\ fd'[v].at = "file" => fd[v].at = "file"
             /\ fd'[v] = AW!NotOpen <=> fd[v] = AW!NotOpen
  <2>1. CASE fd[v] = AW!NotOpen
    BY <1>1, <1>2, <2>1, OpenFields
  <2>2. CASE fd[v] # AW!NotOpen /\ fd[v].path = p /\ fd[v].at = "tmp"
    <3>1. fd[v] \in OpenFiles
      BY <2>2, OpenFields
    <3>2. fd'[v] = [fd[v] EXCEPT !.at = to[@]]
      BY <1>1, <1>2, <2>2
    <3>3. fd'[v] \in OpenFiles /\ fd'[v].path = fd[v].path /\ fd'[v].at = "gone"
      BY <1>1, <2>2, <3>1, <3>2 DEF OpenFiles
    <3>4. fd'[v] # AW!NotOpen
      BY <3>3 DEF AW!NotOpen, OpenFiles
    <3> QED BY <2>2, <3>3, <3>4
  <2>3. CASE fd[v] # AW!NotOpen /\ ~(fd[v].path = p /\ fd[v].at = "tmp")
    BY <1>1, <1>2, <2>3, OpenFields
  <2> QED BY <2>1, <2>2, <2>3
<1>4. fd'[w] = AW!NotOpen
  BY <1>2
<1>5. fd' \in [Requests -> {AW!NotOpen} \cup OpenFiles]
  <2>1. fd' = [v \in Requests |-> fd'[v]]
    BY DEF AW!fail, AW!moved
  <2> QED BY <1>3, <1>4, <2>1
<1> QED BY <1>3, <1>4, <1>5

\* The writer keeps its types when a request uses it as HandleFile does.
LEMMA WriterTypes ==
    ASSUME HandlerTypeOK, FdInv, NEW r \in Requests,
           \/ active(r) /\ AW!open(r, path(r))
           \/ writing(r) /\ (AW!write(r) \/ AW!rename(r) \/ AW!fail(r))
    PROVE  AW!WriterTypeOK'
<1>0. AW!WriterTypeOK
  BY DEF HandlerTypeOK
<1>1. CASE active(r) /\ AW!open(r, path(r))
  <2>1. path(r) \in Files
    BY <1>1, ActiveFields DEF path, Files
  <2>2. [path |-> path(r), at |-> "tmp"] \in OpenFiles
    BY <2>1 DEF OpenFiles
  <2>3. fd' \in [Requests -> {AW!NotOpen} \cup OpenFiles]
    BY <1>0, <1>1, <2>2 DEF AW!open, AW!WriterTypeOK, OpenFiles
  <2> QED BY <1>0, <1>1, <2>3 DEF AW!open, AW!others, AW!WriterTypeOK, OpenFiles
<1>2. CASE AW!write(r)
  BY <1>0, <1>2 DEF AW!write, AW!shown, AW!WriterTypeOK
<1>3. CASE writing(r) /\ AW!rename(r)
  <2>1. fd[r].path \in Files
    BY <1>0, <1>3, OpenFields DEF FdInv
  <2>2. fd' \in [Requests -> {AW!NotOpen} \cup OpenFiles]
    BY <1>0, <1>3, RenameMoves
  <2>3. /\ tmp' \in [Files -> {"none", "part", "all"}]
        /\ file' \in [Files -> {"whole", "mixed", "torn"}]
    BY <1>0, <1>3, <2>1 DEF AW!rename, AW!shown, AW!WriterTypeOK
  <2> QED BY <1>0, <1>3, <2>1, <2>2, <2>3 DEF AW!rename, AW!WriterTypeOK, OpenFiles
<1>4. CASE AW!fail(r)
  <2>1. fd' \in [Requests -> {AW!NotOpen} \cup OpenFiles]
    BY <1>0, <1>4, FailMoves
  <2> QED BY <1>0, <1>4, <2>1 DEF AW!fail, AW!WriterTypeOK, OpenFiles
<1> QED BY <1>1, <1>2, <1>3, <1>4

\* The steps of HandleFile that write, and those that do not.
LEMMA HandleWrites ==
    ASSUME HandlerTypeOK, NEW r \in Requests, Handle(r)
    PROVE  \/ UNCHANGED written /\ ~writing(r) /\ ~writing(r)'
           \/ active(r) /\ req[r].pc = "open" /\ AW!open(r, path(r)) /\ go(r, "write")
           \/ active(r) /\ req[r].pc = "write" /\ AW!write(r) /\ go(r, "rename")
           \/ /\ active(r) /\ req[r].pc = "rename" /\ AW!rename(r)
              /\ IF req[r].kind = "m3u8" THEN go(r, "keep") ELSE end(r)
           \/ writing(r) /\ AW!fail(r) /\ end(r)
<1>0. active(r)
  BY HandleFacts
<1>1. CASE GetStream(r)
  BY <1>0, <1>1, EndFacts, GetFacts DEF GetStream, writing, active, States
<1>2. CASE KeepDirectory(r)
  BY <1>0, <1>2, EndFacts, GoFacts DEF KeepDirectory, writing, active, Pcs
<1>3. CASE KeepThumbnail(r)
  BY <1>0, <1>3, GoFacts DEF KeepThumbnail, writing, active, Pcs
<1>4. CASE GetHLSParser(r)
  <2>1. req[r].pc = "parser" /\ UNCHANGED written
    BY <1>4 DEF GetHLSParser
  <2>2. \/ end(r)
        \/ \E got \in States : req' = [req EXCEPT ![r].pc = "parse", ![r].parser = got]
    BY <1>4 DEF GetHLSParser, panic, States
  <2>3. ~writing(r)'
    BY <1>0, <2>2, EndFacts, GetFacts DEF writing, active
  <2> QED BY <2>1, <2>3 DEF writing
<1>5. CASE Merge(r)
  BY <1>0, <1>5, EndFacts, GoFacts DEF Merge, panic, writing, active, Pcs
<1>6. CASE OpenFile(r)
  BY <1>0, <1>6 DEF OpenFile
<1>7. CASE WriteFile(r)
  BY <1>0, <1>7 DEF WriteFile
<1>8. CASE Rename(r)
  BY <1>0, <1>8 DEF Rename, writing, AW!renameFails
<1>9. CASE KeepPlaylist(r)
  BY <1>0, <1>9, EndFacts DEF KeepPlaylist, panic, writing, active
<1>10. CASE Break(r)
  BY <1>0, <1>10, EndFacts DEF Break, writing, active
<1> QED BY <1>1, <1>2, <1>3, <1>4, <1>5, <1>6, <1>7, <1>8, <1>9, <1>10 DEF Handle

\* FdInv for the requests that are not concerned.
LEMMA FdSame ==
    ASSUME FdInv, NEW q \in Requests, req'[q] = req[q], fd'[q].path = fd[q].path,
           fd'[q] = AW!NotOpen <=> fd[q] = AW!NotOpen
    PROVE  IF writing(q)' THEN fd'[q] # AW!NotOpen /\ fd'[q].path = path(q)' ELSE fd'[q] = AW!NotOpen
BY DEF FdInv, writing, active, path

\* A handler has a file open exactly between open and rename.
LEMMA FdHandle ==
    ASSUME HandlerTypeOK, FdInv, NEW r \in Requests, Handle(r)
    PROVE  FdInv'
<1>0. /\ AW!WriterTypeOK /\ fd \in [Requests -> {AW!NotOpen} \cup OpenFiles]
      /\ \A q \in Requests \ {r} : req'[q] = req[q]
  BY HandleFacts DEF HandlerTypeOK, AW!WriterTypeOK, OpenFiles
<1> DEFINE mine == IF writing(r)' THEN fd'[r] # AW!NotOpen /\ fd'[r].path = path(r)'
                                  ELSE fd'[r] = AW!NotOpen
           other == \A q \in Requests \ {r} : /\ fd'[q].path = fd[q].path
                                              /\ fd'[q] = AW!NotOpen <=> fd[q] = AW!NotOpen
<1>s. mine /\ other => FdInv'
  <2>1. ASSUME other, NEW q \in Requests \ {r}
        PROVE  IF writing(q)' THEN fd'[q] # AW!NotOpen /\ fd'[q].path = path(q)'
                              ELSE fd'[q] = AW!NotOpen
    BY <1>0, <2>1, FdSame
  <2> QED BY <2>1 DEF FdInv
<1> HIDE DEF mine, other
<1>1. CASE UNCHANGED written /\ ~writing(r) /\ ~writing(r)'
  <2>1. fd' = fd
    BY <1>1 DEF written
  <2> QED BY <1>1, <1>s, <2>1 DEF FdInv, mine, other
<1>2. CASE active(r) /\ req[r].pc = "open" /\ AW!open(r, path(r)) /\ go(r, "write")
  <2>1. path(r) \in Files
    BY <1>2, ActiveFields DEF path, Files
  <2>2. fd'[r] = [path |-> path(r), at |-> "tmp"] /\ \A q \in Requests \ {r} : fd'[q] = fd[q]
    BY <1>0, <1>2 DEF AW!open
  <2>3. fd'[r] # AW!NotOpen /\ fd'[r].path = path(r)
    BY <2>1, <2>2 DEF AW!NotOpen
  <2>4. writing(r)' /\ path(r)' = path(r)
    BY <1>2, GoFacts DEF writing, active, path, Pcs
  <2> QED BY <1>s, <2>2, <2>3, <2>4 DEF mine, other
<1>3. CASE active(r) /\ req[r].pc = "write" /\ AW!write(r) /\ go(r, "rename")
  <2>1. fd' = fd
    BY <1>3 DEF AW!write
  <2>2. writing(r) /\ writing(r)' /\ path(r)' = path(r)
    BY <1>3, GoFacts DEF writing, active, path, Pcs
  <2> QED BY <1>s, <2>1, <2>2 DEF FdInv, mine, other
<1>4. CASE /\ active(r) /\ req[r].pc = "rename" /\ AW!rename(r)
           /\ IF req[r].kind = "m3u8" THEN go(r, "keep") ELSE end(r)
  <2>1. ~writing(r)'
    BY <1>4, GoFacts, EndFacts DEF writing, active, Pcs
  <2> QED BY <1>0, <1>4, <1>s, <2>1, RenameMoves DEF mine, other
<1>5. CASE writing(r) /\ AW!fail(r) /\ end(r)
  <2>1. ~writing(r)'
    BY <1>5, EndFacts DEF writing, active
  <2> QED BY <1>0, <1>5, <1>s, <2>1, FailMoves DEF mine, other
<1> QED BY <1>1, <1>2, <1>3, <1>4, <1>5, HandleWrites
-----------------------------------------------------------------------------
\* HandlerTypeOK with what it takes to keep it.
HandlerInv == HandlerTypeOK /\ FdInv /\ LiveInv

\* What HandleFile does to parsers, metrics and kept paths keeps their types.
LEMMA HandleTypes ==
    ASSUME TypeOK, HandlerInv, NEW r \in Requests, Handle(r)
    PROVE  /\ parser' \subseteq data /\ metrics' \subseteq Slugs /\ kept' \subseteq Keeps
           /\ stale' = stale /\ panicked' \in BOOLEAN
<1>0. /\ active(r) /\ req[r].slug \in Slugs /\ req[r].stream \in States /\ req[r].parser \in States
      /\ parser \subseteq data /\ metrics \subseteq Slugs /\ kept \subseteq Keeps
      /\ panicked \in BOOLEAN
  BY HandleFacts, ActiveFields DEF HandlerInv, HandlerTypeOK
<1>1. CASE GetHLSParser(r)
  <2>1. kept' = kept /\ stale' = stale /\ panicked' \in BOOLEAN
    BY <1>0, <1>1 DEF GetHLSParser, panic, blameless
  <2>2. metrics' \subseteq Slugs
    BY <1>0, <1>1 DEF GetHLSParser
  <2>3. req[r].stream = "live" => req[r].slug \in data
    BY <1>0 DEF HandlerInv, LiveInv
  <2>4. parser' \subseteq data
    BY <1>0, <1>1, <2>3 DEF GetHLSParser
  <2> QED BY <1>0, <2>1, <2>2, <2>4
<1>2. CASE KeepDirectory(r) \/ KeepThumbnail(r)
  <2>1. <<req[r].slug, "dir">> \in Keeps /\ <<req[r].slug, "jpg">> \in Keeps
    BY <1>0 DEF Keeps
  <2>2. kept' \subseteq Keeps
    BY <1>0, <1>2, <2>1 DEF KeepDirectory, KeepThumbnail, keep
  <2> QED BY <1>0, <1>2, <2>2 DEF KeepDirectory, KeepThumbnail
<1>3. CASE GetStream(r) \/ Merge(r) \/ OpenFile(r) \/ WriteFile(r) \/ Rename(r)
             \/ KeepPlaylist(r) \/ Break(r)
  BY <1>0, <1>3 DEF GetStream, Merge, OpenFile, WriteFile, Rename, KeepPlaylist, Break, panic,
                    blameless
<1> QED BY <1>1, <1>2, <1>3 DEF Handle

\* A stream that is cleaned up leaves no request behind that takes it for live.
LEMMA LiveHandle ==
    ASSUME HandlerInv, NEW r \in Requests, Handle(r)
    PROVE  LiveInv'
<1>0. active(r) /\ HandlerTypeOK /\ data' = data /\ \A q \in Requests \ {r} : req'[q] = req[q]
  BY HandleFacts DEF HandlerInv, vars, streams
<1>1. ASSUME req'[r] # Idle, req'[r].stream = "live" PROVE req'[r].slug \in data
  <2>0. req'[r].slug = req[r].slug /\ req'[r].stream = "live"
    BY <1>1, HandleFacts, <1>0
  <2>1. CASE GetStream(r)
    BY <1>0, <1>1, <2>0, <2>1, EndFacts DEF GetStream
  <2>2. CASE ~GetStream(r)
    <3>1. \/ end(r) \/ \E pc \in Pcs : go(r, pc)
          \/ \E got \in States : req' = [req EXCEPT ![r].pc = "parse", ![r].parser = got]
      <4>1. CASE GetHLSParser(r)
        BY <4>1 DEF GetHLSParser, States, panic
      <4>2. CASE ~GetHLSParser(r)
        BY <2>2, <4>2 DEF Handle, KeepDirectory, KeepThumbnail, Merge, OpenFile, WriteFile, Rename,
                          KeepPlaylist, Break, Pcs, panic
      <4> QED BY <4>1, <4>2
    <3>2. req'[r].stream = req[r].stream
      <4>1. CASE end(r)
        BY <1>0, <1>1, <4>1, EndFacts
      <4>2. CASE \E pc \in Pcs : go(r, pc)
        BY <1>0, <4>2, GoFacts
      <4>3. CASE \E got \in States : req' = [req EXCEPT ![r].pc = "parse", ![r].parser = got]
        BY <1>0, <4>3, GetFacts
      <4> QED BY <3>1, <4>1, <4>2, <4>3
    <3> QED BY <1>0, <2>0, <3>2 DEF HandlerInv, LiveInv
  <2> QED BY <2>1, <2>2
<1> QED BY <1>0, <1>1 DEF HandlerInv, LiveInv, active

\* Stream.Cleanup, in timeout and at the end, keeps the types.
LEMMA CleanupTypes ==
    ASSUME TypeOK, HandlerInv, NEW gone \in SUBSET Slugs, cleanup(gone), data' = data \ gone
    PROVE  HandlerInv'
<1>0. HandlerTypeOK /\ FdInv /\ LiveInv
  BY DEF HandlerInv
<1>1. kept' \subseteq Keeps
  BY <1>0 DEF HandlerTypeOK, cleanup, stillKept
<1>2. /\ parser' \subseteq data' /\ metrics' \subseteq Slugs
      /\ stale' \subseteq Slugs /\ panicked' \in BOOLEAN
  <2>1. overtaken(gone) \subseteq Slugs
    BY DEF overtaken
  <2> QED BY <1>0, <2>1 DEF cleanup, remaining, HandlerTypeOK
<1>3. AW!WriterTypeOK' /\ fd' = fd
  BY <1>0 DEF cleanup, written, HandlerTypeOK, AW!WriterTypeOK
<1>4. FdInv'
  BY <1>0, <1>3, CleanupFacts DEF FdInv, writing, path
<1>5. LiveInv'
  <2> SUFFICES ASSUME NEW r \in Requests, active(r), req'[r].stream = "live"
               PROVE  req'[r].slug \in data'
    BY <1>0, CleanupFacts DEF LiveInv
  <2>1. req'[r].slug = req[r].slug
    BY <1>0, CleanupFacts
  <2>2. req[r].slug \notin gone
    BY <1>0, CleanupFacts DEF removed
  <2>3. req'[r] = req[r]
    BY <1>0, <2>2, CleanupFacts
  <2> QED BY <1>0, <2>2, <2>3 DEF LiveInv
<1>6. req' \in [Requests -> {Idle} \cup Reqs]
  BY <1>0, CleanupFacts
<1> QED BY <1>1, <1>2, <1>3, <1>4, <1>5, <1>6 DEF HandlerInv, HandlerTypeOK

\* Every step of the handlers, the store's goroutine and the clock keeps HandlerInv.
LEMMA HandlerInvStep == TypeOK /\ HandlerInv /\ [HandlerNext]_hvars => HandlerInv'
<1> SUFFICES ASSUME TypeOK, HandlerInv, [HandlerNext]_hvars PROVE HandlerInv'
  OBVIOUS
<1>0. /\ HandlerTypeOK /\ FdInv /\ LiveInv
      /\ req \in [Requests -> {Idle} \cup Reqs] /\ parser \subseteq data /\ metrics \subseteq Slugs
      /\ kept \subseteq Keeps /\ stale \subseteq Slugs /\ panicked \in BOOLEAN
      /\ AW!WriterTypeOK
      /\ data \subseteq Slugs
  BY DEF HandlerInv, HandlerTypeOK, TypeOK
<1>1. ASSUME NEW s \in Slugs, NEW o \in Origins, Answer(s, o) PROVE HandlerInv'
  <2>1. UNCHANGED <<handler, written>> /\ data \subseteq data'
    BY <1>1 DEF Answer, RejectStream, UpdateStream, vars, streams
  <2> QED BY <1>0, <2>1 DEF HandlerInv, HandlerTypeOK, FdInv, LiveInv, handler, written, active,
                            writing, path, AW!WriterTypeOK
<1>2. ASSUME NEW s \in Slugs, NEW o \in Origins, NEW r \in Requests, NEW k \in Kinds,
             Validate(r, s, o, k)
      PROVE  HandlerInv'
  <2>1. /\ UNCHANGED <<parser, metrics, kept, stale, panicked, written>> /\ data \subseteq data'
        /\ ~active(r)
    BY <1>2 DEF Validate, UpdateStream
  <2>2. AW!WriterTypeOK' /\ fd' = fd
    BY <1>0, <2>1 DEF written, AW!WriterTypeOK
  <2>3. /\ req' \in [Requests -> {Idle} \cup Reqs]
        /\ \A q \in Requests \ {r} : req'[q] = req[q]
        /\ req'[r].pc = "stream" /\ req'[r].stream = "none"
    BY <1>0, <1>2, ValidateFacts
  <2>4. FdInv'
    BY <1>0, <2>1, <2>2, <2>3 DEF FdInv, writing, active, path
  <2>5. LiveInv'
    BY <1>0, <2>1, <2>3 DEF LiveInv, active
  <2> QED BY <1>0, <2>1, <2>2, <2>3, <2>4, <2>5 DEF HandlerInv, HandlerTypeOK
<1>3. ASSUME NEW r \in Requests, Handle(r) PROVE HandlerInv'
  <2>1. AW!WriterTypeOK'
    <3>1. CASE UNCHANGED written
      BY <1>0, <3>1 DEF written, AW!WriterTypeOK
    <3>2. CASE ~UNCHANGED written
      BY <1>0, <1>3, <3>2, HandleWrites, WriterTypes DEF writing
    <3> QED BY <3>1, <3>2
  <2>2. FdInv' /\ LiveInv'
    BY <1>0, <1>3, FdHandle, LiveHandle
  <2>3. req' \in [Requests -> {Idle} \cup Reqs] /\ data' = data
    BY <1>0, <1>3, HandleFacts DEF vars, streams
  <2> QED BY <1>3, <2>1, <2>2, <2>3, HandleTypes DEF HandlerInv, HandlerTypeOK
<1>4. CASE TimeoutStep
  BY <1>0, <1>4, CleanupTypes DEF TimeoutStep, Timeout, removeStreams, expired
<1>5. CASE StopStep
  BY <1>0, <1>5, CleanupTypes DEF StopStep, Stop, removeStreams
<1>8. CASE Crash
  <2>1. \A r \in Requests : ~active(r)' /\ fd'[r] = AW!NotOpen
    BY <1>8 DEF Crash, active
  <2>2. AW!WriterTypeOK' /\ req' \in [Requests -> {Idle} \cup Reqs]
    BY <1>0, <1>8 DEF Crash, AW!WriterTypeOK
  <2>3. FdInv' /\ LiveInv'
    BY <2>1 DEF FdInv, LiveInv, writing
  <2>4. /\ parser' \subseteq data' /\ metrics' \subseteq Slugs /\ kept' \subseteq Keeps
        /\ stale' \subseteq Slugs /\ panicked' \in BOOLEAN
    BY <1>0, <1>8 DEF Crash, blameless
  <2> QED BY <2>2, <2>3, <2>4 DEF HandlerInv, HandlerTypeOK
<1>6. CASE AdvanceStep
  <2>1. UNCHANGED <<parser, metrics, kept, stale, panicked, written, data>>
    BY <1>6 DEF AdvanceStep, Advance
  <2>2. AW!WriterTypeOK' /\ fd' = fd
    BY <1>0, <2>1 DEF written, AW!WriterTypeOK
  <2>3. FdInv' /\ LiveInv'
    BY <1>0, <1>6, <2>1, <2>2, AdvanceFacts DEF FdInv, LiveInv, writing, path
  <2>4. req' \in [Requests -> {Idle} \cup Reqs]
    BY <1>0, <1>6, AdvanceFacts
  <2> QED BY <1>0, <2>1, <2>2, <2>3, <2>4 DEF HandlerInv, HandlerTypeOK
<1>7. CASE Exit \/ UNCHANGED hvars
  <2>1. UNCHANGED <<handler, written, data>>
    BY <1>7 DEF Exit, hvars, vars, streams
  <2> QED BY <1>0, <2>1 DEF HandlerInv, HandlerTypeOK, FdInv, LiveInv, handler, written, active,
                            writing, path, AW!WriterTypeOK
<1> QED BY <1>1, <1>2, <1>3, <1>4, <1>5, <1>6, <1>7, <1>8 DEF HandlerNext

\* HandlerInv holds from the start of the server on.
LEMMA HandlerInvAlways == HandlerSpec => []HandlerInv
<1>1. HandlerInit => HandlerInv
  <2> SUFFICES ASSUME HandlerInit PROVE HandlerInv
    OBVIOUS
  <2>1. AW!WriterTypeOK /\ \A r \in Requests : fd[r] = AW!NotOpen
    BY DEF HandlerInit, AW!WriterInit, AW!WriterTypeOK
  <2>2. \A r \in Requests : ~active(r)
    BY DEF HandlerInit, active
  <2> QED BY <2>1, <2>2 DEF HandlerInit, Init, HandlerInv, HandlerTypeOK, FdInv, LiveInv, writing,
                            States
<1>2. HandlerSpec => []TypeOK
  BY ImplementsStore, TypeCorrect, PTL
<1> QED BY <1>1, <1>2, HandlerInvStep, PTL DEF HandlerSpec

\* Requests, parsers, metrics, kept paths and open files keep their types: a
\* parser is only ever made in a Stream of the store's map, and a handler that
\* writes has the file of its own path open.
THEOREM HandlerTypeCorrect == HandlerSpec => []HandlerTypeOK
BY HandlerInvAlways, PTL DEF HandlerInv
-----------------------------------------------------------------------------
\* The parser and the Stream of a request are live together, and a playlist
\* upload of a slug that is not stale has both.
LEMMA ParserIsLive ==
    ASSUME HandlerTypeOK, NEW r \in Requests, active(r), RequestInv(r), hasParser(r),
           req[r].slug \notin stale
    PROVE  req[r].parser = "live"
<1>1. req[r].parser \in {"none", "live", "removed", "late"}
  BY ActiveFields DEF States
<1> QED BY <1>1 DEF RequestInv, hasParser

\* RequestInv of a request depends on few of its fields, and on stale growing.
LEMMA RequestSame ==
    ASSUME NEW r \in Requests, RequestInv(r), stale \subseteq stale',
           req'[r].slug = req[r].slug, req'[r].kind = req[r].kind, req'[r].pc = req[r].pc,
           req'[r].stream = req[r].stream, req'[r].parser = req[r].parser
    PROVE  RequestInv(r)'
BY DEF RequestInv, hasParser

\* A request that only moves on keeps RequestInv if the place suits its kind.
LEMMA RequestGoes ==
    ASSUME HandlerTypeOK, NEW r \in Requests, active(r), RequestInv(r), stale' = stale,
           NEW pc \in Pcs \ {"stream"}, go(r, pc), req[r].pc # "stream",
           hasParser(r) <=> req[r].kind = "m3u8" /\ pc \in {"parse", "open", "write", "rename", "keep"},
           pc \in {"parser", "parse", "keep"} => req[r].kind = "m3u8",
           pc = "keepjpg" => req[r].kind = "jpg"
    PROVE  RequestInv(r)'
<1>1. /\ req'[r].pc = pc /\ req'[r].slug = req[r].slug /\ req'[r].kind = req[r].kind
      /\ req'[r].stream = req[r].stream /\ req'[r].parser = req[r].parser
  BY GoFacts
<1> QED BY <1>1 DEF RequestInv, hasParser

\* A step of HandleFile keeps RequestInv.
LEMMA RequestHandle ==
    ASSUME HandlerTypeOK, NEW r \in Requests, RequestInv(r), Handle(r)
    PROVE  req'[r] # Idle => RequestInv(r)'
<1>0. active(r) /\ stale' = stale /\ req[r].stream \in States /\ req[r].parser \in States
  BY HandleFacts, ActiveFields
     DEF Handle, GetStream, KeepDirectory, KeepThumbnail, GetHLSParser, Merge, OpenFile, WriteFile,
         Rename, KeepPlaylist, Break
<1>1. CASE GetStream(r)
  <2>1. CASE req[r].slug \in data
    <3>1. req' = [req EXCEPT ![r].pc = "keepdir", ![r].stream = "live"]
      BY <1>1, <2>1 DEF GetStream
    <3>2. /\ req'[r].pc = "keepdir" /\ req'[r].kind = req[r].kind
          /\ req'[r].stream = "live" /\ req'[r].parser = req[r].parser
      <4>1. req[r] \in Reqs /\ req \in [Requests -> {Idle} \cup Reqs]
        BY <1>0, ActiveFields DEF HandlerTypeOK
      <4>2. req'[r] = [req[r] EXCEPT !.pc = "keepdir", !.stream = "live"]
        BY <3>1, <4>1
      <4> QED BY <4>1, <4>2 DEF Reqs
    <3>3. req[r].parser = "none"
      BY <1>1 DEF GetStream, RequestInv, hasParser
    <3> QED BY <3>2, <3>3 DEF RequestInv, hasParser
  <2> QED BY <1>1, <2>1, EndFacts DEF GetStream
<1>2. CASE KeepDirectory(r)
  <2>1. \/ end(r) \/ (go(r, "parser") /\ req[r].kind = "m3u8")
        \/ (go(r, "keepjpg") /\ req[r].kind = "jpg") \/ (go(r, "open") /\ req[r].kind # "m3u8")
    BY <1>2 DEF KeepDirectory
  <2>2. req[r].pc = "keepdir" /\ ~hasParser(r)
    BY <1>2 DEF KeepDirectory, hasParser
  <2> QED BY <1>0, <2>1, <2>2, EndFacts, RequestGoes DEF Pcs
<1>3. CASE KeepThumbnail(r)
  <2>1. req[r].pc = "keepjpg" /\ go(r, "open") /\ req[r].kind = "jpg"
    BY <1>3 DEF KeepThumbnail, RequestInv
  <2> QED BY <1>0, <2>1, RequestGoes DEF Pcs, hasParser
<1>4. CASE GetHLSParser(r)
  <2>1. req[r].pc = "parser" /\ req[r].kind = "m3u8" /\ req[r].stream \in {"live", "removed"}
    BY <1>4 DEF GetHLSParser, RequestInv
  <2>2. \/ end(r)
        \/ /\ req[r].stream = "live"
           /\ req' = [req EXCEPT ![r].pc = "parse", ![r].parser = "live"]
        \/ /\ req[r].stream # "live"
           /\ req' = [req EXCEPT ![r].pc = "parse", ![r].parser = "late"]
    BY <1>4 DEF GetHLSParser, panic
  <2>3. "live" \in States /\ "late" \in States
    BY DEF States
  <2>4. req'[r] # Idle =>
          /\ req'[r].pc = "parse" /\ req'[r].kind = "m3u8" /\ req'[r].slug = req[r].slug
          /\ req'[r].stream = req[r].stream
          /\ req'[r].parser = (IF req[r].stream = "live" THEN "live" ELSE "late")
    BY <1>0, <2>1, <2>2, <2>3, GetFacts, EndFacts
  <2> QED BY <1>0, <2>1, <2>4 DEF RequestInv, hasParser
<1>5. CASE Merge(r)
  <2>1. req[r].pc = "parse" /\ req[r].kind = "m3u8" /\ (end(r) \/ go(r, "open"))
    BY <1>5 DEF Merge, RequestInv, panic
  <2> QED BY <1>0, <2>1, EndFacts, RequestGoes DEF Pcs, hasParser
<1>6. CASE OpenFile(r) \/ WriteFile(r)
  <2>1. \/ req[r].pc = "open" /\ go(r, "write")
        \/ req[r].pc = "write" /\ go(r, "rename")
    BY <1>6 DEF OpenFile, WriteFile
  <2> QED BY <1>0, <2>1, RequestGoes DEF Pcs, hasParser
<1>7. CASE Rename(r)
  <2>1. end(r) \/ (go(r, "keep") /\ req[r].kind = "m3u8")
    BY <1>7 DEF Rename
  <2>2. req[r].pc = "rename"
    BY <1>7 DEF Rename
  <2> QED BY <1>0, <2>1, <2>2, EndFacts, RequestGoes DEF Pcs, hasParser
<1>8. CASE KeepPlaylist(r) \/ Break(r)
  BY <1>8, EndFacts DEF KeepPlaylist, Break, panic
<1> QED BY <1>1, <1>2, <1>3, <1>4, <1>5, <1>6, <1>7, <1>8 DEF Handle

\* Stream.Cleanup takes the Stream and the parser of a request together.
LEMMA RequestCleanup ==
    ASSUME HandlerTypeOK, NEW gone, cleanup(gone), NEW r \in Requests, active(r), RequestInv(r)
    PROVE  RequestInv(r)'
<1>0. /\ req'[r].pc = req[r].pc /\ req'[r].slug = req[r].slug /\ req'[r].kind = req[r].kind
      /\ stale \subseteq stale'
  BY CleanupFacts DEF cleanup
<1>1. CASE req[r].slug \notin gone
  BY <1>0, <1>1, CleanupFacts, RequestSame
<1>2. CASE req[r].slug \in gone
  <2>1. req'[r].stream = removed(req[r].stream) /\ req'[r].parser = removed(req[r].parser)
    BY <1>2, CleanupFacts
  <2>2. req[r].kind = "m3u8" /\ req[r].stream = "live" => req[r].slug \in stale'
    BY <1>2 DEF cleanup, overtaken
  <2> QED BY <1>0, <2>1, <2>2 DEF RequestInv, hasParser, removed
<1> QED BY <1>1, <1>2

\* RequestsInv is kept by every step.
LEMMA RequestsStep ==
    ASSUME HandlerInv, RequestsInv, [HandlerNext]_hvars
    PROVE  RequestsInv'
<1>0. HandlerTypeOK
  BY DEF HandlerInv
<1>1. ASSUME NEW s \in Slugs, NEW o \in Origins, Answer(s, o) PROVE RequestsInv'
  BY <1>1 DEF Answer, handler, RequestsInv, RequestInv, hasParser, active
<1>2. ASSUME NEW s \in Slugs, NEW o \in Origins, NEW r \in Requests, NEW k \in Kinds,
             Validate(r, s, o, k)
      PROVE  RequestsInv'
  <2>1. stale' = stale
    BY <1>2 DEF Validate
  <2>2. RequestInv(r)'
    BY <1>0, <1>2, ValidateFacts DEF RequestInv, hasParser
  <2>3. ASSUME NEW q \in Requests \ {r}, active(q)' PROVE RequestInv(q)'
    <3>1. req'[q] = req[q] /\ active(q)
      BY <1>0, <1>2, <2>3, ValidateFacts DEF active
    <3> QED BY <2>1, <3>1, RequestSame DEF RequestsInv
  <2> QED BY <2>2, <2>3 DEF RequestsInv
<1>3. ASSUME NEW r \in Requests, Handle(r) PROVE RequestsInv'
  <2>1. active(r) /\ \A q \in Requests \ {r} : req'[q] = req[q]
    BY <1>0, <1>3, HandleFacts
  <2>2. stale' = stale
    BY <1>3 DEF Handle, GetStream, KeepDirectory, KeepThumbnail, GetHLSParser, Merge, OpenFile,
                WriteFile, Rename, KeepPlaylist, Break
  <2>3. active(r)' => RequestInv(r)'
    BY <1>0, <1>3, <2>1, RequestHandle DEF RequestsInv, active
  <2>4. ASSUME NEW q \in Requests \ {r}, active(q)' PROVE RequestInv(q)'
    BY <2>1, <2>2, <2>4, RequestSame DEF RequestsInv, active
  <2> QED BY <2>3, <2>4 DEF RequestsInv
<1>4. ASSUME NEW gone, cleanup(gone) PROVE RequestsInv'
  BY <1>0, <1>4, CleanupFacts, RequestCleanup DEF RequestsInv
<1>5. CASE Crash
  BY <1>5 DEF Crash, RequestsInv, active
<1>6. CASE AdvanceStep
  <2>1. stale' = stale
    BY <1>6 DEF AdvanceStep
  <2> QED BY <1>0, <1>6, <2>1, AdvanceFacts, RequestSame DEF RequestsInv
<1>7. CASE Exit \/ UNCHANGED hvars
  BY <1>7 DEF Exit, hvars, handler, RequestsInv, RequestInv, hasParser, active
<1> QED BY <1>1, <1>2, <1>3, <1>4, <1>5, <1>6, <1>7 DEF HandlerNext, TimeoutStep, StopStep

-----------------------------------------------------------------------------
\* Until a request is late, its origin's exclusivity is not over.
LEMMA StillHeld ==
    ASSUME TypeOK, HandlerTypeOK, NEW r \in Requests, active(r), ~late(r), holdsStream(r)
    PROVE  /\ req[r].slug \in Slugs /\ held[req[r].slug] \in Nat /\ held[req[r].slug] > 0
           /\ req[r].age \in 0..StreamOriginDuration
<1>1. req[r].age \in 0..StreamOriginDuration /\ req[r].slug \in Slugs
  BY ActiveFields
<1>2. held[req[r].slug] \in 0..StreamOriginDuration
  BY <1>1 DEF TypeOK
<1> QED BY <1>1, <1>2, DurationsAssumption DEF holdsStream, late

\* Another request that Validate accepts only renews what protects a Stream.
LEMMA UpdateKeepsHolder ==
    ASSUME TypeOK, HandlerTypeOK, NEW r \in Requests, active(r), holdsStream(r), req'[r] = req[r],
           NEW s \in Slugs, NEW o \in Origins, UpdateStream(s, o)
    PROVE  holdsStream(r)'
<1>1. req[r].slug \in Slugs /\ req[r].age \in 0..StreamOriginDuration
  BY ActiveFields
<1>2. data' = data \cup {s} /\ held \in [Slugs -> 0..StreamOriginDuration]
  BY DEF TypeOK, UpdateStream
<1>3. CASE s = req[r].slug
  <2>1. held'[s] = StreamOriginDuration
    BY <1>2 DEF UpdateStream
  <2>2. StreamOriginDuration >= StreamOriginDuration - req[r].age
    BY <1>1, DurationsAssumption
  <2> QED BY <1>2, <1>3, <2>1, <2>2 DEF holdsStream
<1>4. CASE s # req[r].slug
  <2>1. held'[req[r].slug] = held[req[r].slug]
    BY <1>1, <1>2, <1>4 DEF UpdateStream
  <2> QED BY <1>2, <2>1 DEF holdsStream
<1> QED BY <1>3, <1>4

\* HandleFile never gives a request a Stream that is removed.
LEMMA StreamHandle ==
    ASSUME HandlerTypeOK, NEW r \in Requests, Handle(r), req'[r] # Idle
    PROVE  req'[r].stream \in {req[r].stream, "live"}
<1>0. active(r)
  BY HandleFacts
<1>1. CASE GetStream(r)
  <2>1. req' = [req EXCEPT ![r].pc = "keepdir", ![r].stream = "live"]
    BY <1>1, EndFacts DEF GetStream
  <2>2. req[r] \in Reqs /\ req \in [Requests -> {Idle} \cup Reqs]
    BY <1>0, ActiveFields DEF HandlerTypeOK
  <2>3. req'[r] = [req[r] EXCEPT !.pc = "keepdir", !.stream = "live"]
    BY <2>1, <2>2
  <2> QED BY <2>2, <2>3 DEF Reqs
<1>2. CASE GetHLSParser(r)
  <2>1. end(r) \/ \E got \in States : req' = [req EXCEPT ![r].pc = "parse", ![r].parser = got]
    BY <1>2 DEF GetHLSParser, States, panic
  <2> QED BY <1>0, <2>1, EndFacts, GetFacts
<1>3. CASE KeepDirectory(r) \/ KeepThumbnail(r) \/ Merge(r) \/ OpenFile(r) \/ WriteFile(r)
             \/ Rename(r) \/ KeepPlaylist(r) \/ Break(r)
  <2>1. end(r) \/ \E pc \in Pcs : go(r, pc)
    BY <1>3 DEF KeepDirectory, KeepThumbnail, Merge, OpenFile, WriteFile, Rename, KeepPlaylist,
                Break, Pcs, panic
  <2> QED BY <1>0, <2>1, EndFacts, GoFacts
<1> QED BY <1>1, <1>2, <1>3 DEF Handle

\* No step of another request, of the goroutine or of the clock takes the
\* Stream from a request that is not late.
LEMMA HeldStep ==
    ASSUME TypeOK, Outlives', HandlerInv, HeldInv, [HandlerNext]_hvars
    PROVE  HeldInv'
<1> SUFFICES ASSUME run' = "running", NEW r \in Requests, active(r)', ~late(r)'
             PROVE  holdsStream(r)'
  BY DEF HeldInv
<1>0. HandlerTypeOK
  BY DEF HandlerInv
<1>r. run = "running"
  <2>1. [Next]_vars
    BY StoreStep
  <2> QED BY <2>1 DEF Next, UpdateStream, RejectStream, Timeout, Stop, Advance, vars
<1>k. active(r) /\ ~late(r) => holdsStream(r)
  BY <1>r DEF HeldInv
<1>s. ASSUME req'[r] = req[r], UNCHANGED <<data, held>> PROVE holdsStream(r)'
  BY <1>k, <1>s DEF holdsStream, active, late
<1>1. ASSUME NEW s \in Slugs, NEW o \in Origins, Answer(s, o) PROVE holdsStream(r)'
  <2>1. req' = req
    BY <1>1 DEF Answer, handler
  <2>2. active(r) /\ holdsStream(r)
    BY <1>k, <2>1 DEF active, late
  <2>3. CASE UpdateStream(s, o)
    BY <1>0, <2>1, <2>2, <2>3, UpdateKeepsHolder
  <2>4. CASE RejectStream(s, o)
    BY <1>s, <2>1, <2>4 DEF RejectStream, vars, streams, history
  <2> QED BY <1>1, <2>3, <2>4 DEF Answer
<1>2. ASSUME NEW s \in Slugs, NEW o \in Origins, NEW q \in Requests, NEW k \in Kinds,
             Validate(q, s, o, k)
      PROVE  holdsStream(r)'
  <2>1. UpdateStream(s, o)
    BY <1>2 DEF Validate
  <2>2. CASE r = q
    <3>1. s \in data' /\ held'[s] = StreamOriginDuration
      BY <2>1 DEF UpdateStream, TypeOK
    <3>2. StreamOriginDuration >= StreamOriginDuration - 0
      BY DurationsAssumption
    <3>3. req'[r].slug = s /\ req'[r].age = 0 /\ req'[r].stream = "none"
      BY <1>0, <1>2, <2>2, ValidateFacts
    <3> QED BY <3>1, <3>2, <3>3 DEF holdsStream
  <2>3. CASE r # q
    <3>1. req'[r] = req[r]
      BY <1>0, <1>2, <2>3, ValidateFacts
    <3>2. active(r) /\ holdsStream(r)
      BY <1>k, <3>1 DEF active, late
    <3> QED BY <1>0, <2>1, <3>1, <3>2, UpdateKeepsHolder
  <2> QED BY <2>2, <2>3
<1>3. ASSUME NEW q \in Requests, Handle(q) PROVE holdsStream(r)'
  <2>1. active(q) /\ UNCHANGED <<data, held>>
    BY <1>0, <1>3, HandleFacts DEF vars, streams, history
  <2>2. CASE r = q
    <3>1. /\ req'[r].slug = req[r].slug /\ req'[r].age = req[r].age
          /\ req'[r].stream \in {req[r].stream, "live"}
      BY <1>0, <1>3, <2>2, HandleFacts, StreamHandle DEF active
    <3>2. holdsStream(r)
      BY <1>k, <2>1, <2>2, <3>1 DEF late
    <3> QED BY <2>1, <3>1, <3>2 DEF holdsStream
  <2>3. CASE r # q
    <3>1. req'[r] = req[r]
      BY <1>0, <1>3, <2>3, HandleFacts
    <3> QED BY <1>s, <2>1, <3>1
  <2> QED BY <2>2, <2>3
<1>4. CASE TimeoutStep
  <2>0. cleanup(expired) /\ held' = held /\ data' = data \ expired
    BY <1>4 DEF TimeoutStep, Timeout, removeStreams, history
  <2>1. active(r) /\ ~late(r) /\ req'[r].slug = req[r].slug /\ req'[r].age = req[r].age
    BY <1>0, <2>0, CleanupFacts DEF late
  <2>2. req[r].slug \in Slugs /\ held[req[r].slug] \in Nat /\ held[req[r].slug] > 0
    BY <1>0, <1>k, <2>1, StillHeld
  <2>3. req[r].slug \in data'
    BY <2>0, <2>2 DEF Outlives, OutlivesOrigin
  <2>4. req'[r] = req[r]
    BY <1>0, <2>0, <2>3, CleanupFacts
  <2> QED BY <1>k, <2>0, <2>1, <2>3, <2>4 DEF holdsStream
<1>5. CASE StopStep \/ Crash
  BY <1>5 DEF StopStep, Crash, Stop
<1>6. CASE AdvanceStep
  <2>0. data' = data
    BY <1>6 DEF AdvanceStep, Advance
  <2>1. /\ active(r) /\ req'[r].slug = req[r].slug /\ req'[r].stream = req[r].stream
        /\ late(r) => req'[r].age = req[r].age
        /\ ~late(r) => req'[r].age = req[r].age + 1
    BY <1>0, <1>6, AdvanceFacts
  <2>2. ~late(r)
    BY <2>1 DEF late
  <2>3. /\ req[r].slug \in Slugs /\ held[req[r].slug] \in Nat /\ held[req[r].slug] > 0
        /\ req[r].age \in 0..StreamOriginDuration
    BY <1>0, <1>k, <2>1, <2>2, StillHeld
  <2>4. held'[req[r].slug] = held[req[r].slug] - 1
    BY <1>6, <2>3 DEF AdvanceStep, Advance, less
  <2>5. held[req[r].slug] >= StreamOriginDuration - req[r].age
    BY <1>k, <2>1, <2>2 DEF holdsStream
  <2>6. held[req[r].slug] - 1 >= StreamOriginDuration - (req[r].age + 1)
    BY <2>3, <2>5, DurationsAssumption
  <2> QED BY <1>k, <2>0, <2>1, <2>2, <2>4, <2>6 DEF holdsStream
<1>7. CASE Exit \/ UNCHANGED hvars
  <2>1. UNCHANGED <<req, data, held>>
    BY <1>7 DEF Exit, hvars, vars, streams, history, handler
  <2> QED BY <1>s, <2>1
<1> QED BY <1>1, <1>2, <1>3, <1>4, <1>5, <1>6, <1>7 DEF HandlerNext

\* A handler that is in time does not race with the Cleanup of its parser.
LEMMA InTimeNoRace ==
    ASSUME TypeOK, Outlives, HandlerTypeOK, HeldInv, run = "running", ticks = 1,
           NEW r \in Requests, races(r)
    PROVE  late(r)
<1> SUFFICES ASSUME ~late(r) PROVE FALSE
  OBVIOUS
<1> DEFINE s == req[r].slug
<1>1. active(r) /\ s \in data /\ ttl[s] <= StreamExpireInterval
  BY DEF races, expired, aged
<1>2. s \in Slugs /\ held[s] \in Nat /\ held[s] > 0
  BY <1>1, StillHeld DEF HeldInv
<1>3. held[s] <= SafeTime(s)
  BY <1>1, <1>2 DEF Outlives, OutlivesOrigin
<1>4. ttl[s] \in Nat /\ timer \in 1..StreamExpireInterval
  BY <1>2, DurationsAssumption DEF TypeOK
<1>5. SafeTime(s) = ttl[s] + timer - StreamExpireInterval - StreamExpireInterval
  BY DEF SafeTime
<1> HIDE DEF s
<1> QED BY <1>1, <1>2, <1>3, <1>4, <1>5, DurationsAssumption

\* No step of a handler that is not late, of a slug that is not stale, panics,
\* and metrics only come apart from parsers for slugs that are stale.
LEMMA PanicStep ==
    ASSUME TypeOK, Outlives, HandlerInv, RequestsInv, HeldInv, NoPanic, [HandlerNext]_hvars
    PROVE  NoPanic'
<1>0. HandlerTypeOK
  BY DEF HandlerInv
<1>k. ~panicked /\ parser \subseteq metrics /\ metrics \ parser \subseteq stale
  BY DEF NoPanic
<1>s. ASSUME UNCHANGED <<parser, metrics, stale, panicked>> PROVE NoPanic'
  BY <1>s DEF NoPanic
<1>1. ASSUME NEW s \in Slugs, NEW o \in Origins,
             Answer(s, o) \/ \E r \in Requests, k \in Kinds : Validate(r, s, o, k)
      PROVE  NoPanic'
  BY <1>1, <1>s DEF Answer, Validate, handler
<1>2. ASSUME NEW r \in Requests, Handle(r) PROVE NoPanic'
  <2>0. active(r) /\ RequestInv(r) /\ req[r].stream \in States
    BY <1>0, <1>2, HandleFacts, ActiveFields DEF RequestsInv
  <2>1. CASE GetHLSParser(r)
    <3>1. /\ req[r].kind = "m3u8" /\ req[r].stream \in {"live", "removed"} /\ stale' = stale
          /\ req[r].stream = "removed" => req[r].slug \in stale
      BY <2>0, <2>1 DEF GetHLSParser, RequestInv
    <3>2. \/ UNCHANGED <<parser, metrics, panicked>>
          \/ /\ req[r].slug \notin metrics /\ metrics' = metrics \cup {req[r].slug}
             /\ parser' = (IF req[r].stream = "live" THEN parser \cup {req[r].slug} ELSE parser)
             /\ UNCHANGED panicked
          \/ /\ req[r].stream = "live" => req[r].slug \notin parser
             /\ req[r].slug \in metrics
             /\ panicked' = (panicked \/ blameless(r))
             /\ UNCHANGED <<parser, metrics>>
      BY <2>1 DEF GetHLSParser, panic
    <3>3. CASE UNCHANGED <<parser, metrics, panicked>>
      BY <1>s, <3>1, <3>3
    <3>4. CASE /\ req[r].slug \notin metrics /\ metrics' = metrics \cup {req[r].slug}
               /\ parser' = (IF req[r].stream = "live" THEN parser \cup {req[r].slug} ELSE parser)
               /\ UNCHANGED panicked
      <4>1. CASE req[r].stream = "live"
        BY <1>k, <3>1, <3>4, <4>1 DEF NoPanic
      <4>2. CASE req[r].stream = "removed"
        BY <1>k, <3>1, <3>4, <4>2 DEF NoPanic
      <4> QED BY <3>1, <4>1, <4>2
    <3>5. CASE /\ req[r].stream = "live" => req[r].slug \notin parser
               /\ req[r].slug \in metrics
               /\ panicked' = (panicked \/ blameless(r))
               /\ UNCHANGED <<parser, metrics>>
      <4>1. req[r].slug \in stale
        BY <1>k, <3>1, <3>5
      <4> QED BY <1>k, <3>1, <3>5, <4>1 DEF NoPanic, blameless
    <3> QED BY <3>2, <3>3, <3>4, <3>5
  <2>2. CASE Merge(r) \/ KeepPlaylist(r)
    <3>1. \/ UNCHANGED panicked
          \/ req[r].parser = "removed" /\ panicked' = (panicked \/ blameless(r))
      BY <2>2 DEF Merge, KeepPlaylist, panic
    <3>2. UNCHANGED <<parser, metrics, stale>>
      BY <2>2 DEF Merge, KeepPlaylist
    <3>3. req[r].pc \in {"parse", "keep"}
      BY <2>2 DEF Merge, KeepPlaylist
    <3>4. req[r].parser = "removed" => req[r].slug \in stale
      BY <2>0, <3>3 DEF RequestInv
    <3>5. ~panicked'
      BY <1>k, <3>1, <3>4 DEF blameless
    <3> QED BY <1>k, <3>2, <3>5 DEF NoPanic
  <2>3. CASE GetStream(r) \/ KeepDirectory(r) \/ KeepThumbnail(r) \/ OpenFile(r) \/ WriteFile(r)
               \/ Rename(r) \/ Break(r)
    BY <1>s, <2>3 DEF GetStream, KeepDirectory, KeepThumbnail, OpenFile, WriteFile, Rename, Break
  <2> QED BY <1>2, <2>1, <2>2, <2>3 DEF Handle
<1>3. ASSUME NEW gone, cleanup(gone) PROVE NoPanic'
  <2>1. /\ metrics' = metrics \ (gone \cap parser) /\ parser' = parser \ gone
        /\ stale \subseteq stale' /\ panicked' = panicked
    BY <1>3 DEF cleanup, unregistered, remaining
  <2> QED BY <1>k, <2>1 DEF NoPanic
<1>4. CASE Crash
  <2>1. PICK r \in Requests : races(r) /\ panicked' = (panicked \/ blameless(r))
    BY <1>4 DEF Crash
  <2>2. late(r)
    BY <1>0, <1>4, <2>1, InTimeNoRace DEF Crash, Stop
  <2> QED BY <1>4, <1>k, <2>1, <2>2 DEF Crash, NoPanic, blameless
<1>5. CASE AdvanceStep \/ Exit \/ UNCHANGED hvars
  BY <1>5, <1>s DEF AdvanceStep, Exit, hvars, handler
<1> QED BY <1>1, <1>2, <1>3, <1>4, <1>5 DEF HandlerNext, TimeoutStep, StopStep

\* The inductive form of ValidatedIsHandled and NoPanic.
ServedInv == RequestsInv /\ HeldInv /\ NoPanic

\* ServedInv holds for as long as the server runs.
LEMMA ServedAlways == HandlerSpec => []ServedInv
<1>1. HandlerInit => ServedInv
  BY DEF HandlerInit, ServedInv, RequestsInv, HeldInv, NoPanic, active
<1>2. HandlerSpec => []TypeOK /\ []Outlives
  BY ImplementsStore, TypeCorrect, OriginRemembered, PTL
<1>3. TypeOK /\ Outlives /\ Outlives' /\ HandlerInv /\ ServedInv /\ [HandlerNext]_hvars => ServedInv'
  BY RequestsStep, HeldStep, PanicStep DEF ServedInv
<1> QED BY <1>1, <1>2, <1>3, HandlerInvAlways, PTL DEF HandlerSpec

\* A request Validate accepted is handled in the Stream it was accepted for,
\* and no other origin gets the slug, for StreamOriginDuration, whatever other
\* requests and ticks come in between and however long requests take.
THEOREM AcceptedIsServed == HandlerSpec => []ValidatedIsHandled
<1>1. TypeOK /\ Outlives /\ HandlerTypeOK /\ ServedInv => ValidatedIsHandled
  <2> SUFFICES ASSUME TypeOK, Outlives, HandlerTypeOK, ServedInv, run = "running",
                      NEW r \in Requests, active(r), ~late(r)
               PROVE  /\ req[r].slug \in data
                      /\ exclusive[req[r].slug] + req[r].age >= StreamOriginDuration
                      /\ {req[r].stream, req[r].parser} \subseteq {"none", "live"}
    BY DEF ValidatedIsHandled
  <2>1. holdsStream(r) /\ RequestInv(r)
    BY DEF ServedInv, HeldInv, RequestsInv
  <2>2. req[r].slug \in Slugs /\ req[r].age \in 0..StreamOriginDuration
    BY ActiveFields
  <2>3. held[req[r].slug] = exclusive[req[r].slug] /\ held[req[r].slug] \in 0..StreamOriginDuration
    BY <2>1, <2>2 DEF Outlives, OutlivesOrigin, holdsStream, TypeOK
  <2>4. exclusive[req[r].slug] + req[r].age >= StreamOriginDuration
    BY <2>1, <2>2, <2>3, DurationsAssumption DEF holdsStream
  <2>5. req[r].parser \in {"none", "live", "removed", "late"}
    BY ActiveFields DEF States
  <2> QED BY <2>1, <2>4, <2>5 DEF holdsStream, RequestInv
<1>2. HandlerSpec => []TypeOK /\ []Outlives
  BY ImplementsStore, TypeCorrect, OriginRemembered, PTL
<1> QED BY <1>1, <1>2, HandlerTypeCorrect, ServedAlways, PTL

\* However long requests take, a handler only panics or ends the process if it
\* is late or if the slug's Stream was removed under a playlist upload, and
\* only such a slug has metrics registered that no parser in the store has.
THEOREM NeverPanics == HandlerSpec => []NoPanic
BY ServedAlways, PTL DEF ServedInv

\* A path a live Stream keeps only ever stops being kept because the Stream left
\* the map, or because a late request that still has a Stream that was removed
\* tells the registry to keep it with the closed channel.
THEOREM LiveKeepsStay == HandlerSpec => KeepsStayLive
<1> DEFINE Stays ==
      \A p \in kept \ kept' :
          run' = "running" =>
              \/ p[1] \notin data'
              \/ \E r \in Requests :
                    active(r) /\ late(r) /\ req[r].stream = "removed" /\ req'[r] # req[r]
<1>1. HandlerInv /\ ServedInv /\ [HandlerNext]_hvars => [Stays]_hvars
  <2> SUFFICES ASSUME HandlerInv, ServedInv, [HandlerNext]_hvars, NEW p \in kept \ kept',
                      run' = "running"
               PROVE  \/ p[1] \notin data'
                      \/ \E r \in Requests :
                            active(r) /\ late(r) /\ req[r].stream = "removed" /\ req'[r] # req[r]
    OBVIOUS
  <2>0. HandlerTypeOK
    BY DEF HandlerInv
  <2>r. run = "running"
    <3>1. [Next]_vars
      BY StoreStep
    <3> QED BY <3>1 DEF Next, UpdateStream, RejectStream, Timeout, Stop, Advance, vars
  <2>1. ASSUME NEW s \in Slugs, NEW o \in Origins,
               Answer(s, o) \/ \E r \in Requests, k \in Kinds : Validate(r, s, o, k)
        PROVE  FALSE
    BY <2>1 DEF Answer, Validate, handler
  <2>2. ASSUME NEW r \in Requests, Handle(r)
        PROVE  active(r) /\ late(r) /\ req[r].stream = "removed" /\ req'[r] # req[r]
    <3>1. active(r) /\ RequestInv(r) /\ (late(r) \/ req[r].stream # "removed")
      BY <2>0, <2>2, <2>r, HandleFacts DEF ServedInv, RequestsInv, HeldInv, holdsStream
    <3>2. KeepDirectory(r) \/ KeepThumbnail(r)
      BY <2>2 DEF Handle, GetStream, GetHLSParser, Merge, OpenFile, WriteFile, Rename,
                  KeepPlaylist, Break
    <3>3. req[r].stream # "live" /\ req[r].pc \in {"keepdir", "keepjpg"}
      BY <3>2 DEF KeepDirectory, KeepThumbnail, keep
    <3>4. req[r].stream = "removed" /\ late(r)
      BY <3>1, <3>3 DEF RequestInv
    <3>5. req'[r] # req[r]
      <4>1. \/ end(r) \/ go(r, "parser") \/ go(r, "open") \/ (go(r, "keepjpg") /\ req[r].pc = "keepdir")
        BY <3>2 DEF KeepDirectory, KeepThumbnail
      <4> QED BY <2>0, <3>1, <3>3, <4>1, EndFacts, GoFacts DEF active, Pcs
    <3> QED BY <3>1, <3>4, <3>5
  <2>3. CASE TimeoutStep
    <3>1. p[1] \in expired
      BY <2>3 DEF TimeoutStep, cleanup, stillKept
    <3> QED BY <2>3, <3>1 DEF TimeoutStep, Timeout, removeStreams
  <2>4. CASE StopStep \/ Crash \/ AdvanceStep \/ Exit \/ UNCHANGED hvars
    BY <2>4 DEF StopStep, Crash, Stop, AdvanceStep, Exit, hvars, handler
  <2> QED BY <2>1, <2>2, <2>3, <2>4 DEF HandlerNext
<1> QED BY <1>1, HandlerInvAlways, ServedAlways, PTL DEF HandlerSpec, KeepsStayLive

-----------------------------------------------------------------------------
\* h.mutex: a request enters when nobody of the same, live, parser is inside.
LEMMA MutexHandle ==
    ASSUME HandlerInv, RequestsInv, MutexInv, NEW r \in Requests, Handle(r)
    PROVE  MutexInv'
<1>0. /\ HandlerTypeOK /\ active(r) /\ \A q \in Requests \ {r} : req'[q] = req[q]
      /\ req'[r] # Idle => req'[r].slug = req[r].slug
  BY HandleFacts DEF HandlerInv
<1>1. CASE inMutex(r)' => inMutex(r)
  BY <1>0, <1>1 DEF MutexInv, inMutex, active
<1>2. CASE inMutex(r)' /\ ~inMutex(r)
  <2>1. Merge(r) /\ req[r].parser = "live"
    <3>0. RequestInv(r) /\ req'[r] # Idle /\ req'[r].parser = "live"
          /\ req'[r].pc \in {"open", "write", "rename", "keep"}
      BY <1>0, <1>2 DEF RequestsInv, inMutex, active
    <3>1. ~GetStream(r)
      <4> SUFFICES ASSUME GetStream(r) PROVE FALSE
        OBVIOUS
      <4>1. end(r) \/ \E got \in States : req' = [req EXCEPT ![r].pc = "keepdir", ![r].stream = got]
        BY DEF GetStream, States
      <4> QED BY <1>0, <3>0, <4>1, GetFacts, EndFacts
    <3>2. ~GetHLSParser(r)
      <4> SUFFICES ASSUME GetHLSParser(r) PROVE FALSE
        OBVIOUS
      <4>1. end(r) \/ \E got \in States : req' = [req EXCEPT ![r].pc = "parse", ![r].parser = got]
        BY DEF GetHLSParser, States, panic
      <4> QED BY <1>0, <3>0, <4>1, GetFacts, EndFacts
    <3>3. \E pc \in Pcs : go(r, pc)
      BY <3>0, <3>1, <3>2, <1>0, EndFacts
         DEF Handle, KeepDirectory, KeepThumbnail, Merge, OpenFile, WriteFile, Rename,
             KeepPlaylist, Break, Pcs, panic
    <3>4. req[r].parser = "live"
      BY <1>0, <3>0, <3>3, GoFacts
    <3>5. req[r].pc = "parse"
      <4>1. req[r].pc \in {"parse", "open", "write", "rename", "keep"}
        BY <3>0, <3>4 DEF RequestInv, hasParser
      <4> QED BY <1>0, <1>2, <3>4, <4>1 DEF inMutex
    <3>6. ~Break(r)
      BY <1>0, <3>0, EndFacts DEF Break
    <3> QED BY <1>0, <3>1, <3>2, <3>4, <3>5, <3>6
            DEF Handle, KeepDirectory, KeepThumbnail, OpenFile, WriteFile, Rename, KeepPlaylist
  <2>2. ~locked(r)
    BY <2>1 DEF Merge
  <2>3. \A q \in Requests \ {r} : inMutex(q) => req[q].slug # req[r].slug
    BY <2>1, <2>2 DEF locked, inMutex
  <2> QED BY <1>0, <1>2, <2>3 DEF MutexInv, inMutex, active
<1> QED BY <1>1, <1>2

\* MutexInv is kept by every step.
LEMMA MutexStep ==
    ASSUME HandlerInv, RequestsInv, MutexInv, [HandlerNext]_hvars
    PROVE  MutexInv'
<1>0. HandlerTypeOK
  BY DEF HandlerInv
<1>1. ASSUME NEW s \in Slugs, NEW o \in Origins, Answer(s, o) PROVE MutexInv'
  BY <1>1 DEF Answer, handler, MutexInv, inMutex, active
<1>2. ASSUME NEW s \in Slugs, NEW o \in Origins, NEW r \in Requests, NEW k \in Kinds,
             Validate(r, s, o, k)
      PROVE  MutexInv'
  BY <1>0, <1>2, ValidateFacts DEF MutexInv, inMutex, active
<1>3. ASSUME NEW r \in Requests, Handle(r) PROVE MutexInv'
  BY <1>3, MutexHandle
<1>4. ASSUME NEW gone, cleanup(gone) PROVE MutexInv'
  <2>1. ASSUME NEW r \in Requests, inMutex(r)' PROVE inMutex(r) /\ req'[r].slug = req[r].slug
    <3>1. active(r) /\ req'[r].pc = req[r].pc /\ req'[r].slug = req[r].slug
      BY <1>0, <1>4, <2>1, CleanupFacts DEF inMutex
    <3>2. req[r].slug \notin gone
      BY <1>0, <1>4, <2>1, <3>1, CleanupFacts DEF inMutex, removed
    <3>3. req'[r] = req[r]
      BY <1>0, <1>4, <3>2, CleanupFacts
    <3> QED BY <2>1, <3>1, <3>3 DEF inMutex, active
  <2> QED BY <2>1 DEF MutexInv
<1>5. CASE Crash
  BY <1>5 DEF Crash, MutexInv, inMutex, active
<1>6. CASE AdvanceStep
  BY <1>0, <1>6, AdvanceFacts DEF MutexInv, inMutex
<1>7. CASE Exit \/ UNCHANGED hvars
  BY <1>7 DEF Exit, hvars, handler, MutexInv, inMutex, active
<1> QED BY <1>1, <1>2, <1>3, <1>4, <1>5, <1>6, <1>7 DEF HandlerNext, TimeoutStep, StopStep

\* The writer's invariants, and that what is on disk is whole.
WriteInv == ApartInv /\ AloneInv /\ WholeFiles

\* Steps that write nothing and leave the writing requests where they are.
LEMMA WriteSame ==
    ASSUME WriteInv, UNCHANGED written, stale \subseteq stale',
           \A r \in Requests : /\ writing(r)' <=> writing(r)
                               /\ writing(r) => /\ req'[r].pc = req[r].pc
                                                /\ req'[r].kind = req[r].kind
                                                /\ req'[r].slug = req[r].slug
    PROVE  WriteInv'
<1>1. UNCHANGED <<tmp, file, fd, apart>>
  BY DEF written
<1>2. ApartInv'
  BY <1>1 DEF WriteInv, ApartInv
<1>3. AloneInv'
  BY <1>1 DEF WriteInv, AloneInv
<1>4. WholeFiles'
  BY <1>1 DEF WriteInv, WholeFiles
<1> QED BY <1>2, <1>3, <1>4 DEF WriteInv

\* Two requests that write the same playlist are one, unless the slug is stale.
LEMMA PlaylistWriter ==
    ASSUME HandlerInv, RequestsInv, MutexInv, NEW r \in Requests, NEW q \in Requests,
           active(r), req[r].kind = "m3u8", req[r].slug \notin stale,
           req[r].pc \in {"open", "write", "rename"}, fd[q].path = path(r)
    PROVE  q = r
<1>0. HandlerTypeOK /\ AW!WriterTypeOK /\ FdInv
  BY DEF HandlerInv, HandlerTypeOK
<1>1. path(r) \in Files
  BY <1>0, ActiveFields DEF path, Files
<1>2. writing(q) /\ fd[q].path = path(q)
  BY <1>0, <1>1, OpenFields DEF FdInv
<1>3. req[q].slug = req[r].slug /\ req[q].kind = "m3u8"
  BY <1>2 DEF path
<1>4. req[r].parser = "live"
  BY <1>0, ParserIsLive DEF RequestsInv, hasParser
<1>5. req[q].parser = "live"
  BY <1>0, <1>2, <1>3, ParserIsLive DEF RequestsInv, hasParser, writing
<1> QED BY <1>2, <1>3, <1>4, <1>5 DEF MutexInv, inMutex, writing

\* open: whoever shares the temporary file is no longer apart, and nobody
\* shares that of a playlist.
LEMMA WriteOpen ==
    ASSUME HandlerInv, RequestsInv, MutexInv, WriteInv, NEW r \in Requests, active(r),
           req[r].pc = "open", AW!open(r, path(r)), go(r, "write"), stale' = stale
    PROVE  WriteInv'
<1>0. HandlerTypeOK /\ AW!WriterTypeOK /\ FdInv /\ fd \in [Requests -> {AW!NotOpen} \cup OpenFiles]
  BY DEF HandlerInv, HandlerTypeOK, AW!WriterTypeOK, OpenFiles
<1> DEFINE p == path(r)
<1>1. /\ p \in Files /\ \A q \in Requests \ {r} : req'[q] = req[q]
      /\ writing(r)' /\ req'[r].pc = "write" /\ req'[r].kind = req[r].kind
      /\ req'[r].slug = req[r].slug
  BY <1>0, GoFacts, ActiveFields DEF Pcs, writing, active, path, Files
<1>2. /\ fd'[r] = [path |-> p, at |-> "tmp"] /\ \A q \in Requests \ {r} : fd'[q] = fd[q]
      /\ \A x \in Files : x # p => tmp'[x] = tmp[x]
      /\ file' = file
  BY <1>0, <1>1 DEF AW!open, AW!WriterTypeOK
<1>3. r \notin apart
  BY DEF WriteInv, ApartInv, writing
<1>4. \A u \in apart' : u # r => u \in apart /\ fd[u].path # p
  BY DEF AW!open, AW!others, WriteInv, ApartInv
<1>5. r \in apart' => \A q \in Requests \ {r} : fd[q].path # p
  BY <1>3 DEF AW!open, AW!others
<1>6. ASSUME NEW u \in apart'
      PROVE  /\ u \in Requests /\ writing(u)' /\ fd'[u].at = "tmp"
             /\ \A q \in Requests \ {u} : fd'[q].path # fd'[u].path
             /\ req'[u].pc = "rename" => tmp'[fd'[u].path] = "all"
  <2>1. CASE u = r
    BY <1>1, <1>2, <1>5, <2>1
  <2>2. CASE u # r
    <3>1. u \in apart /\ u \in Requests /\ fd[u].path # p /\ writing(u)
      BY <1>4, <2>2 DEF WriteInv, ApartInv
    <3>2. fd'[u] = fd[u] /\ req'[u] = req[u] /\ fd[u].path \in Files
      BY <1>0, <1>1, <1>2, <2>2, <3>1, OpenFields DEF FdInv
    <3>3. \A q \in Requests \ {u} : fd'[q].path # fd[u].path
      BY <1>2, <3>1 DEF WriteInv, ApartInv
    <3> QED BY <1>2, <3>1, <3>2, <3>3 DEF WriteInv, ApartInv, writing, active
  <2> QED BY <2>1, <2>2
<1>8. ApartInv'
  BY <1>6 DEF ApartInv
<1>9. AloneInv'
  <2> SUFFICES ASSUME NEW u \in Requests, writing(u)', req'[u].kind = "m3u8",
                      req'[u].slug \notin stale
               PROVE  u \in apart'
    BY DEF AloneInv
  <2>1. CASE u = r
    <3>1. req[r].kind = "m3u8" /\ req[r].slug \notin stale
      BY <1>1, <2>1
    <3>2. AW!others(r, p) = {}
      BY <3>1, PlaylistWriter DEF AW!others
    <3> QED BY <2>1, <3>2 DEF AW!open
  <2>2. CASE u # r
    <3>1. writing(u) /\ req[u].kind = "m3u8" /\ req[u].slug \notin stale
      BY <1>1, <2>2 DEF writing, active
    <3>2. u \in apart
      BY <3>1 DEF WriteInv, AloneInv
    <3>3. fd[u].path # p
      <4> SUFFICES ASSUME fd[u].path = path(r) PROVE FALSE
        OBVIOUS
      <4>1. path(u) = path(r)
        BY <1>0, <3>1 DEF FdInv
      <4>2. req[r].kind = "m3u8" /\ req[r].slug \notin stale
        BY <3>1, <4>1 DEF path
      <4> QED BY <2>2, <4>2, PlaylistWriter
    <3> QED BY <3>2, <3>3 DEF AW!open, AW!others
  <2> QED BY <2>1, <2>2
<1>10. WholeFiles'
  BY <1>2 DEF WriteInv, WholeFiles
<1> QED BY <1>8, <1>9, <1>10 DEF WriteInv

\* write: a writer that is apart leaves a whole temporary file; one whose file
\* was renamed under it is not apart.
LEMMA WriteWrite ==
    ASSUME HandlerInv, WriteInv, NEW r \in Requests, active(r), req[r].pc = "write",
           AW!write(r), go(r, "rename"), stale' = stale
    PROVE  WriteInv'
<1>0. HandlerTypeOK /\ AW!WriterTypeOK /\ FdInv
  BY DEF HandlerInv, HandlerTypeOK
<1> DEFINE p == fd[r].path
<1>1. /\ \A q \in Requests \ {r} : req'[q] = req[q]
      /\ writing(r) /\ writing(r)'
      /\ req'[r].kind = req[r].kind /\ req'[r].slug = req[r].slug
  BY <1>0, GoFacts DEF Pcs, writing, active
<1>2. p \in Files /\ p = path(r)
  BY <1>0, <1>1, OpenFields DEF FdInv
<1>3. /\ UNCHANGED <<fd, apart>>
      /\ \A x \in Files : x # p => tmp'[x] = tmp[x] /\ file'[x] = file[x]
      /\ r \in apart /\ fd[r].at = "tmp" => tmp'[p] = "all"
      /\ fd[r].at # "file" => file' = file
      /\ r \notin apart => file'[p] \in {"whole", "mixed", file[p]}
  BY <1>0, <1>2 DEF AW!write, AW!shown, AW!WriterTypeOK
<1>4. ApartInv'
  <2>1. ASSUME NEW u \in apart
        PROVE  /\ u \in Requests /\ writing(u)' /\ fd[u].at = "tmp"
               /\ \A q \in Requests \ {u} : fd[q].path # fd[u].path
               /\ req'[u].pc = "rename" => tmp'[fd[u].path] = "all"
    <3>0. /\ u \in Requests /\ writing(u) /\ fd[u].at = "tmp"
          /\ \A q \in Requests \ {u} : fd[q].path # fd[u].path
          /\ req[u].pc = "rename" => tmp[fd[u].path] = "all"
      BY DEF WriteInv, ApartInv
    <3>1. CASE u = r
      BY <1>1, <1>3, <3>0, <3>1
    <3>2. CASE u # r
      <4>1. fd[u].path # p /\ fd[u].path \in Files
        BY <1>0, <3>0, <3>2, OpenFields DEF FdInv
      <4> QED BY <1>1, <1>3, <3>0, <3>2, <4>1 DEF writing, active
    <3> QED BY <3>1, <3>2
  <2> QED BY <1>3, <2>1 DEF WriteInv, ApartInv
<1>5. AloneInv'
  BY <1>1, <1>3 DEF WriteInv, AloneInv, writing, active
<1>6. WholeFiles'
  <2>1. fd[r].at = "file" => r \notin apart
    BY DEF WriteInv, ApartInv
  <2>2. r \notin apart /\ p[2] = "m3u8" => p[1] \in stale
    BY <1>1, <1>2 DEF WriteInv, AloneInv, path
  <2> QED BY <1>2, <1>3, <2>1, <2>2 DEF WriteInv, WholeFiles
<1> QED BY <1>4, <1>5, <1>6 DEF WriteInv

\* rename: what a writer that is apart gives the path is whole; what another
\* one gives it may make it mixed.
LEMMA WriteRename ==
    ASSUME HandlerInv, WriteInv, NEW r \in Requests, active(r), req[r].pc = "rename",
           AW!rename(r), IF req[r].kind = "m3u8" THEN go(r, "keep") ELSE end(r), stale' = stale
    PROVE  WriteInv'
<1>0. HandlerTypeOK /\ AW!WriterTypeOK /\ FdInv
  BY DEF HandlerInv, HandlerTypeOK
<1> DEFINE p == fd[r].path
<1>1. /\ \A q \in Requests \ {r} : req'[q] = req[q]
      /\ writing(r) /\ ~writing(r)'
  BY <1>0, GoFacts, EndFacts DEF Pcs, writing, active
<1>2. p \in Files /\ p = path(r)
  BY <1>0, <1>1, OpenFields DEF FdInv
<1>3. /\ apart' = apart \ {r}
      /\ \A x \in Files : x # p => tmp'[x] = tmp[x] /\ file'[x] = file[x]
      /\ tmp[p] = "all" => file'[p] = "whole"
      /\ r \notin apart => file'[p] \in {"whole", "mixed"}
  <2>1. /\ apart' = apart \ {r}
        /\ file' = [file EXCEPT ![p] = AW!shown(r, tmp[p])]
        /\ tmp' = [tmp EXCEPT ![p] = "none"]
    BY DEF AW!rename
  <2>2. file \in [Files -> {"whole", "mixed", "torn"}] /\ tmp \in [Files -> {"none", "part", "all"}]
    BY <1>0 DEF AW!WriterTypeOK
  <2>3. /\ \A x \in Files : x # p => tmp'[x] = tmp[x] /\ file'[x] = file[x]
        /\ file'[p] = AW!shown(r, tmp[p])
    BY <1>2, <2>1, <2>2
  <2>4. /\ tmp[p] = "all" => AW!shown(r, tmp[p]) = "whole"
        /\ r \notin apart => AW!shown(r, tmp[p]) \in {"whole", "mixed"}
    BY DEF AW!shown
  <2> QED BY <2>1, <2>3, <2>4
<1>4. /\ fd'[r] = AW!NotOpen
      /\ \A v \in Requests \ {r} :
            /\ fd'[v].path = fd[v].path
            /\ fd[v].path # p => fd'[v] = fd[v]
            /\ fd[v].path = p /\ fd'[v].at = "file" => fd[v].at = "tmp"
  BY <1>0, RenameMoves
<1>5. fd'[r].path \notin Files /\ fd'[r].at = "none"
  BY <1>4 DEF AW!NotOpen, Files
<1>6. ASSUME NEW u \in apart'
      PROVE  /\ u \in Requests /\ writing(u)' /\ fd'[u].at = "tmp"
             /\ \A q \in Requests \ {u} : fd'[q].path # fd'[u].path
             /\ req'[u].pc = "rename" => tmp'[fd'[u].path] = "all"
  <2>0. /\ u \in Requests /\ u # r /\ writing(u) /\ fd[u].at = "tmp"
        /\ \A q \in Requests \ {u} : fd[q].path # fd[u].path
        /\ req[u].pc = "rename" => tmp[fd[u].path] = "all"
    BY <1>3 DEF WriteInv, ApartInv
  <2>1. fd[u].path # p /\ fd[u].path \in Files /\ fd'[u] = fd[u] /\ req'[u] = req[u]
    BY <1>0, <1>1, <1>4, <2>0, OpenFields DEF FdInv
  <2>2. \A q \in Requests \ {u} : fd'[q].path # fd[u].path
    BY <1>4, <1>5, <2>0, <2>1
  <2> QED BY <1>3, <2>0, <2>1, <2>2 DEF writing, active
<1>8. ApartInv'
  BY <1>6 DEF ApartInv
<1>9. AloneInv'
  BY <1>1, <1>3 DEF WriteInv, AloneInv, writing, active
<1>10. WholeFiles'
  <2>1. r \in apart => tmp[p] = "all"
    BY DEF WriteInv, ApartInv
  <2>2. r \notin apart /\ p[2] = "m3u8" => p[1] \in stale
    BY <1>1, <1>2 DEF WriteInv, AloneInv, path
  <2> QED BY <1>2, <1>3, <2>1, <2>2 DEF WriteInv, WholeFiles
<1> QED BY <1>8, <1>9, <1>10 DEF WriteInv

\* An error: the temporary file goes, and with it what others were writing.
LEMMA WriteFail ==
    ASSUME HandlerInv, WriteInv, NEW r \in Requests, writing(r), AW!fail(r), end(r), stale' = stale
    PROVE  WriteInv'
<1>0. HandlerTypeOK /\ AW!WriterTypeOK /\ FdInv
  BY DEF HandlerInv, HandlerTypeOK
<1> DEFINE p == fd[r].path
<1>1. (\A q \in Requests \ {r} : req'[q] = req[q]) /\ ~writing(r)'
  BY <1>0, EndFacts DEF writing, active
<1>2. p \in Files
  BY <1>0, OpenFields DEF FdInv
<1>3. /\ apart' = apart \ {r} /\ UNCHANGED file
      /\ \A x \in Files : x # p => tmp'[x] = tmp[x]
  BY <1>0, <1>2 DEF AW!fail, AW!WriterTypeOK
<1>4. /\ fd'[r] = AW!NotOpen
      /\ \A v \in Requests \ {r} : /\ fd'[v].path = fd[v].path
                                   /\ fd[v].path # p => fd'[v] = fd[v]
                                   /\ fd'[v].at = "file" => fd[v].at = "file"
  BY <1>0, FailMoves
<1>5. fd'[r].path \notin Files /\ fd'[r].at = "none"
  BY <1>4 DEF AW!NotOpen, Files
<1>6. ASSUME NEW u \in apart'
      PROVE  /\ u \in Requests /\ writing(u)' /\ fd'[u].at = "tmp"
             /\ \A q \in Requests \ {u} : fd'[q].path # fd'[u].path
             /\ req'[u].pc = "rename" => tmp'[fd'[u].path] = "all"
  <2>0. /\ u \in Requests /\ u # r /\ writing(u) /\ fd[u].at = "tmp"
        /\ \A q \in Requests \ {u} : fd[q].path # fd[u].path
        /\ req[u].pc = "rename" => tmp[fd[u].path] = "all"
    BY <1>3 DEF WriteInv, ApartInv
  <2>1. fd[u].path # p /\ fd[u].path \in Files /\ fd'[u] = fd[u] /\ req'[u] = req[u]
    BY <1>0, <1>1, <1>4, <2>0, OpenFields DEF FdInv
  <2>2. \A q \in Requests \ {u} : fd'[q].path # fd[u].path
    BY <1>4, <1>5, <2>0, <2>1
  <2> QED BY <1>3, <2>0, <2>1, <2>2 DEF writing, active
<1>8. ApartInv'
  BY <1>6 DEF ApartInv
<1>9. AloneInv'
  BY <1>1, <1>3 DEF WriteInv, AloneInv, writing, active
<1>10. WholeFiles'
  BY <1>3 DEF WriteInv, WholeFiles
<1> QED BY <1>8, <1>9, <1>10 DEF WriteInv

\* Every step keeps what is on disk whole.
LEMMA WriteStep ==
    ASSUME HandlerInv, RequestsInv, MutexInv, WriteInv, [HandlerNext]_hvars
    PROVE  WriteInv'
<1>0. HandlerTypeOK
  BY DEF HandlerInv
<1> DEFINE same(q) == /\ writing(q)' <=> writing(q)
                      /\ writing(q) => /\ req'[q].pc = req[q].pc
                                       /\ req'[q].kind = req[q].kind
                                       /\ req'[q].slug = req[q].slug
<1>1. ASSUME NEW s \in Slugs, NEW o \in Origins, Answer(s, o) PROVE WriteInv'
  BY <1>1, WriteSame DEF Answer, handler, writing, active
<1>2. ASSUME NEW s \in Slugs, NEW o \in Origins, NEW r \in Requests, NEW k \in Kinds,
             Validate(r, s, o, k)
      PROVE  WriteInv'
  <2>1. UNCHANGED <<written, stale>> /\ ~writing(r) /\ ~writing(r)'
    BY <1>0, <1>2, ValidateFacts DEF Validate, writing, active
  <2>2. \A q \in Requests \ {r} : req'[q] = req[q]
    BY <1>0, <1>2, ValidateFacts
  <2>3. \A q \in Requests : same(q)
    BY <2>1, <2>2 DEF writing, active
  <2> QED BY <2>1, <2>3, WriteSame
<1>3. ASSUME NEW r \in Requests, Handle(r) PROVE WriteInv'
  <2>1. \A q \in Requests \ {r} : req'[q] = req[q]
    BY <1>0, <1>3, HandleFacts
  <2>0. stale' = stale
    BY <1>3 DEF Handle, GetStream, KeepDirectory, KeepThumbnail, GetHLSParser, Merge, OpenFile,
                WriteFile, Rename, KeepPlaylist, Break
  <2>2. CASE UNCHANGED written /\ ~writing(r) /\ ~writing(r)'
    <3>1. \A q \in Requests : same(q)
      BY <2>1, <2>2 DEF writing, active
    <3> QED BY <2>0, <2>2, <3>1, WriteSame
  <2>3. CASE ~(UNCHANGED written /\ ~writing(r) /\ ~writing(r)')
    BY <1>0, <1>3, <2>0, <2>3, HandleWrites, WriteOpen, WriteWrite, WriteRename, WriteFail
  <2> QED BY <2>2, <2>3
<1>4. ASSUME NEW gone, cleanup(gone) PROVE WriteInv'
  <2>1. UNCHANGED written /\ stale \subseteq stale'
    BY <1>4 DEF cleanup
  <2>2. \A q \in Requests : same(q)
    BY <1>0, <1>4, CleanupFacts DEF writing
  <2> QED BY <2>1, <2>2, WriteSame
<1>5. CASE Crash
  <2>1. /\ \A r \in Requests : ~writing(r)'
        /\ apart' = {} /\ file' = file /\ stale' = stale
    BY <1>5 DEF Crash, writing, active
  <2> QED BY <2>1 DEF WriteInv, ApartInv, AloneInv, WholeFiles
<1>6. CASE AdvanceStep
  <2>1. UNCHANGED <<written, stale>>
    BY <1>6 DEF AdvanceStep
  <2>2. \A q \in Requests : same(q)
    BY <1>0, <1>6, AdvanceFacts DEF writing
  <2> QED BY <2>1, <2>2, WriteSame
<1>7. CASE Exit \/ UNCHANGED hvars
  BY <1>7, WriteSame DEF Exit, hvars, handler, writing, active
<1> QED BY <1>1, <1>2, <1>3, <1>4, <1>5, <1>6, <1>7 DEF HandlerNext, TimeoutStep, StopStep

\* AtomicWriter keeps its word: with any number of uploads at a time, of any
\* length, a player finds part of a file only if that file was uploaded twice
\* at once, and part of a playlist only if in addition a Stream of its slug was
\* removed under an upload.
THEOREM FilesAreWhole == HandlerSpec => []WholeFiles
<1>1. HandlerInit => MutexInv /\ WriteInv
  <2> SUFFICES ASSUME HandlerInit PROVE MutexInv /\ WriteInv
    OBVIOUS
  <2>1. \A r \in Requests : ~active(r)
    BY DEF HandlerInit, active
  <2>2. MutexInv
    BY <2>1 DEF MutexInv, inMutex
  <2>3. apart = {} /\ \A p \in Files : file[p] = "whole"
    BY DEF HandlerInit, AW!WriterInit
  <2> QED BY <2>1, <2>2, <2>3 DEF WriteInv, ApartInv, AloneInv, WholeFiles, writing
<1>2. HandlerSpec => []RequestsInv
  BY ServedAlways, PTL DEF ServedInv
<1>3. MutexInv /\ WriteInv => WholeFiles
  BY DEF WriteInv
<1> QED BY <1>1, <1>2, <1>3, MutexStep, WriteStep, HandlerInvAlways, PTL DEF HandlerSpec
=============================================================================
