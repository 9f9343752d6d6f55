----------------------------- MODULE StreamStore ----------------------------
(***************************************************************************)
(* upload/stream_store.go and the origin and ttl part of upload/stream.go: *)
(* which streams exist, which uploading origin each belongs to, and when a *)
(* silent stream is forgotten.  The store's goroutine and the request      *)
(* handlers share the map under s.mutex, so every operation is one step.   *)
(*                                                                         *)
(* ticker.C has one slot: while the goroutine is late, further ticks are   *)
(* dropped, but the one it missed still counts in full.  The fields of a   *)
(* slug without a Stream have the values of a new Stream, and no ttl.      *)
(***************************************************************************)
EXTENDS Integers

CONSTANTS
    Slugs,                 \* stream names
    Origins,               \* hosts that upload
    NoOrigin,              \* the origin of a stream nobody has uploaded to
    StreamTimeout,         \* StreamStoreConfig.StreamTimeout
    StreamExpireInterval,  \* StreamStoreConfig.StreamExpireInterval
    StreamOriginDuration   \* StreamStoreConfig.StreamOriginDuration

ASSUME DurationsAssumption ==
    /\ StreamTimeout \in Nat \ {0}
    /\ StreamExpireInterval \in Nat \ {0}
    /\ StreamOriginDuration \in Nat
ASSUME OriginAssumption == NoOrigin \notin Origins

\* The configurations for which a stream outlives its origin's exclusivity.
\* The default durations (10s, 2s, 6s) are at this limit.
ASSUME TimeoutAssumption ==
    StreamOriginDuration + 2 * StreamExpireInterval <= StreamTimeout

VARIABLES
    data,     \* s.data: the slugs that have a Stream
    origin,   \* Stream.origin
    exclusive,\* Stream.originUpdated, as the time left to originDeadline
    ttl,      \* Stream.ttl
    timer,    \* time to the next tick
    ticks,    \* ticks waiting in ticker.C
    run,      \* the goroutine
    holder,   \* history: the last origin accepted for a slug, ever
    held      \* history: time left of StreamOriginDuration since then

streams == <<data, origin, exclusive, ttl>>
history == <<holder, held>>
vars == <<streams, timer, ticks, run, history>>

Init ==
    /\ data = {}
    /\ origin = [s \in Slugs |-> NoOrigin]
    /\ exclusive = [s \in Slugs |-> 0]
    /\ ttl = [s \in Slugs |-> 0]
    /\ timer = StreamExpireInterval
    /\ ticks = 0
    /\ run = "running"
    /\ holder = [s \in Slugs |-> NoOrigin]
    /\ held = [s \in Slugs |-> 0]

\* Stream.Update accepts the origin; NewStream has none yet.
allowed(s, o) == s \in data => origin[s] = o \/ exclusive[s] = 0

\* Mutant of originDeadline: an upload by the same origin does not renew it.
originDeadlineOnce(s, o) ==
    IF s \in data /\ origin[s] = o THEN exclusive[s] ELSE StreamOriginDuration

originDeadline(s, o) == StreamOriginDuration

\* Mutant of renewed: an upload to an existing stream does not renew its ttl.
renewedOnce(s) == IF s \in data THEN ttl[s] ELSE StreamTimeout

renewed(s) == StreamTimeout

\* UpdateStream for an accepted origin: NewStream if there is none, Update.
UpdateStream(s, o) ==
    /\ allowed(s, o)
    /\ data' = data \cup {s}
    /\ origin' = [origin EXCEPT ![s] = o]
    /\ exclusive' = [exclusive EXCEPT ![s] = originDeadline(s, o)]
    /\ ttl' = [ttl EXCEPT ![s] = renewed(s)]
    /\ holder' = [holder EXCEPT ![s] = o]
    /\ held' = [held EXCEPT ![s] = StreamOriginDuration]
    /\ UNCHANGED <<timer, ticks, run>>

\* UpdateStream for errInvalidOrigin: the request gets 403, nothing changes.
RejectStream(s, o) ==
    /\ ~allowed(s, o)
    /\ UNCHANGED vars

\* Stream.Age returns true.
aged(s) == ttl[s] <= StreamExpireInterval

expired == {s \in data : aged(s)}

\* removeStream, for each of them: the Stream and what it knew are forgotten.
removeStreams(gone) ==
    /\ data' = data \ gone
    /\ origin' = [s \in Slugs |-> IF s \in gone THEN NoOrigin ELSE origin[s]]
    /\ exclusive' = [s \in Slugs |-> IF s \in gone THEN 0 ELSE exclusive[s]]

\* Mutant of Timeout: Stream.Age counts down a copy of the stream.
TimeoutOfCopies ==
    /\ run = "running"
    /\ ticks = 1
    /\ ticks' = 0
    /\ removeStreams(expired)
    /\ ttl' = [s \in Slugs |-> IF s \in data \ expired THEN ttl[s] ELSE 0]
    /\ UNCHANGED <<timer, run, history>>

\* timeout: count down every stream and remove the expired ones.
Timeout ==
    /\ run = "running"
    /\ ticks = 1
    /\ ticks' = 0
    /\ removeStreams(expired)
    /\ ttl' = [s \in Slugs |->
                 IF s \in data \ expired THEN ttl[s] - StreamExpireInterval ELSE 0]
    /\ UNCHANGED <<timer, run, history>>

\* The context is cancelled: run removes every stream and returns.
Stop ==
    /\ run = "running"
    /\ run' = "returned"
    /\ removeStreams(data)
    /\ ttl' = [s \in Slugs |-> 0]
    /\ UNCHANGED <<timer, ticks, history>>

less(n) == IF n = 0 THEN 0 ELSE n - 1

Advance ==
    /\ timer' = IF timer = 1 THEN StreamExpireInterval ELSE timer - 1
    /\ ticks' = IF timer = 1 THEN 1 ELSE ticks
    /\ exclusive' = [s \in Slugs |-> less(exclusive[s])]
    /\ held' = [s \in Slugs |-> less(held[s])]
    /\ UNCHANGED <<data, origin, ttl, run, holder>>

Next ==
    \/ \E s \in Slugs, o \in Origins : UpdateStream(s, o) \/ RejectStream(s, o)
    \/ Timeout \/ Stop \/ Advance

Spec == Init /\ [][Next]_vars

-----------------------------------------------------------------------------
\* Every variable has the type of the Go field it stands for; a stream in the
\* map always has an origin and some ttl left.
TypeOK ==
    /\ data \subseteq Slugs
    /\ origin \in [Slugs -> Origins \cup {NoOrigin}]
    /\ exclusive \in [Slugs -> 0..StreamOriginDuration]
    /\ ttl \in [Slugs -> 0..StreamTimeout]
    /\ \A s \in data : origin[s] \in Origins /\ ttl[s] > 0
    /\ timer \in 1..StreamExpireInterval
    /\ ticks \in 0..1
    /\ run \in {"running", "returned"}
    /\ holder \in [Slugs -> Origins \cup {NoOrigin}]
    /\ held \in [Slugs -> 0..StreamOriginDuration]

\* Stream.Update protects an origin for StreamOriginDuration after its last
\* accepted upload even though the stream itself, and with it the origin, may
\* be removed by a late and then an early tick: no other origin gets in.
OriginExclusive ==
    [][\A s \in Slugs :
          run = "running" /\ holder'[s] # holder[s] => held[s] = 0]_vars

\* The time that must pass before timeout can have used up a stream's ttl: the
\* goroutine may owe one tick, and needs the rest of the ttl in intervals.
SafeTime(s) ==
    ttl[s] + timer - StreamExpireInterval
        - (IF ticks = 1 THEN StreamExpireInterval ELSE 0)

\* What the Stream knows of its origin is what was last accepted for the slug,
\* and the exclusivity that is left ends before the stream can be removed.
OutlivesOrigin(s) ==
    IF s \in data
    THEN /\ holder[s] = origin[s]
         /\ held[s] = exclusive[s]
         /\ held[s] > 0 => held[s] <= SafeTime(s)
    ELSE held[s] = 0

\* removeStream only ever forgets an origin whose exclusivity is over: a new
\* Stream for the slug, which accepts anybody, takes nothing away from it.
Outlives == run = "running" => \A s \in Slugs : OutlivesOrigin(s)

\* A stream nobody uploads to is removed: once its exclusivity is over it is
\* gone, taken over or renewed in the end.
SilentStreamRemoved ==
    \A s \in Slugs :
        s \in data /\ held[s] = 0 ~> s \notin data \/ held[s] > 0 \/ run = "returned"
=============================================================================
