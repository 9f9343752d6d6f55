----------------------------- MODULE UploadProxy -----------------------------
(***************************************************************************)
(* cmd/upload-proxy/proxy.go: the list of sinks of the upload-proxy.       *)
(* SIGHUP loads a new configuration: new sinks are appended, sinks that    *)
(* are no longer configured get a grace period and are then taken out of   *)
(* the list by runTimeout.  Both hold sinkMutex.  HandleUpload walks the   *)
(* list without it.                                                        *)
(*                                                                         *)
(* A Go slice is an array with a capacity, and a length.  `append` stores  *)
(* the length before the element, moving to another array first when the   *)
(* old one is full; runTimeout compacts the array in place.  A request     *)
(* reads array and length once, one after the other in either order, and   *)
(* then walks that array.                                                  *)
(***************************************************************************)
EXTENDS Integers, Sequences, Functions

CONSTANTS
    Addresses,    \* addresses of upload-servers
    Invalid,      \* addresses url.Parse refuses
    Requests,     \* connections that upload, one request at a time each
    MaxReloads,   \* bound: configurations loaded
    NoSink        \* nil, an array slot that was never written

ASSUME InvalidAssumption == Invalid \subseteq Addresses
ASSUME MaxReloadsAssumption == MaxReloads \in Nat

Sinks == [address: Addresses, n: Nat]

ASSUME NoSinkAssumption == NoSink \notin Sinks

VARIABLES
    config,     \* addresses of the configuration loaded last
    arrays,     \* the arrays p.sinks has pointed to; it points to the last
    length,     \* len(p.sinks)
    created,    \* sinks created so far, by address
    grace,      \* graceDeadline of the sink of an address: none, running, over
    stopped,    \* sinks whose worker was stopped
    lock,       \* who holds sinkMutex
    newConfigs, \* UpdateConfig: addresses whose sinks are still to be created
    adding,     \* UpdateConfig: the sink being appended
    index,      \* runTimeout: the position it looks at next
    kept,       \* runTimeout: sinks kept so far
    request,    \* HandleUpload of each connection
    got,        \* history: the sinks the upload was handed to
    expected,   \* history: the running sinks listed when it began
    disturbed,  \* history: what happened to the list meanwhile
    reloads     \* configurations loaded so far

sinkVars == <<created, grace, stopped>>
updateVars == <<config, newConfigs, adding, reloads>>
timeoutVars == <<index, kept>>
historyVars == <<got, expected, disturbed>>
vars == <<arrays, length, lock, sinkVars, updateVars, timeoutVars, request, historyVars>>

array == arrays[Len(arrays)]
listed == {array[i] : i \in 1..length} \ {NoSink}
addresses == {s.address : s \in listed}

none == [sink |-> NoSink, stage |-> "none"]
idle == [pc |-> "idle", array |-> 0, length |-> -1, next |-> 1]

\* NewProxy serves requests before its first UpdateConfig.
Init ==
    /\ config = {}
    /\ arrays = << <<>> >>
    /\ length = 0
    /\ created = [a \in Addresses |-> 0]
    /\ grace = [a \in Addresses |-> "none"]
    /\ stopped = {}
    /\ lock = "free"
    /\ newConfigs = {}
    /\ adding = none
    /\ index = 1 /\ kept = 0
    /\ request = [r \in Requests |-> idle]
    /\ got = [r \in Requests |-> <<>>]
    /\ expected = [r \in Requests |-> {}]
    /\ disturbed = [r \in Requests |-> {}]
    /\ reloads = 0

\* Requests that read the list, or walk it, while something happens to it.
active(r) == request[r].pc \in {"read", "walk"}
disturb(what, S) ==
    disturbed' = [r \in Requests |-> disturbed[r] \cup (IF r \in S THEN {what} ELSE {})]

(***************************************************************************)
(* UpdateConfig, called by NewProxy and on SIGHUP.  A configuration names  *)
(* every address once.                                                     *)
(***************************************************************************)
\* Mutant of graceAfter: a sink that is configured again stays marked.
graceAfterForgets(conf) ==
    [a \in Addresses |->
        IF a \in addresses \ conf /\ grace[a] = "none" THEN "running" ELSE grace[a]]

\* StartGracePeriod for sinks that are not configured any more, and
\* Sink.UpdateConfig, which resets it, for the others.
graceAfter(conf) ==
    [a \in Addresses |->
        CASE a \in addresses \cap conf -> "none"
          [] a \in addresses \ conf /\ grace[a] = "none" -> "running"
          [] OTHER -> grace[a]]

\* Up to the creation of new sinks only what the lock protects is touched.
UpdateConfig(conf) ==
    /\ lock = "free"
    /\ reloads < MaxReloads
    /\ reloads' = reloads + 1
    /\ lock' = "update"
    /\ config' = conf
    /\ grace' = graceAfter(conf)
    /\ newConfigs' = conf \ addresses
    /\ UNCHANGED <<arrays, length, created, stopped, adding, timeoutVars, request, historyVars>>

\* SIGHUP: consul-template has written any configuration; one that does not
\* parse changes nothing.
Reload == \E conf \in SUBSET Addresses : UpdateConfig(conf)

NewSinkFails(a) ==
    /\ lock = "update" /\ adding = none
    /\ a \in newConfigs \cap Invalid
    /\ newConfigs' = newConfigs \ {a}
    /\ UNCHANGED <<arrays, length, lock, sinkVars, config, adding, reloads, timeoutVars,
                   request, historyVars>>

\* growslice: room for one sink, then for twice as many.
grown(old) ==
    LET capacity == IF old = <<>> THEN 1 ELSE 2 * Len(old)
    IN  [i \in 1..capacity |-> IF i <= Len(old) THEN old[i] ELSE NoSink]

\* The sink is started; append stores the pointer to a new array if it needs one.
NewSink(a) ==
    /\ lock = "update" /\ adding = none
    /\ a \in newConfigs \ Invalid
    /\ newConfigs' = newConfigs \ {a}
    /\ created' = [created EXCEPT ![a] = @ + 1]
    /\ grace' = [grace EXCEPT ![a] = "none"]
    /\ adding' = [sink |-> [address |-> a, n |-> created[a] + 1], stage |-> "length"]
    /\ arrays' = IF length < Len(array) THEN arrays ELSE Append(arrays, grown(array))
    /\ disturb("add", {r \in Requests : request[r].pc = "read"})
    /\ UNCHANGED <<length, lock, stopped, config, reloads, timeoutVars, request, got, expected>>

AppendLength ==
    /\ adding.stage = "length"
    /\ adding' = [adding EXCEPT !.stage = "element"]
    /\ length' = length + 1
    /\ disturb("add", {r \in Requests : request[r].pc = "read"})
    /\ UNCHANGED <<arrays, lock, sinkVars, config, newConfigs, reloads, timeoutVars, request,
                   got, expected>>

\* Mutant of AppendElement: the new sink is put first.
InsertElement ==
    /\ adding.stage = "element"
    /\ adding' = none
    /\ arrays' = [arrays EXCEPT ![Len(arrays)] =
                     [i \in DOMAIN array |-> IF i = 1 THEN adding.sink
                                            ELSE IF i <= length THEN array[i - 1] ELSE array[i]]]
    /\ UNCHANGED <<length, lock, sinkVars, config, newConfigs, reloads, timeoutVars, request,
                   historyVars>>

AppendElement ==
    /\ adding.stage = "element"
    /\ adding' = none
    /\ arrays' = [arrays EXCEPT ![Len(arrays)][length] = adding.sink]
    /\ UNCHANGED <<length, lock, sinkVars, config, newConfigs, reloads, timeoutVars, request,
                   historyVars>>

UpdateDone ==
    /\ lock = "update" /\ newConfigs = {} /\ adding = none
    /\ lock' = "free"
    /\ UNCHANGED <<arrays, length, sinkVars, updateVars, timeoutVars, request, historyVars>>

(***************************************************************************)
(* runTimeout, once a minute: sinks := p.sinks[:0] shares the array.       *)
(***************************************************************************)
Tick ==
    /\ lock = "free"
    /\ lock' = "timeout"
    /\ index' = 1 /\ kept' = 0
    /\ UNCHANGED <<arrays, length, sinkVars, updateVars, request, historyVars>>

\* Mutant of isStale: Before instead of After.
isStaleEarly(s) == grace[s.address] = "running"

isStale(s) == grace[s.address] = "over"

\* Stop ends the worker and waits for it.
RemoveStale ==
    /\ lock = "timeout" /\ index <= length
    /\ isStale(array[index])
    /\ stopped' = stopped \cup {array[index]}
    /\ index' = index + 1
    /\ disturb("remove", {r \in Requests : active(r)})
    /\ UNCHANGED <<arrays, length, lock, created, grace, updateVars, kept, request, got, expected>>

KeepSink ==
    /\ lock = "timeout" /\ index <= length
    /\ ~isStale(array[index])
    /\ arrays' = [arrays EXCEPT ![Len(arrays)][kept + 1] = array[index]]
    /\ kept' = kept + 1
    /\ index' = index + 1
    /\ UNCHANGED <<length, lock, sinkVars, updateVars, request, historyVars>>

TickDone ==
    /\ lock = "timeout" /\ index > length
    /\ length' = kept
    /\ lock' = "free"
    /\ UNCHANGED <<arrays, sinkVars, updateVars, timeoutVars, request, historyVars>>

\* Five minutes after StartGracePeriod.
GraceEnds(a) ==
    /\ grace[a] = "running"
    /\ grace' = [grace EXCEPT ![a] = "over"]
    /\ UNCHANGED <<arrays, length, lock, created, stopped, updateVars, timeoutVars, request,
                   historyVars>>

(***************************************************************************)
(* HandleUpload, once the body has been read.                              *)
(***************************************************************************)
Begin(r) ==
    /\ ~active(r)
    /\ request' = [request EXCEPT ![r] = [idle EXCEPT !.pc = "read"]]
    /\ got' = [got EXCEPT ![r] = <<>>]
    /\ expected' = [expected EXCEPT ![r] = listed \ stopped]
    /\ disturbed' = [disturbed EXCEPT ![r] =
                        (IF lock = "update" THEN {"add"} ELSE {})
                        \cup (IF lock = "timeout" /\ kept + 1 < index THEN {"remove"} ELSE {})]
    /\ UNCHANGED <<arrays, length, lock, sinkVars, updateVars, timeoutVars>>

ReadArray(r) ==
    /\ request[r].pc = "read" /\ request[r].array = 0
    /\ request' = [request EXCEPT ![r].array = Len(arrays),
                                  ![r].pc = IF request[r].length >= 0 THEN "walk" ELSE @]
    /\ UNCHANGED <<arrays, length, lock, sinkVars, updateVars, timeoutVars, historyVars>>

ReadLength(r) ==
    /\ request[r].pc = "read" /\ request[r].length = -1
    /\ request' = [request EXCEPT ![r].length = length,
                                  ![r].pc = IF request[r].array > 0 THEN "walk" ELSE @]
    /\ UNCHANGED <<arrays, length, lock, sinkVars, updateVars, timeoutVars, historyVars>>

\* What the request finds at its next position; behind the end of an array
\* there may be anything.
slot(r) ==
    LET q == request[r]
    IN  IF q.next <= Len(arrays[q.array]) THEN arrays[q.array][q.next] ELSE NoSink

\* sink.handle.
HandOver(r) ==
    /\ request[r].pc = "walk"
    /\ request[r].next <= request[r].length
    /\ slot(r) # NoSink
    /\ got' = [got EXCEPT ![r] = Append(@, slot(r))]
    /\ request' = [request EXCEPT ![r].next = @ + 1]
    /\ UNCHANGED <<arrays, length, lock, sinkVars, updateVars, timeoutVars, expected, disturbed>>

\* sink.handle of what is no sink: net/http ends the connection.
Panic(r) ==
    /\ request[r].pc = "walk"
    /\ request[r].next <= request[r].length
    /\ slot(r) = NoSink
    /\ request' = [request EXCEPT ![r] = [idle EXCEPT !.pc = "panic"]]
    /\ UNCHANGED <<arrays, length, lock, sinkVars, updateVars, timeoutVars, historyVars>>

Answer(r) ==
    /\ request[r].pc = "walk"
    /\ request[r].next > request[r].length
    /\ request' = [request EXCEPT ![r] = [idle EXCEPT !.pc = "answered"]]
    /\ UNCHANGED <<arrays, length, lock, sinkVars, updateVars, timeoutVars, historyVars>>

HandleUpload(r) ==
    \/ Begin(r) \/ ReadArray(r) \/ ReadLength(r)
    \/ HandOver(r) \/ Panic(r) \/ Answer(r)

UpdateStep ==
    \/ \E a \in Addresses : NewSinkFails(a) \/ NewSink(a)
    \/ AppendLength \/ AppendElement \/ UpdateDone

TimeoutStep == RemoveStale \/ KeepSink \/ TickDone

Next ==
    \/ Reload
    \/ UpdateStep
    \/ Tick \/ TimeoutStep
    \/ \E a \in Addresses : GraceEnds(a)
    \/ \E r \in Requests : HandleUpload(r)

\* Goroutines are scheduled, the ticker ticks and time passes.
Fairness ==
    /\ WF_vars(UpdateStep)
    /\ WF_vars(TimeoutStep)
    /\ WF_vars(Tick)
    /\ \A a \in Addresses : WF_vars(GraceEnds(a))

Spec == Init /\ [][Next]_vars
FairSpec == Spec /\ Fairness

-----------------------------------------------------------------------------
\* Every variable has the type of the Go field or goroutine it stands for, and
\* the length of the list never exceeds the capacity of its array.
TypeOK ==
    /\ config \subseteq Addresses /\ newConfigs \subseteq config
    /\ arrays \in Seq(Seq(Sinks \cup {NoSink}))
    /\ length \in 0..Len(array)
    /\ created \in [Addresses -> Nat]
    /\ grace \in [Addresses -> {"none", "running", "over"}]
    /\ stopped \subseteq Sinks
    /\ lock \in {"free", "update", "timeout"}
    /\ adding \in [sink: Sinks \cup {NoSink}, stage: {"none", "length", "element"}]
    /\ index \in 1..(Len(array) + 1) /\ kept \in 0..(index - 1)
    /\ request \in [Requests -> [pc: {"idle", "read", "walk", "panic", "answered"},
                                 array: 0..Len(arrays), length: Int, next: Nat]]
    /\ got \in [Requests -> Seq(Sinks)]
    /\ expected \in [Requests -> SUBSET Sinks]
    /\ disturbed \in [Requests -> SUBSET {"add", "remove"}]
    /\ reloads \in 0..MaxReloads

\* Whenever nobody holds sinkMutex the list is what the configuration says:
\* one running sink for each valid address, none of which will be removed, and
\* apart from those only sinks in their grace period; however often sinks are
\* taken out and put back, before and after their removal.
ListFollowsConfig ==
    lock = "free" =>
        LET list == [i \in 1..length |-> array[i]]
        IN  /\ NoSink \notin Range(list)
            /\ \A i, j \in 1..length : list[i].address = list[j].address => i = j
            /\ {s.address : s \in {t \in listed : grace[t.address] = "none"}}
                  = config \ Invalid
            /\ \A s \in listed : s \notin stopped /\ s.n = created[s.address]

\* A request that no removal of a sink overlaps hands its upload to every
\* running sink listed when it began, although it walks the list without the
\* lock while runTimeout rewrites it and UpdateConfig extends it.  It panics
\* only if a sink was added while it read the list, and hands the upload to a
\* sink twice only then (append stores the length first, and the slot may still
\* hold a sink a compaction has moved) or when it overlaps a removal.
Delivered ==
    \A r \in Requests :
        /\ request[r].pc = "answered" /\ "remove" \notin disturbed[r] =>
              expected[r] \subseteq Range(got[r])
        /\ request[r].pc = "panic" => "add" \in disturbed[r]
        /\ ~IsInjective(got[r]) => disturbed[r] # {}

\* A server that is no longer configured loses its sink in the end, unless it
\* is configured again.
RemovedIsStopped ==
    \A a \in Addresses :
        a \in addresses \ config ~> a \in config \/ a \notin addresses
=============================================================================
