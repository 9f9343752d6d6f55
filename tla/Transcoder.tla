----------------------------- MODULE Transcoder -----------------------------
(***************************************************************************)
(* transcode/transcoder.go, systemd/service.go and the watch handler of    *)
(* client/consul.go, on several machines: each watches the stream/ prefix, *)
(* claims streams by putting stream/<slug>/transcoder with its session and *)
(* runs one systemd unit for each stream it has claimed.                   *)
(*                                                                         *)
(* kv holds the claims.  The streams are put by the publishers, and the    *)
(* status entries under transcoders/, from which shouldClaim takes the     *)
(* least loaded machine, by somebody else: publishStatus writes to         *)
(* service/transcode/, which nobody watches.                               *)
(***************************************************************************)
EXTENDS ConsulClient

CONSTANTS
    Sources,    \* values of a stream entry
    NoStream,   \* the value of a stream that is not registered
    NoClient,   \* no machine
    Capacity,   \* conf.Capacity
    Announced,  \* machines with a status under transcoders/
    MaxEvents,  \* bound: signals and changes of streams, the network and first
    MaxMoves,   \* bound: changes of who comes first
    Interrupted, \* bound: machines that may be told to shut down
    MaxBusErrors \* bound: failing units and failing calls to systemd

Machines == Clients
Slugs == Keys

ASSUME CapacityAssumption == Capacity \in Nat
ASSUME BusErrorsAssumption == MaxBusErrors \in Nat
ASSUME NamesAssumption ==
    /\ NoStream \notin Sources /\ "off" \notin Sources
    /\ NoClient \notin Machines
    /\ Announced \subseteq Machines
    /\ Interrupted \subseteq Machines

VARIABLES
    source,             \* the stream entries in Consul
    cache,              \* makeWatchHandler: the entries last sent
    pending,            \* the updates it waits to send
    inbox,              \* the updates run is handling
    streams,            \* t.streams
    streamTranscoders,  \* t.streamTranscoders
    first,              \* machines that come first in their own t.transcoders
    todo,               \* streams the tick has still to claim
    claim,              \* the claimStream call run is in
    service,            \* where the goroutine of each service is
    cancelled,          \* services whose context has been cancelled
    conf,               \* s.conf.Config
    file,               \* the config file of each unit
    unit,               \* what each unit transcodes
    run,                \* t.run, and main waiting for its end
    events, moves,      \* changes so far
    busErrors,          \* failed units and calls to systemd so far
    lost,               \* history: claims taken from a machine's service
    leaked,             \* history: claims kept or put without a service
    orphans,            \* history: units left or started without a service
    late                \* history: services begun after the signal to end

watchVars == <<source, cache, pending>>
runVars == <<inbox, streams, streamTranscoders, first, todo, claim>>
serviceVars == <<service, cancelled, conf, file, unit, busErrors>>
history == <<lost, leaked, orphans, late>>
bounds == <<events, moves>>
vars == <<consulVars, watchVars, runVars, serviceVars, run, history, bounds>>

Claims == [pc: {"put", "restart"}, slug: Slugs, value: Sources]
NoClaim == [pc |-> "none"]

Off == "off"
Failed == "failed"

StreamUpdates == [path: {"stream"}, slug: Slugs, value: Sources \cup {NoStream}]
ClaimUpdates == [path: {"transcoder"}, slug: Slugs, value: Machines \cup {NoClient}]
Updates == StreamUpdates \cup ClaimUpdates

perMachine(x) == [m \in Machines |-> x]
perSlug(x) == perMachine([s \in Slugs |-> x])
nothing == [stream |-> [s \in Slugs |-> NoStream], transcoder |-> [s \in Slugs |-> NoClient]]

Init ==
    /\ ConsulInit
    /\ source \in [Slugs -> Sources]
    /\ cache = perMachine(nothing)
    /\ pending = perMachine({})
    /\ inbox = perMachine({})
    /\ streams = perSlug(NoStream)
    /\ streamTranscoders = perSlug(NoClient)
    /\ first \in SUBSET Announced
    /\ todo = perMachine({})
    /\ claim = perMachine(NoClaim)
    /\ service = perSlug("none")
    /\ cancelled = perMachine({})
    /\ conf = perSlug(NoStream)
    /\ file = perSlug(NoStream)
    /\ unit = perSlug(Off)
    /\ events = 0 /\ moves = 0
    /\ busErrors = 0
    /\ lost = perMachine({})
    /\ leaked = perMachine({})
    /\ orphans = perMachine({})
    /\ late = perMachine({})
    /\ run = perMachine("running")

\* run is at its select.
selecting(m) == run[m] # "returned" /\ inbox[m] = {} /\ todo[m] = {} /\ claim[m] = NoClaim

\* The keys of t.services.
services(m) == {s \in Slugs : service[m][s] # "none"}

\* The machine that has claimed a stream.
owner(k) == IF kv[k] = NoSession THEN NoClient ELSE kv[k].client

(***************************************************************************)
(* The environment: streams are registered, changed and taken out, status  *)
(* entries are written, units fail.                                        *)
(***************************************************************************)
event ==
    /\ events < MaxEvents
    /\ events' = events + 1
    /\ UNCHANGED moves

StreamChanges(s, value) ==
    /\ event
    /\ value # source[s]
    /\ source' = [source EXCEPT ![s] = value]
    /\ UNCHANGED <<consulVars, cache, pending, runVars, serviceVars, run, history>>

\* handleTranscoder: the machine's own status, or a less loaded one, comes or
\* goes.
HandleTranscoder(m) ==
    /\ selecting(m)
    /\ m \in Announced
    /\ moves < MaxMoves /\ events < MaxEvents
    /\ moves' = moves + 1 /\ events' = events + 1
    /\ first' = IF m \in first THEN first \ {m} ELSE first \cup {m}
    /\ UNCHANGED <<consulVars, watchVars, inbox, streams, streamTranscoders, todo, claim,
                   serviceVars, run, history>>

UnitFails(m, s) ==
    /\ unit[m][s] \in Sources
    /\ busErrors < MaxBusErrors
    /\ busErrors' = busErrors + 1
    /\ unit' = [unit EXCEPT ![m][s] = Failed]
    /\ UNCHANGED <<consulVars, watchVars, runVars, service, cancelled, conf, file, run,
                   history, bounds>>

(***************************************************************************)
(* The watch: compare the entries with the ones sent last.                 *)
(***************************************************************************)
entries == [stream |-> source, transcoder |-> [s \in Slugs |-> owner(s)]]

\* Mutant of watchUpdates: an entry that is gone is not noticed.
watchUpdatesPuts(old, new) ==
    {u \in Updates : /\ u.value = new[u.path][u.slug]
                     /\ u.value # old[u.path][u.slug]
                     /\ u.value \notin {NoStream, NoClient}}

\* Puts for what is new or has changed, deletions for what is missing.
watchUpdates(old, new) ==
    {u \in Updates : /\ u.value = new[u.path][u.slug]
                     /\ u.value # old[u.path][u.slug]}

isDelete(u) == u.value \in {NoStream, NoClient}

WatchHandler(m) ==
    /\ net = "up" /\ run[m] # "returned"
    /\ pending[m] = {}
    /\ entries # cache[m]
    /\ pending' = [pending EXCEPT ![m] = watchUpdates(cache[m], entries)]
    /\ cache' = [cache EXCEPT ![m] = entries]
    /\ UNCHANGED <<consulVars, source, runVars, serviceVars, run, history, bounds>>

(***************************************************************************)
(* Parts of run: shouldClaim and claimStream.                              *)
(***************************************************************************)
\* Mutant of shouldClaim: one stream more than the capacity.
shouldClaimOneMore(m, running) == Cardinality(running) <= Capacity /\ m \in first

\* There is capacity for one more service and the machine is the least loaded.
shouldClaim(m, running) == Cardinality(running) < Capacity /\ m \in first

\* What a unit does after StartUnit, or RestartUnit if its config changed.
started(m, s, value) ==
    IF file[m][s] = value /\ unit[m][s] \in Sources THEN unit[m][s] ELSE value

\* The service is not stopping, as yet.
claimStream(m, s, value) ==
    claim' = IF shouldClaim(m, services(m)) /\ s \notin cancelled[m]
             THEN [claim EXCEPT ![m] = [pc |-> "put", slug |-> s, value |-> value]]
             ELSE claim

\* The context of a service ends with the one of run.
startService(m, s) ==
    /\ service[m][s] = "none"
    /\ service' = [service EXCEPT ![m][s] = "start"]
    /\ conf' = [conf EXCEPT ![m][s] = claim[m].value]
    /\ orphans' = [orphans EXCEPT ![m] = @ \ {s}]
    /\ IF run[m] = "running"
       THEN UNCHANGED <<cancelled, late>>
       ELSE /\ cancelled' = [cancelled EXCEPT ![m] = @ \cup {s}]
            /\ late' = [late EXCEPT ![m] = @ \cup {s}]
    /\ claim' = [claim EXCEPT ![m] = NoClaim]

\* Restart asks once more whether the service is stopping.
findService(m, s) ==
    /\ service[m][s] # "none"
    /\ claim' = [claim EXCEPT ![m] = IF s \in cancelled[m] THEN NoClaim
                                                         ELSE [@ EXCEPT !.pc = "restart"]]
    /\ UNCHANGED <<service, cancelled, conf, orphans, late>>

unserved(m, s) == service[m][s] \in {"none", "stopped"}

\* PutWithSession.  The service may have stopped, and deleted the claim, since
\* claimStream asked.
PutClaim(m, s) ==
    /\ claim[m].pc = "put" /\ claim[m].slug = s
    /\ \/ /\ PutWithSession(m, s)
          /\ startService(m, s) \/ findService(m, s)
          /\ lost' = [lost EXCEPT ![m] = @ \ {s}]
          /\ leaked' = [leaked EXCEPT ![m] =
                           IF service[m][s] = "stopped" THEN @ \cup {s} ELSE @ \ {s}]
       \/ /\ PutAnswerLost(m, s)
          /\ claim' = [claim EXCEPT ![m] = NoClaim]
          /\ lost' = [lost EXCEPT ![m] = @ \ {s}]
          /\ leaked' = [leaked EXCEPT ![m] = IF unserved(m, s) THEN @ \cup {s} ELSE @]
          /\ UNCHANGED <<service, cancelled, conf, orphans, late>>
       \/ /\ PutFails(m, s)
          /\ claim' = [claim EXCEPT ![m] = NoClaim]
          /\ UNCHANGED <<service, cancelled, conf, history>>
    /\ UNCHANGED <<watchVars, inbox, streams, streamTranscoders, first, todo, file, unit,
                   busErrors>>

\* The unit is restarted in place, also if the service has stopped it meanwhile,
\* or the call to systemd fails.  stop holds s.mutex to its end.
RestartService(m, s) ==
    /\ claim[m].pc = "restart" /\ claim[m].slug = s
    /\ service[m][s] # "unclaim"
    /\ claim' = [claim EXCEPT ![m] = NoClaim]
    /\ conf' = [conf EXCEPT ![m][s] = claim[m].value]
    /\ file' = [file EXCEPT ![m][s] = claim[m].value]
    /\ \/ /\ unit' = [unit EXCEPT ![m][s] = started(m, s, claim[m].value)]
          /\ orphans' = [orphans EXCEPT ![m] = IF unserved(m, s) THEN @ \cup {s} ELSE @]
          /\ UNCHANGED busErrors
       \/ /\ busErrors < MaxBusErrors
          /\ busErrors' = busErrors + 1
          /\ UNCHANGED <<unit, orphans>>
    /\ UNCHANGED <<consulVars, watchVars, inbox, streams, streamTranscoders, first, todo,
                   service, cancelled, lost, leaked, late>>

(***************************************************************************)
(* run: a batch of updates of the stream prefix.                           *)
(***************************************************************************)
Receive(m) ==
    /\ selecting(m)
    /\ pending[m] # {}
    /\ inbox' = [inbox EXCEPT ![m] = pending[m]]
    /\ pending' = [pending EXCEPT ![m] = {}]
    /\ UNCHANGED <<consulVars, source, cache, streams, streamTranscoders, first, todo, claim,
                   serviceVars, run, history, bounds>>

\* The deletions of a batch come after its puts, and among the puts, which are
\* in the order of their keys, a stream comes before its transcoder.
before(u, v) ==
    ~isDelete(u) /\ (isDelete(v) \/ (u.slug = v.slug /\ u.path = "stream" /\ v.path # "stream"))

handling(m, u) ==
    /\ u \in inbox[m] /\ claim[m] = NoClaim
    /\ ~\E v \in inbox[m] : before(v, u)
    /\ inbox' = [inbox EXCEPT ![m] = @ \ {u}]
    /\ UNCHANGED <<consulVars, watchVars, first, todo, serviceVars, history>>

HandleStreamUpdate(m, u) ==
    /\ u.path = "stream"
    /\ handling(m, u)
    /\ streams' = [streams EXCEPT ![m][u.slug] = u.value]
    /\ UNCHANGED streamTranscoders
    /\ IF isDelete(u) THEN UNCHANGED claim ELSE claimStream(m, u.slug, u.value)

HandleStreamTranscoder(m, u) ==
    /\ u.path = "transcoder"
    /\ handling(m, u)
    /\ streamTranscoders' = [streamTranscoders EXCEPT ![m][u.slug] = u.value]
    /\ UNCHANGED streams
    /\ IF isDelete(u) /\ streams[m][u.slug] # NoStream
       THEN claimStream(m, u.slug, streams[m][u.slug])
       ELSE UNCHANGED claim

(***************************************************************************)
(* run: the tick forgets stopped services, stops those whose stream is     *)
(* gone, and claims what nobody has claimed.                               *)
(***************************************************************************)
\* Mutant of hasStopped: a service is forgotten while it is stopping.
hasStoppedEarly(m) == {s \in Slugs : service[m][s] # "none" /\ s \in cancelled[m]}

hasStopped(m) == {s \in Slugs : service[m][s] = "stopped"}

\* Mutant of unnecessary: a service is never stopped.
unnecessaryNone(m) == {}

unnecessary(m) == {s \in services(m) \ hasStopped(m) : streams[m][s] = NoStream}

\* Mutant of unclaimed: streams are only claimed when an update comes.
unclaimedNone(m) == {}

unclaimed(m) == {s \in Slugs : streams[m][s] # NoStream /\ streamTranscoders[m][s] = NoClient}

Tick(m) ==
    /\ selecting(m)
    /\ service' = [service EXCEPT ![m] =
                     [s \in Slugs |-> IF s \in hasStopped(m) THEN "none" ELSE @[s]]]
    /\ cancelled' = [cancelled EXCEPT ![m] = (@ \ hasStopped(m)) \cup unnecessary(m)]
    /\ conf' = [conf EXCEPT ![m] =
                  [s \in Slugs |-> IF s \in hasStopped(m) THEN NoStream ELSE @[s]]]
    /\ lost' = [lost EXCEPT ![m] = @ \ hasStopped(m)]
    /\ todo' = [todo EXCEPT ![m] =
                  IF shouldClaim(m, services(m) \ hasStopped(m))
                  THEN unclaimed(m) ELSE {}]
    /\ UNCHANGED <<consulVars, watchVars, inbox, streams, streamTranscoders, first, claim,
                   file, unit, busErrors, run, leaked, orphans, late, bounds>>

ClaimUnclaimed(m, s) ==
    /\ s \in todo[m] /\ claim[m] = NoClaim
    /\ todo' = [todo EXCEPT ![m] = @ \ {s}]
    /\ claimStream(m, s, streams[m][s])
    /\ UNCHANGED <<consulVars, watchVars, inbox, streams, streamTranscoders, first,
                   serviceVars, history>>

(***************************************************************************)
(* The goroutine of a service.                                             *)
(***************************************************************************)
ServiceStart(m, s) ==
    /\ service[m][s] = "start"
    /\ service' = [service EXCEPT ![m][s] = "keepalive"]
    /\ file' = [file EXCEPT ![m][s] = conf[m][s]]
    /\ \/ /\ unit' = [unit EXCEPT ![m][s] = started(m, s, conf[m][s])]
          /\ UNCHANGED busErrors
       \/ /\ busErrors < MaxBusErrors
          /\ busErrors' = busErrors + 1
          /\ UNCHANGED unit
    /\ UNCHANGED <<consulVars, watchVars, runVars, cancelled, conf, history>>

\* syncUnitState restarts a failed unit.
SyncUnitState(m, s) ==
    /\ service[m][s] = "keepalive"
    /\ unit[m][s] = Failed
    /\ unit' = [unit EXCEPT ![m][s] = file[m][s]]
    /\ UNCHANGED <<consulVars, watchVars, runVars, service, cancelled, conf, file,
                   busErrors, run, history, bounds>>

\* Mutant of StopUnit: the unit keeps running.
StopUnitNot(m, s) ==
    /\ service[m][s] = "keepalive"
    /\ s \in cancelled[m]
    /\ service' = [service EXCEPT ![m][s] = "unclaim"]
    /\ file' = [file EXCEPT ![m][s] = NoStream]
    /\ UNCHANGED <<consulVars, watchVars, runVars, cancelled, conf, unit, busErrors, history>>

\* stop: disable and stop the unit, remove its config.
StopUnit(m, s) ==
    /\ service[m][s] = "keepalive"
    /\ s \in cancelled[m]
    /\ service' = [service EXCEPT ![m][s] = "unclaim"]
    /\ file' = [file EXCEPT ![m][s] = NoStream]
    /\ \/ /\ unit' = [unit EXCEPT ![m][s] = Off]
          /\ UNCHANGED <<busErrors, orphans>>
       \/ /\ busErrors < MaxBusErrors
          /\ busErrors' = busErrors + 1
          /\ orphans' = [orphans EXCEPT ![m] = IF unit[m][s] # Off THEN @ \cup {s} ELSE @]
          /\ UNCHANGED unit
    /\ UNCHANGED <<consulVars, watchVars, runVars, cancelled, conf, lost, leaked, late>>

\* stop: Cleanup deletes the claim, whoever has it, and the service is done.
cleanup(m, s) ==
    /\ service[m][s] = "unclaim"
    /\ service' = [service EXCEPT ![m][s] = "stopped"]
    /\ UNCHANGED <<watchVars, runVars, cancelled, conf, file, unit, busErrors, orphans, late>>

Unclaim(m, s) ==
    /\ cleanup(m, s)
    /\ Delete(s) \/ DeleteAnswerLost(s)
    /\ lost' = [n \in Machines |->
                  IF n # m /\ owner(s) = n /\ service[n][s] # "none"
                  THEN lost[n] \cup {s} ELSE lost[n]]
    /\ leaked' = [n \in Machines |-> leaked[n] \ {s}]

UnclaimFails(m, s) ==
    /\ cleanup(m, s)
    /\ DeleteFails
    /\ leaked' = [leaked EXCEPT ![m] = IF owner(s) = m THEN @ \cup {s} ELSE @]
    /\ UNCHANGED lost

(***************************************************************************)
(* Sessions end, and daemons are restarted.                                *)
(***************************************************************************)
SessionEnds(m, id) ==
    LET gone == heldBy([client |-> m, id |-> id])
    IN  /\ EndSession(m, id)
        /\ lost' = [lost EXCEPT ![m] = @ \cup {s \in gone : service[m][s] # "none"}]
        /\ leaked' = [leaked EXCEPT ![m] = @ \ gone]
        /\ UNCHANGED <<watchVars, runVars, serviceVars, run, orphans, late, bounds>>

\* The process is gone, whatever its units do, and is started again.
newProcess(m) ==
    /\ newSession(m)
    /\ cache' = [cache EXCEPT ![m] = nothing]
    /\ pending' = [pending EXCEPT ![m] = {}]
    /\ inbox' = [inbox EXCEPT ![m] = {}]
    /\ streams' = [streams EXCEPT ![m] = nothing.stream]
    /\ streamTranscoders' = [streamTranscoders EXCEPT ![m] = nothing.transcoder]
    /\ first' = first \ {m}
    /\ todo' = [todo EXCEPT ![m] = {}]
    /\ claim' = [claim EXCEPT ![m] = NoClaim]
    /\ service' = [service EXCEPT ![m] = [s \in Slugs |-> "none"]]
    /\ cancelled' = [cancelled EXCEPT ![m] = {}]
    /\ conf' = [conf EXCEPT ![m] = [s \in Slugs |-> NoStream]]
    /\ orphans' = [orphans EXCEPT ![m] = {s \in Slugs : unit[m][s] # Off}]
    /\ leaked' = [leaked EXCEPT ![m] = {s \in Slugs : owner(s) = m}]
    /\ lost' = [lost EXCEPT ![m] = {}]
    /\ late' = [late EXCEPT ![m] = {}]
    /\ run' = [run EXCEPT ![m] = "running"]
    /\ UNCHANGED <<source, file, unit, busErrors, bounds>>

\* The daemon dies: at any time, and with the same effect before as after run
\* has returned.
Restart(m) ==
    /\ run[m] # "returned"
    /\ newProcess(m)

(***************************************************************************)
(* An interrupt ends the context of run and of all services; main waits    *)
(* for them and exits.  The session is left to end by itself.              *)
(***************************************************************************)
Signal(m) ==
    /\ event
    /\ run[m] = "running"
    /\ m \in Interrupted /\ sessionId[m] < MaxSessions[m]
    /\ run' = [run EXCEPT ![m] = "ending"]
    /\ cancelled' = [cancelled EXCEPT ![m] = services(m)]
    /\ UNCHANGED <<consulVars, watchVars, runVars, service, conf, file, unit, busErrors,
                   history>>

\* Mutant of RunReturns: run goes on until it has no service.
RunReturnsEmpty(m) ==
    /\ run[m] = "ending"
    /\ selecting(m) /\ services(m) = {}
    /\ run' = [run EXCEPT ![m] = "returned"]
    /\ UNCHANGED <<consulVars, watchVars, runVars, serviceVars, history, bounds>>

\* The select of run takes ctx.Done(), which it may put off.
RunReturns(m) ==
    /\ run[m] = "ending"
    /\ selecting(m)
    /\ run' = [run EXCEPT ![m] = "returned"]
    /\ UNCHANGED <<consulVars, watchVars, runVars, serviceVars, history, bounds>>

\* Mutant of Wait: only run is waited for.
WaitForRun(m) == run[m] = "returned"

\* Wait walks over t.services before it waits for run: a service that run has
\* begun meanwhile may be missed.
Wait(m) ==
    /\ run[m] = "returned"
    /\ \A s \in services(m) \ late[m] : service[m][s] = "stopped"

Exit(m) == Wait(m) /\ newProcess(m)

Run(m) ==
    /\ \/ \E u \in inbox[m] : HandleStreamUpdate(m, u) \/ HandleStreamTranscoder(m, u)
       \/ \E s \in Slugs : ClaimUnclaimed(m, s) \/ PutClaim(m, s) \/ RestartService(m, s)
    /\ UNCHANGED <<run, bounds>>

Service(m, s) ==
    /\ ServiceStart(m, s) \/ StopUnit(m, s) \/ Unclaim(m, s) \/ UnclaimFails(m, s)
    /\ UNCHANGED <<run, bounds>>

\* Bound: the next session of a daemon that shuts down is the one it is started
\* again with.
Consul ==
    /\ ConsulStep
    /\ \A m \in Machines : run[m] = "running" \/ sessionId'[m] = sessionId[m]
    /\ IF net' = net THEN UNCHANGED bounds ELSE event
    /\ UNCHANGED <<watchVars, runVars, serviceVars, run, history>>

Next ==
    \/ \E s \in Slugs, value \in Sources \cup {NoStream} : StreamChanges(s, value)
    \/ \E m \in Machines :
          \/ WatchHandler(m) \/ Receive(m) \/ Run(m) \/ Tick(m)
          \/ HandleTranscoder(m) \/ Restart(m) \/ Signal(m) \/ RunReturns(m) \/ Exit(m)
          \/ \E s \in Slugs : Service(m, s) \/ SyncUnitState(m, s) \/ UnitFails(m, s)
          \/ \E id \in 0..MaxSessions[m] : SessionEnds(m, id)
    \/ Consul

\* keepaliveSession notices the end of its session, and Consul ends what
\* nobody renews.
sessionsExpire ==
    \/ /\ \/ \E s \in Slugs : EndLockDelay(s)
          \/ \E m \in Machines : RenewPeriodicFails(m) \/ renewSession(m)
       /\ Consul
    \/ \E m \in Machines : \E id \in 0..MaxSessions[m] :
          id # sessionId[m] /\ SessionEnds(m, id)

\* Goroutines run, and a select overlooks neither an update nor its ticker nor
\* the end of its context for ever.  A daemon that exits is started again when
\* there is Consul.
Fairness ==
    /\ \A m \in Machines :
          /\ WF_vars(WatchHandler(m)) /\ WF_vars(Run(m)) /\ WF_vars(Exit(m))
          /\ SF_vars(Receive(m)) /\ SF_vars(Tick(m)) /\ SF_vars(RunReturns(m))
          /\ \A s \in Slugs : WF_vars(Service(m, s))
    /\ WF_vars(sessionsExpire)

Spec == Init /\ [][Next]_vars
FairSpec == Spec /\ Fairness

-----------------------------------------------------------------------------
Entries == [stream: [Slugs -> Sources \cup {NoStream}],
            transcoder: [Slugs -> Machines \cup {NoClient}]]

\* Every variable has the type of the Go field it stands for, and a machine
\* has no more services than its capacity.
TypeOK ==
    /\ ConsulTypeOK
    /\ source \in [Slugs -> Sources \cup {NoStream}]
    /\ cache \in [Machines -> Entries]
    /\ pending \in [Machines -> SUBSET Updates]
    /\ inbox \in [Machines -> SUBSET Updates]
    /\ streams \in [Machines -> [Slugs -> Sources \cup {NoStream}]]
    /\ streamTranscoders \in [Machines -> [Slugs -> Machines \cup {NoClient}]]
    /\ first \in SUBSET Announced
    /\ todo \in [Machines -> SUBSET Slugs]
    /\ claim \in [Machines -> Claims \cup {NoClaim}]
    /\ service \in [Machines -> [Slugs -> {"none", "start", "keepalive", "unclaim", "stopped"}]]
    /\ \A m \in Machines : Cardinality(services(m)) <= Capacity
    /\ cancelled \in [Machines -> SUBSET Slugs]
    /\ conf \in [Machines -> [Slugs -> Sources \cup {NoStream}]]
    /\ file \in [Machines -> [Slugs -> Sources \cup {NoStream}]]
    /\ unit \in [Machines -> [Slugs -> Sources \cup {Off, Failed}]]
    /\ busErrors \in 0..MaxBusErrors
    /\ lost \in [Machines -> SUBSET Slugs]
    /\ leaked \in [Machines -> SUBSET Slugs]
    /\ orphans \in [Machines -> SUBSET Slugs]
    /\ late \in [Machines -> SUBSET Slugs]
    /\ run \in [Machines -> {"running", "ending", "returned"}]

\* A unit runs on a machine only while the machine has claimed the stream: it
\* is started after claimStream and stopped before Cleanup deletes the claim.
\* So two machines transcode a stream only if one of them has lost its claim
\* (its session ended, or Cleanup of another machine deleted it) or has left
\* the unit behind (a restart of the daemon, a failed StopUnit, or a Restart that
\* found the service running and came after its stop).
UnitIsClaimed ==
    \A m \in Machines, s \in Slugs :
        unit[m][s] # Off => owner(s) = m \/ s \in lost[m] \cup orphans[m]

\* No claim keeps a stream from being transcoded: whoever has it has a service
\* for the stream, unless Consul's answer to the claim was lost, the claim
\* could not be deleted or was put again when the service had stopped, or it
\* is of the daemon's previous life.
ClaimIsServed ==
    \A s \in Slugs : owner(s) # NoClient =>
        service[owner(s)][s] \notin {"none", "stopped"} \/ s \in leaked[owner(s)]

\* The value a machine will have for an entry once it has handled the updates
\* it was sent.
after(m, path, s, value) ==
    LET of(us) == {u \in us : u.path = path /\ u.slug = s}
    IN  IF of(pending[m]) # {} THEN (CHOOSE u \in of(pending[m]) : TRUE).value
        ELSE IF of(inbox[m]) # {} THEN (CHOOSE u \in of(inbox[m]) : TRUE).value
        ELSE value

\* The differences the watch handler sends never lose anything: with the
\* updates on their way t.streams and t.streamTranscoders become what Consul
\* had when the last of them was computed.
ViewFollows ==
    \A m \in Machines, s \in Slugs :
        /\ after(m, "stream", s, streams[m][s]) = cache[m].stream[s]
        /\ after(m, "transcoder", s, streamTranscoders[m][s]) = cache[m].transcoder[s]

\* Once the network is up for good and a stream is gone for good, its units
\* are stopped and its claim is deleted.
GoneIsStopped ==
    \A s \in Slugs :
        <>[](net = "up" /\ source[s] = NoStream) =>
            <>[](/\ \A m \in Machines : unit[m][s] # Off => s \in orphans[m]
                 /\ owner(s) # NoClient => s \in leaked[owner(s)])

\* A graceful shutdown cleans up: when main exits no unit of the machine runs
\* and no claim of it is left, unless systemd or Consul failed to do it, or run
\* was just claiming the stream when the signal came: it may start a service that
\* nobody waits for, and put the claim or restart the unit of one that has
\* stopped meanwhile.
ShutdownIsClean ==
    [][\A m \in Machines : run[m] = "returned" /\ run'[m] = "running" =>
          \A s \in Slugs \ late[m] :
              /\ unit[m][s] # Off => s \in orphans[m]
              /\ owner(s) = m => s \in leaked[m]]_vars

\* And it ends, even if Consul and systemd do not answer: run and the services
\* it waits for return.
ShutdownEnds ==
    \A m \in Machines : []<>(run[m] = "running" \/ Wait(m))

\* Once the network is up for good, a stream that stays gets a service if some
\* machine with capacity comes first in everybody's list.
GetsTranscoded ==
    \A s \in Slugs, m \in Machines :
        <>[](/\ net = "up" /\ source[s] # NoStream
             /\ run[m] = "running" /\ m \in first
             /\ s \in services(m) \/ Cardinality(services(m)) < Capacity) =>
            <>[](\E n \in Machines : \/ service[n][s] \in {"start", "keepalive"}
                                     \/ s \in leaked[n])
=============================================================================
