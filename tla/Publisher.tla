----------------------------- MODULE Publisher ------------------------------
(***************************************************************************)
(* publish/publisher.go on several ingest hosts.  At every tick a host     *)
(* asks its sources for their streams, puts each into Consul under         *)
(* stream/<slug>, and takes out those it has not seen for a while.  Every  *)
(* call to Consul is a step of its own.                                    *)
(***************************************************************************)
EXTENDS ConsulClient

CONSTANTS
    TTL,       \* p.ttl: Timeout / Interval
    Scrapers   \* number of sources of a host

ASSUME TTLAssumption == TTL \in Nat \ {0} /\ Scrapers \in Nat

Hosts == Clients
Slugs == Keys

VARIABLES
    reported,  \* environment: what the sources of each host have
    run,       \* where the goroutine is in its tick
    scraper,   \* sources still to be asked in this tick
    todo,      \* streams of the scrape, or of the map, still to be handled
    fresh,     \* newStreams of processUpdate
    streams,   \* the keys of p.streams
    ttl,       \* storedStream.ttl; every value below one counts as zero
    misses,    \* history: ticks since a scrape reported the stream, at most TTL
    lost,      \* history: stored streams somebody else took out of Consul
    leaked     \* history: streams put into Consul whose answer was lost

tickVars == <<run, scraper, todo, fresh>>
streamVars == <<streams, ttl>>
history == <<misses, lost, leaked>>
vars == <<consulVars, reported, tickVars, streamVars, history>>

Init ==
    /\ ConsulInit
    /\ reported = [h \in Hosts |-> [i \in 1..Scrapers |-> {}]]
    /\ run = [h \in Hosts |-> "wait"]
    /\ scraper = [h \in Hosts |-> 0]
    /\ todo = [h \in Hosts |-> {}]
    /\ fresh = [h \in Hosts |-> {}]
    /\ streams = [h \in Hosts |-> {}]
    /\ ttl = [h \in Hosts |-> [s \in Slugs |-> 0]]
    /\ misses = [h \in Hosts |-> [s \in Slugs |-> TTL]]
    /\ lost = [h \in Hosts |-> {}]
    /\ leaked = {}

\* Stored, or about to be.
known(h) == streams[h] \cup fresh[h]

\* The key of the stream was put by the host.
owns(h, s) == kv[s] # NoSession /\ kv[s].client = h

\* The streams a source of a host has come and go.
SourcesChange(h, i, s) ==
    /\ reported' = [reported EXCEPT ![h][i] =
                      IF s \in @ THEN @ \ {s} ELSE @ \cup {s}]
    /\ UNCHANGED <<consulVars, tickVars, streamVars, history>>

(***************************************************************************)
(* run: one tick.                                                          *)
(***************************************************************************)
Tick(h) ==
    /\ run[h] = "wait"
    /\ run' = [run EXCEPT ![h] = "scrape"]
    /\ scraper' = [scraper EXCEPT ![h] = Scrapers]
    /\ misses' = [misses EXCEPT ![h] =
                    [s \in Slugs |-> IF @[s] < TTL THEN @[s] + 1 ELSE TTL]]
    /\ UNCHANGED <<consulVars, reported, todo, fresh, streamVars, lost, leaked>>

\* Mutant of renewed: the ttl of a known stream only counts down.
renewedNever(h, result) == ttl[h]

\* processUpdate renews the ttl of the streams it knows.
renewed(h, result) ==
    [s \in Slugs |-> IF s \in result \cap streams[h] THEN TTL ELSE ttl[h][s]]

\* Mutant of toPublish: a known stream is not put again.
toPublishOnce(h, result) == result \ streams[h]

\* Every stream is put, known or not.
toPublish(h, result) == result

\* A source answers: processUpdate goes through its streams.
Scrape(h) ==
    LET result == reported[h][scraper[h]]
    IN  /\ run[h] = "scrape"
        /\ scraper[h] > 0
        /\ scraper' = [scraper EXCEPT ![h] = @ - 1]
        /\ run' = [run EXCEPT ![h] = "publish"]
        /\ todo' = [todo EXCEPT ![h] = toPublish(h, result)]
        /\ ttl' = [ttl EXCEPT ![h] = renewed(h, result)]
        /\ misses' = [misses EXCEPT ![h] =
                        [s \in Slugs |-> IF s \in result THEN 0 ELSE @[s]]]
        /\ UNCHANGED <<consulVars, reported, fresh, streams, lost, leaked>>

\* Scrape returns an error: the next source is asked.
ScrapeFails(h) ==
    /\ run[h] = "scrape"
    /\ scraper[h] > 0
    /\ net = "down"
    /\ scraper' = [scraper EXCEPT ![h] = @ - 1]
    /\ UNCHANGED <<consulVars, reported, run, todo, fresh, streamVars, history>>

(***************************************************************************)
(* processUpdate: one call of publishStream.                               *)
(***************************************************************************)
publishing(h, s) ==
    /\ run[h] = "publish"
    /\ s \in todo[h]
    /\ todo' = [todo EXCEPT ![h] = @ \ {s}]
    /\ UNCHANGED <<reported, run, scraper, streamVars, misses>>

\* The stream is new, or it is only renewed.
Publish(h, s) ==
    /\ publishing(h, s)
    /\ PutWithSession(h, s)
    /\ fresh' = [fresh EXCEPT ![h] = IF s \in streams[h] THEN @ ELSE @ \cup {s}]
    /\ lost' = [lost EXCEPT ![h] = @ \ {s}]
    /\ leaked' = leaked \ {<<h, s>>}

\* Mutant of PublishFails: a stream that was not put is stored as well.
PublishFailsStored(h, s) ==
    /\ publishing(h, s)
    /\ PutFails(h, s)
    /\ fresh' = [fresh EXCEPT ![h] = IF s \in streams[h] THEN @ ELSE @ \cup {s}]
    /\ UNCHANGED <<lost, leaked>>

PublishFails(h, s) ==
    /\ publishing(h, s)
    /\ PutFails(h, s)
    /\ UNCHANGED <<fresh, lost, leaked>>

PublishAnswerLost(h, s) ==
    /\ publishing(h, s)
    /\ PutAnswerLost(h, s)
    /\ lost' = [lost EXCEPT ![h] = @ \ {s}]
    /\ leaked' = IF s \in streams[h] THEN leaked ELSE leaked \cup {<<h, s>>}
    /\ UNCHANGED fresh

\* The new streams are added to p.streams.
AddNewStreams(h) ==
    /\ run[h] = "publish"
    /\ todo[h] = {}
    /\ run' = [run EXCEPT ![h] = "scrape"]
    /\ streams' = [streams EXCEPT ![h] = known(h)]
    /\ ttl' = [ttl EXCEPT ![h] = [s \in Slugs |-> IF s \in fresh[h] THEN TTL ELSE @[s]]]
    /\ fresh' = [fresh EXCEPT ![h] = {}]
    /\ UNCHANGED <<consulVars, reported, scraper, todo, history>>

(***************************************************************************)
(* run: expire old streams, one call of unpublishStream after another.     *)
(***************************************************************************)
ExpireStreams(h) ==
    /\ run[h] = "scrape"
    /\ scraper[h] = 0
    /\ run' = [run EXCEPT ![h] = "expire"]
    /\ todo' = [todo EXCEPT ![h] = {s \in streams[h] : ttl[h][s] <= 1}]
    /\ ttl' = [ttl EXCEPT ![h] = [s \in Slugs |-> IF @[s] > 0 THEN @[s] - 1 ELSE 0]]
    /\ UNCHANGED <<consulVars, reported, scraper, fresh, streams, history>>

expiring(h, s) ==
    /\ run[h] = "expire"
    /\ s \in todo[h]
    /\ todo' = [todo EXCEPT ![h] = @ \ {s}]
    /\ UNCHANGED <<reported, run, scraper, fresh, ttl, misses>>

\* Whoever put the stream and still stores it has lost it.
taken(s) == [g \in Hosts |-> IF owns(g, s) /\ s \in known(g) THEN lost[g] \cup {s} ELSE lost[g]]
leakEnds(s) == {leak \in leaked : leak[2] # s}

\* Mutant of Unpublish: the stream is forgotten, its key stays.
UnpublishLocally(h, s) ==
    /\ expiring(h, s)
    /\ streams' = [streams EXCEPT ![h] = @ \ {s}]
    /\ UNCHANGED <<consulVars, lost, leaked>>

Unpublish(h, s) ==
    /\ expiring(h, s)
    /\ Delete(s)
    /\ streams' = [streams EXCEPT ![h] = @ \ {s}]
    /\ lost' = [taken(s) EXCEPT ![h] = @ \ {s}]
    /\ leaked' = leakEnds(s)

UnpublishFails(h, s) ==
    /\ expiring(h, s)
    /\ DeleteFails
    /\ UNCHANGED <<streams, lost, leaked>>

UnpublishAnswerLost(h, s) ==
    /\ expiring(h, s)
    /\ DeleteAnswerLost(s)
    /\ lost' = taken(s)
    /\ leaked' = leakEnds(s)
    /\ UNCHANGED streams

TickEnds(h) ==
    /\ run[h] = "expire"
    /\ todo[h] = {}
    /\ run' = [run EXCEPT ![h] = "wait"]
    /\ UNCHANGED <<consulVars, reported, scraper, todo, fresh, streamVars, history>>

(***************************************************************************)
(* Sessions end, and daemons are restarted.                                *)
(***************************************************************************)
SessionEnds(h, id) ==
    LET gone == heldBy([client |-> h, id |-> id])
    IN  /\ EndSession(h, id)
        /\ lost' = [lost EXCEPT ![h] = @ \cup (gone \cap known(h))]
        /\ leaked' = {leak \in leaked : leak[2] \notin gone}
        /\ UNCHANGED <<reported, tickVars, streamVars, misses>>

\* The process dies and starts again, without Close: New with a new client.
Restart(h) ==
    /\ newSession(h)
    /\ run' = [run EXCEPT ![h] = "wait"]
    /\ todo' = [todo EXCEPT ![h] = {}]
    /\ fresh' = [fresh EXCEPT ![h] = {}]
    /\ streams' = [streams EXCEPT ![h] = {}]
    /\ lost' = [lost EXCEPT ![h] = {}]
    /\ UNCHANGED <<reported, scraper, ttl, misses, leaked>>

Run(h) ==
    \/ Tick(h) \/ Scrape(h) \/ ScrapeFails(h)
    \/ AddNewStreams(h) \/ ExpireStreams(h) \/ TickEnds(h)
    \/ \E s \in Slugs :
          \/ Publish(h, s) \/ PublishFails(h, s) \/ PublishAnswerLost(h, s)
          \/ Unpublish(h, s) \/ UnpublishFails(h, s) \/ UnpublishAnswerLost(h, s)

Consul == ConsulStep /\ UNCHANGED <<reported, tickVars, streamVars, history>>

Next ==
    \/ \E h \in Hosts : Run(h) \/ Restart(h)
    \/ \E h \in Hosts, i \in 1..Scrapers, s \in Slugs : SourcesChange(h, i, s)
    \/ \E h \in Hosts : \E id \in 0..MaxSessions[h] : SessionEnds(h, id)
    \/ Consul

\* The goroutines run, and Consul ends what nobody renews.
Fairness ==
    /\ \A h \in Hosts :
          /\ WF_vars(Run(h))
          /\ WF_vars(renewSession(h) /\ Consul)
          /\ WF_vars(RenewPeriodicFails(h) /\ Consul)
          /\ WF_vars(\E id \in 0..(MaxSessions[h] - 1) : id # sessionId[h] /\ SessionEnds(h, id))
    /\ \A s \in Slugs : WF_vars(EndLockDelay(s) /\ Consul)

Spec == Init /\ [][Next]_vars
FairSpec == Spec /\ Fairness

-----------------------------------------------------------------------------
\* Every variable has the type of the Go field it stands for.
TypeOK ==
    /\ ConsulTypeOK
    /\ reported \in [Hosts -> [1..Scrapers -> SUBSET Slugs]]
    /\ run \in [Hosts -> {"wait", "scrape", "publish", "expire"}]
    /\ scraper \in [Hosts -> 0..Scrapers]
    /\ todo \in [Hosts -> SUBSET Slugs]
    /\ fresh \in [Hosts -> SUBSET Slugs]
    /\ streams \in [Hosts -> SUBSET Slugs]
    /\ ttl \in [Hosts -> [Slugs -> 0..TTL]]
    /\ misses \in [Hosts -> [Slugs -> 0..TTL]]
    /\ lost \in [Hosts -> SUBSET Slugs]
    /\ leaked \subseteq Hosts \X Slugs

\* Every stream a host stores is in Consul under one of its sessions, or
\* somebody else has taken it out since (its session ended, or unpublishStream
\* of another host).
OwnUnlessLost ==
    \A h \in Hosts : \A s \in known(h) : owns(h, s) \/ s \in lost[h]

\* Delete in unpublishStream does not ask who holds the key, and still a
\* registration of a living session is only taken out by its own host or by
\* one that stores the stream too and has lost its own registration of it.
TakenByOwnerOrLoser ==
    [][\A g \in Hosts, s \in Slugs :
          owns(g, s) /\ kv'[s] = NoSession /\ kv[s] \in alive' =>
              \E h \in Hosts : /\ s \in todo[h] \ todo'[h]
                               /\ h = g \/ s \in lost[h]]_vars

\* A stream is only unpublished after TTL - 1 ticks in a row in which no
\* source reported it, however its puts and the ticks before went.
SurvivesMisses ==
    \A h \in Hosts : run[h] = "expire" =>
        \A s \in todo[h] : misses[h][s] >= TTL - 1

reportedBy(h, s) == \E i \in 1..Scrapers : s \in reported[h][i]

\* Once the network is up for good, a stream that one host alone reports is
\* registered for good, whatever sessions, restarts and other hosts' stale
\* entries there were before.
StaysRegistered ==
    \A h \in Hosts, s \in Slugs :
        <>[](/\ net = "up" /\ reportedBy(h, s)
             /\ \A g \in Hosts \ {h} : ~reportedBy(g, s))
            => <>[](kv[s] # NoSession)

\* Once the network is up for good, a stream that no host reports any more is
\* taken out of Consul, except one that was put by a call whose answer was
\* lost: its host does not know that it has to unpublish it.
GetsUnregistered ==
    \A s \in Slugs :
        <>[](net = "up" /\ \A h \in Hosts : ~reportedBy(h, s))
            => <>[](kv[s] = NoSession \/ \E h \in Hosts : <<h, s>> \in leaked)
=============================================================================
