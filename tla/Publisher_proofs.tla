-------------------------- MODULE Publisher_proofs --------------------------
(***************************************************************************)
(* Proofs about Publisher for any number of hosts, streams, sources and    *)
(* sessions, and every TTL.                                                *)
(***************************************************************************)
EXTENDS Publisher, TLAPS

(***************************************************************************)
(* The calls to Consul keep the types of what Consul and the clients know. *)
(***************************************************************************)
LEMMA PutType ==
    ASSUME NEW c \in Clients, NEW k \in Keys, ConsulTypeOK, put(c, k)
    PROVE  ConsulTypeOK'
<1>1. session(c) \in Sessions
  BY DEF session, Sessions, ConsulTypeOK
<1>2. session(c) \in alive
  BY DEF put, acquirable
<1> QED BY <1>1, <1>2 DEF ConsulTypeOK, put, clientVars

LEMMA DeleteType ==
    ASSUME NEW k \in Keys, ConsulTypeOK, delete(k)
    PROVE  ConsulTypeOK'
BY DEF ConsulTypeOK, delete, clientVars

LEMMA EndSessionType ==
    ASSUME NEW c \in Clients, NEW id \in Nat, ConsulTypeOK, EndSession(c, id)
    PROVE  ConsulTypeOK'
BY DEF ConsulTypeOK, EndSession, keysWithout, heldBy, clientVars

LEMMA NewSessionType ==
    ASSUME NEW c \in Clients, ConsulTypeOK, newSession(c)
    PROVE  ConsulTypeOK'
<1>1. [client |-> c, id |-> sessionId[c] + 1] \in Sessions
  BY DEF ConsulTypeOK, Sessions
<1> QED BY <1>1 DEF ConsulTypeOK, newSession

LEMMA ConsulStepType ==
    ASSUME ConsulTypeOK, ConsulStep
    PROVE  ConsulTypeOK'
<1>1. ASSUME NEW k \in Keys, EndLockDelay(k) PROVE ConsulTypeOK'
  BY <1>1 DEF ConsulTypeOK, EndLockDelay, clientVars
<1>2. ASSUME NEW c \in Clients, RenewPeriodicFails(c) PROVE ConsulTypeOK'
  BY <1>2 DEF ConsulTypeOK, RenewPeriodicFails, store
<1>3. ASSUME NEW c \in Clients, renewSession(c) PROVE ConsulTypeOK'
  BY <1>3, NewSessionType DEF renewSession
<1>4. ASSUME NEW c \in Clients, renewSessionFails(c) PROVE ConsulTypeOK'
  BY <1>4 DEF ConsulTypeOK, renewSessionFails, store
<1>5. CASE NetworkChanges
  BY <1>5 DEF ConsulTypeOK, NetworkChanges, store, clientVars
<1> QED BY <1>1, <1>2, <1>3, <1>4, <1>5 DEF ConsulStep

LEMMA ConsulSame ==
    ASSUME ConsulTypeOK, UNCHANGED consulVars
    PROVE  ConsulTypeOK'
BY DEF ConsulTypeOK, consulVars, store, clientVars

(***************************************************************************)
(* The types of Publisher.                                                 *)
(***************************************************************************)
\* A step of the goroutine of a host keeps the types.
LEMMA RunType ==
    ASSUME NEW h \in Hosts, TypeOK, Run(h)
    PROVE  TypeOK'
<1> USE TTLAssumption DEF Hosts, Slugs
<1>1. CASE Tick(h)
  BY <1>1, ConsulSame DEF TypeOK, Tick, streamVars
<1>2. CASE Scrape(h)
  <2>1. reported[h][scraper[h]] \in SUBSET Slugs
    BY <1>2 DEF TypeOK, Scrape
  <2> QED BY <1>2, <2>1, ConsulSame DEF TypeOK, Scrape, toPublish, renewed
<1>3. CASE ScrapeFails(h)
  BY <1>3, ConsulSame DEF TypeOK, ScrapeFails, streamVars, history
<1>4. CASE AddNewStreams(h)
  BY <1>4, ConsulSame DEF TypeOK, AddNewStreams, known, history
<1>5. CASE ExpireStreams(h)
  BY <1>5, ConsulSame DEF TypeOK, ExpireStreams, history
<1>6. CASE TickEnds(h)
  BY <1>6, ConsulSame DEF TypeOK, TickEnds, streamVars, history
<1>7. ASSUME NEW s \in Slugs, Publish(h, s) PROVE TypeOK'
  <2>1. ConsulTypeOK'
    BY <1>7, PutType DEF TypeOK, Publish, PutWithSession
  <2> QED BY <1>7, <2>1 DEF TypeOK, Publish, publishing, streamVars
<1>8. ASSUME NEW s \in Slugs, PublishFails(h, s) PROVE TypeOK'
  <2>1. ConsulTypeOK'
    BY <1>8, ConsulSame DEF TypeOK, PublishFails, PutFails
  <2> QED BY <1>8, <2>1 DEF TypeOK, PublishFails, publishing, streamVars
<1>9. ASSUME NEW s \in Slugs, PublishAnswerLost(h, s) PROVE TypeOK'
  <2>1. ConsulTypeOK'
    BY <1>9, PutType DEF TypeOK, PublishAnswerLost, PutAnswerLost
  <2> QED BY <1>9, <2>1 DEF TypeOK, PublishAnswerLost, publishing, streamVars
<1>10. ASSUME NEW s \in Slugs, Unpublish(h, s) PROVE TypeOK'
  <2>1. ConsulTypeOK'
    BY <1>10, DeleteType DEF TypeOK, Unpublish, Delete
  <2> QED BY <1>10, <2>1 DEF TypeOK, Unpublish, expiring, taken, leakEnds
<1>11. ASSUME NEW s \in Slugs, UnpublishFails(h, s) PROVE TypeOK'
  <2>1. ConsulTypeOK'
    BY <1>11, ConsulSame DEF TypeOK, UnpublishFails, DeleteFails
  <2> QED BY <1>11, <2>1 DEF TypeOK, UnpublishFails, expiring
<1>12. ASSUME NEW s \in Slugs, UnpublishAnswerLost(h, s) PROVE TypeOK'
  <2>1. ConsulTypeOK'
    BY <1>12, DeleteType DEF TypeOK, UnpublishAnswerLost, DeleteAnswerLost
  <2> QED BY <1>12, <2>1 DEF TypeOK, UnpublishAnswerLost, expiring, taken, leakEnds
<1> QED
  BY <1>1, <1>2, <1>3, <1>4, <1>5, <1>6, <1>7, <1>8, <1>9, <1>10, <1>11, <1>12
  DEF Run

\* Publishers, Consul and the history variables keep their types: a key in
\* Consul is always held by a session that exists, and no ttl exceeds p.ttl.
THEOREM TypeCorrect == Spec => []TypeOK
<1> USE DEF Hosts, Slugs
<1>1. Init => TypeOK
  BY TTLAssumption DEF Init, TypeOK, ConsulInit, ConsulTypeOK, Sessions
<1>2. TypeOK /\ [Next]_vars => TypeOK'
  <2> SUFFICES ASSUME TypeOK, [Next]_vars PROVE TypeOK'
    OBVIOUS
  <2>1. ASSUME NEW h \in Hosts, Run(h) PROVE TypeOK'
    BY <2>1, RunType
  <2>2. ASSUME NEW h \in Hosts, Restart(h) PROVE TypeOK'
    BY <2>2, NewSessionType DEF TypeOK, Restart
  <2>3. ASSUME NEW h \in Hosts, NEW i \in 1..Scrapers, NEW s \in Slugs,
               SourcesChange(h, i, s)
        PROVE  TypeOK'
    <3> DEFINE new == IF s \in reported[h][i] THEN reported[h][i] \ {s}
                                               ELSE reported[h][i] \cup {s}
    <3>0. reported[h][i] \in SUBSET Slugs
      <4>1. reported[h] \in [1..Scrapers -> SUBSET Slugs]
        BY DEF TypeOK
      <4> QED BY <4>1
    <3>1. new \in SUBSET Slugs
      BY <3>0
    <3>2. reported' = [reported EXCEPT ![h] = [@ EXCEPT ![i] = new]]
      BY <2>3 DEF SourcesChange
    <3> HIDE DEF new
    <3>3. reported' \in [Hosts -> [1..Scrapers -> SUBSET Slugs]]
      BY <3>1, <3>2 DEF TypeOK
    <3> QED
      BY <2>3, <3>3, ConsulSame DEF TypeOK, SourcesChange, tickVars, streamVars, history
  <2>4. ASSUME NEW h \in Hosts, NEW id \in 0..MaxSessions[h], SessionEnds(h, id)
        PROVE  TypeOK'
    <3>1. id \in Nat
      BY SessionsAssumption
    <3>2. ConsulTypeOK'
      BY <2>4, <3>1, EndSessionType DEF TypeOK, SessionEnds
    <3> QED BY <2>4, <3>2 DEF TypeOK, SessionEnds, heldBy, tickVars, streamVars
  <2>5. CASE Consul
    BY <2>5, ConsulStepType DEF TypeOK, Consul, tickVars, streamVars, history
  <2>6. CASE UNCHANGED vars
    BY <2>6, ConsulSame DEF TypeOK, vars, tickVars, streamVars, history
  <2> QED BY <2>1, <2>2, <2>3, <2>4, <2>5, <2>6 DEF Next
<1> QED BY <1>1, <1>2, PTL DEF Spec

(***************************************************************************)
(* A stream survives the misses its timeout allows.                        *)
(***************************************************************************)
\* The misses of a stored stream make up for what its ttl has lost; between
\* ExpireStreams, which counts the ttl down, and the next Tick, which counts
\* the miss, there may be one miss too few.
Owed(h) == IF run[h] \in {"wait", "expire"} THEN TTL - 1 ELSE TTL
MissesInv ==
    /\ \A h \in Hosts : \A s \in streams[h] : ttl[h][s] + misses[h][s] >= Owed(h)
    /\ SurvivesMisses

\* processUpdate renews a ttl in the tick that also counts it down, puts fail
\* and daemons are restarted, and still no stream is unpublished before TTL - 1
\* ticks in a row have missed it.
THEOREM MissesSurvived == Spec => []SurvivesMisses
<1> USE TTLAssumption DEF Hosts, Slugs
<1>1. Init => MissesInv
  BY DEF Init, MissesInv, SurvivesMisses
<1>2. TypeOK /\ MissesInv /\ [Next]_vars => MissesInv'
  <2> SUFFICES ASSUME TypeOK, MissesInv, [Next]_vars PROVE MissesInv'
    OBVIOUS
  <2> USE DEF TypeOK, MissesInv, SurvivesMisses, Owed
  <2>1. ASSUME NEW h \in Hosts, Tick(h) PROVE MissesInv'
    BY <2>1 DEF Tick, streamVars
  <2>2. ASSUME NEW h \in Hosts, Scrape(h) PROVE MissesInv'
    BY <2>2 DEF Scrape, toPublish, renewed
  <2>3. ASSUME NEW h \in Hosts, ScrapeFails(h) PROVE MissesInv'
    BY <2>3 DEF ScrapeFails, streamVars, history
  <2>4. ASSUME NEW h \in Hosts, AddNewStreams(h) PROVE MissesInv'
    BY <2>4 DEF AddNewStreams, known, history
  <2>5. ASSUME NEW h \in Hosts, ExpireStreams(h) PROVE MissesInv'
    <3>1. ASSUME NEW g \in Hosts, NEW s \in streams'[g]
          PROVE  ttl'[g][s] + misses'[g][s] >= Owed(g)'
      <4>1. CASE g = h
        <5>1. s \in streams[h] /\ run[h] = "scrape"
          BY <2>5, <3>1, <4>1 DEF ExpireStreams
        <5>2. ttl[h][s] + misses[h][s] >= TTL
          BY <5>1
        <5>3. ttl'[h][s] = (IF ttl[h][s] > 0 THEN ttl[h][s] - 1 ELSE 0)
          BY <2>5, <5>1 DEF ExpireStreams
        <5>4. misses'[h][s] = misses[h][s] /\ run'[h] = "expire"
          BY <2>5 DEF ExpireStreams, history
        <5>5. ttl[h][s] \in Nat /\ misses[h][s] \in Nat
          BY <5>1
        <5> QED BY <4>1, <5>2, <5>3, <5>4, <5>5
      <4>2. CASE g # h
        BY <2>5, <3>1, <4>2 DEF ExpireStreams, history
      <4> QED BY <4>1, <4>2
    <3>2. ASSUME NEW g \in Hosts, run'[g] = "expire", NEW s \in todo'[g]
          PROVE  misses'[g][s] >= TTL - 1
      <4>1. CASE g = h
        <5>1. s \in streams[h] /\ ttl[h][s] <= 1 /\ run[h] = "scrape"
          BY <2>5, <3>2, <4>1 DEF ExpireStreams
        <5>2. ttl[h][s] + misses[h][s] >= TTL
          BY <5>1
        <5> QED BY <2>5, <4>1, <5>1, <5>2 DEF ExpireStreams, history
      <4>2. CASE g # h
        BY <2>5, <3>2, <4>2 DEF ExpireStreams, history
      <4> QED BY <4>1, <4>2
    <3> QED BY <3>1, <3>2
  <2>6. ASSUME NEW h \in Hosts, TickEnds(h) PROVE MissesInv'
    BY <2>6 DEF TickEnds, streamVars, history
  <2>7. ASSUME NEW h \in Hosts, NEW s \in Slugs, publishing(h, s) PROVE MissesInv'
    BY <2>7 DEF publishing, streamVars
  <2>8. ASSUME NEW h \in Hosts, NEW s \in Slugs, expiring(h, s),
               streams' = streams \/ streams' = [streams EXCEPT ![h] = @ \ {s}]
        PROVE  MissesInv'
    <3>1. UNCHANGED <<run, ttl, misses>>
      BY <2>8 DEF expiring
    <3>2. \A g \in Hosts : todo'[g] \subseteq todo[g] /\ streams'[g] \subseteq streams[g]
      BY <2>8 DEF expiring
    <3> QED BY <3>1, <3>2
  <2>9. ASSUME NEW h \in Hosts, Restart(h) PROVE MissesInv'
    BY <2>9 DEF Restart
  <2>10. CASE UNCHANGED <<tickVars, streamVars, misses>>
    BY <2>10 DEF tickVars, streamVars
  <2> QED
    BY <2>1, <2>2, <2>3, <2>4, <2>5, <2>6, <2>7, <2>8, <2>9, <2>10
    DEF Next, Run, Publish, PublishFails, PublishAnswerLost, Unpublish, UnpublishFails,
        UnpublishAnswerLost, SourcesChange, SessionEnds, Consul, vars, history
<1>3. MissesInv => SurvivesMisses
  BY DEF MissesInv
<1> QED BY <1>1, <1>2, <1>3, TypeCorrect, PTL DEF Spec

(***************************************************************************)
(* Who takes a registration out of Consul.                                 *)
(***************************************************************************)
\* unpublishStream is called for stored streams, and while it is no stream is
\* about to be stored.
OwnInv ==
    /\ OwnUnlessLost
    /\ \A h \in Hosts : run[h] = "expire" => todo[h] \subseteq streams[h]
    /\ \A h \in Hosts : run[h] # "publish" => fresh[h] = {}

\* Two hosts cannot own a key, and a put takes it from nobody.
LEMMA PutTakesNothing ==
    ASSUME TypeOK, NEW h \in Hosts, NEW s \in Slugs, put(h, s)
    PROVE  /\ owns(h, s)'
           /\ \A g \in Hosts, t \in Slugs : owns(g, t) => owns(g, t)'
<1> USE DEF Hosts, Slugs
<1>1. session(h) \in Sessions /\ session(h).client = h
  BY DEF TypeOK, ConsulTypeOK, session, Sessions
<1>2. session(h) # NoSession
  BY <1>1, NoSessionAssumption
<1>3. kv' = [kv EXCEPT ![s] = session(h)] /\ kv[s] \in {session(h), NoSession}
  BY DEF put, acquirable
<1> QED BY <1>1, <1>2, <1>3 DEF owns, TypeOK, ConsulTypeOK

\* Every stored stream is registered by its host, or is known to be lost.
THEOREM StoredIsOwned == Spec => []OwnInv
<1> USE DEF Hosts, Slugs
<1>1. Init => OwnInv
  BY DEF Init, OwnInv, OwnUnlessLost, known
<1>2. TypeOK /\ OwnInv /\ [Next]_vars => OwnInv'
  <2> SUFFICES ASSUME TypeOK, OwnInv, [Next]_vars PROVE OwnInv'
    OBVIOUS
  <2> USE DEF TypeOK, OwnInv, OwnUnlessLost, known
  <2>1. ASSUME NEW h \in Hosts, NEW s \in Slugs, Publish(h, s) PROVE OwnInv'
    <3>1. put(h, s)
      BY <2>1 DEF Publish, PutWithSession
    <3> QED BY <2>1, <3>1, PutTakesNothing DEF Publish, publishing, streamVars
  <2>2. ASSUME NEW h \in Hosts, NEW s \in Slugs, PublishAnswerLost(h, s) PROVE OwnInv'
    <3>1. put(h, s)
      BY <2>2 DEF PublishAnswerLost, PutAnswerLost
    <3> QED BY <2>2, <3>1, PutTakesNothing DEF PublishAnswerLost, publishing, streamVars
  <2>3. ASSUME NEW h \in Hosts, NEW s \in Slugs, Unpublish(h, s) PROVE OwnInv'
    BY <2>3 DEF Unpublish, expiring, Delete, delete, taken, owns, ConsulTypeOK
  <2>4. ASSUME NEW h \in Hosts, NEW s \in Slugs, UnpublishAnswerLost(h, s) PROVE OwnInv'
    BY <2>4 DEF UnpublishAnswerLost, expiring, DeleteAnswerLost, delete, taken, owns, ConsulTypeOK
  <2>5. ASSUME NEW h \in Hosts, NEW id \in 0..MaxSessions[h], SessionEnds(h, id) PROVE OwnInv'
    <3>1. ASSUME NEW g \in Hosts, NEW s \in known(g)
          PROVE  (owns(g, s) \/ s \in lost[g])'
      <4>1. CASE kv'[s] = kv[s]
        BY <2>5, <3>1, <4>1 DEF SessionEnds, owns
      <4>2. CASE kv'[s] # kv[s]
        <5>1. s \in Keys /\ kv[s] = [client |-> h, id |-> id]
          BY <2>5, <3>1, <4>2 DEF SessionEnds, EndSession, keysWithout, ConsulTypeOK
        <5>2. g # h => s \in lost[g]
          BY <3>1, <5>1 DEF owns
        <5> QED BY <2>5, <3>1, <5>1, <5>2 DEF SessionEnds, heldBy
      <4> QED BY <4>1, <4>2
    <3> QED BY <2>5, <3>1 DEF SessionEnds, tickVars, streamVars
  <2>6. ASSUME NEW h \in Hosts, Restart(h) PROVE OwnInv'
    BY <2>6 DEF Restart, newSession, owns
  <2>7. ASSUME NEW h \in Hosts, NEW s \in Slugs, PublishFails(h, s) \/ UnpublishFails(h, s)
        PROVE  OwnInv'
    <3>1. UNCHANGED <<kv, streams, fresh, lost, run>>
      BY <2>7 DEF PublishFails, UnpublishFails, publishing, expiring, PutFails, DeleteFails,
                  consulVars, store, streamVars
    <3>2. \A g \in Hosts : todo'[g] \subseteq todo[g]
      BY <2>7 DEF PublishFails, UnpublishFails, publishing, expiring
    <3> QED BY <3>1, <3>2 DEF owns
  <2>8. ASSUME NEW h \in Hosts,
               \/ Tick(h) \/ Scrape(h) \/ ScrapeFails(h)
               \/ AddNewStreams(h) \/ ExpireStreams(h) \/ TickEnds(h)
        PROVE  OwnInv'
    <3>1. UNCHANGED <<kv, lost>>
      BY <2>8 DEF Tick, Scrape, ScrapeFails, AddNewStreams, ExpireStreams, TickEnds,
                  consulVars, store, history
    <3>2. \A g \in Hosts : known(g)' = known(g)
      <4>1. CASE AddNewStreams(h)
        BY <4>1 DEF AddNewStreams
      <4>2. CASE ~AddNewStreams(h)
        BY <2>8, <4>2 DEF Tick, Scrape, ScrapeFails, ExpireStreams, TickEnds, streamVars
      <4> QED BY <4>1, <4>2
    <3>3. \A g \in Hosts : /\ run'[g] = "expire" => todo'[g] \subseteq streams'[g]
                           /\ run'[g] # "publish" => fresh'[g] = {}
      BY <2>8 DEF Tick, Scrape, ScrapeFails, AddNewStreams, ExpireStreams, TickEnds, streamVars
    <3> QED BY <3>1, <3>2, <3>3 DEF owns
  <2>9. CASE Consul
    <3>1. kv' = kv
      BY <2>9 DEF Consul, ConsulStep, EndLockDelay, RenewPeriodicFails, renewSession,
                  newSession, renewSessionFails, NetworkChanges, store
    <3> QED BY <2>9, <3>1 DEF Consul, tickVars, streamVars, history, owns
  <2>10. CASE UNCHANGED <<consulVars, tickVars, streamVars, history>>
    BY <2>10 DEF consulVars, store, tickVars, streamVars, history, owns
  <2> QED
    BY <2>1, <2>2, <2>3, <2>4, <2>5, <2>6, <2>7, <2>8, <2>9, <2>10
    DEF Next, Run, SourcesChange, vars
<1> QED BY <1>1, <1>2, TypeCorrect, PTL DEF Spec

\* Delete asks nobody, and still a registration of a living session goes only
\* through its own host, or through a host that stores the stream and has lost
\* its own registration of it.
THEOREM OnlyOwnerOrLoserTakes == Spec => TakenByOwnerOrLoser
<1> USE DEF Hosts, Slugs
<1> DEFINE Taken ==
      \A g \in Hosts, s \in Slugs :
          owns(g, s) /\ kv'[s] = NoSession /\ kv[s] \in alive' =>
              \E h \in Hosts : /\ s \in todo[h] \ todo'[h]
                               /\ h = g \/ s \in lost[h]
<1>1. TypeOK /\ OwnInv /\ [Next]_vars => [Taken]_vars
  <2> SUFFICES ASSUME TypeOK, OwnInv, [Next]_vars, NEW g \in Hosts, NEW t \in Slugs,
                      owns(g, t), kv'[t] = NoSession, kv[t] \in alive'
               PROVE  \E h \in Hosts : t \in todo[h] \ todo'[h] /\ (h = g \/ t \in lost[h])
    OBVIOUS
  <2>1. ASSUME NEW h \in Hosts, NEW s \in Slugs, expiring(h, s), delete(s)
        PROVE  t \in todo[h] \ todo'[h] /\ (h = g \/ t \in lost[h])
    <3>1. s = t
      BY <2>1 DEF delete, owns, TypeOK, ConsulTypeOK
    <3>2. t \in todo[h] \ todo'[h] /\ t \in known(h)
      BY <2>1, <3>1 DEF expiring, OwnInv, known, TypeOK
    <3> QED BY <3>2 DEF OwnInv, OwnUnlessLost, owns
  <2>2. ASSUME NEW h \in Hosts, NEW s \in Slugs, put(h, s) PROVE FALSE
    BY <2>2, PutTakesNothing DEF owns
  <2>3. ASSUME NEW h \in Hosts, NEW id \in 0..MaxSessions[h], SessionEnds(h, id) PROVE FALSE
    BY <2>3 DEF SessionEnds, EndSession, keysWithout, owns, TypeOK, ConsulTypeOK
  <2>4. kv' # kv
    BY DEF owns
  <2> QED
    BY <2>1, <2>2, <2>3, <2>4
    DEF Next, Run, Tick, Scrape, ScrapeFails, AddNewStreams, ExpireStreams, TickEnds,
        Publish, PutWithSession, PublishFails, PutFails, PublishAnswerLost, PutAnswerLost,
        Unpublish, Delete, UnpublishFails, DeleteFails, UnpublishAnswerLost, DeleteAnswerLost,
        Restart, newSession, SourcesChange, Consul, ConsulStep, EndLockDelay,
        RenewPeriodicFails, renewSession, renewSessionFails, NetworkChanges, vars,
        consulVars, store
<1>2. Spec => [][Taken]_vars
  BY <1>1, TypeCorrect, StoredIsOwned, PTL DEF Spec
<1> QED BY <1>2 DEF TakenByOwnerOrLoser
=============================================================================
