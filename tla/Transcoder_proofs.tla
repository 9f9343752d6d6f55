------------------------- MODULE Transcoder_proofs --------------------------
(***************************************************************************)
(* Proofs about Transcoder for any number of machines, streams, sessions,  *)
(* restarts, shutdowns and failing calls.                                  *)
(***************************************************************************)
EXTENDS Transcoder, FiniteSetTheorems, TLAPS

(***************************************************************************)
(* The calls to Consul keep the types of what Consul and the clients know. *)
(***************************************************************************)
\* Acquire stores a session that exists.
LEMMA PutType ==
    ASSUME NEW c \in Clients, NEW k \in Keys, ConsulTypeOK, put(c, k)
    PROVE  ConsulTypeOK'
<1>1. session(c) \in Sessions /\ session(c) \in alive
  BY DEF session, Sessions, ConsulTypeOK, put, acquirable
<1> QED BY <1>1 DEF ConsulTypeOK, put, clientVars

\* Delete, whoever holds the key.
LEMMA DeleteType ==
    ASSUME NEW k \in Keys, ConsulTypeOK, delete(k)
    PROVE  ConsulTypeOK'
BY DEF ConsulTypeOK, delete, clientVars

\* The keys of a session go with it.
LEMMA EndSessionType ==
    ASSUME NEW c \in Clients, NEW id \in Nat, ConsulTypeOK, EndSession(c, id)
    PROVE  ConsulTypeOK'
BY DEF ConsulTypeOK, EndSession, keysWithout, heldBy, clientVars

\* A new session of a client.
LEMMA NewSessionType ==
    ASSUME NEW c \in Clients, ConsulTypeOK, newSession(c)
    PROVE  ConsulTypeOK'
<1>1. [client |-> c, id |-> sessionId[c] + 1] \in Sessions
  BY DEF ConsulTypeOK, Sessions
<1> QED BY <1>1 DEF ConsulTypeOK, newSession

\* Renewing and lock delays touch no key.
LEMMA ConsulStepType ==
    ASSUME ConsulTypeOK, ConsulStep
    PROVE  ConsulTypeOK' /\ kv' = kv
<1>1. ASSUME NEW k \in Keys, EndLockDelay(k) PROVE ConsulTypeOK' /\ kv' = kv
  BY <1>1 DEF ConsulTypeOK, EndLockDelay, clientVars
<1>2. ASSUME NEW c \in Clients, RenewPeriodicFails(c) PROVE ConsulTypeOK' /\ kv' = kv
  BY <1>2 DEF ConsulTypeOK, RenewPeriodicFails, store
<1>3. ASSUME NEW c \in Clients, renewSession(c) PROVE ConsulTypeOK' /\ kv' = kv
  BY <1>3, NewSessionType DEF renewSession, newSession
<1>4. ASSUME NEW c \in Clients, renewSessionFails(c) PROVE ConsulTypeOK' /\ kv' = kv
  BY <1>4 DEF ConsulTypeOK, renewSessionFails, store
<1>5. CASE NetworkChanges
  BY <1>5 DEF ConsulTypeOK, NetworkChanges, store, clientVars
<1> QED BY <1>1, <1>2, <1>3, <1>4, <1>5 DEF ConsulStep

\* Nothing happens in Consul.
LEMMA ConsulSame ==
    ASSUME ConsulTypeOK, UNCHANGED consulVars
    PROVE  ConsulTypeOK' /\ kv' = kv
BY DEF ConsulTypeOK, consulVars, store, clientVars

\* Who has a claim after a call: an acquired key was the machine's or nobody's.
LEMMA Owners ==
    ASSUME ConsulTypeOK, NEW c \in Clients, NEW k \in Keys
    PROVE  /\ \A s \in Slugs : owner(s) \in Machines \cup {NoClient}
           /\ put(c, k) => /\ owner(k)' = c /\ owner(k) \in {c, NoClient}
                           /\ \A s \in Slugs \ {k} : owner(s)' = owner(s)
           /\ delete(k) => /\ owner(k)' = NoClient
                           /\ \A s \in Slugs \ {k} : owner(s)' = owner(s)
<1> USE DEF Machines, Slugs
<1>1. \A s \in Slugs : owner(s) \in Machines \cup {NoClient}
  BY DEF owner, ConsulTypeOK, Sessions
<1>2. session(c) # NoSession /\ session(c).client = c
  BY NoSessionAssumption DEF session, Sessions, ConsulTypeOK
<1>3. ASSUME put(c, k)
      PROVE  /\ owner(k)' = c /\ owner(k) \in {c, NoClient}
             /\ \A s \in Slugs \ {k} : owner(s)' = owner(s)
  <2>1. kv' = [kv EXCEPT ![k] = session(c)] /\ kv[k] \in {session(c), NoSession}
    BY <1>3 DEF put, acquirable
  <2>2. kv'[k] = session(c) /\ \A s \in Slugs \ {k} : kv'[s] = kv[s]
    BY <2>1 DEF ConsulTypeOK
  <2> QED BY <1>2, <2>1, <2>2 DEF owner
<1>4. ASSUME delete(k)
      PROVE  owner(k)' = NoClient /\ \A s \in Slugs \ {k} : owner(s)' = owner(s)
  BY <1>4 DEF delete, owner, ConsulTypeOK
<1> QED BY <1>1, <1>3, <1>4

(***************************************************************************)
(* Types.                                                                  *)
(***************************************************************************)
WatchTypes ==
    /\ source \in [Slugs -> Sources \cup {NoStream}]
    /\ cache \in [Machines -> Entries]
    /\ pending \in [Machines -> SUBSET Updates]
    /\ inbox \in [Machines -> SUBSET Updates]
    /\ streams \in [Machines -> [Slugs -> Sources \cup {NoStream}]]
    /\ streamTranscoders \in [Machines -> [Slugs -> Machines \cup {NoClient}]]
    /\ first \in SUBSET Announced
    /\ todo \in [Machines -> SUBSET Slugs]
    /\ claim \in [Machines -> Claims \cup {NoClaim}]

Stages == {"none", "start", "keepalive", "unclaim", "stopped"}

ServiceTypes ==
    /\ service \in [Machines -> [Slugs -> Stages]]
    /\ cancelled \in [Machines -> SUBSET Slugs]
    /\ conf \in [Machines -> [Slugs -> Sources \cup {NoStream}]]
    /\ file \in [Machines -> [Slugs -> Sources \cup {NoStream}]]
    /\ unit \in [Machines -> [Slugs -> Sources \cup {Off, Failed}]]
    /\ busErrors \in 0..MaxBusErrors

HistoryTypes ==
    /\ lost \in [Machines -> SUBSET Slugs]
    /\ leaked \in [Machines -> SUBSET Slugs]
    /\ orphans \in [Machines -> SUBSET Slugs]
    /\ late \in [Machines -> SUBSET Slugs]

RunType == run \in [Machines -> {"running", "ending", "returned"}]

\* The tick claims streams that exist, between two batches of updates.
TodoInv ==
    \A m \in Machines :
        /\ todo[m] # {} => inbox[m] = {}
        /\ \A s \in todo[m] : streams[m][s] # NoStream

\* A service has something to run, and is told to stop before it does.
ConfInv ==
    \A m \in Machines, s \in Slugs :
        /\ service[m][s] = "start" => conf[m][s] \in Sources
        /\ service[m][s] = "keepalive" => file[m][s] \in Sources
        /\ service[m][s] \in {"unclaim", "stopped"} => s \in cancelled[m]

StateInv ==
    /\ ConsulTypeOK /\ WatchTypes /\ ServiceTypes /\ HistoryTypes /\ RunType
    /\ TodoInv /\ ConfInv

\* Steps that leave the services alone.
LEMMA KeepServices ==
    ASSUME ServiceTypes, ConfInv, UNCHANGED serviceVars
    PROVE  ServiceTypes' /\ ConfInv'
BY DEF ServiceTypes, ConfInv, serviceVars

\* Steps that leave the history alone.
LEMMA KeepHistory ==
    ASSUME HistoryTypes, UNCHANGED history
    PROVE  HistoryTypes'
BY DEF HistoryTypes, history

\* Starting a unit, or failing to.
LEMMA UnitStarts ==
    ASSUME ServiceTypes, NEW m \in Machines, NEW s \in Slugs, NEW value \in Sources,
           \/ /\ unit' = [unit EXCEPT ![m][s] = started(m, s, value)]
              /\ UNCHANGED busErrors
           \/ /\ busErrors < MaxBusErrors
              /\ busErrors' = busErrors + 1
              /\ UNCHANGED unit
    PROVE  /\ unit' \in [Machines -> [Slugs -> Sources \cup {Off, Failed}]]
           /\ busErrors' \in 0..MaxBusErrors
           /\ \A n \in Machines, t \in Slugs : n # m \/ t # s => unit'[n][t] = unit[n][t]
<1>1. unit \in [Machines -> [Slugs -> Sources \cup {Off, Failed}]] /\ busErrors \in 0..MaxBusErrors
  BY DEF ServiceTypes
<1>2. CASE unit' = [unit EXCEPT ![m][s] = started(m, s, value)] /\ UNCHANGED busErrors
  <2>1. started(m, s, value) \in Sources \cup {Off, Failed}
    BY DEF started
  <2> QED BY <1>1, <1>2, <2>1
<1>3. CASE busErrors < MaxBusErrors /\ busErrors' = busErrors + 1 /\ UNCHANGED unit
  <2>1. busErrors' \in 0..MaxBusErrors
    BY <1>1, <1>3, BusErrorsAssumption
  <2> QED BY <1>1, <1>3, <2>1
<1> QED BY <1>2, <1>3

\* A call of claimStream that is under way has a stream and its value.
LEMMA ClaimFields ==
    ASSUME WatchTypes, NEW m \in Machines, claim[m].pc \in {"put", "restart"}
    PROVE  claim[m] \in Claims /\ claim[m].slug \in Slugs /\ claim[m].value \in Sources
<1>1. claim[m] \in Claims \cup {NoClaim}
  BY DEF WatchTypes
<1>2. claim[m] # NoClaim
  BY DEF NoClaim
<1> QED BY <1>1, <1>2 DEF Claims

\* claimStream goes on to PutWithSession only with room for one more service.
LEMMA ClaimTypes ==
    ASSUME WatchTypes, NEW m \in Machines, NEW s \in Slugs, NEW value \in Sources,
           claimStream(m, s, value)
    PROVE  /\ claim' \in [Machines -> Claims \cup {NoClaim}]
           /\ \A n \in Machines : claim'[n] # claim[n] => Cardinality(services(n)) < Capacity
<1>1. claim \in [Machines -> Claims \cup {NoClaim}]
  BY DEF WatchTypes
<1> DEFINE new == [pc |-> "put", slug |-> s, value |-> value]
<1>2. new \in Claims
  BY DEF Claims
<1>3. CASE claim' = claim
  BY <1>1, <1>3
<1>4. CASE claim' # claim
  <2>1. shouldClaim(m, services(m)) /\ claim' = [claim EXCEPT ![m] = new]
    BY <1>4 DEF claimStream
  <2> HIDE DEF new
  <2>2. /\ claim' \in [Machines -> Claims \cup {NoClaim}]
        /\ \A n \in Machines \ {m} : claim'[n] = claim[n]
    BY <1>1, <1>2, <2>1
  <2>3. Cardinality(services(m)) < Capacity
    BY <2>1 DEF shouldClaim
  <2> QED BY <2>2, <2>3
<1> QED BY <1>3, <1>4

\* The call ends, or goes on to restart the unit.
LEMMA ClaimEnds ==
    ASSUME WatchTypes, NEW m \in Machines, claim[m].pc \in {"put", "restart"},
           \/ claim' = [claim EXCEPT ![m] = NoClaim]
           \/ claim' = [claim EXCEPT ![m] = [@ EXCEPT !.pc = "restart"]]
    PROVE  /\ claim' \in [Machines -> Claims \cup {NoClaim}]
           /\ claim'[m].pc # "put" /\ \A n \in Machines \ {m} : claim'[n] = claim[n]
<1>1. claim \in [Machines -> Claims \cup {NoClaim}]
  BY DEF WatchTypes
<1>2. CASE claim' = [claim EXCEPT ![m] = NoClaim]
  BY <1>1, <1>2 DEF NoClaim
<1>3. CASE claim' = [claim EXCEPT ![m] = [@ EXCEPT !.pc = "restart"]]
  <2> DEFINE next == [claim[m] EXCEPT !.pc = "restart"]
  <2>1. next \in Claims /\ next.pc = "restart"
    BY ClaimFields DEF Claims
  <2>2. claim' = [claim EXCEPT ![m] = next]
    BY <1>3
  <2> HIDE DEF next
  <2>3. /\ claim' \in [Machines -> Claims \cup {NoClaim}] /\ claim'[m] = next
        /\ \A n \in Machines \ {m} : claim'[n] = claim[n]
    BY <1>1, <2>1, <2>2
  <2> QED BY <2>1, <2>3
<1> QED BY <1>2, <1>3

\* What PutClaim does to the call it is part of.
LEMMA PutEnds ==
    ASSUME WatchTypes, NEW m \in Machines, NEW s \in Slugs, PutClaim(m, s)
    PROVE  /\ claim' \in [Machines -> Claims \cup {NoClaim}]
           /\ claim'[m].pc # "put" /\ \A n \in Machines \ {m} : claim'[n] = claim[n]
<1>1. /\ claim[m].pc = "put"
      /\ \/ claim' = [claim EXCEPT ![m] = NoClaim]
         \/ claim' = [claim EXCEPT ![m] = [@ EXCEPT !.pc = "restart"]]
  BY DEF PutClaim, startService, findService
<1> QED BY <1>1, ClaimEnds

\* PutWithSession, and a service that is started if the machine has none.
LEMMA PutTypes ==
    ASSUME StateInv, NEW m \in Machines, NEW s \in Slugs, PutClaim(m, s)
    PROVE  ConsulTypeOK' /\ ServiceTypes' /\ HistoryTypes' /\ ConfInv'
<1> USE DEF StateInv
<1>0. claim[m].value \in Sources
  BY ClaimFields DEF PutClaim
<1> DEFINE value == claim[m].value
<1>1. ConsulTypeOK'
  <2>1. CASE UNCHANGED consulVars
    BY <2>1, ConsulSame
  <2>2. CASE put(m, s)
    BY <2>2, PutType DEF Machines, Slugs
  <2> QED BY <2>1, <2>2 DEF PutClaim, PutWithSession, PutAnswerLost, PutFails
<1>2. HistoryTypes'
  <2>1. lost' \in [Machines -> SUBSET Slugs] /\ leaked' \in [Machines -> SUBSET Slugs]
    BY DEF HistoryTypes, PutClaim, history
  <2>2. orphans' \in [Machines -> SUBSET Slugs] /\ late' \in [Machines -> SUBSET Slugs]
    BY DEF HistoryTypes, PutClaim, startService, findService, history
  <2> QED BY <2>1, <2>2 DEF HistoryTypes
<1>6. UNCHANGED <<file, unit, busErrors>>
  BY DEF PutClaim
<1>3. CASE UNCHANGED <<service, cancelled, conf>>
  BY <1>3, <1>6, KeepServices, <1>1, <1>2 DEF serviceVars
<1>4. CASE startService(m, s)
  <2>1. /\ service' = [service EXCEPT ![m][s] = "start"]
        /\ conf' = [conf EXCEPT ![m][s] = value]
    BY <1>4 DEF startService
  <2> HIDE DEF value
  <2>2. /\ service' \in [Machines -> [Slugs -> Stages]] /\ service'[m][s] = "start"
        /\ \A n \in Machines, t \in Slugs : n # m \/ t # s => service'[n][t] = service[n][t]
    BY <2>1 DEF Stages, ServiceTypes
  <2>3. /\ conf' \in [Machines -> [Slugs -> Sources \cup {NoStream}]] /\ conf'[m][s] = value
        /\ value \in Sources
        /\ \A n \in Machines, t \in Slugs : n # m \/ t # s => conf'[n][t] = conf[n][t]
    BY <1>0, <2>1 DEF ServiceTypes, value
  <2>4. /\ cancelled' \in [Machines -> SUBSET Slugs]
        /\ \A n \in Machines : cancelled[n] \subseteq cancelled'[n]
    <3>1. cancelled \in [Machines -> SUBSET Slugs]
      BY DEF ServiceTypes
    <3>2. cancelled' = cancelled \/ cancelled' = [cancelled EXCEPT ![m] = @ \cup {s}]
      BY <1>4 DEF startService
    <3> QED BY <3>1, <3>2
  <2>5. ServiceTypes'
    BY <1>6, <2>2, <2>3, <2>4 DEF ServiceTypes
  <2>6. ConfInv'
    BY <1>6, <2>2, <2>3, <2>4 DEF ConfInv
  <2> QED BY <1>1, <1>2, <2>5, <2>6
<1> QED BY <1>3, <1>4 DEF PutClaim, findService

\* Restart gives a service something else to run.
LEMMA RestartTypes ==
    ASSUME StateInv, NEW m \in Machines, NEW s \in Slugs, RestartService(m, s)
    PROVE  ConsulTypeOK' /\ ServiceTypes' /\ HistoryTypes' /\ ConfInv'
<1> USE DEF StateInv
<1> DEFINE value == claim[m].value
<1>0. value \in Sources
  BY ClaimFields DEF RestartService
<1>1. ConsulTypeOK'
  BY ConsulSame DEF RestartService
<1>2. HistoryTypes'
  BY DEF HistoryTypes, RestartService
<1>3. /\ service' = service /\ cancelled' = cancelled
      /\ conf' = [conf EXCEPT ![m][s] = value] /\ file' = [file EXCEPT ![m][s] = value]
  BY DEF RestartService
<1>4. unit' \in [Machines -> [Slugs -> Sources \cup {Off, Failed}]] /\ busErrors' \in 0..MaxBusErrors
  BY <1>0, UnitStarts DEF RestartService
<1> HIDE DEF value
<1>5. /\ conf' \in [Machines -> [Slugs -> Sources \cup {NoStream}]] /\ conf'[m][s] = value
      /\ \A n \in Machines, t \in Slugs : n # m \/ t # s => conf'[n][t] = conf[n][t]
  BY <1>0, <1>3 DEF ServiceTypes
<1>6. /\ file' \in [Machines -> [Slugs -> Sources \cup {NoStream}]] /\ file'[m][s] = value
      /\ \A n \in Machines, t \in Slugs : n # m \/ t # s => file'[n][t] = file[n][t]
  BY <1>0, <1>3 DEF ServiceTypes
<1>7. ServiceTypes'
  BY <1>3, <1>4, <1>5, <1>6 DEF ServiceTypes
<1>8. ConfInv'
  BY <1>0, <1>3, <1>5, <1>6 DEF ConfInv
<1> QED BY <1>1, <1>2, <1>7, <1>8

\* What an update is about tells what its value is.
LEMMA UpdateTypes ==
    ASSUME NEW u \in Updates
    PROVE  /\ u.slug \in Slugs
           /\ u.path = "stream" => u.value \in Sources \cup {NoStream}
           /\ u.path = "transcoder" => u.value \in Machines \cup {NoClient}
           /\ u.path \in {"stream", "transcoder"}
BY DEF Updates, StreamUpdates, ClaimUpdates

\* The entries of Consul are entries.
LEMMA EntriesType ==
    ASSUME StateInv
    PROVE  entries \in Entries
<1>1. \A s \in Slugs : owner(s) \in Machines \cup {NoClient}
  BY DEF owner, StateInv, ConsulTypeOK, Sessions, Machines, Slugs
<1> QED BY <1>1 DEF entries, Entries, StateInv, WatchTypes

\* A new update: the watch computes it, run takes it.
LEMMA WatchTypesKept ==
    ASSUME StateInv, NEW m \in Machines, WatchHandler(m) \/ Receive(m)
    PROVE  StateInv'
<1> USE DEF StateInv
<1>1. CASE WatchHandler(m)
  <2>1. ConsulTypeOK' /\ ServiceTypes' /\ ConfInv' /\ HistoryTypes' /\ RunType'
    BY <1>1, ConsulSame, KeepServices, KeepHistory DEF WatchHandler, RunType
  <2>2. watchUpdates(cache[m], entries) \in SUBSET Updates
    BY DEF watchUpdates
  <2>3. WatchTypes'
    BY <1>1, <2>2, EntriesType DEF WatchHandler, WatchTypes, runVars
  <2>4. TodoInv'
    BY <1>1 DEF WatchHandler, TodoInv, runVars
  <2> QED BY <2>1, <2>3, <2>4
<1>2. CASE Receive(m)
  <2>1. ConsulTypeOK' /\ ServiceTypes' /\ ConfInv' /\ HistoryTypes' /\ RunType'
    BY <1>2, ConsulSame, KeepServices, KeepHistory DEF Receive, RunType
  <2>2. WatchTypes'
    BY <1>2 DEF Receive, WatchTypes
  <2>3. TodoInv'
    BY <1>2 DEF Receive, selecting, TodoInv, WatchTypes
  <2> QED BY <2>1, <2>2, <2>3
<1> QED BY <1>1, <1>2

\* The next update of a batch, the next stream of the tick, a step of claimStream.
LEMMA RunTypes ==
    ASSUME StateInv, NEW m \in Machines, Run(m)
    PROVE  StateInv'
<1> USE DEF StateInv
<1>0. /\ run' = run /\ RunType'
  BY DEF Run, RunType
<1> DEFINE claimOK == claim' \in [Machines -> Claims \cup {NoClaim}]
<1>1. claim' = claim => claimOK
  BY DEF WatchTypes
<1>2. UNCHANGED <<consulVars, serviceVars, history>> =>
          ConsulTypeOK' /\ ServiceTypes' /\ ConfInv' /\ HistoryTypes'
  BY ConsulSame, KeepServices, KeepHistory
<1>3. ASSUME NEW u \in inbox[m], HandleStreamUpdate(m, u) PROVE StateInv'
  <2>0. u \in Updates
    BY <1>3 DEF WatchTypes
  <2>1. u.slug \in Slugs /\ u.value \in Sources \cup {NoStream}
    BY <1>3, <2>0, UpdateTypes DEF HandleStreamUpdate
  <2>2. claimOK
    <3>1. CASE isDelete(u)
      BY <1>1, <1>3, <3>1 DEF HandleStreamUpdate
    <3>2. CASE ~isDelete(u)
      <4>1. u.value \in Sources /\ claimStream(m, u.slug, u.value)
        BY <1>3, <2>1, <3>2 DEF HandleStreamUpdate, isDelete
      <4> QED BY <2>1, <4>1, ClaimTypes
    <3> QED BY <3>1, <3>2
  <2>3. WatchTypes'
    BY <1>3, <2>1, <2>2 DEF HandleStreamUpdate, handling, WatchTypes, watchVars
  <2>4. todo[m] = {} /\ todo' = todo /\ UNCHANGED <<consulVars, serviceVars, history>>
    BY <1>3 DEF HandleStreamUpdate, handling, TodoInv
  <2>5. \A n \in Machines \ {m} : inbox'[n] = inbox[n] /\ streams'[n] = streams[n]
    BY <1>3, <2>1 DEF HandleStreamUpdate, handling, WatchTypes
  <2>6. TodoInv'
    BY <2>4, <2>5 DEF TodoInv
  <2> QED BY <1>0, <1>2, <2>3, <2>4, <2>6
<1>4. ASSUME NEW u \in inbox[m], HandleStreamTranscoder(m, u) PROVE StateInv'
  <2>0. u \in Updates
    BY <1>4 DEF WatchTypes
  <2>1. u.slug \in Slugs /\ u.value \in Machines \cup {NoClient}
    BY <1>4, <2>0, UpdateTypes DEF HandleStreamTranscoder
  <2>2. claimOK
    <3>1. CASE claim' = claim
      BY <1>1, <3>1
    <3>2. CASE streams[m][u.slug] # NoStream /\ claimStream(m, u.slug, streams[m][u.slug])
      <4>1. streams[m][u.slug] \in Sources
        BY <2>1, <3>2 DEF WatchTypes
      <4> QED BY <2>1, <3>2, <4>1, ClaimTypes
    <3> QED BY <1>4, <3>1, <3>2 DEF HandleStreamTranscoder
  <2>3. WatchTypes'
    BY <1>4, <2>1, <2>2 DEF HandleStreamTranscoder, handling, WatchTypes, watchVars
  <2>4. todo[m] = {} /\ UNCHANGED <<todo, streams, consulVars, serviceVars, history>>
    BY <1>4 DEF HandleStreamTranscoder, handling, TodoInv
  <2>5. \A n \in Machines \ {m} : inbox'[n] = inbox[n]
    BY <1>4, <2>1 DEF HandleStreamTranscoder, handling, WatchTypes
  <2>6. TodoInv'
    BY <2>4, <2>5 DEF TodoInv
  <2> QED BY <1>0, <1>2, <2>3, <2>4, <2>6
<1>5. ASSUME NEW s \in Slugs, ClaimUnclaimed(m, s) PROVE StateInv'
  <2>1. streams[m][s] \in Sources
    BY <1>5 DEF ClaimUnclaimed, TodoInv, WatchTypes
  <2>2. claimOK
    BY <1>5, <2>1, ClaimTypes DEF ClaimUnclaimed
  <2>3. WatchTypes'
    BY <1>5, <2>2 DEF ClaimUnclaimed, WatchTypes, watchVars
  <2>4. TodoInv' /\ UNCHANGED <<consulVars, serviceVars, history>>
    BY <1>5 DEF ClaimUnclaimed, TodoInv, WatchTypes
  <2> QED BY <1>0, <1>2, <2>3, <2>4
<1>6. ASSUME NEW s \in Slugs, PutClaim(m, s) \/ RestartService(m, s) PROVE StateInv'
  <2>1. claimOK
    <3>1. RestartService(m, s) => claimOK
      BY ClaimEnds DEF RestartService
    <3> QED BY <1>6, <3>1, PutEnds
  <2>2. UNCHANGED <<watchVars, inbox, streams, streamTranscoders, first, todo>>
    BY <1>6 DEF PutClaim, RestartService
  <2>3. WatchTypes' /\ TodoInv'
    BY <2>1, <2>2 DEF WatchTypes, TodoInv, watchVars
  <2> QED BY <1>0, <1>6, <2>3, PutTypes, RestartTypes
<1> QED BY <1>3, <1>4, <1>5, <1>6 DEF Run

\* The goroutine of a service, and its unit.
LEMMA ServiceTypesKept ==
    ASSUME StateInv, NEW m \in Machines, NEW s \in Slugs,
           Service(m, s) \/ SyncUnitState(m, s) \/ UnitFails(m, s)
    PROVE  StateInv'
<1> USE DEF StateInv
<1>1. WatchTypes' /\ TodoInv' /\ RunType' /\ run' = run
  <2>1. UNCHANGED <<watchVars, runVars, run>>
    BY DEF Service, ServiceStart, StopUnit, Unclaim, UnclaimFails, cleanup, SyncUnitState, UnitFails
  <2> QED BY <2>1 DEF WatchTypes, TodoInv, RunType, watchVars, runVars
<1>2. CASE ServiceStart(m, s)
  <2>1. /\ service' = [service EXCEPT ![m][s] = "keepalive"]
        /\ file' = [file EXCEPT ![m][s] = conf[m][s]]
        /\ UNCHANGED <<cancelled, conf>> /\ conf[m][s] \in Sources
    BY <1>2 DEF ServiceStart, ConfInv
  <2>2. /\ service' \in [Machines -> [Slugs -> Stages]] /\ service'[m][s] = "keepalive"
        /\ \A n \in Machines, t \in Slugs : n # m \/ t # s => service'[n][t] = service[n][t]
    BY <2>1 DEF Stages, ServiceTypes
  <2>3. /\ file' \in [Machines -> [Slugs -> Sources \cup {NoStream}]] /\ file'[m][s] \in Sources
        /\ \A n \in Machines, t \in Slugs : n # m \/ t # s => file'[n][t] = file[n][t]
    BY <2>1 DEF ServiceTypes
  <2>4. unit' \in [Machines -> [Slugs -> Sources \cup {Off, Failed}]] /\ busErrors' \in 0..MaxBusErrors
    BY <1>2, <2>1, UnitStarts DEF ServiceStart
  <2>5. ServiceTypes'
    BY <2>1, <2>2, <2>3, <2>4 DEF ServiceTypes
  <2>6. ConfInv'
    BY <2>1, <2>2, <2>3 DEF ConfInv
  <2>7. ConsulTypeOK' /\ HistoryTypes'
    BY <1>2, ConsulSame, KeepHistory DEF ServiceStart
  <2> QED BY <1>1, <2>5, <2>6, <2>7
<1>3. CASE StopUnit(m, s)
  <2>1. /\ service' = [service EXCEPT ![m][s] = "unclaim"]
        /\ file' = [file EXCEPT ![m][s] = NoStream]
        /\ UNCHANGED <<cancelled, conf>> /\ s \in cancelled[m]
    BY <1>3 DEF StopUnit
  <2>2. /\ service' \in [Machines -> [Slugs -> Stages]] /\ service'[m][s] = "unclaim"
        /\ \A n \in Machines, t \in Slugs : n # m \/ t # s => service'[n][t] = service[n][t]
    BY <2>1 DEF Stages, ServiceTypes
  <2>3. /\ file' \in [Machines -> [Slugs -> Sources \cup {NoStream}]]
        /\ \A n \in Machines, t \in Slugs : n # m \/ t # s => file'[n][t] = file[n][t]
    BY <2>1 DEF ServiceTypes
  <2>4. unit' \in [Machines -> [Slugs -> Sources \cup {Off, Failed}]]
    <3>1. unit' = [unit EXCEPT ![m][s] = Off] \/ unit' = unit
      BY <1>3 DEF StopUnit
    <3>2. unit \in [Machines -> [Slugs -> Sources \cup {Off, Failed}]]
      BY DEF ServiceTypes
    <3>3. Off \in Sources \cup {Off, Failed}
      OBVIOUS
    <3> QED BY <3>1, <3>2, <3>3
  <2>5. busErrors' \in 0..MaxBusErrors
    BY <1>3, BusErrorsAssumption DEF StopUnit, ServiceTypes
  <2>6. ServiceTypes'
    BY <2>1, <2>2, <2>3, <2>4, <2>5 DEF ServiceTypes
  <2>7. ConfInv'
    BY <2>1, <2>2, <2>3 DEF ConfInv
  <2>8. ConsulTypeOK'
    BY <1>3, ConsulSame DEF StopUnit
  <2>9. HistoryTypes'
    BY <1>3 DEF StopUnit, HistoryTypes
  <2> QED BY <1>1, <2>6, <2>7, <2>8, <2>9
<1>4. CASE Unclaim(m, s) \/ UnclaimFails(m, s)
  <2>1. /\ service' = [service EXCEPT ![m][s] = "stopped"] /\ service[m][s] = "unclaim"
        /\ UNCHANGED <<cancelled, conf, file, unit, busErrors, orphans, late>>
    BY <1>4 DEF Unclaim, UnclaimFails, cleanup
  <2>2. /\ service' \in [Machines -> [Slugs -> Stages]] /\ service'[m][s] = "stopped"
        /\ \A n \in Machines, t \in Slugs : n # m \/ t # s => service'[n][t] = service[n][t]
    BY <2>1 DEF Stages, ServiceTypes
  <2>3. ServiceTypes'
    BY <2>1, <2>2 DEF ServiceTypes
  <2>4. ConfInv'
    BY <2>1, <2>2 DEF ConfInv
  <2>5. ConsulTypeOK'
    BY <1>4, DeleteType, ConsulSame
    DEF Unclaim, UnclaimFails, Delete, DeleteAnswerLost, DeleteFails, Slugs
  <2>6. lost' \in [Machines -> SUBSET Slugs] /\ leaked' \in [Machines -> SUBSET Slugs]
    BY <1>4 DEF Unclaim, UnclaimFails, HistoryTypes
  <2>7. HistoryTypes'
    BY <2>1, <2>6 DEF HistoryTypes
  <2> QED BY <1>1, <2>3, <2>4, <2>5, <2>7
<1>5. CASE SyncUnitState(m, s)
  <2>1. file[m][s] \in Sources
    BY <1>5 DEF SyncUnitState, ConfInv
  <2>2. ServiceTypes'
    BY <1>5, <2>1 DEF SyncUnitState, ServiceTypes
  <2>3. ConfInv'
    BY <1>5 DEF SyncUnitState, ConfInv
  <2>4. ConsulTypeOK' /\ HistoryTypes'
    BY <1>5, ConsulSame, KeepHistory DEF SyncUnitState
  <2> QED BY <1>1, <2>2, <2>3, <2>4
<1>6. CASE UnitFails(m, s)
  <2>1. unit' \in [Machines -> [Slugs -> Sources \cup {Off, Failed}]]
    BY <1>6 DEF UnitFails, ServiceTypes
  <2>2. busErrors' \in 0..MaxBusErrors
    BY <1>6, BusErrorsAssumption DEF UnitFails, ServiceTypes
  <2>3. ServiceTypes'
    BY <1>6, <2>1, <2>2 DEF UnitFails, ServiceTypes
  <2>4. ConfInv'
    BY <1>6 DEF UnitFails, ConfInv
  <2>5. ConsulTypeOK' /\ HistoryTypes'
    BY <1>6, ConsulSame, KeepHistory DEF UnitFails
  <2> QED BY <1>1, <2>3, <2>4, <2>5
<1> QED BY <1>2, <1>3, <1>4, <1>5, <1>6 DEF Service

\* The tick of run.
LEMMA TickTypes ==
    ASSUME StateInv, NEW m \in Machines, Tick(m)
    PROVE  StateInv'
<1> USE DEF StateInv
<1>1. ConsulTypeOK' /\ RunType'
  BY ConsulSame DEF Tick, RunType
<1>2. todo' \in [Machines -> SUBSET Slugs]
  <2>1. unclaimed(m) \subseteq Slugs
    BY DEF unclaimed
  <2>2. todo' = [todo EXCEPT ![m] = unclaimed(m)] \/ todo' = [todo EXCEPT ![m] = {}]
    BY DEF Tick
  <2> QED BY <2>1, <2>2 DEF WatchTypes
<1>3. WatchTypes'
  BY <1>2 DEF Tick, WatchTypes, watchVars
<1>4. TodoInv'
  <2>1. /\ UNCHANGED <<inbox, streams>> /\ inbox[m] = {}
        /\ todo'[m] \subseteq unclaimed(m) /\ \A n \in Machines \ {m} : todo'[n] = todo[n]
    BY DEF Tick, selecting, WatchTypes
  <2> QED BY <2>1 DEF TodoInv, unclaimed
<1>5. \A n \in Machines, s \in Slugs :
          /\ n = m /\ s \in hasStopped(m) => service'[n][s] = "none" /\ conf'[n][s] = NoStream
          /\ n # m \/ s \notin hasStopped(m) =>
                service'[n][s] = service[n][s] /\ conf'[n][s] = conf[n][s]
  BY DEF Tick, ServiceTypes
<1>6. /\ service' \in [Machines -> [Slugs -> Stages]]
      /\ conf' \in [Machines -> [Slugs -> Sources \cup {NoStream}]]
  BY DEF Tick, ServiceTypes, Stages
<1>7. /\ cancelled' \in [Machines -> SUBSET Slugs]
      /\ \A n \in Machines : cancelled[n] \ hasStopped(m) \subseteq cancelled'[n]
      /\ \A n \in Machines \ {m} : cancelled'[n] = cancelled[n]
  BY DEF Tick, ServiceTypes, unnecessary, services
<1>8. ServiceTypes'
  BY <1>6, <1>7 DEF Tick, ServiceTypes
<1>9. ConfInv'
  <2>1. file' = file
    BY DEF Tick
  <2> QED BY <1>5, <1>7, <2>1 DEF ConfInv
<1>10. HistoryTypes'
  BY DEF Tick, HistoryTypes
<1> QED BY <1>1, <1>3, <1>4, <1>8, <1>9, <1>10

\* A daemon starts anew, with what it left in systemd and Consul.
LEMMA ProcessTypes ==
    ASSUME StateInv, NEW m \in Machines, newProcess(m)
    PROVE  StateInv'
<1> USE DEF StateInv
<1>1. ConsulTypeOK' /\ RunType'
  BY NewSessionType DEF newProcess, RunType, Machines
<1>2. nothing \in Entries
  BY DEF nothing, Entries
<1>3. /\ nothing.stream \in [Slugs -> Sources \cup {NoStream}]
      /\ nothing.transcoder \in [Slugs -> Machines \cup {NoClient}]
  BY DEF nothing
<1>4. WatchTypes'
  <2>1. cache' \in [Machines -> Entries]
    BY <1>2 DEF newProcess, WatchTypes
  <2>2. /\ streams' \in [Machines -> [Slugs -> Sources \cup {NoStream}]]
        /\ streamTranscoders' \in [Machines -> [Slugs -> Machines \cup {NoClient}]]
    BY <1>3 DEF newProcess, WatchTypes
  <2> QED BY <2>1, <2>2 DEF newProcess, WatchTypes
<1>5. TodoInv'
  BY DEF newProcess, TodoInv, WatchTypes
<1>6. ServiceTypes'
  BY DEF newProcess, ServiceTypes, Stages
<1>7. ConfInv'
  <2>1. /\ \A s \in Slugs : service'[m][s] = "none"
        /\ \A n \in Machines \ {m}, s \in Slugs :
              /\ service'[n][s] = service[n][s] /\ conf'[n][s] = conf[n][s]
              /\ cancelled'[n] = cancelled[n]
        /\ file' = file
    BY DEF newProcess, ServiceTypes
  <2> QED BY <2>1 DEF ConfInv
<1>8. HistoryTypes'
  BY DEF newProcess, HistoryTypes
<1> QED BY <1>1, <1>4, <1>5, <1>6, <1>7, <1>8

\* The signal to end, and the end of a session.
LEMMA EndTypes ==
    ASSUME StateInv, NEW m \in Machines,
           Signal(m) \/ \E id \in 0..MaxSessions[m] : SessionEnds(m, id)
    PROVE  StateInv'
<1> USE DEF StateInv
<1>1. CASE Signal(m)
  <2>1. ConsulTypeOK' /\ HistoryTypes'
    BY <1>1, ConsulSame, KeepHistory DEF Signal
  <2>2. WatchTypes' /\ TodoInv'
    BY <1>1 DEF Signal, WatchTypes, TodoInv, watchVars, runVars
  <2>3. RunType'
    BY <1>1 DEF Signal, RunType
  <2>4. /\ cancelled' \in [Machines -> SUBSET Slugs] /\ cancelled'[m] = services(m)
        /\ \A n \in Machines \ {m} : cancelled'[n] = cancelled[n]
    BY <1>1 DEF Signal, ServiceTypes, services
  <2>5. ServiceTypes'
    BY <1>1, <2>4 DEF Signal, ServiceTypes
  <2>6. ConfInv'
    <3>1. UNCHANGED <<service, conf, file>>
      BY <1>1 DEF Signal
    <3> QED BY <2>4, <3>1 DEF ConfInv, services
  <2> QED BY <2>1, <2>2, <2>3, <2>5, <2>6
<1>2. ASSUME NEW id \in 0..MaxSessions[m], SessionEnds(m, id) PROVE StateInv'
  <2>1. ConsulTypeOK'
    BY <1>2, EndSessionType, SessionsAssumption DEF SessionEnds, Machines
  <2>2. heldBy([client |-> m, id |-> id]) \subseteq Slugs
    BY DEF heldBy, Slugs
  <2>3. HistoryTypes'
    BY <1>2, <2>2 DEF SessionEnds, HistoryTypes
  <2>4. UNCHANGED <<watchVars, runVars, serviceVars, run>>
    BY <1>2 DEF SessionEnds
  <2>5. WatchTypes' /\ TodoInv' /\ RunType'
    BY <2>4 DEF WatchTypes, TodoInv, RunType, watchVars, runVars
  <2> QED BY <2>1, <2>3, <2>4, <2>5, KeepServices
<1> QED BY <1>1, <1>2

\* What leaves services and claims alone.
LEMMA QuietTypes ==
    ASSUME StateInv,
           \/ \E s \in Slugs, value \in Sources \cup {NoStream} : StreamChanges(s, value)
           \/ \E m \in Machines : HandleTranscoder(m) \/ RunReturns(m)
           \/ Consul
           \/ UNCHANGED vars
    PROVE  StateInv'
<1> USE DEF StateInv
<1>1. ServiceTypes' /\ ConfInv' /\ HistoryTypes'
  <2>1. UNCHANGED <<serviceVars, history>>
    BY DEF StreamChanges, HandleTranscoder, RunReturns, Consul, vars
  <2> QED BY <2>1, KeepServices, KeepHistory
<1>2. ConsulTypeOK'
  <2>1. ConsulStep \/ UNCHANGED consulVars
    BY DEF StreamChanges, HandleTranscoder, RunReturns, Consul, vars
  <2> QED BY <2>1, ConsulStepType, ConsulSame
<1>3. RunType'
  BY DEF StreamChanges, HandleTranscoder, RunReturns, Consul, vars, RunType
<1>4. TodoInv'
  <2>1. UNCHANGED <<todo, inbox, streams>>
    BY DEF StreamChanges, HandleTranscoder, RunReturns, Consul, vars, runVars
  <2> QED BY <2>1 DEF TodoInv
<1>5. WatchTypes'
  <2>1. UNCHANGED <<cache, pending, inbox, streams, streamTranscoders, todo, claim>>
    BY DEF StreamChanges, HandleTranscoder, RunReturns, Consul, vars, runVars, watchVars
  <2>2. first' \in SUBSET Announced
    <3>1. \/ first' = first
          \/ \E m \in Announced : first' = first \ {m} \/ first' = first \cup {m}
      BY DEF StreamChanges, HandleTranscoder, RunReturns, Consul, vars, runVars
    <3> QED BY <3>1 DEF WatchTypes
  <2>3. source' \in [Slugs -> Sources \cup {NoStream}]
    BY DEF StreamChanges, HandleTranscoder, RunReturns, Consul, vars, watchVars, WatchTypes
  <2> QED BY <2>1, <2>2, <2>3 DEF WatchTypes
<1> QED BY <1>1, <1>2, <1>3, <1>4, <1>5

\* Every step keeps the types.
LEMMA StateNext ==
    ASSUME StateInv, [Next]_vars
    PROVE  StateInv'
<1>1. ASSUME NEW m \in Machines,
             \/ WatchHandler(m) \/ Receive(m) \/ Run(m) \/ Tick(m)
             \/ HandleTranscoder(m) \/ Restart(m) \/ Signal(m) \/ RunReturns(m) \/ Exit(m)
             \/ \E s \in Slugs : Service(m, s) \/ SyncUnitState(m, s) \/ UnitFails(m, s)
             \/ \E id \in 0..MaxSessions[m] : SessionEnds(m, id)
      PROVE  StateInv'
  <2>1. CASE Restart(m) \/ Exit(m)
    BY <2>1, ProcessTypes DEF Restart, Exit
  <2>2. ASSUME NEW s \in Slugs, Service(m, s) \/ SyncUnitState(m, s) \/ UnitFails(m, s)
        PROVE  StateInv'
    BY <2>2, ServiceTypesKept
  <2>3. CASE HandleTranscoder(m) \/ RunReturns(m)
    BY <2>3, QuietTypes
  <2> QED BY <1>1, <2>1, <2>2, <2>3, WatchTypesKept, RunTypes, TickTypes, EndTypes
<1>2. CASE \/ \E s \in Slugs, value \in Sources \cup {NoStream} : StreamChanges(s, value)
           \/ Consul
           \/ UNCHANGED vars
  BY <1>2, QuietTypes
<1> QED BY <1>1, <1>2 DEF Next

\* The state in which the daemons start.
LEMMA StateInit ==
    ASSUME Init
    PROVE  StateInv
<1>1. ConsulTypeOK
  BY NoSessionAssumption DEF Init, ConsulInit, ConsulTypeOK, Sessions
<1>2. WatchTypes
  <2>1. nothing \in Entries
    BY DEF nothing, Entries
  <2>2. cache \in [Machines -> Entries]
    BY <2>1 DEF Init, perMachine
  <2> QED BY <2>2 DEF Init, WatchTypes, perMachine, perSlug
<1>3. ServiceTypes
  BY BusErrorsAssumption DEF Init, ServiceTypes, perMachine, perSlug, Stages
<1>4. HistoryTypes /\ RunType
  BY DEF Init, HistoryTypes, RunType, perMachine
<1>5. TodoInv /\ ConfInv
  BY DEF Init, TodoInv, ConfInv, perMachine, perSlug
<1> QED BY <1>1, <1>2, <1>3, <1>4, <1>5 DEF StateInv

(***************************************************************************)
(* The capacity.  claimStream looks at the services the machine has, and   *)
(* nothing adds a service before it has added its own.                     *)
(***************************************************************************)
CapacityInv ==
    \A m \in Machines :
        /\ IsFiniteSet(services(m)) /\ Cardinality(services(m)) <= Capacity
        /\ claim[m].pc = "put" => Cardinality(services(m)) < Capacity

\* A new call of claimStream has found room; steps that leave the calls and the
\* services alone have nothing to find.
LEMMA RunAsks ==
    ASSUME StateInv, NEW m \in Machines, NEW n \in Machines,
           \/ \E u \in inbox[m] : HandleStreamUpdate(m, u) \/ HandleStreamTranscoder(m, u)
           \/ \E s \in Slugs : ClaimUnclaimed(m, s)
    PROVE  /\ service' = service
           /\ claim'[n] # claim[n] => Cardinality(services(n)) < Capacity
<1> DEFINE asks == \E s \in Slugs, value \in Sources : claimStream(m, s, value)
<1>0. WatchTypes /\ TodoInv
  BY DEF StateInv
<1>1. asks => (claim'[n] # claim[n] => Cardinality(services(n)) < Capacity)
  BY <1>0, ClaimTypes
<1>2. ASSUME NEW u \in inbox[m], HandleStreamUpdate(m, u) \/ HandleStreamTranscoder(m, u)
      PROVE  service' = service /\ (asks \/ claim' = claim)
  <2>1. u \in Updates /\ u.slug \in Slugs
    <3>1. u \in Updates
      BY <1>0 DEF WatchTypes
    <3> QED BY <3>1, UpdateTypes
  <2>2. CASE HandleStreamUpdate(m, u)
    <3>1. u.value \in Sources \cup {NoStream}
      BY <2>1, <2>2, UpdateTypes DEF HandleStreamUpdate
    <3> QED BY <2>1, <2>2, <3>1 DEF HandleStreamUpdate, handling, serviceVars, isDelete
  <2>3. CASE HandleStreamTranscoder(m, u)
    <3>1. streams[m][u.slug] \in Sources \cup {NoStream}
      BY <1>0, <2>1 DEF WatchTypes
    <3> QED BY <2>1, <2>3, <3>1 DEF HandleStreamTranscoder, handling, serviceVars
  <2> QED BY <1>2, <2>2, <2>3
<1>3. ASSUME NEW s \in Slugs, ClaimUnclaimed(m, s)
      PROVE  service' = service /\ asks
  <2>1. streams[m][s] \in Sources
    BY <1>0, <1>3 DEF ClaimUnclaimed, TodoInv, WatchTypes
  <2> QED BY <1>3, <2>1 DEF ClaimUnclaimed, serviceVars
<1> HIDE DEF asks
<1> QED BY <1>1, <1>2, <1>3

\* A claim adds a service only where there is room for one.
LEMMA ClaimAdds ==
    ASSUME StateInv, CapacityInv, NEW m \in Machines, NEW s \in Slugs, PutClaim(m, s),
           NEW n \in Machines
    PROVE  \/ /\ services(n)' = services(n)
              /\ claim'[n] = claim[n] \/ claim'[n].pc # "put"
           \/ /\ services(n)' = services(n) \cup {s} /\ s \notin services(n)
              /\ Cardinality(services(n)) < Capacity /\ claim'[n].pc # "put"
<1>0. claim'[m].pc # "put" /\ \A k \in Machines \ {m} : claim'[k] = claim[k]
  BY PutEnds DEF StateInv
<1>1. CASE service' = service
  BY <1>0, <1>1 DEF services
<1>2. CASE startService(m, s)
  <2>1. /\ service' = [service EXCEPT ![m][s] = "start"] /\ service[m][s] = "none"
        /\ Cardinality(services(m)) < Capacity
    BY <1>2 DEF startService, PutClaim, CapacityInv
  <2>2. /\ service'[m][s] = "start"
        /\ \A k \in Machines, t \in Slugs : k # m \/ t # s => service'[k][t] = service[k][t]
    BY <2>1 DEF StateInv, ServiceTypes
  <2>3. CASE n = m
    BY <1>0, <2>1, <2>2, <2>3 DEF services
  <2>4. CASE n # m
    BY <1>0, <2>2, <2>4 DEF services
  <2> QED BY <2>3, <2>4
<1> QED BY <1>1, <1>2 DEF PutClaim, findService

\* No step takes a machine over its capacity.
LEMMA CapacityNext ==
    ASSUME StateInv, CapacityInv, [Next]_vars
    PROVE  CapacityInv'
<1> DEFINE within(n) == /\ IsFiniteSet(services(n)') /\ Cardinality(services(n)') <= Capacity
                        /\ claim'[n].pc = "put" => Cardinality(services(n)') < Capacity
<1> SUFFICES ASSUME NEW n \in Machines
             PROVE  within(n)
  BY DEF CapacityInv
<1>0. /\ IsFiniteSet(services(n)) /\ Cardinality(services(n)) <= Capacity
      /\ Cardinality(services(n)) \in Nat
      /\ claim[n].pc = "put" => Cardinality(services(n)) < Capacity
  BY FS_CardinalityType DEF CapacityInv
<1>1. ASSUME services(n)' \subseteq services(n),
             \/ claim'[n] = claim[n] \/ claim'[n].pc # "put"
             \/ Cardinality(services(n)) < Capacity
      PROVE  within(n)
  <2>1. /\ IsFiniteSet(services(n)') /\ Cardinality(services(n)') <= Cardinality(services(n))
    BY <1>0, <1>1, FS_Subset
  <2>2. Cardinality(services(n)') \in Nat
    BY <2>1, FS_CardinalityType
  <2>3. claim'[n].pc = "put" => Cardinality(services(n)) < Capacity
    BY <1>0, <1>1
  <2> QED BY <1>0, <2>1, <2>2, <2>3, CapacityAssumption
<1>2. ASSUME NEW s, services(n)' = services(n) \cup {s}, s \notin services(n),
             Cardinality(services(n)) < Capacity, claim'[n].pc # "put"
      PROVE  within(n)
  <2>1. IsFiniteSet(services(n)') /\ Cardinality(services(n)') = Cardinality(services(n)) + 1
    BY <1>0, <1>2, FS_AddElement
  <2> QED BY <1>0, <1>2, <2>1, CapacityAssumption
<1> HIDE DEF within
<1>3. service' = service => services(n)' \subseteq services(n)
  BY DEF services
<1>4. CASE service' = service /\ claim' = claim
  BY <1>1, <1>3, <1>4
<1>5. ASSUME NEW m \in Machines, Run(m)
      PROVE  within(n)
  <2>1. CASE \/ \E u \in inbox[m] : HandleStreamUpdate(m, u) \/ HandleStreamTranscoder(m, u)
             \/ \E s \in Slugs : ClaimUnclaimed(m, s)
    BY <1>1, <1>3, <2>1, RunAsks
  <2>2. ASSUME NEW s \in Slugs, PutClaim(m, s)
        PROVE  within(n)
    BY <1>1, <1>2, <2>2, ClaimAdds
  <2>3. ASSUME NEW s \in Slugs, RestartService(m, s)
        PROVE  within(n)
    <3>1. /\ claim'[m].pc # "put" /\ \A k \in Machines \ {m} : claim'[k] = claim[k]
          /\ service' = service
      BY <2>3, ClaimEnds DEF RestartService, StateInv
    <3> QED BY <1>1, <1>3, <3>1
  <2> QED BY <1>5, <2>1, <2>2, <2>3 DEF Run
<1>6. ASSUME NEW m \in Machines, NEW s \in Slugs, Service(m, s)
      PROVE  within(n)
  <2>1. PICK stage : service' = [service EXCEPT ![m][s] = stage] /\ service[m][s] # "none"
    BY <1>6 DEF Service, ServiceStart, StopUnit, Unclaim, UnclaimFails, cleanup
  <2>2. services(n)' \subseteq services(n)
    BY <2>1 DEF services, StateInv, ServiceTypes
  <2>3. claim' = claim
    BY <1>6 DEF Service, ServiceStart, StopUnit, Unclaim, UnclaimFails, cleanup, runVars
  <2> QED BY <1>1, <2>2, <2>3
<1>7. ASSUME NEW m \in Machines, Tick(m)
      PROVE  within(n)
  <2>1. \A s \in Slugs : service'[n][s] \in {service[n][s], "none"}
    BY <1>7 DEF Tick, StateInv, ServiceTypes
  <2>2. claim' = claim
    BY <1>7 DEF Tick
  <2>3. services(n)' \subseteq services(n)
    BY <2>1 DEF services
  <2> QED BY <1>1, <2>2, <2>3
<1>8. ASSUME NEW m \in Machines, newProcess(m)
      PROVE  within(n)
  <2>1. \A s \in Slugs : service'[n][s] \in {service[n][s], "none"}
    BY <1>8 DEF newProcess, StateInv, ServiceTypes
  <2>2. claim'[n] = claim[n] \/ claim'[n].pc # "put"
    BY <1>8 DEF newProcess, StateInv, WatchTypes, NoClaim
  <2>3. services(n)' \subseteq services(n)
    BY <2>1 DEF services
  <2> QED BY <1>1, <2>2, <2>3
<1>9. \/ \E m \in Machines : Run(m) \/ Tick(m) \/ newProcess(m) \/ \E s \in Slugs : Service(m, s)
      \/ service' = service /\ claim' = claim
  BY DEF Next, StreamChanges, WatchHandler, Receive, HandleTranscoder, Restart, Signal, RunReturns,
         Exit, SyncUnitState, UnitFails, SessionEnds, Consul, vars, serviceVars, runVars
<1> QED BY <1>4, <1>5, <1>6, <1>7, <1>8, <1>9

\* Types are kept, and with them the limit that claimStream is to respect: no
\* machine runs more transcodings than its capacity, whatever the order of
\* updates, ticks, stopping services, restarts and failing calls.
THEOREM TypeCorrect == Spec => []TypeOK
<1>1. Init => StateInv /\ CapacityInv
  <2> SUFFICES ASSUME Init PROVE StateInv /\ CapacityInv
    OBVIOUS
  <2>1. \A m \in Machines : services(m) = {}
    BY DEF Init, services, perSlug, perMachine
  <2>2. IsFiniteSet({}) /\ Cardinality({}) = 0
    BY FS_EmptySet
  <2>3. \A m \in Machines : claim[m].pc # "put"
    BY DEF Init, perMachine, NoClaim
  <2> QED BY <2>1, <2>2, <2>3, CapacityAssumption, StateInit DEF CapacityInv
<1>2. StateInv /\ CapacityInv /\ [Next]_vars => (StateInv /\ CapacityInv)'
  BY StateNext, CapacityNext
<1>3. StateInv /\ CapacityInv => TypeOK
  BY DEF StateInv, CapacityInv, WatchTypes, ServiceTypes, HistoryTypes, RunType, TypeOK, Stages
<1> QED BY <1>1, <1>2, <1>3, PTL DEF Spec

(***************************************************************************)
(* The view of a machine.  The updates on their way are the differences    *)
(* between what the machine knows and what was sent last: a later batch    *)
(* overrides an earlier one, and what neither of them is about is known.   *)
(***************************************************************************)
Paths == {"stream", "transcoder"}

at(m, path, s) == IF path = "stream" THEN streams[m][s] ELSE streamTranscoders[m][s]

for(us, path, s) == {u \in us : u.path = path /\ u.slug = s}

ViewInv(m) ==
    /\ \A u \in pending[m] : u.value = cache[m][u.path][u.slug]
    /\ \A u, v \in inbox[m] : u.path = v.path /\ u.slug = v.slug => u = v
    /\ \A path \in Paths, s \in Slugs : for(pending[m], path, s) = {} =>
          /\ \A u \in for(inbox[m], path, s) : u.value = cache[m][path][s]
          /\ for(inbox[m], path, s) = {} => at(m, path, s) = cache[m][path][s]

ViewsInv == \A m \in Machines : ViewInv(m)

\* A machine whose part of the watch does not change keeps its view.
LEMMA KeepView ==
    ASSUME NEW m \in Machines, ViewInv(m),
           /\ cache'[m] = cache[m] /\ pending'[m] = pending[m] /\ inbox'[m] = inbox[m]
           /\ streams'[m] = streams[m] /\ streamTranscoders'[m] = streamTranscoders[m]
    PROVE  ViewInv(m)'
BY DEF ViewInv, for, at

\* The watch handler sends every difference.
LEMMA WatchView ==
    ASSUME StateInv, ViewsInv, NEW m \in Machines, WatchHandler(m)
    PROVE  ViewsInv'
<1>1. /\ pending' = [pending EXCEPT ![m] = watchUpdates(cache[m], entries)]
      /\ cache' = [cache EXCEPT ![m] = entries] /\ pending[m] = {}
      /\ UNCHANGED <<inbox, streams, streamTranscoders>>
  BY DEF WatchHandler, runVars
<1>2. /\ pending'[m] = watchUpdates(cache[m], entries) /\ cache'[m] = entries
      /\ \A n \in Machines \ {m} : pending'[n] = pending[n] /\ cache'[n] = cache[n]
  BY <1>1 DEF StateInv, WatchTypes
<1>3. ASSUME NEW path \in Paths, NEW s \in Slugs, for(pending'[m], path, s) = {}
      PROVE  cache'[m][path][s] = cache[m][path][s]
  <2> DEFINE u == [path |-> path, slug |-> s, value |-> entries[path][s]]
  <2>1. u \in Updates
    BY EntriesType DEF Paths, Updates, StreamUpdates, ClaimUpdates, Entries
  <2>2. u.path = path /\ u.slug = s /\ u.value = entries[path][s]
    OBVIOUS
  <2>3. u \notin watchUpdates(cache[m], entries)
    BY <1>2, <1>3, <2>2 DEF for
  <2> HIDE DEF u
  <2> QED BY <1>2, <2>1, <2>2, <2>3 DEF watchUpdates
<1>4. ViewInv(m)'
  <2>1. \A u \in pending'[m] : u.value = cache'[m][u.path][u.slug]
    BY <1>2 DEF watchUpdates
  <2>2. \A u, v \in inbox'[m] : u.path = v.path /\ u.slug = v.slug => u = v
    BY <1>1 DEF ViewsInv, ViewInv
  <2>3. ASSUME NEW path \in Paths, NEW s \in Slugs, for(pending'[m], path, s) = {}
        PROVE  /\ \A u \in for(inbox'[m], path, s) : u.value = cache'[m][path][s]
               /\ for(inbox'[m], path, s) = {} => at(m, path, s)' = cache'[m][path][s]
    <3>1. for(pending[m], path, s) = {}
      BY <1>1 DEF for
    <3>2. /\ \A u \in for(inbox[m], path, s) : u.value = cache[m][path][s]
          /\ for(inbox[m], path, s) = {} => at(m, path, s) = cache[m][path][s]
      BY <3>1 DEF ViewsInv, ViewInv
    <3> QED BY <1>1, <1>3, <2>3, <3>2 DEF at
  <2> QED BY <2>1, <2>2, <2>3 DEF ViewInv
<1> QED BY <1>1, <1>2, <1>4, KeepView DEF ViewsInv

\* The batch that waited is the one to handle.
LEMMA ReceiveView ==
    ASSUME StateInv, ViewsInv, NEW m \in Machines, Receive(m)
    PROVE  ViewsInv'
<1>1. /\ inbox' = [inbox EXCEPT ![m] = pending[m]] /\ pending' = [pending EXCEPT ![m] = {}]
      /\ UNCHANGED <<cache, streams, streamTranscoders>> /\ inbox[m] = {}
  BY DEF Receive, selecting
<1>2. /\ inbox'[m] = pending[m] /\ pending'[m] = {}
      /\ \A n \in Machines \ {m} : inbox'[n] = inbox[n] /\ pending'[n] = pending[n]
  BY <1>1 DEF StateInv, WatchTypes
<1>3. \A u \in pending[m] : u.value = cache[m][u.path][u.slug] /\ u \in Updates
  BY DEF ViewsInv, ViewInv, StateInv, WatchTypes
<1>4. \A u, v \in pending[m] : u.path = v.path /\ u.slug = v.slug => u = v
  BY <1>3 DEF Updates, StreamUpdates, ClaimUpdates
<1>5. ASSUME NEW path \in Paths, NEW s \in Slugs
      PROVE  /\ \A u \in for(pending[m], path, s) : u.value = cache[m][path][s]
             /\ for(pending[m], path, s) = {} => at(m, path, s) = cache[m][path][s]
  <2>1. for(inbox[m], path, s) = {}
    BY <1>1 DEF for
  <2> QED BY <1>3, <2>1 DEF ViewsInv, ViewInv, for
<1>6. ViewInv(m)'
  <2>1. \A path, s : at(m, path, s)' = at(m, path, s)
    BY <1>1 DEF at
  <2> QED BY <1>1, <1>2, <1>4, <1>5, <2>1 DEF ViewInv
<1> QED BY <1>1, <1>2, <1>6, KeepView DEF ViewsInv

\* An update is handled.
LEMMA HandleView ==
    ASSUME StateInv, ViewsInv, NEW m \in Machines, NEW u \in inbox[m],
           HandleStreamUpdate(m, u) \/ HandleStreamTranscoder(m, u)
    PROVE  ViewsInv'
<1>1. u \in Updates
  BY DEF StateInv, WatchTypes
<1>2. u.slug \in Slugs /\ u.path \in Paths
  BY <1>1, UpdateTypes DEF Paths
<1>3. /\ inbox' = [inbox EXCEPT ![m] = @ \ {u}] /\ UNCHANGED <<cache, pending>>
  BY DEF HandleStreamUpdate, HandleStreamTranscoder, handling, watchVars
<1>4. /\ inbox'[m] = inbox[m] \ {u}
      /\ \A n \in Machines \ {m} :
            /\ inbox'[n] = inbox[n] /\ streams'[n] = streams[n]
            /\ streamTranscoders'[n] = streamTranscoders[n]
  BY <1>2, <1>3 DEF StateInv, WatchTypes, HandleStreamUpdate, HandleStreamTranscoder
<1>5. /\ at(m, u.path, u.slug)' = u.value
      /\ \A path \in Paths, s \in Slugs :
            path # u.path \/ s # u.slug => at(m, path, s)' = at(m, path, s)
  <2>1. CASE HandleStreamUpdate(m, u)
    <3>1. u.path = "stream" /\ UNCHANGED streamTranscoders
      BY <2>1 DEF HandleStreamUpdate
    <3>2. /\ streams'[m][u.slug] = u.value
          /\ \A s \in Slugs \ {u.slug} : streams'[m][s] = streams[m][s]
      BY <1>2, <2>1 DEF HandleStreamUpdate, StateInv, WatchTypes
    <3> QED BY <3>1, <3>2 DEF at
  <2>2. CASE HandleStreamTranscoder(m, u)
    <3>1. u.path = "transcoder" /\ UNCHANGED streams
      BY <2>2 DEF HandleStreamTranscoder
    <3>2. /\ streamTranscoders'[m][u.slug] = u.value
          /\ \A s \in Slugs \ {u.slug} : streamTranscoders'[m][s] = streamTranscoders[m][s]
      BY <1>2, <2>2 DEF HandleStreamTranscoder, StateInv, WatchTypes
    <3> QED BY <3>1, <3>2 DEF at, Paths
  <2> QED BY <2>1, <2>2
<1>6. ASSUME NEW path \in Paths, NEW s \in Slugs, for(pending[m], path, s) = {}
      PROVE  /\ \A v \in for(inbox'[m], path, s) : v.value = cache[m][path][s]
             /\ for(inbox'[m], path, s) = {} => at(m, path, s)' = cache[m][path][s]
  <2>1. /\ \A v \in for(inbox[m], path, s) : v.value = cache[m][path][s]
        /\ for(inbox[m], path, s) = {} => at(m, path, s) = cache[m][path][s]
    BY <1>6 DEF ViewsInv, ViewInv
  <2>2. CASE path = u.path /\ s = u.slug
    <3>1. u \in for(inbox[m], path, s)
      BY <2>2 DEF for
    <3> QED BY <1>4, <1>5, <2>1, <2>2, <3>1 DEF for
  <2>3. CASE path # u.path \/ s # u.slug
    <3>1. for(inbox'[m], path, s) = for(inbox[m], path, s)
      BY <1>4, <2>3 DEF for
    <3> QED BY <1>5, <2>1, <2>3, <3>1
  <2> QED BY <2>2, <2>3
<1>7. ViewInv(m)'
  <2>1. \A v \in pending[m] : v.value = cache[m][v.path][v.slug]
    BY DEF ViewsInv, ViewInv
  <2>2. \A v, w \in inbox'[m] : v.path = w.path /\ v.slug = w.slug => v = w
    BY <1>4 DEF ViewsInv, ViewInv
  <2> QED BY <1>3, <1>6, <2>1, <2>2 DEF ViewInv
<1> QED BY <1>3, <1>4, <1>7, KeepView DEF ViewsInv

\* A daemon that starts knows nothing, and nothing was sent to it.
LEMMA ProcessView ==
    ASSUME StateInv, ViewsInv, NEW m \in Machines, newProcess(m)
    PROVE  ViewsInv'
<1>1. /\ cache'[m] = nothing /\ pending'[m] = {} /\ inbox'[m] = {}
      /\ streams'[m] = nothing.stream /\ streamTranscoders'[m] = nothing.transcoder
      /\ \A n \in Machines \ {m} :
            /\ cache'[n] = cache[n] /\ pending'[n] = pending[n] /\ inbox'[n] = inbox[n]
            /\ streams'[n] = streams[n] /\ streamTranscoders'[n] = streamTranscoders[n]
  BY DEF newProcess, StateInv, WatchTypes
<1>2. ViewInv(m)'
  <2>1. \A path \in Paths, s \in Slugs : at(m, path, s)' = nothing[path][s]
    BY <1>1 DEF at, nothing, Paths
  <2> QED BY <1>1, <2>1 DEF ViewInv, for
<1> QED BY <1>1, <1>2, KeepView DEF ViewsInv

\* Every step keeps the views.
LEMMA ViewNext ==
    ASSUME StateInv, ViewsInv, [Next]_vars
    PROVE  ViewsInv'
<1>1. CASE UNCHANGED <<cache, pending, inbox, streams, streamTranscoders>>
  BY <1>1, KeepView DEF ViewsInv
<1>2. ASSUME NEW m \in Machines, Run(m) PROVE ViewsInv'
  BY <1>1, <1>2, HandleView DEF Run, ClaimUnclaimed, PutClaim, RestartService, watchVars
<1>3. ASSUME NEW m \in Machines, NEW s \in Slugs, Service(m, s)
      PROVE  UNCHANGED <<watchVars, runVars>>
  BY <1>3 DEF Service, ServiceStart, StopUnit, Unclaim, UnclaimFails, cleanup
<1>4. ASSUME NEW m \in Machines, NEW id, SessionEnds(m, id)
      PROVE  UNCHANGED <<watchVars, runVars>>
  BY <1>4 DEF SessionEnds
<1>5. ASSUME NEW m \in Machines, Tick(m) \/ HandleTranscoder(m) \/ Signal(m) \/ RunReturns(m)
      PROVE  UNCHANGED <<cache, pending, inbox, streams, streamTranscoders>>
  BY <1>5 DEF HandleTranscoder, Signal, RunReturns, Tick, watchVars, runVars
<1>6. ASSUME NEW m \in Machines, NEW s \in Slugs, SyncUnitState(m, s) \/ UnitFails(m, s)
      PROVE  UNCHANGED <<watchVars, runVars>>
  BY <1>6 DEF SyncUnitState, UnitFails
<1>7. ASSUME \/ \E s \in Slugs, value \in Sources \cup {NoStream} : StreamChanges(s, value)
             \/ Consul \/ UNCHANGED vars
      PROVE  UNCHANGED <<cache, pending, inbox, streams, streamTranscoders>>
  BY <1>7 DEF StreamChanges, Consul, vars, watchVars, runVars
<1>8. UNCHANGED <<watchVars, runVars>> => UNCHANGED <<cache, pending, inbox, streams, streamTranscoders>>
  BY DEF watchVars, runVars
<1>9. ASSUME NEW m \in Machines, Restart(m) \/ Exit(m) PROVE ViewsInv'
  BY <1>9, ProcessView DEF Restart, Exit
<1> QED BY <1>1, <1>2, <1>3, <1>4, <1>5, <1>6, <1>7, <1>8, <1>9, WatchView, ReceiveView DEF Next

\* The differences that the watch handler computes lose nothing: whatever is
\* registered, claimed and deleted while a machine handles a batch, with the
\* updates on their way it ends up with what Consul had.
THEOREM ViewIsComplete == Spec => []ViewFollows
<1>1. Init => StateInv /\ ViewsInv
  <2> SUFFICES ASSUME Init PROVE StateInv /\ ViewsInv
    OBVIOUS
  <2>1. ASSUME NEW m \in Machines PROVE ViewInv(m)
    <3>1. /\ cache[m] = nothing /\ pending[m] = {} /\ inbox[m] = {}
          /\ \A s \in Slugs : streams[m][s] = NoStream /\ streamTranscoders[m][s] = NoClient
      BY DEF Init, perMachine, perSlug
    <3>2. \A path \in Paths, s \in Slugs : at(m, path, s) = nothing[path][s]
      BY <3>1 DEF at, nothing, Paths
    <3> QED BY <3>1, <3>2 DEF ViewInv, for
  <2> QED BY <2>1, StateInit DEF ViewsInv
<1>2. StateInv /\ ViewsInv /\ [Next]_vars => (StateInv /\ ViewsInv)'
  BY StateNext, ViewNext
<1>3. StateInv /\ ViewsInv => ViewFollows
  <2> SUFFICES ASSUME StateInv, ViewsInv, NEW m \in Machines, NEW s \in Slugs
               PROVE  /\ after(m, "stream", s, streams[m][s]) = cache[m].stream[s]
                      /\ after(m, "transcoder", s, streamTranscoders[m][s]) = cache[m].transcoder[s]
    BY DEF ViewFollows
  <2>1. ASSUME NEW path \in Paths PROVE after(m, path, s, at(m, path, s)) = cache[m][path][s]
    <3> DEFINE P == for(pending[m], path, s)
               I == for(inbox[m], path, s)
               u == CHOOSE x \in P : TRUE
               v == CHOOSE x \in I : TRUE
    <3>1. after(m, path, s, at(m, path, s))
            = IF P # {} THEN u.value ELSE IF I # {} THEN v.value ELSE at(m, path, s)
      BY DEF after, for
    <3>2. \A x \in P : x.value = cache[m][path][s]
      BY DEF for, ViewsInv, ViewInv
    <3>3. P = {} => (\A x \in I : x.value = cache[m][path][s])
                    /\ (I = {} => at(m, path, s) = cache[m][path][s])
      BY DEF ViewsInv, ViewInv
    <3>4. (P # {} => u \in P) /\ (I # {} => v \in I)
      OBVIOUS
    <3> HIDE DEF P, I, u, v
    <3> QED BY <3>1, <3>2, <3>3, <3>4
  <2> QED BY <2>1 DEF at, Paths, Entries, StateInv, WatchTypes
<1> QED BY <1>1, <1>2, <1>3, PTL DEF Spec

(***************************************************************************)
(* Claims and units.  A service transcodes while its machine has the       *)
(* claim, has stopped its unit when it is not there to transcode, and      *)
(* gives the claim back before it stops.                                   *)
(***************************************************************************)
UnitInv ==
    \A m \in Machines, s \in Slugs :
        /\ service[m][s] \in {"start", "keepalive"} => owner(s) = m \/ s \in lost[m]
        /\ service[m][s] \notin {"start", "keepalive"} /\ unit[m][s] # Off => s \in orphans[m]

ClaimsInv == UnitInv /\ ClaimIsServed

\* Nothing that the invariant is about changes.
LEMMA KeepClaims ==
    ASSUME ClaimsInv, UNCHANGED <<kv, service, unit, history>>
    PROVE  ClaimsInv'
BY DEF ClaimsInv, UnitInv, ClaimIsServed, owner, history

\* PutWithSession: a machine that has the claim begins a service or has one, and
\* a claim that nothing will delete is known as such.
LEMMA PutClaims ==
    ASSUME StateInv, ClaimsInv, NEW m \in Machines, NEW s \in Slugs, PutClaim(m, s)
    PROVE  ClaimsInv'
<1> USE DEF ClaimsInv
<1>0. unit' = unit
  BY DEF PutClaim
<1>1. CASE UNCHANGED <<consulVars, service, history>>
  BY <1>0, <1>1, KeepClaims DEF consulVars, store
<1>2. CASE /\ put(m, s)
           /\ startService(m, s) \/ UNCHANGED <<service, orphans>>
           /\ lost' = [lost EXCEPT ![m] = @ \ {s}]
           /\ \A n \in Machines, t \in Slugs : n # m \/ t # s => (t \in leaked[n] => t \in leaked'[n])
           /\ service'[m][s] \in {"none", "stopped"} => s \in leaked'[m]
  <2>1. /\ owner(s)' = m /\ owner(s) \in {m, NoClient} /\ m # NoClient
        /\ \A t \in Slugs \ {s} : owner(t)' = owner(t)
    BY <1>2, Owners, NamesAssumption DEF StateInv, Machines, Slugs
  <2>2. /\ \A n \in Machines, t \in Slugs : n # m \/ t # s => service'[n][t] = service[n][t]
        /\ service'[m][s] = "start" \/ (service'[m][s] = service[m][s] /\ orphans' = orphans)
        /\ \A n \in Machines, t \in Slugs : n # m \/ t # s => (t \in orphans[n] => t \in orphans'[n])
    <3>1. CASE UNCHANGED <<service, orphans>>
      BY <3>1
    <3>2. CASE startService(m, s)
      <4>1. /\ service' = [service EXCEPT ![m][s] = "start"]
            /\ orphans' = [orphans EXCEPT ![m] = @ \ {s}]
        BY <3>2 DEF startService
      <4>2. /\ service'[m][s] = "start"
            /\ \A n \in Machines, t \in Slugs : n # m \/ t # s => service'[n][t] = service[n][t]
        BY <4>1 DEF StateInv, ServiceTypes
      <4>3. \A n \in Machines, t \in Slugs : n # m \/ t # s => (t \in orphans[n] => t \in orphans'[n])
        BY <4>1 DEF StateInv, HistoryTypes
      <4> QED BY <4>2, <4>3
    <3> QED BY <1>2, <3>1, <3>2
  <2>3. \A n \in Machines, t \in Slugs : n # m \/ t # s => (t \in lost[n] => t \in lost'[n])
    BY <1>2 DEF StateInv, HistoryTypes
  <2>4. UnitInv'
    <3> SUFFICES ASSUME NEW n \in Machines, NEW t \in Slugs
                 PROVE  /\ service'[n][t] \in {"start", "keepalive"} => owner(t)' = n \/ t \in lost'[n]
                        /\ service'[n][t] \notin {"start", "keepalive"} /\ unit'[n][t] # Off
                              => t \in orphans'[n]
      BY DEF UnitInv
    <3>1. /\ service[n][t] \in {"start", "keepalive"} => owner(t) = n \/ t \in lost[n]
          /\ service[n][t] \notin {"start", "keepalive"} /\ unit[n][t] # Off => t \in orphans[n]
      BY DEF UnitInv
    <3>2. CASE n = m /\ t = s
      BY <1>0, <2>1, <2>2, <3>1, <3>2
    <3>3. CASE t # s
      BY <1>0, <2>1, <2>2, <2>3, <3>1, <3>3
    <3>4. CASE n # m /\ t = s
      <4>1. n # NoClient
        BY NamesAssumption
      <4> QED BY <1>0, <2>1, <2>2, <2>3, <3>1, <3>4, <4>1
    <3> QED BY <3>2, <3>3, <3>4
  <2>5. ClaimIsServed'
    <3> SUFFICES ASSUME NEW t \in Slugs, owner(t)' # NoClient
                 PROVE  service'[owner(t)'][t] \notin {"none", "stopped"} \/ t \in leaked'[owner(t)']
      BY DEF ClaimIsServed
    <3>1. CASE t = s
      BY <1>2, <2>1, <3>1
    <3>2. CASE t # s
      <4>1. owner(t)' = owner(t) /\ owner(t) \in Machines
        BY <2>1, <3>2, Owners DEF StateInv, Machines, Slugs
      <4>2. service[owner(t)][t] \notin {"none", "stopped"} \/ t \in leaked[owner(t)]
        BY <4>1 DEF ClaimIsServed
      <4> QED BY <1>2, <2>2, <3>2, <4>1, <4>2
    <3> QED BY <3>1, <3>2
  <2> QED BY <2>4, <2>5
<1> HIDE DEF ClaimsInv
<1>3. CASE /\ PutWithSession(m, s)
           /\ startService(m, s) \/ findService(m, s)
           /\ lost' = [lost EXCEPT ![m] = @ \ {s}]
           /\ leaked' = [leaked EXCEPT ![m] =
                            IF service[m][s] = "stopped" THEN @ \cup {s} ELSE @ \ {s}]
  <2>1. \A n \in Machines, t \in Slugs : n # m \/ t # s => (t \in leaked[n] => t \in leaked'[n])
    BY <1>3 DEF StateInv, HistoryTypes
  <2>2. service[m][s] = "stopped" => s \in leaked'[m]
    BY <1>3 DEF StateInv, HistoryTypes
  <2>3. CASE startService(m, s)
    <3>1. service'[m][s] = "start"
      BY <2>3 DEF startService, StateInv, ServiceTypes
    <3> QED BY <1>2, <1>3, <2>1, <2>3, <3>1 DEF PutWithSession
  <2>4. CASE findService(m, s)
    <3>1. UNCHANGED <<service, orphans>> /\ service[m][s] # "none"
      BY <2>4 DEF findService
    <3> QED BY <1>2, <1>3, <2>1, <2>2, <3>1 DEF PutWithSession
  <2> QED BY <1>3, <2>3, <2>4
<1>4. CASE /\ PutAnswerLost(m, s)
           /\ lost' = [lost EXCEPT ![m] = @ \ {s}]
           /\ leaked' = [leaked EXCEPT ![m] = IF unserved(m, s) THEN @ \cup {s} ELSE @]
           /\ UNCHANGED <<service, orphans>>
  <2>1. /\ \A n \in Machines, t \in Slugs : n # m \/ t # s => (t \in leaked[n] => t \in leaked'[n])
        /\ service'[m][s] \in {"none", "stopped"} => s \in leaked'[m]
    BY <1>4 DEF StateInv, HistoryTypes, unserved
  <2> QED BY <1>2, <1>4, <2>1 DEF PutAnswerLost
<1>5. CASE PutFails(m, s) /\ UNCHANGED <<service, history>>
  BY <1>1, <1>5 DEF PutFails
<1> QED BY <1>3, <1>4, <1>5 DEF PutClaim

\* Restart: the unit of a service that has stopped meanwhile is one nobody stops.
LEMMA RestartClaims ==
    ASSUME StateInv, ClaimsInv, NEW m \in Machines, NEW s \in Slugs, RestartService(m, s)
    PROVE  ClaimsInv'
<1> USE DEF ClaimsInv
<1>1. UNCHANGED <<consulVars, service, lost, leaked>> /\ service[m][s] # "unclaim"
  BY DEF RestartService
<1>2. \A t \in Slugs : owner(t)' = owner(t)
  BY <1>1 DEF owner, consulVars, store
<1>3. \A n \in Machines, t \in Slugs : n # m \/ t # s => unit'[n][t] = unit[n][t]
  <2>1. claim[m].value \in Sources
    BY ClaimFields DEF RestartService, StateInv
  <2> QED BY <2>1, UnitStarts DEF RestartService, StateInv
<1>4. /\ \A n \in Machines : orphans[n] \subseteq orphans'[n]
      /\ unit' = unit \/ (unserved(m, s) => s \in orphans'[m])
  BY DEF RestartService, StateInv, HistoryTypes
<1>5. service[m][s] \in {"start", "keepalive"} \/ unserved(m, s)
  BY <1>1 DEF unserved, StateInv, ServiceTypes, Stages
<1>6. UnitInv'
  BY <1>1, <1>2, <1>3, <1>4, <1>5 DEF UnitInv
<1>7. ClaimIsServed'
  BY <1>1, <1>2 DEF ClaimIsServed
<1> QED BY <1>6, <1>7

\* A service starts its unit, stops it, and gives its claim back.
LEMMA ServiceClaims ==
    ASSUME StateInv, ClaimsInv, NEW m \in Machines, NEW s \in Slugs, Service(m, s)
    PROVE  ClaimsInv'
<1> USE DEF ClaimsInv
<1>0. \A t \in Slugs : owner(t) \in Machines \cup {NoClient}
  BY Owners DEF StateInv, Machines, Slugs
<1>1. CASE ServiceStart(m, s)
  <2>1. /\ UNCHANGED <<consulVars, history>> /\ service[m][s] = "start" /\ service'[m][s] = "keepalive"
        /\ \A n \in Machines, t \in Slugs : n # m \/ t # s => service'[n][t] = service[n][t]
    BY <1>1 DEF ServiceStart, StateInv, ServiceTypes
  <2>2. \A n \in Machines, t \in Slugs : n # m \/ t # s => unit'[n][t] = unit[n][t]
    <3>1. conf[m][s] \in Sources
      BY <2>1 DEF StateInv, ConfInv
    <3> QED BY <1>1, <3>1, UnitStarts DEF ServiceStart, StateInv
  <2>3. kv' = kv /\ lost' = lost /\ orphans' = orphans /\ leaked' = leaked
    BY <2>1 DEF consulVars, store, history
  <2>4. \A t \in Slugs : owner(t)' = owner(t)
    BY <2>3 DEF owner
  <2>5. UnitInv'
    BY <2>1, <2>2, <2>3, <2>4 DEF UnitInv
  <2>6. ClaimIsServed'
    BY <1>0, <2>1, <2>3, <2>4 DEF ClaimIsServed
  <2> QED BY <2>5, <2>6
<1>2. CASE StopUnit(m, s)
  <2>1. /\ UNCHANGED <<consulVars, lost, leaked>> /\ service[m][s] = "keepalive"
        /\ service'[m][s] = "unclaim"
        /\ \A n \in Machines, t \in Slugs : n # m \/ t # s => service'[n][t] = service[n][t]
    BY <1>2 DEF StopUnit, StateInv, ServiceTypes
  <2>2. /\ unit'[m][s] # Off => s \in orphans'[m]
        /\ \A n \in Machines, t \in Slugs : n # m \/ t # s =>
              unit'[n][t] = unit[n][t] /\ (t \in orphans[n] => t \in orphans'[n])
    <3>1. CASE unit' = [unit EXCEPT ![m][s] = Off] /\ orphans' = orphans
      <4>1. unit \in [Machines -> [Slugs -> Sources \cup {Off, Failed}]]
        BY DEF StateInv, ServiceTypes
      <4>2. unit'[m][s] = Off
        BY <3>1, <4>1
      <4>3. \A n \in Machines, t \in Slugs : n # m \/ t # s => unit'[n][t] = unit[n][t]
        BY <3>1, <4>1
      <4> QED BY <3>1, <4>2, <4>3
    <3>2. CASE /\ orphans' = [orphans EXCEPT ![m] = IF unit[m][s] # Off THEN @ \cup {s} ELSE @]
               /\ unit' = unit
      BY <3>2 DEF StateInv, HistoryTypes
    <3> QED BY <1>2, <3>1, <3>2 DEF StopUnit
  <2>3. kv' = kv /\ lost' = lost /\ leaked' = leaked
    BY <2>1 DEF consulVars, store
  <2>4. \A t \in Slugs : owner(t)' = owner(t)
    BY <2>3 DEF owner
  <2>5. UnitInv'
    BY <2>1, <2>2, <2>3, <2>4 DEF UnitInv
  <2>6. ClaimIsServed'
    BY <1>0, <2>1, <2>3, <2>4 DEF ClaimIsServed
  <2> QED BY <2>5, <2>6
<1>3. CASE cleanup(m, s)
  <2>1. /\ UNCHANGED <<unit, orphans>> /\ service[m][s] = "unclaim" /\ service'[m][s] = "stopped"
        /\ \A n \in Machines, t \in Slugs : n # m \/ t # s => service'[n][t] = service[n][t]
    BY <1>3 DEF cleanup, StateInv, ServiceTypes
  <2>2. CASE Unclaim(m, s)
    <3>1. /\ owner(s)' = NoClient /\ \A t \in Slugs \ {s} : owner(t)' = owner(t)
      BY <2>2, Owners DEF Unclaim, Delete, DeleteAnswerLost, StateInv, Machines, Slugs
    <3>2. \A n \in Machines :
            /\ lost[n] \subseteq lost'[n]
            /\ n # m /\ owner(s) = n /\ service[n][s] # "none" => s \in lost'[n]
      BY <2>2 DEF Unclaim
    <3>3. \A n \in Machines, t \in Slugs \ {s} : t \in leaked[n] => t \in leaked'[n]
      BY <2>2 DEF Unclaim
    <3>4. UnitInv'
      BY <2>1, <3>1, <3>2 DEF UnitInv
    <3>5. ClaimIsServed'
      <4> SUFFICES ASSUME NEW t \in Slugs, owner(t)' # NoClient
                   PROVE  service'[owner(t)'][t] \notin {"none", "stopped"} \/ t \in leaked'[owner(t)']
        BY DEF ClaimIsServed
      <4>1. t # s /\ owner(t)' = owner(t) /\ owner(t) \in Machines
        BY <1>0, <3>1
      <4> QED BY <2>1, <3>3, <4>1 DEF ClaimIsServed
    <3> QED BY <3>4, <3>5
  <2>3. CASE UnclaimFails(m, s)
    <3>1. UNCHANGED <<consulVars, lost>>
      BY <2>3 DEF UnclaimFails, DeleteFails
    <3>2. \A t \in Slugs : owner(t)' = owner(t)
      BY <3>1 DEF owner, consulVars, store
    <3>3. /\ \A n \in Machines : leaked[n] \subseteq leaked'[n]
          /\ owner(s) = m => s \in leaked'[m]
      BY <2>3 DEF UnclaimFails, StateInv, HistoryTypes
    <3>4. UnitInv'
      BY <2>1, <3>1, <3>2 DEF UnitInv
    <3>5. ClaimIsServed'
      <4> SUFFICES ASSUME NEW t \in Slugs, owner(t)' # NoClient
                   PROVE  service'[owner(t)'][t] \notin {"none", "stopped"} \/ t \in leaked'[owner(t)']
        BY DEF ClaimIsServed
      <4>1. owner(t)' = owner(t) /\ owner(t) \in Machines
        BY <1>0, <3>2
      <4> QED BY <2>1, <3>3, <4>1 DEF ClaimIsServed
    <3> QED BY <3>4, <3>5
  <2>4. Unclaim(m, s) \/ UnclaimFails(m, s)
    <3>1. ~ServiceStart(m, s) /\ ~StopUnit(m, s)
      BY <2>1 DEF ServiceStart, StopUnit
    <3> QED BY <3>1 DEF Service
  <2> QED BY <2>2, <2>3, <2>4
<1> QED BY <1>1, <1>2, <1>3 DEF Service, Unclaim, UnclaimFails

\* A unit fails, and is restarted by its service.
LEMMA UnitClaims ==
    ASSUME StateInv, ClaimsInv, NEW m \in Machines, NEW s \in Slugs,
           SyncUnitState(m, s) \/ UnitFails(m, s)
    PROVE  ClaimsInv'
<1> USE DEF ClaimsInv
<1>1. UNCHANGED <<consulVars, service, history>>
  BY DEF SyncUnitState, UnitFails
<1>2. \A n \in Machines, t \in Slugs :
          /\ n # m \/ t # s => unit'[n][t] = unit[n][t]
          /\ n = m /\ t = s => unit[n][t] # Off \/ service[n][t] = "keepalive"
  <2>1. Off \notin Sources
    BY NamesAssumption DEF Off
  <2>2. unit \in [Machines -> [Slugs -> Sources \cup {Off, Failed}]]
    BY DEF StateInv, ServiceTypes
  <2>3. \E x : unit' = [unit EXCEPT ![m][s] = x]
    BY DEF SyncUnitState, UnitFails
  <2>4. unit[m][s] # Off \/ service[m][s] = "keepalive"
    BY <2>1 DEF SyncUnitState, UnitFails
  <2> QED BY <2>2, <2>3, <2>4
<1>3. kv' = kv /\ lost' = lost /\ orphans' = orphans /\ leaked' = leaked /\ service' = service
  BY <1>1 DEF consulVars, store, history
<1>4. \A t \in Slugs : owner(t)' = owner(t)
  BY <1>3 DEF owner
<1>5. UnitInv'
  BY <1>2, <1>3, <1>4 DEF UnitInv
<1>6. ClaimIsServed'
  BY <1>3, <1>4 DEF ClaimIsServed
<1> QED BY <1>5, <1>6

\* The tick forgets services that have stopped, and nothing of theirs is left.
LEMMA TickClaims ==
    ASSUME StateInv, ClaimsInv, NEW m \in Machines, Tick(m)
    PROVE  ClaimsInv'
<1> USE DEF ClaimsInv
<1>1. UNCHANGED <<consulVars, unit, leaked, orphans>>
  BY DEF Tick
<1>2. \A t \in Slugs : owner(t)' = owner(t) /\ owner(t) \in Machines \cup {NoClient}
  BY <1>1, Owners DEF owner, consulVars, store, StateInv, Machines, Slugs
<1>3. \A n \in Machines, t \in Slugs :
          \/ service'[n][t] = service[n][t] /\ (t \in lost[n] => t \in lost'[n] \/ service[n][t] = "stopped")
          \/ service'[n][t] = "none" /\ service[n][t] = "stopped"
  <2>1. \A n \in Machines \ {m} : service'[n] = service[n] /\ lost'[n] = lost[n]
    BY DEF Tick, StateInv, ServiceTypes, HistoryTypes
  <2>2. /\ \A t \in Slugs : service'[m][t] = IF t \in hasStopped(m) THEN "none" ELSE service[m][t]
        /\ lost'[m] = lost[m] \ hasStopped(m)
    BY DEF Tick, StateInv, ServiceTypes, HistoryTypes
  <2> QED BY <2>1, <2>2 DEF hasStopped
<1>4. UnitInv'
  BY <1>1, <1>2, <1>3 DEF UnitInv
<1>5. ClaimIsServed'
  <2> SUFFICES ASSUME NEW t \in Slugs, owner(t)' # NoClient
               PROVE  service'[owner(t)'][t] \notin {"none", "stopped"} \/ t \in leaked'[owner(t)']
    BY DEF ClaimIsServed
  <2>1. owner(t)' = owner(t) /\ owner(t) \in Machines
    BY <1>2
  <2> QED BY <1>1, <1>3, <2>1 DEF ClaimIsServed
<1> QED BY <1>4, <1>5

\* The claims of a session go with it.
LEMMA SessionClaims ==
    ASSUME StateInv, ClaimsInv, NEW m \in Machines, NEW id \in Nat, SessionEnds(m, id)
    PROVE  ClaimsInv'
<1> USE DEF ClaimsInv
<1> DEFINE sess == [client |-> m, id |-> id]
           gone == heldBy(sess)
<1>0. sess.client = m /\ sess # NoSession
  BY NoSessionAssumption DEF Sessions, Machines
<1>1. /\ kv' = keysWithout(sess)
      /\ lost' = [lost EXCEPT ![m] = @ \cup {s \in gone : service[m][s] # "none"}]
      /\ leaked' = [leaked EXCEPT ![m] = @ \ gone]
      /\ UNCHANGED <<service, unit, orphans>>
  BY DEF SessionEnds, EndSession, serviceVars
<1> HIDE DEF sess
<1>2. \A t \in Slugs :
          /\ t \in gone => owner(t)' = NoClient /\ owner(t) = m
          /\ t \notin gone => owner(t)' = owner(t)
          /\ owner(t) \in Machines \cup {NoClient}
  <2>1. \A t \in Slugs : /\ t \in gone => kv'[t] = NoSession /\ kv[t] = sess
                         /\ t \notin gone => kv'[t] = kv[t]
    BY <1>1 DEF keysWithout, heldBy, Slugs
  <2>2. \A t \in Slugs : owner(t) \in Machines \cup {NoClient}
    BY Owners DEF StateInv, Machines, Slugs
  <2> QED BY <1>0, <2>1, <2>2 DEF owner
<1> HIDE DEF gone
<1>3. /\ \A n \in Machines : lost[n] \subseteq lost'[n]
      /\ \A t \in gone : service[m][t] # "none" => t \in lost'[m]
      /\ \A n \in Machines, t \in Slugs : n # m \/ t \notin gone => (t \in leaked[n] => t \in leaked'[n])
  BY <1>1 DEF StateInv, HistoryTypes
<1>4. UnitInv'
  <2> SUFFICES ASSUME NEW n \in Machines, NEW t \in Slugs
               PROVE  /\ service'[n][t] \in {"start", "keepalive"} => owner(t)' = n \/ t \in lost'[n]
                      /\ service'[n][t] \notin {"start", "keepalive"} /\ unit'[n][t] # Off
                            => t \in orphans'[n]
    BY DEF UnitInv
  <2>1. CASE t \in gone
    BY <1>1, <1>2, <1>3, <2>1 DEF UnitInv
  <2>2. CASE t \notin gone
    BY <1>1, <1>2, <1>3, <2>2 DEF UnitInv
  <2> QED BY <2>1, <2>2
<1>5. ClaimIsServed'
  <2> SUFFICES ASSUME NEW t \in Slugs, owner(t)' # NoClient
               PROVE  service'[owner(t)'][t] \notin {"none", "stopped"} \/ t \in leaked'[owner(t)']
    BY DEF ClaimIsServed
  <2>1. t \notin gone /\ owner(t)' = owner(t) /\ owner(t) \in Machines
    BY <1>2
  <2> QED BY <1>1, <1>3, <2>1 DEF ClaimIsServed
<1> QED BY <1>4, <1>5

\* A daemon that starts has no service, and knows of none of its units and claims.
LEMMA ProcessClaims ==
    ASSUME StateInv, ClaimsInv, NEW m \in Machines, newProcess(m)
    PROVE  ClaimsInv'
<1> USE DEF ClaimsInv
<1>1. kv' = kv /\ unit' = unit
  BY DEF newProcess, newSession
<1>2. \A t \in Slugs : owner(t)' = owner(t) /\ owner(t) \in Machines \cup {NoClient}
  BY <1>1, Owners DEF owner, StateInv, Machines, Slugs
<1>3. /\ \A t \in Slugs : service'[m][t] = "none"
      /\ \A n \in Machines \ {m} : service'[n] = service[n]
  BY DEF newProcess, StateInv, ServiceTypes
<1>4. /\ orphans'[m] = {t \in Slugs : unit[m][t] # Off}
      /\ leaked'[m] = {t \in Slugs : owner(t) = m}
      /\ \A n \in Machines \ {m} :
            orphans'[n] = orphans[n] /\ leaked'[n] = leaked[n] /\ lost'[n] = lost[n]
  BY DEF newProcess, StateInv, HistoryTypes
<1>5. UnitInv'
  <2> SUFFICES ASSUME NEW n \in Machines, NEW t \in Slugs
               PROVE  /\ service'[n][t] \in {"start", "keepalive"} => owner(t)' = n \/ t \in lost'[n]
                      /\ service'[n][t] \notin {"start", "keepalive"} /\ unit'[n][t] # Off
                            => t \in orphans'[n]
    BY DEF UnitInv
  <2>1. CASE n = m
    BY <1>1, <1>3, <1>4, <2>1
  <2>2. CASE n # m
    BY <1>1, <1>2, <1>3, <1>4, <2>2 DEF UnitInv
  <2> QED BY <2>1, <2>2
<1>6. ClaimIsServed'
  <2> SUFFICES ASSUME NEW t \in Slugs, owner(t)' # NoClient
               PROVE  service'[owner(t)'][t] \notin {"none", "stopped"} \/ t \in leaked'[owner(t)']
    BY DEF ClaimIsServed
  <2>1. owner(t)' = owner(t) /\ owner(t) \in Machines
    BY <1>2
  <2> QED BY <1>3, <1>4, <2>1 DEF ClaimIsServed
<1> QED BY <1>5, <1>6

\* Every step keeps claims and units in line.
LEMMA ClaimsNext ==
    ASSUME StateInv, ClaimsInv, [Next]_vars
    PROVE  ClaimsInv'
<1>1. CASE UNCHANGED <<kv, service, unit, history>>
  BY <1>1, KeepClaims
<1>2. ASSUME NEW m \in Machines, Run(m) PROVE ClaimsInv'
  <2>1. CASE \/ \E u \in inbox[m] : HandleStreamUpdate(m, u) \/ HandleStreamTranscoder(m, u)
             \/ \E s \in Slugs : ClaimUnclaimed(m, s)
    <3>1. UNCHANGED <<consulVars, serviceVars, history>>
      BY <2>1 DEF HandleStreamUpdate, HandleStreamTranscoder, handling, ClaimUnclaimed
    <3> QED BY <1>1, <3>1 DEF consulVars, store, serviceVars
  <2> QED BY <1>2, <2>1, PutClaims, RestartClaims DEF Run
<1>3. CASE Consul
  <2>1. kv' = kv
    BY <1>3, ConsulStepType DEF Consul, StateInv
  <2> QED BY <1>1, <1>3, <2>1 DEF Consul, serviceVars
<1>4. ASSUME NEW m \in Machines, \/ WatchHandler(m) \/ Receive(m)
                                  \/ HandleTranscoder(m) \/ Signal(m) \/ RunReturns(m)
      PROVE  ClaimsInv'
  BY <1>1, <1>4 DEF WatchHandler, Receive, HandleTranscoder, Signal, RunReturns,
                    consulVars, store, serviceVars
<1>5. ASSUME NEW m \in Machines, NEW id \in 0..MaxSessions[m], SessionEnds(m, id)
      PROVE  ClaimsInv'
  BY <1>5, SessionClaims, SessionsAssumption DEF Machines
<1>6. ASSUME NEW m \in Machines, Restart(m) \/ Exit(m) PROVE ClaimsInv'
  BY <1>6, ProcessClaims DEF Restart, Exit
<1>7. CASE \/ \E s \in Slugs, value \in Sources \cup {NoStream} : StreamChanges(s, value)
           \/ UNCHANGED vars
  BY <1>1, <1>7 DEF StreamChanges, vars, consulVars, store, serviceVars
<1> QED BY <1>2, <1>3, <1>4, <1>5, <1>6, <1>7, ServiceClaims, UnitClaims, TickClaims DEF Next

\* Nothing is claimed or runs at first.
LEMMA ClaimsInit ==
    ASSUME Init
    PROVE  StateInv /\ ClaimsInv
<1>1. \A m \in Machines, s \in Slugs : service[m][s] = "none" /\ unit[m][s] = Off
  BY DEF Init, perSlug, perMachine
<1>2. \A s \in Slugs : owner(s) = NoClient
  BY DEF Init, ConsulInit, owner, Slugs
<1> QED BY <1>1, <1>2, StateInit DEF ClaimsInv, UnitInv, ClaimIsServed

\* A unit runs only while its machine has claimed the stream: two machines
\* transcode a stream only if one has lost its claim or left its unit behind.
THEOREM UnitsAreClaimed == Spec => []UnitIsClaimed
<1>1. StateInv /\ ClaimsInv /\ [Next]_vars => (StateInv /\ ClaimsInv)'
  BY StateNext, ClaimsNext
<1>2. StateInv /\ ClaimsInv => UnitIsClaimed
  BY DEF ClaimsInv, UnitInv, UnitIsClaimed
<1> QED BY <1>1, <1>2, ClaimsInit, PTL DEF Spec

\* The claims keep a stream to one transcoder: of two machines that run a unit
\* for it, one has lost its claim or has left its unit behind.
COROLLARY OneMachineTranscodes ==
    Spec => [](\A m, n \in Machines, s \in Slugs :
                  m # n /\ unit[m][s] # Off /\ unit[n][s] # Off =>
                  s \in lost[m] \cup orphans[m] \cup lost[n] \cup orphans[n])
<1>1. UnitIsClaimed => \A m, n \in Machines, s \in Slugs :
                           m # n /\ unit[m][s] # Off /\ unit[n][s] # Off =>
                           s \in lost[m] \cup orphans[m] \cup lost[n] \cup orphans[n]
  BY DEF UnitIsClaimed
<1> QED BY <1>1, UnitsAreClaimed, PTL

\* A claim is held by a machine that serves it, unless a call to Consul failed
\* or the daemon was started again.
THEOREM ClaimsAreServed == Spec => []ClaimIsServed
<1>1. StateInv /\ ClaimsInv /\ [Next]_vars => (StateInv /\ ClaimsInv)'
  BY StateNext, ClaimsNext
<1>2. ClaimsInv => ClaimIsServed
  BY DEF ClaimsInv
<1> QED BY <1>1, <1>2, ClaimsInit, PTL DEF Spec

\* Wait returns when every service it knows of has stopped: what such a service
\* leaves behind is what systemd or Consul failed to take, or what a claim that
\* was under way when it stopped put or restarted after it.
THEOREM ShutdownCleansUp == Spec => ShutdownIsClean
<1>1. StateInv /\ ClaimsInv /\ [Next]_vars => (StateInv /\ ClaimsInv)'
  BY StateNext, ClaimsNext
<1> DEFINE clean == \A m \in Machines : run[m] = "returned" /\ run'[m] = "running" =>
                       \A s \in Slugs \ late[m] :
                           /\ unit[m][s] # Off => s \in orphans[m]
                           /\ owner(s) = m => s \in leaked[m]
<1>2. StateInv /\ ClaimsInv /\ [Next]_vars => clean
  <2> SUFFICES ASSUME StateInv, ClaimsInv, [Next]_vars, NEW m \in Machines,
                      run[m] = "returned", run'[m] = "running",
                      NEW s \in Slugs \ late[m]
               PROVE  /\ unit[m][s] # Off => s \in orphans[m]
                      /\ owner(s) = m => s \in leaked[m]
    OBVIOUS
  <2>1. run \in [Machines -> {"running", "ending", "returned"}]
    BY DEF StateInv, RunType
  <2>2. PICK n \in Machines : Restart(n) \/ Exit(n) \/ Signal(n) \/ RunReturns(n)
    <3>1. run' # run
      OBVIOUS
    <3> QED BY <3>1 DEF Next, StreamChanges, HandleTranscoder, SyncUnitState, UnitFails, SessionEnds,
                        Consul, Tick, Service, Run, WatchHandler, Receive, vars
  <2>3. \E x : run' = [run EXCEPT ![n] = x]
    BY <2>2 DEF Restart, Exit, newProcess, Signal, RunReturns
  <2>4. n = m
    BY <2>1, <2>3
  <2>5. Wait(m)
    BY <2>1, <2>2, <2>4 DEF Restart, Exit, Signal, RunReturns
  <2>6. service[m][s] \in {"none", "stopped"}
    BY <2>5 DEF Wait, services
  <2>7. unit[m][s] # Off => s \in orphans[m]
    BY <2>6 DEF ClaimsInv, UnitInv
  <2>8. owner(s) = m => s \in leaked[m]
    BY <2>6, NamesAssumption DEF ClaimsInv, ClaimIsServed
  <2> QED BY <2>7, <2>8
<1>3. StateInv /\ ClaimsInv /\ [Next]_vars => [clean]_vars
  BY <1>2
<1>4. ShutdownIsClean <=> [][clean]_vars
  BY DEF ShutdownIsClean
<1> HIDE DEF clean
<1> QED BY <1>1, <1>3, <1>4, ClaimsInit, PTL DEF Spec
=============================================================================
