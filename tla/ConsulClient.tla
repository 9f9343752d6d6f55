---------------------------- MODULE ConsulClient ----------------------------
(***************************************************************************)
(* client/consul.go: the sessions of the daemons' Consul clients and the   *)
(* keys they hold.  Consul is external: a key put with PutWithSession is   *)
(* held by a session; when a session ends its keys are deleted (Behavior   *)
(* "delete") and cannot be acquired for a while (LockDelay).               *)
(*                                                                         *)
(* keepaliveSession renews the session of a client.  While the network is  *)
(* down it may give up although the session lives on in Consul, or Consul  *)
(* may end the session before the client knows.                            *)
(***************************************************************************)
EXTENDS Integers, FiniteSets

CONSTANTS
    Clients,      \* daemons, one Consul client each
    Keys,         \* keys held by sessions
    NoSession,    \* the session of a key that is not in the store
    MaxSessions   \* bound: the sessions a client creates after its first

ASSUME SessionsAssumption == MaxSessions \in [Clients -> Nat]

Sessions == [client: Clients, id: Nat]

ASSUME NoSessionAssumption == NoSession \notin Sessions

VARIABLES
    kv,          \* the session that holds each key
    delayed,     \* keys under lock delay
    alive,       \* sessions that exist in Consul
    sessionId,   \* cc.sessionId
    keepalive,   \* keepaliveSession: renewing, or about to call renewSession
    net          \* whether the clients reach Consul

store == <<kv, delayed, alive>>
clientVars == <<sessionId, keepalive>>
consulVars == <<store, clientVars, net>>

session(c) == [client |-> c, id |-> sessionId[c]]

ConsulInit ==
    /\ kv = [k \in Keys |-> NoSession]
    /\ delayed = {}
    /\ sessionId = [c \in Clients |-> 0]
    /\ alive = {[client |-> c, id |-> 0] : c \in Clients}
    /\ keepalive = [c \in Clients |-> "renewing"]
    /\ net = "up"

(***************************************************************************)
(* The key-value calls, as parts of their callers' steps.                  *)
(***************************************************************************)
\* KV().Acquire succeeds.
acquirable(c, k) ==
    /\ session(c) \in alive
    /\ \/ kv[k] = session(c)
       \/ kv[k] = NoSession /\ k \notin delayed

put(c, k) ==
    /\ acquirable(c, k)
    /\ kv' = [kv EXCEPT ![k] = session(c)]
    /\ UNCHANGED <<delayed, alive, clientVars, net>>

\* KV().Delete does not ask who holds the key.
delete(k) ==
    /\ kv' = [kv EXCEPT ![k] = NoSession]
    /\ UNCHANGED <<delayed, alive, clientVars, net>>

PutWithSession(c, k) == net = "up" /\ put(c, k)
Delete(k)            == net = "up" /\ delete(k)

\* An error: ErrAlreadyAquired, an ended session, or the request is lost.
PutFails(c, k) == (net = "down" \/ ~acquirable(c, k)) /\ UNCHANGED consulVars
DeleteFails    == net = "down" /\ UNCHANGED consulVars

\* An error too, the one second of the call being over before the answer.
PutAnswerLost(c, k) == net = "down" /\ put(c, k)
DeleteAnswerLost(k) == net = "down" /\ delete(k)

(***************************************************************************)
(* Sessions.                                                               *)
(***************************************************************************)
\* The keys held by a session.
heldBy(s) == {k \in Keys : kv[k] = s}

\* Behavior "delete": the keys go with their session.
keysWithout(s) == [k \in Keys |-> IF kv[k] = s THEN NoSession ELSE kv[k]]

\* Consul ends a session that is not renewed: one its client has left behind,
\* or a current one while the client cannot reach Consul.
EndSession(c, id) ==
    LET s == [client |-> c, id |-> id]
    IN  /\ s \in alive
        /\ s = session(c) => net = "down" /\ id < MaxSessions[c]
        /\ alive' = alive \ {s}
        /\ kv' = keysWithout(s)
        /\ delayed' = delayed \cup heldBy(s)
        /\ UNCHANGED <<clientVars, net>>

EndLockDelay(k) ==
    /\ k \in delayed
    /\ delayed' = delayed \ {k}
    /\ UNCHANGED <<kv, alive, clientVars, net>>

\* RenewPeriodic returns: the session is gone, or was not renewed for its TTL.
RenewPeriodicFails(c) ==
    /\ keepalive[c] = "renewing"
    /\ session(c) \notin alive \/ net = "down"
    /\ sessionId[c] < MaxSessions[c]
    /\ keepalive' = [keepalive EXCEPT ![c] = "failed"]
    /\ UNCHANGED <<store, sessionId, net>>

\* A new session, and the old one is forgotten.
newSession(c) ==
    /\ sessionId[c] < MaxSessions[c]
    /\ net = "up"
    /\ sessionId' = [sessionId EXCEPT ![c] = @ + 1]
    /\ alive' = alive \cup {[client |-> c, id |-> sessionId[c] + 1]}
    /\ keepalive' = [keepalive EXCEPT ![c] = "renewing"]
    /\ UNCHANGED <<kv, delayed, net>>

renewSession(c) ==
    /\ keepalive[c] = "failed"
    /\ newSession(c)

\* renewSession returns an error, which is ignored: the old id is renewed.
renewSessionFails(c) ==
    /\ keepalive[c] = "failed"
    /\ net = "down"
    /\ keepalive' = [keepalive EXCEPT ![c] = "renewing"]
    /\ UNCHANGED <<store, sessionId, net>>

NetworkChanges ==
    /\ net' = IF net = "up" THEN "down" ELSE "up"
    /\ UNCHANGED <<store, clientVars>>

\* What happens in the clients and in Consul without touching a key.
ConsulStep ==
    \/ \E k \in Keys : EndLockDelay(k)
    \/ \E c \in Clients :
          RenewPeriodicFails(c) \/ renewSession(c) \/ renewSessionFails(c)
    \/ NetworkChanges

ConsulTypeOK ==
    /\ kv \in [Keys -> Sessions \cup {NoSession}]
    /\ \A k \in Keys : kv[k] # NoSession => kv[k] \in alive
    /\ delayed \subseteq Keys
    /\ alive \subseteq Sessions
    /\ sessionId \in [Clients -> Nat]
    /\ keepalive \in [Clients -> {"renewing", "failed"}]
    /\ net \in {"up", "down"}
=============================================================================
