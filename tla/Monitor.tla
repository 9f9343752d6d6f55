------------------------------- MODULE Monitor ------------------------------
(***************************************************************************)
(* monitor/: a watcher follows the streams and the claims in Consul and    *)
(* hands whole maps to a server goroutine, which keeps the latest of each  *)
(* and writes them to its websocket clients; a REST handler stores stream  *)
(* settings, which auth/watcher.go follows to admit publishers.            *)
(*                                                                         *)
(* Paths of Consul entries are sequences of their parts.  The maps of the  *)
(* watchers, the server's state and what a client shows are functions on   *)
(* paths: NoValue for what is not in the map.                              *)
(***************************************************************************)
EXTENDS Integers, Sequences

CONSTANTS
    Slugs,
    Machines,    \* names of transcoders
    Values,      \* contents of entries
    Garbage,     \* contents json.Unmarshal fails on
    NoValue,
    Conns,       \* websocket connections
    NoMessage,   \* broadcast is not running
    MaxChanges,  \* bound: changes in Consul
    MaxUnread    \* bound: messages the buffers of a connection hold

ASSUME ValuesAssumption == Garbage \subseteq Values /\ NoValue \notin Values
ASSUME UnreadAssumption == MaxUnread \in Nat \ {0}

VARIABLES
    kv,          \* Consul
    changes,     \* changes of it so far
    cache,       \* makeWatchHandler: the entries last sent
    pending,     \* the updates it waits to send, by prefix
    inbox,       \* the updates a watcher is handling, by prefix
    local,       \* w.streams, w.streamTranscoders, w.transcoders; w.settings
    updates,     \* w.updates
    state,       \* s.state
    clients,     \* clients of server.run
    addClient, removeClient,
    message,     \* the update broadcast is writing
    todo,        \* the clients it has still to write to
    ws,          \* where each connection is
    unread,      \* what was written to it and not read yet
    view         \* what its client shows

watchVars == <<cache, pending, inbox, local>>
serverVars == <<updates, state, clients, addClient, removeClient, message, todo>>
connVars == <<ws, unread, view>>
vars == <<kv, changes, watchVars, serverVars, connVars>>

Watched == {"stream", "transcoders", "streamSettings"}
Paths ==
    {<<"stream", s>> : s \in Slugs} \cup {<<"stream", s, "transcoder">> : s \in Slugs}
    \cup {<<"transcoders", m>> : m \in Machines} \cup {<<"streamSettings", s>> : s \in Slugs}
Entries == [Paths -> Values \cup {NoValue}]
Nothing == [p \in Paths |-> NoValue]
Messages == [topic: {"streams", "streamTranscoders", "transcoders", "all"}, map: Entries]

ASSUME NoMessageAssumption == NoMessage \notin Messages

\* The map an update goes to: PathIsStream, PathIsStreamTranscoder, and
\* ParseServiceName, which wants three parts; the watcher of auth/ keeps what
\* ParseStreamName gives.
topic(p) ==
    CASE p[1] = "stream" /\ Len(p) = 2 -> "streams"
      [] p[1] = "stream" /\ Len(p) = 3 /\ p[3] = "transcoder" -> "streamTranscoders"
      [] p[1] = "transcoders" /\ Len(p) = 3 -> "transcoders"
      [] p[1] = "streamSettings" -> "settings"
      [] OTHER -> "none"

Init ==
    /\ kv = Nothing
    /\ changes = 0
    /\ cache = Nothing
    /\ pending = [f \in Watched |-> {}]
    /\ inbox = [f \in Watched |-> {}]
    /\ local = Nothing
    /\ updates = <<>>
    /\ state = Nothing
    /\ clients = {}
    /\ addClient = <<>>
    /\ removeClient = <<>>
    /\ message = NoMessage
    /\ todo = {}
    /\ ws = [c \in Conns |-> "new"]
    /\ unread = [c \in Conns |-> <<>>]
    /\ view = [c \in Conns |-> Nothing]

(***************************************************************************)
(* Consul: the publisher, the transcoders, and HandleSetStreamSettings,    *)
(* which stores what it could parse.                                       *)
(***************************************************************************)
change(p, v) ==
    /\ changes < MaxChanges
    /\ changes' = changes + 1
    /\ kv[p] # v
    /\ kv' = [kv EXCEPT ![p] = v]
    /\ UNCHANGED <<watchVars, serverVars, connVars>>

Change(p, v) == (topic(p) = "settings" => v = NoValue) /\ change(p, v)
SetStreamSettings(p, v) ==
    /\ topic(p) = "settings"
    /\ v \in Values \ Garbage
    /\ change(p, v)

(***************************************************************************)
(* The watches.                                                            *)
(***************************************************************************)
\* Mutant of changed: an entry that is gone is not noticed.
changedPuts(f) == {p \in Paths : p[1] = f /\ kv[p] \notin {cache[p], NoValue}}

changed(f) == {p \in Paths : p[1] = f /\ kv[p] # cache[p]}

\* makeWatchHandler: what differs from the cache, at the time of the answer.
WatchHandler(f) ==
    /\ pending[f] = {}
    /\ changed(f) # {}
    /\ pending' = [pending EXCEPT ![f] = {[path |-> p, value |-> kv[p]] : p \in changed(f)}]
    /\ cache' = [p \in Paths |-> IF p \in changed(f) THEN kv[p] ELSE cache[p]]
    /\ UNCHANGED <<kv, changes, inbox, local, serverVars, connVars>>

\* The two prefixes of the monitor's watcher, which handles one at a time.
busy(f) == inbox[f] # {} \/ (f # "streamSettings" /\ inbox["stream"] \cup inbox["transcoders"] # {})

Receive(f) ==
    /\ pending[f] # {}
    /\ ~busy(f)
    /\ inbox' = [inbox EXCEPT ![f] = pending[f]]
    /\ pending' = [pending EXCEPT ![f] = {}]
    /\ UNCHANGED <<kv, changes, cache, local, serverVars, connVars>>

\* makeWatchHandler lists puts before deletions.
next(f) == {u \in inbox[f] : u.value = NoValue => \A v \in inbox[f] : v.value = NoValue}

\* An update that changes nothing: its path has no name, or its value cannot
\* be parsed; a claim is taken as it is.
ignored(u) ==
    \/ topic(u.path) = "none"
    \/ u.value \in Garbage /\ topic(u.path) # "streamTranscoders"

\* handleTranscoder, handleStreamUpdate and handleStreamTranscoder: change the
\* map and send a copy of it.
HandleUpdate(f, u) ==
    /\ f # "streamSettings"
    /\ u \in next(f)
    /\ inbox' = [inbox EXCEPT ![f] = @ \ {u}]
    /\ IF ignored(u)
       THEN UNCHANGED <<local, updates>>
       ELSE /\ updates = <<>>
            /\ local' = [local EXCEPT ![u.path] = u.value]
            /\ updates' = <<[topic |-> topic(u.path), map |-> local']>>
    /\ UNCHANGED <<kv, changes, cache, pending, state, clients, addClient, removeClient,
                   message, todo, connVars>>

\* The watcher of auth/ only keeps its map, which Auth looks at.
HandleStreamSettings(u) ==
    /\ u \in next("streamSettings")
    /\ inbox' = [inbox EXCEPT !["streamSettings"] = @ \ {u}]
    /\ local' = IF ignored(u) THEN local ELSE [local EXCEPT ![u.path] = u.value]
    /\ UNCHANGED <<kv, changes, cache, pending, serverVars, connVars>>

(***************************************************************************)
(* The server goroutine.  It is in broadcast while there is a message.     *)
(***************************************************************************)
covers(m, p) == m.topic \in {topic(p), "all"}
merged(entries, m) == [p \in Paths |-> IF covers(m, p) THEN m.map[p] ELSE entries[p]]

closed(c) == ws[c] \in {"leaving", "left"}

\* WriteJSON blocks while the buffers are full; on a closed connection it
\* fails, which is logged.
WriteJSON(c, m) ==
    \/ closed(c) /\ UNCHANGED unread
    \/ /\ ~closed(c)
       /\ Len(unread[c]) < MaxUnread
       /\ unread' = [unread EXCEPT ![c] = Append(@, m)]

\* Mutant of AddClient: the state is not written to a new client.
AddClientBlind ==
    /\ message = NoMessage
    /\ addClient # <<>>
    /\ addClient' = <<>>
    /\ clients' = clients \cup {addClient[1]}
    /\ UNCHANGED <<kv, changes, watchVars, updates, state, removeClient, message, todo, connVars>>

AddClient ==
    /\ message = NoMessage
    /\ addClient # <<>>
    /\ addClient' = <<>>
    /\ WriteJSON(addClient[1], [topic |-> "all", map |-> state])
    /\ clients' = clients \cup {addClient[1]}
    /\ UNCHANGED <<kv, changes, watchVars, updates, state, removeClient, message, todo, ws, view>>

RemoveClient ==
    /\ message = NoMessage
    /\ removeClient # <<>>
    /\ removeClient' = <<>>
    /\ clients' = clients \ {removeClient[1]}
    /\ UNCHANGED <<kv, changes, watchVars, updates, state, addClient, message, todo, connVars>>

TakeUpdate ==
    /\ message = NoMessage
    /\ updates # <<>>
    /\ updates' = <<>>
    /\ state' = merged(state, updates[1])
    /\ message' = updates[1]
    /\ todo' = clients
    /\ UNCHANGED <<kv, changes, watchVars, clients, addClient, removeClient, connVars>>

Broadcast(c) ==
    /\ c \in todo
    /\ WriteJSON(c, message)
    /\ todo' = todo \ {c}
    /\ UNCHANGED <<kv, changes, watchVars, updates, state, clients, addClient, removeClient,
                   message, ws, view>>

BroadcastEnds ==
    /\ message # NoMessage
    /\ todo = {}
    /\ message' = NoMessage
    /\ UNCHANGED <<kv, changes, watchVars, updates, state, clients, addClient, removeClient,
                   todo, connVars>>

Serve ==
    AddClient \/ RemoveClient \/ TakeUpdate \/ BroadcastEnds \/ \E c \in Conns : Broadcast(c)

(***************************************************************************)
(* handleWebsocket, and the client at the other end.                       *)
(***************************************************************************)
Register(c) ==
    /\ ws[c] = "new"
    /\ addClient = <<>>
    /\ addClient' = <<c>>
    /\ ws' = [ws EXCEPT ![c] = "open"]
    /\ UNCHANGED <<kv, changes, watchVars, updates, state, clients, removeClient, message,
                   todo, unread, view>>

\* ReadMessage fails: the client has closed the connection.
Leave(c) ==
    /\ ws[c] = "open"
    /\ ws' = [ws EXCEPT ![c] = "leaving"]
    /\ UNCHANGED <<kv, changes, watchVars, serverVars, unread, view>>

Unregister(c) ==
    /\ ws[c] = "leaving"
    /\ removeClient = <<>>
    /\ removeClient' = <<c>>
    /\ ws' = [ws EXCEPT ![c] = "left"]
    /\ UNCHANGED <<kv, changes, watchVars, updates, state, clients, addClient, message,
                   todo, unread, view>>

Show(c) ==
    /\ ws[c] = "open"
    /\ unread[c] # <<>>
    /\ view' = [view EXCEPT ![c] = merged(@, Head(unread[c]))]
    /\ unread' = [unread EXCEPT ![c] = Tail(@)]
    /\ UNCHANGED <<kv, changes, watchVars, serverVars, ws>>

Watch(f) ==
    \/ WatchHandler(f) \/ Receive(f)
    \/ \E u \in inbox[f] : HandleUpdate(f, u) \/ HandleStreamSettings(u)

Next ==
    \/ \E p \in Paths, v \in Values \cup {NoValue} : Change(p, v) \/ SetStreamSettings(p, v)
    \/ \E f \in Watched : Watch(f)
    \/ Serve
    \/ \E c \in Conns : Register(c) \/ Leave(c) \/ Unregister(c) \/ Show(c)

\* The goroutines run, and clients read while they are connected.
Fairness ==
    /\ \A f \in Watched : WF_vars(Watch(f))
    /\ WF_vars(Serve)
    /\ \A c \in Conns : WF_vars(Show(c))

Spec == Init /\ [][Next]_vars
FairSpec == Spec /\ Fairness

-----------------------------------------------------------------------------
\* Every variable has the type of the Go field, channel or connection it
\* stands for; broadcast writes to registered clients only.
TypeOK ==
    /\ {kv, cache, local, state} \subseteq Entries
    /\ {pending, inbox} \subseteq [Watched -> SUBSET [path: Paths, value: Values \cup {NoValue}]]
    /\ \A f \in Watched : \A u \in pending[f] \cup inbox[f] : u.path[1] = f
    /\ updates \in {<<>>} \cup {<<m>> : m \in Messages}
    /\ {addClient, removeClient} \subseteq {<<>>} \cup {<<c>> : c \in Conns}
    /\ message = NoMessage \/ message \in Messages
    /\ todo \subseteq clients /\ clients \subseteq Conns
    /\ message = NoMessage => todo = {}
    /\ ws \in [Conns -> {"new", "open", "leaving", "left"}]
    /\ unread \in [Conns -> Seq(Messages)] /\ \A c \in Conns : Len(unread[c]) <= MaxUnread
    /\ view \in [Conns -> Entries]

\* What a client shows of a path once it has read what was written to it is v:
\* the last message that has the path says so, or none has it and it shows v.
caughtUp(c, p, v) ==
    LET about == {i \in 1..Len(unread[c]) : covers(unread[c][i], p)}
    IN  IF about = {} THEN view[c][p] = v
        ELSE \E i \in about : (\A j \in about : j <= i) /\ unread[c][i].map[p] = v

\* The state written when a client is added and the updates broadcast after it
\* join without a gap: whatever has been taken from w.updates, a registered
\* client has been written all of it, but for the one broadcast is at.
NoGap ==
    \A c \in clients :
        ws[c] = "open" /\ c \notin todo => \A p \in Paths : caughtUp(c, p, state[p])

\* An entry the map shows as Consul has it, if it is one that can be parsed.
follows(entries, p) == kv[p] \notin Garbage => entries[p] = kv[p]
shows(c) ==
    \A p \in Paths : topic(p) \in {"streams", "streamTranscoders"} => follows(view[c], p)

\* Every client that stays comes to show the streams and the claims as they
\* are in Consul, however changes, clients that come and go, and a queue of
\* one update at each stage delay or merge them.
ViewsFollow == \A c \in Conns : ~shows(c) /\ ws[c] = "open" ~> shows(c) \/ ws[c] # "open"

\* Settings stored through the monitor are what auth admits publishers by in
\* the end, and settings that are gone admit nobody.
SettingsFollow ==
    \A p \in Paths : topic(p) = "settings" => (local[p] # kv[p] ~> local[p] = kv[p])
=============================================================================
