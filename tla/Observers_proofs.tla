--------------------------- MODULE Observers_proofs --------------------------
(***************************************************************************)
(* Proofs about the two components that only watch: Monitor, for every set *)
(* of slugs, machines, values and connections, and every bound on changes  *)
(* and unread messages; and LogReceiver, for every finite set of users,    *)
(* every set of streams and master playlists, every length of the sliding  *)
(* window and of the intervals.                                            *)
(***************************************************************************)
EXTENDS Monitor, LogReceiver, FiniteSetTheorems, SequenceTheorems, WellFoundedInduction,
        TLAPS

Updates == [path: Paths, value: Values \cup {NoValue}]

\* A path is of one topic; only settings have theirs, and auth reads those.
LEMMA Topics ==
    ASSUME NEW p
    PROVE  /\ topic(p) \in {"streams", "streamTranscoders", "transcoders", "settings", "none"}
           /\ topic(p) = "settings" => p[1] = "streamSettings"
BY DEF topic

\* What the server or a client has after an update.
LEMMA Merged ==
    ASSUME NEW entries \in Entries, NEW m \in Messages
    PROVE  /\ merged(entries, m) \in Entries
           /\ \A p \in Paths : merged(entries, m)[p] = IF covers(m, p) THEN m.map[p] ELSE entries[p]
<1>1. m.map \in Entries
  BY DEF Messages
<1> HIDE DEF Messages
<1> QED BY <1>1 DEF merged, Entries

\* WriteJSON appends to what the connection has not read.
LEMMA WriteJSONType ==
    ASSUME TypeOK, NEW c \in Conns, NEW m \in Messages, WriteJSON(c, m)
    PROVE  /\ unread' \in [Conns -> Seq(Messages)]
           /\ \A d \in Conns : Len(unread'[d]) <= MaxUnread
           /\ \A d \in Conns \ {c} : unread'[d] = unread[d]
           /\ ~closed(c) => unread'[c] = Append(unread[c], m)
<1>0. unread \in [Conns -> Seq(Messages)] /\ \A d \in Conns : Len(unread[d]) <= MaxUnread
  BY DEF TypeOK
<1>1. CASE UNCHANGED unread /\ closed(c)
  BY <1>0, <1>1
<1>2. CASE ~closed(c)
  <2>1. Len(unread[c]) < MaxUnread /\ unread' = [unread EXCEPT ![c] = Append(@, m)]
    BY <1>2 DEF WriteJSON
  <2>2. unread[c] \in Seq(Messages)
    BY <1>0
  <2>3. Append(unread[c], m) \in Seq(Messages) /\ Len(Append(unread[c], m)) = Len(unread[c]) + 1
    BY <2>2
  <2>4. unread'[c] = Append(unread[c], m) /\ \A d \in Conns \ {c} : unread'[d] = unread[d]
    BY <1>0, <2>1
  <2>5. unread' \in [Conns -> Seq(Messages)]
    BY <1>0, <2>1, <2>3
  <2>6. Len(unread'[c]) <= MaxUnread
    BY <2>1, <2>2, <2>3, <2>4, UnreadAssumption
  <2> QED BY <1>0, <2>4, <2>5, <2>6
<1> QED BY <1>1, <1>2 DEF WriteJSON

\* Watcher, server and connections keep their types; broadcast writes only
\* messages, and only to registered clients.
THEOREM TypeCorrect == Spec => []TypeOK
<1>1. Init => TypeOK
  <2> SUFFICES ASSUME Init PROVE TypeOK
    OBVIOUS
  <2>1. Nothing \in Entries
    BY DEF Nothing, Entries
  <2>2. <<>> \in Seq(Messages) /\ Len(<<>>) <= MaxUnread
    BY UnreadAssumption
  <2> QED BY <2>1, <2>2 DEF Init, TypeOK
<1>2. TypeOK /\ [Next]_vars => TypeOK'
  <2> SUFFICES ASSUME TypeOK, [Next]_vars PROVE TypeOK'
    OBVIOUS
  <2>0. /\ kv \in Entries /\ cache \in Entries /\ local \in Entries /\ state \in Entries
        /\ pending \in [Watched -> SUBSET Updates] /\ inbox \in [Watched -> SUBSET Updates]
        /\ \A f \in Watched : \A u \in pending[f] \cup inbox[f] : u.path[1] = f
        /\ updates \in {<<>>} \cup {<<m>> : m \in Messages}
        /\ addClient \in {<<>>} \cup {<<c>> : c \in Conns}
        /\ removeClient \in {<<>>} \cup {<<c>> : c \in Conns}
    BY DEF TypeOK, Updates
  <2>1. ASSUME NEW p \in Paths, NEW v \in Values \cup {NoValue},
               Change(p, v) \/ SetStreamSettings(p, v)
        PROVE  TypeOK'
    <3>1. change(p, v)
      BY <2>1 DEF Change, SetStreamSettings
    <3>2. kv' \in Entries
      BY <2>0, <3>1 DEF change, Entries
    <3> QED BY <3>1, <3>2 DEF change, watchVars, serverVars, connVars, TypeOK
  <2>2. ASSUME NEW f \in Watched, WatchHandler(f) PROVE TypeOK'
    <3>1. \A p \in changed(f) : p \in Paths /\ p[1] = f
      BY DEF changed
    <3>2. {[path |-> p, value |-> kv[p]] : p \in changed(f)} \subseteq Updates
      BY <2>0, <3>1 DEF Updates, Entries
    <3>3. cache' \in Entries
      BY <2>0, <2>2 DEF WatchHandler, Entries
    <3>4. pending' \in [Watched -> SUBSET Updates]
      BY <2>0, <2>2, <3>2 DEF WatchHandler
    <3>5. \A g \in Watched : \A u \in pending'[g] : u.path[1] = g
      BY <2>0, <2>2, <3>1 DEF WatchHandler
    <3> QED BY <2>0, <2>2, <3>3, <3>4, <3>5 DEF WatchHandler, serverVars, connVars, TypeOK, Updates
  <2>3. ASSUME NEW f \in Watched, Receive(f) PROVE TypeOK'
    <3>1. pending' \in [Watched -> SUBSET Updates] /\ inbox' \in [Watched -> SUBSET Updates]
      BY <2>0, <2>3 DEF Receive
    <3>2. \A g \in Watched : \A u \in pending'[g] \cup inbox'[g] : u.path[1] = g
      BY <2>0, <2>3 DEF Receive
    <3> QED BY <2>3, <3>1, <3>2 DEF Receive, serverVars, connVars, TypeOK, Updates
  <2>4. ASSUME NEW f \in Watched, NEW u \in inbox[f], HandleUpdate(f, u) \/ HandleStreamSettings(u)
        PROVE  TypeOK'
    <3>1. u \in Updates /\ u.path \in Paths /\ u.value \in Values \cup {NoValue} /\ u.path[1] = f
      BY <2>0 DEF Updates
    <3>2. /\ inbox' \in [Watched -> SUBSET Updates]
          /\ \A g \in Watched : \A w \in pending[g] \cup inbox'[g] : w.path[1] = g
      BY <2>0, <2>4 DEF HandleUpdate, HandleStreamSettings, Watched
    <3>3. local' \in Entries
      BY <2>0, <2>4, <3>1 DEF HandleUpdate, HandleStreamSettings, Entries
    <3>4. CASE HandleUpdate(f, u)
      <4>1. CASE ignored(u)
        BY <2>0, <3>2, <3>3, <3>4, <4>1 DEF HandleUpdate, connVars, TypeOK, Updates
      <4>2. CASE ~ignored(u)
        <5>1. topic(u.path) \in {"streams", "streamTranscoders", "transcoders"}
          BY <3>1, <3>4, <4>2, Topics DEF HandleUpdate, ignored
        <5>2. [topic |-> topic(u.path), map |-> local'] \in Messages
          BY <3>3, <5>1 DEF Messages
        <5>3. updates' \in {<<m>> : m \in Messages}
          BY <3>4, <4>2, <5>2 DEF HandleUpdate
        <5> QED BY <3>2, <3>3, <3>4, <5>3 DEF HandleUpdate, connVars, TypeOK, Updates
      <4> QED BY <4>1, <4>2
    <3>5. CASE HandleStreamSettings(u)
      BY <3>2, <3>3, <3>5 DEF HandleStreamSettings, serverVars, connVars, TypeOK, Updates
    <3> QED BY <2>4, <3>4, <3>5
  <2>5. CASE AddClient
    <3>1. addClient[1] \in Conns /\ [topic |-> "all", map |-> state] \in Messages
      BY <2>0, <2>5 DEF AddClient, Messages
    <3>2. unread' \in [Conns -> Seq(Messages)] /\ \A d \in Conns : Len(unread'[d]) <= MaxUnread
      BY <2>5, <3>1, WriteJSONType DEF AddClient
    <3> QED BY <2>5, <3>1, <3>2 DEF AddClient, watchVars, TypeOK
  <2>6. CASE RemoveClient
    BY <2>6 DEF RemoveClient, watchVars, connVars, TypeOK
  <2>7. CASE TakeUpdate
    <3>1. updates[1] \in Messages
      BY <2>0, <2>7 DEF TakeUpdate
    <3>2. state' \in Entries
      BY <2>0, <2>7, <3>1, Merged DEF TakeUpdate
    <3> QED BY <2>7, <3>1, <3>2, NoMessageAssumption DEF TakeUpdate, watchVars, connVars, TypeOK
  <2>8. ASSUME NEW c \in Conns, Broadcast(c) PROVE TypeOK'
    <3>1. message \in Messages
      BY <2>8 DEF Broadcast, TypeOK
    <3>2. unread' \in [Conns -> Seq(Messages)] /\ \A d \in Conns : Len(unread'[d]) <= MaxUnread
      BY <2>8, <3>1, WriteJSONType DEF Broadcast
    <3> QED BY <2>8, <3>2 DEF Broadcast, watchVars, TypeOK
  <2>9. CASE BroadcastEnds
    BY <2>9 DEF BroadcastEnds, watchVars, connVars, TypeOK
  <2>10. ASSUME NEW c \in Conns, Register(c) \/ Leave(c) \/ Unregister(c) PROVE TypeOK'
    <3>1. ws' \in [Conns -> {"new", "open", "leaving", "left"}]
      BY <2>10 DEF Register, Leave, Unregister, TypeOK
    <3> QED BY <2>10, <3>1 DEF Register, Leave, Unregister, watchVars, serverVars, TypeOK
  <2>11. ASSUME NEW c \in Conns, Show(c) PROVE TypeOK'
    <3>1. unread \in [Conns -> Seq(Messages)] /\ view \in [Conns -> Entries]
          /\ unread[c] # <<>> /\ \A d \in Conns : Len(unread[d]) <= MaxUnread
      BY <2>11 DEF TypeOK, Show
    <3>2. unread[c] \in Seq(Messages) /\ view[c] \in Entries
      BY <3>1
    <3>3. /\ Head(unread[c]) \in Messages /\ Tail(unread[c]) \in Seq(Messages)
          /\ Len(Tail(unread[c])) = Len(unread[c]) - 1 /\ Len(unread[c]) \in Nat
      BY <3>1, <3>2
    <3>4. Len(Tail(unread[c])) <= MaxUnread
      BY <3>1, <3>3, UnreadAssumption
    <3>5. unread' \in [Conns -> Seq(Messages)] /\ \A d \in Conns : Len(unread'[d]) <= MaxUnread
      BY <2>11, <3>1, <3>3, <3>4 DEF Show
    <3>6. view' \in [Conns -> Entries]
      BY <2>11, <3>1, <3>2, <3>3, Merged DEF Show
    <3> QED BY <2>11, <3>5, <3>6 DEF Show, watchVars, serverVars, TypeOK
  <2>12. CASE UNCHANGED vars
    BY <2>12 DEF vars, watchVars, serverVars, connVars, TypeOK
  <2> QED BY <2>1, <2>2, <2>3, <2>4, <2>5, <2>6, <2>7, <2>8, <2>9, <2>10, <2>11, <2>12
          DEF Next, Watch, Serve
<1> QED BY <1>1, <1>2, PTL DEF Spec

-----------------------------------------------------------------------------
\* The inductive form of NoGap: a client broadcast has still to write to lacks
\* no more than the message it is at, which is part of the state already.
GapInv ==
    /\ message # NoMessage => \A p \in Paths : covers(message, p) => message.map[p] = state[p]
    /\ \A c \in clients : ws[c] # "new"
    /\ addClient # <<>> => ws[addClient[1]] # "new"
    /\ \A c \in clients : ws[c] = "open" =>
          \A p \in Paths : (c \in todo /\ covers(message, p)) \/ caughtUp(c, p, state[p])

\* The unread messages that have a path.
about(c, p) == {i \in 1..Len(unread[c]) : covers(unread[c][i], p)}

\* What caughtUp says, by the positions of those messages.
LEMMA CaughtUp ==
    ASSUME NEW c, NEW p, NEW v
    PROVE  /\ caughtUp(c, p, v) <=>
                 \/ about(c, p) = {} /\ view[c][p] = v
                 \/ \E i \in about(c, p) :
                       (\A j \in about(c, p) : j <= i) /\ unread[c][i].map[p] = v
           /\ caughtUp(c, p, v)' <=>
                 \/ about(c, p)' = {} /\ view'[c][p] = v
                 \/ \E i \in about(c, p)' :
                       (\A j \in about(c, p)' : j <= i) /\ unread'[c][i].map[p] = v
BY DEF caughtUp, about

\* A message that is appended to what is unread has the last word on its paths,
\* and none on others.
LEMMA CaughtAppend ==
    ASSUME NEW c \in Conns, NEW p \in Paths, NEW v, NEW m, unread[c] \in Seq(Messages),
           m \in Messages, unread'[c] = Append(unread[c], m), view' = view
    PROVE  /\ covers(m, p) /\ m.map[p] = v => caughtUp(c, p, v)'
           /\ ~covers(m, p) /\ caughtUp(c, p, v) => caughtUp(c, p, v)'
<1> DEFINE n == Len(unread[c])
<1>1. /\ n \in Nat /\ Len(unread'[c]) = n + 1 /\ unread'[c][n + 1] = m
      /\ \A i \in 1..n : unread'[c][i] = unread[c][i]
  OBVIOUS
<1> HIDE DEF n
<1>2. ASSUME covers(m, p), m.map[p] = v PROVE caughtUp(c, p, v)'
  <2>1. n + 1 \in about(c, p)' /\ \A j \in about(c, p)' : j <= n + 1
    BY <1>1, <1>2 DEF about
  <2> QED BY <1>1, <1>2, <2>1, CaughtUp
<1>3. ASSUME ~covers(m, p), caughtUp(c, p, v) PROVE caughtUp(c, p, v)'
  <2>1. about(c, p)' = about(c, p) /\ about(c, p) \subseteq 1..n
    <3>1. about(c, p)' = {i \in 1..(n + 1) : covers(unread'[c][i], p)}
      BY <1>1 DEF about
    <3>2. about(c, p) = {i \in 1..n : covers(unread[c][i], p)}
      BY DEF about, n
    <3>3. \A i \in 1..(n + 1) : i \in 1..n \/ i = n + 1
      BY <1>1
    <3>4. \A i \in 1..n : i \in 1..(n + 1)
      BY <1>1
    <3> QED BY <1>1, <1>3, <3>1, <3>2, <3>3, <3>4
  <2> QED BY <1>1, <1>3, <2>1, CaughtUp
<1> QED BY <1>2, <1>3

\* Reading a message changes what is shown, not what will be shown.
LEMMA CaughtShow ==
    ASSUME TypeOK, NEW c \in Conns, NEW p \in Paths, NEW v, Show(c), caughtUp(c, p, v)
    PROVE  caughtUp(c, p, v)'
<1> DEFINE n == Len(unread[c])
           m == Head(unread[c])
<1>0. unread \in [Conns -> Seq(Messages)] /\ view \in [Conns -> Entries]
  BY DEF TypeOK
<1>1. unread[c] \in Seq(Messages) /\ unread[c] # <<>> /\ view[c] \in Entries
  BY <1>0 DEF Show
<1>2. unread'[c] = Tail(unread[c]) /\ view'[c] = merged(view[c], m)
  BY <1>0 DEF Show
<1>3. /\ m \in Messages /\ m = unread[c][1] /\ n \in Nat /\ n >= 1
      /\ Len(Tail(unread[c])) = n - 1
      /\ \A i \in 1..(n - 1) : Tail(unread[c])[i] = unread[c][i + 1]
  BY <1>1
<1>4. view'[c][p] = IF covers(m, p) THEN m.map[p] ELSE view[c][p]
  BY <1>1, <1>2, <1>3, Merged
<1>5. about(c, p)' = {i \in 1..(n - 1) : covers(unread[c][i + 1], p)}
  BY <1>2, <1>3 DEF about
<1>6. about(c, p) = {i \in 1..n : covers(unread[c][i], p)}
  BY DEF about
<1>7. \A i \in 1..(n - 1) : unread'[c][i] = unread[c][i + 1]
  BY <1>2, <1>3
<1> HIDE DEF n, m
<1>8. \A i \in 1..(n - 1) : i \in about(c, p)' <=> i + 1 \in about(c, p)
  BY <1>3, <1>5, <1>6
<1>9. CASE about(c, p) = {} /\ view[c][p] = v
  <2>1. ~covers(m, p)
    BY <1>3, <1>6, <1>9
  <2>2. about(c, p)' = {}
    BY <1>5, <1>8, <1>9
  <2> QED BY <1>4, <1>9, <2>1, <2>2, CaughtUp
<1>10. ASSUME NEW i \in about(c, p), \A j \in about(c, p) : j <= i, unread[c][i].map[p] = v
       PROVE  caughtUp(c, p, v)'
  <2>0. i \in 1..n
    BY <1>6
  <2>1. CASE i = 1
    <3>1. covers(m, p) /\ m.map[p] = v
      BY <1>3, <1>6, <1>10, <2>1
    <3>2. about(c, p)' = {}
      <4> SUFFICES ASSUME NEW j \in about(c, p)' PROVE FALSE
        OBVIOUS
      <4>1. j \in 1..(n - 1)
        BY <1>5
      <4>2. j + 1 \in about(c, p)
        BY <1>8, <4>1
      <4> QED BY <1>3, <1>10, <2>1, <4>1, <4>2
    <3> QED BY <1>4, <3>1, <3>2, CaughtUp
  <2>2. CASE i # 1
    <3>1. i - 1 \in 1..(n - 1) /\ (i - 1) + 1 = i
      BY <1>3, <2>0, <2>2
    <3>2. i - 1 \in about(c, p)'
      BY <1>8, <3>1
    <3>3. \A j \in about(c, p)' : j <= i - 1
      <4> SUFFICES ASSUME NEW j \in about(c, p)' PROVE j <= i - 1
        OBVIOUS
      <4>1. j \in 1..(n - 1)
        BY <1>5
      <4>2. j + 1 <= i
        BY <1>8, <1>10, <4>1
      <4> QED BY <1>3, <2>0, <4>1, <4>2
    <3>4. unread'[c][i - 1].map[p] = v
      BY <1>7, <1>10, <3>1
    <3> QED BY <3>2, <3>3, <3>4, CaughtUp
  <2> QED BY <2>1, <2>2
<1> QED BY <1>9, <1>10, CaughtUp

\* A connection that is neither written to nor read.
LEMMA CaughtSame ==
    ASSUME NEW c, NEW p, NEW v, unread'[c] = unread[c], view'[c] = view[c], caughtUp(c, p, v)
    PROVE  caughtUp(c, p, v)'
BY DEF caughtUp

\* No step of the watchers, the server or another client opens a gap.
LEMMA GapStep == TypeOK /\ GapInv /\ [Next]_vars => GapInv'
<1> SUFFICES ASSUME TypeOK, GapInv, [Next]_vars PROVE GapInv'
  OBVIOUS
<1>0. /\ unread \in [Conns -> Seq(Messages)] /\ view \in [Conns -> Entries] /\ state \in Entries
      /\ ws \in [Conns -> {"new", "open", "leaving", "left"}]
      /\ clients \subseteq Conns /\ todo \subseteq clients
      /\ addClient \in {<<>>} \cup {<<c>> : c \in Conns}
      /\ updates \in {<<>>} \cup {<<m>> : m \in Messages}
      /\ message # NoMessage => message \in Messages
      /\ message = NoMessage => todo = {}
  BY DEF TypeOK
<1>1. /\ message # NoMessage => \A p \in Paths : covers(message, p) => message.map[p] = state[p]
      /\ \A c \in clients : ws[c] # "new"
      /\ addClient # <<>> => ws[addClient[1]] # "new"
      /\ \A c \in clients : ws[c] = "open" =>
            \A p \in Paths : (c \in todo /\ covers(message, p)) \/ caughtUp(c, p, state[p])
  BY DEF GapInv
<1>2. ASSUME UNCHANGED <<state, clients, addClient, message, todo, connVars>> PROVE GapInv'
  BY <1>1, <1>2 DEF GapInv, connVars, caughtUp
<1>3. ASSUME NEW p \in Paths, NEW v \in Values \cup {NoValue},
             Change(p, v) \/ SetStreamSettings(p, v)
      PROVE  GapInv'
  BY <1>2, <1>3 DEF Change, SetStreamSettings, change, serverVars
<1>4. ASSUME NEW f \in Watched, Watch(f) PROVE GapInv'
  BY <1>2, <1>4 DEF Watch, WatchHandler, Receive, HandleUpdate, HandleStreamSettings, serverVars
<1>5. CASE AddClient
  <2>1. PICK d \in Conns : d = addClient[1]
    BY <1>0, <1>5 DEF AddClient
  <2>2. [topic |-> "all", map |-> state] \in Messages
    BY <1>0 DEF Messages
  <2>3. /\ WriteJSON(d, [topic |-> "all", map |-> state]) /\ clients' = clients \cup {d}
        /\ UNCHANGED <<ws, view, state, message, todo>> /\ addClient' = <<>>
        /\ message = NoMessage /\ ws[d] # "new"
    BY <1>1, <1>5, <2>1 DEF AddClient
  <2>4. ASSUME NEW c \in clients', ws[c] = "open", NEW p \in Paths PROVE caughtUp(c, p, state[p])'
    <3>1. CASE c = d
      <4>1. unread'[d] = Append(unread[d], [topic |-> "all", map |-> state])
        BY <2>2, <2>3, <2>4, <3>1, WriteJSONType DEF closed
      <4>2. covers([topic |-> "all", map |-> state], p)
        BY DEF covers
      <4>3. caughtUp(d, p, state[p])'
        BY <1>0, <2>2, <2>3, <4>1, <4>2, CaughtAppend
      <4> QED BY <2>3, <3>1, <4>3
    <3>2. CASE c # d
      <4>1. c \in clients /\ c \in Conns /\ unread'[c] = unread[c] /\ view'[c] = view[c]
        BY <1>0, <2>2, <2>3, <3>2, WriteJSONType
      <4>2. caughtUp(c, p, state[p])
        BY <1>0, <1>1, <2>3, <2>4, <4>1
      <4> QED BY <2>3, <4>1, <4>2, CaughtSame
    <3> QED BY <3>1, <3>2
  <2> QED BY <1>1, <2>3, <2>4 DEF GapInv
<1>6. CASE RemoveClient
  BY <1>1, <1>6, <1>0 DEF RemoveClient, connVars, GapInv, caughtUp
<1>7. CASE TakeUpdate
  <2>1. updates[1] \in Messages /\ message = NoMessage /\ todo = {}
    BY <1>0, <1>7 DEF TakeUpdate
  <2>2. /\ message' = updates[1] /\ todo' = clients
        /\ UNCHANGED <<clients, addClient, ws, unread, view>>
        /\ \A p \in Paths :
              state'[p] = IF covers(updates[1], p) THEN updates[1].map[p] ELSE state[p]
    BY <1>0, <1>7, <2>1, Merged DEF TakeUpdate, connVars
  <2>3. ASSUME NEW c \in clients, ws[c] = "open", NEW p \in Paths, ~covers(updates[1], p)
        PROVE  caughtUp(c, p, state[p])'
    <3>1. caughtUp(c, p, state[p]) /\ state'[p] = state[p]
      BY <1>1, <2>1, <2>2, <2>3
    <3> QED BY <2>2, <3>1, CaughtSame
  <2> QED BY <1>1, <2>2, <2>3 DEF GapInv
<1>8. ASSUME NEW d \in Conns, Broadcast(d) PROVE GapInv'
  <2>1. d \in todo /\ message \in Messages /\ message # NoMessage
    BY <1>0, <1>8 DEF Broadcast
  <2>2. /\ WriteJSON(d, message) /\ todo' = todo \ {d}
        /\ UNCHANGED <<state, clients, addClient, message, ws, view>>
    BY <1>8 DEF Broadcast
  <2>3. ASSUME NEW c \in clients, ws[c] = "open", NEW p \in Paths
        PROVE  (c \in todo' /\ covers(message, p)) \/ caughtUp(c, p, state[p])'
    <3>1. CASE c = d
      <4>1. unread'[d] = Append(unread[d], message)
        BY <2>1, <2>2, <2>3, <3>1, WriteJSONType DEF closed
      <4>2. ~covers(message, p) => caughtUp(d, p, state[p])
        BY <1>1, <2>3, <3>1
      <4>3. covers(message, p) => message.map[p] = state[p]
        BY <1>1, <2>1
      <4>4. caughtUp(d, p, state[p])'
        <5>1. unread[d] \in Seq(Messages)
          BY <1>0
        <5>2. CASE covers(message, p)
          BY <2>1, <2>2, <4>1, <4>3, <5>1, <5>2, CaughtAppend
        <5>3. CASE ~covers(message, p)
          BY <2>1, <2>2, <4>1, <4>2, <5>1, <5>3, CaughtAppend
        <5> QED BY <5>2, <5>3
      <4> QED BY <3>1, <4>4
    <3>2. CASE c # d
      <4>1. c \in Conns /\ unread'[c] = unread[c] /\ view'[c] = view[c]
        BY <1>0, <2>1, <2>2, <3>2, WriteJSONType
      <4> QED BY <1>1, <2>2, <2>3, <3>2, <4>1, CaughtSame
    <3> QED BY <3>1, <3>2
  <2> QED BY <1>1, <2>2, <2>3 DEF GapInv
<1>9. CASE BroadcastEnds
  <2>1. /\ todo = {} /\ message' = NoMessage
        /\ UNCHANGED <<state, clients, addClient, todo, ws, unread, view>>
    BY <1>9 DEF BroadcastEnds, connVars
  <2> QED BY <1>1, <2>1 DEF GapInv, caughtUp
<1>10. ASSUME NEW d \in Conns, Register(d) PROVE GapInv'
  <2>1. /\ ws[d] = "new" /\ ws' = [ws EXCEPT ![d] = "open"] /\ addClient' = <<d>>
        /\ UNCHANGED <<state, clients, message, todo, unread, view>>
    BY <1>10 DEF Register
  <2>2. d \notin clients /\ \A c \in clients : ws'[c] = ws[c]
    BY <1>0, <1>1, <2>1
  <2>3. addClient'[1] = d /\ ws'[d] = "open"
    BY <1>0, <2>1
  <2> QED BY <1>1, <2>1, <2>2, <2>3 DEF GapInv, caughtUp
<1>11. ASSUME NEW d \in Conns, Leave(d) \/ Unregister(d) PROVE GapInv'
  <2>1. /\ \A c \in Conns : /\ ws'[c] = "open" => ws[c] = "open"
                            /\ ws[c] # "new" => ws'[c] # "new"
        /\ UNCHANGED <<state, clients, addClient, message, todo, unread, view>>
    BY <1>0, <1>11 DEF Leave, Unregister, serverVars
  <2>2. addClient # <<>> => addClient[1] \in Conns
    BY <1>0
  <2>3. \A c, p : caughtUp(c, p, state[p]) => caughtUp(c, p, state[p])'
    BY <2>1 DEF caughtUp
  <2> QED BY <1>0, <1>1, <2>1, <2>2, <2>3 DEF GapInv
<1>12. ASSUME NEW d \in Conns, Show(d) PROVE GapInv'
  <2>1. UNCHANGED <<state, clients, addClient, message, todo, ws>>
    BY <1>12 DEF Show, serverVars
  <2>2. \A c \in Conns \ {d} : unread'[c] = unread[c] /\ view'[c] = view[c]
    BY <1>0, <1>12 DEF Show
  <2>3. ASSUME NEW c \in Conns, NEW p \in Paths, caughtUp(c, p, state[p])
        PROVE  caughtUp(c, p, state[p])'
    <3>1. CASE c = d
      <4>1. caughtUp(d, p, state[p])
        BY <2>3, <3>1
      <4>2. caughtUp(d, p, state[p])'
        <5> DEFINE v == state[p]
        <5>1. v' = v
          BY <2>1
        <5> QED BY <1>12, <2>1, <4>1, CaughtShow
      <4> QED BY <3>1, <4>2
    <3>2. CASE c # d
      BY <2>1, <2>2, <2>3, <3>2, CaughtSame
    <3> QED BY <3>1, <3>2
  <2> QED BY <1>0, <1>1, <2>1, <2>3 DEF GapInv
<1>13. CASE UNCHANGED vars
  BY <1>2, <1>13 DEF vars, serverVars
<1> QED BY <1>3, <1>4, <1>5, <1>6, <1>7, <1>8, <1>9, <1>10, <1>11, <1>12, <1>13 DEF Next, Serve

\* The first state a client is written and the broadcasts after it join without
\* a gap, for any number of clients, paths and messages in the buffers.
THEOREM ClientsMissNothing == Spec => []NoGap
<1>1. Init => GapInv
  BY DEF Init, GapInv
<1>2. GapInv => NoGap
  BY DEF GapInv, NoGap
<1> QED BY <1>1, <1>2, GapStep, TypeCorrect, PTL DEF Spec
-----------------------------------------------------------------------------
(***************************************************************************)
(* LogReceiver.  The ages of the segments fall along p.segments of a user, *)
(* so that what the window covers is the end of it.  The log of the model  *)
(* is that end; the proof of a count compares positions in the two.        *)
(***************************************************************************)
\* Every set of positions has a first one.
LEMMA LeastNatural ==
    ASSUME NEW S \in SUBSET Nat, S # {}
    PROVE  \E m \in S : \A n \in S : m <= n
<1> DEFINE R == {ss \in Nat \X Nat : ss[1] < ss[2]}
<1>1. IsWellFoundedOn(R, Nat)
    BY NatLessThanWellFounded DEF OpToRel
<1> HIDE DEF R
<1>2. PICK m \in S : \A n \in S : ~(<<n, m>> \in R)
    BY <1>1, WFMin, Zenon
<1>3. \A n \in S : ~(n < m)
    BY <1>2 DEF R
<1> QED
    BY <1>3

\* Positions that hold with every earlier one are the first d.
LEMMA Prefix ==
    ASSUME NEW n \in Nat, NEW S \in SUBSET (1..n),
           \A k \in S, j \in 1..n : j < k => j \in S
    PROVE  \E d \in 0..n : S = 1..d
<1> DEFINE T == {k \in Nat : k >= 1 /\ k \notin S}
<1>1. n + 1 \in T
    OBVIOUS
<1>2. PICK m \in T : \A k \in T : m <= k
    BY <1>1, LeastNatural
<1>3. m \in 1..(n + 1) /\ m \notin S
    BY <1>1, <1>2
<1>4. \A k \in Nat : k >= 1 /\ k < m => k \in S
    BY <1>2, <1>3
<1> HIDE DEF T
<1>5. ASSUME NEW k \in S
      PROVE  k >= 1 /\ k < m
    BY <1>3
<1>6. m - 1 \in 0..n /\ \A k \in Nat : k \in 1..(m - 1) <=> k >= 1 /\ k < m
    BY <1>3
<1>7. \A k : k \in S <=> k \in 1..(m - 1)
    <2>1. S \subseteq Nat /\ 1..(m - 1) \subseteq Nat
        BY <1>6
    <2> QED
        BY <1>4, <1>5, <1>6, <2>1
<1>8. S = 1..(m - 1)
    BY <1>7
<1> QED
    BY <1>6, <1>8

\* p.segments of a user: a sequence no longer than the bound.
LEMMA SegmentList ==
    ASSUME NEW segs
    PROVE  segs \in SegmentLists <=> segs \in Seq(Segments) /\ Len(segs) <= MaxSegments
<1>1. ASSUME segs \in SegmentLists
      PROVE  segs \in Seq(Segments) /\ Len(segs) <= MaxSegments
    <2>1. PICK n \in 0..MaxSegments : segs \in [1..n -> Segments]
        BY <1>1 DEF SegmentLists
    <2> QED
        BY <2>1, TimesAssumption
<1>2. ASSUME segs \in Seq(Segments), Len(segs) <= MaxSegments
      PROVE  segs \in SegmentLists
    <2>1. Len(segs) \in 0..MaxSegments /\ segs \in [1..Len(segs) -> Segments]
        BY <1>2, TimesAssumption
    <2> QED
        BY <2>1 DEF SegmentLists
<1> QED
    BY <1>1, <1>2

\* Time passes for every segment alike, and stops at what is outdated.
LEMMA Older ==
    ASSUME NEW segs \in Seq(Segments)
    PROVE  /\ older(segs) \in Seq(Segments)
           /\ Len(older(segs)) = Len(segs)
           /\ \A k \in 1..Len(segs) :
                 /\ older(segs)[k] \in Segments
                 /\ older(segs)[k].id = segs[k].id
                 /\ older(segs)[k].age =
                       IF segs[k].age > SlidingWindow THEN segs[k].age ELSE segs[k].age + 1
<1> DEFINE time(a) == IF a > SlidingWindow THEN a ELSE a + 1
           aged(k) == [segs[k] EXCEPT !.age = time(@)]
<1>1. ASSUME NEW k \in 1..Len(segs)
      PROVE  /\ aged(k) \in Segments
             /\ aged(k).id = segs[k].id
             /\ aged(k).age = time(segs[k].age)
    <2>1. segs[k] \in Segments
        OBVIOUS
    <2>2. \A a \in 0..(SlidingWindow + 1) : time(a) \in 0..(SlidingWindow + 1)
        BY TimesAssumption
    <2> HIDE DEF time
    <2> QED
        BY <2>1, <2>2 DEF Segments
<1>2. older(segs) = [k \in 1..Len(segs) |-> aged(k)]
    BY DEF older
<1> HIDE DEF aged
<1>3. older(segs) \in Seq(Segments) /\ Len(older(segs)) = Len(segs)
    BY <1>1, <1>2, IsASeq
<1> QED
    BY <1>1, <1>2, <1>3

\* covered keeps what lies behind the segments that are too old.
LEMMA Covered ==
    ASSUME NEW segs \in Seq(Segments), NEW d \in 0..Len(segs),
           \A k \in 1..d : segs[k].age > SlidingWindow,
           \A k \in (d + 1)..Len(segs) : segs[k].age <= SlidingWindow
    PROVE  /\ covered(segs) \in Seq(Segments)
           /\ Len(covered(segs)) = Len(segs) - d
           /\ \A k \in 1..(Len(segs) - d) : covered(segs)[k] = segs[d + k]
<1> DEFINE kept == {k \in DOMAIN segs : segs[k].age <= SlidingWindow}
           nth(j) == CHOOSE k \in kept : Cardinality({i \in kept : i < k}) = j - 1
           n == Len(segs)
<1>1. n \in Nat /\ DOMAIN segs = 1..n /\ \A k \in 1..n : segs[k] \in Segments
    OBVIOUS
<1>2. \A k \in 1..n : segs[k].age \in Int
    BY <1>1 DEF Segments
<1>3. kept = (d + 1)..n
    BY <1>1, <1>2, TimesAssumption
<1> HIDE DEF kept, n
<1>i. \A a \in Int, b \in Int : Cardinality(a..b) = IF a > b THEN 0 ELSE b - a + 1
    BY FS_Interval
<1>4. Cardinality(kept) = n - d
    <2>1. n \in Int /\ d + 1 \in Int /\ d <= n
        BY <1>1 DEF n
    <2>2. Cardinality(kept) = IF d + 1 > n THEN 0 ELSE n - (d + 1) + 1
        BY <1>i, <1>3, <2>1
    <2> QED
        BY <2>1, <2>2
<1>5. \A k \in kept : Cardinality({i \in kept : i < k}) = k - 1 - d
    <2> TAKE k \in kept
    <2>1. {i \in kept : i < k} = (d + 1)..(k - 1)
        BY <1>1, <1>3
    <2>2. k \in Int /\ d + 1 \in Int /\ k - 1 \in Int /\ d + 1 <= k
        BY <1>1, <1>3
    <2>3. Cardinality({i \in kept : i < k}) = IF d + 1 > k - 1 THEN 0 ELSE k - 1 - (d + 1) + 1
        BY <1>i, <2>1, <2>2
    <2> QED
        BY <2>2, <2>3
<1>6. \A j \in 1..(n - d) : nth(j) = d + j
    <2> TAKE j \in 1..(n - d)
    <2>1. d + j \in kept
        BY <1>1, <1>3 DEF n
    <2>2. \A k \in kept : Cardinality({i \in kept : i < k}) = j - 1 <=> k = d + j
        BY <1>1, <1>3, <1>5 DEF n
    <2> QED
        BY <2>1, <2>2
<1>7. covered(segs) = [j \in 1..(n - d) |-> segs[nth(j)]]
    BY <1>4 DEF covered, kept
<1> HIDE DEF nth
<1>8. covered(segs) = [j \in 1..(n - d) |-> segs[d + j]]
    BY <1>6, <1>7
<1>9. n - d \in Nat /\ \A j \in 1..(n - d) : segs[d + j] \in Segments
    BY <1>1 DEF n
<1> QED
    BY <1>8, <1>9, IsASeq DEF n

\* count() deletes exactly the segments at the front that are too old.
LEMMA Trimmed ==
    ASSUME NEW segs \in Seq(Segments), NEW d \in 0..Len(segs),
           \A k \in 1..d : segs[k].age > SlidingWindow,
           \A k \in (d + 1)..Len(segs) : segs[k].age <= SlidingWindow
    PROVE  trimmed(segs) = SubSeq(segs, d + 1, Len(segs))
<1> DEFINE S == {0} \cup {k \in DOMAIN segs : outdated(segs[k])}
<1>1. Len(segs) \in Nat /\ DOMAIN segs = 1..Len(segs)
    OBVIOUS
<1>2. \A k \in 1..Len(segs) : segs[k] \in Segments
    OBVIOUS
<1>3. \A k \in 1..Len(segs) : segs[k].age \in Int
    BY <1>2 DEF Segments
<1>4. S = 0..d
    BY <1>1, <1>3, TimesAssumption DEF outdated
<1> HIDE DEF S
<1>5. \A k \in S : (\A j \in S : k >= j) <=> k = d
    BY <1>4
<1>6. Max(S) = d
    BY <1>4, <1>5 DEF Max
<1> QED
    BY <1>6 DEF trimmed, S

\* The last segments a user fetched, after the first m, are those of the log:
\* the window covers them, and nothing before them.
suffix(segs, recent, m) ==
    /\ Len(segs) = m + Len(recent)
    /\ \A k \in 1..m : segs[k].age > SlidingWindow
    /\ \A k \in 1..Len(recent) : recent[k] = segs[m + k] /\ recent[k].age <= SlidingWindow

\* Segments are in the order in which they were fetched.
windowed(segs, recent) ==
    /\ \E m \in 0..Len(segs) : suffix(segs, recent, m)
    /\ \A j, k \in 1..Len(recent) : j < k => recent[k].age <= recent[j].age

\* p.segments holds all that the window covers, and a line in progress has
\* room for its segment.
WindowInv ==
    /\ \A u \in Users : windowed(segments[u], log[u])
    /\ line # NoLine => Len(segments[line.user]) < MaxSegments

\* The bounds are numbers.
LEMMA Bounds ==
    /\ SlidingWindow \in Nat /\ MinSegments \in Nat /\ StreamTimeout \in Nat
    /\ CountInterval \in Nat /\ MaxSegments \in Nat /\ TickInterval \in Nat /\ TickInterval > 0
BY TimesAssumption

\* addSegment keeps the order: a segment fetched now is the youngest.
LEMMA WindowAppend ==
    ASSUME NEW segs \in Seq(Segments), NEW recent \in Seq(Segments), windowed(segs, recent),
           NEW segment \in Segments, segment.age = 0
    PROVE  windowed(Append(segs, segment), Append(recent, segment))
<1> DEFINE s == Append(segs, segment)
           r == Append(recent, segment)
           n == Len(recent)
<1>1. PICK m \in 0..Len(segs) : suffix(segs, recent, m)
    BY DEF windowed
<1>2. n \in Nat /\ Len(segs) = m + n /\ m \in Nat
    BY <1>1 DEF suffix
<1>3. /\ Len(s) = m + n + 1 /\ s[m + n + 1] = segment /\ \A k \in 1..(m + n) : s[k] = segs[k]
      /\ Len(r) = n + 1 /\ r[n + 1] = segment /\ \A k \in 1..n : r[k] = recent[k]
    BY <1>2
<1>4. \A k \in 1..n : recent[k].age \in Nat
    <2>1. \A k \in 1..n : recent[k] \in Segments
        OBVIOUS
    <2> QED
        BY <2>1 DEF Segments
<1> HIDE DEF s, r, n
<1>5. suffix(s, r, m)
    <2>1. Len(s) = m + Len(r)
        BY <1>2, <1>3
    <2>2. \A k \in 1..m : s[k].age > SlidingWindow
        BY <1>1, <1>2, <1>3 DEF suffix
    <2>3. ASSUME NEW k \in 1..Len(r)
          PROVE  r[k] = s[m + k] /\ r[k].age <= SlidingWindow
        <3>1. CASE k = n + 1
            <4>1. m + k = m + n + 1
                BY <1>2, <3>1
            <4> QED
                BY <1>3, <3>1, <4>1, Bounds
        <3>2. CASE k \in 1..n
            <4>1. m + k \in 1..(m + n)
                BY <1>2, <3>2
            <4>2. recent[k] = segs[m + k] /\ recent[k].age <= SlidingWindow
                BY <1>1, <3>2 DEF suffix, n
            <4> QED
                BY <1>3, <3>2, <4>1, <4>2
        <3> QED
            BY <1>2, <1>3, <3>1, <3>2
    <2> QED
        BY <2>1, <2>2, <2>3 DEF suffix
<1>6. ASSUME NEW j \in 1..Len(r), NEW k \in 1..Len(r), j < k
      PROVE  r[k].age <= r[j].age
    <2>1. j \in 1..n /\ r[j] = recent[j]
        BY <1>2, <1>3, <1>6
    <2>2. CASE k = n + 1
        BY <1>3, <1>4, <2>1, <2>2
    <2>3. CASE k \in 1..n
        BY <1>3, <1>6, <2>1, <2>3 DEF windowed, n
    <2> QED
        BY <1>2, <1>3, <2>2, <2>3
<1>7. m \in 0..Len(s)
    BY <1>2, <1>3
<1> QED
    BY <1>5, <1>6, <1>7 DEF windowed, s, r

\* As time passes the oldest segments leave the window, the same ones from
\* p.segments and from the log.
LEMMA WindowOlder ==
    ASSUME NEW segs \in Seq(Segments), NEW recent \in Seq(Segments), windowed(segs, recent)
    PROVE  /\ windowed(older(segs), covered(older(recent)))
           /\ covered(older(recent)) \in Seq(Segments)
           /\ Len(covered(older(recent))) <= Len(recent)
<1> DEFINE s == older(segs)
           r == older(recent)
           c == covered(older(recent))
           n == Len(recent)
<1>1. PICK m \in 0..Len(segs) : suffix(segs, recent, m)
    BY DEF windowed
<1>2. n \in Nat /\ Len(segs) = m + n /\ m \in Nat
    BY <1>1 DEF suffix
<1>3. /\ s \in Seq(Segments) /\ Len(s) = m + n
      /\ \A k \in 1..(m + n) :
            /\ s[k] \in Segments /\ s[k].id = segs[k].id
            /\ s[k].age = IF segs[k].age > SlidingWindow THEN segs[k].age ELSE segs[k].age + 1
    BY <1>2, Older
<1>4. /\ r \in Seq(Segments) /\ Len(r) = n
      /\ \A k \in 1..n :
            /\ r[k] \in Segments /\ r[k].id = recent[k].id
            /\ r[k].age = IF recent[k].age > SlidingWindow THEN recent[k].age ELSE recent[k].age + 1
    BY Older
<1>5. /\ \A k \in 1..n : recent[k].age \in Nat
      /\ \A k \in 1..(m + n) : segs[k].age \in Nat
    <2>1. /\ \A k \in 1..n : recent[k] \in Segments
          /\ \A k \in 1..(m + n) : segs[k] \in Segments
        BY <1>2
    <2> QED
        BY <2>1 DEF Segments
<1>6. /\ \A k \in 1..m : segs[k].age > SlidingWindow
      /\ \A k \in 1..n : recent[k] = segs[m + k] /\ recent[k].age <= SlidingWindow
    BY <1>1 DEF suffix
<1>7. \A j, k \in 1..n : j < k => recent[k].age <= recent[j].age
    BY DEF windowed
<1> HIDE DEF s, r, n
<1>8. ASSUME NEW k \in 1..n
      PROVE  r[k].age = recent[k].age + 1 /\ r[k].age \in Nat
    <2>1. recent[k].age \in Nat /\ recent[k].age <= SlidingWindow
        BY <1>5, <1>6
    <2>2. r[k].age = IF recent[k].age > SlidingWindow THEN recent[k].age ELSE recent[k].age + 1
        BY <1>4
    <2> QED
        BY <2>1, <2>2, Bounds
<1>9. ASSUME NEW j \in 1..n, NEW k \in 1..n, j < k
      PROVE  r[k].age <= r[j].age
    <2>1. recent[k].age <= recent[j].age /\ recent[k].age \in Nat /\ recent[j].age \in Nat
        BY <1>5, <1>7, <1>9
    <2>2. r[k].age = recent[k].age + 1 /\ r[j].age = recent[j].age + 1
        BY <1>8
    <2> QED
        BY <2>1, <2>2
<1>10. PICK d \in 0..n : {k \in 1..n : r[k].age > SlidingWindow} = 1..d
    <2> DEFINE S == {k \in 1..n : r[k].age > SlidingWindow}
    <2>1. ASSUME NEW k \in S, NEW j \in 1..n, j < k
          PROVE  j \in S
        <3>1. r[k].age <= r[j].age /\ r[k].age \in Nat /\ r[j].age \in Nat
            BY <1>8, <1>9, <2>1
        <3>2. r[k].age > SlidingWindow
            OBVIOUS
        <3>3. r[j].age > SlidingWindow
            BY <3>1, <3>2, Bounds
        <3> QED
            BY <3>3
    <2>2. S \in SUBSET (1..n)
        OBVIOUS
    <2> HIDE DEF S
    <2>3. \E d \in 0..n : S = 1..d
        BY <1>2, <2>1, <2>2, Prefix
    <2> QED
        BY <2>3 DEF S
<1>11. /\ \A k \in 1..d : r[k].age > SlidingWindow
       /\ \A k \in (d + 1)..n : r[k].age <= SlidingWindow
    <2>1. \A k \in 1..n : k \in 1..d <=> r[k].age > SlidingWindow
        BY <1>10
    <2>2. \A k \in 1..d : k \in 1..n
        BY <1>2
    <2>3. \A k \in (d + 1)..n : k \in 1..n /\ k \notin 1..d
        BY <1>2
    <2>4. \A k \in 1..n : ~(r[k].age > SlidingWindow) => r[k].age <= SlidingWindow
        BY <1>8, Bounds
    <2> QED
        BY <2>1, <2>2, <2>3, <2>4
<1>12. c \in Seq(Segments) /\ Len(c) = n - d /\ \A k \in 1..(n - d) : c[k] = r[d + k]
    BY <1>4, <1>11, Covered DEF r
<1> HIDE DEF c
<1>13. \A k \in 1..n : r[k] = s[m + k]
    <2> TAKE k \in 1..n
    <2>1. m + k \in 1..(m + n) /\ recent[k] = segs[m + k]
        BY <1>2, <1>6
    <2>2. r[k] \in Segments /\ s[m + k] \in Segments
        BY <1>3, <1>4, <2>1
    <2>3. r[k].id = s[m + k].id /\ r[k].age = s[m + k].age
        BY <1>3, <1>4, <2>1
    <2>4. \A x, y \in Segments : x.id = y.id /\ x.age = y.age => x = y
        BY DEF Segments
    <2> QED
        BY <2>2, <2>3, <2>4
<1>14. suffix(s, c, m + d)
    <2>1. Len(s) = m + d + Len(c)
        BY <1>2, <1>3, <1>12
    <2>2. ASSUME NEW k \in 1..(m + d)
          PROVE  s[k].age > SlidingWindow
        <3>1. CASE k \in 1..m
            <4>1. k \in 1..(m + n) /\ segs[k].age > SlidingWindow
                BY <1>2, <1>6, <3>1
            <4> QED
                BY <1>3, <4>1
        <3>2. CASE k \notin 1..m
            <4> DEFINE j == k - m
            <4>1. j \in 1..d /\ j \in 1..n /\ k = m + j
                BY <1>2, <3>2
            <4> QED
                BY <1>11, <1>13, <4>1
        <3> QED
            BY <3>1, <3>2
    <2>3. ASSUME NEW k \in 1..Len(c)
          PROVE  c[k] = s[(m + d) + k] /\ c[k].age <= SlidingWindow
        <3>1. /\ k \in 1..(n - d) /\ d + k \in (d + 1)..n /\ d + k \in 1..n
              /\ m + (d + k) = (m + d) + k
            BY <1>2, <1>12
        <3> QED
            BY <1>11, <1>12, <1>13, <3>1
    <2>4. Len(s) = (m + d) + Len(c)
        BY <2>1
    <2> QED
        BY <2>2, <2>3, <2>4 DEF suffix
<1>15. ASSUME NEW j \in 1..Len(c), NEW k \in 1..Len(c), j < k
       PROVE  c[k].age <= c[j].age
    <2>1. j \in 1..(n - d) /\ k \in 1..(n - d)
        BY <1>12
    <2>2. d + j \in 1..n /\ d + k \in 1..n /\ d + j < d + k
        BY <1>2, <1>15, <2>1
    <2> QED
        BY <1>9, <1>12, <2>1, <2>2
<1>16. m + d \in 0..Len(s) /\ Len(c) <= n
    BY <1>2, <1>3, <1>12
<1>17. windowed(s, c)
    BY <1>14, <1>15, <1>16 DEF windowed
<1> QED
    BY <1>12, <1>16, <1>17 DEF s, c, n

\* count() leaves exactly what the window covers.
LEMMA WindowTrim ==
    ASSUME NEW segs \in Seq(Segments), NEW recent \in Seq(Segments), windowed(segs, recent)
    PROVE  trimmed(segs) = recent /\ windowed(recent, recent)
<1> DEFINE n == Len(recent)
<1>1. PICK m \in 0..Len(segs) : suffix(segs, recent, m)
    BY DEF windowed
<1>2. n \in Nat /\ Len(segs) = m + n /\ m \in Nat
    BY <1>1 DEF suffix
<1>3. /\ \A k \in 1..m : segs[k].age > SlidingWindow
      /\ \A k \in 1..n : recent[k] = segs[m + k] /\ recent[k].age <= SlidingWindow
    BY <1>1 DEF suffix
<1>4. \A k \in (m + 1)..Len(segs) : segs[k].age <= SlidingWindow
    <2> TAKE k \in (m + 1)..Len(segs)
    <2>1. k - m \in 1..n /\ k = m + (k - m)
        BY <1>2
    <2> QED
        BY <1>3, <2>1
<1>5. trimmed(segs) = SubSeq(segs, m + 1, Len(segs))
    BY <1>3, <1>4, Trimmed
<1>6. trimmed(segs) = recent
    <2> DEFINE t == SubSeq(segs, m + 1, Len(segs))
    <2>1. Len(t) = n /\ t \in Seq(Segments) /\ \A k \in 1..n : t[k] = segs[m + k]
        BY <1>2
    <2> HIDE DEF t
    <2>2. Len(recent) = Len(t) /\ \A k \in 1..Len(recent) : recent[k] = t[k]
        BY <1>3, <2>1
    <2>3. t = recent
        BY <2>1, <2>2, SeqEqual
    <2> QED
        BY <1>5, <2>3 DEF t
<1>7. suffix(recent, recent, 0)
    BY <1>2, <1>3 DEF suffix
<1>8. 0 \in 0..Len(recent)
    BY <1>2
<1> QED
    BY <1>6, <1>7, <1>8 DEF windowed


\* A count gives every stream at most one viewer per user.
LEMMA TallyType ==
    ASSUME NEW choice
    PROVE  tally(choice) \in [StreamIds -> 0..Cardinality(Users)]
<1>1. ASSUME NEW i \in StreamIds
      PROVE  Cardinality({u \in Users : i \in {choice[u][1], choice[u][2]}})
                \in 0..Cardinality(Users)
    <2> DEFINE T == {u \in Users : i \in {choice[u][1], choice[u][2]}}
    <2>1. T \in SUBSET Users
        OBVIOUS
    <2> HIDE DEF T
    <2>2. IsFiniteSet(T) /\ Cardinality(T) <= Cardinality(Users)
        BY <2>1, UsersAssumption, FS_Subset
    <2>3. Cardinality(T) \in Nat /\ Cardinality(Users) \in Nat
        BY <2>2, UsersAssumption, FS_CardinalityType
    <2>4. Cardinality(T) \in 0..Cardinality(Users)
        BY <2>2, <2>3
    <2> QED
        BY <2>4 DEF T
<1> QED
    BY <1>1 DEF tally

\* updateMasterPlaylist gives a stream names only, whatever was fetched.
LEMMA ReadType ==
    ASSUME ReceiverTypeOK, NEW s \in known, NEW playlist \in Playlists
    PROVE  streams[s] \in HLSStreams /\ read(s, playlist) \in SUBSET Names
<1>1. streams[s] \in HLSStreams
    BY DEF ReceiverTypeOK, known
<1>2. streams[s].qualities \in SUBSET Names
    BY <1>1 DEF HLSStreams
<1>3. playlist # NoPlaylist => playlist \in SUBSET Names
    BY NamesAssumption DEF Playlists
<1> QED
    BY <1>1, <1>2, <1>3 DEF read

\* The stream a line has found is one, in the map or gone from it.
LEMMA FoundType ==
    ASSUME ReceiverTypeOK, line # NoLine
    PROVE  line \in Lines /\ found \in HLSStreams
<1>1. line \in Lines
    BY DEF ReceiverTypeOK
<1>2. line.gone \in HLSStreams \cup {NoStream} /\ line.slug \in StreamSlugs
    BY <1>1 DEF Lines
<1> QED
    BY <1>1, <1>2 DEF ReceiverTypeOK, found, known

\* The segment addSegment appends.
fetched == [age |-> 0, id |-> <<line.slug, found.transport, line.name>>]

\* addSegment appends a segment of age zero to the playlist of the line's user.
LEMMA FetchedType ==
    ASSUME ReceiverTypeOK, line # NoLine
    PROVE  line.user \in Users /\ fetched \in Segments /\ fetched.age = 0
<1>1. line \in Lines /\ found \in HLSStreams
    BY FoundType
<1>2. line.user \in Users /\ line.slug \in StreamSlugs /\ line.name \in Names
    BY <1>1 DEF Lines
<1>3. found.transport \in Transports
    BY <1>1 DEF HLSStreams
<1>4. <<line.slug, found.transport, line.name>> \in StreamIds
    BY <1>2, <1>3 DEF StreamIds
<1>5. 0 \in 0..(SlidingWindow + 1)
    BY Bounds
<1> QED
    BY <1>2, <1>4, <1>5 DEF Segments, fetched

\* The history of the log and p.segments go through the same steps.
LEMMA WindowStep ==
    ASSUME ReceiverTypeOK, WindowInv, [ReceiverNext]_receiverVars
    PROVE  {segments', log'} \subseteq [Users -> SegmentLists] /\ WindowInv'
<1>1. /\ segments \in [Users -> SegmentLists] /\ log \in [Users -> SegmentLists]
      /\ \A u \in Users :
            /\ segments[u] \in Seq(Segments) /\ Len(segments[u]) <= MaxSegments
            /\ log[u] \in Seq(Segments) /\ Len(log[u]) <= MaxSegments
            /\ windowed(segments[u], log[u])
    BY SegmentList DEF ReceiverTypeOK, WindowInv
<1>2. segments' = segments /\ log' = log /\ (line' = line \/ line' = NoLine) =>
          {segments', log'} \subseteq [Users -> SegmentLists] /\ WindowInv'
    BY <1>1 DEF WindowInv
<1>3. ASSUME NEW s \in StreamSlugs, NEW t \in Transports, addStream(s, t) \/ ChangeMaster(s, t)
      PROVE  segments' = segments /\ log' = log /\ line' = line
    BY <1>3 DEF addStream, ChangeMaster
<1>4. ASSUME NEW u \in Users, NEW s \in StreamSlugs, NEW n \in Names, FindStream(u, s, n)
      PROVE  {segments', log'} \subseteq [Users -> SegmentLists] /\ WindowInv'
    <2>1. line'.user = u /\ UNCHANGED <<segments, log>> /\ Len(segments[u]) < MaxSegments
        BY <1>4 DEF FindStream
    <2> QED
        BY <1>1, <2>1 DEF WindowInv
<1>5. ASSUME GetQuality
      PROVE  {segments', log'} \subseteq [Users -> SegmentLists] /\ WindowInv'
    <2>1. line # NoLine /\ line' = NoLine /\ segments' = added(segments) /\ log' = added(log)
        BY <1>5 DEF GetQuality
    <2>2. line.user \in Users /\ fetched \in Segments /\ fetched.age = 0
        BY <2>1, FetchedType
    <2>3. CASE line.name \notin found.qualities
        <3>1. segments' = segments /\ log' = log
            BY <2>1, <2>3 DEF added
        <3> QED
            BY <1>2, <2>1, <3>1
    <2>4. CASE line.name \in found.qualities
        <3> DEFINE u == line.user
        <3>1. /\ segments' = [segments EXCEPT ![u] = Append(segments[u], fetched)]
              /\ log' = [log EXCEPT ![u] = Append(log[u], fetched)]
            BY <1>1, <2>1, <2>2, <2>4 DEF added, fetched
        <3>2. Len(segments[u]) < MaxSegments
            BY <2>1 DEF WindowInv
        <3> HIDE DEF u
        <3>3. windowed(Append(segments[u], fetched), Append(log[u], fetched))
            BY <1>1, <2>2, WindowAppend DEF u
        <3>4. /\ Append(segments[u], fetched) \in Seq(Segments)
              /\ Len(Append(segments[u], fetched)) <= MaxSegments
              /\ Append(log[u], fetched) \in Seq(Segments)
              /\ Len(Append(log[u], fetched)) <= MaxSegments
            <4>1. Len(log[u]) <= Len(segments[u])
                BY <1>1, <2>2 DEF windowed, suffix, u
            <4> QED
                BY <1>1, <2>2, <3>2, <4>1, Bounds DEF u
        <3>5. /\ Append(segments[u], fetched) \in SegmentLists
              /\ Append(log[u], fetched) \in SegmentLists
            BY <3>4, SegmentList, Zenon
        <3>6. \A v \in Users : windowed(segments'[v], log'[v])
            BY <1>1, <3>1, <3>3
        <3> QED
            BY <1>1, <2>1, <3>1, <3>5, <3>6 DEF WindowInv
    <2> QED
        BY <2>3, <2>4
<1>6. CASE UpdatePlaylists
    <2>1. UNCHANGED <<segments, log>>
        BY <1>6 DEF UpdatePlaylists
    <2>2. \/ line' = line
          \/ line # NoLine /\ \E stream : line' = [line EXCEPT !.gone = stream]
        BY <1>6 DEF UpdatePlaylists
    <2>3. CASE line # NoLine /\ \E stream : line' = [line EXCEPT !.gone = stream]
        <3>1. line \in Lines
            BY <2>3 DEF ReceiverTypeOK
        <3>2. line'.user = line.user
            BY <2>3, <3>1 DEF Lines
        <3> QED
            BY <1>1, <2>1, <2>3, <3>2 DEF WindowInv
    <2> QED
        BY <1>2, <2>1, <2>2, <2>3
<1>7. CASE Collect
    <2>1. line' = line /\ log' = log /\ segments' = [u \in Users |-> trimmed(segments[u])]
        BY <1>7 DEF Collect
    <2>2. \A u \in Users : trimmed(segments[u]) = log[u] /\ windowed(log[u], log[u])
        BY <1>1, WindowTrim
    <2>3. \A u \in Users : segments'[u] = log[u]
        BY <2>1, <2>2
    <2>4. segments' = log
        BY <1>1, <2>1, <2>3
    <2>5. \A u \in Users : Len(log[u]) <= Len(segments[u])
        BY <1>1 DEF windowed, suffix
    <2>6. line # NoLine => line.user \in Users
        BY FetchedType
    <2>7. line # NoLine => Len(segments'[line.user]) < MaxSegments
        BY <1>1, <2>4, <2>5, <2>6, Bounds DEF WindowInv
    <2> QED
        BY <1>1, <2>1, <2>2, <2>4, <2>7 DEF WindowInv
<1>8. CASE Advance
    <2>1. /\ line = NoLine /\ line' = line
          /\ segments' = [u \in Users |-> older(segments[u])]
          /\ log' = [u \in Users |-> covered(older(log[u]))]
        BY <1>8 DEF Advance
    <2>2. ASSUME NEW u \in Users
          PROVE  /\ segments'[u] \in SegmentLists /\ log'[u] \in SegmentLists
                 /\ windowed(segments'[u], log'[u])
        <3>1. segments'[u] = older(segments[u]) /\ log'[u] = covered(older(log[u]))
            BY <2>1
        <3>2. /\ windowed(segments'[u], log'[u])
              /\ log'[u] \in Seq(Segments) /\ Len(log'[u]) <= Len(log[u])
            BY <1>1, <3>1, WindowOlder
        <3>3. segments'[u] \in Seq(Segments) /\ Len(segments'[u]) = Len(segments[u])
            BY <1>1, <3>1, Older
        <3>4. Len(log'[u]) <= MaxSegments /\ Len(segments'[u]) <= MaxSegments
            BY <1>1, <3>2, <3>3, Bounds
        <3> QED
            BY <3>2, <3>3, <3>4, SegmentList
    <2> QED
        BY <2>1, <2>2 DEF WindowInv
<1>9. ASSUME NEW s \in StreamSlugs, NEW i \in 1..MaxFetches,
             Fetch(s, i) \/ updateMasterPlaylist(s, i)
      PROVE  segments' = segments /\ log' = log /\ line' = line
    BY <1>9 DEF Fetch, updateMasterPlaylist
<1>10. ASSUME UNCHANGED receiverVars
       PROVE  segments' = segments /\ log' = log /\ line' = line
    BY <1>10 DEF receiverVars
<1> QED
    BY <1>2, <1>3, <1>4, <1>5, <1>6, <1>7, <1>8, <1>9, <1>10 DEF ReceiverNext

\* A fetch that has ended leaves the others in their order.
LEMMA RemoveAtType ==
    ASSUME NEW S, NEW q \in Seq(S), NEW i \in DOMAIN q
    PROVE  RemoveAt(q, i) \in Seq(S)
<1>1. i \in 1..Len(q) /\ Len(q) \in Nat
    OBVIOUS
<1>2. SubSeq(q, 1, i - 1) \in Seq(S) /\ SubSeq(q, i + 1, Len(q)) \in Seq(S)
    BY <1>1
<1> QED
    BY <1>2 DEF RemoveAt

\* The part of ReceiverTypeOK about streams, their fetches and the line.
mapTypeOK ==
    /\ streams \in [StreamSlugs -> HLSStreams \cup {NoStream}]
    /\ fetches \in [StreamSlugs -> Seq(Playlists \cup {Started})]
    /\ \A s \in StreamSlugs : fetches[s] # <<>> => s \in known
    /\ line \in Lines \cup {NoLine}
    /\ line # NoLine => line.gone # NoStream \/ line.slug \in known

\* Fetches and a line in progress outlive no stream but the one they hold.
LEMMA MapStep ==
    ASSUME ReceiverTypeOK, ReceiverNext
    PROVE  mapTypeOK'
<1>1. /\ streams \in [StreamSlugs -> HLSStreams \cup {NoStream}]
      /\ fetches \in [StreamSlugs -> Seq(Playlists \cup {Started})]
      /\ \A s \in StreamSlugs : fetches[s] # <<>> => s \in known
      /\ line \in Lines \cup {NoLine}
      /\ line # NoLine => line.gone # NoStream \/ line.slug \in known
      /\ master \in [StreamSlugs \X Transports -> Playlists]
    BY DEF ReceiverTypeOK
<1>2. \A s \in known : s \in StreamSlugs /\ streams[s] \in HLSStreams
    BY <1>1 DEF known
<1>3. streams' = streams /\ fetches' = fetches /\ line' = line => mapTypeOK'
    BY <1>1 DEF mapTypeOK, known
<1>4. ASSUME NEW s \in StreamSlugs, NEW t \in Transports, addStream(s, t)
      PROVE  mapTypeOK'
    <2> DEFINE new == [transport |-> t, qualities |-> {}, idle |-> 0]
    <2>1. /\ streams' = [streams EXCEPT ![s] = new]
          /\ fetches' = fetches /\ line' = line /\ streams[s] = NoStream /\ line = NoLine
        BY <1>4 DEF addStream
    <2>2. new \in HLSStreams
        BY Bounds DEF HLSStreams
    <2> HIDE DEF new
    <2>3. new # NoStream
        BY <2>2, NoStreamAssumption
    <2>4. known' = known \cup {s}
        BY <1>1, <2>1, <2>3 DEF known
    <2> QED
        BY <1>1, <2>1, <2>2, <2>4 DEF mapTypeOK
<1>5. ASSUME NEW s \in StreamSlugs, NEW t \in Transports, ChangeMaster(s, t)
      PROVE  streams' = streams /\ fetches' = fetches /\ line' = line
    BY <1>5 DEF ChangeMaster
<1>6. ASSUME NEW u \in Users, NEW s \in StreamSlugs, NEW n \in Names, FindStream(u, s, n)
      PROVE  mapTypeOK'
    <2>1. /\ line' = [user |-> u, slug |-> s, name |-> n, gone |-> NoStream]
          /\ streams' = streams /\ fetches' = fetches /\ s \in known
        BY <1>6 DEF FindStream, known
    <2>2. line' \in Lines /\ line'.slug = s
        BY <2>1 DEF Lines
    <2>3. known' = known
        BY <2>1 DEF known
    <2> QED
        BY <1>1, <2>1, <2>2, <2>3 DEF mapTypeOK
<1>7. CASE GetQuality
    <2>1. /\ line # NoLine /\ line' = NoLine /\ fetches' = fetches
          /\ streams' = IF line.gone = NoStream THEN [streams EXCEPT ![line.slug].idle = 0]
                                                ELSE streams
        BY <1>7 DEF GetQuality
    <2>2. ASSUME line.gone = NoStream
          PROVE  /\ streams' \in [StreamSlugs -> HLSStreams \cup {NoStream}]
                 /\ known' = known
        <3> DEFINE s == line.slug
                   new == [streams[s] EXCEPT !.idle = 0]
        <3>1. s \in known /\ streams[s] \in HLSStreams
            BY <1>1, <1>2, <2>1, <2>2
        <3>2. new \in HLSStreams
            BY <3>1, Bounds DEF HLSStreams
        <3>3. streams' = [streams EXCEPT ![s] = new]
            BY <1>1, <1>2, <2>1, <2>2, <3>1
        <3> HIDE DEF s, new
        <3>4. new # NoStream /\ s \in StreamSlugs
            BY <1>2, <3>1, <3>2, NoStreamAssumption
        <3> QED
            BY <1>1, <3>1, <3>2, <3>3, <3>4 DEF known
    <2>3. ASSUME line.gone # NoStream
          PROVE  /\ streams' \in [StreamSlugs -> HLSStreams \cup {NoStream}]
                 /\ known' = known
        BY <1>1, <2>1, <2>3 DEF known
    <2> QED
        BY <1>1, <2>1, <2>2, <2>3 DEF mapTypeOK
<1>8. CASE UpdatePlaylists
    <2>1. /\ streams' = [s \in StreamSlugs |-> IF s \in expired THEN NoStream ELSE streams[s]]
          /\ fetches' = [s \in StreamSlugs |->
                           IF started(s) THEN Append(fetches[s], Started) ELSE <<>>]
        BY <1>8 DEF UpdatePlaylists
    <2>2. IF line # NoLine /\ line.slug \in expired /\ line.gone = NoStream
          THEN \E stream \in leaving(line.slug) : line' = [line EXCEPT !.gone = stream]
          ELSE line' = line
        BY <1>8 DEF UpdatePlaylists
    <2>3. expired \subseteq known
        BY DEF expired
    <2>4. known' = known \ expired
        BY <2>1, <2>3 DEF known
    <2>5. streams' \in [StreamSlugs -> HLSStreams \cup {NoStream}]
        BY <1>1, <2>1
    <2>6. ASSUME NEW s \in StreamSlugs
          PROVE  /\ fetches'[s] \in Seq(Playlists \cup {Started})
                 /\ fetches'[s] # <<>> => s \in known'
        <3>1. CASE started(s)
            <4>1. s \in known'
                BY <2>4, <3>1 DEF started
            <4>2. fetches'[s] = Append(fetches[s], Started)
                BY <2>1, <3>1
            <4> QED
                BY <1>1, <4>1, <4>2
        <3>2. CASE ~started(s)
            BY <2>1, <3>2
        <3> QED
            BY <3>1, <3>2
    <2>7. fetches' \in [StreamSlugs -> Seq(Playlists \cup {Started})]
        BY <2>1, <2>6
    <2>8. /\ line' \in Lines \cup {NoLine}
          /\ line' # NoLine => line'.gone # NoStream \/ line'.slug \in known'
        <3>1. CASE line # NoLine /\ line.slug \in expired /\ line.gone = NoStream
            <4>1. line \in Lines /\ streams[line.slug] \in HLSStreams
                BY <1>1, <1>2, <2>3, <3>1
            <4>2. PICK g \in leaving(line.slug) : line' = [line EXCEPT !.gone = g]
                BY <2>2, <3>1
            <4>3. g \in HLSStreams
                <5>1. PICK q : g = [streams[line.slug] EXCEPT !.qualities = q]
                               /\ q \in {streams[line.slug].qualities} \cup Masters
                    BY <4>2 DEF leaving
                <5>2. q \in SUBSET Names
                    BY <4>1, <5>1, NamesAssumption DEF HLSStreams
                <5> QED
                    BY <4>1, <5>1, <5>2 DEF HLSStreams
            <4>4. line' \in Lines /\ line'.gone = g
                BY <4>1, <4>2, <4>3 DEF Lines
            <4> QED
                BY <4>3, <4>4, NoStreamAssumption
        <3>2. CASE ~(line # NoLine /\ line.slug \in expired /\ line.gone = NoStream)
            BY <1>1, <2>2, <2>4, <3>2
        <3> QED
            BY <3>1, <3>2
    <2> QED
        BY <2>5, <2>6, <2>7, <2>8 DEF mapTypeOK
<1>9. CASE Collect
    BY <1>3, <1>9 DEF Collect
<1>10. CASE Advance
    <2>1. /\ fetches' = fetches /\ line' = line /\ line = NoLine
          /\ streams' = [s \in StreamSlugs |->
                IF s \in known
                THEN [streams[s] EXCEPT !.idle = IF @ > StreamTimeout THEN @ ELSE @ + 1]
                ELSE NoStream]
        BY <1>10 DEF Advance
    <2>2. ASSUME NEW s \in known
          PROVE  streams'[s] \in HLSStreams
        <3> DEFINE time(a) == IF a > StreamTimeout THEN a ELSE a + 1
        <3>1. streams'[s] = [streams[s] EXCEPT !.idle = time(@)]
            BY <1>2, <2>1
        <3>2. \A a \in 0..(StreamTimeout + 1) : time(a) \in 0..(StreamTimeout + 1)
            BY Bounds
        <3>3. streams[s] \in HLSStreams
            BY <1>2
        <3> HIDE DEF time
        <3> QED
            BY <3>1, <3>2, <3>3 DEF HLSStreams
    <2>3. \A s \in StreamSlugs \ known : streams'[s] = NoStream
        BY <2>1
    <2>4. known' = known
        BY <1>2, <2>1, <2>2, <2>3, NoStreamAssumption DEF known
    <2>5. streams' \in [StreamSlugs -> HLSStreams \cup {NoStream}]
        <3>1. \A s \in StreamSlugs : streams'[s] \in HLSStreams \cup {NoStream}
            BY <2>2, <2>3
        <3> QED
            BY <2>1, <3>1
    <2> QED
        BY <1>1, <2>1, <2>4, <2>5 DEF mapTypeOK
<1>11. ASSUME NEW s \in StreamSlugs, NEW i \in 1..MaxFetches, Fetch(s, i)
       PROVE  mapTypeOK'
    <2> DEFINE answer == master[<<s, streams[s].transport>>]
    <2>1. /\ i \in DOMAIN fetches[s] /\ streams' = streams /\ line' = line
          /\ fetches' = [fetches EXCEPT ![s] = [fetches[s] EXCEPT ![i] = answer]]
        BY <1>1, <1>11 DEF Fetch
    <2>2. s \in known
        BY <1>1, <2>1
    <2>3. answer \in Playlists
        <3>1. streams[s].transport \in Transports
            BY <1>2, <2>2 DEF HLSStreams
        <3> QED
            BY <1>1, <3>1
    <2> HIDE DEF answer
    <2>4. [fetches[s] EXCEPT ![i] = answer] \in Seq(Playlists \cup {Started})
        BY <1>1, <2>1, <2>3
    <2>5. known' = known
        BY <2>1 DEF known
    <2> QED
        BY <1>1, <2>1, <2>2, <2>4, <2>5 DEF mapTypeOK
<1>12. ASSUME NEW s \in StreamSlugs, NEW i \in 1..MaxFetches, updateMasterPlaylist(s, i)
       PROVE  mapTypeOK'
    <2> DEFINE names == read(s, fetches[s][i])
               new == [streams[s] EXCEPT !.qualities = names]
    <2>1. /\ i \in DOMAIN fetches[s] /\ fetches[s][i] # Started /\ line' = line
          /\ fetches' = [fetches EXCEPT ![s] = RemoveAt(fetches[s], i)]
          /\ streams' = [streams EXCEPT ![s] = new]
        BY <1>1, <1>12 DEF updateMasterPlaylist
    <2>2. s \in known /\ fetches[s][i] \in Playlists
        BY <1>1, <2>1
    <2>3. streams[s] \in HLSStreams /\ names \in SUBSET Names
        BY <2>2, ReadType
    <2> HIDE DEF names
    <2>4. new \in HLSStreams
        BY <2>3 DEF HLSStreams
    <2> HIDE DEF new
    <2>5. RemoveAt(fetches[s], i) \in Seq(Playlists \cup {Started})
        BY <1>1, <2>1, RemoveAtType
    <2>6. known' = known
        BY <1>1, <2>1, <2>2, <2>4, NoStreamAssumption DEF known
    <2> QED
        BY <1>1, <2>1, <2>2, <2>4, <2>5, <2>6 DEF mapTypeOK
<1> QED
    BY <1>3, <1>4, <1>5, <1>6, <1>7, <1>8, <1>9, <1>10, <1>11, <1>12 DEF ReceiverNext

\* Types and the window are kept together: that p.segments stays within its
\* bound rests on the room the line in progress was given.
LEMMA ReceiverStep ==
    ReceiverTypeOK /\ WindowInv /\ [ReceiverNext]_receiverVars => ReceiverTypeOK' /\ WindowInv'
<1> SUFFICES ASSUME ReceiverTypeOK, WindowInv, [ReceiverNext]_receiverVars
             PROVE  ReceiverTypeOK' /\ WindowInv'
    OBVIOUS
<1>1. {segments', log'} \subseteq [Users -> SegmentLists] /\ WindowInv'
    BY WindowStep
<1>2. CASE UNCHANGED receiverVars
    BY <1>1, <1>2 DEF ReceiverTypeOK, receiverVars, known
<1>3. CASE ReceiverNext
    <2>1. mapTypeOK'
        BY <1>3, MapStep
    <2>2. /\ viewers' \in [StreamIds -> 0..Cardinality(Users)]
          /\ sinceCount' \in 0..(CountInterval + 1)
          /\ timer' \in 1..TickInterval /\ tick' \in BOOLEAN
          /\ master' \in [StreamSlugs \X Transports -> Playlists]
        <3>1. /\ viewers \in [StreamIds -> 0..Cardinality(Users)]
              /\ sinceCount \in 0..(CountInterval + 1)
              /\ timer \in 1..TickInterval /\ tick \in BOOLEAN
              /\ master \in [StreamSlugs \X Transports -> Playlists]
            BY DEF ReceiverTypeOK
        <3>2. CASE Collect
            <4>1. /\ sinceCount' = 0 /\ timer' = timer /\ tick' = tick /\ master' = master
                  /\ \E choice \in Picks : viewers' = tally(choice)
                BY <3>2 DEF Collect
            <4> QED
                BY <3>1, <4>1, TallyType, Bounds
        <3>3. CASE Advance
            <4>1. /\ timer' = (IF timer = 1 THEN TickInterval ELSE timer - 1)
                  /\ tick' = (timer = 1) /\ viewers' = viewers /\ master' = master
                  /\ sinceCount' = (IF sinceCount > CountInterval THEN sinceCount
                                                                  ELSE sinceCount + 1)
                BY <3>3 DEF Advance
            <4>2. timer' \in 1..TickInterval /\ sinceCount' \in 0..(CountInterval + 1)
                BY <3>1, <4>1, Bounds
            <4>3. tick' \in BOOLEAN
                BY <4>1
            <4> QED
                BY <3>1, <4>1, <4>2, <4>3
        <3>4. ASSUME NEW s \in StreamSlugs, NEW t \in Transports, ChangeMaster(s, t)
              PROVE  /\ master' \in [StreamSlugs \X Transports -> Playlists]
                     /\ viewers' = viewers /\ sinceCount' = sinceCount
                     /\ timer' = timer /\ tick' = tick
            BY <3>1, <3>4 DEF ChangeMaster
        <3>5. CASE UpdatePlaylists
            <4>1. /\ tick' = FALSE /\ viewers' = viewers /\ sinceCount' = sinceCount
                  /\ timer' = timer /\ master' = master
                BY <3>5 DEF UpdatePlaylists
            <4> QED
                BY <3>1, <4>1
        <3>6. ASSUME \/ \E s \in StreamSlugs, t \in Transports : addStream(s, t)
                     \/ \E u \in Users, s \in StreamSlugs, n \in Names : FindStream(u, s, n)
                     \/ GetQuality
                     \/ \E s \in StreamSlugs, i \in 1..MaxFetches :
                           Fetch(s, i) \/ updateMasterPlaylist(s, i)
              PROVE  UNCHANGED <<viewers, sinceCount, timer, tick, master>>
            BY <3>6 DEF addStream, FindStream, GetQuality, Fetch, updateMasterPlaylist
        <3> QED
            BY <1>3, <3>1, <3>2, <3>3, <3>4, <3>5, <3>6 DEF ReceiverNext
    <2> QED
        BY <1>1, <2>1, <2>2 DEF ReceiverTypeOK, mapTypeOK
<1> QED
    BY <1>2, <1>3

\* Whatever is logged, and whenever lines are read and the timer counts, the
\* receiver keeps its types and the log stays the end of its playlists.
LEMMA ReceiverInvariant == ReceiverSpec => [](ReceiverTypeOK /\ WindowInv)
<1>1. ReceiverInit => ReceiverTypeOK /\ WindowInv
    <2> SUFFICES ASSUME ReceiverInit
                 PROVE  ReceiverTypeOK /\ WindowInv
        OBVIOUS
    <2>1. <<>> \in Seq(Segments) /\ Len(<<>>) = 0
        OBVIOUS
    <2>2. <<>> \in SegmentLists
        <3>1. Len(<<>>) <= MaxSegments
            BY <2>1, Bounds
        <3> QED
            BY <2>1, <3>1, SegmentList, Zenon
    <2>3. segments \in [Users -> SegmentLists] /\ log \in [Users -> SegmentLists]
        BY <2>2 DEF ReceiverInit
    <2>4. windowed(<<>>, <<>>)
        <3>1. suffix(<<>>, <<>>, 0)
            BY <2>1 DEF suffix
        <3>2. 0 \in 0..Len(<<>>) /\ 1..Len(<<>>) = {}
            BY <2>1
        <3> QED
            BY <3>1, <3>2 DEF windowed
    <2>5. WindowInv
        BY <2>4 DEF ReceiverInit, WindowInv
    <2>6. viewers \in [StreamIds -> 0..Cardinality(Users)]
        <3>1. 0 \in 0..Cardinality(Users)
            BY UsersAssumption, FS_CardinalityType
        <3> QED
            BY <3>1 DEF ReceiverInit
    <2>7. mapTypeOK
        BY DEF ReceiverInit, mapTypeOK, known
    <2>8. /\ sinceCount \in 0..(CountInterval + 1)
          /\ timer \in 1..TickInterval /\ tick \in BOOLEAN
          /\ master \in [StreamSlugs \X Transports -> Playlists]
        <3>1. sinceCount = CountInterval + 1 /\ timer = TickInterval /\ tick = FALSE
            BY DEF ReceiverInit
        <3>2. sinceCount \in 0..(CountInterval + 1) /\ timer \in 1..TickInterval
            BY <3>1, Bounds
        <3> QED
            BY <3>1, <3>2 DEF ReceiverInit
    <2> QED
        BY <2>3, <2>5, <2>6, <2>7, <2>8 DEF ReceiverTypeOK, mapTypeOK
<1> QED
    BY <1>1, ReceiverStep, PTL DEF ReceiverSpec

\* The log receiver keeps its types: fetches belong to streams of the map, and
\* a line that has found a stream still has one when the stream has expired.
THEOREM ReceiverTypeCorrect == ReceiverSpec => []ReceiverTypeOK
BY ReceiverInvariant, PTL

\* A stream counts as often for a user in p.segments, where count() skips what
\* is outdated, as in the log.
LEMMA WatchedTimes ==
    ASSUME ReceiverTypeOK, WindowInv, NEW u \in Users, NEW i
    PROVE  Cardinality({k \in DOMAIN segments[u] :
                          segments[u][k].id = i /\ ~outdated(segments[u][k])}) = times(u, i)
<1> DEFINE segs == segments[u]
           recent == log[u]
           n == Len(recent)
           A == {k \in DOMAIN recent : recent[k].id = i}
           B == {k \in DOMAIN segs : segs[k].id = i /\ ~outdated(segs[k])}
<1>1. segs \in Seq(Segments) /\ recent \in Seq(Segments) /\ windowed(segs, recent)
    BY SegmentList DEF ReceiverTypeOK, WindowInv
<1>2. PICK m \in 0..Len(segs) : suffix(segs, recent, m)
    BY <1>1 DEF windowed
<1>3. n \in Nat /\ Len(segs) = m + n /\ m \in Nat
    BY <1>1, <1>2 DEF suffix
<1>4. DOMAIN segs = 1..(m + n) /\ DOMAIN recent = 1..n
    BY <1>1, <1>3
<1>5. /\ \A k \in 1..m : segs[k].age > SlidingWindow
      /\ \A k \in 1..n : recent[k] = segs[m + k] /\ recent[k].age <= SlidingWindow
    BY <1>2 DEF suffix
<1>6. \A k \in 1..(m + n) : segs[k].age \in Nat
    <2>1. \A k \in 1..(m + n) : segs[k] \in Segments
        BY <1>1, <1>3
    <2> QED
        BY <2>1 DEF Segments
<1> HIDE DEF segs, recent, n
<1> DEFINE f == [k \in A |-> m + k]
<1>7. ASSUME NEW k \in A
      PROVE  m + k \in B
    <2>1. k \in 1..n /\ recent[k].id = i /\ m + k \in 1..(m + n)
        BY <1>3, <1>4
    <2>2. segs[m + k].id = i /\ segs[m + k].age <= SlidingWindow
        BY <1>5, <2>1
    <2>3. ~outdated(segs[m + k])
        BY <1>6, <2>1, <2>2, Bounds DEF outdated
    <2> QED
        BY <1>4, <2>1, <2>2, <2>3
<1>8. ASSUME NEW k \in B
      PROVE  \E j \in A : k = m + j
    <2>1. k \in 1..(m + n) /\ segs[k].id = i /\ segs[k].age <= SlidingWindow
        BY <1>4, <1>6, Bounds DEF outdated
    <2>2. k \notin 1..m
        BY <1>5, <1>6, <2>1, Bounds
    <2>3. k - m \in 1..n /\ k = m + (k - m)
        BY <1>3, <2>1, <2>2
    <2>4. recent[k - m].id = i
        BY <1>5, <2>1, <2>3
    <2> QED
        BY <1>4, <2>3, <2>4
<1>9. A \subseteq Nat /\ IsFiniteSet(A)
    <2>1. A \in SUBSET (1..n)
        BY <1>4
    <2> HIDE DEF A
    <2>2. IsFiniteSet(1..n)
        BY <1>3, FS_Interval
    <2>3. IsFiniteSet(A)
        BY <2>1, <2>2, FS_Subset
    <2>4. A \subseteq Nat
        BY <1>3, <2>1
    <2> QED
        BY <2>3, <2>4
<1> HIDE DEF A, B
<1>10. f \in Bijection(A, B)
    <2>1. f \in [A -> B]
        BY <1>7
    <2>2. \A j, k \in A : f[j] = f[k] => j = k
        BY <1>3, <1>9
    <2>3. \A k \in B : \E j \in A : f[j] = k
        BY <1>8
    <2> QED
        BY <2>1, <2>2, <2>3 DEF Bijection, Injection, Surjection, IsInjective
<1>11. Cardinality(B) = Cardinality(A)
    BY <1>9, <1>10, FS_Bijection DEF ExistsBijection
<1> QED
    BY <1>11 DEF A, B, segs, recent, times

\* How often a user fetched a stream is a number.
LEMMA TimesNat ==
    ASSUME ReceiverTypeOK, NEW u \in Users, NEW i
    PROVE  times(u, i) \in Nat
<1> DEFINE A == {k \in DOMAIN log[u] : log[u][k].id = i}
<1>1. PICK n \in 0..MaxSegments : DOMAIN log[u] = 1..n
    BY DEF ReceiverTypeOK, SegmentLists
<1>2. n \in Nat
    BY <1>1, Bounds
<1>3. A \in SUBSET (1..n)
    BY <1>1
<1> HIDE DEF A
<1>4. IsFiniteSet(A)
    <2>1. IsFiniteSet(1..n)
        BY <1>2, FS_Interval
    <2> QED
        BY <1>3, <2>1, FS_Subset
<1> QED
    BY <1>4, FS_CardinalityType DEF times, A

\* maxQuality finds a stream that the log has most often, and misses none.
LEMMA MaxQualityPicks ==
    ASSUME ReceiverTypeOK, WindowInv, NEW u \in Users, NEW ids,
           NEW i \in maxQuality(watched(segments[u], ids))
    PROVE  picks(u, ids, i)
<1> DEFINE count == watched(segments[u], ids)
<1>1. count = [j \in ids |-> times(u, j)]
    BY WatchedTimes DEF watched
<1>2. DOMAIN count = ids /\ \A j \in ids : count[j] = times(u, j)
    BY <1>1
<1> HIDE DEF count
<1> DEFINE top == {k \in DOMAIN count : \A j \in DOMAIN count : count[j] <= count[k]}
           enough == {k \in top : count[k] > MinSegments}
<1>3. enough = {k \in most(u, ids) : times(u, k) > MinSegments}
    BY <1>2 DEF most
<1>4. i \in (IF enough = {} THEN {<<>>} ELSE enough)
    BY DEF maxQuality, count
<1> HIDE DEF enough
<1>5. CASE enough = {}
    <2>1. \A j \in most(u, ids) : times(u, j) <= MinSegments
        BY <1>3, <1>5, TimesNat, Bounds
    <2> QED
        BY <1>4, <1>5, <2>1 DEF picks
<1>6. CASE enough # {}
    <2>1. i \in most(u, ids) /\ times(u, i) > MinSegments
        BY <1>3, <1>4, <1>6
    <2>2. times(u, i) > 0 /\ times(u, i) >= MinSegments
        BY <2>1, TimesNat, Bounds
    <2> QED
        BY <2>1, <2>2 DEF picks
<1> QED
    BY <1>5, <1>6

\* Only a count sets the clock of the counts back, and it agrees with the log.
LEMMA CountStep ==
    ASSUME ReceiverTypeOK, WindowInv, [ReceiverNext]_receiverVars, sinceCount' < sinceCount
    PROVE  /\ segments' = log
           /\ \E choice \in Picks :
                 /\ \A u \in Users :
                       picks(u, VideoIds, choice[u][1]) /\ picks(u, AudioIds, choice[u][2])
                 /\ viewers' = tally(choice)
<1>1. Collect
    <2>1. sinceCount \in Nat
        BY Bounds DEF ReceiverTypeOK
    <2>2. ASSUME Advance
          PROVE  FALSE
        <3>1. sinceCount' = IF sinceCount > CountInterval THEN sinceCount ELSE sinceCount + 1
            BY <2>2 DEF Advance
        <3> QED
            BY <2>1, <3>1, Bounds
    <2>3. ASSUME \/ \E s \in StreamSlugs, t \in Transports : addStream(s, t) \/ ChangeMaster(s, t)
                 \/ \E u \in Users, s \in StreamSlugs, n \in Names : FindStream(u, s, n)
                 \/ GetQuality \/ UpdatePlaylists
                 \/ \E s \in StreamSlugs, i \in 1..MaxFetches :
                       Fetch(s, i) \/ updateMasterPlaylist(s, i)
                 \/ UNCHANGED receiverVars
          PROVE  sinceCount' = sinceCount
        BY <2>3 DEF addStream, ChangeMaster, FindStream, GetQuality, UpdatePlaylists, Fetch,
                    updateMasterPlaylist, receiverVars
    <2>4. sinceCount' # sinceCount
        BY <2>1
    <2> QED
        BY <2>2, <2>3, <2>4 DEF ReceiverNext
<1>2. segments' = log
    <2>1. segments' = [u \in Users |-> trimmed(segments[u])]
        BY <1>1 DEF Collect
    <2>2. log \in [Users -> SegmentLists] /\ segments \in [Users -> SegmentLists]
        BY DEF ReceiverTypeOK
    <2>3. \A u \in Users : trimmed(segments[u]) = log[u]
        BY <2>2, SegmentList, WindowTrim DEF WindowInv
    <2> QED
        BY <2>1, <2>2, <2>3
<1>3. PICK choice \in Picks :
          /\ \A u \in Users :
                /\ choice[u][1] \in maxQuality(watched(segments[u], VideoIds))
                /\ choice[u][2] \in maxQuality(watched(segments[u], AudioIds))
          /\ viewers' = tally(choice)
    BY <1>1 DEF Collect
<1>4. \A u \in Users :
          picks(u, VideoIds, choice[u][1]) /\ picks(u, AudioIds, choice[u][2])
    BY <1>3, MaxQualityPicks
<1> QED
    BY <1>2, <1>3, <1>4

\* Every count is exact: of all that a user fetched within the sliding window,
\* however lines, counts and the passing of time alternate, each who fetched more
\* than MinSegments counts for one most watched video and one most watched audio
\* stream, nobody counts who fetched fewer, and nothing older stays.
THEOREM CountsAreExact == ReceiverSpec => CountIsExact
<1>1. ReceiverTypeOK /\ WindowInv /\ [ReceiverNext]_receiverVars =>
        [sinceCount' < sinceCount =>
           /\ segments' = log
           /\ \E choice \in Picks :
                 /\ \A u \in Users :
                       picks(u, VideoIds, choice[u][1]) /\ picks(u, AudioIds, choice[u][2])
                 /\ viewers' = tally(choice)]_receiverVars
    BY CountStep
<1> QED
    BY <1>1, ReceiverInvariant, PTL DEF ReceiverSpec, CountIsExact
=============================================================================
