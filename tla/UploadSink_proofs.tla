------------------------- MODULE UploadSink_proofs --------------------------
(***************************************************************************)
(* Proofs about UploadSink for every number of producers, every queue size *)
(* and every bound on uploads and reloads.                                 *)
(***************************************************************************)
EXTENDS UploadSink, SequenceTheorems, TLAPS

\* An aged entry is the same upload.
LEMMA AgedEntry ==
    ASSUME NEW e \in Entries
    PROVE  aged(e) \in Entries /\ aged(e).producer = e.producer /\ aged(e).n = e.n
BY DEF Entries, aged, later

\* Time passing ages the entries of the queue where they are.
LEMMA AgedQueue ==
    ASSUME queue \in Seq(Entries)
    PROVE  LET aging == [i \in 1..Len(queue) |-> aged(queue[i])]
           IN  /\ aging \in Seq(Entries)
               /\ Len(aging) = Len(queue)
               /\ \A i \in 1..Len(queue) : aging[i] \in Entries
               /\ \A i \in 1..Len(queue) : aging[i].producer = queue[i].producer
               /\ \A i \in 1..Len(queue) : aging[i].n = queue[i].n
<1> DEFINE aging == [i \in 1..Len(queue) |-> aged(queue[i])]
<1>1. \A i \in 1..Len(queue) : queue[i] \in Entries
  OBVIOUS
<1>2. \A i \in 1..Len(queue) :
         /\ aged(queue[i]) \in Entries
         /\ aged(queue[i]).producer = queue[i].producer
         /\ aged(queue[i]).n = queue[i].n
  BY <1>1, AgedEntry
<1>3. aging \in Seq(Entries) /\ Len(aging) = Len(queue)
  BY <1>2
<1> QED BY <1>2, <1>3

\* Dropping from the front of the queue.
LEMMA TailQueue ==
    ASSUME queue \in Seq(Entries), queue # <<>>
    PROVE  /\ Head(queue) \in Entries
           /\ Head(queue) = queue[1]
           /\ Tail(queue) \in Seq(Entries)
           /\ Len(Tail(queue)) = Len(queue) - 1
           /\ Len(queue) >= 1
           /\ \A i \in 1..Len(Tail(queue)) : Tail(queue)[i] = queue[i + 1]
OBVIOUS

\* The sink's goroutines keep the types of the queue, the handlers and the
\* worker; the queue never holds more than QueueSize entries.
THEOREM TypeCorrect == Spec => []TypeOK
<1>1. Init => TypeOK
  BY SinkAssumption DEF Init, TypeOK, holding
<1>2. TypeOK /\ [Next]_vars => TypeOK'
  <2> SUFFICES ASSUME TypeOK, [Next]_vars PROVE TypeOK'
    OBVIOUS
  <2> USE SinkAssumption, NoEntryAssumption DEF TypeOK, holding
  <2>1. ASSUME NEW p \in Producers, NEW lifetime \in Lifetimes, Handle(p, lifetime)
        PROVE  TypeOK'
    BY <2>1 DEF Handle, workerVars, configVars, orderVars, counters
  <2>2. ASSUME NEW p \in Producers, Enqueue(p) PROVE TypeOK'
    <3>1. [producer |-> p, n |-> made[p], left |-> left[p]] \in Entries
      BY DEF Entries
    <3> QED BY <2>2, <3>1 DEF Enqueue, workerVars, configVars, orderVars
  <2>3. ASSUME NEW p \in Producers, QueueFull(p) PROVE TypeOK'
    BY <2>3 DEF QueueFull, workerVars, configVars, orderVars, counters
  <2>4. ASSUME NEW p \in Producers, DropFront(p) PROVE TypeOK'
    BY <2>4, TailQueue DEF DropFront, workerVars, configVars, orderVars
  <2>5. CASE Take
    BY <2>5, TailQueue DEF Take, producerVars, configVars, orderVars, counters
  <2>6. CASE WorkerExit
    BY <2>6 DEF WorkerExit, producerVars, configVars, orderVars, counters
  <2>7. CASE Discard \/ AttemptError \/ DropAfterFailure
    BY <2>7 DEF Discard, AttemptError, DropAfterFailure, drop, letGo, producerVars,
                configVars, orderVars
  <2>8. CASE StartAttempt
    BY <2>8 DEF StartAttempt, Entries, producerVars, configVars, counters
  <2>9. CASE AttemptSuccess
    BY <2>9 DEF AttemptSuccess, letGo, Entries, producerVars, configVars
  <2>10. CASE RetryAfterFailure
    BY <2>10 DEF RetryAfterFailure, producerVars, configVars, orderVars, counters
  <2>11. CASE Retry
    BY <2>11 DEF Retry, producerVars, configVars, orderVars, counters
  <2>12. CASE Interrupt
    BY <2>12 DEF Interrupt, letGo, producerVars, configVars, orderVars
  <2>13. CASE Stop
    BY <2>13 DEF Stop, producerVars, workerVars, orderVars, counters
  <2>14. CASE Start
    BY <2>14 DEF Start, letGo, producerVars, orderVars, counters
  <2>15. CASE Advance
    <3>1. queue' \in Seq(Entries) /\ Len(queue') <= QueueSize
      BY <2>15, AgedQueue DEF Advance
    <3>2. left' \in [Producers -> Int]
      BY <2>15 DEF Advance, later
    <3>3. hand' \in Entries \cup {NoEntry} /\ (holding' <=> hand' # NoEntry)
      BY <2>15, AgedEntry DEF Advance
    <3>4. pause' \in 0..RetryDelay
      BY <2>15 DEF Advance
    <3> QED BY <2>15, <3>1, <3>2, <3>3, <3>4
            DEF Advance, configVars, orderVars, counters
  <2>16. CASE UNCHANGED vars
    BY <2>16 DEF vars, producerVars, workerVars, configVars, orderVars, counters
  <2> QED BY <2>1, <2>2, <2>3, <2>4, <2>5, <2>6, <2>7, <2>8, <2>9, <2>10, <2>11,
             <2>12, <2>13, <2>14, <2>15, <2>16 DEF Next, Produce, Work
<1> QED BY <1>1, <1>2, PTL DEF Spec

\* Accounted, and that only a reload ends a worker's context.
AccountedInv == Accounted /\ (config = "stopping" => reloads > 0)

\* No upload vanishes between handle and upload: the counters, the queue and
\* the worker's hands account for everything that entered the queue.
THEOREM NothingVanishes == Spec => []Accounted
<1>1. Init => AccountedInv
  BY DEF Init, AccountedInv, Accounted, holding
<1>2. TypeOK /\ AccountedInv /\ [Next]_vars => AccountedInv'
  <2> SUFFICES ASSUME TypeOK, AccountedInv, [Next]_vars PROVE AccountedInv'
    OBVIOUS
  <2> USE DEF TypeOK, AccountedInv, Accounted, holding
  <2>1. ASSUME NEW p \in Producers, NEW lifetime \in Lifetimes, Handle(p, lifetime)
        PROVE  AccountedInv'
    BY <2>1 DEF Handle, workerVars, configVars, counters
  <2>2. ASSUME NEW p \in Producers, Enqueue(p) PROVE AccountedInv'
    BY <2>2 DEF Enqueue, workerVars, configVars
  <2>3. ASSUME NEW p \in Producers, QueueFull(p) PROVE AccountedInv'
    BY <2>3 DEF QueueFull, workerVars, configVars, counters
  <2>4. ASSUME NEW p \in Producers, DropFront(p) PROVE AccountedInv'
    BY <2>4, TailQueue DEF DropFront, workerVars, configVars
  <2>5. CASE Take
    BY <2>5, TailQueue DEF Take, configVars, counters
  <2>6. CASE WorkerExit
    BY <2>6 DEF WorkerExit, configVars, counters
  <2>7. ASSUME work \in {"check", "do"}, drop PROVE AccountedInv'
    BY <2>7 DEF drop, letGo, configVars
  <2>8. CASE Discard \/ AttemptError \/ DropAfterFailure
    BY <2>7, <2>8 DEF Discard, AttemptError, DropAfterFailure
  <2>9. CASE StartAttempt
    BY <2>9 DEF StartAttempt, configVars, counters
  <2>10. CASE AttemptSuccess
    BY <2>10 DEF AttemptSuccess, letGo, configVars
  <2>11. CASE RetryAfterFailure
    BY <2>11 DEF RetryAfterFailure, configVars, counters
  <2>12. CASE Retry
    BY <2>12 DEF Retry, configVars, counters
  <2>13. CASE Interrupt
    BY <2>13 DEF Interrupt, letGo, configVars
  <2>14. CASE Stop
    BY <2>14 DEF Stop, workerVars, counters
  <2>15. CASE Start
    BY <2>15 DEF Start, letGo, counters
  <2>16. CASE Advance
    BY <2>16, AgedQueue DEF Advance, configVars, counters
  <2>17. CASE UNCHANGED vars
    BY <2>17 DEF vars, workerVars, configVars, counters
  <2> QED BY <2>1, <2>2, <2>3, <2>4, <2>5, <2>6, <2>8, <2>9, <2>10, <2>11, <2>12,
             <2>13, <2>14, <2>15, <2>16, <2>17 DEF Next, Produce, Work
<1>3. AccountedInv => Accounted
  BY DEF AccountedInv
<1> QED BY <1>1, <1>2, <1>3, TypeCorrect, PTL DEF Spec

\* Upload n of producer p was made before the request that p has open, if any.
Before(p, n) == n <= made[p] /\ (handle[p] # "idle" => n < made[p])

\* The uploads of a producer are in the queue in the order they were made, and
\* after everything the worker has attempted or still holds.
OrderInv ==
    /\ \A i, j \in 1..Len(queue) :
          i < j /\ queue[i].producer = queue[j].producer => queue[i].n < queue[j].n
    /\ \A i \in 1..Len(queue) :
          /\ Before(queue[i].producer, queue[i].n)
          /\ sent[queue[i].producer] < queue[i].n
          /\ holding /\ hand.producer = queue[i].producer => hand.n < queue[i].n
    /\ \A p \in Producers : acked[p] <= sent[p] /\ Before(p, sent[p])
    /\ holding => /\ Before(hand.producer, hand.n)
                  /\ sent[hand.producer] <= hand.n
                  /\ acked[hand.producer] < hand.n
    /\ work = "do" => sent[hand.producer] = hand.n

\* The uploads of a connection stay in order from handle to the server.
THEOREM OrderKept == Spec => []OrderInv
<1>1. Init => OrderInv
  BY DEF Init, OrderInv, Before, holding
<1>2. TypeOK /\ OrderInv /\ [Next]_vars => OrderInv'
  <2> SUFFICES ASSUME TypeOK, OrderInv, [Next]_vars PROVE OrderInv'
    OBVIOUS
  <2>0. /\ \A i \in 1..Len(queue) : queue[i].producer \in Producers /\ queue[i].n \in Nat
        /\ holding => hand \in Entries /\ hand.producer \in Producers /\ hand.n \in Nat
    <3>1. \A e \in Entries : e.producer \in Producers /\ e.n \in Nat
      BY DEF Entries
    <3>2. \A i \in 1..Len(queue) : queue[i] \in Entries
      BY DEF TypeOK
    <3>3. holding => hand \in Entries
      BY DEF TypeOK
    <3> QED BY <3>1, <3>2, <3>3
  <2> USE DEF TypeOK, OrderInv, Before, holding
  <2>1. ASSUME NEW p \in Producers, NEW lifetime \in Lifetimes, Handle(p, lifetime)
        PROVE  OrderInv'
    <3>1. /\ queue' = queue /\ work' = work /\ hand' = hand
          /\ sent' = sent /\ acked' = acked
      BY <2>1 DEF Handle, workerVars, orderVars
    <3>2. \A q \in Producers, n \in Nat : Before(q, n) => Before(q, n)'
      BY <2>1 DEF Handle
    <3> QED BY <2>0, <3>1, <3>2
  <2>2. ASSUME NEW p \in Producers, Enqueue(p) PROVE OrderInv'
    <3> DEFINE e == [producer |-> p, n |-> made[p], left |-> left[p]]
    <3>1. e \in Entries /\ e.producer = p /\ e.n = made[p]
      BY DEF Entries
    <3>2. /\ Len(queue') = Len(queue) + 1
          /\ \A i \in 1..Len(queue) : queue'[i] = queue[i]
          /\ queue'[Len(queue) + 1] = e
      BY <2>2, <3>1 DEF Enqueue
    <3> HIDE DEF e
    <3> QED BY <2>0, <2>2, <3>1, <3>2 DEF Enqueue, workerVars, configVars, orderVars
  <2>3. ASSUME NEW p \in Producers, QueueFull(p) PROVE OrderInv'
    BY <2>0, <2>3 DEF QueueFull, workerVars, configVars, orderVars, counters
  <2>4. ASSUME NEW p \in Producers, DropFront(p) PROVE OrderInv'
    BY <2>0, <2>4, TailQueue DEF DropFront, workerVars, configVars, orderVars
  <2>5. CASE Take
    BY <2>0, <2>5, TailQueue DEF Take, producerVars, configVars, orderVars, counters
  <2>6. CASE WorkerExit
    BY <2>6 DEF WorkerExit, producerVars, configVars, orderVars, counters
  <2>7. CASE Discard \/ AttemptError \/ DropAfterFailure
    BY <2>7 DEF Discard, AttemptError, DropAfterFailure, drop, letGo, producerVars,
                configVars, orderVars
  <2>8. CASE StartAttempt
    BY <2>0, <2>8 DEF StartAttempt, producerVars, configVars, counters
  <2>9. CASE AttemptSuccess
    BY <2>0, <2>9 DEF AttemptSuccess, letGo, producerVars, configVars
  <2>10. CASE RetryAfterFailure
    BY <2>10 DEF RetryAfterFailure, producerVars, configVars, orderVars, counters
  <2>11. CASE Retry
    BY <2>11 DEF Retry, producerVars, configVars, orderVars, counters
  <2>12. CASE Interrupt
    BY <2>12 DEF Interrupt, letGo, producerVars, configVars, orderVars
  <2>13. CASE Stop
    BY <2>13 DEF Stop, producerVars, workerVars, orderVars, counters
  <2>14. CASE Start
    BY <2>14 DEF Start, letGo, producerVars, orderVars, counters
  <2>15. CASE Advance
    <3>1. /\ Len(queue') = Len(queue)
          /\ \A i \in 1..Len(queue) : queue'[i].producer = queue[i].producer
          /\ \A i \in 1..Len(queue) : queue'[i].n = queue[i].n
      BY <2>15, AgedQueue DEF Advance
    <3>2. holding => hand'.producer = hand.producer /\ hand'.n = hand.n
      BY <2>0, <2>15, AgedEntry DEF Advance
    <3>3. /\ handle' = handle /\ made' = made /\ work' = work
          /\ sent' = sent /\ acked' = acked
      BY <2>15 DEF Advance, configVars, orderVars
    <3> QED BY <2>0, <3>1, <3>2, <3>3
  <2>16. CASE UNCHANGED vars
    BY <2>16 DEF vars, producerVars, workerVars, configVars, orderVars, counters
  <2> QED BY <2>1, <2>2, <2>3, <2>4, <2>5, <2>6, <2>7, <2>8, <2>9, <2>10, <2>11,
             <2>12, <2>13, <2>14, <2>15, <2>16 DEF Next, Produce, Work
<1> QED BY <1>1, <1>2, TypeCorrect, PTL DEF Spec

\* Whatever is dropped, retried or cut off by a reload, the server is sent the
\* uploads of a connection in the order in which they were made.
THEOREM ServerSeesOrder == Spec => InOrder
<1>1. TypeOK /\ OrderInv =>
        [work = "check" /\ work' = "do" =>
            hand.n >= sent[hand.producer] /\ hand.n > acked[hand.producer]]_vars
  <2> SUFFICES ASSUME TypeOK, OrderInv, work = "check"
               PROVE  hand.n >= sent[hand.producer] /\ hand.n > acked[hand.producer]
    OBVIOUS
  <2> QED BY NoEntryAssumption DEF OrderInv, TypeOK, holding, Entries
<1> QED BY <1>1, OrderKept, TypeCorrect, PTL DEF Spec, InOrder

\* inTransit without the bound that makes it a finite set to enumerate.
TransitIsOnItsWay ==
    \A p \in Producers : /\ inTransit[p] = {n \in Nat : onItsWay(p, n)}
                         /\ \A n : onItsWay(p, n) => n \in inTransit[p]

\* What is in the queue or in the worker's hands is numbered like an upload
\* that was made.
LEMMA TransitIs == TypeOK /\ OrderInv => TransitIsOnItsWay
<1> SUFFICES ASSUME TypeOK, OrderInv, NEW p \in Producers
             PROVE  /\ inTransit[p] = {n \in Nat : onItsWay(p, n)}
                    /\ \A n : onItsWay(p, n) => n \in inTransit[p]
  BY DEF TransitIsOnItsWay
<1>1. \A e \in Entries : e.producer \in Producers /\ e.n \in Nat
  BY DEF Entries
<1>2. \A i \in 1..Len(queue) : queue[i] \in Entries
  BY DEF TypeOK
<1>3. holding => hand \in Entries
  BY DEF TypeOK
<1>4. \A n : onItsWay(p, n) => n \in Nat /\ n >= 1 /\ n <= made[p]
  BY <1>1, <1>2, <1>3 DEF onItsWay, OrderInv, Before, TypeOK
<1>5. \A n : onItsWay(p, n) => n \in 1..made[p]
  BY <1>4 DEF TypeOK
<1> QED BY <1>5 DEF inTransit

\* The sink is a lossy channel that keeps the order of each connection: every
\* step of a handler, of the worker, of a reload and of the clock is one of
\* the channel's or changes nothing the channel knows of.
THEOREM SinkIsLossyChannel == Spec => ImplementsChannel
<1>1. Init => Channel!Init
  BY DEF Init, Channel!Init, inTransit, taken, onItsWay, holding
<1>2. TypeOK /\ OrderInv /\ TypeOK' /\ OrderInv' /\ [Next]_vars
        => [Channel!Next]_(Channel!vars)
  <2> SUFFICES ASSUME TypeOK, OrderInv, TypeOK', OrderInv', [Next]_vars
               PROVE  [Channel!Next]_(Channel!vars)
    OBVIOUS
  <2>0. /\ \A i \in 1..Len(queue) : queue[i].producer \in Producers /\ queue[i].n \in Nat
        /\ holding => hand \in Entries /\ hand.producer \in Producers /\ hand.n \in Nat
    <3>1. \A e \in Entries : e.producer \in Producers /\ e.n \in Nat
      BY DEF Entries
    <3>2. \A i \in 1..Len(queue) : queue[i] \in Entries
      BY DEF TypeOK
    <3>3. holding => hand \in Entries
      BY DEF TypeOK
    <3> QED BY <3>1, <3>2, <3>3
  <2>a. \A q \in Producers : /\ inTransit[q] = {n \in Nat : onItsWay(q, n)}
                             /\ \A n : onItsWay(q, n) => n \in inTransit[q]
    BY TransitIs DEF TransitIsOnItsWay
  <2>b. \A q \in Producers : inTransit'[q] = {n \in Nat : onItsWay(q, n)'}
    <3>1. (TypeOK /\ OrderInv => TransitIsOnItsWay)'
      BY TransitIs, PTL
    <3> QED BY <3>1 DEF TransitIsOnItsWay
  <2>c. ASSUME \A q \in Producers, n \in Nat : onItsWay(q, n)' <=> onItsWay(q, n),
               taken' = taken, acked' = acked
        PROVE  UNCHANGED Channel!vars
    <3>1. \A q \in Producers : inTransit'[q] = inTransit[q]
      BY <2>a, <2>b, <2>c
    <3>2. inTransit' = inTransit
      BY <3>1 DEF inTransit
    <3> QED BY <2>c, <3>2 DEF Channel!vars
  <2>d. ASSUME NEW q \in Producers, NEW m, onItsWay(q, m),
               \A r \in Producers, n \in Nat :
                  onItsWay(r, n)' <=> onItsWay(r, n) /\ ~(r = q /\ n = m)
        PROVE  m \in inTransit[q] /\ inTransit' = [inTransit EXCEPT ![q] = @ \ {m}]
    <3>1. m \in inTransit[q]
      BY <2>a, <2>d
    <3>2. \A r \in Producers :
             inTransit'[r] = [inTransit EXCEPT ![q] = @ \ {m}][r]
      BY <2>a, <2>b, <2>d DEF inTransit
    <3>3. inTransit' = [inTransit EXCEPT ![q] = @ \ {m}]
      BY <3>2 DEF inTransit
    <3> QED BY <3>1, <3>3
  <2>e. ASSUME handle' = handle, made' = made PROVE taken' = taken
    BY <2>e DEF taken
  <2>1. ASSUME NEW p \in Producers, NEW lifetime \in Lifetimes, Handle(p, lifetime)
        PROVE  UNCHANGED Channel!vars
    <3>1. \A q \in Producers : taken'[q] = taken[q]
      <4> SUFFICES ASSUME NEW q \in Producers PROVE taken'[q] = taken[q]
        OBVIOUS
      <4>1. CASE q = p
        <5>1. /\ handle[p] = "idle" /\ handle'[p] = "send"
              /\ made[p] \in Nat /\ made'[p] = made[p] + 1
          BY <2>1 DEF Handle, TypeOK
        <5> QED BY <4>1, <5>1 DEF taken
      <4>2. CASE q # p
        <5>1. handle'[q] = handle[q] /\ made'[q] = made[q]
          BY <2>1, <4>2 DEF Handle, TypeOK
        <5> QED BY <5>1 DEF taken
      <4> QED BY <4>1, <4>2
    <3>2. taken' = taken
      BY <3>1 DEF taken
    <3> QED BY <2>1, <2>c, <3>2 DEF Handle, workerVars, orderVars, onItsWay, holding
  <2>2. ASSUME NEW p \in Producers, Enqueue(p) PROVE Channel!Accept(p)
    <3> DEFINE e == [producer |-> p, n |-> made[p], left |-> left[p]]
    <3>1. e \in Entries /\ e.producer = p /\ e.n = made[p]
      BY DEF Entries, TypeOK
    <3>2. /\ Len(queue') = Len(queue) + 1
          /\ \A i \in 1..Len(queue) : queue'[i] = queue[i]
          /\ queue'[Len(queue) + 1] = e
      BY <2>2, <3>1 DEF Enqueue, TypeOK
    <3> HIDE DEF e
    <3>3. \A r, n : onItsWay(r, n)' <=> onItsWay(r, n) \/ (r = p /\ n = made[p])
      <4>1. Len(queue) \in Nat
        BY DEF TypeOK
      <4> QED BY <2>2, <3>1, <3>2, <4>1 DEF Enqueue, workerVars, onItsWay, holding
    <3>4. made[p] \in Nat /\ taken[p] + 1 = made[p]
      BY <2>2 DEF Enqueue, taken, TypeOK
    <3>5. taken' = [taken EXCEPT ![p] = @ + 1]
      <4>1. \A q \in Producers : taken'[q] = [taken EXCEPT ![p] = @ + 1][q]
        BY <2>2, <3>4 DEF Enqueue, taken, TypeOK
      <4> QED BY <4>1 DEF taken
    <3>6. \A r \in Producers :
             inTransit'[r] = [inTransit EXCEPT ![p] = @ \cup {taken[p] + 1}][r]
      BY <2>a, <2>b, <3>3, <3>4 DEF inTransit
    <3>7. inTransit' = [inTransit EXCEPT ![p] = @ \cup {taken[p] + 1}]
      BY <3>6 DEF inTransit
    <3> QED BY <2>2, <3>5, <3>7 DEF Enqueue, orderVars, Channel!Accept
  <2>3. ASSUME NEW p \in Producers, QueueFull(p) PROVE UNCHANGED Channel!vars
    <3>1. taken' = taken
      BY <2>3 DEF QueueFull, taken, TypeOK
    <3> QED BY <2>3, <2>c, <3>1 DEF QueueFull, workerVars, orderVars, onItsWay, holding
  <2>4. ASSUME NEW p \in Producers, DropFront(p)
        PROVE  /\ Channel!Lose(queue[1].producer, queue[1].n)
               /\ queue[1].n \in inTransit[queue[1].producer]
    <3> DEFINE q == queue[1].producer
               m == queue[1].n
    <3>1. taken' = taken /\ acked' = acked
      BY <2>4 DEF DropFront, taken, TypeOK, orderVars
    <3>2. q \in Producers /\ onItsWay(q, m)
      BY <2>0, <2>4, TailQueue DEF DropFront, onItsWay, TypeOK
    <3>3. \A r \in Producers, n \in Nat :
             onItsWay(r, n)' <=> onItsWay(r, n) /\ ~(r = q /\ n = m)
      <4>1. /\ queue \in Seq(Entries) /\ Len(queue) \in Nat /\ Len(queue) >= 1
            /\ Len(queue') = Len(queue) - 1
            /\ \A i \in 1..Len(queue') : queue'[i] = queue[i + 1]
        BY <2>4, TailQueue DEF DropFront, TypeOK
      <4>2. work' = work /\ hand' = hand
        BY <2>4 DEF DropFront, workerVars
      <4>3. \A i \in 2..Len(queue) : ~(queue[i].producer = q /\ queue[i].n = m)
        BY <2>0, <4>1 DEF OrderInv
      <4>4. holding => ~(hand.producer = q /\ hand.n = m)
        BY <2>0, <4>1 DEF OrderInv
      <4>5. \A i \in 2..Len(queue) : i - 1 \in 1..Len(queue') /\ queue[i] = queue'[i - 1]
        BY <4>1
      <4>6. ASSUME NEW r \in Producers, NEW n \in Nat
            PROVE  /\ onItsWay(r, n)' => onItsWay(r, n) /\ ~(r = q /\ n = m)
                   /\ onItsWay(r, n) /\ ~(r = q /\ n = m) => onItsWay(r, n)'
        <5>1. \A i \in 1..Len(queue') : i + 1 \in 2..Len(queue) /\ i + 1 \in 1..Len(queue)
          BY <4>1
        <5>2. \A i \in 1..Len(queue) : i = 1 \/ i \in 2..Len(queue)
          BY <4>1
        <5>3. holding' <=> holding
          BY <4>2 DEF holding
        <5>4. onItsWay(r, n)' => onItsWay(r, n)
          BY <4>1, <4>2, <5>1, <5>3 DEF onItsWay
        <5>5. onItsWay(r, n)' => ~(r = q /\ n = m)
          BY <4>1, <4>2, <4>3, <4>4, <5>1, <5>3 DEF onItsWay
        <5>6. onItsWay(r, n) /\ ~(r = q /\ n = m) => onItsWay(r, n)'
          BY <4>2, <4>5, <5>2, <5>3 DEF onItsWay
        <5> QED BY <5>4, <5>5, <5>6
      <4> QED BY <4>6
    <3> HIDE DEF q, m
    <3>4. m \in inTransit[q] /\ inTransit' = [inTransit EXCEPT ![q] = @ \ {m}]
      BY <2>d, <3>2, <3>3
    <3> QED BY <3>1, <3>4 DEF Channel!Lose, q, m
  <2>5. CASE Take
    <3>1. /\ queue \in Seq(Entries) /\ Len(queue) \in Nat /\ Len(queue) >= 1
          /\ Len(queue') = Len(queue) - 1
          /\ \A i \in 1..Len(queue') : queue'[i] = queue[i + 1]
          /\ hand' = queue[1]
      BY <2>5, TailQueue DEF Take, TypeOK
    <3>2. \A i \in 2..Len(queue) : i - 1 \in 1..Len(queue') /\ queue[i] = queue'[i - 1]
      BY <3>1
    <3>3. ASSUME NEW r \in Producers, NEW n \in Nat
          PROVE  onItsWay(r, n)' <=> onItsWay(r, n)
      <4>1. \A i \in 1..Len(queue') : i + 1 \in 1..Len(queue)
        BY <3>1
      <4>2. \A i \in 1..Len(queue) : i = 1 \/ i \in 2..Len(queue)
        BY <3>1
      <4>3. 1 \in 1..Len(queue)
        BY <3>1
      <4>4. ~holding /\ holding'
        BY <2>5 DEF Take, holding
      <4>5. onItsWay(r, n)' => onItsWay(r, n)
        BY <3>1, <4>1, <4>3, <4>4 DEF onItsWay
      <4>6. onItsWay(r, n) => onItsWay(r, n)'
        BY <3>1, <3>2, <4>2, <4>4 DEF onItsWay
      <4> QED BY <4>5, <4>6
    <3> QED BY <2>5, <2>c, <2>e, <3>3 DEF Take, producerVars, orderVars
  <2>6. ASSUME holding, letGo, UNCHANGED <<queue, producerVars>>
        PROVE  /\ taken' = taken
               /\ hand.n \in inTransit[hand.producer]
               /\ inTransit' = [inTransit EXCEPT ![hand.producer] = @ \ {hand.n}]
    <3>1. taken' = taken
      BY <2>6, <2>e DEF producerVars
    <3>2. onItsWay(hand.producer, hand.n)
      BY <2>6 DEF onItsWay
    <3>3. \A r \in Producers, n \in Nat :
             onItsWay(r, n)' <=> onItsWay(r, n) /\ ~(r = hand.producer /\ n = hand.n)
      <4>1. \A i \in 1..Len(queue) :
               ~(queue[i].producer = hand.producer /\ queue[i].n = hand.n)
        BY <2>0, <2>6 DEF OrderInv
      <4> QED BY <2>6, <4>1 DEF onItsWay, holding, letGo
    <3> QED BY <2>0, <2>6, <2>d, <3>1, <3>2, <3>3
  <2>7. ASSUME holding, letGo, UNCHANGED <<queue, producerVars, orderVars>>
        PROVE  Channel!Next
    <3>1. Channel!Lose(hand.producer, hand.n)
      BY <2>6, <2>7 DEF Channel!Lose, orderVars
    <3> QED BY <2>0, <2>6, <2>7, <3>1 DEF Channel!Next
  <2>8. CASE Discard \/ AttemptError \/ DropAfterFailure \/ Interrupt
    BY <2>7, <2>8 DEF Discard, AttemptError, DropAfterFailure, Interrupt, drop, holding
  <2>9. CASE AttemptSuccess
    <3>1. /\ holding /\ letGo /\ UNCHANGED <<queue, producerVars>>
          /\ acked' = [acked EXCEPT ![hand.producer] = hand.n]
      BY <2>9 DEF AttemptSuccess, holding
    <3>2. \A n \in inTransit[hand.producer] : hand.n <= n
      BY <2>0, <2>a, <3>1 DEF onItsWay, OrderInv
    <3>3. Channel!Deliver(hand.producer, hand.n)
      BY <2>6, <3>1, <3>2 DEF Channel!Deliver
    <3> QED BY <2>0, <2>6, <3>1, <3>3 DEF Channel!Next
  <2>10. CASE WorkerExit \/ StartAttempt \/ RetryAfterFailure \/ Retry
    <3>1. /\ queue' = queue /\ hand' = hand /\ acked' = acked
          /\ handle' = handle /\ made' = made /\ (holding' <=> holding)
      BY <2>10 DEF WorkerExit, StartAttempt, RetryAfterFailure, Retry, producerVars,
                   orderVars, holding
    <3> QED BY <2>c, <2>e, <3>1 DEF onItsWay
  <2>11. CASE Stop \/ Start
    <3>1. /\ queue' = queue /\ acked' = acked /\ handle' = handle /\ made' = made
          /\ (holding' <=> holding) /\ (holding => hand' = hand)
      BY <2>11 DEF Stop, Start, letGo, producerVars, workerVars, orderVars, holding
    <3> QED BY <2>c, <2>e, <3>1 DEF onItsWay
  <2>12. CASE Advance
    <3>1. /\ Len(queue') = Len(queue)
          /\ \A i \in 1..Len(queue) : queue'[i].producer = queue[i].producer
          /\ \A i \in 1..Len(queue) : queue'[i].n = queue[i].n
      BY <2>12, AgedQueue DEF Advance, TypeOK
    <3>2. holding => hand'.producer = hand.producer /\ hand'.n = hand.n
      BY <2>0, <2>12, AgedEntry DEF Advance
    <3>3. /\ handle' = handle /\ made' = made /\ work' = work /\ acked' = acked
      BY <2>12 DEF Advance, orderVars
    <3> QED BY <2>c, <2>e, <3>1, <3>2, <3>3 DEF onItsWay, holding
  <2>13. CASE UNCHANGED vars
    <3>1. /\ queue' = queue /\ hand' = hand /\ acked' = acked /\ work' = work
          /\ handle' = handle /\ made' = made
      BY <2>13 DEF vars, producerVars, workerVars, orderVars
    <3> QED BY <2>c, <2>e, <3>1 DEF onItsWay, holding
  <2>14. ASSUME NEW p \in Producers, Produce(p) PROVE [Channel!Next]_(Channel!vars)
    <3>1. CASE Enqueue(p)
      BY <2>2, <3>1 DEF Channel!Next
    <3>2. CASE QueueFull(p)
      BY <2>3, <3>2
    <3>3. CASE DropFront(p)
      <4>1. queue[1].producer \in Producers
        BY <2>0, <3>3, TailQueue DEF DropFront, TypeOK
      <4> QED BY <2>4, <3>3, <4>1 DEF Channel!Next
    <3> QED BY <2>14, <3>1, <3>2, <3>3 DEF Produce
  <2> QED BY <2>1, <2>5, <2>8, <2>9, <2>10, <2>11, <2>12, <2>13, <2>14 DEF Next, Work
<1> QED BY <1>1, <1>2, OrderKept, TypeCorrect, PTL DEF Spec, ImplementsChannel, Channel!Spec
=============================================================================
