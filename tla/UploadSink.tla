----------------------------- MODULE UploadSink -----------------------------
(***************************************************************************)
(* cmd/upload-proxy/sink.go: the queue of one destination server.  HTTP    *)
(* handlers (HandleUpload calls sink.handle) put uploads into a channel of *)
(* QueueSize slots, dropping from its front when it is full; one worker    *)
(* sends them on, retrying on an error status until the deadline; SIGHUP   *)
(* with new credentials stops the worker and starts another on the same    *)
(* queue.                                                                  *)
(*                                                                         *)
(* A deadline is kept as the time left; `Deadline.Before(now)` is          *)
(* `left < 0`, and -1 stands for every time past the deadline.             *)
(***************************************************************************)
EXTENDS Integers, Sequences

CONSTANTS
    Producers,    \* connections that upload, one request at a time each
    QueueSize,    \* SinkConfig.QueueSize
    Lifetimes,    \* the deadlines getDeadline gives, by kind of file
    RetryDelay,   \* the pause before a retry
    MaxUploads,   \* bound: uploads of one producer
    MaxReloads,   \* bound: reloads with changed credentials
    NoEntry       \* what the worker holds between two uploads

ASSUME SinkAssumption ==
    /\ QueueSize \in Nat \ {0}
    /\ Lifetimes \subseteq Nat
    /\ RetryDelay \in Nat \ {0}

Entries == [producer: Producers, n: Nat, left: Int]

ASSUME NoEntryAssumption == NoEntry \notin Entries

VARIABLES
    queue,        \* sink.queue
    handle,       \* sink.handle, the request of each producer
    left,         \* the time left for that request
    made,         \* uploads handed to the sink, by producer
    work,         \* sink.work and sink.upload
    hand,         \* the entry being uploaded
    pause,        \* time left before the retry
    config,       \* UpdateConfig; the worker's context ends with "stopping"
    reloads,      \* reloads so far
    sent,         \* history: the last upload sent to the server, by producer
    acked,        \* history: the last upload the server accepted, by producer
    accepted,     \* history: uploads that entered the queue
    uploaded,     \* totalNumUploaded over all workers
    dropped,      \* totalNumDropped over all workers
    interrupted   \* history: uploads a reload cut off

producerVars == <<handle, left, made>>
workerVars == <<work, hand, pause>>
configVars == <<config, reloads>>
orderVars == <<sent, acked>>
counters == <<accepted, uploaded, dropped, interrupted>>
vars == <<queue, producerVars, workerVars, configVars, orderVars, counters>>

Init ==
    /\ queue = <<>>
    /\ handle = [p \in Producers |-> "idle"]
    /\ left = [p \in Producers |-> 0]
    /\ made = [p \in Producers |-> 0]
    /\ work = "idle" /\ hand = NoEntry /\ pause = 0
    /\ config = "running" /\ reloads = 0
    /\ sent = [p \in Producers |-> 0]
    /\ acked = [p \in Producers |-> 0]
    /\ accepted = 0 /\ uploaded = 0 /\ dropped = 0 /\ interrupted = 0

(***************************************************************************)
(* handle, in the goroutine of an HTTP request.                            *)
(***************************************************************************)
Handle(p, lifetime) ==
    /\ handle[p] = "idle"
    /\ made[p] < MaxUploads
    /\ made' = [made EXCEPT ![p] = @ + 1]
    /\ handle' = [handle EXCEPT ![p] = "send"]
    /\ left' = [left EXCEPT ![p] = lifetime]
    /\ UNCHANGED <<queue, workerVars, configVars, orderVars, counters>>

\* The select sends: a slot is free.
Enqueue(p) ==
    /\ handle[p] = "send"
    /\ Len(queue) < QueueSize
    /\ queue' = Append(queue, [producer |-> p, n |-> made[p], left |-> left[p]])
    /\ handle' = [handle EXCEPT ![p] = "idle"]
    /\ left' = [left EXCEPT ![p] = 0]
    /\ accepted' = accepted + 1
    /\ UNCHANGED <<made, workerVars, configVars, orderVars, uploaded, dropped, interrupted>>

\* The select takes its default branch: the queue is full.
QueueFull(p) ==
    /\ handle[p] = "send"
    /\ Len(queue) = QueueSize
    /\ handle' = [handle EXCEPT ![p] = "drop"]
    /\ UNCHANGED <<queue, left, made, workerVars, configVars, orderVars, counters>>

\* Mutant of DropFront: the dropped upload is not counted.
DropFrontSilently(p) ==
    /\ handle[p] = "drop"
    /\ queue # <<>>
    /\ queue' = Tail(queue)
    /\ handle' = [handle EXCEPT ![p] = "send"]
    /\ UNCHANGED <<left, made, workerVars, configVars, orderVars, counters>>

\* <-sink.queue: waits when the queue has been emptied meanwhile.
DropFront(p) ==
    /\ handle[p] = "drop"
    /\ queue # <<>>
    /\ queue' = Tail(queue)
    /\ handle' = [handle EXCEPT ![p] = "send"]
    /\ dropped' = dropped + 1
    /\ UNCHANGED <<left, made, workerVars, configVars, orderVars, accepted, uploaded,
                   interrupted>>

(***************************************************************************)
(* work: wait for an entry or for the end of the context, in any order if  *)
(* both are there.                                                         *)
(***************************************************************************)
Take ==
    /\ work = "idle"
    /\ queue # <<>>
    /\ work' = "check"
    /\ hand' = Head(queue)
    /\ queue' = Tail(queue)
    /\ UNCHANGED <<producerVars, pause, configVars, orderVars, counters>>

WorkerExit ==
    /\ work = "idle"
    /\ config = "stopping"
    /\ work' = "stopped"
    /\ UNCHANGED <<queue, producerVars, hand, pause, configVars, orderVars, counters>>

(***************************************************************************)
(* upload: one attempt after another.                                      *)
(***************************************************************************)
holding == work \in {"check", "do", "wait"}

\* upload returns to work.
letGo ==
    /\ work' = "idle"
    /\ hand' = NoEntry
    /\ pause' = 0

\* Give the entry up and count it.
drop ==
    /\ letGo
    /\ dropped' = dropped + 1
    /\ UNCHANGED <<queue, producerVars, configVars, orderVars, accepted, uploaded, interrupted>>

Discard ==
    /\ work = "check"
    /\ hand.left < 0
    /\ drop

StartAttempt ==
    /\ work = "check"
    /\ hand.left >= 0
    /\ work' = "do"
    /\ sent' = [sent EXCEPT ![hand.producer] = hand.n]
    /\ UNCHANGED <<queue, producerVars, hand, pause, configVars, acked, counters>>

\* client.Do returns an error: no connection, or the deadline was exceeded.
AttemptError ==
    /\ work = "do"
    /\ drop

\* A status of 2xx.
AttemptSuccess ==
    /\ work = "do"
    /\ letGo
    /\ acked' = [acked EXCEPT ![hand.producer] = hand.n]
    /\ uploaded' = uploaded + 1
    /\ UNCHANGED <<queue, producerVars, configVars, sent, accepted, dropped, interrupted>>

\* Mutant of RetryAfterFailure: the failed upload goes to the end of the queue.
RequeueAfterFailure ==
    /\ work = "do"
    /\ Len(queue) <= QueueSize - 2
    /\ letGo
    /\ queue' = Append(queue, hand)
    /\ UNCHANGED <<producerVars, configVars, orderVars, counters>>

\* Another status, and the queue is not almost full.
RetryAfterFailure ==
    /\ work = "do"
    /\ Len(queue) <= QueueSize - 2
    /\ work' = "wait"
    /\ pause' = RetryDelay
    /\ UNCHANGED <<queue, producerVars, hand, configVars, orderVars, counters>>

DropAfterFailure ==
    /\ work = "do"
    /\ Len(queue) > QueueSize - 2
    /\ drop

Retry ==
    /\ work = "wait"
    /\ pause = 0
    /\ work' = "check"
    /\ UNCHANGED <<queue, producerVars, hand, pause, configVars, orderVars, counters>>

\* The context ends during the pause: upload returns without counting.
Interrupt ==
    /\ work = "wait"
    /\ config = "stopping"
    /\ letGo
    /\ interrupted' = interrupted + 1
    /\ UNCHANGED <<queue, producerVars, configVars, orderVars, accepted, uploaded, dropped>>

(***************************************************************************)
(* UpdateConfig with new credentials: Stop, then Start.                    *)
(***************************************************************************)
Stop ==
    /\ config = "running"
    /\ reloads < MaxReloads
    /\ reloads' = reloads + 1
    /\ config' = "stopping"
    /\ UNCHANGED <<queue, producerVars, workerVars, orderVars, counters>>

\* Mutant of Start: no new worker is started.
StartNothing ==
    /\ config = "stopping"
    /\ work = "stopped"
    /\ config' = "running"
    /\ UNCHANGED <<queue, producerVars, workerVars, reloads, orderVars, counters>>

\* sink.done.Wait() returns and the next worker is started.
Start ==
    /\ config = "stopping"
    /\ work = "stopped"
    /\ config' = "running"
    /\ letGo
    /\ UNCHANGED <<queue, producerVars, reloads, orderVars, counters>>

(***************************************************************************)
(* Time passes for every deadline.  The request context ends an attempt at *)
(* its deadline, and the worker goes on at once when its pause is over.    *)
(***************************************************************************)
later(t) == IF t < 0 THEN t ELSE t - 1
aged(entry) == [entry EXCEPT !.left = later(entry.left)]

Advance ==
    /\ ~(work = "do" /\ hand.left < 0)
    /\ ~(work = "wait" /\ pause = 0)
    /\ queue' = [i \in 1..Len(queue) |-> aged(queue[i])]
    /\ left' = [p \in Producers |-> IF handle[p] = "idle" THEN 0 ELSE later(left[p])]
    /\ hand' = IF holding THEN aged(hand) ELSE hand
    /\ pause' = IF work = "wait" THEN pause - 1 ELSE pause
    /\ UNCHANGED <<handle, made, work, configVars, orderVars, counters>>

Work == \/ Take \/ Discard \/ StartAttempt
        \/ AttemptError \/ AttemptSuccess \/ RetryAfterFailure \/ DropAfterFailure
        \/ Retry \/ Interrupt \/ WorkerExit

Produce(p) == Enqueue(p) \/ QueueFull(p) \/ DropFront(p)

Next ==
    \/ \E p \in Producers, lifetime \in Lifetimes : Handle(p, lifetime)
    \/ \E p \in Producers : Produce(p)
    \/ Work \/ Stop \/ Start \/ Advance

\* Goroutines are scheduled, an attempt ends, and time passes.
Fairness ==
    /\ WF_vars(Work)
    /\ WF_vars(Start)
    /\ WF_vars(Advance)
    /\ \A p \in Producers : SF_vars(Produce(p))

Spec == Init /\ [][Next]_vars
FairSpec == Spec /\ Fairness

-----------------------------------------------------------------------------
\* Every variable has the type of the Go field or goroutine it stands for, the
\* queue never exceeds its capacity, and the worker holds an entry exactly
\* while it is inside upload.
TypeOK ==
    /\ queue \in Seq(Entries)
    /\ Len(queue) <= QueueSize
    /\ handle \in [Producers -> {"idle", "send", "drop"}]
    /\ left \in [Producers -> Int]
    /\ made \in [Producers -> Nat]
    /\ work \in {"idle", "check", "do", "wait", "stopped"}
    /\ hand \in Entries \cup {NoEntry}
    /\ holding <=> hand # NoEntry
    /\ pause \in 0..RetryDelay
    /\ config \in {"running", "stopping"}
    /\ reloads \in Nat
    /\ sent \in [Producers -> Nat]
    /\ acked \in [Producers -> Nat]
    /\ accepted \in Nat /\ uploaded \in Nat /\ dropped \in Nat /\ interrupted \in Nat

\* Nothing vanishes: what entered the queue is uploaded, counted as dropped,
\* still in the queue or in the worker's hands, or was cut off by a reload in
\* the pause before a retry.  (A reload may cut off several: until its select
\* picks ctx.Done() the old worker goes on taking uploads.)
Accounted ==
    /\ accepted = uploaded + dropped + interrupted + Len(queue)
                  + (IF holding THEN 1 ELSE 0)
    /\ interrupted > 0 => reloads > 0

\* The server sees the uploads of a connection in the order FFmpeg made them,
\* whatever is dropped, retried or interrupted: an attempt is never for an
\* upload older than one already attempted nor for one already accepted, so
\* a playlist does not overtake the segments uploaded before it.
InOrder ==
    [][work = "check" /\ work' = "do" =>
          /\ hand.n >= sent[hand.producer]
          /\ hand.n > acked[hand.producer]]_vars

\* Every upload that entered the queue is settled: the worker ends each
\* attempt and each pause, across reloads, until nothing is left.
QueueDrains == <>[](queue = <<>> /\ ~holding)

\* A request handler returns: FFmpeg never waits for the sink for good.
HandleReturns ==
    \A p \in Producers : handle[p] # "idle" ~> handle[p] = "idle"

(***************************************************************************)
(* What the sink promises: a lossy channel.  An upload is on its way while *)
(* it is queued or in the worker's hands; handle has delivered its request *)
(* to the channel when it returns.                                         *)
(***************************************************************************)
onItsWay(p, n) ==
    \/ \E i \in 1..Len(queue) : queue[i].producer = p /\ queue[i].n = n
    \/ holding /\ hand.producer = p /\ hand.n = n
inTransit == [p \in Producers |-> {n \in 1..made[p] : onItsWay(p, n)}]
taken == [p \in Producers |-> IF handle[p] = "idle" THEN made[p] ELSE made[p] - 1]

Channel == INSTANCE LossyChannel
    WITH accepted <- taken, transit <- inTransit, delivered <- acked

\* The sink implements a lossy channel: whatever is queued, retried, dropped,
\* cut off by a reload or too late, each step of it accepts the next upload of
\* a connection, loses one, delivers the oldest that is still on its way, or
\* changes nothing a connection or the server could tell.
ImplementsChannel == Channel!Spec
=============================================================================
