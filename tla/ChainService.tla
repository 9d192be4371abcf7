---------------------------- MODULE ChainService ----------------------------
(***************************************************************************)
(* The server process between its visitors and the cluster:                *)
(*   - Start, run before anything else, writes the pledge and refills the  *)
(*     queue (internal/chain/chain.go);                                    *)
(*   - Add, run by one HTTP handler per visitor, stores a sentence and     *)
(*     queues its number (internal/chain/chain.go);                        *)
(*   - Run, the single worker, writes the queued links to the cluster      *)
(*     (internal/chain/worker.go);                                         *)
(*   - the life of the process: start, shutdown, exit (cmd/server/main.go).*)
(* The handlers and the worker interleave at every statement of the store  *)
(* and every call to the cluster.                                          *)
(***************************************************************************)
EXTENDS LinkStore, Cluster, Sequences

CONSTANTS
    Visitors,     \* the requests that may run at the same time
    QueueSize,    \* how many numbers fit the queue; 1000 in the code
    PausedAfter,  \* failed sends in a row that flag the chain as paused
    PledgeFits,   \* does the memo of the pledge fit one transaction?
    Events,       \* the kinds of trouble that may happen, out of AllEvents
    MaxEvents     \* bound: how often trouble happens in one behaviour

AllEvents ==
    {"crash",      \* the machine stops
     "shutdown",   \* SIGTERM
     "hang",       \* the shutdown runs into its timeouts
     "store",      \* a statement of the store fails
     "outage",     \* the RPC node stops answering, until it recovers
     "answer",     \* the answer to one call is an error or comes too late
     "expire",     \* a blockhash expires before the transaction lands
     "deadline",   \* the five minutes process has for one link run out
     "day"}        \* a day goes by

ASSUME ServiceAssumption ==
    /\ QueueSize \in Nat \ {0}
    /\ PausedAfter \in Nat \ {0}
    /\ IsFiniteSet(Visitors)
    /\ PledgeFits \in BOOLEAN
    /\ Events \subseteq AllEvents
    /\ MaxEvents \in Nat

VARIABLES
    mode,        \* is the process down, up or stopping?
    queue,       \* the channel of link numbers
    paused,      \* the flag of the same name
    at,          \* where the worker is
    memo,        \* the memo process encoded; memo.n is the link in hand
    sig,         \* the transaction SendMemo waits for
    failures,    \* failed attempts at the link in hand, up to PausedAfter
    expired,     \* is the context "work" of process done?
    published,   \* the stats a page that stays connected was last sent
    visit,       \* where each visitor's Add is
    spent        \* trouble so far

workerVars == <<at, memo, sig, failures, expired>>
processVars == <<mode, queue, paused, published, visit>>
vars == <<storeVars, clusterVars, workerVars, processVars, spent>>

At == {"stopped", "idle", "sending", "waiting", "confirming", "failing",
       "backoff", "pausing", "announcing"}

NoVisit == [pc |-> "none", act |-> PledgeAct, n |-> -1]

Visit == [pc : {"none", "checked", "room"}, act : AllActs, n : {-1}]
            \cup [pc : {"stored"}, act : AllActs, n : Num]

Stats == [counted : SUBSET Num, paused : BOOLEAN]

StatsNow == [counted |-> Counted, paused |-> paused]

TypeOK ==
    /\ StoreTypeOK
    /\ ClusterTypeOK
    /\ mode \in {"down", "up", "stopping"}
    /\ queue \in Seq(Num)
    /\ Len(queue) =< QueueSize
    /\ paused \in BOOLEAN
    /\ at \in At
    /\ memo \in Memo \cup {NoMemo}
    /\ sig \in Sig \cup {NoSig}
    /\ failures \in 0 .. PausedAfter
    /\ expired \in BOOLEAN
    /\ published \in Stats
    /\ visit \in [Visitors -> Visit]
    /\ spent \in 0 .. MaxEvents

\* A worker with no link in hand, at stage a.
Rest(a) ==
    /\ at' = a
    /\ memo' = NoMemo
    /\ sig' = NoSig
    /\ failures' = 0
    /\ expired' = FALSE

Init ==
    /\ StoreInit
    /\ ClusterInit
    /\ mode = "down"
    /\ queue = <<>>
    /\ paused = FALSE
    /\ at = "stopped"
    /\ memo = NoMemo
    /\ sig = NoSig
    /\ failures = 0
    /\ expired = FALSE
    /\ published = [counted |-> {}, paused |-> FALSE]
    /\ visit = [v \in Visitors |-> NoVisit]
    /\ spent = 0

\* Trouble of this kind happens now.
Trouble(kind) ==
    /\ kind \in Events
    /\ spent < MaxEvents
    /\ spent' = spent + 1
-----------------------------------------------------------------------------
(* The life of the process *)

IsRefillNewestFirst(q, pending) ==    \* mutant: PendingInOrder lists downwards
    /\ \A i, j \in DOMAIN q : i < j => q[i] > q[j]
    /\ \A n \in pending : \E i \in DOMAIN q : q[i] = n
    /\ \A i \in DOMAIN q : q[i] \in pending

\* q is what fits the queue of PendingInOrder, oldest first.
IsRefill(q, pending) ==
    /\ \A i, j \in DOMAIN q : i < j => q[i] < q[j]
    /\ \A i \in DOMAIN q : q[i] \in pending
    /\ \A n \in pending :
          \/ \E i \in DOMAIN q : q[i] = n
          \/ Len(q) = QueueSize /\ \A i \in DOMAIN q : q[i] < n

Refills == UNION {[1 .. k -> Num] : k \in 0 .. QueueSize}

\* Start, then the worker and the server.  Nothing else runs during Start.
Start ==
    /\ mode = "down"
    /\ mode' = "up"
    /\ InsertGenesis
    /\ \E q \in Refills : IsRefill(q, PendingLinks') /\ queue' = q
    /\ Rest("idle")
    /\ published' = StatsNow
    /\ UNCHANGED <<horizon, clusterVars, paused, visit, spent>>

\* Start fails after it wrote the pledge, and with it the process.
StartFails ==
    /\ Trouble("store")
    /\ mode = "down"
    /\ Stored = {}
    /\ InsertGenesis
    /\ UNCHANGED <<horizon, clusterVars, workerVars, processVars>>

\* SIGTERM: the listener closes, running handlers and the worker go on.
Shutdown ==
    /\ Trouble("shutdown")
    /\ mode = "up"
    /\ mode' = "stopping"
    /\ UNCHANGED <<storeVars, clusterVars, workerVars, queue, paused, published, visit>>

\* Everything in memory is gone.
Down ==
    /\ mode' = "down"
    /\ queue' = <<>>
    /\ paused' = FALSE
    /\ Rest("stopped")
    /\ visit' = [v \in Visitors |-> NoVisit]
    /\ UNCHANGED <<storeVars, clusterVars, published>>

\* The handlers are done and the worker has returned.
Exit ==
    /\ mode = "stopping"
    /\ \A v \in Visitors : visit[v] = NoVisit
    /\ at = "stopped"
    /\ Down
    /\ UNCHANGED spent

\* "the worker is still busy, exiting anyway"
ExitAnyway ==
    /\ Trouble("hang")
    /\ mode = "stopping"
    /\ Down

Crash ==
    /\ Trouble("crash")
    /\ mode # "down"
    /\ Down
-----------------------------------------------------------------------------
(* Add: one request of visitor v *)

\* Bound: a request starts only while there is a number left for it.
RoomForARow ==
    MaxLinks + 1 > Cardinality(Stored)
                     + Cardinality({v \in Visitors : visit[v].pc \in {"checked", "room"}})

\* The duplicate check passes.  A refused sentence changes nothing.  Of a
\* process that stops, the requests it had taken still come to Add.
AddCheck(v, act) ==
    /\ mode # "down"
    /\ visit[v] = NoVisit
    /\ RoomForARow
    /\ ~SeenSince(act)
    /\ visit' = [visit EXCEPT ![v] = [pc |-> "checked", act |-> act, n |-> -1]]
    /\ UNCHANGED <<storeVars, clusterVars, workerVars, mode, queue, paused, published, spent>>

\* Is there room in the queue?  If not, the answer is ErrBusy.
AddCapacity(v) ==
    /\ visit[v].pc = "checked"
    /\ visit' = [visit EXCEPT ![v] = IF Len(queue) >= QueueSize THEN NoVisit
                                     ELSE [@ EXCEPT !.pc = "room"]]
    /\ UNCHANGED <<storeVars, clusterVars, workerVars, mode, queue, paused, published, spent>>

AddInsert(v) ==
    /\ visit[v].pc = "room"
    /\ \E n \in Num :
          /\ Insert(n, visit[v].act)
          /\ visit' = [visit EXCEPT ![v].pc = "stored", ![v].n = n]
    /\ UNCHANGED <<horizon, clusterVars, workerVars, mode, queue, paused, published, spent>>

AddInsertFails(v) ==
    /\ Trouble("store")
    /\ visit[v].pc = "room"
    /\ visit' = [visit EXCEPT ![v] = NoVisit]
    /\ UNCHANGED <<storeVars, clusterVars, workerVars, mode, queue, paused, published>>

AddEnqueueAlways(v) ==    \* mutant: a queue without a limit
    /\ visit[v].pc = "stored"
    /\ queue' = Append(queue, visit[v].n)
    /\ visit' = [visit EXCEPT ![v] = NoVisit]
    /\ UNCHANGED <<storeVars, clusterVars, workerVars, mode, paused, published, spent>>

\* The number goes to the worker, unless the queue has filled up meanwhile.
AddEnqueue(v) ==
    /\ visit[v].pc = "stored"
    /\ queue' = IF Len(queue) < QueueSize THEN Append(queue, visit[v].n) ELSE queue
    /\ visit' = [visit EXCEPT ![v] = NoVisit]
    /\ UNCHANGED <<storeVars, clusterVars, workerVars, mode, paused, published, spent>>
-----------------------------------------------------------------------------
(* Run and process: the worker *)

TooLarge(m) == m.n = 0 /\ ~PledgeFits

\* Run receives a number; process reads the row and the head of the chain
\* and encodes the memo.  Go's select may still pick the queue after ctx ended.
TakeNext ==
    /\ at = "idle"
    /\ queue # <<>>
    /\ queue' = Tail(queue)
    /\ LET n == Head(queue) IN
          IF links[n].status = "pending"
          THEN /\ at' = "sending"
               /\ \E s \in Prev :
                     IsHead(s) /\ memo' = [n |-> n, act |-> links[n].act, prev |-> s]
          ELSE UNCHANGED <<at, memo>>
    /\ UNCHANGED <<storeVars, clusterVars, sig, failures, expired,
                   mode, paused, published, visit, spent>>

\* Get or LastConfirmed fails: the number is off the queue and forgotten.
TakeFails ==
    /\ Trouble("store")
    /\ at = "idle"
    /\ queue # <<>>
    /\ queue' = Tail(queue)
    /\ UNCHANGED <<storeVars, clusterVars, workerVars, mode, paused, published, visit>>

\* The context of the link in hand runs out.  It covers every attempt at it.
DeadlinePasses ==
    /\ Trouble("deadline")
    /\ at \notin {"idle", "stopped"}
    /\ ~expired
    /\ expired' = TRUE
    /\ UNCHANGED <<storeVars, clusterVars, processVars, at, memo, sig, failures>>

\* SendMemo refuses the memo before anything is sent.
SendRefused ==
    /\ at = "sending"
    /\ TooLarge(memo)
    /\ at' = "failing"
    /\ UNCHANGED <<storeVars, clusterVars, processVars, memo, sig, failures, expired, spent>>

\* SendMemo returned an error that is not permanent.
AttemptFailed ==
    /\ sig' = NoSig
    /\ failures' = IF failures < PausedAfter THEN failures + 1 ELSE failures
    /\ IF failures + 1 >= PausedAfter /\ ~paused
       THEN paused' = TRUE /\ at' = "pausing"
       ELSE UNCHANGED paused /\ at' = "backoff"
    /\ UNCHANGED <<storeVars, memo, expired, mode, queue, published, visit>>

\* There is no blockhash to be had.
SendFails ==
    /\ at = "sending"
    /\ ~TooLarge(memo)
    /\ ~reachable \/ expired
    /\ AttemptFailed
    /\ UNCHANGED <<clusterVars, spent>>

CanSend ==
    /\ at = "sending"
    /\ ~TooLarge(memo)
    /\ reachable
    /\ ~expired

Submit ==
    /\ CanSend
    /\ Sign(memo)
    /\ sig' = signed'
    /\ at' = "waiting"
    /\ UNCHANGED <<storeVars, processVars, memo, failures, expired, spent>>

\* The node answers the send with an error and may have passed it on.
SubmitFails ==
    /\ Trouble("answer")
    /\ CanSend
    /\ Sign(memo)
    /\ AttemptFailed

SeesProcessed(state) ==    \* mutant: a transaction is believed before it is confirmed
    /\ at = "waiting"
    /\ reachable
    /\ ~expired
    /\ txs[sig].state \in {"sent", state}

\* waitConfirmed reads the status of the transaction.
Sees(state) ==
    /\ at = "waiting"
    /\ reachable
    /\ ~expired
    /\ txs[sig].state = state

SeeConfirmed ==
    /\ Sees("landed")
    /\ at' = "confirming"
    /\ UNCHANGED <<storeVars, clusterVars, processVars, memo, sig, failures, expired, spent>>

RejectUnanswered ==    \* mutant: no answer yet is taken for a rejection
    /\ at = "waiting"
    /\ at' = "failing"
    /\ UNCHANGED <<storeVars, clusterVars, processVars, memo, sig, failures, expired, spent>>

SeeRejected ==
    /\ Sees("rejected")
    /\ at' = "failing"
    /\ UNCHANGED <<storeVars, clusterVars, processVars, memo, sig, failures, expired, spent>>

SeeExpired ==
    /\ Sees("expired")
    /\ AttemptFailed
    /\ UNCHANGED <<clusterVars, spent>>

\* The wait ends without an answer, whatever becomes of the transaction.
GiveUp ==
    /\ at = "waiting"
    /\ ~reachable \/ expired
    /\ AttemptFailed
    /\ UNCHANGED <<clusterVars, spent>>

\* The same with a node that answers: its 90 seconds are over, or it takes a
\* transaction for expired that is not (see RpcSend).
GiveUpEarly ==
    /\ Trouble("answer")
    /\ at = "waiting"
    /\ reachable
    /\ ~expired
    /\ AttemptFailed
    /\ UNCHANGED clusterVars

ConfirmSilently ==    \* mutant: confirm publishes no stats
    /\ at = "confirming"
    /\ ~expired
    /\ MarkConfirmed(memo.n, sig, memo.prev)
    /\ paused' = FALSE
    /\ Rest("idle")
    /\ UNCHANGED <<horizon, clusterVars, mode, queue, published, visit, spent>>

\* MarkConfirmed went through; LinkChanged is broadcast.
Confirm ==
    /\ at = "confirming"
    /\ ~expired
    /\ MarkConfirmed(memo.n, sig, memo.prev)
    /\ paused' = FALSE
    /\ at' = "announcing"
    /\ UNCHANGED <<horizon, clusterVars, memo, sig, failures, expired,
                   mode, queue, published, visit, spent>>

FailAndRetry ==    \* mutant: no return after fail
    /\ at = "failing"
    /\ ~expired
    /\ MarkFailed(memo.n)
    /\ at' = "backoff"
    /\ UNCHANGED <<horizon, clusterVars, processVars, memo, sig, failures, expired, spent>>

\* MarkFailed went through; LinkChanged is broadcast.
Fail ==
    /\ at = "failing"
    /\ ~expired
    /\ MarkFailed(memo.n)
    /\ at' = "announcing"
    /\ UNCHANGED <<horizon, clusterVars, processVars, memo, sig, failures, expired, spent>>

\* The outcome cannot be recorded: process gives the link up as it is.
NotRecorded ==
    /\ at \in {"confirming", "failing"}
    /\ expired \/ links[memo.n].status # "pending"
    /\ Rest("idle")
    /\ UNCHANGED <<storeVars, clusterVars, processVars, spent>>

RecordFails ==
    /\ Trouble("store")
    /\ at \in {"confirming", "failing"}
    /\ Rest("idle")
    /\ UNCHANGED <<storeVars, clusterVars, processVars>>

\* publishStats, then on to what follows it.
AfterStats ==
    \/ at = "announcing" /\ Rest("idle")
    \/ at = "pausing" /\ at' = "backoff" /\ UNCHANGED <<memo, sig, failures, expired>>

PublishStats ==
    /\ AfterStats
    /\ published' = IF expired THEN published ELSE StatsNow
    /\ UNCHANGED <<storeVars, clusterVars, mode, queue, paused, visit, spent>>

StatsFail ==
    /\ Trouble("store")
    /\ AfterStats
    /\ UNCHANGED <<storeVars, clusterVars, processVars>>

RetryNever ==    \* mutant: one attempt only
    /\ at = "backoff"
    /\ Rest("idle")
    /\ UNCHANGED <<storeVars, clusterVars, processVars, spent>>

\* The wait is over: another attempt, with the same memo.
Retry ==
    /\ at = "backoff"
    /\ at' = "sending"
    /\ UNCHANGED <<storeVars, clusterVars, processVars, memo, sig, failures, expired, spent>>

StopSending ==    \* mutant: the shutdown cancels SendMemo too
    /\ at \in {"waiting", "backoff"}
    /\ mode = "stopping"
    /\ Rest("idle")
    /\ UNCHANGED <<storeVars, clusterVars, processVars, spent>>

\* ctx ended during the wait: process returns and the row stays pending.
StopWaiting ==
    /\ at = "backoff"
    /\ mode = "stopping"
    /\ Rest("idle")
    /\ UNCHANGED <<storeVars, clusterVars, processVars, spent>>

\* Run returns.
StopIdle ==
    /\ at = "idle"
    /\ mode = "stopping"
    /\ Rest("stopped")
    /\ UNCHANGED <<storeVars, clusterVars, processVars, spent>>
-----------------------------------------------------------------------------
(* The cluster and the clock *)

ClusterSettles(s) ==
    /\ Land(s) \/ Reject(s)
    /\ UNCHANGED <<storeVars, workerVars, processVars, spent>>

BlockhashExpires(s) ==
    /\ Trouble("expire")
    /\ Expire(s)
    /\ UNCHANGED <<storeVars, workerVars, processVars>>

NodeStops ==
    /\ Trouble("outage")
    /\ Outage
    /\ UNCHANGED <<storeVars, workerVars, processVars>>

NodeRecovers ==
    /\ Recover
    /\ UNCHANGED <<storeVars, workerVars, processVars, spent>>

TimePasses ==
    /\ Trouble("day")
    /\ \E h \in 1 .. MaxLinks + 1 : DayPasses(h)
    /\ UNCHANGED <<links, clusterVars, workerVars, processVars>>
-----------------------------------------------------------------------------
HandlerStep(v) == AddCapacity(v) \/ AddInsert(v) \/ AddEnqueue(v)

WorkerStep ==
    \/ TakeNext \/ SendRefused \/ SendFails \/ Submit
    \/ SeeConfirmed \/ SeeRejected \/ SeeExpired \/ GiveUp
    \/ Confirm \/ Fail \/ NotRecorded \/ PublishStats
    \/ Retry \/ StopWaiting \/ StopIdle

Next ==
    \/ Start \/ StartFails \/ Shutdown \/ Exit \/ ExitAnyway \/ Crash
    \/ \E v \in Visitors :
          \/ \E act \in Acts : AddCheck(v, act)
          \/ HandlerStep(v)
          \/ AddInsertFails(v)
    \/ WorkerStep
    \/ TakeFails \/ DeadlinePasses \/ SubmitFails \/ GiveUpEarly
    \/ RecordFails \/ StatsFail
    \/ \E s \in Sig : ClusterSettles(s) \/ BlockhashExpires(s)
    \/ NodeStops \/ NodeRecovers \/ TimePasses

Spec == Init /\ [][Next]_vars

(* The Go scheduler runs every goroutine that can run, the platform starts *)
(* the process again, the cluster settles what was sent and the node comes *)
(* back.  Nothing is assumed of visitors or of trouble.                    *)
Fairness ==
    /\ WF_vars(Start)
    /\ WF_vars(Exit)
    /\ WF_vars(WorkerStep)
    /\ \A v \in Visitors : WF_vars(HandlerStep(v))
    /\ \A s \in Sig : WF_vars(ClusterSettles(s))
    /\ WF_vars(NodeRecovers)

FairSpec == Spec /\ Fairness
=============================================================================
