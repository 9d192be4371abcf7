-------------------------- MODULE ChainQueue_proofs --------------------------
(***************************************************************************)
(* The queue of ChainService hands each pending link out once, for any     *)
(* number of visitors, links and transactions, any queue size and any      *)
(* trouble; and what ChainService keeps on a machine that loses power,     *)
(* however many statements are lost.                                       *)
(***************************************************************************)
EXTENDS PowerLoss, ChainService_proofs, FiniteSetTheorems, SequenceTheorems

USE BoundsAssumption DEF Num

LEMMA NoMemoIsNoLink == NoMemo.n \notin Num /\ NoMemo.n = -1
BY DEF NoMemo

(* A link's number is in one place: in the hands of the visitor who has    *)
(* stored it and not yet queued it, in the queue, or with the worker.      *)
(* Visitors and queue hold pending links only.                             *)
Stores(v) == visit[v].pc = "stored"

HeldByOne ==
    /\ \A v \in Visitors : Stores(v) =>
          /\ links[visit[v].n].status = "pending"
          /\ visit[v].n # memo.n
          /\ \A i \in DOMAIN queue : queue[i] # visit[v].n
    /\ \A v, w \in Visitors : Stores(v) /\ Stores(w) /\ visit[v].n = visit[w].n => v = w

QueueInv ==
    /\ QueueSound
    /\ HeldByOne
    /\ memo.n \in Num => links[memo.n].status # "none"
    /\ mode = "down" => queue = <<>>

LEMMA QueueInit == Init => QueueInv
BY NoMemoIsNoLink DEF Init, QueueInv, QueueSound, HeldByOne, Stores, NoVisit

LEMMA QueueTypes ==
    ASSUME TypeOK
    PROVE  /\ queue \in Seq(Num)
           /\ \A i \in DOMAIN queue : queue[i] \in Num
           /\ visit \in [Visitors -> Visit]
           /\ \A v \in Visitors : Stores(v) => visit[v].n \in Num
           /\ links \in [Num -> Row]
BY DEF TypeOK, StoreTypeOK, Visit, Stores

(* Steps that put no link into other hands: at most the worker lets go of  *)
(* its own, or a visitor goes away, and no other link is settled.          *)
LEMMA QueueFrame ==
    ASSUME TypeOK, QueueInv,
           UNCHANGED queue,
           mode' = mode \/ mode' # "down",
           \A v \in Visitors : Stores(v)' => visit'[v] = visit[v],
           memo' = memo \/ memo' = NoMemo,
           \A n \in Num : links[n].status # "none" => links'[n].status # "none",
           \A n \in Num : links[n].status = "pending" /\ n # memo.n
                            => links'[n].status = "pending"
    PROVE  QueueInv'
<1>1. /\ \A i \in DOMAIN queue : queue[i] \in Num
      /\ \A v \in Visitors : Stores(v) => visit[v].n \in Num
  BY QueueTypes
<1>2. \A v \in Visitors : Stores(v)' => Stores(v)
  BY DEF Stores
<1>3. \A n \in Num : n # memo.n => n # memo'.n
  BY NoMemoIsNoLink
<1>4. QueueSound'
  BY <1>1, <1>3 DEF QueueInv, QueueSound
<1>5. HeldByOne'
  <2>1. ASSUME NEW v \in Visitors, Stores(v)'
        PROVE  /\ links'[visit'[v].n].status = "pending"
               /\ visit'[v].n # memo'.n
               /\ \A i \in DOMAIN queue' : queue'[i] # visit'[v].n
    BY <2>1, <1>1, <1>2, <1>3 DEF QueueInv, HeldByOne
  <2>2. ASSUME NEW v \in Visitors, NEW w \in Visitors, Stores(v)', Stores(w)',
               visit'[v].n = visit'[w].n
        PROVE  v = w
    BY <2>2, <1>2 DEF QueueInv, HeldByOne
  <2> QED
    BY <2>1, <2>2 DEF HeldByOne
<1>6. memo'.n \in Num => links'[memo'.n].status # "none"
  BY NoMemoIsNoLink DEF QueueInv
<1> QED
  BY <1>4, <1>5, <1>6 DEF QueueInv

(* A new row is in nobody's hands. *)
LEMMA QueueInsert ==
    ASSUME TypeOK, QueueInv, NEW v \in Visitors, AddInsert(v)
    PROVE  QueueInv'
<1>0. PICK n \in Num :
        /\ Insert(n, visit[v].act)
        /\ visit' = [visit EXCEPT ![v].pc = "stored", ![v].n = n]
  BY DEF AddInsert
<1>1. /\ queue \in Seq(Num) /\ \A i \in DOMAIN queue : queue[i] \in Num
      /\ visit \in [Visitors -> Visit]
      /\ \A w \in Visitors : Stores(w) => visit[w].n \in Num
      /\ links \in [Num -> Row]
  BY QueueTypes
<1>2. UNCHANGED <<queue, memo, mode>>
  BY DEF AddInsert, workerVars
<1>3. links[n].status = "none"
  BY <1>0 DEF Insert, IsNextNumber, Stored
<1>4. /\ links'[n].status = "pending"
      /\ \A m \in Num : m # n => links'[m] = links[m]
  BY <1>0, <1>1 DEF Insert, NewRow, NoRow
<1>5. /\ Stores(v)' /\ visit'[v].n = n
      /\ \A w \in Visitors : w # v => visit'[w] = visit[w]
  BY <1>0, <1>1 DEF Stores, Visit
<1>6. \A i \in DOMAIN queue : queue[i] # n
  BY <1>1, <1>3 DEF QueueInv, QueueSound
<1>7. \A w \in Visitors : Stores(w) => visit[w].n # n
  BY <1>3 DEF QueueInv, HeldByOne
<1>8. memo.n # n
  BY <1>3 DEF QueueInv
<1>9. QueueSound'
  BY <1>1, <1>2, <1>4, <1>6 DEF QueueInv, QueueSound
<1>10. HeldByOne'
  <2>1. ASSUME NEW w \in Visitors, Stores(w)'
        PROVE  /\ links'[visit'[w].n].status = "pending"
               /\ visit'[w].n # memo'.n
               /\ \A i \in DOMAIN queue' : queue'[i] # visit'[w].n
    <3>1. CASE w = v
      BY <3>1, <1>2, <1>4, <1>5, <1>6, <1>8
    <3>2. CASE w # v
      <4>1. Stores(w) /\ visit'[w].n = visit[w].n
        BY <2>1, <3>2, <1>5 DEF Stores
      <4> QED
        BY <4>1, <1>1, <1>2, <1>4, <1>7 DEF QueueInv, HeldByOne
    <3> QED
      BY <3>1, <3>2
  <2>2. ASSUME NEW w \in Visitors, NEW x \in Visitors, Stores(w)', Stores(x)',
               visit'[w].n = visit'[x].n
        PROVE  w = x
    BY <2>2, <1>5, <1>7 DEF Stores, QueueInv, HeldByOne
  <2> QED
    BY <2>1, <2>2 DEF HeldByOne
<1>11. memo'.n \in Num => links'[memo'.n].status # "none"
  BY <1>2, <1>4, <1>8 DEF QueueInv
<1>12. mode' = "down" => queue' = <<>>
  BY <1>2 DEF QueueInv
<1> QED
  BY <1>9, <1>10, <1>11, <1>12 DEF QueueInv

(* From the visitor's hands into the queue. *)
LEMMA QueueEnqueue ==
    ASSUME TypeOK, QueueInv, mode # "down", NEW v \in Visitors, AddEnqueue(v)
    PROVE  QueueInv'
<1>0. /\ Stores(v)
      /\ visit' = [visit EXCEPT ![v] = NoVisit]
      /\ UNCHANGED <<links, memo, mode>>
  BY DEF AddEnqueue, storeVars, workerVars, Stores
<1>1. /\ queue \in Seq(Num)
      /\ visit \in [Visitors -> Visit]
      /\ visit[v].n \in Num
  BY <1>0, QueueTypes
<1>2. \A w \in Visitors : Stores(w)' => w # v /\ visit'[w] = visit[w]
  BY <1>0, <1>1 DEF Stores, NoVisit
<1>3. CASE queue' = queue
  BY <1>0, <1>2, <1>3, QueueFrame
<1>4. CASE queue' = Append(queue, visit[v].n)
  <2>1. /\ DOMAIN queue = 1 .. Len(queue) /\ Len(queue) \in Nat
        /\ DOMAIN queue' = 1 .. Len(queue) + 1
        /\ \A i \in DOMAIN queue : queue'[i] = queue[i]
        /\ queue'[Len(queue) + 1] = visit[v].n
    BY <1>1, <1>4
  <2>2. \A i \in DOMAIN queue' : i \in DOMAIN queue \/ i = Len(queue) + 1
    BY <2>1
  <2>3. /\ links[visit[v].n].status = "pending" /\ visit[v].n # memo.n
        /\ \A i \in DOMAIN queue : queue[i] # visit[v].n
    BY <1>0 DEF QueueInv, HeldByOne
  <2>4. \A i \in DOMAIN queue' : queue'[i] = visit[v].n \/ \E j \in DOMAIN queue : queue'[i] = queue[j]
    BY <2>1, <2>2
  <2>5. QueueSound'
    <3>1. \A i \in DOMAIN queue' : links'[queue'[i]].status = "pending" /\ queue'[i] # memo'.n
      BY <1>0, <2>3, <2>4 DEF QueueInv, QueueSound
    <3>2. ASSUME NEW i \in DOMAIN queue', NEW j \in DOMAIN queue', queue'[i] = queue'[j]
          PROVE  i = j
      BY <3>2, <2>1, <2>2, <2>3 DEF QueueInv, QueueSound
    <3> QED
      BY <3>1, <3>2 DEF QueueSound
  <2>6. HeldByOne'
    <3>1. ASSUME NEW w \in Visitors, Stores(w)'
          PROVE  /\ links'[visit'[w].n].status = "pending"
                 /\ visit'[w].n # memo'.n
                 /\ \A i \in DOMAIN queue' : queue'[i] # visit'[w].n
      <4>1. w # v /\ Stores(w) /\ visit'[w] = visit[w]
        BY <3>1, <1>2 DEF Stores
      <4>2. visit[w].n # visit[v].n
        BY <4>1, <1>0 DEF QueueInv, HeldByOne
      <4> QED
        BY <4>1, <4>2, <1>0, <2>4 DEF QueueInv, HeldByOne
    <3>2. ASSUME NEW w \in Visitors, NEW x \in Visitors, Stores(w)', Stores(x)',
                 visit'[w].n = visit'[x].n
          PROVE  w = x
      BY <3>2, <1>2 DEF Stores, QueueInv, HeldByOne
    <3> QED
      BY <3>1, <3>2 DEF HeldByOne
  <2> QED
    BY <1>0, <2>5, <2>6 DEF QueueInv
<1> QED
  BY <1>3, <1>4 DEF AddEnqueue

(* From the queue into the worker's hands. *)
LEMMA QueueTake ==
    ASSUME TypeOK, QueueInv, queue # <<>>, queue' = Tail(queue),
           UNCHANGED <<links, visit, mode>>,
           memo' = memo \/ memo'.n = Head(queue)
    PROVE  QueueInv'
<1>1. queue \in Seq(Num)
  BY QueueTypes
<1>2. /\ DOMAIN queue = 1 .. Len(queue) /\ Len(queue) \in Nat \ {0}
      /\ Head(queue) = queue[1] /\ 1 \in DOMAIN queue
  BY <1>1
<1>3. \A i \in DOMAIN queue' :
        i + 1 \in DOMAIN queue /\ i + 1 # 1 /\ queue'[i] = queue[i + 1] /\ i \in Int
  BY <1>1, <1>2
<1>4. links[Head(queue)].status = "pending"
  BY <1>2 DEF QueueInv, QueueSound
<1>5. \A i \in DOMAIN queue' : queue'[i] # Head(queue)
  BY <1>2, <1>3 DEF QueueInv, QueueSound
<1>6. QueueSound'
  <2>1. \A i \in DOMAIN queue' : links'[queue'[i]].status = "pending" /\ queue'[i] # memo'.n
    BY <1>3, <1>5 DEF QueueInv, QueueSound
  <2>2. ASSUME NEW i \in DOMAIN queue', NEW j \in DOMAIN queue', queue'[i] = queue'[j]
        PROVE  i = j
    <3>1. i + 1 = j + 1
      BY <2>2, <1>3 DEF QueueInv, QueueSound
    <3> QED
      BY <3>1, <1>3
  <2> QED
    BY <2>1, <2>2 DEF QueueSound
<1>7. HeldByOne'
  BY <1>2, <1>3 DEF QueueInv, HeldByOne, Stores
<1> QED
  BY <1>4, <1>6, <1>7 DEF QueueInv

(* Start fills an empty queue when nobody holds anything. *)
LEMMA QueueStart ==
    ASSUME TypeOK, QueueInv, Admitted, Start
    PROVE  QueueInv'
<1>1. PICK q \in Refills : IsRefill(q, PendingLinks') /\ queue' = q
  BY DEF Start
<1>2. /\ memo' = NoMemo /\ mode' = "up" /\ visit' = visit
      /\ \A v \in Visitors : visit[v] = NoVisit
  BY DEF Start, Rest, Admitted
<1>3. PICK k \in 0 .. QueueSize : q \in [1 .. k -> Num]
  BY <1>1 DEF Refills
<1>4. /\ DOMAIN q = 1 .. k /\ k \in Nat
      /\ \A i \in 1 .. k : q[i] \in Num
  BY <1>3, ServiceAssumption
<1>5. \A i \in DOMAIN q : links'[q[i]].status = "pending" /\ q[i] # NoMemo.n
  BY <1>1, <1>4, NoMemoIsNoLink DEF IsRefill, PendingLinks, With
<1>6. \A i, j \in DOMAIN q : q[i] = q[j] => i = j
  <2> SUFFICES ASSUME NEW i \in DOMAIN q, NEW j \in DOMAIN q, q[i] = q[j], i # j
               PROVE  FALSE
    OBVIOUS
  <2>1. q[i] \in Int /\ q[j] \in Int /\ (i < j \/ j < i)
    BY <1>4
  <2>2. /\ i < j => q[i] < q[j]
        /\ j < i => q[j] < q[i]
    BY <1>1 DEF IsRefill
  <2> QED
    BY <2>1, <2>2
<1>7. QueueSound' /\ HeldByOne'
  BY <1>1, <1>2, <1>5, <1>6 DEF QueueSound, HeldByOne, Stores, NoVisit
<1> QED
  BY <1>2, <1>7, NoMemoIsNoLink DEF QueueInv

LEMMA QueueNext == Durable /\ QueueInv /\ [Next]_vars => QueueInv'
<1> SUFFICES ASSUME Durable, QueueInv, [Next]_vars PROVE QueueInv'
  OBVIOUS
<1>0. TypeOK /\ Admitted
  BY DEF Durable
<1> USE DEF storeVars, workerVars, processVars, Rest
<1>1. CASE Start
  BY <1>0, <1>1, QueueStart
<1>2. CASE StartFails
  <2>1. \A n \in Num : links[n].status = "none"
    BY <1>2 DEF StartFails, Stored
  <2>2. \A n \in Num : links[n].status # "pending"
    BY <2>1
  <2> QED
    BY <1>0, <1>2, <2>1, <2>2, QueueFrame DEF StartFails
<1>3. CASE Exit \/ ExitAnyway \/ Crash
  <2>1. memo' = NoMemo /\ queue' = <<>> /\ visit' = [v \in Visitors |-> NoVisit]
    BY <1>3 DEF Exit, ExitAnyway, Crash, Down
  <2> QED
    BY <2>1, NoMemoIsNoLink DEF QueueInv, QueueSound, HeldByOne, Stores, NoVisit
<1>4. ASSUME NEW v \in Visitors, AddInsert(v) PROVE QueueInv'
  BY <1>0, <1>4, QueueInsert
<1>5. ASSUME NEW v \in Visitors, AddEnqueue(v) PROVE QueueInv'
  <2>1. mode # "down"
    BY <1>0, <1>5 DEF AddEnqueue, Admitted, NoVisit
  <2> QED
    BY <1>0, <1>5, <2>1, QueueEnqueue
<1>6. ASSUME NEW v \in Visitors,
             \/ \E act \in Acts : AddCheck(v, act)
             \/ AddCapacity(v) \/ AddInsertFails(v)
      PROVE  QueueInv'
  <2>1. UNCHANGED <<links, queue, memo, mode>>
    BY <1>6 DEF AddCheck, AddCapacity, AddInsertFails
  <2>2. \E x : visit' = [visit EXCEPT ![v] = x] /\ x.pc # "stored"
    <3>1. CASE \E act \in Acts : AddCheck(v, act)
      <4>1. PICK act \in Acts : visit' = [visit EXCEPT ![v] = [pc |-> "checked", act |-> act, n |-> -1]]
        BY <3>1 DEF AddCheck
      <4> DEFINE checked == [pc |-> "checked", act |-> act, n |-> -1]
      <4>2. visit' = [visit EXCEPT ![v] = checked] /\ checked.pc # "stored"
        BY <4>1
      <4> HIDE DEF checked
      <4> QED
        BY <4>2
    <3>2. CASE AddCapacity(v)
      <4>1. [visit[v] EXCEPT !.pc = "room"].pc = "room"
        BY <1>0, QueueTypes DEF Visit
      <4>2. NoVisit.pc = "none"
        BY DEF NoVisit
      <4>3. \/ visit' = [visit EXCEPT ![v] = NoVisit]
            \/ visit' = [visit EXCEPT ![v] = [visit[v] EXCEPT !.pc = "room"]]
        BY <3>2 DEF AddCapacity
      <4> HIDE DEF NoVisit
      <4> QED
        BY <4>1, <4>2, <4>3
    <3>3. CASE AddInsertFails(v)
      <4>1. visit' = [visit EXCEPT ![v] = NoVisit] /\ NoVisit.pc = "none"
        BY <3>3 DEF AddInsertFails, NoVisit
      <4> QED
        BY <4>1
    <3> QED
      BY <1>6, <3>1, <3>2, <3>3
  <2>3. \A w \in Visitors : Stores(w)' => visit'[w] = visit[w]
    BY <1>0, <2>2, QueueTypes DEF Stores
  <2> QED
    BY <1>0, <2>1, <2>3, QueueFrame
<1>7. CASE TakeNext \/ TakeFails
  <2>1. /\ queue # <<>> /\ queue' = Tail(queue)
        /\ UNCHANGED <<links, visit, mode>>
        /\ memo' = memo \/ memo'.n = Head(queue)
    BY <1>7 DEF TakeNext, TakeFails
  <2> QED
    BY <1>0, <2>1, QueueTake
<1>8. CASE Confirm \/ Fail
  <2>1. /\ UNCHANGED <<queue, mode, visit, memo>>
        /\ MarkConfirmed(memo.n, sig, memo.prev) \/ MarkFailed(memo.n)
    BY <1>8 DEF Confirm, Fail
  <2>2. /\ \A n \in Num : links[n].status # "none" => links'[n].status # "none"
        /\ \A n \in Num : links[n].status = "pending" /\ n # memo.n
                            => links'[n].status = "pending"
    <3>1. links \in [Num -> Row] /\ links[memo.n].status = "pending"
      BY <1>0, <2>1, QueueTypes DEF MarkConfirmed, MarkFailed
    <3>2. /\ \A n \in Num : n # memo.n => links'[n] = links[n]
          /\ memo.n \in Num => links'[memo.n].status \in {"confirmed", "failed"}
      <4>1. CASE MarkConfirmed(memo.n, sig, memo.prev)
        BY <3>1, <4>1 DEF MarkConfirmed, Row
      <4>2. CASE MarkFailed(memo.n)
        BY <3>1, <4>2 DEF MarkFailed, Row
      <4> QED
        BY <2>1, <4>1, <4>2
    <3> QED
      BY <3>2
  <2>3. UNCHANGED <<queue, mode, visit, memo>>
    BY <2>1
  <2> QED
    BY <1>0, <2>2, <2>3, QueueFrame
<1>9. CASE \/ NotRecorded \/ RecordFails \/ PublishStats \/ StatsFail
           \/ StopWaiting \/ StopIdle
  BY <1>0, <1>9, QueueFrame
  DEF NotRecorded, RecordFails, PublishStats, StatsFail, AfterStats, StopWaiting, StopIdle
<1>10. CASE \/ Shutdown \/ DeadlinePasses \/ SendRefused \/ SendFails \/ Submit \/ SubmitFails
            \/ SeeConfirmed \/ SeeRejected \/ SeeExpired \/ GiveUp \/ GiveUpEarly \/ Retry
            \/ NodeStops \/ NodeRecovers \/ TimePasses
            \/ \E s \in Sig : ClusterSettles(s) \/ BlockhashExpires(s)
            \/ UNCHANGED vars
  <2>1. UNCHANGED <<links, queue, memo, visit>> /\ (mode' = mode \/ mode' # "down")
    BY <1>10
    DEF Shutdown, DeadlinePasses, SendRefused, SendFails, Submit, SubmitFails, SeeConfirmed,
        SeeRejected, SeeExpired, GiveUp, GiveUpEarly, Retry, NodeStops, NodeRecovers,
        TimePasses, ClusterSettles, BlockhashExpires, AttemptFailed, vars
  <2> QED
    BY <1>0, <2>1, QueueFrame
<1> QED
  BY <1>1, <1>2, <1>3, <1>4, <1>5, <1>6, <1>7, <1>8, <1>9, <1>10
  DEF Next, HandlerStep, WorkerStep

(* Start, Add and the worker between them never hand out a link twice,     *)
(* and never one that is settled: whatever fails or stops, a number in the *)
(* queue is that of a pending link, is there once and is not the one the   *)
(* worker has.                                                             *)
THEOREM HandedOutOnce == Spec => []QueueSound
<1>1. QueueInv => QueueSound
  BY DEF QueueInv
<1>2. Spec => []QueueInv
  BY QueueInit, QueueNext, DurableHolds, PTL DEF Spec
<1> QED
  BY <1>1, <1>2, PTL
-----------------------------------------------------------------------------
(* Nothing is left behind while the process runs, as long as the queue     *)
(* holds all the links there are: it is the full queue that Add and Start  *)
(* leave links out of, for the next start.                                 *)
QueueHoldsAll == QueueSize > MaxLinks

\* A queue without link n, and no link twice in it, has room for n.
LEMMA RoomForOneMore ==
    ASSUME QueueHoldsAll,
           NEW k \in Nat, NEW q \in [1 .. k -> Num], NEW n \in Num,
           \A i, j \in 1 .. k : q[i] = q[j] => i = j,
           \A i \in 1 .. k : q[i] # n
    PROVE  k < QueueSize
<1>1. IsFiniteSet(1 .. k) /\ Cardinality(1 .. k) = k
  BY FS_Interval
<1>2. IsFiniteSet(Num) /\ Cardinality(Num) = MaxLinks + 1
  BY FS_Interval
<1>3. IsFiniteSet(Num \ {n}) /\ Cardinality(Num \ {n}) = MaxLinks
  <2>1. IsFiniteSet(Num \ {n}) /\ Cardinality(Num \ {n}) = Cardinality(Num) - 1
    BY <1>2, FS_RemoveElement
  <2> QED
    BY <1>2, <2>1
<1>4. q \in [1 .. k -> Num \ {n}]
  OBVIOUS
<1>5. ~(MaxLinks < k)
  BY <1>1, <1>3, <1>4, FS_PigeonHole
<1> QED
  BY <1>5, ServiceAssumption DEF QueueHoldsAll

Carried(n) ==
    \/ \E i \in DOMAIN queue : queue[i] = n
    \/ memo.n = n
    \/ \E v \in Visitors : Stores(v) /\ visit[v].n = n

CarriedInv ==
    /\ ~expired
    /\ at \in {"stopped", "idle"} => memo = NoMemo
    /\ at = "announcing" => memo.n \in Num /\ links[memo.n].status \in {"confirmed", "failed"}
    /\ mode = "up" => \A n \in PendingLinks : Carried(n)

\* Steps after which whoever carried a link still does.
LEMMA CarriedFrame ==
    ASSUME CarriedInv,
           UNCHANGED queue,
           memo' = memo \/ memo.n \notin PendingLinks,
           mode' = "up" => mode = "up",
           PendingLinks' \subseteq PendingLinks,
           \A v \in Visitors : Stores(v) => visit'[v] = visit[v]
    PROVE  mode' = "up" => \A n \in PendingLinks' : Carried(n)'
<1> SUFFICES ASSUME mode' = "up", NEW n \in PendingLinks' PROVE Carried(n)'
  OBVIOUS
<1>1. n \in PendingLinks /\ Carried(n)
  BY DEF CarriedInv
<1>2. CASE memo.n = n
  BY <1>1, <1>2 DEF Carried
<1>3. CASE \E v \in Visitors : Stores(v) /\ visit[v].n = n
  BY <1>3 DEF Carried, Stores
<1>4. CASE \E i \in DOMAIN queue : queue[i] = n
  BY <1>4 DEF Carried
<1> QED
  BY <1>1, <1>2, <1>3, <1>4 DEF Carried

\* The row is in the visitor's hands until its number is in the queue.
LEMMA CarriedInsert ==
    ASSUME TypeOK, CarriedInv, NEW v \in Visitors, AddInsert(v)
    PROVE  CarriedInv'
<1>0. PICK n \in Num :
        /\ Insert(n, visit[v].act)
        /\ visit' = [visit EXCEPT ![v].pc = "stored", ![v].n = n]
  BY DEF AddInsert
<1>1. /\ visit \in [Visitors -> Visit] /\ visit[v].pc = "room"
      /\ links \in [Num -> Row]
      /\ UNCHANGED <<queue, memo, mode, at, expired>>
  BY QueueTypes DEF AddInsert, workerVars
<1>2. Stores(v)' /\ visit'[v].n = n
  BY <1>0, <1>1 DEF Stores, Visit
<1>3. \A w \in Visitors : Stores(w) => visit'[w] = visit[w]
  BY <1>0, <1>1 DEF Stores
<1>4. links[n].status = "none" /\ \A m \in Num : m # n => links'[m] = links[m]
  BY <1>0, <1>1 DEF Insert, IsNextNumber, Stored
<1>5. ASSUME mode' = "up", NEW m \in PendingLinks' PROVE Carried(m)'
  <2>1. CASE m = n
    BY <1>2, <2>1 DEF Carried
  <2>2. CASE m # n
    <3>1. Carried(m)
      BY <1>1, <1>4, <1>5, <2>2 DEF PendingLinks, With, CarriedInv
    <3> QED
      BY <1>1, <1>3, <3>1 DEF Carried, Stores
  <2> QED
    BY <2>1, <2>2
<1>6. at' = "announcing" => memo'.n \in Num /\ links'[memo'.n].status \in {"confirmed", "failed"}
  BY <1>1, <1>4 DEF CarriedInv
<1> QED
  BY <1>1, <1>5, <1>6 DEF CarriedInv

LEMMA CarriedEnqueue ==
    ASSUME QueueHoldsAll, TypeOK, QueueInv, CarriedInv, NEW v \in Visitors, AddEnqueue(v)
    PROVE  CarriedInv'
<1>0. /\ Stores(v)
      /\ visit' = [visit EXCEPT ![v] = NoVisit]
      /\ UNCHANGED <<links, memo, mode, at, expired>>
  BY DEF AddEnqueue, storeVars, workerVars, Stores
<1>1. /\ queue \in Seq(Num)
      /\ visit \in [Visitors -> Visit]
      /\ visit[v].n \in Num
  BY <1>0, QueueTypes
<1>2. Len(queue) < QueueSize
  <2>1. queue \in [1 .. Len(queue) -> Num] /\ Len(queue) \in Nat /\ DOMAIN queue = 1 .. Len(queue)
    BY <1>1
  <2>2. /\ \A i, j \in DOMAIN queue : queue[i] = queue[j] => i = j
        /\ \A i \in DOMAIN queue : queue[i] # visit[v].n
    BY <1>0 DEF QueueInv, QueueSound, HeldByOne
  <2> QED
    BY <1>1, <2>1, <2>2, RoomForOneMore
<1>3. queue' = Append(queue, visit[v].n)
  BY <1>2 DEF AddEnqueue
<1>4. /\ \A i \in DOMAIN queue : i \in DOMAIN queue' /\ queue'[i] = queue[i]
      /\ Len(queue) + 1 \in DOMAIN queue' /\ queue'[Len(queue) + 1] = visit[v].n
  BY <1>1, <1>3
<1>5. \A w \in Visitors : w # v => visit'[w] = visit[w]
  BY <1>0, <1>1
<1>6. ASSUME mode' = "up", NEW m \in PendingLinks' PROVE Carried(m)'
  <2>1. Carried(m)
    BY <1>0, <1>6 DEF CarriedInv, PendingLinks, With
  <2>2. CASE \E i \in DOMAIN queue : queue[i] = m
    BY <1>4, <2>2 DEF Carried
  <2>3. CASE memo.n = m
    BY <1>0, <2>3 DEF Carried
  <2>4. CASE visit[v].n = m
    BY <1>4, <2>4 DEF Carried
  <2>5. CASE \E w \in Visitors : w # v /\ Stores(w) /\ visit[w].n = m
    BY <1>5, <2>5 DEF Carried, Stores
  <2> QED
    BY <2>1, <2>2, <2>3, <2>4, <2>5 DEF Carried
<1> QED
  BY <1>0, <1>6 DEF CarriedInv

LEMMA CarriedTake ==
    ASSUME TypeOK, CarriedInv, TakeNext
    PROVE  CarriedInv'
<1>1. /\ queue \in Seq(Num) /\ queue # <<>> /\ queue' = Tail(queue)
      /\ UNCHANGED <<links, visit, mode, expired>>
      /\ at = "idle" /\ memo = NoMemo
  BY QueueTypes DEF TakeNext, storeVars, CarriedInv
<1>2. \/ links[Head(queue)].status # "pending" /\ UNCHANGED <<at, memo>>
      \/ at' = "sending" /\ memo'.n = Head(queue)
  BY DEF TakeNext
<1>3. \A i \in DOMAIN queue : queue[i] = Head(queue) \/ \E j \in DOMAIN queue' : queue'[j] = queue[i]
  <2> SUFFICES ASSUME NEW i \in DOMAIN queue, i # 1
               PROVE  \E j \in DOMAIN queue' : queue'[j] = queue[i]
    BY <1>1
  <2>1. i - 1 \in DOMAIN queue' /\ queue'[i - 1] = queue[i]
    BY <1>1
  <2> QED
    BY <2>1
<1>4. ASSUME mode' = "up", NEW m \in PendingLinks' PROVE Carried(m)'
  <2>1. m \in Num /\ links[m].status = "pending" /\ Carried(m)
    BY <1>1, <1>4 DEF CarriedInv, PendingLinks, With
  <2>2. memo.n # m
    BY <1>1, <2>1, NoMemoIsNoLink
  <2>3. CASE \E v \in Visitors : Stores(v) /\ visit[v].n = m
    BY <1>1, <2>3 DEF Carried, Stores
  <2>4. CASE \E i \in DOMAIN queue : queue[i] = m
    <3>1. m = Head(queue) \/ \E j \in DOMAIN queue' : queue'[j] = m
      BY <1>3, <2>4
    <3> QED
      BY <1>2, <2>1, <3>1 DEF Carried
  <2> QED
    BY <2>1, <2>2, <2>3, <2>4 DEF Carried
<1> QED
  BY <1>1, <1>2, <1>4 DEF CarriedInv

LEMMA CarriedStart ==
    ASSUME QueueHoldsAll, Start
    PROVE  CarriedInv'
<1>1. PICK q \in Refills : IsRefill(q, PendingLinks') /\ queue' = q
  BY DEF Start
<1>2. memo' = NoMemo /\ at' = "idle" /\ expired' = FALSE
  BY DEF Start, Rest
<1>3. PICK k \in 0 .. QueueSize : q \in [1 .. k -> Num]
  BY <1>1 DEF Refills
<1>4. /\ DOMAIN q = 1 .. k /\ k \in Nat
      /\ \A i \in 1 .. k : q[i] \in Num
      /\ Len(q) = k
  <2>1. DOMAIN q = 1 .. k /\ k \in Nat /\ \A i \in 1 .. k : q[i] \in Num
    BY <1>3, ServiceAssumption
  <2>2. q \in Seq(Num)
    BY <1>3, <2>1
  <2> QED
    BY <2>1, <2>2
<1>5. ASSUME NEW n \in PendingLinks' PROVE \E i \in DOMAIN q : q[i] = n
  <2> SUFFICES ASSUME \A i \in DOMAIN q : q[i] # n PROVE FALSE
    OBVIOUS
  <2>1. n \in Num
    BY <1>5 DEF PendingLinks, With
  <2>2. ASSUME NEW i \in 1 .. k, NEW j \in 1 .. k, q[i] = q[j] PROVE i = j
    <3>1. /\ i < j => q[i] < q[j]
          /\ j < i => q[j] < q[i]
      BY <1>1, <1>4 DEF IsRefill
    <3>2. q[i] \in Int /\ ~(q[i] < q[i])
      BY <1>4
    <3> QED
      BY <2>2, <3>1, <3>2
  <2>3. k < QueueSize
    BY <1>3, <1>4, <2>1, <2>2, RoomForOneMore
  <2>4. k = QueueSize
    BY <1>1, <1>4, <1>5 DEF IsRefill
  <2> QED
    BY <2>3, <2>4, ServiceAssumption
<1> QED
  BY <1>1, <1>2, <1>5 DEF CarriedInv, Carried

LEMMA CarriedNext ==
    ASSUME QueueHoldsAll, Unhindered, Durable, QueueInv, CarriedInv, [Next]_vars
    PROVE  CarriedInv'
<1>0. /\ TypeOK /\ InHand /\ links \in [Num -> Row]
      /\ ~expired
  BY DEF Durable, TypeOK, StoreTypeOK, CarriedInv
<1> USE DEF storeVars, workerVars, processVars
<1>1. CASE Start
  BY <1>1, CarriedStart
<1>2. CASE \/ StartFails \/ TakeFails \/ RecordFails \/ StatsFail \/ DeadlinePasses
           \/ \E v \in Visitors : AddInsertFails(v)
  BY <1>2, NoHindrance
<1>3. CASE Exit \/ ExitAnyway \/ Crash
  BY <1>3 DEF Exit, ExitAnyway, Crash, Down, Rest, CarriedInv
<1>4. ASSUME NEW v \in Visitors, AddInsert(v) PROVE CarriedInv'
  BY <1>0, <1>4, CarriedInsert
<1>5. ASSUME NEW v \in Visitors, AddEnqueue(v) PROVE CarriedInv'
  BY <1>0, <1>5, CarriedEnqueue
<1>6. ASSUME NEW v \in Visitors, AddCapacity(v) \/ \E act \in Acts : AddCheck(v, act)
      PROVE  CarriedInv'
  <2>1. UNCHANGED <<links, queue, memo, mode, at, expired>> /\ ~Stores(v)
    BY <1>6 DEF AddCapacity, AddCheck, Stores, NoVisit
  <2>2. \A w \in Visitors : w # v => visit'[w] = visit[w]
    BY <1>0, <1>6, QueueTypes DEF AddCapacity, AddCheck
  <2>3. mode' = "up" => \A n \in PendingLinks' : Carried(n)'
    BY <2>1, <2>2, CarriedFrame DEF PendingLinks, With
  <2> QED
    BY <2>1, <2>3 DEF CarriedInv
<1>7. CASE TakeNext
  BY <1>0, <1>7, CarriedTake
<1>8. CASE Confirm \/ Fail
  <2>1. /\ UNCHANGED <<queue, mode, visit, memo, expired>>
        /\ at \in {"confirming", "failing"} /\ at' = "announcing"
        /\ MarkConfirmed(memo.n, sig, memo.prev) \/ MarkFailed(memo.n)
    BY <1>8 DEF Confirm, Fail
  <2>2. memo.n \in Num /\ links[memo.n] \in Row
    BY <1>0, <2>1 DEF InHand, Memo
  <2>3. /\ \A n \in Num : n # memo.n => links'[n] = links[n]
        /\ links'[memo.n].status \in {"confirmed", "failed"}
    <3>1. CASE MarkConfirmed(memo.n, sig, memo.prev)
      BY <1>0, <2>2, <3>1 DEF MarkConfirmed, Row
    <3>2. CASE MarkFailed(memo.n)
      BY <1>0, <2>2, <3>2 DEF MarkFailed, Row
    <3> QED
      BY <2>1, <3>1, <3>2
  <2>4. mode' = "up" => \A n \in PendingLinks' : Carried(n)'
    <3>1. PendingLinks' \subseteq PendingLinks
      BY <2>3 DEF PendingLinks, With
    <3> QED
      BY <2>1, <3>1, CarriedFrame
  <2> QED
    BY <2>1, <2>2, <2>3, <2>4 DEF CarriedInv
<1>9. CASE NotRecorded
  BY <1>0, <1>9 DEF NotRecorded, InHand
<1>10. CASE PublishStats
  <2>1. /\ UNCHANGED <<links, queue, mode, visit>>
        /\ \/ at = "announcing" /\ Rest("idle")
           \/ at' = "backoff" /\ UNCHANGED <<memo, expired>>
    BY <1>10 DEF PublishStats, AfterStats
  <2>2. memo' = memo \/ memo.n \notin PendingLinks
    BY <2>1 DEF CarriedInv, PendingLinks, With
  <2>3. mode' = "up" => \A n \in PendingLinks' : Carried(n)'
    BY <2>1, <2>2, CarriedFrame DEF PendingLinks, With
  <2> QED
    BY <1>0, <2>1, <2>3 DEF CarriedInv, Rest
<1>11. CASE StopWaiting \/ StopIdle
  BY <1>11 DEF StopWaiting, StopIdle, Rest, CarriedInv
<1>12. CASE \/ Shutdown \/ SendRefused \/ SendFails \/ Submit \/ SubmitFails
            \/ SeeConfirmed \/ SeeRejected \/ SeeExpired \/ GiveUp \/ GiveUpEarly \/ Retry
            \/ NodeStops \/ NodeRecovers \/ TimePasses
            \/ \E s \in Sig : ClusterSettles(s) \/ BlockhashExpires(s)
            \/ UNCHANGED vars
  <2>1. UNCHANGED <<links, queue, memo, visit, expired>> /\ (mode' = "up" => mode = "up")
    BY <1>12
    DEF Shutdown, SendRefused, SendFails, Submit, SubmitFails, SeeConfirmed,
        SeeRejected, SeeExpired, GiveUp, GiveUpEarly, Retry, NodeStops, NodeRecovers,
        TimePasses, ClusterSettles, BlockhashExpires, AttemptFailed, vars
  <2>2. at' = at \/ at' \notin {"stopped", "idle", "announcing"}
    BY <1>12
    DEF Shutdown, SendRefused, SendFails, Submit, SubmitFails, SeeConfirmed,
        SeeRejected, SeeExpired, GiveUp, GiveUpEarly, Retry, NodeStops, NodeRecovers,
        TimePasses, ClusterSettles, BlockhashExpires, AttemptFailed, vars
  <2>3. mode' = "up" => \A n \in PendingLinks' : Carried(n)'
    BY <2>1, CarriedFrame DEF PendingLinks, With
  <2> QED
    BY <2>1, <2>2, <2>3 DEF CarriedInv
<1> QED
  BY <1>1, <1>2, <1>3, <1>4, <1>5, <1>6, <1>7, <1>8, <1>9, <1>10, <1>11, <1>12
  DEF Next, HandlerStep, WorkerStep

LEMMA CarriedInvariant ==
    ASSUME QueueHoldsAll, Unhindered
    PROVE  Spec => [](Durable /\ QueueInv /\ CarriedInv)
<1>1. Init => CarriedInv
  BY DEF Init, CarriedInv
<1>2. Durable /\ QueueInv /\ CarriedInv /\ [Next]_vars => CarriedInv'
  BY CarriedNext
<1> QED
  BY <1>1, <1>2, QueueInit, QueueNext, DurableHolds, PTL DEF Spec

(* While the process runs, a pending link is in the queue, with the worker *)
(* or with the visitor who is about to queue it: through crashes, restarts *)
(* and outages none waits for the next start, as long as the queue holds   *)
(* them all, the store works and no link takes its five minutes.           *)
THEOREM NoneLeftBehind ==
    ASSUME QueueHoldsAll, Unhindered
    PROVE  Spec => []NothingStranded
<1>1. CarriedInv => NothingStranded
  BY DEF CarriedInv, Carried, NothingStranded, Stores, PendingLinks
<1> QED
  BY <1>1, CarriedInvariant, PTL
-----------------------------------------------------------------------------
(* Requests that overlap pass each other between the check and the insert; *)
(* how many they are bounds how often a sentence is taken.  A visitor who  *)
(* has passed the check and not stored yet is counted with the rows: no    *)
(* check passes once there is a row, so an insert turns one into the other *)
(* and nothing is added until the rows have failed or are a day old.       *)
Checked(v) == visit[v].pc \in {"checked", "room"}

Coming(act) == {v \in Visitors : Checked(v) /\ visit[v].act = act}

Few(act) == Cardinality(Repeats(act)) + Cardinality(Coming(act)) =< Cardinality(Visitors)

DupInv == \A act \in Acts : Few(act)

LEMMA FiniteCounts ==
    ASSUME NEW act
    PROVE  /\ IsFiniteSet(Visitors) /\ Cardinality(Visitors) \in Nat
           /\ IsFiniteSet(Repeats(act)) /\ Cardinality(Repeats(act)) \in Nat
           /\ IsFiniteSet(Coming(act)) /\ Cardinality(Coming(act)) \in Nat
           /\ Cardinality(Coming(act)) =< Cardinality(Visitors)
<1>1. IsFiniteSet(Visitors) /\ IsFiniteSet(Num)
  BY ServiceAssumption, FS_Interval
<1>2. Repeats(act) \in SUBSET Num /\ Coming(act) \in SUBSET Visitors
  BY DEF Repeats, Stored, Coming
<1> QED
  BY <1>1, <1>2, FS_Subset, FS_CardinalityType

LEMMA FewerStill ==
    ASSUME NEW act \in Acts, Few(act),
           Repeats(act)' \subseteq Repeats(act), Coming(act)' \subseteq Coming(act)
    PROVE  Few(act)'
<1> DEFINE R == Repeats(act)
           C == Coming(act)
           RR == Repeats(act)'
           CC == Coming(act)'
<1>1. /\ IsFiniteSet(R) /\ Cardinality(R) \in Nat
      /\ IsFiniteSet(C) /\ Cardinality(C) \in Nat /\ Cardinality(Visitors) \in Nat
  BY FiniteCounts
<1>2. Cardinality(R) + Cardinality(C) =< Cardinality(Visitors)
  BY DEF Few
<1>3. RR \in SUBSET R /\ CC \in SUBSET C
  OBVIOUS
<1> HIDE DEF R, C, RR, CC
<1>4. /\ Cardinality(RR) =< Cardinality(R) /\ Cardinality(RR) \in Nat
      /\ Cardinality(CC) =< Cardinality(C) /\ Cardinality(CC) \in Nat
  BY <1>1, <1>3, FS_Subset, FS_CardinalityType
<1>5. Cardinality(RR) + Cardinality(CC) =< Cardinality(Visitors)
  BY <1>1, <1>2, <1>4
<1> QED
  BY <1>5 DEF Few, RR, CC

\* Steps that store nothing: a day goes by, a link is settled.
LEMMA DupFrame ==
    ASSUME TypeOK, DupInv,
           \A n \in Num : links[n].status = "none" => links'[n].status = "none",
           \A n \in Num : links[n].status = "failed" => links'[n].status = "failed",
           \A n \in Num : links'[n].act = links[n].act,
           horizon' = horizon \/ horizon' > horizon, horizon' \in Nat,
           \A v \in Visitors : Checked(v)' => Checked(v) /\ visit'[v].act = visit[v].act
    PROVE  DupInv'
<1>1. horizon \in Nat /\ \A n \in Num : n \in Int
  BY DEF TypeOK, StoreTypeOK
<1>2. \A n \in Num : n >= horizon' => n >= horizon
  BY <1>1
<1>3. ASSUME NEW act \in Acts PROVE Few(act)'
  <2>1. Repeats(act)' \subseteq Repeats(act)
    BY <1>2 DEF Repeats, Stored
  <2>2. Coming(act)' \subseteq Coming(act)
    BY DEF Coming
  <2> QED
    BY <2>1, <2>2, FewerStill DEF DupInv
<1> QED
  BY <1>3 DEF DupInv

\* The pledge is nobody's.
LEMMA DupPledge ==
    ASSUME TypeOK, DupInv, InsertGenesis, UNCHANGED <<horizon, visit>>
    PROVE  DupInv'
<1>1. \A n \in Num : n # 0 => links'[n] = links[n]
  BY DEF InsertGenesis, TypeOK, StoreTypeOK
<1>2. ASSUME NEW act \in Acts PROVE Few(act)'
  <2>1. Repeats(act)' \subseteq Repeats(act)
    BY <1>1 DEF Repeats, Stored
  <2>2. Coming(act)' \subseteq Coming(act)
    BY DEF Coming, Checked
  <2> QED
    BY <2>1, <2>2, FewerStill DEF DupInv
<1> QED
  BY <1>2 DEF DupInv

LEMMA DupInsert ==
    ASSUME TypeOK, DupInv, NEW v \in Visitors, AddInsert(v)
    PROVE  DupInv'
<1>0. PICK n \in Num :
        /\ Insert(n, visit[v].act)
        /\ visit' = [visit EXCEPT ![v].pc = "stored", ![v].n = n]
  BY DEF AddInsert
<1>1. /\ visit \in [Visitors -> Visit] /\ links \in [Num -> Row]
      /\ visit[v].pc = "room" /\ UNCHANGED horizon
  BY QueueTypes DEF AddInsert
<1>2. /\ links'[n].act = visit[v].act
      /\ \A m \in Num : m # n => links'[m] = links[m]
  BY <1>0, <1>1 DEF Insert, NewRow, NoRow
<1>3. ~Checked(v)' /\ Checked(v) /\ \A w \in Visitors : w # v => visit'[w] = visit[w]
  BY <1>0, <1>1 DEF Checked, Visit
<1>4. ASSUME NEW act \in Acts, act # visit[v].act PROVE Few(act)'
  <2>1. Repeats(act)' \subseteq Repeats(act)
    BY <1>1, <1>2, <1>4 DEF Repeats, Stored
  <2>2. Coming(act)' \subseteq Coming(act)
    BY <1>3 DEF Coming, Checked
  <2> QED
    BY <2>1, <2>2, FewerStill DEF DupInv
<1>5. ASSUME NEW act \in Acts, act = visit[v].act PROVE Few(act)'
  <2> DEFINE R == Repeats(act)
             C == Coming(act)
             RR == Repeats(act)'
             CC == Coming(act)'
  <2>1. RR \in SUBSET (R \cup {n})
    BY <1>1, <1>2 DEF Repeats, Stored
  <2>2. v \in C /\ CC \in SUBSET (C \ {v})
    BY <1>3, <1>5 DEF Coming, Checked
  <2>3. /\ IsFiniteSet(R) /\ Cardinality(R) \in Nat
        /\ IsFiniteSet(C) /\ Cardinality(C) \in Nat /\ Cardinality(Visitors) \in Nat
    BY FiniteCounts
  <2>4. Cardinality(R) + Cardinality(C) =< Cardinality(Visitors)
    BY DEF Few, DupInv
  <2> HIDE DEF R, C, RR, CC
  <2>5. /\ IsFiniteSet(R \cup {n}) /\ Cardinality(R \cup {n}) \in Nat
        /\ Cardinality(R \cup {n}) =< Cardinality(R) + 1
    <3>1. /\ IsFiniteSet(R \cup {n})
          /\ Cardinality(R \cup {n}) = IF n \in R THEN Cardinality(R) ELSE Cardinality(R) + 1
      BY <2>3, FS_AddElement
    <3>2. Cardinality(R \cup {n}) \in {Cardinality(R), Cardinality(R) + 1}
      BY <3>1
    <3> QED
      BY <2>3, <3>1, <3>2
  <2>6. IsFiniteSet(C \ {v}) /\ Cardinality(C \ {v}) = Cardinality(C) - 1
    BY <2>2, <2>3, FS_RemoveElement
  <2>7. /\ Cardinality(RR) \in Nat /\ Cardinality(RR) =< Cardinality(R \cup {n})
        /\ Cardinality(CC) \in Nat /\ Cardinality(CC) =< Cardinality(C \ {v})
    BY <2>1, <2>2, <2>5, <2>6, FS_Subset, FS_CardinalityType
  <2>8. Cardinality(RR) + Cardinality(CC) =< Cardinality(Visitors)
    BY <2>3, <2>4, <2>5, <2>6, <2>7
  <2> QED
    BY <2>8 DEF Few, RR, CC
<1> QED
  BY <1>4, <1>5 DEF DupInv

LEMMA DupCheck ==
    ASSUME TypeOK, DupInv, NEW v \in Visitors, NEW act \in Acts, AddCheck(v, act)
    PROVE  DupInv'
<1>1. /\ UNCHANGED <<links, horizon>> /\ ~SeenSince(act)
      /\ visit \in [Visitors -> Visit]
      /\ visit' = [visit EXCEPT ![v] = [pc |-> "checked", act |-> act, n |-> -1]]
  BY QueueTypes DEF AddCheck, storeVars
<1>2. /\ visit'[v].act = act
      /\ \A w \in Visitors : w # v => visit'[w] = visit[w]
  BY <1>1
<1>3. \A other : Repeats(other)' = Repeats(other)
  BY <1>1 DEF Repeats, Stored
<1>4. ASSUME NEW other \in Acts, other # act PROVE Few(other)'
  <2>1. Coming(other)' \subseteq Coming(other)
    BY <1>2, <1>4 DEF Coming, Checked
  <2> QED
    BY <1>3, <2>1, FewerStill DEF DupInv
<1>5. Few(act)'
  <2>1. Repeats(act)' = {}
    BY <1>1, <1>3 DEF Repeats, SeenSince
  <2>2. Cardinality(Repeats(act)') = 0
    BY <2>1, FS_EmptySet
  <2>3. Coming(act)' \in SUBSET Visitors /\ IsFiniteSet(Visitors)
    BY FiniteCounts DEF Coming
  <2>4. /\ Cardinality(Coming(act)') \in Nat /\ Cardinality(Visitors) \in Nat
        /\ Cardinality(Coming(act)') =< Cardinality(Visitors)
    BY <2>3, FS_Subset, FS_CardinalityType
  <2> QED
    BY <2>2, <2>4 DEF Few
<1> QED
  BY <1>4, <1>5 DEF DupInv

LEMMA DupNext ==
    ASSUME Durable, DupInv, [Next]_vars
    PROVE  DupInv'
<1>0. /\ TypeOK /\ Admitted /\ links \in [Num -> Row] /\ horizon \in Nat
      /\ visit \in [Visitors -> Visit]
  BY DEF Durable, TypeOK, StoreTypeOK
<1> USE DEF storeVars, workerVars, processVars
<1>1. CASE Start \/ StartFails
  BY <1>0, <1>1, DupPledge DEF Start, StartFails
<1>2. ASSUME NEW v \in Visitors, AddInsert(v) PROVE DupInv'
  BY <1>0, <1>2, DupInsert
<1>3. ASSUME NEW v \in Visitors, NEW act \in Acts, AddCheck(v, act) PROVE DupInv'
  BY <1>0, <1>3, DupCheck
<1>4. CASE Confirm \/ Fail
  <2>1. /\ UNCHANGED <<horizon, visit>>
        /\ MarkConfirmed(memo.n, sig, memo.prev) \/ MarkFailed(memo.n)
    BY <1>4 DEF Confirm, Fail
  <2>2. links[memo.n].status = "pending"
    BY <2>1 DEF MarkConfirmed, MarkFailed
  <2>3. /\ \A n \in Num : n # memo.n => links'[n] = links[n]
        /\ memo.n \in Num => /\ links'[memo.n].status \in {"confirmed", "failed"}
                             /\ links'[memo.n].act = links[memo.n].act
    <3>1. CASE MarkConfirmed(memo.n, sig, memo.prev)
      BY <1>0, <3>1 DEF MarkConfirmed, Row
    <3>2. CASE MarkFailed(memo.n)
      BY <1>0, <3>2 DEF MarkFailed, Row
    <3> QED
      BY <2>1, <3>1, <3>2
  <2>4. /\ \A n \in Num : links[n].status = "none" => links'[n].status = "none"
        /\ \A n \in Num : links[n].status = "failed" => links'[n].status = "failed"
        /\ \A n \in Num : links'[n].act = links[n].act
    BY <2>2, <2>3
  <2>5. \A v \in Visitors : Checked(v)' => Checked(v) /\ visit'[v].act = visit[v].act
    BY <2>1 DEF Checked
  <2> QED
    BY <1>0, <2>1, <2>4, <2>5, DupFrame
<1>5. CASE \/ Exit \/ ExitAnyway \/ Crash
           \/ \E v \in Visitors : AddCapacity(v) \/ AddEnqueue(v) \/ AddInsertFails(v)
  <2>1. UNCHANGED <<links, horizon>>
    BY <1>5 DEF Exit, ExitAnyway, Crash, Down, AddCapacity, AddEnqueue, AddInsertFails
  <2>2. \A v \in Visitors : Checked(v)' => Checked(v) /\ visit'[v].act = visit[v].act
    <3>1. CASE Exit \/ ExitAnyway \/ Crash
      BY <3>1 DEF Exit, ExitAnyway, Crash, Down, Checked, NoVisit
    <3>2. ASSUME NEW v \in Visitors, AddCapacity(v) \/ AddEnqueue(v) \/ AddInsertFails(v)
          PROVE  \A w \in Visitors : Checked(w)' => Checked(w) /\ visit'[w].act = visit[w].act
      <4>1. \/ visit' = [visit EXCEPT ![v] = NoVisit]
            \/ visit[v].pc = "checked" /\ visit' = [visit EXCEPT ![v] = [visit[v] EXCEPT !.pc = "room"]]
        BY <3>2 DEF AddCapacity, AddEnqueue, AddInsertFails
      <4> QED
        BY <1>0, <4>1 DEF Checked, NoVisit, Visit
    <3> QED
      BY <1>5, <3>1, <3>2
  <2> QED
    BY <1>0, <2>1, <2>2, DupFrame
<1>6. CASE \/ Shutdown \/ TakeNext \/ TakeFails \/ DeadlinePasses \/ SendRefused \/ SendFails
           \/ Submit \/ SubmitFails \/ SeeConfirmed \/ SeeRejected \/ SeeExpired \/ GiveUp
           \/ GiveUpEarly \/ NotRecorded \/ RecordFails \/ PublishStats \/ StatsFail \/ Retry
           \/ StopWaiting \/ StopIdle \/ NodeStops \/ NodeRecovers
           \/ \E s \in Sig : ClusterSettles(s) \/ BlockhashExpires(s)
           \/ UNCHANGED vars
  <2>1. UNCHANGED <<links, visit>>
    BY <1>6
    DEF Shutdown, TakeNext, TakeFails, DeadlinePasses, SendRefused, SendFails,
        Submit, SubmitFails, SeeConfirmed, SeeRejected, SeeExpired, GiveUp,
        GiveUpEarly, NotRecorded, RecordFails, PublishStats, StatsFail, Retry,
        StopWaiting, StopIdle, NodeStops, NodeRecovers,
        ClusterSettles, BlockhashExpires, AttemptFailed, vars
  <2>2. UNCHANGED horizon
    BY <1>6
    DEF Shutdown, TakeNext, TakeFails, DeadlinePasses, SendRefused, SendFails,
        Submit, SubmitFails, SeeConfirmed, SeeRejected, SeeExpired, GiveUp,
        GiveUpEarly, NotRecorded, RecordFails, PublishStats, StatsFail, Retry,
        StopWaiting, StopIdle, NodeStops, NodeRecovers,
        ClusterSettles, BlockhashExpires, AttemptFailed, vars
  <2>3. \A v \in Visitors : Checked(v)' => Checked(v) /\ visit'[v].act = visit[v].act
    BY <2>1 DEF Checked
  <2> QED
    BY <1>0, <2>1, <2>2, <2>3, DupFrame
<1>7. CASE TimePasses
  <2>1. UNCHANGED <<links, visit>> /\ horizon' > horizon /\ horizon' \in Nat
    BY <1>7 DEF TimePasses, DayPasses
  <2>2. \A v \in Visitors : Checked(v)' => Checked(v) /\ visit'[v].act = visit[v].act
    BY <2>1 DEF Checked
  <2> QED
    BY <1>0, <2>1, <2>2, DupFrame
<1> QED
  BY <1>1, <1>2, <1>3, <1>4, <1>5, <1>6, <1>7 DEF Next, HandlerStep, WorkerStep

LEMMA DupInit == Init => DupInv
<1> SUFFICES ASSUME Init, NEW act \in Acts PROVE Few(act)
  BY DEF DupInv
<1>1. Repeats(act) = {} /\ Coming(act) = {}
  BY DEF Init, StoreInit, NoRow, NoVisit, Repeats, Stored, Coming, Checked
<1>2. Cardinality(Repeats(act)) = 0 /\ Cardinality(Coming(act)) = 0
  BY <1>1, FS_EmptySet
<1> QED
  BY <1>2, FiniteCounts DEF Few

LEMMA FewAreSimultaneous == DupInv => RepeatsAreSimultaneous
<1> SUFFICES ASSUME DupInv, NEW act \in Acts
             PROVE  Cardinality(Repeats(act)) =< Cardinality(Visitors)
  BY DEF RepeatsAreSimultaneous
<1> QED
  BY FiniteCounts DEF DupInv, Few

(* However many requests run at the same time, no sentence is taken within *)
(* a day more often than there are of them, whatever fails in between and  *)
(* wherever the process is stopped.                                        *)
THEOREM TakenNoMoreThanAtOnce == Spec => []RepeatsAreSimultaneous
<1>1. Durable /\ DupInv /\ [Next]_vars => DupInv'
  BY DupNext
<1> QED
  BY <1>1, DupInit, FewAreSimultaneous, DurableHolds, PTL DEF Spec
-----------------------------------------------------------------------------
(* The links are written in the order of their numbers, as long as         *)
(* moreover requests come one at a time (two that overlap may queue in     *)
(* another order than they stored) and no process is stopped in good       *)
(* order: a worker that is told to stop leaves its link and may still take *)
(* the next one.                                                           *)
OneAtATime == \A v, w \in Visitors : v = w

Orderly ==
    /\ QueueHoldsAll /\ Unhindered /\ OneAtATime
    /\ "shutdown" \notin Events

OrderInv ==
    /\ mode = "up" \/ (mode = "down" /\ at = "stopped")
    /\ \A i, j \in DOMAIN queue : i < j => queue[i] < queue[j]
    /\ \A v \in Visitors : Stores(v) => \A m \in Stored : m =< visit[v].n
    /\ \A n \in Confirmed, m \in PendingLinks : n < m
    /\ at \in InHandAt => \A m \in PendingLinks : memo.n =< m
    /\ EachPointsAtTheOneBefore

\* Steps that take no link and leave the table alone.
LEMMA OrderFrame ==
    ASSUME OrderInv, UNCHANGED links,
           UNCHANGED queue \/ queue' = <<>>,
           \/ mode' = "up" /\ mode = "up"
           \/ mode' = "down" /\ at' = "stopped"
           \/ UNCHANGED <<mode, at>>,
           \A v \in Visitors : Stores(v)' => visit'[v] = visit[v],
           at' \in InHandAt => at \in InHandAt /\ memo' = memo
    PROVE  OrderInv'
<1>1. Confirmed' = Confirmed /\ PendingLinks' = PendingLinks /\ Stored' = Stored
  BY DEF Confirmed, PendingLinks, With, Stored
<1>2. EachPointsAtTheOneBefore'
  BY <1>1 DEF OrderInv, EachPointsAtTheOneBefore
<1>3. \A v \in Visitors : Stores(v)' => \A m \in Stored' : m =< visit'[v].n
  BY <1>1 DEF OrderInv, Stores
<1>4. \A i, j \in DOMAIN queue' : i < j => queue'[i] < queue'[j]
  BY DEF OrderInv
<1>5. at' \in InHandAt => \A m \in PendingLinks' : memo'.n =< m
  BY <1>1 DEF OrderInv
<1>6. mode' = "up" \/ (mode' = "down" /\ at' = "stopped")
  BY DEF OrderInv
<1> QED
  BY <1>1, <1>2, <1>3, <1>4, <1>5, <1>6 DEF OrderInv

LEMMA OrderStart ==
    ASSUME Durable, OrderInv, Start
    PROVE  OrderInv'
<1>1. PICK q \in Refills : IsRefill(q, PendingLinks') /\ queue' = q
  BY DEF Start
<1>2. /\ at' = "idle" /\ mode' = "up" /\ InsertGenesis
      /\ \A v \in Visitors : ~Stores(v)'
  BY DEF Start, Rest, Stores, Durable, Admitted, NoVisit
<1>3. \A i, j \in DOMAIN queue' : i < j => queue'[i] < queue'[j]
  BY <1>1 DEF IsRefill
<1>4. links \in [Num -> Row] /\ 0 \in Num
  BY DEF Durable, TypeOK, StoreTypeOK
<1>5. EachPointsAtTheOneBefore' /\ \A n \in Confirmed', m \in PendingLinks' : n < m
  <2>1. CASE Stored = {}
    <3>1. \A n \in Num : links'[n].status # "confirmed"
      BY <1>2, <1>4, <2>1 DEF InsertGenesis, NewRow, NoRow, Stored
    <3> QED
      BY <3>1 DEF EachPointsAtTheOneBefore, Confirmed, With
  <2>2. CASE Stored # {}
    <3>1. links' = links
      BY <1>2, <2>2 DEF InsertGenesis
    <3> QED
      BY <3>1 DEF OrderInv, EachPointsAtTheOneBefore, Confirmed, PendingLinks, With
  <2> QED
    BY <2>1, <2>2
<1> QED
  BY <1>2, <1>3, <1>5 DEF OrderInv, InHandAt

LEMMA OrderInsert ==
    ASSUME OneAtATime, Durable, OrderInv, NEW v \in Visitors, AddInsert(v)
    PROVE  OrderInv'
<1>0. PICK n \in Num :
        /\ Insert(n, visit[v].act)
        /\ visit' = [visit EXCEPT ![v].pc = "stored", ![v].n = n]
  BY DEF AddInsert
<1>1. /\ visit \in [Visitors -> Visit] /\ links \in [Num -> Row]
      /\ UNCHANGED <<queue, memo, mode, at>>
      /\ visit[v].pc = "room"
  BY QueueTypes DEF AddInsert, workerVars, Durable
<1>2. \A m \in Stored : m < n
  BY <1>0 DEF Insert, IsNextNumber
<1>3. /\ links'[n].status = "pending" /\ links[n].status = "none"
      /\ \A m \in Num : m # n => links'[m] = links[m]
  BY <1>0, <1>1 DEF Insert, IsNextNumber, NewRow, NoRow, Stored
<1>4. /\ Stored' = Stored \cup {n} /\ PendingLinks' = PendingLinks \cup {n}
      /\ Confirmed' = Confirmed
      /\ \A m \in Confirmed : links'[m] = links[m]
  BY <1>3 DEF Stored, PendingLinks, Confirmed, With
<1>5. /\ Confirmed \subseteq Stored /\ PendingLinks \subseteq Stored
      /\ Stored \subseteq Num
  BY DEF Stored, PendingLinks, Confirmed, With
<1>6. \A w \in Visitors : Stores(w)' => \A m \in Stored' : m =< visit'[w].n
  <2>1. visit'[v].n = n /\ \A w \in Visitors : w = v
    BY <1>0, <1>1 DEF OneAtATime, Visit
  <2>2. \A m \in Stored' : m =< n
    BY <1>2, <1>4, <1>5
  <2> QED
    BY <2>1, <2>2
<1>7. \A k \in Confirmed', m \in PendingLinks' : k < m
  BY <1>2, <1>4, <1>5 DEF OrderInv
<1>8. ASSUME at' \in InHandAt, NEW m \in PendingLinks' PROVE memo'.n =< m
  <2>1. memo.n \in Stored /\ memo.n \in Num
    BY <1>1, <1>8 DEF Durable, InHand, InHandAt, Memo, Stored
  <2>2. memo.n < n
    BY <1>2, <2>1
  <2> QED
    BY <1>1, <1>4, <1>8, <2>1, <2>2 DEF OrderInv
<1>9. EachPointsAtTheOneBefore'
  BY <1>4 DEF OrderInv, EachPointsAtTheOneBefore
<1> QED
  BY <1>1, <1>6, <1>7, <1>8, <1>9 DEF OrderInv

LEMMA OrderEnqueue ==
    ASSUME Durable, QueueInv, OrderInv, NEW v \in Visitors, AddEnqueue(v)
    PROVE  OrderInv'
<1>0. /\ Stores(v)
      /\ visit' = [visit EXCEPT ![v] = NoVisit]
      /\ UNCHANGED <<links, memo, mode, at>>
  BY DEF AddEnqueue, storeVars, workerVars, Stores
<1>1. /\ queue \in Seq(Num) /\ \A i \in DOMAIN queue : queue[i] \in Num
      /\ visit \in [Visitors -> Visit]
      /\ visit[v].n \in Num
  BY <1>0, QueueTypes DEF Durable
<1>2. \A w \in Visitors : Stores(w)' => visit'[w] = visit[w] /\ Stores(w)
  BY <1>0, <1>1 DEF Stores, NoVisit
<1>3. \A i \in DOMAIN queue : queue[i] < visit[v].n
  <2> SUFFICES ASSUME NEW i \in DOMAIN queue PROVE queue[i] < visit[v].n
    OBVIOUS
  <2>1. queue[i] \in Stored /\ queue[i] # visit[v].n
    BY <1>0, <1>1 DEF QueueInv, QueueSound, HeldByOne, Stored
  <2>2. queue[i] =< visit[v].n
    BY <1>0, <2>1 DEF OrderInv
  <2> QED
    BY <1>1, <2>1, <2>2
<1>4. \A i, j \in DOMAIN queue' : i < j => queue'[i] < queue'[j]
  <2>1. CASE queue' = queue
    BY <2>1 DEF OrderInv
  <2>2. CASE queue' = Append(queue, visit[v].n)
    <3>1. /\ DOMAIN queue = 1 .. Len(queue) /\ Len(queue) \in Nat
          /\ DOMAIN queue' = 1 .. Len(queue) + 1
          /\ \A i \in DOMAIN queue : queue'[i] = queue[i]
          /\ queue'[Len(queue) + 1] = visit[v].n
      BY <1>1, <2>2
    <3> SUFFICES ASSUME NEW i \in DOMAIN queue', NEW j \in DOMAIN queue', i < j
                 PROVE  queue'[i] < queue'[j]
      OBVIOUS
    <3>2. i \in DOMAIN queue
      BY <3>1
    <3>3. CASE j \in DOMAIN queue
      BY <3>1, <3>2, <3>3 DEF OrderInv
    <3>4. CASE j = Len(queue) + 1
      BY <1>3, <3>1, <3>2, <3>4
    <3> QED
      BY <3>1, <3>3, <3>4
  <2> QED
    BY <2>1, <2>2 DEF AddEnqueue
<1>5. Confirmed' = Confirmed /\ PendingLinks' = PendingLinks /\ Stored' = Stored
  BY <1>0 DEF Confirmed, PendingLinks, With, Stored
<1>6. EachPointsAtTheOneBefore'
  BY <1>0, <1>5 DEF OrderInv, EachPointsAtTheOneBefore
<1>7. \A w \in Visitors : Stores(w)' => \A m \in Stored' : m =< visit'[w].n
  BY <1>2, <1>5 DEF OrderInv
<1> QED
  BY <1>0, <1>4, <1>5, <1>6, <1>7 DEF OrderInv

\* What the worker takes is the lowest number that is pending.
LEMMA OrderTake ==
    ASSUME Durable, CarriedInv, OrderInv, TakeNext
    PROVE  OrderInv'
<1>1. /\ queue \in Seq(Num) /\ queue # <<>> /\ queue' = Tail(queue)
      /\ UNCHANGED <<links, visit, mode>>
      /\ at = "idle" /\ memo = NoMemo /\ mode = "up"
  BY QueueTypes DEF TakeNext, storeVars, CarriedInv, OrderInv, Durable
<1>2. \/ at' = "idle"
      \/ at' = "sending" /\ memo'.n = Head(queue) /\ links[Head(queue)].status = "pending"
  BY <1>1 DEF TakeNext
<1>3. \A i \in DOMAIN queue' : i \in Nat /\ i + 1 \in DOMAIN queue /\ queue'[i] = queue[i + 1]
  BY <1>1
<1>4. ASSUME NEW i \in DOMAIN queue', NEW j \in DOMAIN queue', i < j PROVE queue'[i] < queue'[j]
  <2>1. i + 1 < j + 1
    BY <1>3, <1>4
  <2> QED
    BY <1>3, <2>1 DEF OrderInv
<1>5. \A i \in DOMAIN queue : Head(queue) =< queue[i]
  <2> SUFFICES ASSUME NEW i \in DOMAIN queue PROVE Head(queue) =< queue[i]
    OBVIOUS
  <2>1. 1 \in DOMAIN queue /\ Head(queue) = queue[1] /\ queue[1] \in Num /\ (i = 1 \/ 1 < i)
    BY <1>1
  <2>2. queue[i] \in Num
    BY <1>1
  <2>3. 1 < i => queue[1] < queue[i]
    BY <2>1 DEF OrderInv
  <2> QED
    BY <2>1, <2>2, <2>3
<1>6. Confirmed' = Confirmed /\ PendingLinks' = PendingLinks /\ Stored' = Stored
  BY <1>1 DEF Confirmed, PendingLinks, With, Stored
<1>7. ASSUME at' = "sending", NEW m \in PendingLinks PROVE memo'.n =< m
  <2>1. /\ memo'.n = Head(queue) /\ links[Head(queue)].status = "pending"
        /\ Head(queue) \in Num /\ Head(queue) \in Stored
    <3>1. Head(queue) \in Num
      BY <1>1
    <3> QED
      BY <1>2, <1>7, <3>1 DEF Stored
  <2>2. Carried(m) /\ m \in Num
    BY <1>1, <1>7 DEF CarriedInv, PendingLinks, With
  <2>3. CASE \E i \in DOMAIN queue : queue[i] = m
    BY <1>5, <2>1, <2>3
  <2>4. CASE \E v \in Visitors : Stores(v) /\ visit[v].n = m
    BY <2>1, <2>4 DEF OrderInv
  <2>5. memo.n # m
    BY <1>1, <2>2, NoMemoIsNoLink
  <2> QED
    BY <2>2, <2>3, <2>4, <2>5 DEF Carried
<1>8. EachPointsAtTheOneBefore'
  BY <1>1, <1>6 DEF OrderInv, EachPointsAtTheOneBefore
<1>9. \A v \in Visitors : Stores(v)' => \A m \in Stored' : m =< visit'[v].n
  BY <1>1, <1>6 DEF OrderInv, Stores
<1>10. at' \in InHandAt => \A m \in PendingLinks' : memo'.n =< m
  BY <1>2, <1>6, <1>7 DEF InHandAt
<1>11. \A k \in Confirmed', m \in PendingLinks' : k < m
  BY <1>6 DEF OrderInv
<1> QED
  BY <1>1, <1>4, <1>8, <1>9, <1>10, <1>11 DEF OrderInv

\* The link that is confirmed comes right after those that are.
LEMMA OrderConfirm ==
    ASSUME Durable, OrderInv, Confirm
    PROVE  OrderInv'
<1>1. /\ at = "confirming" /\ at' = "announcing"
      /\ MarkConfirmed(memo.n, sig, memo.prev)
      /\ UNCHANGED <<queue, mode, visit, memo>>
  BY DEF Confirm
<1>2. /\ memo.n \in Num /\ links[memo.n].status = "pending" /\ IsHead(memo.prev)
      /\ links \in [Num -> Row]
  BY <1>1 DEF Durable, InHand, Memo, TypeOK, StoreTypeOK
<1>3. /\ \A n \in Num : n # memo.n => links'[n] = links[n]
      /\ links'[memo.n].status = "confirmed" /\ links'[memo.n].prev = memo.prev
  BY <1>1, <1>2 DEF MarkConfirmed, Row
<1>4. /\ Stored' = Stored /\ PendingLinks' = PendingLinks \ {memo.n}
      /\ Confirmed' = Confirmed \cup {memo.n} /\ memo.n \notin Confirmed
      /\ memo.n \in PendingLinks /\ Confirmed \subseteq Num /\ PendingLinks \subseteq Num
  BY <1>2, <1>3 DEF Stored, PendingLinks, Confirmed, With
<1>5. \A n \in Confirmed : n < memo.n
  BY <1>4 DEF OrderInv
<1>6. \A k \in Confirmed', m \in PendingLinks' : k < m
  <2>1. \A m \in PendingLinks' : memo.n =< m /\ memo.n # m /\ m \in PendingLinks
    BY <1>1, <1>4 DEF OrderInv, InHandAt
  <2>2. \A m \in PendingLinks' : memo.n < m /\ m \in PendingLinks
    BY <1>2, <1>4, <2>1
  <2> QED
    BY <1>4, <2>2 DEF OrderInv
<1>7. EachPointsAtTheOneBefore'
  <2>1. ASSUME NEW n \in Confirmed
        PROVE  \/ (\A m \in Confirmed' : n =< m) /\ links'[n].prev = Genesis
               \/ \E m \in Confirmed' :
                     /\ m < n
                     /\ \A k \in Confirmed' : k < n => k =< m
                     /\ links'[n].prev = links'[m].sig
    <3>1. n < memo.n /\ n \in Num /\ links'[n] = links[n]
      BY <1>3, <1>4, <1>5
    <3>2. CASE (\A m \in Confirmed : n =< m) /\ links[n].prev = Genesis
      BY <1>2, <1>4, <3>1, <3>2
    <3>3. ASSUME NEW m \in Confirmed, m < n, \A k \in Confirmed : k < n => k =< m,
                 links[n].prev = links[m].sig
          PROVE  \E l \in Confirmed' :
                     /\ l < n
                     /\ \A k \in Confirmed' : k < n => k =< l
                     /\ links'[n].prev = links'[l].sig
      <4>1. \A k \in Confirmed' : k < n => k \in Confirmed
        BY <1>2, <1>4, <3>1
      <4>2. links'[m] = links[m] /\ m \in Confirmed'
        BY <1>3, <1>4
      <4> QED
        BY <3>1, <3>3, <4>1, <4>2
    <3> QED
      BY <3>2, <3>3 DEF OrderInv, EachPointsAtTheOneBefore
  <2>2. \/ (\A m \in Confirmed' : memo.n =< m) /\ links'[memo.n].prev = Genesis
        \/ \E m \in Confirmed' :
              /\ m < memo.n
              /\ \A k \in Confirmed' : k < memo.n => k =< m
              /\ links'[memo.n].prev = links'[m].sig
    <3>1. CASE Confirmed = {} /\ memo.prev = Genesis
      BY <1>2, <1>3, <1>4, <3>1
    <3>2. ASSUME NEW n \in Confirmed, \A m \in Confirmed : m =< n, memo.prev = links[n].sig
          PROVE  \E m \in Confirmed' :
                   /\ m < memo.n
                   /\ \A k \in Confirmed' : k < memo.n => k =< m
                   /\ links'[memo.n].prev = links'[m].sig
      <4>1. \A k \in Confirmed' : k < memo.n => k \in Confirmed
        BY <1>2, <1>4
      <4>2. links'[n] = links[n] /\ n \in Confirmed' /\ n < memo.n
        BY <1>3, <1>4, <1>5
      <4> QED
        BY <1>3, <3>2, <4>1, <4>2
    <3> QED
      BY <1>2, <3>1, <3>2 DEF IsHead, Confirmed
  <2> QED
    BY <1>4, <2>1, <2>2 DEF EachPointsAtTheOneBefore
<1>8. \A v \in Visitors : Stores(v)' => \A m \in Stored' : m =< visit'[v].n
  BY <1>1, <1>4 DEF OrderInv, Stores
<1> QED
  BY <1>1, <1>6, <1>7, <1>8 DEF OrderInv, InHandAt

LEMMA OrderFail ==
    ASSUME Durable, OrderInv, Fail
    PROVE  OrderInv'
<1>1. /\ at' = "announcing" /\ at = "failing"
      /\ MarkFailed(memo.n)
      /\ UNCHANGED <<queue, mode, visit, memo>>
  BY DEF Fail, processVars
<1>2. links \in [Num -> Row] /\ memo.n \in Num /\ links[memo.n].status = "pending"
  BY <1>1 DEF Durable, InHand, Memo, TypeOK, StoreTypeOK
<1>3. /\ \A n \in Num : n # memo.n => links'[n] = links[n]
      /\ links'[memo.n].status = "failed"
  BY <1>1, <1>2 DEF MarkFailed, Row
<1>4. /\ Stored' = Stored /\ PendingLinks' \subseteq PendingLinks /\ Confirmed' = Confirmed
      /\ \A n \in Confirmed : links'[n] = links[n]
  BY <1>2, <1>3 DEF Stored, PendingLinks, Confirmed, With
<1>5. EachPointsAtTheOneBefore'
  BY <1>4 DEF OrderInv, EachPointsAtTheOneBefore
<1>6. \A v \in Visitors : Stores(v)' => \A m \in Stored' : m =< visit'[v].n
  BY <1>1, <1>4 DEF OrderInv, Stores
<1> QED
  BY <1>1, <1>4, <1>5, <1>6 DEF OrderInv, InHandAt

LEMMA OrderNext ==
    ASSUME Orderly, Durable, QueueInv, CarriedInv, OrderInv, [Next]_vars
    PROVE  OrderInv'
<1>0. /\ TypeOK /\ ~Trouble("shutdown") /\ mode # "stopping"
      /\ Unhindered /\ OneAtATime /\ ~expired
      /\ visit \in [Visitors -> Visit]
  BY DEF Durable, TypeOK, OrderInv, Orderly, Trouble, CarriedInv
<1> USE DEF storeVars, workerVars, processVars, InHandAt
<1>1. CASE Start
  BY <1>1, OrderStart
<1>2. CASE \/ StartFails \/ TakeFails \/ RecordFails \/ StatsFail \/ DeadlinePasses
           \/ \E v \in Visitors : AddInsertFails(v)
  BY <1>0, <1>2, NoHindrance
<1>3. CASE Shutdown \/ Exit \/ ExitAnyway \/ StopWaiting \/ StopIdle
  BY <1>0, <1>3 DEF Shutdown, Exit, ExitAnyway, StopWaiting, StopIdle
<1>4. CASE Crash
  <2>1. /\ UNCHANGED links /\ queue' = <<>> /\ mode' = "down" /\ at' = "stopped"
        /\ \A v \in Visitors : ~Stores(v)'
    BY <1>4 DEF Crash, Down, Rest, Stores, NoVisit
  <2> QED
    BY <2>1, OrderFrame
<1>5. ASSUME NEW v \in Visitors, AddInsert(v) PROVE OrderInv'
  BY <1>0, <1>5, OrderInsert
<1>6. ASSUME NEW v \in Visitors, AddEnqueue(v) PROVE OrderInv'
  BY <1>6, OrderEnqueue
<1>7. ASSUME NEW v \in Visitors, AddCapacity(v) \/ \E act \in Acts : AddCheck(v, act)
      PROVE  OrderInv'
  <2>1. UNCHANGED <<links, queue, memo, mode, at>>
    BY <1>7 DEF AddCapacity, AddCheck
  <2>2. \A w \in Visitors : w # v => visit'[w] = visit[w]
    BY <1>0, <1>7 DEF AddCapacity, AddCheck
  <2>3. ~Stores(v)'
    <3>1. CASE AddCapacity(v)
      <4>1. \/ visit'[v] = NoVisit
            \/ visit'[v] = [visit[v] EXCEPT !.pc = "room"]
        BY <1>0, <3>1 DEF AddCapacity
      <4> QED
        BY <1>0, <4>1 DEF Stores, NoVisit, Visit
    <3>2. ASSUME NEW act \in Acts, AddCheck(v, act) PROVE ~Stores(v)'
      <4>1. visit'[v] = [pc |-> "checked", act |-> act, n |-> -1]
        BY <1>0, <3>2 DEF AddCheck
      <4> QED
        BY <4>1 DEF Stores
    <3> QED
      BY <1>7, <3>1, <3>2
  <2> QED
    BY <2>1, <2>2, <2>3, OrderFrame
<1>8. CASE TakeNext
  BY <1>8, OrderTake
<1>9. CASE Confirm
  BY <1>9, OrderConfirm
<1>10. CASE Fail
  BY <1>10, OrderFail
<1>11. CASE PublishStats \/ NotRecorded
  <2>1. /\ UNCHANGED <<links, queue, mode, visit>> /\ at # "stopped"
        /\ at' = "idle" \/ (at = "pausing" /\ at' = "backoff" /\ memo' = memo)
    BY <1>11 DEF PublishStats, AfterStats, NotRecorded, Rest
  <2>2. mode = "up"
    BY <2>1 DEF OrderInv
  <2>3. at' \in InHandAt => at \in InHandAt /\ memo' = memo
    BY <2>1
  <2> QED
    BY <2>1, <2>2, <2>3, OrderFrame
<1>12. CASE \/ SendRefused \/ SendFails \/ Submit \/ SubmitFails
            \/ SeeConfirmed \/ SeeRejected \/ SeeExpired \/ GiveUp \/ GiveUpEarly \/ Retry
  <2>1. UNCHANGED <<links, queue, memo, mode, visit>> /\ at \in InHandAt
    BY <1>12
    DEF SendRefused, SendFails, Submit, SubmitFails, CanSend, SeeConfirmed, SeeRejected,
        SeeExpired, Sees, GiveUp, GiveUpEarly, Retry, AttemptFailed
  <2>2. mode = "up"
    BY <2>1 DEF OrderInv
  <2>3. at' \in InHandAt => at \in InHandAt /\ memo' = memo
    BY <2>1
  <2> QED
    BY <2>1, <2>2, <2>3, OrderFrame
<1>13. CASE \/ NodeStops \/ NodeRecovers \/ TimePasses
            \/ \E s \in Sig : ClusterSettles(s) \/ BlockhashExpires(s)
            \/ UNCHANGED vars
  <2>1. UNCHANGED <<links, queue, memo, mode, visit, at>>
    BY <1>13
    DEF NodeStops, NodeRecovers, TimePasses, ClusterSettles, BlockhashExpires, vars
  <2> QED
    BY <2>1, OrderFrame
<1> QED
  BY <1>1, <1>2, <1>3, <1>4, <1>5, <1>6, <1>7, <1>8, <1>9, <1>10, <1>11, <1>12, <1>13
  DEF Next, HandlerStep, WorkerStep

(* Every memo points at the confirmed link before it, as the package       *)
(* comment of chain.go says: through crashes, outages, lost answers and    *)
(* refused links the worker takes the lowest pending number each time.     *)
THEOREM EachFollowsTheLast ==
    ASSUME Orderly
    PROVE  Spec => []EachPointsAtTheOneBefore
<1>1. QueueHoldsAll /\ Unhindered
  BY DEF Orderly
<1>2. Init => OrderInv
  BY DEF Init, StoreInit, NoRow, NoVisit, OrderInv, InHandAt, EachPointsAtTheOneBefore,
         Confirmed, PendingLinks, With, Stored, Stores
<1>3. Durable /\ QueueInv /\ CarriedInv /\ OrderInv /\ [Next]_vars => OrderInv'
  BY OrderNext
<1>4. OrderInv => EachPointsAtTheOneBefore
  BY DEF OrderInv
<1>5. Spec => [](Durable /\ QueueInv /\ CarriedInv)
  BY <1>1, CarriedInvariant
<1> QED
  BY <1>2, <1>3, <1>4, <1>5, PTL DEF Spec
-----------------------------------------------------------------------------
(* A machine that can lose power: PowerLoss.                               *)
USE LostAssumption DEF Sig, Genesis, NoSig

LEMMA MinOfTwo ==
    ASSUME NEW a \in Int, NEW b \in Int
    PROVE  /\ Min({a, b}) \in {a, b}
           /\ Min({a, b}) =< a
           /\ Min({a, b}) =< b
<1> DEFINE IsMin(x) == x \in {a, b} /\ \A y \in {a, b} : x =< y
<1>1. \E x : IsMin(x)
  BY a =< b \/ b =< a
<1>2. IsMin(CHOOSE x : IsMin(x))
  BY <1>1
<1>3. Min({a, b}) = CHOOSE x : IsMin(x)
  BY DEF Min
<1> QED
  BY <1>2, <1>3
-----------------------------------------------------------------------------
(* The tables a loss of power may bring back, and what Durable says of the *)
(* rows, said of such a table.                                             *)
Earlier == {unsynced[i] : i \in DOMAIN unsynced}

RowsIn(T) == {n \in Num : T[n].status # "none"}

ConfirmedIn(T) == {n \in Num : T[n].status = "confirmed"}

OnLedgerIn(T) ==
    \A n \in ConfirmedIn(T) :
        /\ T[n].sig \in Landed
        /\ txs[T[n].sig].memo = [n |-> n, act |-> T[n].act, prev |-> T[n].prev]

HeadsIn(T) ==
    \A n \in ConfirmedIn(T) :
        LET before == {m \in ConfirmedIn(T) : T[m].sig < T[n].sig} IN
        \/ before = {} /\ T[n].prev = Genesis
        \/ \E m \in before : (\A k \in before : k =< m) /\ T[n].prev = T[m].sig

FilledIn(T) ==
    \A n \in Num :
        /\ T[n].status = "none" => T[n] = NoRow
        /\ T[n].status # "none" => \A m \in Num : m < n => T[m].status # "none"

Sound(T) == OnLedgerIn(T) /\ HeadsIn(T) /\ FilledIn(T)

\* They were the table one after the other: each has the rows of those before it.
LostInv ==
    /\ unsynced \in Seq([Num -> Row])
    /\ Len(unsynced) =< MaxLost
    /\ \A T \in Earlier : Sound(T) /\ RowsIn(T) \subseteq Stored
    /\ \A i, j \in DOMAIN unsynced : i < j => RowsIn(unsynced[j]) \subseteq RowsIn(unsynced[i])

LEMMA NowIsSound == Durable <=> /\ TypeOK /\ Sound(links) /\ Signed
                                /\ InHand /\ Newest /\ Admitted
<1>1. RowsIn(links) = Stored /\ ConfirmedIn(links) = Confirmed
  BY DEF RowsIn, Stored, ConfirmedIn, Confirmed, With
<1>2. OnLedgerIn(links) <=> ConfirmedIsOnLedger
  BY <1>1 DEF OnLedgerIn, ConfirmedIsOnLedger
<1>3. HeadsIn(links) <=> PrevIsHead
  BY <1>1 DEF HeadsIn, PrevIsHead, Before
<1>4. FilledIn(links) <=> RowsFill
  BY DEF FilledIn, RowsFill
<1> QED
  BY <1>2, <1>3, <1>4 DEF Durable, Sound

(* Nothing leaves the ledger, and a memo on it stays what it is. *)
LEMMA LedgerGrows ==
    ASSUME Durable, [Next]_vars
    PROVE  /\ Landed \subseteq Landed'
           /\ \A s \in Landed : txs'[s].memo = txs[s].memo
<1>0. /\ txs \in [Sig -> [state : TxState, memo : Memo \cup {NoMemo}]]
      /\ signed \in 0 .. MaxSends /\ Signed
  BY DEF Durable, TypeOK, ClusterTypeOK
<1> USE DEF storeVars, clusterVars, workerVars, processVars
<1>1. CASE Submit \/ SubmitFails
  <2>1. Sign(memo)
    BY <1>1 DEF Submit, SubmitFails
  <2>2. signed + 1 \in Sig /\ signed + 1 \notin Landed
    <3>1. signed + 1 \in Sig /\ ~(signed + 1 =< signed)
      BY <1>0, <2>1 DEF Sign
    <3> QED
      BY <1>0, <3>1 DEF Signed, Landed
  <2>3. \A s \in Sig : s # signed + 1 => txs'[s] = txs[s]
    BY <1>0, <2>1 DEF Sign
  <2> QED
    BY <2>2, <2>3 DEF Landed
<1>2. ASSUME NEW s \in Sig, ClusterSettles(s) \/ BlockhashExpires(s)
      PROVE  /\ Landed \subseteq Landed'
             /\ \A t \in Landed : txs'[t].memo = txs[t].memo
  <2>1. txs[s].state = "sent" /\ \E state : txs' = [txs EXCEPT ![s].state = state]
    BY <1>2 DEF ClusterSettles, BlockhashExpires, Land, Reject, Expire, Settle
  <2> QED
    BY <1>0, <2>1 DEF Landed
<1>3. CASE \/ Start \/ StartFails \/ Shutdown \/ Exit \/ ExitAnyway \/ Crash \/ TakeNext
           \/ TakeFails \/ DeadlinePasses \/ SendRefused \/ SendFails
           \/ SeeConfirmed \/ SeeRejected \/ SeeExpired \/ GiveUp \/ GiveUpEarly
           \/ Confirm \/ Fail \/ NotRecorded \/ RecordFails \/ PublishStats \/ StatsFail
           \/ Retry \/ StopWaiting \/ StopIdle \/ NodeStops \/ NodeRecovers \/ TimePasses
           \/ \E v \in Visitors :
                 \/ \E act \in Acts : AddCheck(v, act)
                 \/ HandlerStep(v) \/ AddInsertFails(v)
           \/ UNCHANGED vars
  <2>1. UNCHANGED txs
    BY <1>3
    DEF Start, StartFails, Shutdown, Exit, ExitAnyway, Crash, Down, TakeNext, TakeFails,
        DeadlinePasses, SendRefused, SendFails, SeeConfirmed, SeeRejected, SeeExpired,
        GiveUp, GiveUpEarly, Confirm, Fail, NotRecorded, RecordFails, PublishStats,
        StatsFail, Retry, StopWaiting, StopIdle, NodeStops, NodeRecovers, Outage, Recover,
        TimePasses, AddCheck, HandlerStep, AddCapacity, AddInsert, AddEnqueue,
        AddInsertFails, AttemptFailed, vars
  <2> QED
    BY <2>1 DEF Landed
<1> QED
  BY <1>1, <1>2, <1>3 DEF Next, WorkerStep

(* What was sound stays so while the ledger grows. *)
LEMMA SoundStays ==
    ASSUME Landed \subseteq Landed', \A s \in Landed : txs'[s].memo = txs[s].memo,
           NEW T, Sound(T)
    PROVE  Sound(T)'
BY DEF Sound, OnLedgerIn, HeadsIn, FilledIn, ConfirmedIn
-----------------------------------------------------------------------------
(* The steps of PowerLoss *)

\* What a step of the service does to the tables that are not synced.
LEMMA UnsyncedStep ==
    ASSUME TypeOK, LostInv, ServiceStep
    PROVE  \/ unsynced' = <<>>
           \/ UNCHANGED <<unsynced, links>>
           \/ /\ unsynced' \in Seq([Num -> Row])
              /\ Len(unsynced') =< MaxLost
              /\ 1 \in DOMAIN unsynced' /\ unsynced'[1] = links
              /\ \A i \in DOMAIN unsynced' :
                    i # 1 => i - 1 \in DOMAIN unsynced /\ unsynced'[i] = unsynced[i - 1]
<1> DEFINE all == <<links>> \o unsynced
           k == Min({MaxLost, Len(unsynced) + 1})
<1>1. links \in [Num -> Row] /\ unsynced \in Seq([Num -> Row])
  BY DEF TypeOK, StoreTypeOK, LostInv
<1>2. /\ all \in Seq([Num -> Row]) /\ Len(all) = Len(unsynced) + 1
      /\ all[1] = links
      /\ \A i \in 2 .. Len(all) : all[i] = unsynced[i - 1]
  BY <1>1
<1>3. k \in {MaxLost, Len(unsynced) + 1} /\ k =< MaxLost /\ k =< Len(unsynced) + 1
  <2>1. MaxLost \in Int /\ Len(unsynced) + 1 \in Int
    BY <1>1
  <2>2. /\ Min({MaxLost, Len(unsynced) + 1}) \in {MaxLost, Len(unsynced) + 1}
        /\ Min({MaxLost, Len(unsynced) + 1}) =< MaxLost
        /\ Min({MaxLost, Len(unsynced) + 1}) =< Len(unsynced) + 1
    BY <2>1, MinOfTwo
  <2> QED
    BY <2>2
<1>4. k \in 1 .. Len(all)
  BY <1>1, <1>2, <1>3
<1> HIDE DEF all, k
<1>5. /\ SubSeq(all, 1, k) \in Seq([Num -> Row])
      /\ Len(SubSeq(all, 1, k)) = k
      /\ \A i \in 1 .. k : SubSeq(all, 1, k)[i] = all[i]
  BY <1>2, <1>4
<1>6. CASE unsynced' = SubSeq(all, 1, k)
  <2>1. DOMAIN unsynced' = 1 .. k /\ DOMAIN unsynced = 1 .. Len(unsynced) /\ Len(unsynced) \in Nat
    BY <1>1, <1>5, <1>6
  <2>2. \A i \in DOMAIN unsynced' :
           i # 1 => i - 1 \in DOMAIN unsynced /\ unsynced'[i] = unsynced[i - 1]
    BY <1>2, <1>4, <1>5, <1>6, <2>1
  <2>3. 1 \in DOMAIN unsynced' /\ unsynced'[1] = links
    BY <1>2, <1>4, <1>5, <1>6, <2>1
  <2>4. unsynced' \in Seq([Num -> Row]) /\ Len(unsynced') =< MaxLost
    BY <1>3, <1>5, <1>6
  <2> QED
    BY <2>2, <2>3, <2>4
<1> QED
  BY <1>6 DEF ServiceStep, all, k

LEMMA LostService ==
    ASSUME Durable, LostInv, ServiceStep
    PROVE  LostInv'
<1>0. /\ TypeOK /\ [Next]_vars /\ Sound(links)
      /\ Landed \subseteq Landed' /\ \A s \in Landed : txs'[s].memo = txs[s].memo
  <2>1. [Next]_vars
    BY DEF ServiceStep
  <2> QED
    BY <2>1, NowIsSound, LedgerGrows
<1>1. Stored \subseteq Stored' /\ RowsIn(links) = Stored
  BY <1>0, RowsStay DEF Stored, RowsIn
<1>2. CASE unsynced' = <<>>
  BY <1>2 DEF LostInv, Earlier
<1>3. ASSUME NEW T \in Earlier \cup {links} PROVE Sound(T)' /\ RowsIn(T) \subseteq Stored'
  BY <1>0, <1>1, SoundStays DEF LostInv
<1>4. CASE UNCHANGED unsynced
  BY <1>3, <1>4 DEF LostInv, Earlier, RowsIn
<1>5. CASE /\ unsynced' \in Seq([Num -> Row])
           /\ Len(unsynced') =< MaxLost
           /\ 1 \in DOMAIN unsynced' /\ unsynced'[1] = links
           /\ \A i \in DOMAIN unsynced' :
                 i # 1 => i - 1 \in DOMAIN unsynced /\ unsynced'[i] = unsynced[i - 1]
  <2>1. Earlier' \subseteq Earlier \cup {links}
    BY <1>5 DEF Earlier
  <2>2. ASSUME NEW i \in DOMAIN unsynced', NEW j \in DOMAIN unsynced', i < j
        PROVE  RowsIn(unsynced'[j]) \subseteq RowsIn(unsynced'[i])
    <3>1. i \in Nat /\ j \in Nat /\ j # 1 /\ j - 1 \in DOMAIN unsynced
          /\ unsynced'[j] = unsynced[j - 1]
      BY <1>5, <2>2
    <3>2. CASE i = 1
      <4>1. unsynced[j - 1] \in Earlier
        BY <3>1 DEF Earlier
      <4> QED
        BY <1>1, <1>5, <3>1, <3>2, <4>1 DEF LostInv
    <3>3. CASE i # 1
      <4>1. i - 1 \in DOMAIN unsynced /\ unsynced'[i] = unsynced[i - 1] /\ i - 1 < j - 1
        BY <1>5, <2>2, <3>1, <3>3
      <4> QED
        BY <3>1, <4>1 DEF LostInv
    <3> QED
      BY <3>2, <3>3
  <2> QED
    BY <1>3, <1>5, <2>1, <2>2 DEF LostInv, RowsIn
<1> QED
  BY <1>0, <1>2, <1>4, <1>5, UnsyncedStep

LEMMA WhatIsLeft ==
    ASSUME NEW S, NEW s \in Seq(S), NEW i \in 1 .. Len(s)
    PROVE  /\ SubSeq(s, i + 1, Len(s)) \in Seq(S)
           /\ Len(SubSeq(s, i + 1, Len(s))) = Len(s) - i
           /\ \A j \in 1 .. Len(s) - i : SubSeq(s, i + 1, Len(s))[j] = s[i + j]
<1>1. /\ i + 1 \in Int /\ Len(s) \in Int /\ Len(s) \in Nat
      /\ \A j \in i + 1 .. Len(s) : s[j] \in S
  OBVIOUS
<1>2. /\ SubSeq(s, i + 1, Len(s)) \in Seq(S)
      /\ Len(SubSeq(s, i + 1, Len(s))) =
            IF i + 1 =< Len(s) THEN Len(s) - (i + 1) + 1 ELSE 0
      /\ \A j \in 1 .. Len(s) - (i + 1) + 1 :
            SubSeq(s, i + 1, Len(s))[j] = s[i + 1 + j - 1]
  BY <1>1, SubSeqProperties
<1> QED
  BY <1>1, <1>2

\* The table that comes back, and those that may come back after it.
LEMMA LostRest ==
    ASSUME LostInv, NEW i \in DOMAIN unsynced, LosePower(i)
    PROVE  /\ links' \in Earlier /\ links' \in [Num -> Row]
           /\ unsynced' \in Seq([Num -> Row]) /\ Len(unsynced') =< MaxLost
           /\ Earlier' \subseteq Earlier
           /\ \A T \in Earlier' : RowsIn(T) \subseteq Stored'
           /\ \A j, l \in DOMAIN unsynced' :
                 j < l => RowsIn(unsynced'[l]) \subseteq RowsIn(unsynced'[j])
           /\ UNCHANGED clusterVars
<1>1. /\ unsynced \in Seq([Num -> Row]) /\ i \in 1 .. Len(unsynced) /\ Len(unsynced) \in Nat
      /\ links' = unsynced[i]
      /\ unsynced' = SubSeq(unsynced, i + 1, Len(unsynced))
  BY DEF LostInv, LosePower
<1>2. /\ unsynced' \in Seq([Num -> Row])
      /\ Len(unsynced') = Len(unsynced) - i
      /\ \A j \in 1 .. Len(unsynced') : unsynced'[j] = unsynced[i + j]
  <2> HIDE DEF Num
  <2> QED
    BY <1>1, WhatIsLeft
<1>3. \A j \in DOMAIN unsynced' :
        j \in Nat \ {0} /\ i + j \in DOMAIN unsynced /\ unsynced'[j] = unsynced[i + j]
  BY <1>1, <1>2
<1>4. Earlier' \subseteq Earlier
  BY <1>3 DEF Earlier
<1>5. RowsIn(links') = Stored'
  BY DEF RowsIn, Stored
<1>6. ASSUME NEW T \in Earlier' PROVE RowsIn(T) \subseteq Stored'
  <2>1. PICK j \in DOMAIN unsynced' : T = unsynced'[j]
    BY <1>6 DEF Earlier
  <2>2. i < i + j
    BY <1>1, <1>3
  <2> QED
    BY <1>1, <1>3, <1>5, <2>1, <2>2 DEF LostInv
<1>7. ASSUME NEW j \in DOMAIN unsynced', NEW l \in DOMAIN unsynced', j < l
      PROVE  RowsIn(unsynced'[l]) \subseteq RowsIn(unsynced'[j])
  <2>1. i + j < i + l
    BY <1>1, <1>3, <1>7
  <2> QED
    BY <1>3, <2>1 DEF LostInv
<1>8. links' \in Earlier
  BY <1>1 DEF Earlier
<1>9. links' \in [Num -> Row] /\ Len(unsynced') =< MaxLost
  BY <1>1, <1>2 DEF LostInv
<1> QED
  BY <1>2, <1>4, <1>6, <1>7, <1>8, <1>9 DEF LosePower
-----------------------------------------------------------------------------
(* The rows, the ledger and the worker *)

\* Either a step of the service or a loss of power.
LEMMA PowerSteps ==
    ASSUME [PowerNext]_powerVars
    PROVE  [Next]_vars \/ \E i \in DOMAIN unsynced : LosePower(i)
BY DEF PowerNext, powerVars, ServiceStep, Checkpoint, vars

LEMMA LostDurable ==
    ASSUME Durable, LostInv, NEW i \in DOMAIN unsynced, LosePower(i)
    PROVE  Durable' /\ LostInv'
<1>0. /\ TypeOK /\ Signed /\ UNCHANGED clusterVars
      /\ links' \in Earlier /\ links' \in [Num -> Row]
      /\ \A s : (s \in Landed)' <=> s \in Landed
  BY LostRest DEF Durable, Landed, clusterVars
<1>1. \A T \in Earlier : Sound(T)'
  BY <1>0, SoundStays DEF LostInv, clusterVars, Landed
<1>2. Sound(links)'
  <2>1. PICK T \in Earlier : T = links'
    BY <1>0
  <2> QED
    BY <1>1, <2>1 DEF Sound, OnLedgerIn, HeadsIn, FilledIn, ConfirmedIn
<1>3. LostInv'
  BY <1>1, LostRest DEF LostInv
<1>4. horizon' \in 0 .. MaxLinks + 1
  <2>1. Stored' \in SUBSET Num
    BY DEF Stored
  <2>2. Cardinality(Stored') \in Nat
    <3>1. IsFiniteSet(Num)
      BY FS_Interval
    <3>2. IsFiniteSet(Stored')
      BY <2>1, <3>1, FS_Subset
    <3> QED
      BY <3>2, FS_CardinalityType
  <2>3. horizon \in 0 .. MaxLinks + 1 /\ horizon' = Min({horizon, Cardinality(Stored')})
    BY <1>0 DEF TypeOK, StoreTypeOK, LosePower
  <2>4. horizon' \in {horizon, Cardinality(Stored')} /\ horizon' =< horizon
    <3>1. horizon \in Int /\ Cardinality(Stored') \in Int
      BY <2>2, <2>3
    <3> QED
      BY <2>3, <3>1, MinOfTwo
  <2> QED
    BY <2>2, <2>3, <2>4
<1>5. /\ mode' = "down" /\ queue' = <<>> /\ paused' = FALSE /\ Rest("stopped")
      /\ visit' = [v \in Visitors |-> NoVisit] /\ UNCHANGED published
      /\ Trouble("crash")
  BY DEF LosePower
<1>6. TypeOK'
  <2>1. ClusterTypeOK' /\ spent' \in 0 .. MaxEvents /\ published' \in Stats
    BY <1>0, <1>5, ServiceAssumption DEF TypeOK, ClusterTypeOK, clusterVars, Trouble
  <2>2. /\ at' \in At /\ memo' \in Memo \cup {NoMemo}
        /\ sig' \in Sig \cup {NoSig} /\ failures' \in 0 .. PausedAfter
        /\ expired' \in BOOLEAN
    <3>1. "stopped" \in At
      BY DEF At
    <3> QED
      BY <1>5, <3>1, RestTypes
  <2>3. queue' \in Seq(Num) /\ Len(queue') =< QueueSize
    BY <1>5, ServiceAssumption
  <2>4. visit' \in [Visitors -> Visit]
    BY <1>5 DEF NoVisit, Visit, AllActs
  <2> QED
    BY <1>0, <1>4, <1>5, <2>1, <2>2, <2>3, <2>4 DEF TypeOK, StoreTypeOK
<1>7. Signed' /\ InHand' /\ Newest' /\ Admitted'
  <2>1. Signed'
    BY <1>0 DEF Signed, clusterVars, Landed
  <2>2. InHand' /\ Newest'
    BY <1>5 DEF InHand, Newest, Rest
  <2>3. Admitted'
    BY <1>5 DEF Admitted
  <2> QED
    BY <2>1, <2>2, <2>3
<1>8. Durable'
  <2>1. (TypeOK /\ Sound(links) /\ Signed /\ InHand /\ Newest /\ Admitted => Durable)'
    BY NowIsSound, PTL
  <2> QED
    BY <1>2, <1>6, <1>7, <2>1
<1> QED
  BY <1>3, <1>8

PowerInv == Durable /\ LostInv

LEMMA PowerStart == PowerInit => PowerInv
BY IInit DEF PowerInit, PowerInv, IInv, LostInv, Earlier

LEMMA PowerInvNext ==
    ASSUME PowerInv, [PowerNext]_powerVars
    PROVE  PowerInv'
<1>1. CASE ServiceStep
  BY <1>1, DurableNext, LostService DEF PowerInv, ServiceStep
<1>2. CASE Checkpoint \/ UNCHANGED powerVars
  <2>1. UNCHANGED vars /\ (unsynced' = unsynced \/ unsynced' = <<>>)
    BY <1>2 DEF Checkpoint, powerVars
  <2>2. UNCHANGED <<links, txs>>
    BY <2>1 DEF vars, storeVars, clusterVars
  <2>3. \A T : Sound(T) => Sound(T)'
    BY <2>2 DEF Sound, OnLedgerIn, HeadsIn, FilledIn, ConfirmedIn, Landed
  <2>4. LostInv'
    BY <2>1, <2>2, <2>3 DEF PowerInv, LostInv, Earlier, RowsIn, Stored
  <2> QED
    BY <2>1, <2>4, DurableNext DEF PowerInv
<1>3. ASSUME NEW i \in DOMAIN unsynced, LosePower(i) PROVE PowerInv'
  BY <1>3, LostDurable DEF PowerInv
<1> QED
  BY <1>1, <1>2, <1>3 DEF PowerNext

LEMMA PowerInvariant == PowerSpec => []PowerInv
<1>1. PowerInv /\ [PowerNext]_powerVars => PowerInv'
  BY PowerInvNext
<1> QED
  BY <1>1, PowerStart, PTL DEF PowerSpec

(* A loss of power forgets rows and outcomes, and never makes the store    *)
(* say of a link that it is on the ledger when it is not, although numbers *)
(* are given out again and memos of forgotten links stay on the ledger.    *)
THEOREM LedgerAgreesAfterPowerLoss == PowerSpec => []ConfirmedIsOnLedger
<1>1. PowerInv => ConfirmedIsOnLedger
  BY DEF PowerInv, Durable
<1> QED
  BY <1>1, PowerInvariant, PTL
\* Only the table of this moment is added to those that may come back.
LEMMA EarlierNext ==
    ASSUME PowerInv, [PowerNext]_powerVars
    PROVE  Earlier' \subseteq Earlier \cup {links}
<1>1. CASE ServiceStep
  BY <1>1, UnsyncedStep DEF Earlier, PowerInv, Durable
<1>2. CASE UNCHANGED powerVars \/ Checkpoint
  BY <1>2 DEF Earlier, powerVars, Checkpoint
<1>3. CASE \E i \in DOMAIN unsynced : LosePower(i)
  BY <1>3, LostRest DEF PowerInv
<1> QED
  BY <1>1, <1>2, <1>3 DEF PowerNext
-----------------------------------------------------------------------------
(* The queue *)

LEMMA LostQueue ==
    ASSUME NEW i, LosePower(i)
    PROVE  QueueInv' /\ CarriedInv'
<1>1. /\ memo' = NoMemo /\ queue' = <<>> /\ at' = "stopped" /\ expired' = FALSE
      /\ mode' = "down" /\ visit' = [v \in Visitors |-> NoVisit]
  BY DEF LosePower, Rest
<1>2. QueueInv'
  BY <1>1, NoMemoIsNoLink DEF QueueInv, QueueSound, HeldByOne, Stores, NoVisit
<1>3. CarriedInv'
  BY <1>1 DEF CarriedInv
<1> QED
  BY <1>2, <1>3

LEMMA PowerQueue ==
    ASSUME QueueHoldsAll, Unhindered
    PROVE  PowerSpec => [](PowerInv /\ QueueInv /\ CarriedInv)
<1>1. PowerInit => QueueInv /\ CarriedInv
  BY QueueInit DEF PowerInit, Init, CarriedInv
<1>2. ASSUME PowerInv, QueueInv, CarriedInv, [PowerNext]_powerVars
      PROVE  QueueInv' /\ CarriedInv'
  <2>1. CASE [Next]_vars
    BY <1>2, <2>1, QueueNext, CarriedNext DEF PowerInv
  <2>2. CASE \E i \in DOMAIN unsynced : LosePower(i)
    BY <2>2, LostQueue
  <2> QED
    BY <1>2, <2>1, <2>2, PowerSteps
<1> QED
  BY <1>1, <1>2, PowerInvariant, PTL DEF PowerSpec

(* No pending link waits for the next start while the process runs: a row  *)
(* whose confirmation was lost is pending again and Start queues it.       *)
THEOREM NoneLeftBehindByPowerLoss ==
    ASSUME QueueHoldsAll, Unhindered
    PROVE  PowerSpec => []NothingStranded
<1>1. CarriedInv => NothingStranded
  BY DEF CarriedInv, Carried, NothingStranded, Stores, PendingLinks
<1> QED
  BY <1>1, PowerQueue, PTL
-----------------------------------------------------------------------------
(* Duplicates *)

RepeatsIn(T, act) ==
    {n \in RowsIn(T) : /\ n # 0 /\ n >= horizon
                       /\ T[n].act = act /\ T[n].status # "failed"}

FewIn(T) == \A act \in Acts : Cardinality(RepeatsIn(T, act)) =< Cardinality(Visitors)

DupLost == \A T \in Earlier : FewIn(T)

LEMMA FewerIn ==
    ASSUME NEW T, FewIn(T), \A m \in RowsIn(T) : m >= horizon' => m >= horizon
    PROVE  FewIn(T)'
<1> SUFFICES ASSUME NEW act \in Acts
             PROVE  Cardinality(RepeatsIn(T, act)') =< Cardinality(Visitors)
  BY DEF FewIn
<1> DEFINE R == RepeatsIn(T, act)
           RR == RepeatsIn(T, act)'
<1>1. RR \in SUBSET R /\ R \in SUBSET Num
  BY DEF RepeatsIn, RowsIn
<1>2. Cardinality(R) =< Cardinality(Visitors) /\ Cardinality(Visitors) \in Nat
  BY FiniteCounts DEF FewIn
<1> HIDE DEF R, RR
<1>3. IsFiniteSet(R)
  <2>1. IsFiniteSet(Num)
    BY FS_Interval
  <2> QED
    BY <1>1, <2>1, FS_Subset
<1>4. /\ Cardinality(RR) =< Cardinality(R)
      /\ Cardinality(RR) \in Nat /\ Cardinality(R) \in Nat
  BY <1>1, <1>3, FS_Subset, FS_CardinalityType
<1> QED
  BY <1>2, <1>4 DEF RR

LEMMA HorizonNext == [Next]_vars => horizon' = horizon \/ horizon' > horizon
BY DEF Next, HandlerStep, WorkerStep, storeVars, clusterVars, workerVars, processVars, vars,
       Start, StartFails, Shutdown, Exit, ExitAnyway, Crash, Down, AddCheck, AddCapacity,
       AddInsert, AddInsertFails, AddEnqueue, TakeNext, TakeFails, DeadlinePasses, SendRefused,
       SendFails, Submit, SubmitFails, SeeConfirmed, SeeRejected, SeeExpired, GiveUp,
       GiveUpEarly, AttemptFailed, Confirm, Fail, NotRecorded, RecordFails, PublishStats,
       StatsFail, Retry, StopWaiting, StopIdle, ClusterSettles, BlockhashExpires, NodeStops,
       NodeRecovers, TimePasses, DayPasses

\* Without a gap, the rows are those numbered below how many there are.
LEMMA BelowCount ==
    ASSUME NEW T, FilledIn(T), NEW m \in RowsIn(T)
    PROVE  Cardinality(RowsIn(T)) \in Nat /\ m < Cardinality(RowsIn(T))
<1>1. IsFiniteSet(Num)
  BY FS_Interval
<1>2. RowsIn(T) \in SUBSET Num
  BY DEF RowsIn
<1>3. IsFiniteSet(RowsIn(T)) /\ Cardinality(RowsIn(T)) \in Nat
  BY <1>1, <1>2, FS_Subset, FS_CardinalityType
<1>4. m \in Nat /\ 0 .. m \in SUBSET RowsIn(T)
  BY DEF FilledIn, RowsIn
<1>5. Cardinality(0 .. m) = m + 1
  BY <1>4, FS_Interval
<1>6. Cardinality(0 .. m) =< Cardinality(RowsIn(T))
  BY <1>3, <1>4, FS_Subset
<1> QED
  BY <1>3, <1>4, <1>5, <1>6

\* The numbers that come back are those of rows that are gone.
LEMMA LostDup ==
    ASSUME PowerInv, DupInv, DupLost, NEW i \in DOMAIN unsynced, LosePower(i)
    PROVE  DupInv' /\ DupLost'
<1>0. Durable' /\ LostInv' /\ Durable /\ LostInv
  BY LostDurable DEF PowerInv
<1>1. /\ Sound(links') /\ RowsIn(links') = Stored'
      /\ links' \in Earlier /\ Earlier' \subseteq Earlier
      /\ \A T \in Earlier' : RowsIn(T) \subseteq Stored'
      /\ \A T \in Earlier : FilledIn(T)
  BY <1>0, LostRest DEF LostInv, Sound, RowsIn, Stored
<1>2. ASSUME NEW m \in Stored', m >= horizon'
      PROVE  m >= horizon
  <2>1. Cardinality(Stored') \in Nat /\ m < Cardinality(Stored') /\ m \in Int
    <3>1. PICK T \in Earlier : T = links' /\ RowsIn(T) = Stored'
      BY <1>1
    <3>2. Cardinality(RowsIn(T)) \in Nat /\ m < Cardinality(RowsIn(T))
      BY <1>1, <1>2, <3>1, BelowCount
    <3> QED
      BY <3>1, <3>2 DEF RowsIn
  <2>2. horizon \in Int /\ horizon' = Min({horizon, Cardinality(Stored')})
    BY <1>0 DEF Durable, TypeOK, StoreTypeOK, LosePower
  <2>3. horizon' \in {horizon, Cardinality(Stored')}
    <3>1. horizon \in Int /\ Cardinality(Stored') \in Int
      BY <2>1, <2>2
    <3> QED
      BY <2>2, <3>1, MinOfTwo
  <2> QED
    BY <1>2, <2>1, <2>2, <2>3
<1>3. ASSUME NEW T \in Earlier, RowsIn(T) \subseteq Stored'
      PROVE  FewIn(T)'
  BY <1>2, <1>3, FewerIn DEF DupLost
<1>4. DupInv'
  <2> SUFFICES ASSUME NEW act \in Acts PROVE Few(act)'
    BY DEF DupInv
  <2>1. PICK T \in Earlier : T = links' /\ RowsIn(T) = Stored'
    BY <1>1
  <2>2. FewIn(T)'
    BY <1>3, <2>1
  <2>3. RepeatsIn(T, act)' = Repeats(act)'
    BY <2>1 DEF RepeatsIn, Repeats, RowsIn
  <2>4. Coming(act)' = {}
    BY DEF LosePower, Coming, Checked, NoVisit
  <2>5. Cardinality(Coming(act)') = 0
    BY <2>4, FS_EmptySet
  <2>6. Cardinality(Repeats(act)') \in Nat
    <3>1. Repeats(act)' \in SUBSET Num /\ IsFiniteSet(Num)
      BY FS_Interval DEF Repeats, Stored
    <3> QED
      BY <3>1, FS_Subset, FS_CardinalityType
  <2>7. Cardinality(Repeats(act)') =< Cardinality(Visitors)
    BY <2>2, <2>3 DEF FewIn
  <2> QED
    BY <2>5, <2>6, <2>7 DEF Few
<1>5. DupLost'
  BY <1>1, <1>3 DEF DupLost
<1> QED
  BY <1>4, <1>5

LEMMA LostKept ==
    ASSUME PowerInv, DupInv, DupLost, [PowerNext]_powerVars, [Next]_vars
    PROVE  DupLost'
<1>1. horizon \in Nat /\ horizon' \in Nat /\ horizon' >= horizon
  <2>1. horizon \in Nat /\ horizon' \in Nat
    BY DurableNext DEF PowerInv, Durable, TypeOK, StoreTypeOK
  <2> QED
    BY <2>1, HorizonNext
<1>2. Earlier' \subseteq Earlier \cup {links}
  BY EarlierNext
<1>3. FewIn(links)
  <2>1. \A act : RepeatsIn(links, act) = Repeats(act)
    BY DEF RepeatsIn, Repeats, RowsIn, Stored
  <2> QED
    BY <2>1, FewAreSimultaneous DEF FewIn, RepeatsAreSimultaneous
<1>4. ASSUME NEW T \in Earlier \cup {links} PROVE FewIn(T)'
  <2>1. \A m \in RowsIn(T) : m >= horizon' => m >= horizon
    BY <1>1 DEF RowsIn
  <2> QED
    BY <1>3, <2>1, FewerIn DEF DupLost
<1> QED
  BY <1>2, <1>4 DEF DupLost

(* A loss of power that takes rows back, or their outcomes, leaves it so:  *)
(* of the rows that are there, no more say the same than requests run at   *)
(* the same time.                                                          *)
THEOREM TakenNoMoreAfterPowerLoss == PowerSpec => []RepeatsAreSimultaneous
<1>1. PowerInit => DupInv /\ DupLost
  BY DupInit DEF PowerInit, DupLost, Earlier
<1>2. ASSUME PowerInv, DupInv, DupLost, [PowerNext]_powerVars
      PROVE  DupInv' /\ DupLost'
  <2>1. CASE [Next]_vars
    BY <1>2, <2>1, DupNext, LostKept DEF PowerInv
  <2>2. CASE \E i \in DOMAIN unsynced : LosePower(i)
    BY <1>2, <2>2, LostDup
  <2> QED
    BY <1>2, <2>1, <2>2, PowerSteps
<1> QED
  BY <1>1, <1>2, FewAreSimultaneous, PowerInvariant, PTL DEF PowerSpec
-----------------------------------------------------------------------------
(* The order of the links *)

OrderedIn(T) ==
    /\ \A n \in ConfirmedIn(T), m \in Num : T[m].status = "pending" => n < m
    /\ \A n \in ConfirmedIn(T) :
          \/ (\A m \in ConfirmedIn(T) : n =< m) /\ T[n].prev = Genesis
          \/ \E m \in ConfirmedIn(T) :
                /\ m < n
                /\ \A k \in ConfirmedIn(T) : k < n => k =< m
                /\ T[n].prev = T[m].sig

OrderLost == \A T \in Earlier : OrderedIn(T)

LEMMA NowIsOrdered ==
    OrderedIn(links) <=>
        (\A n \in Confirmed, m \in PendingLinks : n < m) /\ EachPointsAtTheOneBefore
<1>1. ConfirmedIn(links) = Confirmed /\ PendingLinks = {m \in Num : links[m].status = "pending"}
  BY DEF ConfirmedIn, Confirmed, PendingLinks, With
<1> QED
  BY <1>1 DEF OrderedIn, EachPointsAtTheOneBefore

LEMMA LostOrder ==
    ASSUME LostInv, OrderLost, NEW i \in DOMAIN unsynced, LosePower(i)
    PROVE  OrderInv' /\ OrderLost'
<1>1. /\ links' \in Earlier /\ Earlier' \subseteq Earlier
  BY LostRest
<1>2. OrderLost'
  BY <1>1 DEF OrderLost, OrderedIn, ConfirmedIn
<1>3. /\ \A n \in Confirmed', m \in PendingLinks' : n < m
      /\ EachPointsAtTheOneBefore'
  <2>1. PICK T \in Earlier : T = links' /\ OrderedIn(T)
    BY <1>1 DEF OrderLost
  <2>2. OrderedIn(links)'
    BY <2>1 DEF OrderedIn, ConfirmedIn
  <2>3. (OrderedIn(links) =>
           (\A n \in Confirmed, m \in PendingLinks : n < m) /\ EachPointsAtTheOneBefore)'
    BY NowIsOrdered, PTL
  <2> QED
    BY <2>2, <2>3
<1>4. /\ mode' = "down" /\ at' = "stopped" /\ queue' = <<>>
      /\ \A v \in Visitors : ~Stores(v)'
  BY DEF LosePower, Rest, Stores, NoVisit
<1> QED
  BY <1>2, <1>3, <1>4 DEF OrderInv, InHandAt

LEMMA LostOrderKept ==
    ASSUME PowerInv, OrderInv, OrderLost, [PowerNext]_powerVars
    PROVE  OrderLost'
<1>1. Earlier' \subseteq Earlier \cup {links}
  BY EarlierNext
<1>2. OrderedIn(links)
  BY NowIsOrdered DEF OrderInv
<1> QED
  BY <1>1, <1>2 DEF OrderLost, OrderedIn, ConfirmedIn

(* Every memo on record points at the confirmed link before it, also when  *)
(* confirmations, refusals and rows are lost: the table that comes back is *)
(* one the worker had written in order, and it goes on from there.         *)
THEOREM OrderSurvivesPowerLoss ==
    ASSUME Orderly
    PROVE  PowerSpec => []EachPointsAtTheOneBefore
<1>1. QueueHoldsAll /\ Unhindered
  BY DEF Orderly
<1>2. PowerInit => OrderInv /\ OrderLost
  BY DEF PowerInit, Init, StoreInit, NoRow, NoVisit, OrderInv, InHandAt,
         EachPointsAtTheOneBefore, Confirmed, PendingLinks, With, Stored, Stores,
         OrderLost, Earlier
<1>3. ASSUME PowerInv, QueueInv, CarriedInv, OrderInv, OrderLost, [PowerNext]_powerVars
      PROVE  OrderInv' /\ OrderLost'
  <2>1. CASE [Next]_vars
    BY <1>3, <2>1, OrderNext, LostOrderKept DEF PowerInv
  <2>2. CASE \E i \in DOMAIN unsynced : LosePower(i)
    BY <1>3, <2>2, LostOrder DEF PowerInv
  <2> QED
    BY <1>3, <2>1, <2>2, PowerSteps
<1>4. OrderInv => EachPointsAtTheOneBefore
  BY DEF OrderInv
<1>5. PowerSpec => [](PowerInv /\ QueueInv /\ CarriedInv)
  BY <1>1, PowerQueue
<1> QED
  BY <1>2, <1>3, <1>4, <1>5, PTL DEF PowerSpec
=============================================================================
