------------------------ MODULE ChainService_proofs ------------------------
(***************************************************************************)
(* Theorems about ChainService for any number of visitors, links and       *)
(* transactions, any queue size and any trouble.                           *)
(***************************************************************************)
EXTENDS ChainProperties, TLAPS

USE DEF Num, Sig, Genesis, NoSig
-----------------------------------------------------------------------------
(* Types *)

(* What the statements of the store and the calls to the cluster make of   *)
(* well-typed tables is well typed.                                        *)
LEMMA StoreTypes ==
    ASSUME links \in [Num -> Row]
    PROVE  /\ InsertGenesis => links' \in [Num -> Row]
           /\ \A n \in Num, act \in AllActs : Insert(n, act) => links' \in [Num -> Row]
           /\ \A n \in Int, s \in Sig \cup {NoSig}, p \in Prev :
                 MarkConfirmed(n, s, p) => links' \in [Num -> Row]
           /\ \A n : MarkFailed(n) => links' \in [Num -> Row]
<1> USE DEF Row, Status
<1>1. NoRow \in Row /\ \A act \in AllActs : NewRow(act) \in Row
  BY DEF NoRow, NewRow, AllActs
<1>2. PledgeAct \in AllActs
  BY DEF AllActs
<1>3. InsertGenesis => links' \in [Num -> Row]
  BY <1>1, <1>2 DEF InsertGenesis
<1>4. \A n \in Num, act \in AllActs : Insert(n, act) => links' \in [Num -> Row]
  BY <1>1 DEF Insert
<1>5. \A n \in Int, s \in Sig \cup {NoSig}, p \in Prev :
        MarkConfirmed(n, s, p) => links' \in [Num -> Row]
  <2> SUFFICES ASSUME NEW n \in Int, NEW s \in Sig \cup {NoSig}, NEW p \in Prev,
                      MarkConfirmed(n, s, p)
               PROVE  links' \in [Num -> Row]
    OBVIOUS
  <2>1. ASSUME NEW m \in Num
        PROVE  [links[m] EXCEPT !.status = "confirmed", !.sig = s, !.prev = p] \in Row
    OBVIOUS
  <2>2. links' = [m \in Num |->
                    IF m = n
                    THEN [links[m] EXCEPT !.status = "confirmed", !.sig = s, !.prev = p]
                    ELSE links[m]]
    BY DEF MarkConfirmed
  <2> QED
    BY <2>1, <2>2
<1>6. \A n : MarkFailed(n) => links' \in [Num -> Row]
  <2> SUFFICES ASSUME NEW n, MarkFailed(n) PROVE links' \in [Num -> Row]
    OBVIOUS
  <2>1. ASSUME NEW m \in Num
        PROVE  [links[m] EXCEPT !.status = "failed"] \in Row
    OBVIOUS
  <2>2. links' = [m \in Num |->
                    IF m = n THEN [links[m] EXCEPT !.status = "failed"] ELSE links[m]]
    BY DEF MarkFailed
  <2> QED
    BY <2>1, <2>2
<1> QED
  BY <1>3, <1>4, <1>5, <1>6

LEMMA ClusterTypes ==
    ASSUME ClusterTypeOK
    PROVE  /\ \A m \in Memo \cup {NoMemo} : Sign(m) => ClusterTypeOK'
           /\ \A s \in Sig : Land(s) \/ Reject(s) \/ Expire(s) => ClusterTypeOK'
           /\ Outage \/ Recover => ClusterTypeOK'
<1> USE BoundsAssumption DEF ClusterTypeOK, TxState
<1>1. \A m \in Memo \cup {NoMemo} : Sign(m) => ClusterTypeOK'
  BY DEF Sign
<1>2. \A s \in Sig : Land(s) \/ Reject(s) \/ Expire(s) => ClusterTypeOK'
  BY DEF Land, Reject, Expire, Settle
<1>3. Outage \/ Recover => ClusterTypeOK'
  BY DEF Outage, Recover
<1> QED
  BY <1>1, <1>2, <1>3

LEMMA RestTypes ==
    ASSUME NEW a \in At, Rest(a)
    PROVE  /\ at' \in At
           /\ memo' \in Memo \cup {NoMemo}
           /\ sig' \in Sig \cup {NoSig}
           /\ failures' \in 0 .. PausedAfter
           /\ expired' \in BOOLEAN
<1>1. at' \in At
  BY DEF Rest
<1>2. memo' \in Memo \cup {NoMemo}
  BY DEF Rest
<1>3. sig' \in Sig \cup {NoSig}
  BY DEF Rest
<1>4. failures' \in 0 .. PausedAfter
  BY ServiceAssumption DEF Rest
<1>5. expired' \in BOOLEAN
  BY DEF Rest
<1> QED
  BY <1>1, <1>2, <1>3, <1>4, <1>5

LEMMA TypeInit == Init => TypeOK
<1> USE BoundsAssumption, ServiceAssumption
<1> SUFFICES ASSUME Init PROVE TypeOK
  OBVIOUS
<1>1. StoreTypeOK
  BY DEF Init, StoreInit, StoreTypeOK, Row, Status, NoRow, AllActs
<1>2. ClusterTypeOK
  BY DEF Init, ClusterInit, ClusterTypeOK, TxState
<1>3. visit \in [Visitors -> Visit]
  BY DEF Init, NoVisit, Visit, AllActs
<1>4. /\ queue \in Seq(Num) /\ Len(queue) =< QueueSize
      /\ failures \in 0 .. PausedAfter /\ spent \in 0 .. MaxEvents
  BY DEF Init
<1>5. published \in Stats
  BY DEF Init, Stats
<1> QED
  BY <1>1, <1>2, <1>3, <1>4, <1>5 DEF Init, TypeOK, At

(* No step leaves the types. *)
LEMMA TypeNext == TypeOK /\ [Next]_vars => TypeOK'
<1> SUFFICES ASSUME TypeOK, [Next]_vars PROVE TypeOK'
  OBVIOUS
<1> USE BoundsAssumption, ServiceAssumption
<1> USE DEF TypeOK, StoreTypeOK
<1>a. /\ links \in [Num -> Row]
      /\ ClusterTypeOK
      /\ StatsNow \in Stats
      /\ visit \in [Visitors -> Visit]
      /\ NoVisit \in Visit
      /\ \A kind : Trouble(kind) => spent' \in 0 .. MaxEvents
  BY DEF StatsNow, Stats, Counted, With, NoVisit, Visit, AllActs, Trouble
<1>b. UNCHANGED clusterVars => ClusterTypeOK'
  BY DEF clusterVars, ClusterTypeOK
<1>c. UNCHANGED storeVars => StoreTypeOK'
  BY DEF storeVars
<1>1. CASE Start
  <2>1. links' \in [Num -> Row]
    BY <1>1, <1>a, StoreTypes DEF Start
  <2>2. queue' \in Seq(Num) /\ Len(queue') =< QueueSize
    BY <1>1 DEF Start, Refills
  <2>3. "idle" \in At
    BY DEF At
  <2> QED
    BY <1>1, <1>a, <1>b, <2>1, <2>2, <2>3, RestTypes DEF Start
<1>2. CASE StartFails
  BY <1>2, <1>a, <1>b, StoreTypes DEF StartFails, workerVars, processVars
<1>3. CASE Shutdown
  BY <1>3, <1>a, <1>b, <1>c DEF Shutdown, workerVars
<1>d. ASSUME Down, spent' \in 0 .. MaxEvents PROVE TypeOK'
  <2>1. "stopped" \in At
    BY DEF At
  <2>2. /\ at' \in At
        /\ memo' \in Memo \cup {NoMemo}
        /\ sig' \in Sig \cup {NoSig}
        /\ failures' \in 0 .. PausedAfter
        /\ expired' \in BOOLEAN
    BY <1>d, <2>1, RestTypes DEF Down
  <2>3. visit' \in [Visitors -> Visit]
    BY <1>d, <1>a DEF Down
  <2>4. queue' \in Seq(Num) /\ Len(queue') =< QueueSize
    BY <1>d DEF Down
  <2> QED
    BY <1>d, <1>a, <1>b, <1>c, <2>2, <2>3, <2>4 DEF Down
<1>4. CASE Exit \/ ExitAnyway \/ Crash
  BY <1>4, <1>a, <1>d DEF Exit, ExitAnyway, Crash
<1>5. ASSUME NEW v \in Visitors, NEW act \in Acts, AddCheck(v, act) PROVE TypeOK'
  <2>1. [pc |-> "checked", act |-> act, n |-> -1] \in Visit
    BY DEF Visit, AllActs
  <2> QED
    BY <1>5, <1>a, <1>b, <1>c, <2>1 DEF AddCheck, workerVars
<1>6. ASSUME NEW v \in Visitors, AddCapacity(v) PROVE TypeOK'
  <2>1. [visit[v] EXCEPT !.pc = "room"] \in Visit
    BY <1>6, <1>a DEF AddCapacity, Visit
  <2> QED
    BY <1>6, <1>a, <1>b, <1>c, <2>1 DEF AddCapacity, workerVars
<1>7. ASSUME NEW v \in Visitors, AddInsert(v) PROVE TypeOK'
  <2> PICK n \in Num :
        /\ Insert(n, visit[v].act)
        /\ visit' = [visit EXCEPT ![v].pc = "stored", ![v].n = n]
    BY <1>7 DEF AddInsert
  <2>1. visit[v] \in Visit
    BY <1>a
  <2>2. links' \in [Num -> Row]
    BY <1>a, <2>1, StoreTypes DEF Visit
  <2>3. visit' \in [Visitors -> Visit]
    BY <1>a, <2>1 DEF Visit
  <2> QED
    BY <1>7, <1>b, <2>2, <2>3 DEF AddInsert, workerVars
<1>8. ASSUME NEW v \in Visitors, AddInsertFails(v) PROVE TypeOK'
  BY <1>8, <1>a, <1>b, <1>c DEF AddInsertFails, workerVars
<1>9. ASSUME NEW v \in Visitors, AddEnqueue(v) PROVE TypeOK'
  <2>1. visit[v].n \in Num
    BY <1>9, <1>a DEF AddEnqueue, Visit
  <2>2. queue' \in Seq(Num) /\ Len(queue') =< QueueSize
    <3>1. CASE Len(queue) < QueueSize
      <4>1. queue' = Append(queue, visit[v].n)
        BY <1>9, <3>1 DEF AddEnqueue
      <4> QED
        BY <2>1, <3>1, <4>1
    <3>2. CASE ~(Len(queue) < QueueSize)
      BY <1>9, <3>2 DEF AddEnqueue
    <3> QED
      BY <3>1, <3>2
  <2>3. visit' \in [Visitors -> Visit]
    BY <1>9, <1>a DEF AddEnqueue
  <2> QED
    BY <1>9, <1>a, <1>b, <1>c, <2>2, <2>3 DEF AddEnqueue, workerVars
<1>10. CASE TakeNext
  <2>1. Head(queue) \in Num /\ Tail(queue) \in Seq(Num) /\ Len(Tail(queue)) =< QueueSize
    BY <1>10 DEF TakeNext
  <2>2. memo' \in Memo \cup {NoMemo} /\ at' \in At
    BY <1>10, <1>a, <2>1 DEF TakeNext, Memo, At, Row
  <2> QED
    BY <1>10, <1>a, <1>b, <1>c, <2>1, <2>2 DEF TakeNext
<1>11. CASE TakeFails
  <2>1. Tail(queue) \in Seq(Num) /\ Len(Tail(queue)) =< QueueSize
    BY <1>11 DEF TakeFails
  <2> QED
    BY <1>11, <1>a, <1>b, <1>c, <2>1 DEF TakeFails, workerVars
<1>12. CASE DeadlinePasses
  BY <1>12, <1>a, <1>b, <1>c DEF DeadlinePasses, processVars
<1>e. ASSUME AttemptFailed, ClusterTypeOK', spent' \in 0 .. MaxEvents PROVE TypeOK'
  <2>1. failures' \in 0 .. PausedAfter
    BY <1>e DEF AttemptFailed
  <2>2. paused' \in BOOLEAN
    BY <1>e DEF AttemptFailed
  <2>3. at' \in At
    BY <1>e DEF AttemptFailed, At
  <2> QED
    BY <1>e, <1>a, <1>c, <2>1, <2>2, <2>3 DEF AttemptFailed
<1>13. CASE SendFails \/ SeeExpired \/ GiveUp \/ GiveUpEarly
  BY <1>13, <1>a, <1>b, <1>e DEF SendFails, SeeExpired, GiveUp, GiveUpEarly
<1>14. CASE SubmitFails
  BY <1>14, <1>a, <1>e, ClusterTypes DEF SubmitFails
<1>15. CASE Submit
  <2>1. ClusterTypeOK'
    BY <1>15, <1>a, ClusterTypes DEF Submit
  <2>2. sig' \in Sig
    BY <1>15 DEF Submit, Sign, ClusterTypeOK
  <2> QED
    BY <1>15, <1>c, <2>1, <2>2 DEF Submit, processVars, At
<1>16. CASE SendRefused \/ SeeConfirmed \/ SeeRejected \/ Retry
  BY <1>16, <1>a, <1>b, <1>c
  DEF SendRefused, SeeConfirmed, SeeRejected, Retry, processVars, At
<1>17. CASE Confirm
  <2>1. memo.prev \in Prev /\ memo.n \in Int
    BY BoundsAssumption DEF Memo, NoMemo, Prev
  <2>2. links' \in [Num -> Row]
    BY <1>17, <1>a, <2>1, StoreTypes DEF Confirm
  <2> QED
    BY <1>17, <1>b, <2>2 DEF Confirm, At
<1>18. CASE Fail
  <2>1. links' \in [Num -> Row]
    BY <1>18, <1>a, StoreTypes DEF Fail
  <2> QED
    BY <1>18, <1>b, <2>1 DEF Fail, At, processVars
<1>19. CASE NotRecorded \/ RecordFails \/ StopWaiting \/ StopIdle
  <2>1. "idle" \in At /\ "stopped" \in At
    BY DEF At
  <2> QED
    BY <1>19, <1>a, <1>b, <1>c, <2>1, RestTypes
    DEF NotRecorded, RecordFails, StopWaiting, StopIdle, processVars
<1>20. CASE PublishStats \/ StatsFail
  <2>1. "idle" \in At /\ "backoff" \in At
    BY DEF At
  <2>2. /\ at' \in At
        /\ memo' \in Memo \cup {NoMemo}
        /\ sig' \in Sig \cup {NoSig}
        /\ failures' \in 0 .. PausedAfter
        /\ expired' \in BOOLEAN
    BY <1>20, <2>1, RestTypes DEF PublishStats, StatsFail, AfterStats
  <2> QED
    BY <1>20, <1>a, <1>b, <1>c, <2>2 DEF PublishStats, StatsFail, processVars
<1>21. ASSUME NEW s \in Sig, ClusterSettles(s) \/ BlockhashExpires(s) PROVE TypeOK'
  BY <1>21, <1>a, <1>c, ClusterTypes
  DEF ClusterSettles, BlockhashExpires, workerVars, processVars
<1>22. CASE NodeStops \/ NodeRecovers
  BY <1>22, <1>a, <1>c, ClusterTypes DEF NodeStops, NodeRecovers, workerVars, processVars
<1>23. CASE TimePasses
  BY <1>23, <1>a, <1>b DEF TimePasses, DayPasses, workerVars, processVars
<1>24. CASE UNCHANGED vars
  BY <1>24, <1>b, <1>c DEF vars, workerVars, processVars
<1> QED
  BY <1>1, <1>2, <1>3, <1>4, <1>5, <1>6, <1>7, <1>8, <1>9, <1>10, <1>11, <1>12,
     <1>13, <1>14, <1>15, <1>16, <1>17, <1>18, <1>19, <1>20, <1>21, <1>22, <1>23, <1>24
  DEF Next, HandlerStep, WorkerStep

(* Every variable keeps its type: the queue never holds more than it fits, *)
(* whatever visitors, the worker, the cluster and trouble do.              *)
THEOREM TypeCorrect == Spec => []TypeOK
BY TypeInit, TypeNext, PTL DEF Spec
-----------------------------------------------------------------------------
(* The inductive invariant.  Tables is what Durable says of the store and  *)
(* the cluster, Hand what it says of the worker.                           *)

Tables == ConfirmedIsOnLedger /\ PrevIsHead /\ RowsFill /\ Signed

Hand == InHand /\ Newest

InHandAt == {"sending", "waiting", "confirming", "failing", "backoff", "pausing"}

LEMMA DurableParts == Durable <=> TypeOK /\ Tables /\ Hand /\ Admitted
BY DEF Durable, Tables, Hand

LEMMA IInit == Init => IInv
<1> SUFFICES ASSUME Init PROVE Tables /\ Hand /\ Admitted /\ SignedRows
  BY TypeInit, DurableParts DEF IInv
<1>1. \A n \in Num : links[n] = NoRow
  BY DEF Init, StoreInit
<1>2. Confirmed = {}
  BY <1>1 DEF Confirmed, With, NoRow
<1>3. Signed
  BY BoundsAssumption DEF Init, ClusterInit, Signed
<1>4. RowsFill
  BY <1>1 DEF RowsFill, NoRow
<1>5. Admitted
  BY DEF Init, Admitted
<1>6. SignedRows
  BY BoundsAssumption DEF Init, ClusterInit, SignedRows
<1> QED
  BY <1>2, <1>3, <1>4, <1>5, <1>6
  DEF Tables, Hand, ConfirmedIsOnLedger, PrevIsHead, InHand, Newest, Init

(* Steps that leave the tables alone. *)
LEMMA TablesFrame ==
    ASSUME Tables, UNCHANGED <<links, txs, signed>>
    PROVE  Tables' /\ (\A s : IsHead(s) <=> IsHead(s)') /\ Confirmed' = Confirmed
<1>1. Confirmed' = Confirmed /\ Landed' = Landed
  BY DEF Confirmed, With, Landed
<1>2. \A n : Before(n)' = Before(n)
  BY <1>1 DEF Before
<1>3. ConfirmedIsOnLedger'
  BY <1>1 DEF Tables, ConfirmedIsOnLedger
<1>4. PrevIsHead'
  BY <1>1, <1>2 DEF Tables, PrevIsHead
<1>5. RowsFill' /\ Signed'
  BY <1>1 DEF Tables, RowsFill, Signed
<1>6. \A s : IsHead(s) <=> IsHead(s)'
  BY <1>1 DEF IsHead, Confirmed
<1> QED
  BY <1>1, <1>3, <1>4, <1>5, <1>6 DEF Tables

(* A worker that stays where it is keeps what is known of its link. *)
LEMMA HandFrame ==
    ASSUME Hand, UNCHANGED <<links, txs, signed, at, memo, sig>>, Tables
    PROVE  Hand'
BY TablesFrame DEF Hand, InHand, Newest

(* A worker that goes on with the same link, waiting for nothing. *)
LEMMA HandMoves ==
    ASSUME Hand, Tables, UNCHANGED <<links, txs, signed, memo>>,
           at \in InHandAt, at' \notin {"waiting", "confirming"}
    PROVE  Hand'
BY TablesFrame DEF Hand, InHand, Newest, InHandAt

(* A worker without a link. *)
LEMMA HandEmpty ==
    ASSUME at' \notin InHandAt
    PROVE  Hand'
BY DEF Hand, InHand, Newest, InHandAt

(* A new row, which is the last and pending. *)
LEMMA TablesInsert ==
    ASSUME TypeOK, Tables, NEW n \in Num, NEW act \in AllActs,
           IsNextNumber(n), links' = [links EXCEPT ![n] = NewRow(act)],
           UNCHANGED <<txs, signed>>
    PROVE  /\ Tables'
           /\ \A s : IsHead(s) <=> IsHead(s)'
           /\ Confirmed' = Confirmed
           /\ \A m \in Stored : links'[m] = links[m]
<1>0. links \in [Num -> Row]
  BY DEF TypeOK, StoreTypeOK
<1>1. n \notin Stored /\ \A m \in Stored : m < n
  BY DEF IsNextNumber, Stored
<1>2. \A m \in Num : m # n => links'[m] = links[m]
  BY <1>0
<1>3. links'[n] = NewRow(act) /\ links'[n].status = "pending"
  BY <1>0 DEF NewRow, NoRow
<1>4. Confirmed' = Confirmed /\ Landed' = Landed
  BY <1>1, <1>2, <1>3 DEF Confirmed, With, Stored, Landed
<1>5. \A m \in Confirmed : links'[m] = links[m] /\ m \in Num
  BY <1>1, <1>2 DEF Confirmed, With, Stored
<1>6. \A m \in Confirmed : Before(m)' = Before(m)
  BY <1>4, <1>5 DEF Before
<1>7. ConfirmedIsOnLedger'
  BY <1>4, <1>5 DEF Tables, ConfirmedIsOnLedger
<1>8. PrevIsHead'
  BY <1>4, <1>5, <1>6 DEF Tables, PrevIsHead, Before
<1>9. RowsFill'
  BY <1>0, <1>1, <1>2, <1>3, BoundsAssumption DEF Tables, RowsFill, IsNextNumber, Stored
<1>10. Signed'
  BY <1>4 DEF Tables, Signed
<1>11. \A s : IsHead(s) <=> IsHead(s)'
  BY <1>4, <1>5 DEF IsHead, Confirmed
<1>12. \A m \in Stored : links'[m] = links[m]
  BY <1>1, <1>2 DEF Stored
<1> QED
  BY <1>4, <1>7, <1>8, <1>9, <1>10, <1>11, <1>12 DEF Tables

LEMMA HandInsert ==
    ASSUME TypeOK, Tables, Hand, NEW n \in Num, NEW act \in AllActs,
           IsNextNumber(n), links' = [links EXCEPT ![n] = NewRow(act)],
           UNCHANGED <<txs, signed, at, memo, sig>>
    PROVE  Hand'
<1>1. at \in InHandAt => memo.n \in Stored
  BY DEF Hand, InHand, InHandAt, Stored, Memo
<1>2. \A m \in Confirmed : links'[m] = links[m]
  BY TablesInsert DEF Confirmed, With, Stored
<1> QED
  BY <1>1, <1>2, TablesInsert DEF Hand, InHand, Newest, InHandAt

(* A fresh transaction over the memo in hand. *)
LEMMA TablesSign ==
    ASSUME TypeOK, Tables, Hand, at \in InHandAt, Sign(memo), UNCHANGED links
    PROVE  /\ Tables'
           /\ \A s : IsHead(s) <=> IsHead(s)'
           /\ Confirmed' = Confirmed
           /\ signed' \in Sig /\ txs'[signed'] = [state |-> "sent", memo |-> memo]
           /\ \A n \in Confirmed : links[n].sig < signed'
<1>0. /\ txs \in [Sig -> [state : TxState, memo : Memo \cup {NoMemo}]]
      /\ signed \in 0 .. MaxSends /\ MaxSends \in Nat
      /\ memo \in Memo
  BY BoundsAssumption DEF TypeOK, ClusterTypeOK, Hand, InHand, InHandAt
<1>1. signed' = signed + 1 /\ signed' \in Sig
  BY <1>0 DEF Sign
<1>2. /\ txs'[signed'] = [state |-> "sent", memo |-> memo]
      /\ \A s \in Sig : s # signed' => txs'[s] = txs[s]
  BY <1>0, <1>1 DEF Sign
<1>3. txs[signed'].state = "unsigned"
  BY <1>0, <1>1 DEF Tables, Signed
<1>4. Confirmed' = Confirmed /\ (\A n : Before(n)' = Before(n))
  BY DEF Confirmed, With, Before
<1>5. Landed' = Landed
  BY <1>1, <1>2, <1>3 DEF Landed
<1>6. signed' \notin Landed
  BY <1>3 DEF Landed
<1>7. ConfirmedIsOnLedger'
  BY <1>2, <1>4, <1>5, <1>6 DEF Tables, ConfirmedIsOnLedger, Landed
<1>8. PrevIsHead' /\ RowsFill'
  BY <1>4 DEF Tables, PrevIsHead, RowsFill
<1>9. memo.prev \in Landed \cup {Genesis}
  BY DEF Hand, InHand, InHandAt, IsHead, Tables, ConfirmedIsOnLedger, Confirmed
<1>10. Signed'
  <2> SUFFICES ASSUME NEW s \in Sig
               PROVE  IF s =< signed'
                      THEN /\ txs'[s].state # "unsigned"
                           /\ txs'[s].memo \in Memo
                           /\ txs'[s].memo.prev \in Landed' \cup {Genesis}
                      ELSE txs'[s].state = "unsigned"
    BY DEF Signed
  <2>1. CASE s = signed'
    BY <1>0, <1>2, <1>5, <1>9, <2>1
  <2>2. CASE s # signed'
    BY <1>0, <1>1, <1>2, <1>5, <2>2 DEF Tables, Signed
  <2> QED
    BY <2>1, <2>2
<1>11. \A s : IsHead(s) <=> IsHead(s)'
  BY DEF IsHead, With
<1>12. ASSUME NEW n \in Confirmed
       PROVE  links[n].sig < signed'
  <2>1. links[n].sig \in Sig /\ txs[links[n].sig].state = "landed"
    BY DEF Tables, ConfirmedIsOnLedger, Landed
  <2>2. links[n].sig =< signed
    BY <2>1 DEF Tables, Signed
  <2> QED
    BY <1>0, <1>1, <2>1, <2>2
<1> QED
  BY <1>1, <1>2, <1>4, <1>7, <1>8, <1>10, <1>11, <1>12 DEF Tables

(* A transaction settles, the worker's or an older one. *)
LEMMA SettleKeeps ==
    ASSUME TypeOK, Tables, Hand, NEW s \in Sig, NEW state \in TxState,
           state # "unsigned", Settle(s, state), UNCHANGED <<links, at, memo, sig>>
    PROVE  Tables' /\ Hand'
<1>0. txs \in [Sig -> [state : TxState, memo : Memo \cup {NoMemo}]]
  BY DEF TypeOK, ClusterTypeOK
<1>1. /\ txs[s].state = "sent" /\ txs'[s].state = state
      /\ \A t \in Sig : txs'[t].memo = txs[t].memo
      /\ \A t \in Sig : t # s => txs'[t] = txs[t]
      /\ signed' = signed
  BY <1>0 DEF Settle
<1>2. Landed \subseteq Landed'
  BY <1>1 DEF Landed
<1>3. Confirmed' = Confirmed /\ (\A n : Before(n)' = Before(n))
  BY DEF Confirmed, With, Before
<1>4. ConfirmedIsOnLedger'
  BY <1>1, <1>2, <1>3 DEF Tables, ConfirmedIsOnLedger, Landed
<1>5. PrevIsHead' /\ RowsFill'
  BY <1>3 DEF Tables, PrevIsHead, RowsFill
<1>6. Signed'
  <2> SUFFICES ASSUME NEW t \in Sig
               PROVE  IF t =< signed'
                      THEN /\ txs'[t].state # "unsigned"
                           /\ txs'[t].memo \in Memo
                           /\ txs'[t].memo.prev \in Landed' \cup {Genesis}
                      ELSE txs'[t].state = "unsigned"
    BY DEF Signed
  <2>1. CASE t = s
    BY <1>1, <1>2, <2>1 DEF Tables, Signed
  <2>2. CASE t # s
    BY <1>1, <1>2, <2>2 DEF Tables, Signed
  <2> QED
    BY <2>1, <2>2
<1>7. InHand'
  BY DEF Hand, InHand, IsHead, With
<1>8. Newest'
  BY <1>1, <1>3 DEF Hand, Newest
<1> QED
  BY <1>4, <1>5, <1>6, <1>7, <1>8 DEF Tables, Hand

(* The link in hand is recorded as confirmed. *)
LEMMA TablesConfirm ==
    ASSUME TypeOK, Tables, Hand, at = "confirming",
           MarkConfirmed(memo.n, sig, memo.prev), UNCHANGED <<txs, signed, memo>>
    PROVE  Tables'
<1>0. /\ links \in [Num -> Row] /\ memo \in Memo /\ memo.n \in Num
      /\ sig \in Landed /\ txs[sig].memo = memo
      /\ \A n \in Confirmed : links[n].sig < sig
      /\ IsHead(memo.prev)
      /\ links[memo.n].status = "pending" /\ links[memo.n].act = memo.act
  BY DEF TypeOK, StoreTypeOK, Hand, InHand, Newest, Landed, Memo
<1>1. /\ links'[memo.n].status = "confirmed"
      /\ links'[memo.n].act = links[memo.n].act
      /\ links'[memo.n].sig = sig
      /\ links'[memo.n].prev = memo.prev
  BY <1>0 DEF MarkConfirmed, Row
<1>2. \A n \in Num : n # memo.n => links'[n] = links[n]
  BY <1>0 DEF MarkConfirmed
<1>3. memo.n \notin Confirmed /\ Confirmed \subseteq Num
  BY <1>0 DEF Confirmed, With
<1>4. Confirmed' = Confirmed \cup {memo.n}
  BY <1>0, <1>1, <1>2, <1>3 DEF Confirmed, With
<1>5. Landed' = Landed
  BY DEF Landed
<1>6. ConfirmedIsOnLedger'
  <2>1. [n |-> memo.n, act |-> memo.act, prev |-> memo.prev] = memo
    BY <1>0 DEF Memo
  <2> SUFFICES ASSUME NEW n \in Confirmed'
               PROVE  /\ links'[n].sig \in Landed'
                      /\ txs'[links'[n].sig].memo
                            = [n |-> n, act |-> links'[n].act, prev |-> links'[n].prev]
    BY DEF ConfirmedIsOnLedger
  <2>2. CASE n = memo.n
    BY <1>0, <1>1, <1>5, <2>1, <2>2
  <2>3. CASE n # memo.n
    BY <1>2, <1>3, <1>4, <1>5, <2>3 DEF Tables, ConfirmedIsOnLedger
  <2> QED
    BY <2>2, <2>3
<1>7. PrevIsHead'
  <2>b. \A s \in Landed : s \in Int
    BY BoundsAssumption DEF Landed
  <2>0. (\A n \in Confirmed : links[n].sig \in Int) /\ sig \in Int
    BY <1>0, <2>b DEF Tables, ConfirmedIsOnLedger
  <2>a. \A n \in Confirmed : n # memo.n /\ links'[n] = links[n]
    BY <1>2, <1>3
  <2>1. Before(memo.n)' = Confirmed
    BY <1>0, <1>1, <1>4, <2>0, <2>a DEF Before
  <2>2. ASSUME NEW n \in Confirmed
        PROVE  Before(n)' = Before(n)
    <3>1. ~(sig < links[n].sig) /\ links'[n].sig = links[n].sig
      BY <1>0, <2>0, <2>a
    <3>2. \A k \in Confirmed : links'[k].sig = links[k].sig
      BY <2>a
    <3> QED
      BY <1>1, <1>3, <1>4, <3>1, <3>2 DEF Before
  <2> SUFFICES ASSUME NEW n \in Confirmed'
               PROVE  \/ Before(n)' = {} /\ links'[n].prev = Genesis
                      \/ \E m \in Before(n)' :
                            /\ \A k \in Before(n)' : k =< m
                            /\ links'[n].prev = links'[m].sig
    BY DEF PrevIsHead
  <2>3. CASE n = memo.n
    <3>1. links'[n].prev = memo.prev /\ Before(n)' = Confirmed
      BY <1>1, <2>1, <2>3
    <3>2. CASE Confirmed = {} /\ memo.prev = Genesis
      BY <3>1, <3>2
    <3>3. CASE \E m \in Confirmed : (\A k \in Confirmed : k =< m) /\ memo.prev = links[m].sig
      BY <2>a, <3>1, <3>3
    <3> QED
      BY <1>0, <3>2, <3>3 DEF IsHead, Confirmed
  <2>4. CASE n # memo.n
    <3>1. n \in Confirmed /\ links'[n] = links[n]
      BY <1>2, <1>3, <1>4, <2>4
    <3>2. Before(n)' = Before(n) /\ Before(n) \subseteq Confirmed
      BY <2>2, <3>1 DEF Before
    <3>3. \A m \in Before(n) : links'[m] = links[m]
      BY <1>2, <1>3, <3>2
    <3> QED
      BY <3>1, <3>2, <3>3 DEF Tables, PrevIsHead
  <2> QED
    BY <2>3, <2>4
<1>8. RowsFill'
  BY <1>0, <1>1, <1>2 DEF Tables, RowsFill
<1>9. Signed'
  BY <1>5 DEF Tables, Signed
<1> QED
  BY <1>6, <1>7, <1>8, <1>9 DEF Tables

(* The link in hand is recorded as failed. *)
LEMMA TablesFail ==
    ASSUME TypeOK, Tables, Hand, at \in InHandAt,
           MarkFailed(memo.n), UNCHANGED <<txs, signed>>
    PROVE  Tables'
<1>0. /\ links \in [Num -> Row] /\ memo.n \in Num
      /\ links[memo.n].status = "pending"
  BY DEF TypeOK, StoreTypeOK, Hand, InHand, InHandAt, Memo
<1>1. /\ links'[memo.n].status = "failed"
      /\ links'[memo.n].act = links[memo.n].act
  BY <1>0 DEF MarkFailed, Row
<1>2. \A n \in Num : n # memo.n => links'[n] = links[n]
  BY <1>0 DEF MarkFailed
<1>3. memo.n \notin Confirmed /\ Confirmed \subseteq Num
  BY <1>0 DEF Confirmed, With
<1>4. Confirmed' = Confirmed /\ Landed' = Landed
  BY <1>0, <1>1, <1>2, <1>3 DEF Confirmed, With, Landed
<1>5. \A n \in Confirmed : links'[n] = links[n] /\ Before(n)' = Before(n)
  BY <1>2, <1>3, <1>4 DEF Before
<1>6. ConfirmedIsOnLedger'
  BY <1>4, <1>5 DEF Tables, ConfirmedIsOnLedger
<1>7. PrevIsHead'
  BY <1>4, <1>5 DEF Tables, PrevIsHead, Before
<1>8. RowsFill'
  BY <1>0, <1>1, <1>2 DEF Tables, RowsFill
<1>9. Signed'
  BY <1>4 DEF Tables, Signed
<1> QED
  BY <1>6, <1>7, <1>8, <1>9 DEF Tables

(* The process only runs on a table that holds the pledge, and a visitor's *)
(* request only while it runs.                                             *)
LEMMA AdmittedNext ==
    ASSUME TypeOK, RowsFill, Admitted, [Next]_vars
    PROVE  Admitted'
<1> USE DEF storeVars, clusterVars, workerVars, processVars
<1>0. links \in [Num -> Row] /\ visit \in [Visitors -> Visit] /\ 0 \in Num
  BY BoundsAssumption DEF TypeOK, StoreTypeOK
<1>a. UNCHANGED links => Stored' = Stored
  BY DEF Stored
<1>b. \A n \in Num : \A act : links' = [links EXCEPT ![n] = NewRow(act)]
                             => Stored' = Stored \cup {n}
  BY <1>0 DEF Stored, NewRow, NoRow
<1>c. InsertGenesis => 0 \in Stored' /\ Stored \subseteq Stored'
  <2>1. Stored # {} => 0 \in Stored
    BY <1>0, BoundsAssumption DEF Stored, RowsFill
  <2> QED
    BY <1>0, <1>a, <1>b, <2>1 DEF InsertGenesis
\* a step that keeps rows, the process and the requests
<1>d. Stored \subseteq Stored' /\ UNCHANGED <<mode, visit>> => Admitted'
  BY DEF Admitted
<1>1. CASE Start
  BY <1>1, <1>c DEF Start, Admitted
<1>2. CASE StartFails
  BY <1>2, <1>c, <1>d DEF StartFails
<1>3. CASE Shutdown
  BY <1>3, <1>a DEF Shutdown, Admitted
<1>4. CASE Exit \/ ExitAnyway \/ Crash
  BY <1>4, <1>a DEF Exit, ExitAnyway, Crash, Down, Admitted
<1>5. ASSUME NEW v \in Visitors, NEW act \in Acts, AddCheck(v, act) PROVE Admitted'
  BY <1>5, <1>0, <1>a DEF AddCheck, Admitted
<1>6. ASSUME NEW v \in Visitors,
             AddCapacity(v) \/ AddInsertFails(v) \/ AddEnqueue(v)
      PROVE  Admitted'
  <2>1. visit[v] # NoVisit
    BY <1>6 DEF AddCapacity, AddInsertFails, AddEnqueue, NoVisit
  <2>2. \A w \in Visitors : visit'[w] = NoVisit \/ visit'[w].act = visit[w].act
    BY <1>6, <1>0 DEF AddCapacity, AddInsertFails, AddEnqueue, Visit
  <2>3. \A w \in Visitors : visit'[w] # NoVisit => visit[w] # NoVisit
    BY <1>6, <1>0, <2>1 DEF AddCapacity, AddInsertFails, AddEnqueue
  <2>4. UNCHANGED <<links, mode>>
    BY <1>6 DEF AddCapacity, AddInsertFails, AddEnqueue
  <2> QED
    BY <1>a, <2>2, <2>3, <2>4 DEF Admitted
<1>7. ASSUME NEW v \in Visitors, AddInsert(v) PROVE Admitted'
  <2>1. visit[v] # NoVisit
    BY <1>7 DEF AddInsert, NoVisit
  <2>2. \A w \in Visitors : /\ visit'[w] # NoVisit => visit[w] # NoVisit
                            /\ visit'[w].act = visit[w].act
    BY <1>7, <1>0, <2>1 DEF AddInsert, Visit
  <2>3. Stored \subseteq Stored' /\ UNCHANGED mode
    BY <1>7, <1>b DEF AddInsert, Insert
  <2> QED
    BY <2>2, <2>3 DEF Admitted
<1>8. CASE WorkerStep
  <2>1. CASE Confirm \/ Fail
    <3>1. Stored \subseteq Stored'
      <4>1. \A n \in Num : \/ links'[n] = links[n]
                         \/ links'[n].status \in {"confirmed", "failed"}
        <5> SUFFICES ASSUME NEW n \in Num
                     PROVE  \/ links'[n] = links[n]
                            \/ links'[n].status \in {"confirmed", "failed"}
          OBVIOUS
        <5>1. links[n] \in Row
          BY <1>0
        <5>2. CASE n = memo.n
          <6>1. CASE Confirm
            <7>1. MarkConfirmed(memo.n, sig, memo.prev)
              BY <6>1 DEF Confirm
            <7>2. links'[memo.n].status = "confirmed"
              BY <1>0, <5>1, <5>2, <7>1 DEF MarkConfirmed, Row
            <7> QED
              BY <5>2, <7>2
          <6>2. CASE Fail
            <7>1. MarkFailed(memo.n)
              BY <6>2 DEF Fail
            <7>2. links'[memo.n].status = "failed"
              BY <1>0, <5>1, <5>2, <7>1 DEF MarkFailed, Row
            <7> QED
              BY <5>2, <7>2
          <6> QED
            BY <2>1, <6>1, <6>2
        <5>3. CASE n # memo.n
          BY <1>0, <2>1, <5>3 DEF Confirm, Fail, MarkConfirmed, MarkFailed
        <5> QED
          BY <5>2, <5>3
      <4> QED
        BY <4>1 DEF Stored
    <3> QED
      BY <1>d, <2>1, <3>1 DEF Confirm, Fail
  <2>2. CASE ~(Confirm \/ Fail)
    BY <1>8, <1>a, <1>d, <2>2 DEF WorkerStep, TakeNext, SendRefused, SendFails, Submit, SeeConfirmed,
       SeeRejected, SeeExpired, GiveUp, NotRecorded, PublishStats, Retry, StopWaiting, StopIdle,
       AttemptFailed
  <2> QED
    BY <2>1, <2>2
<1>9. CASE \/ TakeFails \/ DeadlinePasses \/ SubmitFails \/ GiveUpEarly
           \/ RecordFails \/ StatsFail \/ NodeStops \/ NodeRecovers \/ TimePasses
  BY <1>9, <1>a, <1>d DEF TakeFails, DeadlinePasses, SubmitFails, GiveUpEarly, RecordFails,
     StatsFail, NodeStops, NodeRecovers, TimePasses, AttemptFailed
<1>10. ASSUME NEW s \in Sig, ClusterSettles(s) \/ BlockhashExpires(s) PROVE Admitted'
  BY <1>10, <1>a, <1>d DEF ClusterSettles, BlockhashExpires
<1>11. CASE UNCHANGED vars
  BY <1>11, <1>a, <1>d DEF vars
<1> QED
  BY <1>1, <1>2, <1>3, <1>4, <1>5, <1>6, <1>7, <1>8, <1>9, <1>10, <1>11
  DEF Next, HandlerStep

(* Every step keeps what is durable.                                       *)
LEMMA DurableNext == Durable /\ [Next]_vars => Durable'
<1> SUFFICES ASSUME TypeOK, Tables, Hand, [Next]_vars PROVE Tables' /\ Hand'
  <2>1. TypeOK /\ Tables /\ Admitted /\ [Next]_vars => Admitted'
    BY AdmittedNext DEF Tables
  <2> QED
    BY <2>1, TypeNext, DurableParts, PTL
<1> USE DEF storeVars, clusterVars, workerVars, processVars
\* steps that touch neither the tables nor the link in hand
<1>a. UNCHANGED <<links, txs, signed, at, memo, sig>> => Tables' /\ Hand'
  BY TablesFrame, HandFrame
\* steps after which the worker has no link in hand
<1>b. UNCHANGED <<links, txs, signed>> /\ at' \notin InHandAt => Tables' /\ Hand'
  BY TablesFrame, HandEmpty
\* steps of a worker that keeps its link and waits for nothing
<1>c. /\ UNCHANGED <<links, txs, signed, memo>>
      /\ at \in InHandAt /\ at' \notin {"waiting", "confirming"}
      => Tables' /\ Hand'
  BY TablesFrame, HandMoves
<1>d. AllActs = Acts \cup {PledgeAct} /\ 0 \in Num
  BY BoundsAssumption DEF AllActs
\* the pledge is inserted into an empty table, or nothing is
<1>e. InsertGenesis => \/ UNCHANGED links
                       \/ /\ IsNextNumber(0)
                          /\ links' = [links EXCEPT ![0] = NewRow(PledgeAct)]
  BY <1>d DEF InsertGenesis, IsNextNumber
<1>1. CASE Start
  <2>1. InsertGenesis /\ UNCHANGED <<txs, signed>> /\ at' \notin InHandAt
    BY <1>1 DEF Start, Rest, InHandAt
  <2> QED
    BY <1>b, <1>d, <1>e, <2>1, TablesInsert, HandEmpty
<1>2. CASE StartFails
  <2>1. InsertGenesis /\ UNCHANGED <<txs, signed, at, memo, sig>>
    BY <1>2 DEF StartFails
  <2> QED
    BY <1>a, <1>d, <1>e, <2>1, TablesInsert, HandInsert
<1>3. CASE Shutdown
  BY <1>3, <1>a DEF Shutdown
<1>4. CASE Exit \/ ExitAnyway \/ Crash
  BY <1>4, <1>b DEF Exit, ExitAnyway, Crash, Down, Rest, InHandAt
<1>5. ASSUME NEW v \in Visitors, NEW act \in Acts, AddCheck(v, act) PROVE Tables' /\ Hand'
  BY <1>5, <1>a DEF AddCheck
<1>6. ASSUME NEW v \in Visitors, AddCapacity(v) PROVE Tables' /\ Hand'
  BY <1>6, <1>a DEF AddCapacity
<1>7. ASSUME NEW v \in Visitors, AddInsert(v) PROVE Tables' /\ Hand'
  <2>1. visit[v].act \in AllActs
    BY DEF TypeOK, Visit
  <2>2. PICK n \in Num : Insert(n, visit[v].act)
    BY <1>7 DEF AddInsert
  <2>3. UNCHANGED <<txs, signed, at, memo, sig>>
    BY <1>7 DEF AddInsert
  <2> QED
    BY <2>1, <2>2, <2>3, TablesInsert, HandInsert DEF Insert
<1>8. ASSUME NEW v \in Visitors, AddInsertFails(v) PROVE Tables' /\ Hand'
  BY <1>8, <1>a DEF AddInsertFails
<1>9. ASSUME NEW v \in Visitors, AddEnqueue(v) PROVE Tables' /\ Hand'
  BY <1>9, <1>a DEF AddEnqueue
<1>10. CASE TakeNext
  <2>1. UNCHANGED <<links, txs, signed>>
    BY <1>10 DEF TakeNext
  <2>2. CASE links[Head(queue)].status = "pending"
    <3>1. /\ at' = "sending"
          /\ \E s \in Prev : /\ IsHead(s)
                             /\ memo' = [n |-> Head(queue), act |-> links[Head(queue)].act,
                                         prev |-> s]
      BY <1>10, <2>2 DEF TakeNext
    <3>2. Head(queue) \in Num
      <4>1. queue \in Seq(Num) /\ queue # <<>> /\ Len(queue) =< QueueSize
        BY <1>10 DEF TakeNext, TypeOK
      <4> QED
        BY <4>1, BoundsAssumption, ServiceAssumption
    <3>3. links[Head(queue)].act \in AllActs
      BY <3>2 DEF TypeOK, StoreTypeOK, Row
    <3>4. InHand'
      BY <2>1, <2>2, <3>1, <3>2, <3>3, TablesFrame DEF InHand, Memo
    <3> QED
      BY <2>1, <3>1, <3>4, TablesFrame DEF Hand, Newest
  <2>3. CASE links[Head(queue)].status # "pending"
    BY <1>10, <1>a, <2>3 DEF TakeNext
  <2> QED
    BY <2>2, <2>3
<1>11. CASE TakeFails \/ DeadlinePasses
  BY <1>11, <1>a DEF TakeFails, DeadlinePasses
<1>12. CASE SendRefused \/ SeeRejected \/ Retry
  BY <1>12, <1>c DEF SendRefused, SeeRejected, Retry, Sees, InHandAt
<1>13. CASE SendFails \/ SeeExpired \/ GiveUp \/ GiveUpEarly
  <2>1. UNCHANGED <<links, txs, signed, memo>> /\ at' \in {"pausing", "backoff"}
    BY <1>13 DEF SendFails, SeeExpired, GiveUp, GiveUpEarly, AttemptFailed
  <2>2. at \in InHandAt
    BY <1>13 DEF SendFails, SeeExpired, GiveUp, GiveUpEarly, Sees, InHandAt
  <2> QED
    BY <1>c, <2>1, <2>2
<1>14. CASE SubmitFails
  <2>1. at \in InHandAt /\ Sign(memo) /\ UNCHANGED <<links, memo>>
    BY <1>14 DEF SubmitFails, CanSend, AttemptFailed, InHandAt
  <2>2. at' \in {"pausing", "backoff"}
    BY <1>14 DEF SubmitFails, AttemptFailed
  <2> QED
    BY <2>1, <2>2, TablesSign DEF Hand, InHand, Newest, InHandAt
<1>15. CASE Submit
  <2>1. at \in InHandAt /\ Sign(memo) /\ UNCHANGED <<links, memo>>
    BY <1>15 DEF Submit, CanSend, InHandAt
  <2>2. at' = "waiting" /\ sig' = signed'
    BY <1>15 DEF Submit
  <2> QED
    BY <2>1, <2>2, TablesSign DEF Hand, InHand, Newest, InHandAt
<1>16. CASE SeeConfirmed
  <2>1. UNCHANGED <<links, txs, signed, memo, sig>> /\ at' = "confirming"
    BY <1>16 DEF SeeConfirmed
  <2>2. at = "waiting" /\ txs[sig].state = "landed"
    BY <1>16 DEF SeeConfirmed, Sees
  <2> QED
    BY <2>1, <2>2, TablesFrame DEF Hand, InHand, Newest
<1>17. CASE Confirm
  <2>1. /\ at = "confirming" /\ MarkConfirmed(memo.n, sig, memo.prev)
        /\ UNCHANGED <<txs, signed, memo>> /\ at' \notin InHandAt
    BY <1>17 DEF Confirm, InHandAt
  <2> QED
    BY <2>1, TablesConfirm, HandEmpty
<1>18. CASE Fail
  <2>1. /\ at \in InHandAt /\ MarkFailed(memo.n)
        /\ UNCHANGED <<txs, signed>> /\ at' \notin InHandAt
    BY <1>18 DEF Fail, InHandAt
  <2> QED
    BY <2>1, TablesFail, HandEmpty
<1>19. CASE NotRecorded \/ RecordFails \/ StopWaiting \/ StopIdle
  BY <1>19, <1>b DEF NotRecorded, RecordFails, StopWaiting, StopIdle, Rest, InHandAt
<1>20. CASE PublishStats \/ StatsFail
  <2>1. UNCHANGED <<links, txs, signed>> /\ AfterStats
    BY <1>20 DEF PublishStats, StatsFail
  <2> QED
    BY <1>b, <1>c, <2>1 DEF AfterStats, Rest, InHandAt
<1>21. ASSUME NEW s \in Sig, ClusterSettles(s) \/ BlockhashExpires(s)
       PROVE  Tables' /\ Hand'
  <2>1. UNCHANGED <<links, at, memo, sig>>
    BY <1>21 DEF ClusterSettles, BlockhashExpires
  <2>2. \E state \in {"landed", "rejected", "expired"} : Settle(s, state)
    BY <1>21 DEF ClusterSettles, BlockhashExpires, Land, Reject, Expire
  <2> QED
    BY <2>1, <2>2, SettleKeeps DEF TxState
<1>22. CASE NodeStops \/ NodeRecovers
  BY <1>22, <1>a DEF NodeStops, NodeRecovers, Outage, Recover
<1>23. CASE TimePasses
  BY <1>23, <1>a DEF TimePasses
<1>24. CASE UNCHANGED vars
  BY <1>24, <1>a DEF vars
<1> QED
  BY <1>1, <1>2, <1>3, <1>4, <1>5, <1>6, <1>7, <1>8, <1>9, <1>10, <1>11, <1>12,
     <1>13, <1>14, <1>15, <1>16, <1>17, <1>18, <1>19, <1>20, <1>21, <1>22, <1>23, <1>24
  DEF Next, HandlerStep, WorkerStep

(* A row stays and keeps its sentence. *)
LEMMA RowsStay ==
    ASSUME TypeOK, [Next]_vars, NEW n \in Num, links[n].status # "none"
    PROVE  links'[n].status # "none" /\ links'[n].act = links[n].act
<1>0. links \in [Num -> Row] /\ links[n] \in Row
  BY DEF TypeOK, StoreTypeOK
<1> USE DEF storeVars, clusterVars, workerVars, processVars
<1>1. CASE Start \/ StartFails
  BY <1>1 DEF Start, StartFails, InsertGenesis, Stored
<1>2. ASSUME NEW v \in Visitors, AddInsert(v)
      PROVE  links'[n] = links[n]
  <2>1. PICK m \in Num : Insert(m, visit[v].act)
    BY <1>2 DEF AddInsert
  <2>2. m # n
    BY <2>1 DEF Insert, IsNextNumber, Stored
  <2> QED
    BY <1>0, <2>1, <2>2 DEF Insert
<1>3. CASE Confirm
  <2>1. MarkConfirmed(memo.n, sig, memo.prev)
    BY <1>3 DEF Confirm
  <2>2. CASE n = memo.n
    BY <1>0, <2>1, <2>2 DEF MarkConfirmed, Row
  <2>3. CASE n # memo.n
    BY <1>0, <2>1, <2>3 DEF MarkConfirmed
  <2> QED
    BY <2>2, <2>3
<1>4. CASE Fail
  <2>1. MarkFailed(memo.n)
    BY <1>4 DEF Fail
  <2>2. CASE n = memo.n
    BY <1>0, <2>1, <2>2 DEF MarkFailed, Row
  <2>3. CASE n # memo.n
    BY <1>0, <2>1, <2>3 DEF MarkFailed
  <2> QED
    BY <2>2, <2>3
<1>5. CASE \/ Shutdown \/ Exit \/ ExitAnyway \/ Crash \/ TakeNext \/ TakeFails
           \/ DeadlinePasses \/ SendRefused \/ SendFails \/ Submit \/ SubmitFails
           \/ SeeConfirmed \/ SeeRejected \/ SeeExpired \/ GiveUp \/ GiveUpEarly
           \/ NotRecorded \/ RecordFails \/ PublishStats \/ StatsFail \/ Retry
           \/ StopWaiting \/ StopIdle \/ NodeStops \/ NodeRecovers \/ TimePasses
           \/ \E s \in Sig : ClusterSettles(s) \/ BlockhashExpires(s)
           \/ \E v \in Visitors :
                 \/ \E act \in Acts : AddCheck(v, act)
                 \/ AddCapacity(v) \/ AddEnqueue(v) \/ AddInsertFails(v)
           \/ UNCHANGED vars
  <2>1. UNCHANGED links
    BY <1>5
    DEF Shutdown, Exit, ExitAnyway, Crash, Down, TakeNext, TakeFails, DeadlinePasses,
        SendRefused, SendFails, Submit, SubmitFails, SeeConfirmed, SeeRejected, SeeExpired,
        GiveUp, GiveUpEarly, NotRecorded, RecordFails, PublishStats, StatsFail, Retry,
        StopWaiting, StopIdle, NodeStops, NodeRecovers, TimePasses, ClusterSettles,
        BlockhashExpires, AddCheck, AddCapacity, AddEnqueue, AddInsertFails, AttemptFailed,
        vars
  <2> QED
    BY <2>1
<1> QED
  BY <1>1, <1>2, <1>3, <1>4, <1>5 DEF Next, HandlerStep, WorkerStep

(* A transaction is signed over the memo in hand and keeps it. *)
LEMMA SignedRowsNext ==
    ASSUME IInv, [Next]_vars
    PROVE  SignedRows'
<1>0. /\ TypeOK /\ InHand /\ Signed /\ SignedRows
      /\ txs \in [Sig -> [state : TxState, memo : Memo \cup {NoMemo}]]
      /\ signed \in 0 .. MaxSends
  BY DEF IInv, Durable, TypeOK, ClusterTypeOK
<1>a. ASSUME NEW s \in Sig, s =< signed
      PROVE  /\ links'[txs[s].memo.n].status # "none"
             /\ links'[txs[s].memo.n].act = txs[s].memo.act
  <2>1. txs[s].memo.n \in Num
    BY <1>0, <1>a DEF Signed, Memo
  <2> QED
    BY <1>0, <1>a, <2>1, RowsStay DEF SignedRows
<1>b. ASSUME signed' = signed, \A s \in Sig : txs'[s].memo = txs[s].memo
      PROVE  SignedRows'
  BY <1>a, <1>b DEF SignedRows
<1> USE DEF storeVars, clusterVars, workerVars, processVars
<1>1. CASE Submit \/ SubmitFails
  <2>1. at = "sending" /\ Sign(memo) /\ UNCHANGED links
    BY <1>1 DEF Submit, SubmitFails, CanSend, AttemptFailed
  <2>2. links[memo.n].status # "none" /\ links[memo.n].act = memo.act
    BY <1>0, <2>1 DEF InHand
  <2>3. signed' = signed + 1
    BY <2>1 DEF Sign
  <2>4. ASSUME NEW s \in Sig, s =< signed'
        PROVE  /\ links'[txs'[s].memo.n].status # "none"
               /\ links'[txs'[s].memo.n].act = txs'[s].memo.act
    <3>1. CASE s = signed'
      BY <1>0, <2>1, <2>2, <3>1 DEF Sign
    <3>2. CASE s # signed'
      <4>1. txs'[s] = txs[s] /\ s =< signed
        BY <1>0, <2>1, <2>3, <2>4, <3>2 DEF Sign
      <4> QED
        BY <1>a, <4>1
    <3> QED
      BY <3>1, <3>2
  <2> QED
    BY <2>4 DEF SignedRows
<1>2. ASSUME NEW s \in Sig, ClusterSettles(s) \/ BlockhashExpires(s)
      PROVE  SignedRows'
  <2>1. signed' = signed /\ \E state : txs' = [txs EXCEPT ![s].state = state]
    BY <1>2 DEF ClusterSettles, BlockhashExpires, Land, Reject, Expire, Settle
  <2> QED
    BY <1>0, <1>b, <2>1
<1>3. CASE \/ Start \/ StartFails \/ Shutdown \/ Exit \/ ExitAnyway \/ Crash \/ TakeNext
           \/ TakeFails \/ DeadlinePasses \/ SendRefused \/ SendFails
           \/ SeeConfirmed \/ SeeRejected \/ SeeExpired \/ GiveUp \/ GiveUpEarly
           \/ Confirm \/ Fail \/ NotRecorded \/ RecordFails \/ PublishStats \/ StatsFail
           \/ Retry \/ StopWaiting \/ StopIdle \/ NodeStops \/ NodeRecovers \/ TimePasses
           \/ \E v \in Visitors :
                 \/ \E act \in Acts : AddCheck(v, act)
                 \/ HandlerStep(v) \/ AddInsertFails(v)
           \/ UNCHANGED vars
  <2>1. UNCHANGED <<txs, signed>>
    BY <1>3
    DEF Start, StartFails, Shutdown, Exit, ExitAnyway, Crash, Down, TakeNext, TakeFails,
        DeadlinePasses, SendRefused, SendFails, SeeConfirmed, SeeRejected, SeeExpired,
        GiveUp, GiveUpEarly, Confirm, Fail, NotRecorded, RecordFails, PublishStats,
        StatsFail, Retry, StopWaiting, StopIdle, NodeStops, NodeRecovers, Outage, Recover,
        TimePasses, AddCheck, HandlerStep, AddCapacity, AddInsert, AddEnqueue,
        AddInsertFails, AttemptFailed, vars
  <2> QED
    BY <1>b, <2>1
<1> QED
  BY <1>1, <1>2, <1>3 DEF Next, WorkerStep

LEMMA INext == IInv /\ [Next]_vars => IInv'
BY DurableNext, SignedRowsNext DEF IInv

(* The inductive invariant holds in every reachable state. *)
THEOREM Invariant == Spec => []IInv
BY IInit, INext, PTL DEF Spec

LEMMA DurableHolds == Spec => []Durable
<1>1. IInv => Durable
  BY DEF IInv
<1> QED
  BY <1>1, Invariant, PTL

(* However crashes, late answers, lost records and visitors fall, a row is *)
(* only ever confirmed by a memo that is on the ledger and says the same.  *)
THEOREM LedgerAgrees == Spec => []ConfirmedIsOnLedger
<1>1. IInv => ConfirmedIsOnLedger
  BY DEF IInv, Durable
<1> QED
  BY <1>1, Invariant, PTL

(* Every memo on record points at what was the head when it was confirmed. *)
THEOREM PointsAtHead == Spec => []PrevIsHead
<1>1. IInv => PrevIsHead
  BY DEF IInv, Durable
<1> QED
  BY <1>1, Invariant, PTL
-----------------------------------------------------------------------------
(* The server implements PublicChain *)

USE DEF Public!Num, Public!Sig, Public!Genesis, Public!NoSig, Public!Prev, Prev

PublicLedger == [s \in Sig |-> IF txs[s].state = "landed" THEN txs[s].memo ELSE NoMemo]

LEMMA PublicHead == \A s : IsHead(s) <=> Public!HeadOfChain(s)
BY DEF IsHead, Public!HeadOfChain, Public!Recorded, With

LEMMA PublicStart == Init => Public!PublicInit
BY DEF Init, StoreInit, ClusterInit, Public!PublicInit, Public!Absent, NoRow, Public!NoMemo, NoMemo

(* Adding a row is the abstract Admit. *)
LEMMA PublicAdmit ==
    ASSUME IInv, NEW n \in Num, NEW act \in AllActs, IsNextNumber(n),
           links' = [links EXCEPT ![n] = NewRow(act)], UNCHANGED <<txs, signed>>
    PROVE  Public!Admit(n, act)
<1>0. links \in [Num -> Row] /\ RowsFill
  BY DEF IInv, Durable, TypeOK, StoreTypeOK
<1>1. links[n] = Public!Absent
  BY <1>0 DEF IsNextNumber, Stored, RowsFill, Public!Absent, NoRow
<1>2. ASSUME NEW m \in Num
      PROVE  m < n <=> links[m] # Public!Absent
  <2>1. links[m] # Public!Absent <=> m \in Stored
    BY <1>0 DEF RowsFill, Stored, Public!Absent, NoRow
  <2>2. m \in Stored => m < n
    BY DEF IsNextNumber
  <2>3. m < n => m \in Stored
    BY <1>0, BoundsAssumption DEF IsNextNumber, RowsFill, Stored
  <2> QED
    BY <2>1, <2>2, <2>3
<1>3. NewRow(act) = [Public!Absent EXCEPT !.status = "pending", !.act = act]
  BY DEF NewRow, NoRow, Public!Absent
<1> QED
  BY <1>1, <1>2, <1>3 DEF Public!Admit

(* A transaction that lands is the abstract Write. *)
LEMMA PublicWrite ==
    ASSUME IInv, NEW s \in Sig, Land(s), UNCHANGED links
    PROVE  \E n \in Num, p \in Prev : Public!Write(s, n, p)
<1>0. /\ txs \in [Sig -> [state : TxState, memo : Memo \cup {NoMemo}]]
      /\ txs[s].state = "sent"
      /\ txs' = [txs EXCEPT ![s].state = "landed"]
  BY DEF IInv, Durable, TypeOK, ClusterTypeOK, Land, Settle
<1>1. /\ txs[s].memo \in Memo
      /\ links[txs[s].memo.n].status # "none"
      /\ links[txs[s].memo.n].act = txs[s].memo.act
      /\ txs[s].memo.prev \in Landed \cup {Genesis}
  BY <1>0 DEF IInv, Durable, Signed, SignedRows
<1>2. ASSUME NEW t \in Landed
      PROVE  PublicLedger[t] # NoMemo
  BY BoundsAssumption DEF IInv, Durable, Signed, Landed, PublicLedger, Memo, NoMemo
<1> DEFINE m == txs[s].memo
<1>4. m = [n |-> m.n, act |-> links[m.n].act, prev |-> m.prev]
  BY <1>1 DEF Memo
<1>5. PublicLedger' = [PublicLedger EXCEPT ![s] = m]
  BY <1>0 DEF PublicLedger
<1>6. PublicLedger[s] = NoMemo
  BY <1>0 DEF PublicLedger
<1>7. links[m.n] # Public!Absent
  BY <1>1 DEF Public!Absent
<1>8. m.prev \in Public!OnLedger \cup {Genesis}
  BY <1>1, <1>2 DEF Public!OnLedger, PublicLedger, Landed, Public!NoMemo, NoMemo
<1>9. PICK n \in Num, p \in Prev : n = m.n /\ p = m.prev
  BY <1>1 DEF Memo
<1>10. Public!Write(s, n, p)
  BY <1>4, <1>5, <1>6, <1>7, <1>8, <1>9 DEF Public!Write, PublicLedger, Public!NoMemo, NoMemo
<1> QED
  BY <1>10

(* Recording the outcome is the abstract Record or Refuse. *)
LEMMA PublicRecord ==
    ASSUME IInv, at = "confirming", MarkConfirmed(memo.n, sig, memo.prev), UNCHANGED txs
    PROVE  \E n \in Num, s \in Sig : Public!Record(n, s)
<1>1. /\ memo \in Memo /\ memo.n \in Num /\ sig \in Sig
      /\ txs[sig].state = "landed" /\ txs[sig].memo = memo
      /\ IsHead(memo.prev)
      /\ \A n \in Confirmed : links[n].sig < sig
  BY DEF IInv, Durable, InHand, Newest, Memo
<1>2. PublicLedger[sig] = memo /\ PublicLedger' = PublicLedger
  BY <1>1 DEF PublicLedger
<1>3. sig \in Public!OnLedger
  BY <1>1, <1>2, BoundsAssumption DEF Public!OnLedger, PublicLedger, Public!NoMemo, Memo
<1>4. Public!Recorded = Confirmed
  BY DEF Public!Recorded, Confirmed, With
<1>5. Public!Record(memo.n, sig)
  BY <1>1, <1>2, <1>3, <1>4, PublicHead DEF Public!Record, PublicLedger, MarkConfirmed
<1> QED
  BY <1>1, <1>5

LEMMA PublicStep == IInv /\ [Next]_vars => [Public!PublicNext]_(Public!publicVars)
<1> SUFFICES ASSUME IInv, [Next]_vars
             PROVE  Public!PublicNext \/ UNCHANGED <<links, PublicLedger>>
  BY DEF Public!publicVars, PublicLedger
<1> USE DEF storeVars, clusterVars, workerVars, processVars
<1>a. UNCHANGED <<links, txs>> => UNCHANGED <<links, PublicLedger>>
  BY DEF PublicLedger
<1>b. 0 \in Num /\ PledgeAct \in AllActs
  BY BoundsAssumption DEF AllActs
<1>c. ASSUME InsertGenesis, UNCHANGED <<txs, signed>>
      PROVE  Public!PublicNext \/ UNCHANGED <<links, PublicLedger>>
  <2>1. CASE Stored = {}
    <3>1. IsNextNumber(0) /\ links' = [links EXCEPT ![0] = NewRow(PledgeAct)]
      BY <1>b, <1>c, <2>1 DEF InsertGenesis, IsNextNumber
    <3> QED
      BY <1>b, <1>c, <3>1, PublicAdmit DEF Public!PublicNext
  <2>2. CASE Stored # {}
    BY <1>a, <1>c, <2>2 DEF InsertGenesis
  <2> QED
    BY <2>1, <2>2
\* a transaction that was not on the ledger is not on it afterwards
<1>d. \A s \in Sig : \A m : txs[s].state = "sent" /\ Settle(s, m) /\ m # "landed"
                         => UNCHANGED PublicLedger
  BY DEF Settle, PublicLedger, IInv, Durable, TypeOK, ClusterTypeOK
<1>e. Sign(memo) => UNCHANGED PublicLedger
  <2> SUFFICES ASSUME Sign(memo) PROVE UNCHANGED PublicLedger
    OBVIOUS
  <2>1. signed + 1 \in Sig /\ txs[signed + 1].state = "unsigned"
    BY BoundsAssumption DEF Sign, IInv, Durable, TypeOK, ClusterTypeOK, Signed
  <2> QED
    BY <2>1 DEF Sign, PublicLedger, IInv, Durable, TypeOK, ClusterTypeOK
<1>1. CASE Start \/ StartFails
  BY <1>1, <1>c DEF Start, StartFails
<1>2. CASE Exit \/ ExitAnyway \/ Crash \/ Shutdown
  BY <1>2, <1>a DEF Exit, ExitAnyway, Crash, Down, Shutdown
<1>3. ASSUME NEW v \in Visitors,
             \/ \E act \in Acts : AddCheck(v, act)
             \/ AddCapacity(v) \/ AddInsertFails(v) \/ AddEnqueue(v)
      PROVE  UNCHANGED <<links, PublicLedger>>
  BY <1>3, <1>a DEF AddCheck, AddCapacity, AddInsertFails, AddEnqueue
<1>4. ASSUME NEW v \in Visitors, AddInsert(v) PROVE Public!PublicNext
  <2>1. PICK n \in Num : Insert(n, visit[v].act)
    BY <1>4 DEF AddInsert
  <2>2. visit[v].act \in Acts /\ visit[v].act \in AllActs
    BY <1>4 DEF AddInsert, IInv, Durable, Admitted, AllActs, NoVisit
  <2>4. n # 0
    BY <1>4, <2>1 DEF AddInsert, IInv, Durable, Admitted, NoVisit, Insert, IsNextNumber
  <2>3. Public!Admit(n, visit[v].act)
    BY <1>4, <2>1, <2>2, PublicAdmit DEF Insert, AddInsert
  <2> QED
    BY <2>2, <2>3, <2>4 DEF Public!PublicNext
<1>5. CASE \/ TakeNext \/ TakeFails \/ DeadlinePasses \/ SendRefused \/ SendFails
           \/ SeeConfirmed \/ SeeRejected \/ SeeExpired \/ GiveUp \/ GiveUpEarly
           \/ NotRecorded \/ RecordFails \/ PublishStats \/ StatsFail
           \/ Retry \/ StopWaiting \/ StopIdle
  BY <1>5, <1>a DEF TakeNext, TakeFails, DeadlinePasses, SendRefused, SendFails, SeeConfirmed,
     SeeRejected, SeeExpired, GiveUp, GiveUpEarly, NotRecorded, RecordFails, PublishStats,
     StatsFail, Retry, StopWaiting, StopIdle, AttemptFailed
<1>6. CASE Submit \/ SubmitFails
  BY <1>6, <1>e DEF Submit, SubmitFails, AttemptFailed
<1>7. CASE Confirm
  BY <1>7, PublicRecord DEF Confirm, Public!PublicNext
<1>8. CASE Fail
  <2>1. memo.n \in Num
    BY <1>8 DEF Fail, IInv, Durable, InHand, Memo
  <2>2. Public!Refuse(memo.n)
    BY <1>8, <1>a DEF Fail, MarkFailed, Public!Refuse, PublicLedger
  <2> QED
    BY <2>1, <2>2 DEF Public!PublicNext
<1>9. ASSUME NEW s \in Sig, ClusterSettles(s) \/ BlockhashExpires(s)
      PROVE  Public!PublicNext \/ UNCHANGED <<links, PublicLedger>>
  <2>1. CASE Land(s)
    BY <1>9, <2>1, PublicWrite DEF ClusterSettles, BlockhashExpires, Public!PublicNext
  <2>2. CASE Reject(s) \/ Expire(s)
    BY <1>9, <1>d, <2>2 DEF ClusterSettles, BlockhashExpires, Reject, Expire, Settle
  <2> QED
    BY <1>9, <2>1, <2>2 DEF ClusterSettles, BlockhashExpires
<1>10. CASE NodeStops \/ NodeRecovers \/ TimePasses
  BY <1>10, <1>a DEF NodeStops, NodeRecovers, TimePasses, Outage, Recover
<1>11. CASE UNCHANGED vars
  BY <1>11, <1>a DEF vars
<1> QED
  BY <1>1, <1>2, <1>3, <1>4, <1>5, <1>6, <1>7, <1>8, <1>9, <1>10, <1>11
  DEF Next, HandlerStep, WorkerStep

(* The server with all its failures implements the public chain: numbers   *)
(* without gaps, memos that repeat a link and point at the ledger, links   *)
(* settled once and only by what the ledger has.                           *)
THEOREM Implements == Spec => KeepsItsPromise
<1>1. Init => Public!PublicInit
  BY PublicStart
<1>2. IInv /\ [Next]_vars => [Public!PublicNext]_(Public!publicVars)
  BY PublicStep
<1> QED
  BY <1>1, <1>2, Invariant, PTL DEF Spec, KeepsItsPromise, Public!PublicSpec
-----------------------------------------------------------------------------
(* What follows of some invariants, where trouble of some kinds is left    *)
(* out: the store works and no link takes the five minutes it has.         *)
Unhindered == "store" \notin Events /\ "deadline" \notin Events

LEMMA NoHindrance ==
    ASSUME Unhindered
    PROVE  /\ ~Trouble("store") /\ ~Trouble("deadline")
           /\ ~(StartFails \/ TakeFails \/ RecordFails \/ StatsFail \/ DeadlinePasses)
           /\ \A v \in Visitors : ~AddInsertFails(v)
BY DEF Unhindered, Trouble, StartFails, TakeFails, RecordFails, StatsFail, DeadlinePasses,
       AddInsertFails
=============================================================================
