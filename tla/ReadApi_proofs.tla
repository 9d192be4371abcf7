---------------------------- MODULE ReadApi_proofs ----------------------------
(***************************************************************************)
(* Theorems about what those who only read can rely on, for any number of  *)
(* visitors, links and transactions: the comparison of handleVerify, the   *)
(* numbers the pages are told, what a walk finds, and, as long as the      *)
(* worker sees every transaction through to its end, the memos on the      *)
(* ledger.                                                                 *)
(***************************************************************************)
EXTENDS ReadApi, ChainService_proofs, FiniteSetTheorems

USE DEF Num, Sig, Genesis, NoSig, Prev,
        Public!Num, Public!Sig, Public!Genesis, Public!NoSig, Public!Prev

(* A row is stored, then settled once; a settled row stays as it is.       *)
LEMMA RowsMove ==
    ASSUME IInv, [Next]_vars, NEW n \in Num
    PROVE  \/ links'[n] = links[n]
           \/ links[n].status = "none" /\ links'[n].status = "pending"
           \/ links[n].status = "pending" /\ links'[n].status \in {"confirmed", "failed"}
<1>0. links \in [Num -> Row]
  BY DEF IInv, Durable, TypeOK, StoreTypeOK
<1>1. [Public!PublicNext]_(Public!publicVars)
  BY PublicStep
<1>2. CASE UNCHANGED Public!publicVars
  BY <1>2 DEF Public!publicVars
<1>3. ASSUME NEW m \in Num, NEW act, Public!Admit(m, act)
      PROVE  links'[n] = links[n] \/ (links[n].status = "none" /\ links'[n].status = "pending")
  BY <1>0, <1>3 DEF Public!Admit, Public!Absent
<1>4. CASE \E s \in Sig, m \in Num, prev \in Prev : Public!Write(s, m, prev)
  BY <1>4 DEF Public!Write
<1>5. ASSUME NEW m \in Num, NEW s, Public!Record(m, s) \/ Public!Refuse(m)
      PROVE  \/ links'[n] = links[n]
             \/ links[n].status = "pending" /\ links'[n].status \in {"confirmed", "failed"}
  <2>1. \A k \in Num : k # m => links'[k] = links[k]
    BY <1>0, <1>5 DEF Public!Record, Public!Refuse
  <2>2. links[m].status = "pending" /\ links[m] \in Row
    BY <1>0, <1>5 DEF Public!Record, Public!Refuse
  <2>3. links'[m].status \in {"confirmed", "failed"}
    <3>1. CASE Public!Record(m, s)
      BY <1>0, <2>2, <3>1 DEF Public!Record, Row
    <3>2. CASE Public!Refuse(m)
      BY <1>0, <2>2, <3>2 DEF Public!Refuse, Row
    <3> QED
      BY <1>5, <3>1, <3>2
  <2> QED
    BY <2>1, <2>2, <2>3
<1>6. 0 \in Num
  BY BoundsAssumption
<1> QED
  BY <1>1, <1>2, <1>3, <1>4, <1>5, <1>6 DEF Public!PublicNext

LEMMA CountedStays ==
    ASSUME UNCHANGED links
    PROVE  Counted' = Counted
BY DEF Counted, With
-----------------------------------------------------------------------------
(* Verify *)

ReaderTypeOK ==
    reader \in [at : {"none", "counted", "headed", "answered", "row"},
                counted : SUBSET Num, pending : SUBSET Num, head : Prev, paused : BOOLEAN,
                row : Row, n : Num \cup {-1}]

(* The row handleVerify has read is still the one in the table.            *)
RowHeld ==
    /\ ReaderTypeOK
    /\ reader.at = "row" => reader.n \in Confirmed /\ reader.row = links[reader.n]

LEMMA NoReaderTypes ==
    /\ NoReader \in [at : {"none", "counted", "headed", "answered", "row"},
                     counted : SUBSET Num, pending : SUBSET Num, head : Prev, paused : BOOLEAN,
                     row : Row, n : Num \cup {-1}]
    /\ NoReader.at = "none"
BY DEF NoReader, NoRow, Row, Status, AllActs

LEMMA RowHeldNext ==
    ASSUME IInv, RowHeld, [ReadNext]_readVars
    PROVE  RowHeld'
<1>0. /\ ReaderTypeOK
      /\ Counted \subseteq Num /\ PendingLinks \subseteq Num /\ paused \in BOOLEAN
      /\ links \in [Num -> Row]
  BY DEF RowHeld, Counted, PendingLinks, With, IInv, Durable, TypeOK, StoreTypeOK
<1>1. ASSUME reader' \in {reader, NoReader}, \A n \in Confirmed : links'[n] = links[n]
      PROVE  RowHeld'
  <2>1. CASE reader' = reader
    BY <1>0, <1>1, <2>1 DEF RowHeld, ReaderTypeOK, Confirmed, With
  <2>2. CASE reader' = NoReader
    BY <2>2, NoReaderTypes DEF RowHeld, ReaderTypeOK
  <2> QED
    BY <1>1, <2>1, <2>2
<1>2. CASE ServerStep
  <2>1. \A n \in Confirmed : links'[n] = links[n]
    <3>1. [Next]_vars
      BY <1>2 DEF ServerStep
    <3> QED
      BY <3>1, RowsMove DEF Confirmed, With
  <2>2. reader' \in {reader, NoReader}
    BY <1>2 DEF ServerStep
  <2> QED
    BY <1>1, <2>1, <2>2
<1>3. CASE ReadCounts \/ ReadHead \/ ReadPaused
  <2>1. ReaderTypeOK' /\ reader'.at \in {"counted", "headed", "answered"}
    <3>1. CASE ReadCounts
      BY <1>0, <3>1, NoReaderTypes DEF ReadCounts, ReaderTypeOK
    <3>2. CASE ReadHead
      BY <1>0, <3>2 DEF ReadHead, ReaderTypeOK
    <3>3. CASE ReadPaused
      BY <1>0, <3>3 DEF ReadPaused, ReaderTypeOK
    <3> QED
      BY <1>3, <3>1, <3>2, <3>3
  <2> QED
    BY <2>1 DEF RowHeld
<1>4. CASE Lookup
  <2>1. PICK n \in Confirmed : reader' = [NoReader EXCEPT !.at = "row", !.row = links[n], !.n = n]
    BY <1>4 DEF Lookup
  <2>2. n \in Num /\ links[n] \in Row /\ UNCHANGED links
    BY <1>0, <1>4 DEF Lookup, vars, storeVars, Confirmed, With
  <2>3. ReaderTypeOK' /\ reader'.row = links[n] /\ reader'.n = n
    BY <2>1, <2>2, NoReaderTypes DEF ReaderTypeOK
  <2> QED
    BY <2>2, <2>3 DEF RowHeld, Confirmed, With
<1>5. CASE Done \/ ClusterReset \/ UNCHANGED readVars
  <2>1. reader' \in {reader, NoReader} /\ UNCHANGED links
    BY <1>5 DEF Done, ClusterReset, readVars, vars, storeVars
  <2> QED
    BY <1>1, <2>1
<1> QED
  BY <1>2, <1>3, <1>4, <1>5 DEF ReadNext

LEMMA ReadersOnlyRead == ReadSpec => Spec
<1>1. ReadInit => Init
  BY DEF ReadInit
<1>2. [ReadNext]_readVars => [Next]_vars
  BY DEF ReadNext, ServerStep, ClusterReset, ReadCounts, ReadHead, ReadPaused, Lookup, Done, readVars
<1> QED
  BY <1>1, <1>2, PTL DEF ReadSpec, Spec

(* A visitor who asks /api/verify is never told that the chain differs     *)
(* from the link, and that the transaction is not known only after the     *)
(* cluster was reset: whatever fails, a row is confirmed with the memo     *)
(* that is on the ledger, and neither changes after that.                  *)
THEOREM VerifyAgrees == ReadSpec => []VerifyNeverDiffers
<1>1. ReadInit => RowHeld
  BY NoReaderTypes DEF ReadInit, RowHeld, ReaderTypeOK
<1>2. IInv /\ RowHeld => VerifyNeverDiffers
  <2> SUFFICES ASSUME IInv, RowHeld, reader.at = "row"
               PROVE  Verdict = "matches" \/ (Verdict = "unknown" /\ gone # {})
    BY DEF VerifyNeverDiffers
  <2>1. /\ reader.row = links[reader.n]
        /\ reader.row.sig \in Landed
        /\ txs[reader.row.sig].memo
             = [n |-> reader.n, act |-> reader.row.act, prev |-> reader.row.prev]
    BY DEF RowHeld, IInv, Durable, ConfirmedIsOnLedger
  <2> QED
    BY <2>1 DEF Verdict, Readable
<1>3. IInv /\ RowHeld /\ [ReadNext]_readVars => RowHeld'
  BY RowHeldNext
<1>4. ReadSpec => []IInv
  BY ReadersOnlyRead, Invariant, PTL
<1> QED
  BY <1>1, <1>2, <1>3, <1>4, PTL DEF ReadSpec
-----------------------------------------------------------------------------
(* The memos on the ledger, as long as the worker watches every            *)
(* transaction to its end: the process is only ever stopped in good order, *)
(* the node answers, the store works and no link takes its five minutes.   *)
(* Without this a transaction can land unnoticed.                          *)
Watched == Events \subseteq {"shutdown", "expire", "day"}

(* A transaction under way is the one the worker waits for, and one that   *)
(* landed is on record or about to be.                                     *)
OnRecord(s) ==
    links[txs[s].memo.n].status = "confirmed" /\ links[txs[s].memo.n].sig = s

Accounted ==
    \A s \in Sig :
        /\ txs[s].state = "sent" => at = "waiting" /\ s = sig
        /\ txs[s].state = "landed" =>
              OnRecord(s) \/ (at \in {"waiting", "confirming"} /\ s = sig)

WatchInv ==
    /\ ~expired /\ reachable
    /\ mode = "down" => at = "stopped"
    /\ Accounted

(* Steps that neither send nor take the worker away from its transaction.  *)
LEMMA AccountedFrame ==
    ASSUME IInv, Accounted, txs' = txs,
           at \in {"waiting", "confirming"} => UNCHANGED <<at, sig>>,
           \A n \in Num : links[n].status = "confirmed" => links'[n] = links[n]
    PROVE  Accounted'
<1>1. ASSUME NEW s \in Sig, txs[s].state = "landed"
      PROVE  txs[s].memo.n \in Num
  BY <1>1 DEF IInv, Durable, Signed, Memo
<1> QED
  BY <1>1 DEF Accounted, OnRecord

LEMMA WatchNext ==
    ASSUME Watched, IInv, WatchInv, [Next]_vars
    PROVE  WatchInv'
<1>0. /\ TypeOK /\ Hand /\ Signed /\ Accounted
      /\ ~expired /\ reachable /\ (mode = "down" => at = "stopped")
      /\ \A kind : Trouble(kind) => kind \in {"shutdown", "expire", "day"}
  BY DEF IInv, Durable, Hand, WatchInv, Watched, Trouble
<1>a. \A n \in Num : links[n].status = "confirmed" => links'[n] = links[n]
  BY RowsMove
<1> USE DEF storeVars, clusterVars, workerVars, processVars, Rest
<1>1. CASE Start
  BY <1>0, <1>1, <1>a, AccountedFrame DEF Start, WatchInv
<1>2. CASE \/ StartFails \/ ExitAnyway \/ Crash \/ TakeFails \/ DeadlinePasses \/ SubmitFails
           \/ GiveUpEarly \/ RecordFails \/ StatsFail \/ NodeStops
           \/ \E v \in Visitors : AddInsertFails(v)
  <2>1. CASE StartFails \/ TakeFails \/ RecordFails \/ StatsFail \/ \E v \in Visitors : AddInsertFails(v)
    <3>1. Trouble("store")
      BY <2>1 DEF StartFails, TakeFails, RecordFails, StatsFail, AddInsertFails
    <3> QED
      BY <1>0, <3>1
  <2>2. CASE ExitAnyway
    BY <1>0, <2>2 DEF ExitAnyway
  <2>3. CASE Crash
    BY <1>0, <2>3 DEF Crash
  <2>4. CASE DeadlinePasses
    <3>1. Trouble("deadline")
      BY <2>4 DEF DeadlinePasses
    <3> QED
      BY <1>0, <3>1
  <2>5. CASE SubmitFails \/ GiveUpEarly
    <3>1. Trouble("answer")
      BY <2>5 DEF SubmitFails, GiveUpEarly
    <3> QED
      BY <1>0, <3>1
  <2>6. CASE NodeStops
    BY <1>0, <2>6 DEF NodeStops
  <2> QED
    BY <1>2, <2>1, <2>2, <2>3, <2>4, <2>5, <2>6
<1>3. CASE Exit
  BY <1>0, <1>3, <1>a, AccountedFrame DEF Exit, Down, WatchInv
<1>4. CASE \/ Shutdown \/ TimePasses \/ UNCHANGED vars
           \/ \E v \in Visitors : \/ \E act \in Acts : AddCheck(v, act)
                                 \/ HandlerStep(v)
  <2>1. UNCHANGED <<txs, at, sig, expired, reachable>> /\ (mode' = mode \/ mode' # "down")
    BY <1>4
    DEF Shutdown, TimePasses, AddCheck, HandlerStep, AddCapacity, AddInsert, AddEnqueue, vars
  <2> QED
    BY <1>0, <1>a, <2>1, AccountedFrame DEF WatchInv
<1>5. CASE \/ TakeNext \/ SendRefused \/ Fail \/ PublishStats \/ Retry \/ StopWaiting \/ StopIdle
  <2>1. /\ at \notin {"waiting", "confirming", "stopped"}
        /\ UNCHANGED <<txs, reachable, mode>> /\ expired' \in {expired, FALSE}
    BY <1>5
    DEF TakeNext, SendRefused, Fail, PublishStats, AfterStats, Retry, StopWaiting, StopIdle
  <2>2. ~expired'
    BY <1>0, <2>1, Zenon
  <2>3. mode' # "down"
    BY <1>0, <2>1
  <2>4. Accounted'
    BY <1>0, <1>a, <2>1, AccountedFrame
  <2> QED
    BY <1>0, <2>1, <2>2, <2>3, <2>4 DEF WatchInv
<1>6. CASE SendFails \/ GiveUp
  BY <1>0, <1>6 DEF SendFails, GiveUp
<1>7. CASE NotRecorded
  BY <1>0, <1>7 DEF NotRecorded, Hand, InHand
<1>8. CASE Submit
  <2>1. /\ at = "sending" /\ at' = "waiting" /\ sig' = signed + 1
        /\ txs' = [txs EXCEPT ![signed + 1] = [state |-> "sent", memo |-> memo]]
        /\ UNCHANGED <<links, expired, reachable, mode>>
    BY <1>8 DEF Submit, CanSend, Sign
  <2>2. \A s \in Sig : /\ s # signed + 1 => txs'[s] = txs[s]
                       /\ s = signed + 1 => txs'[s].state = "sent"
    BY <1>0, <2>1 DEF TypeOK, ClusterTypeOK
  <2>3. Accounted'
    BY <1>0, <2>1, <2>2 DEF Accounted, OnRecord
  <2> QED
    BY <1>0, <2>1, <2>3 DEF WatchInv
<1>9. CASE SeeConfirmed \/ SeeRejected \/ SeeExpired
  <2>1. /\ at = "waiting" /\ UNCHANGED <<links, txs, expired, reachable, mode>>
        /\ \/ txs[sig].state = "landed" /\ at' = "confirming" /\ sig' = sig
           \/ txs[sig].state \in {"rejected", "expired"}
    BY <1>9 DEF SeeConfirmed, SeeRejected, SeeExpired, Sees, AttemptFailed
  <2>2. Accounted'
    BY <1>0, <2>1 DEF Accounted, OnRecord
  <2> QED
    BY <1>0, <2>1, <2>2 DEF WatchInv
<1>10. CASE Confirm
  <2>1. /\ at = "confirming" /\ MarkConfirmed(memo.n, sig, memo.prev)
        /\ UNCHANGED <<txs, expired, reachable, mode>>
    BY <1>10 DEF Confirm
  <2>2. sig \in Sig /\ txs[sig].memo = memo /\ memo.n \in Num
    BY <1>0, <2>1 DEF Hand, InHand, Newest, Memo
  <2>3. links'[memo.n].status = "confirmed" /\ links'[memo.n].sig = sig
    <3>1. links \in [Num -> Row] /\ links[memo.n] \in Row
      BY <1>0, <2>2 DEF TypeOK, StoreTypeOK
    <3> QED
      BY <2>1, <2>2, <3>1 DEF MarkConfirmed, Row
  <2>4. ASSUME NEW s \in Sig, txs[s].state = "landed" PROVE OnRecord(s)'
    <3>1. CASE s = sig
      BY <2>1, <2>2, <2>3, <3>1 DEF OnRecord
    <3>2. CASE s # sig
      <4>1. OnRecord(s) /\ txs[s].memo.n \in Num
        BY <1>0, <2>4, <3>2 DEF Accounted, Signed, Memo
      <4> QED
        BY <1>a, <2>1, <4>1 DEF OnRecord
    <3> QED
      BY <3>1, <3>2
  <2>5. Accounted'
    BY <1>0, <2>1, <2>4 DEF Accounted
  <2> QED
    BY <1>0, <2>1, <2>5 DEF WatchInv
<1>11. ASSUME NEW s \in Sig, ClusterSettles(s) \/ BlockhashExpires(s) PROVE WatchInv'
  <2>1. /\ txs[s].state = "sent"
        /\ \E state \in {"landed", "rejected", "expired"} : txs' = [txs EXCEPT ![s].state = state]
        /\ UNCHANGED <<links, at, sig, expired, reachable, mode>>
    BY <1>11 DEF ClusterSettles, BlockhashExpires, Land, Reject, Expire, Settle
  <2>2. at = "waiting" /\ s = sig
    BY <1>0, <2>1 DEF Accounted
  <2>3. \A t \in Sig : t # s => txs'[t] = txs[t]
    BY <1>0, <2>1 DEF TypeOK, ClusterTypeOK
  <2>4. txs'[s].state # "sent"
    BY <1>0, <2>1 DEF TypeOK, ClusterTypeOK
  <2>5. Accounted'
    BY <1>0, <2>1, <2>2, <2>3, <2>4 DEF Accounted, OnRecord
  <2> QED
    BY <1>0, <2>1, <2>5 DEF WatchInv
<1>12. CASE NodeRecovers
  BY <1>0, <1>12 DEF NodeRecovers, Recover
<1> QED
  BY <1>1, <1>2, <1>3, <1>4, <1>5, <1>6, <1>7, <1>8, <1>9, <1>10, <1>11, <1>12
  DEF Next, WorkerStep

LEMMA WatchedInvariant == ASSUME Watched PROVE Spec => [](IInv /\ WatchInv)
<1>1. Init => WatchInv
  BY DEF Init, ClusterInit, WatchInv, Accounted
<1>2. IInv /\ WatchInv /\ [Next]_vars => WatchInv'
  BY WatchNext
<1> QED
  BY <1>1, <1>2, Invariant, PTL DEF Spec

(* The donation is counted from the memos: while the worker watches every  *)
(* transaction to its end, no link ever gets a second one, however often   *)
(* its blockhash expires and its memo is sent again, and whenever the      *)
(* process is stopped and started (sendMemo's retries in process).         *)
THEOREM OneMemoIfWatched == ASSUME Watched PROVE Spec => []OneMemoPerLink
<1>1. IInv /\ WatchInv => OneMemoPerLink
  <2> SUFFICES ASSUME IInv, WatchInv, NEW s \in Landed, NEW t \in Landed,
                      txs[s].memo.n = txs[t].memo.n
               PROVE  s = t
    BY DEF OneMemoPerLink
  <2>1. ASSUME NEW r \in Landed
        PROVE  \/ OnRecord(r)
               \/ r = sig /\ links[txs[r].memo.n].status = "pending"
    BY DEF WatchInv, Accounted, Landed, IInv, Durable, InHand, Newest
  <2> QED
    BY <2>1 DEF OnRecord
<1> QED
  BY <1>1, WatchedInvariant, PTL

(* And a link that was given up as refused is not on the ledger.           *)
THEOREM FailedNotOnChainIfWatched == ASSUME Watched PROVE Spec => []FailedNotOnChain
<1>1. IInv /\ WatchInv => FailedNotOnChain
  BY DEF FailedNotOnChain, WatchInv, Accounted, OnRecord, Landed, IInv, Durable, InHand, Newest
<1> QED
  BY <1>1, WatchedInvariant, PTL
-----------------------------------------------------------------------------
(* What the pages are told, whatever else fails, as long as the store      *)
(* works and no link takes its five minutes: publishStats skips its event  *)
(* without a word when it cannot read the counts.                          *)

\* Where the worker still owes the pages the numbers.
Owing == {"stopped", "pausing", "announcing"}

Told ==
    /\ ~expired
    /\ at \notin Owing => published = StatsNow

LEMMA SameStats ==
    ASSUME UNCHANGED paused,
           \A n \in Num : links'[n].status = "confirmed" <=> links[n].status = "confirmed"
    PROVE  StatsNow' = StatsNow
<1>1. Counted' = Counted
  BY DEF Counted, With
<1> QED
  BY <1>1 DEF StatsNow

LEMMA ToldNext ==
    ASSUME Unhindered, IInv, Told, [Next]_vars
    PROVE  Told'
<1>0. /\ links \in [Num -> Row] /\ 0 \in Num
      /\ ~expired
      /\ at \notin Owing => published = StatsNow
  BY BoundsAssumption DEF IInv, Durable, TypeOK, StoreTypeOK, Told
<1>a. ASSUME UNCHANGED <<paused, published>>,
             \A n \in Num : links'[n].status = "confirmed" <=> links[n].status = "confirmed",
             at' \in Owing \/ at \notin Owing,
             ~expired'
      PROVE  Told'
  BY <1>0, <1>a, SameStats DEF Told
<1> USE DEF storeVars, clusterVars, workerVars, processVars, Rest
<1>1. CASE Start
  <2>1. \A n \in Num : links'[n].status = "confirmed" <=> links[n].status = "confirmed"
    BY <1>0, <1>1 DEF Start, InsertGenesis, NewRow, NoRow, Stored
  <2>2. published' = StatsNow /\ UNCHANGED paused /\ expired' = FALSE
    BY <1>1 DEF Start
  <2>3. StatsNow' = StatsNow
    BY <2>1, <2>2, SameStats
  <2> QED
    BY <2>2, <2>3 DEF Told
<1>2. CASE \/ StartFails \/ TakeFails \/ RecordFails \/ StatsFail \/ DeadlinePasses
           \/ \E v \in Visitors : AddInsertFails(v)
  BY <1>2, NoHindrance
<1>3. CASE Exit \/ ExitAnyway \/ Crash
  BY <1>3 DEF Exit, ExitAnyway, Crash, Down, Told, Owing
<1>4. ASSUME NEW v \in Visitors, AddInsert(v) PROVE Told'
  <2>1. PICK n \in Num : Insert(n, visit[v].act)
    BY <1>4 DEF AddInsert
  <2>2. \A m \in Num : links'[m].status = "confirmed" <=> links[m].status = "confirmed"
    BY <1>0, <2>1 DEF Insert, IsNextNumber, Stored, NewRow, NoRow
  <2> QED
    BY <1>0, <1>4, <1>a, <2>2 DEF AddInsert
<1>5. CASE \/ Shutdown \/ TakeNext \/ SendRefused \/ Submit \/ SeeConfirmed \/ SeeRejected
           \/ NotRecorded \/ Retry \/ StopWaiting \/ StopIdle
           \/ NodeStops \/ NodeRecovers \/ TimePasses \/ UNCHANGED vars
           \/ \E s \in Sig : ClusterSettles(s) \/ BlockhashExpires(s)
           \/ \E v \in Visitors :
                 \/ \E act \in Acts : AddCheck(v, act)
                 \/ AddCapacity(v) \/ AddEnqueue(v)
  <2>1. UNCHANGED <<links, paused, published>>
    BY <1>5
    DEF Shutdown, TakeNext, SendRefused, Submit, SeeConfirmed, SeeRejected, NotRecorded, Retry,
        StopWaiting, StopIdle, NodeStops, NodeRecovers, TimePasses, ClusterSettles,
        BlockhashExpires, AddCheck, AddCapacity, AddEnqueue, vars
  <2>2. at' = at \/ at \notin Owing
    BY <1>5
    DEF Shutdown, TakeNext, SendRefused, Submit, CanSend, SeeConfirmed, SeeRejected, Sees,
        NotRecorded, Retry, StopWaiting, StopIdle, NodeStops, NodeRecovers, TimePasses,
        ClusterSettles, BlockhashExpires, AddCheck, AddCapacity, AddEnqueue, vars, Owing
  <2>3. expired' = expired \/ expired' = FALSE
    BY <1>5
    DEF Shutdown, TakeNext, SendRefused, Submit, SeeConfirmed, SeeRejected, NotRecorded, Retry,
        StopWaiting, StopIdle, NodeStops, NodeRecovers, TimePasses, ClusterSettles,
        BlockhashExpires, AddCheck, AddCapacity, AddEnqueue, vars
  <2>4. ~expired'
    BY <1>0, <2>3, Zenon
  <2> QED
    BY <1>a, <2>1, <2>2, <2>4
<1>6. CASE SendFails \/ SubmitFails \/ SeeExpired \/ GiveUp \/ GiveUpEarly
  <2>1. AttemptFailed /\ at \in {"sending", "waiting"}
    BY <1>6 DEF SendFails, SubmitFails, CanSend, SeeExpired, Sees, GiveUp, GiveUpEarly
  <2>2. UNCHANGED <<links, published, expired>> /\ (at' = "pausing" \/ UNCHANGED paused)
    BY <2>1 DEF AttemptFailed
  <2>3. CASE at' = "pausing"
    BY <1>0, <2>2, <2>3 DEF Told, Owing
  <2>4. CASE UNCHANGED paused
    BY <1>0, <1>a, <2>1, <2>2, <2>4 DEF Owing
  <2> QED
    BY <2>2, <2>3, <2>4
<1>7. CASE Confirm \/ Fail
  BY <1>0, <1>7 DEF Confirm, Fail, Told, Owing
<1>8. CASE PublishStats
  <2>1. published' = StatsNow /\ UNCHANGED <<links, paused>>
    BY <1>0, <1>8 DEF PublishStats
  <2>2. StatsNow' = StatsNow
    BY <2>1, SameStats
  <2>3. expired' = expired \/ expired' = FALSE
    BY <1>8 DEF PublishStats, AfterStats
  <2>4. ~expired'
    BY <1>0, <2>3, Zenon
  <2>5. published' = StatsNow'
    BY <2>1, <2>2
  <2> QED
    BY <2>4, <2>5 DEF Told
<1> QED
  BY <1>1, <1>2, <1>3, <1>4, <1>5, <1>6, <1>7, <1>8 DEF Next, HandlerStep, WorkerStep

(* Between two links a page that stays connected knows the count and the   *)
(* flag as they are in the store, through crashes, restarts, outages and   *)
(* lost answers: the count changes only in confirm and the flag only there *)
(* and in sendMemo, and the worker does not go on before it has published. *)
THEOREM PagesAreTold == ASSUME Unhindered PROVE Spec => []StatsCurrent
<1>1. Init => Told
  BY DEF Init, Told, Owing
<1>2. IInv /\ Told /\ [Next]_vars => Told'
  BY ToldNext
<1>3. Told => StatsCurrent
  BY DEF Told, Owing, StatsCurrent
<1> QED
  BY <1>1, <1>2, <1>3, Invariant, PTL DEF Spec
-----------------------------------------------------------------------------
(* The walk *)

(* A set of numbers has a least one: the induction of this module.         *)
LEMMA Least ==
    ASSUME NEW T \in SUBSET Nat, T # {}
    PROVE  \E x \in T : \A y \in T : x =< y
<1> DEFINE F == {0 .. x : x \in T}
           R == StrictSubsetOrdering(Nat)
<1>1. F \subseteq FiniteSubsetsOf(Nat) /\ F # {}
  <2>1. \A x \in T : IsFiniteSet(0 .. x) /\ 0 .. x \in SUBSET Nat
    BY FS_Interval
  <2> QED
    BY <2>1 DEF FiniteSubsetsOf
<1>2. IsWellFoundedOn(R, FiniteSubsetsOf(Nat))
  BY FS_StrictSubsetOrderingWellFounded
<1>3. \E S \in F : \A U \in F : ~ (<<U, S>> \in R)
  <2> HIDE DEF F, R
  <2> QED
    BY <1>1, <1>2, WFMin
<1>4. PICK x \in T : \A y \in T : ~ (<<0 .. y, 0 .. x>> \in R)
  BY <1>3
<1>5. ASSUME NEW y \in T, y < x PROVE FALSE
  <2>1. 0 .. y \in SUBSET Nat /\ 0 .. x \in SUBSET Nat
    OBVIOUS
  <2>2. 0 .. y \subseteq 0 .. x /\ x \in 0 .. x /\ x \notin 0 .. y
    BY <1>5
  <2>3. <<0 .. y, 0 .. x>> \in R
    BY <2>1, <2>2 DEF StrictSubsetOrdering
  <2> QED
    BY <1>4, <2>3
<1> QED
  BY <1>5

(* A memo points at an older transaction: the head was on the ledger when  *)
(* the memo was made from it.                                              *)
PrevOlder == \A s \in Sig : s =< signed => txs[s].memo.prev < s

LEMMA PrevOlderNext ==
    ASSUME IInv, PrevOlder, [Next]_vars
    PROVE  PrevOlder'
<1>0. /\ txs \in [Sig -> [state : TxState, memo : Memo \cup {NoMemo}]]
      /\ signed \in 0 .. MaxSends
  BY DEF IInv, Durable, TypeOK, ClusterTypeOK
<1> USE DEF storeVars, clusterVars, workerVars, processVars
<1>1. CASE Submit \/ SubmitFails
  <2>1. Sign(memo) /\ at = "sending"
    BY <1>1 DEF Submit, SubmitFails, CanSend
  <2>2. IsHead(memo.prev)
    BY <2>1 DEF IInv, Durable, InHand
  <2>3. memo.prev = Genesis \/ memo.prev \in Landed
    BY <2>2 DEF IsHead, IInv, Durable, ConfirmedIsOnLedger, Confirmed
  <2>4. \A s \in Landed : s \in Sig /\ s =< signed
    BY <1>0 DEF Landed, IInv, Durable, Signed
  <2>5. memo.prev < signed + 1
    BY <1>0, <2>3, <2>4
  <2>6. /\ signed' = signed + 1
        /\ \A s \in Sig : IF s = signed + 1 THEN txs'[s].memo = memo ELSE txs'[s] = txs[s]
    BY <1>0, <2>1 DEF Sign
  <2> QED
    BY <1>0, <2>5, <2>6 DEF PrevOlder
<1>2. ASSUME NEW s \in Sig, ClusterSettles(s) \/ BlockhashExpires(s)
      PROVE  PrevOlder'
  <2>1. UNCHANGED signed /\ \E state : txs' = [txs EXCEPT ![s].state = state]
    BY <1>2 DEF ClusterSettles, BlockhashExpires, Land, Reject, Expire, Settle
  <2> QED
    BY <1>0, <2>1 DEF PrevOlder
<1>3. CASE \/ Start \/ StartFails \/ Shutdown \/ Exit \/ ExitAnyway \/ Crash \/ TakeNext
           \/ TakeFails \/ DeadlinePasses \/ SendRefused \/ SendFails
           \/ SeeConfirmed \/ SeeRejected \/ SeeExpired \/ GiveUp \/ GiveUpEarly
           \/ Confirm \/ Fail \/ NotRecorded \/ RecordFails \/ PublishStats \/ StatsFail
           \/ Retry \/ StopWaiting \/ StopIdle \/ NodeStops \/ NodeRecovers \/ TimePasses
           \/ \E v \in Visitors :
                 \/ \E act \in Acts : AddCheck(v, act)
                 \/ HandlerStep(v) \/ AddInsertFails(v)
           \/ UNCHANGED vars
  <2>1. UNCHANGED <<txs, signed>>
    BY <1>3
    DEF Start, StartFails, Shutdown, Exit, ExitAnyway, Crash, Down, TakeNext, TakeFails,
        DeadlinePasses, SendRefused, SendFails, SeeConfirmed, SeeRejected, SeeExpired,
        GiveUp, GiveUpEarly, Confirm, Fail, NotRecorded, RecordFails, PublishStats,
        StatsFail, Retry, StopWaiting, StopIdle, NodeStops, NodeRecovers, Outage, Recover,
        TimePasses, AddCheck, HandlerStep, AddCapacity, AddInsert, AddEnqueue,
        AddInsertFails, AttemptFailed, vars
  <2> QED
    BY <2>1 DEF PrevOlder
<1> QED
  BY <1>1, <1>2, <1>3 DEF Next, WorkerStep

(* What walk says of s, when g says what it finds below.                   *)
WalkStep(g, s) ==
    IF ~Readable(s) THEN [found |-> {}, problems |-> {"unread"}]
    ELSE LET m == txs[s].memo IN
         IF m.prev = Genesis
         THEN [found |-> {m.n}, problems |-> {p \in {"not at #0"} : m.n # 0}]
         ELSE LET below == g[m.prev] IN
              [found |-> {m.n} \cup below.found,
               problems |-> below.problems \cup
                  {p \in {"not older"} : Readable(m.prev) /\ txs[m.prev].memo.n >= m.n}]

(* The walk ends: below any signature there is a function that says what   *)
(* it finds, so Walk is one.                                               *)
LEMMA WalkUnfolds ==
    ASSUME IInv, PrevOlder
    PROVE  \A s \in Prev : Walk[s] = WalkStep(Walk, s)
<1> USE BoundsAssumption
<1> DEFINE IsWalk(g, n) == g = [s \in 0 .. n |-> WalkStep(g, s)]
           T == {n \in 0 .. MaxSends : ~ \E g : IsWalk(g, n)}
<1>1. \A s : Readable(s) => s \in Sig /\ txs[s].memo.prev \in 0 .. (s - 1)
  <2>1. \A s \in Landed : s \in Sig /\ s =< signed /\ txs[s].memo \in Memo
    BY DEF Landed, IInv, Durable, Signed
  <2>2. \A s \in Landed : txs[s].memo.prev \in Nat /\ txs[s].memo.prev < s
    BY <2>1 DEF PrevOlder, Memo
  <2> QED
    BY <2>1, <2>2 DEF Readable
<1>2. \A g, h, s : (\A r \in 0 .. (s - 1) : g[r] = h[r]) => WalkStep(g, s) = WalkStep(h, s)
  BY <1>1 DEF WalkStep
<1>3. T = {}
  <2> SUFFICES ASSUME T # {} PROVE FALSE
    OBVIOUS
  <2>1. PICK n \in T : \A k \in T : n =< k
    <3>1. T \in SUBSET Nat
      OBVIOUS
    <3> HIDE DEF T
    <3> QED
      BY <3>1, Least
  <2>2. CASE n = 0
    <3> DEFINE g == [s \in 0 .. 0 |-> [found |-> {}, problems |-> {"unread"}]]
    <3>1. \A s \in 0 .. 0 : WalkStep(g, s) = [found |-> {}, problems |-> {"unread"}]
      <4>1. \A s \in 0 .. 0 : ~Readable(s)
        BY <1>1
      <4> QED
        BY <4>1 DEF WalkStep
    <3>2. IsWalk(g, 0)
      BY <3>1
    <3> QED
      BY <2>2, <3>2
  <2>3. CASE n # 0
    <3>1. n - 1 \in 0 .. MaxSends /\ n - 1 \notin T
      BY <2>1, <2>3
    <3>2. PICK g : IsWalk(g, n - 1)
      BY <3>1
    <3> DEFINE h == [s \in 0 .. n |-> IF s < n THEN g[s] ELSE WalkStep(g, n)]
    <3>3. \A s \in 0 .. n : WalkStep(h, s) = WalkStep(g, s)
      <4> TAKE s \in 0 .. n
      <4>1. \A r \in 0 .. (s - 1) : h[r] = g[r]
        BY <2>1
      <4> HIDE DEF h
      <4> QED
        BY <1>2, <4>1
    <3>4. \A s \in 0 .. (n - 1) : g[s] = WalkStep(g, s)
      BY <3>2
    <3>5. \A s \in 0 .. n : h[s] = WalkStep(h, s)
      BY <2>1, <3>3, <3>4
    <3>6. IsWalk(h, n)
      BY <3>5
    <3> QED
      BY <2>1, <3>6
  <2> QED
    BY <2>2, <2>3
<1>4. Prev = 0 .. MaxSends
  BY BoundsAssumption
<1> DEFINE P(g) == g = [s \in Prev |-> WalkStep(g, s)]
<1>5. \E g : P(g)
  <2>1. MaxSends \in 0 .. MaxSends /\ MaxSends \notin T
    BY <1>3
  <2>2. PICK g : IsWalk(g, MaxSends)
    BY <2>1
  <2>3. P(g)
    <3>1. g = [s \in 0 .. MaxSends |-> WalkStep(g, s)]
      BY <2>2
    <3> QED
      BY <1>4, <3>1
  <2> QED
    BY <2>3
<1>6. Walk = CHOOSE g : P(g)
  BY DEF Walk, WalkStep
<1>7. P(Walk)
  <2> HIDE DEF P
  <2> QED
    BY <1>5, <1>6
<1> QED
  BY <1>7

-----------------------------------------------------------------------------
(* A link above all those written before it.  The head of the chain is     *)
(* one, and the memo of one points at another.                             *)
Record(m) == m \in Confirmed /\ \A k \in Before(m) : k < m

Clean(w) == w.problems = {} \/ (w.problems = {"unread"} /\ gone # {})

\* The memo of a confirmed link on the ledger.
LEMMA MemoOfLink ==
    ASSUME IInv, NEW m \in Confirmed
    PROVE  /\ links[m].sig \in Nat \ {0} /\ links[m].sig \in Prev /\ links[m].sig \in Landed
           /\ m \in Num /\ m \in Nat
           /\ txs[links[m].sig].memo.n = m
           /\ txs[links[m].sig].memo.prev = links[m].prev
<1>1. /\ links[m].sig \in Landed
      /\ txs[links[m].sig].memo = [n |-> m, act |-> links[m].act, prev |-> links[m].prev]
  BY DEF IInv, Durable, ConfirmedIsOnLedger
<1>2. links[m].sig \in Sig /\ m \in Num
  BY <1>1 DEF Landed, Confirmed, With
<1> QED
  BY <1>1, <1>2, BoundsAssumption

\* What walk says of it, from one signature to the next.
Unread(m) == ~Readable(links[m].sig) /\ Walk[links[m].sig].problems = {"unread"}

Bottom(m) ==
    /\ Before(m) = {}
    /\ Walk[links[m].sig].found = {m}
    /\ Walk[links[m].sig].problems = {p \in {"not at #0"} : m # 0}

Above(m, k) ==
    /\ k \in Before(m) /\ \A j \in Before(m) : j =< k
    /\ Walk[links[m].sig].found = {m} \cup Walk[links[k].sig].found
    /\ Walk[links[m].sig].problems = Walk[links[k].sig].problems \cup
          {p \in {"not older"} : Readable(links[k].sig) /\ k >= m}

LEMMA WalkFrom ==
    ASSUME IInv, PrevOlder, NEW m \in Confirmed
    PROVE  Unread(m) \/ Bottom(m) \/ \E k \in Confirmed : Above(m, k)
<1>1. Walk[links[m].sig] = WalkStep(Walk, links[m].sig)
  BY WalkUnfolds, MemoOfLink
<1>2. txs[links[m].sig].memo.n = m /\ txs[links[m].sig].memo.prev = links[m].prev
  BY MemoOfLink
<1>3. CASE ~Readable(links[m].sig)
  BY <1>1, <1>3 DEF WalkStep, Unread
<1>4. CASE Readable(links[m].sig) /\ Before(m) = {} /\ links[m].prev = Genesis
  <2> DEFINE w == Walk[links[m].sig]
             problems == {p \in {"not at #0"} : m # 0}
  <2>1. w = [found |-> {m}, problems |-> problems]
    BY <1>1, <1>2, <1>4, Zenon DEF WalkStep
  <2>2. w.found = {m} /\ w.problems = problems
    <3> HIDE DEF w, problems
    <3> QED
      BY <2>1
  <2> QED
    BY <1>4, <2>2, Zenon DEF Bottom
<1>5. ASSUME Readable(links[m].sig), NEW k \in Before(m),
             \A j \in Before(m) : j =< k, links[m].prev = links[k].sig
      PROVE  k \in Confirmed /\ Above(m, k)
  <2>1. k \in Confirmed
    BY DEF Before
  <2>2. links[k].sig # Genesis /\ txs[links[k].sig].memo.n = k
    BY <2>1, MemoOfLink
  <2> DEFINE w == Walk[links[m].sig]
             found == {m} \cup Walk[links[k].sig].found
             problems == Walk[links[k].sig].problems \cup
                            {p \in {"not older"} : Readable(links[k].sig) /\ k >= m}
  <2>3. w = [found |-> found, problems |-> problems]
    BY <1>1, <1>2, <1>5, <2>2, Zenon DEF WalkStep
  <2>4. w.found = found /\ w.problems = problems
    <3> HIDE DEF w, found, problems
    <3> QED
      BY <2>3
  <2> QED
    BY <1>5, <2>1, <2>4, Zenon DEF Above
<1>6. \/ Before(m) = {} /\ links[m].prev = Genesis
      \/ \E k \in Before(m) : (\A j \in Before(m) : j =< k) /\ links[m].prev = links[k].sig
  BY DEF IInv, Durable, PrevIsHead
<1> QED
  BY <1>3, <1>4, <1>5, <1>6

LEMMA WalkCleanFrom ==
    ASSUME IInv, PrevOlder, PledgeFirst
    PROVE  \A m \in Confirmed : Record(m) => Clean(Walk[links[m].sig])
<1> DEFINE Bad(m) == Record(m) /\ ~Clean(Walk[links[m].sig])
           T == {links[m].sig : m \in {k \in Confirmed : Bad(k)}}
<1> SUFFICES ASSUME T # {} PROVE FALSE
  OBVIOUS
<1>1. PICK m \in Confirmed : Bad(m) /\ \A s \in T : links[m].sig =< s
  <2>1. T \in SUBSET Nat
    BY MemoOfLink
  <2>2. \E s \in T : \A r \in T : s =< r
    <3> HIDE DEF T
    <3> QED
      BY <2>1, Least
  <2> QED
    BY <2>2
<1> HIDE DEF T
<1>2. links[m].sig \in Landed /\ links[m].sig \in Nat /\ m \in Nat
  BY MemoOfLink
<1>3. CASE Unread(m)
  <2>1. gone # {}
    BY <1>2, <1>3 DEF Readable, Unread
  <2> QED
    BY <1>1, <1>3, <2>1 DEF Clean, Unread
<1>4. CASE Bottom(m)
  <2>1. 0 \in Confirmed /\ links[0].sig =< links[m].sig /\ ~(links[0].sig < links[m].sig)
    BY <1>4 DEF PledgeFirst, Before, Bottom
  <2>2. links[0].sig \in Nat /\ txs[links[0].sig].memo.n = 0
    BY <2>1, MemoOfLink
  <2>3. links[0].sig = links[m].sig
    BY <1>2, <2>1, <2>2
  <2>4. m = 0
    BY <2>2, <2>3, MemoOfLink
  <2> QED
    BY <1>1, <1>4, <2>4 DEF Clean, Bottom
<1>5. ASSUME NEW k \in Confirmed, Above(m, k) PROVE FALSE
  <2>1. links[k].sig < links[m].sig /\ k < m
    BY <1>1, <1>5 DEF Before, Record, Above
  <2>2. links[k].sig \in Nat /\ k \in Nat
    BY MemoOfLink
  <2>3. Record(k)
    <3> SUFFICES ASSUME NEW j \in Before(k) PROVE j < k
      BY DEF Record
    <3>1. j \in Confirmed /\ links[j].sig < links[k].sig
      BY DEF Before
    <3>2. links[j].sig \in Nat /\ j \in Nat
      BY <3>1, MemoOfLink
    <3>3. j \in Before(m)
      BY <1>2, <2>1, <2>2, <3>1, <3>2 DEF Before
    <3>4. j # k
      BY <2>2, <3>1
    <3>5. j =< k
      BY <1>5, <3>3 DEF Above
    <3> QED
      BY <2>2, <3>2, <3>4, <3>5
  <2>4. Clean(Walk[links[k].sig])
    <3>1. ~(links[m].sig =< links[k].sig)
      BY <1>2, <2>1, <2>2
    <3>2. links[k].sig \notin T
      BY <1>1, <3>1
    <3> QED
      BY <2>3, <3>2 DEF T
  <2>5. Walk[links[m].sig].problems = Walk[links[k].sig].problems
    <3>1. ~(k >= m)
      BY <1>2, <2>1, <2>2
    <3> QED
      BY <1>5, <3>1 DEF Above
  <2> QED
    BY <1>1, <2>4, <2>5 DEF Clean
<1> QED
  BY <1>3, <1>4, <1>5, WalkFrom

LEMMA WalkFindsFrom ==
    ASSUME IInv, PrevOlder, InOrder, gone = {}
    PROVE  \A m \in Confirmed : \A k \in Confirmed : k =< m => k \in Walk[links[m].sig].found
<1> DEFINE T == {m \in Confirmed :
                    \E k \in Confirmed : k =< m /\ k \notin Walk[links[m].sig].found}
<1> SUFFICES ASSUME T # {} PROVE FALSE
  OBVIOUS
<1>1. PICK m \in T : \A j \in T : m =< j
  <2>1. T \in SUBSET Nat
    BY MemoOfLink
  <2> HIDE DEF T
  <2> QED
    BY <2>1, Least
<1>2. m \in Confirmed
  BY <1>1
<1>3. PICK k \in Confirmed : k =< m /\ k \notin Walk[links[m].sig].found
  BY <1>1
<1>4. m \in Nat /\ k \in Nat /\ ~Unread(m)
  BY <1>2, MemoOfLink DEF Readable, Unread
<1>5. k # m
  BY <1>2, <1>3, <1>4, WalkFrom DEF Bottom, Above
<1>6. k \in Before(m)
  BY <1>2, <1>3, <1>4, <1>5 DEF InOrder, Before
<1>7. PICK j \in Confirmed : Above(m, j)
  BY <1>2, <1>4, <1>6, WalkFrom DEF Bottom
<1>8. k =< j /\ j < m
  <2>1. links[j].sig < links[m].sig /\ k =< j
    BY <1>6, <1>7 DEF Before, Above
  <2>2. links[j].sig \in Nat /\ links[m].sig \in Nat /\ j \in Nat
    BY <1>2, MemoOfLink
  <2>3. ~(m < j) /\ j # m
    BY <1>2, <1>4, <2>1, <2>2 DEF InOrder
  <2> QED
    BY <1>4, <2>1, <2>2, <2>3
<1>9. j \notin T
  <2>1. j \in Nat /\ ~(m =< j)
    BY <1>4, <1>8, MemoOfLink
  <2> HIDE DEF T
  <2> QED
    BY <1>1, <2>1
<1> QED
  BY <1>3, <1>7, <1>8, <1>9 DEF Above
-----------------------------------------------------------------------------
(* What Stats put together still fits: the links counted are confirmed and *)
(* none of them is above the head.                                         *)
HeadHeld ==
    /\ ReaderTypeOK
    /\ reader.at \in {"counted", "headed", "answered"} => reader.counted \subseteq Confirmed
    /\ reader.at \in {"headed", "answered"} /\ reader.head # Genesis =>
          \E m \in Confirmed : /\ Record(m) /\ links[m].sig = reader.head
                               /\ \A k \in reader.counted : k =< m

(* A link is confirmed with a signature younger than all on record.        *)
LEMMA RecordsStay ==
    ASSUME IInv, [Next]_vars
    PROVE  /\ \A m \in Confirmed : m \in Confirmed' /\ links'[m] = links[m]
           /\ \A m \in Confirmed : Record(m) => Record(m)'
<1>0. links \in [Num -> Row]
  BY DEF IInv, Durable, TypeOK, StoreTypeOK
<1>1. \A m \in Confirmed : m \in Confirmed' /\ links'[m] = links[m]
  BY RowsMove DEF Confirmed, With
<1>2. ASSUME NEW n \in Confirmed', n \notin Confirmed, NEW m \in Confirmed
      PROVE  links[m].sig < links'[n].sig
  <2>1. [Public!PublicNext]_(Public!publicVars)
    BY PublicStep
  <2>2. n \in Num /\ links'[n].status = "confirmed" /\ links[n].status # "confirmed"
    BY <1>2 DEF Confirmed, With
  <2>3. CASE UNCHANGED Public!publicVars
    BY <2>2, <2>3 DEF Public!publicVars
  <2>4. ASSUME NEW k \in Num, NEW act, Public!Admit(k, act) PROVE FALSE
    BY <1>0, <2>2, <2>4 DEF Public!Admit, Public!Absent
  <2>5. CASE \E s \in Sig, k \in Num, prev \in Prev : Public!Write(s, k, prev)
    BY <2>2, <2>5 DEF Public!Write
  <2>6. ASSUME NEW k \in Num, Public!Refuse(k) PROVE FALSE
    BY <1>0, <2>2, <2>6 DEF Public!Refuse
  <2>7. ASSUME NEW k \in Num, NEW s \in Sig, Public!Record(k, s)
        PROVE  links[m].sig < links'[n].sig
    <3>1. \A j \in Num : j # k => links'[j] = links[j]
      BY <1>0, <2>7 DEF Public!Record
    <3>2. n = k /\ links'[k].sig = s
      BY <1>0, <2>2, <2>7, <3>1 DEF Public!Record, Row
    <3>3. m \in Public!Recorded
      BY DEF Confirmed, With, Public!Recorded
    <3> QED
      BY <2>7, <3>2, <3>3 DEF Public!Record
  <2>8. 0 \in Num
    BY BoundsAssumption
  <2> QED
    BY <2>1, <2>3, <2>4, <2>5, <2>6, <2>7, <2>8 DEF Public!PublicNext
<1>3. ASSUME NEW m \in Confirmed, Record(m) PROVE Record(m)'
  <2> SUFFICES ASSUME NEW k \in Confirmed', links'[k].sig < links'[m].sig PROVE k < m
    BY <1>1 DEF Record, Before
  <2>1. k \in Confirmed
    <3>1. SUFFICES ASSUME k \notin Confirmed PROVE FALSE
      OBVIOUS
    <3>2. links[m].sig < links'[k].sig /\ links'[m].sig = links[m].sig
      BY <1>1, <1>2, <3>1
    <3>3. links[m].sig \in Nat /\ links'[k].sig \in Int
      <4>1. links' \in [Num -> Row]
        BY INext DEF IInv, Durable, TypeOK, StoreTypeOK
      <4>2. links'[k].sig \in Sig \cup {NoSig}
        BY <4>1 DEF Row, Confirmed, With
      <4> QED
        BY <4>2, MemoOfLink
    <3> QED
      BY <3>2, <3>3
  <2> QED
    BY <1>1, <1>3, <2>1 DEF Record, Before
<1> QED
  BY <1>1, <1>3

LEMMA HeadHeldNext ==
    ASSUME IInv, HeadHeld, RowHeld, RowHeld', [ReadNext]_readVars
    PROVE  HeadHeld'
<1>0. ReaderTypeOK /\ ReaderTypeOK'
  BY DEF RowHeld
<1>1. ASSUME reader' \in {reader, NoReader},
             \A m \in Confirmed : m \in Confirmed' /\ links'[m] = links[m],
             \A m \in Confirmed : Record(m) => Record(m)'
      PROVE  HeadHeld'
  <2>1. CASE reader' = reader
    BY <1>0, <1>1, <2>1 DEF HeadHeld
  <2>2. CASE reader' = NoReader
    BY <1>0, <2>2, NoReaderTypes DEF HeadHeld
  <2> QED
    BY <1>1, <2>1, <2>2
<1>2. CASE ServerStep
  <2>1. [Next]_vars /\ reader' \in {reader, NoReader}
    BY <1>2 DEF ServerStep
  <2> QED
    BY <1>1, <2>1, RecordsStay
<1>3. CASE Done \/ ClusterReset \/ UNCHANGED readVars
  <2>1. reader' \in {reader, NoReader} /\ UNCHANGED vars
    BY <1>3 DEF Done, ClusterReset, readVars
  <2> QED
    BY <1>1, <2>1, RecordsStay
<1>4. CASE ReadCounts
  BY <1>0, <1>4, NoReaderTypes DEF ReadCounts, HeadHeld, ReaderTypeOK, Counted, Confirmed, With, vars, storeVars
<1>5. CASE ReadHead
  <2>1. PICK s \in Prev : IsHead(s) /\ reader' = [reader EXCEPT !.at = "headed", !.head = s]
    BY <1>5 DEF ReadHead
  <2>2. /\ reader.at = "counted" /\ UNCHANGED links
        /\ reader'.at = "headed" /\ reader'.head = s /\ reader'.counted = reader.counted
    BY <1>0, <1>5, <2>1 DEF ReadHead, ReaderTypeOK, vars, storeVars
  <2>3. reader.counted \subseteq Confirmed /\ Confirmed' = Confirmed
    BY <2>2 DEF HeadHeld, Confirmed, With
  <2>4. ASSUME s # Genesis
        PROVE  \E m \in Confirmed : Record(m) /\ links[m].sig = s /\ \A k \in reader.counted : k =< m
    <3>1. PICK m \in Confirmed : (\A k \in Confirmed : k =< m) /\ s = links[m].sig
      BY <2>1, <2>4 DEF IsHead, Confirmed
    <3>2. Record(m)
      <4> SUFFICES ASSUME NEW k \in Before(m) PROVE k < m
        BY DEF Record
      <4>1. k \in Confirmed /\ links[k].sig < links[m].sig
        BY DEF Before
      <4>2. k \in Nat /\ m \in Nat /\ links[m].sig \in Nat
        BY <4>1, MemoOfLink
      <4>3. k # m
        BY <4>1, <4>2
      <4> QED
        BY <3>1, <4>1, <4>2, <4>3
    <3> QED
      BY <2>3, <3>1, <3>2
  <2>5. \A m : Record(m)' <=> Record(m)
    BY <2>2, <2>3 DEF Record, Before
  <2> QED
    BY <1>0, <2>2, <2>3, <2>4, <2>5 DEF HeadHeld
<1>6. CASE ReadPaused
  <2>1. /\ reader.at = "headed" /\ UNCHANGED links
        /\ reader'.at = "answered" /\ reader'.head = reader.head
        /\ reader'.counted = reader.counted
    BY <1>0, <1>6 DEF ReadPaused, ReaderTypeOK, vars, storeVars
  <2>2. Confirmed' = Confirmed /\ \A m : Record(m)' <=> Record(m)
    BY <2>1 DEF Record, Before, Confirmed, With
  <2> QED
    BY <1>0, <2>1, <2>2 DEF HeadHeld
<1>7. CASE Lookup
  <2>1. reader'.at = "row"
    BY <1>7, NoReaderTypes DEF Lookup
  <2> QED
    BY <1>0, <2>1 DEF HeadHeld
<1> QED
  BY <1>2, <1>3, <1>4, <1>5, <1>6, <1>7 DEF ReadNext

LEMMA ReadInvariant == ReadSpec => [](IInv /\ PrevOlder /\ HeadHeld)
<1>1. ReadInit => RowHeld /\ HeadHeld
  BY NoReaderTypes DEF ReadInit, RowHeld, HeadHeld, ReaderTypeOK
<1>2. ReadInit => PrevOlder
  BY DEF ReadInit, Init, ClusterInit, PrevOlder
<1>3. [ReadNext]_readVars => [Next]_vars
  BY DEF ReadNext, ServerStep, ClusterReset, ReadCounts, ReadHead, ReadPaused, Lookup, Done, readVars
<1>4. IInv /\ RowHeld /\ [ReadNext]_readVars => RowHeld'
  BY RowHeldNext
<1>5. IInv /\ PrevOlder /\ [Next]_vars => PrevOlder'
  BY PrevOlderNext
<1>6. IInv /\ HeadHeld /\ RowHeld /\ RowHeld' /\ [ReadNext]_readVars => HeadHeld'
  BY HeadHeldNext
<1>7. ReadSpec => []IInv
  BY ReadersOnlyRead, Invariant, PTL
<1> QED
  BY <1>1, <1>2, <1>3, <1>4, <1>5, <1>6, <1>7, PTL DEF ReadSpec

(* A walk from the head the site reported goes down from link to older     *)
(* link to the pledge, whatever the server did meanwhile and in whatever   *)
(* order links were written, as long as the pledge was the first; only a   *)
(* reset of the cluster breaks it off.                                     *)
THEOREM WalkNeverStumbles == ReadSpec => []WalkIsClean
<1>1. IInv /\ PrevOlder /\ HeadHeld => WalkIsClean
  BY WalkCleanFrom DEF WalkIsClean, Walks, FromHead, Clean, HeadHeld
<1> QED
  BY <1>1, ReadInvariant, PTL

(* A walk from the head the site reported finds every link the site        *)
(* counted, if the links were written in the order of their numbers.       *)
THEOREM WalkFindsAll == ReadSpec => []WalkFindsWhatIsCounted
<1>1. IInv /\ PrevOlder /\ HeadHeld => WalkFindsWhatIsCounted
  <2> SUFFICES ASSUME IInv, PrevOlder, HeadHeld, Walks, InOrder, gone = {}
               PROVE  reader.counted \subseteq Walk[reader.head].found
    BY DEF WalkFindsWhatIsCounted, FromHead
  <2>1. PICK m \in Confirmed : links[m].sig = reader.head /\ \A k \in reader.counted : k =< m
    BY DEF HeadHeld, Walks
  <2>2. reader.counted \subseteq Confirmed
    BY DEF HeadHeld, Walks
  <2> QED
    BY <2>1, <2>2, WalkFindsFrom
<1> QED
  BY <1>1, ReadInvariant, PTL
=============================================================================
