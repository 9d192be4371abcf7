--------------------------- MODULE RpcSend_proofs ---------------------------
(***************************************************************************)
(* Theorems about one call of SendMemo, for any validity of a blockhash    *)
(* and any distance between processing and confirmation.                   *)
(***************************************************************************)
EXTENDS RpcSend, TLAPS

LEMMA SoundInit == Init => Sound
<1> SUFFICES ASSUME Init PROVE Sound
  OBVIOUS
<1>1. /\ tip \in Height /\ height \in 0 .. tip /\ block \in Height
      /\ lastValid \in 0 .. MaxHeight + Validity
  BY HeightsAssumption DEF Init, Height
<1>2. TypeOK
  BY <1>1 DEF Init, TypeOK
<1> QED
  BY <1>2 DEF Init, Sound

LEMMA SoundNext == Sound /\ [Next]_vars => Sound'
<1> SUFFICES ASSUME Sound, [Next]_vars PROVE Sound'
  OBVIOUS
<1> USE HeightsAssumption DEF Sound, TypeOK, Height, callVars, chainVars
<1>1. CASE GetBlockhash \/ BlockhashError
  BY <1>1 DEF GetBlockhash, BlockhashError, Return
<1>2. CASE Send \/ SendError
  BY <1>2 DEF Send, SendError, Return
<1>3. CASE PollStatus
  BY <1>3 DEF PollStatus, Return
<1>4. CASE PollHeight
  BY <1>4 DEF PollHeight, Return
<1>5. CASE StatusUnseen \/ HeightError \/ Wake \/ WaitEnds
  BY <1>5 DEF StatusUnseen, HeightError, Wake, WaitEnds, Return
<1>6. CASE TimeOut
  BY <1>6 DEF TimeOut
<1>7. CASE ProcessBlock \/ ConfirmBlock
  BY <1>7 DEF ProcessBlock, ConfirmBlock
<1>8. CASE Include \/ DropBlock
  BY <1>8 DEF Include, DropBlock
<1>9. CASE UNCHANGED vars
  BY <1>9 DEF vars
<1> QED
  BY <1>1, <1>2, <1>3, <1>4, <1>5, <1>6, <1>7, <1>8, <1>9 DEF Next, Call

(* SendMemo's own bookkeeping agrees with the chain: nothing is sent before *)
(* there is a blockhash, no block takes the transaction after the last one  *)
(* its blockhash allows, and only a block past that one counts as expiry.   *)
THEOREM AlwaysSound == Spec => []Sound
BY SoundInit, SoundNext, PTL DEF Spec

(* A transaction that was reported expired does not get into the chain     *)
(* afterwards: blocks up to its last valid one are confirmed by then, and  *)
(* a confirmed block takes nothing in and loses nothing.                   *)
THEOREM ExpiryIsFinal == Spec => ExpiredIsOver
<1>1. Sound /\ [Next]_vars => [result = "expired" => (Confirmed' <=> Confirmed)]_vars
  <2> SUFFICES ASSUME Sound, [Next]_vars, result = "expired"
               PROVE  Confirmed' <=> Confirmed
    OBVIOUS
  <2>0. /\ pc = "done"
        /\ height > lastValid
        /\ tx = "block" => block =< lastValid
        /\ tip \in Int /\ height \in Int /\ block \in Int /\ lastValid \in Int
    BY HeightsAssumption DEF Sound, TypeOK, Height
  <2>1. CASE Call \/ TimeOut
    BY <2>0, <2>1 DEF Call, GetBlockhash, BlockhashError, Send, SendError, PollStatus,
       StatusUnseen, PollHeight, HeightError, Wake, WaitEnds, TimeOut
  <2>2. CASE ProcessBlock
    BY <2>2 DEF ProcessBlock, Confirmed
  <2>3. CASE ConfirmBlock
    BY <2>0, <2>3 DEF ConfirmBlock, Confirmed
  <2>4. CASE Include
    BY <2>0, <2>4 DEF Include, Confirmed, callVars
  <2>5. CASE DropBlock
    BY <2>0, <2>5 DEF DropBlock, Confirmed
  <2>6. CASE UNCHANGED vars
    BY <2>6 DEF vars, chainVars, Confirmed
  <2> QED
    BY <2>1, <2>2, <2>3, <2>4, <2>5, <2>6 DEF Next
<1> QED
  BY <1>1, AlwaysSound, PTL DEF Spec, ExpiredIsOver

(* A signature is only returned once its transaction is in a confirmed     *)
(* block and executed, and it stays there.                                 *)
THEOREM OkIsForGood == Spec => []OkIsConfirmed
<1>1. Init => OkIsConfirmed
  BY DEF Init, OkIsConfirmed
<1>2. Sound /\ OkIsConfirmed /\ [Next]_vars => OkIsConfirmed'
  <2> SUFFICES ASSUME Sound, OkIsConfirmed, [Next]_vars, result' = "ok"
               PROVE  Confirmed' /\ ~fails'
    BY DEF OkIsConfirmed
  <2>0. tip \in Int /\ height \in Int /\ block \in Int
    BY HeightsAssumption DEF Sound, TypeOK, Height
  <2>1. CASE PollStatus
    BY <2>1 DEF PollStatus, Return, OkIsConfirmed, Confirmed, chainVars
  <2>2. CASE (Call /\ ~PollStatus) \/ TimeOut
    BY <2>2 DEF Call, GetBlockhash, BlockhashError, Send, SendError, StatusUnseen, PollHeight,
       HeightError, Wake, WaitEnds, TimeOut, Return, Sound, OkIsConfirmed, Confirmed, chainVars
  <2>3. CASE ProcessBlock \/ ConfirmBlock
    BY <2>0, <2>3 DEF ProcessBlock, ConfirmBlock, callVars, OkIsConfirmed, Confirmed
  <2>4. CASE Include \/ DropBlock
    BY <2>0, <2>4 DEF Include, DropBlock, callVars, OkIsConfirmed, Confirmed
  <2>5. CASE UNCHANGED vars
    BY <2>5 DEF vars, callVars, chainVars, OkIsConfirmed, Confirmed
  <2> QED
    BY <2>1, <2>2, <2>3, <2>4, <2>5 DEF Next
<1> QED
  BY <1>1, <1>2, AlwaysSound, PTL DEF Spec
-----------------------------------------------------------------------------
(* The call implements SendCall *)

Txs == [s \in 1 .. 1 |-> [state |-> Outcome, memo |-> NoText]]

TakenVars == <<Outcome, Stage, Signed, InHand>>

LEMMA Stutters == UNCHANGED TakenVars => UNCHANGED Taken!sendVars
BY DEF TakenVars, Taken!sendVars, Taken!clusterVars

LEMMA TakenStart == Init => Taken!SendInit
<1> SUFFICES ASSUME Init PROVE Taken!SendInit
  OBVIOUS
<1>1. Outcome = "unsigned" /\ Stage = "sending" /\ Signed = 0 /\ InHand = -1
  BY DEF Init, Outcome, Stage, Signed, InHand
<1>2. Taken!ClusterInit
  BY <1>1 DEF Taken!ClusterInit, Taken!Sig, Taken!NoMemo, Taken!Genesis, NoText
<1> QED
  BY <1>1, <1>2 DEF Taken!SendInit, Taken!NoSig

(* What becomes of the transaction while nobody looks is one settlement.   *)
LEMMA TakenSettles ==
    ASSUME UNCHANGED <<Stage, Signed, InHand>>,
           Outcome = "sent", Outcome' \in {"landed", "rejected", "expired"}
    PROVE  Taken!SendNext
<1>1. 1 \in Taken!Sig
  BY DEF Taken!Sig
<1>2. Txs[1].state = "sent" /\ Txs' = [Txs EXCEPT ![1].state = Outcome']
  BY DEF Txs
<1>3. Taken!Land(1) \/ Taken!Reject(1) \/ Taken!Expire(1)
  BY <1>2 DEF Txs, Taken!Land, Taken!Reject, Taken!Expire, Taken!Settle
<1>4. Taken!ClusterSettles(1)
  BY <1>3 DEF Taken!ClusterSettles
<1> QED
  BY <1>1, <1>4 DEF Taken!SendNext

(* Blocks settle a transaction that is sent, and no other.                 *)
LEMMA BlocksSettle ==
    ASSUME Sound, ProcessBlock \/ ConfirmBlock \/ Include \/ DropBlock
    PROVE  \/ UNCHANGED TakenVars
           \/ Taken!SendNext
<1>0. /\ UNCHANGED callVars
      /\ tip \in Int /\ height \in Nat /\ block \in Nat /\ lastValid \in Nat
      /\ tx \in {"none", "flying", "block"} /\ fails' = fails
      /\ lastValid = 0 => tx = "none"
      /\ tx = "block" => block \in 1 .. lastValid
  BY HeightsAssumption DEF Sound, TypeOK, Height, ProcessBlock, ConfirmBlock, Include, DropBlock
<1>1. UNCHANGED <<Stage, Signed, InHand, pc, result, lastValid>>
  BY <1>0 DEF callVars, Stage, Signed, InHand
<1>2. CASE ProcessBlock
  BY <1>1, <1>2 DEF ProcessBlock, TakenVars, Outcome, Confirmed
<1>3. CASE ConfirmBlock
  <2>1. /\ height' = height + 1 /\ UNCHANGED <<tx, block, lastValid, fails>>
    BY <1>1, <1>3 DEF ConfirmBlock
  <2>2. \/ Outcome' = Outcome
        \/ Outcome = "sent" /\ Outcome' \in {"landed", "expired"}
    BY <1>0, <2>1 DEF Outcome, Confirmed
  <2> QED
    BY <1>1, <2>2, TakenSettles DEF TakenVars
<1>4. CASE Include
  <2>1. /\ tx = "flying" /\ tx' = "block" /\ block' \in Nat \ {0}
        /\ height < block' /\ block' =< lastValid
        /\ UNCHANGED <<height, lastValid, fails>>
    BY <1>0, <1>1, <1>4 DEF Include
  <2>2. \/ Outcome' = Outcome
        \/ Outcome = "sent" /\ Outcome' = "rejected"
    BY <1>0, <2>1 DEF Outcome, Confirmed
  <2> QED
    BY <1>1, <2>2, TakenSettles DEF TakenVars
<1>5. CASE DropBlock
  <2>1. /\ tx = "block" /\ tx' = "flying" /\ block > height
        /\ UNCHANGED <<height, block, lastValid, fails>>
    BY <1>1, <1>5 DEF DropBlock
  <2>2. Outcome' = Outcome
    BY <1>0, <2>1 DEF Outcome, Confirmed
  <2> QED
    BY <1>1, <2>2 DEF TakenVars
<1> QED
  BY <1>2, <1>3, <1>4, <1>5

(* A call that ends says what SendCall lets it say.                        *)
LEMMA TakenReturns ==
    ASSUME Sound, pc # "done", lastValid # 0, NEW r \in {"ok", "rejected", "expired", "error"},
           Return(r), UNCHANGED Outcome,
           r = "ok" => Outcome = "landed",
           r = "rejected" => Outcome = "rejected"
    PROVE  Taken!SendNext
<1>1. /\ Stage = "waiting" /\ InHand = 1 /\ Signed' = Signed
      /\ Txs' = Txs /\ Txs[1].state = Outcome
  BY DEF Sound, Return, Stage, InHand, Signed, Txs
<1>2. UNCHANGED Taken!clusterVars
  BY <1>1 DEF Taken!clusterVars, Txs
<1>3. CASE r = "ok"
  BY <1>1, <1>2, <1>3 DEF Return, Stage, InHand, Txs, Taken!SendNext, Taken!SeeConfirmed, Taken!Sees
<1>4. CASE r = "rejected"
  BY <1>1, <1>2, <1>4 DEF Return, Stage, InHand, Txs, Taken!SendNext, Taken!SeeRejected, Taken!Sees
<1>5. CASE r \in {"expired", "error"}
  BY <1>1, <1>2, <1>5 DEF Return, Stage, InHand, Taken!SendNext, Taken!GiveUp, Taken!AttemptFailed,
     Taken!NoSig
<1> QED
  BY <1>3, <1>4, <1>5

(* The steps of the call that leave the blocks alone.                      *)
LEMMA CallTaken ==
    ASSUME Sound, Call \/ TimeOut
    PROVE  \/ UNCHANGED TakenVars
           \/ Taken!SendNext
<1>0. /\ height \in Nat /\ block \in Nat /\ lastValid \in Nat
      /\ pc \notin {"blockhash", "done"} => lastValid # 0
  BY HeightsAssumption DEF Sound, TypeOK, Height
<1>1. CASE GetBlockhash
  <2>1. /\ pc = "blockhash" /\ pc' = "send" /\ lastValid = 0 /\ block = 0 /\ tx = "none"
        /\ UNCHANGED <<result, tx, block, height, fails>>
    BY <1>1 DEF GetBlockhash, Sound, chainVars
  <2>2. lastValid' # 0 /\ ~(height > lastValid')
    BY <1>0, <1>1, HeightsAssumption DEF GetBlockhash
  <2>3. /\ Stage = "sending" /\ Stage' = "waiting" /\ InHand' = 1
        /\ Signed = 0 /\ Signed' = 1 /\ Outcome = "unsigned" /\ Outcome' = "sent"
    BY <2>1, <2>2 DEF Stage, InHand, Signed, Outcome, Confirmed
  <2>4. Txs' = [Txs EXCEPT ![1] = [state |-> "sent", memo |-> NoText]]
    <3>1. \A s \in 1 .. 1 : s = 1
      OBVIOUS
    <3> QED
      BY <2>3, <3>1 DEF Txs
  <2>5. Taken!Sign(NoText)
    BY <2>3, <2>4 DEF Taken!Sign, Txs
  <2> QED
    BY <2>3, <2>5 DEF Taken!SendNext, Taken!Submit
<1>2. CASE BlockhashError
  <2>1. /\ pc = "blockhash" /\ pc' = "done" /\ result' = "error" /\ lastValid = 0
        /\ UNCHANGED <<lastValid, tx, block, height, fails>>
    BY <1>2 DEF BlockhashError, Return, Sound, chainVars
  <2>2. /\ Stage = "sending" /\ Stage' = "backoff" /\ InHand' = -1
        /\ UNCHANGED <<Signed, Outcome>>
    BY <2>1 DEF Stage, InHand, Signed, Outcome
  <2> QED
    BY <2>2 DEF Taken!SendNext, Taken!SendFails, Taken!AttemptFailed, Taken!NoSig, Taken!clusterVars
<1>3. CASE Send
  <2>1. /\ pc = "send" /\ pc' = "status" /\ tx # "block" /\ tx' # "block" /\ lastValid # 0
        /\ UNCHANGED <<result, lastValid, height, block, fails>>
    BY <1>0, <1>3 DEF Send, Sound
  <2>2. UNCHANGED <<Stage, Signed, InHand>>
    BY <2>1 DEF Stage, Signed, InHand
  <2>3. UNCHANGED Outcome
    BY <2>1 DEF Outcome, Confirmed
  <2> QED
    BY <2>2, <2>3 DEF TakenVars
<1>4. CASE SendError
  <2>1. UNCHANGED Outcome
    BY <1>0, <1>4 DEF SendError, Return, Sound, Outcome, Confirmed
  <2> QED
    BY <1>0, <1>4, <2>1, TakenReturns DEF SendError
<1>5. CASE PollStatus
  <2>1. UNCHANGED Outcome /\ pc = "status" /\ lastValid # 0
    BY <1>0, <1>5 DEF PollStatus, Return, chainVars, Outcome, Confirmed
  <2>2. CASE tx = "block" /\ fails
    <3>1. Outcome = "rejected" /\ Return("rejected")
      BY <1>0, <1>5, <2>1, <2>2 DEF PollStatus, Sound, Outcome
    <3> QED
      BY <2>1, <3>1, TakenReturns
  <2>3. CASE ~(tx = "block" /\ fails) /\ Confirmed
    <3>1. Outcome = "landed" /\ Return("ok")
      BY <1>0, <1>5, <2>1, <2>3 DEF PollStatus, Sound, Outcome, Confirmed
    <3> QED
      BY <2>1, <3>1, TakenReturns
  <2>4. CASE ~(tx = "block" /\ fails) /\ ~Confirmed
    <3>1. pc' \in {"delay", "height"} /\ UNCHANGED <<result, lastValid>>
      BY <1>5, <2>4 DEF PollStatus
    <3> QED
      BY <2>1, <3>1 DEF TakenVars, Stage, Signed, InHand
  <2> QED
    BY <2>2, <2>3, <2>4
<1>6. CASE PollHeight
  <2>1. UNCHANGED Outcome /\ pc = "height" /\ lastValid # 0
    BY <1>0, <1>6 DEF PollHeight, Return, chainVars, Outcome, Confirmed
  <2>2. CASE height > lastValid
    BY <1>6, <2>1, <2>2, TakenReturns DEF PollHeight
  <2>3. CASE ~(height > lastValid)
    BY <1>6, <2>1, <2>3 DEF PollHeight, TakenVars, Stage, Signed, InHand
  <2> QED
    BY <2>2, <2>3
<1>7. CASE StatusUnseen \/ HeightError \/ Wake \/ TimeOut
  BY <1>7 DEF StatusUnseen, HeightError, Wake, TimeOut, chainVars, TakenVars, Outcome, Confirmed,
     Stage, Signed, InHand
<1>8. CASE WaitEnds
  <2>1. UNCHANGED Outcome /\ pc = "delay" /\ lastValid # 0
    BY <1>0, <1>8 DEF WaitEnds, Return, chainVars, Outcome, Confirmed
  <2> QED
    BY <1>8, <2>1, TakenReturns DEF WaitEnds
<1> QED
  BY <1>1, <1>2, <1>3, <1>4, <1>5, <1>6, <1>7, <1>8 DEF Call

(* One call of SendMemo, RPC call by RPC call and block by block, does     *)
(* what ChainService takes it to do: it signs once, and its answer is that *)
(* of a transaction whose outcome is settled and stays so.  No timeout,    *)
(* lost answer or dropped block is reported as a rejection.                *)
THEOREM AsTaken == Spec => IsTheCallTaken
<1>1. Sound /\ [Next]_vars => [Taken!SendNext]_(Taken!sendVars)
  <2> SUFFICES ASSUME Sound, [Next]_vars
               PROVE  UNCHANGED TakenVars \/ Taken!SendNext
    BY Stutters
  <2>1. CASE UNCHANGED vars
    BY <2>1 DEF vars, callVars, chainVars, TakenVars, Outcome, Confirmed, Stage, Signed, InHand
  <2> QED
    BY <2>1, BlocksSettle, CallTaken DEF Next
<1> QED
  BY <1>1, TakenStart, AlwaysSound, PTL DEF Spec, IsTheCallTaken, Taken!SendSpec
=============================================================================
