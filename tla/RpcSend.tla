------------------------------ MODULE RpcSend ------------------------------
(***************************************************************************)
(* One call of SendMemo in internal/solana/rpc.go, at the grain of its RPC *)
(* calls, against a cluster that goes on while the calls are under way.    *)
(* ChainService takes the whole call for a few steps, those of SendCall;   *)
(* this module is about what the answers of those steps are worth.         *)
(*                                                                         *)
(* Blocks are processed first and confirmed later; a block that is not yet *)
(* confirmed can still be dropped with what is in it.  Whether the         *)
(* transaction executes without error does not depend on the block.        *)
(***************************************************************************)
EXTENDS Integers

CONSTANTS
    MaxHeight,    \* bound: the highest block
    Validity,     \* how many blocks a blockhash is good for; 150 on Solana
    Lag           \* how far confirmation may trail processing

ASSUME HeightsAssumption ==
    MaxHeight \in Nat /\ Validity \in Nat \ {0} /\ Lag \in Nat \ {0}

VARIABLES
    pc,           \* where the call is
    result,       \* what the call returned
    timedOut,     \* is the context of the call done?
    lastValid,    \* the last block the blockhash is good for
    tip,          \* the newest processed block
    height,       \* the newest confirmed block
    tx,           \* "none", "flying" towards the leader, or in a "block"
    block,        \* the block the transaction is in
    fails         \* does it execute with an error?

callVars == <<pc, result, timedOut, lastValid>>
chainVars == <<tip, height, tx, block, fails>>
vars == <<callVars, chainVars>>

Height == 0 .. MaxHeight

TypeOK ==
    /\ pc \in {"blockhash", "send", "status", "height", "delay", "done"}
    /\ result \in {"none", "ok", "rejected", "expired", "error"}
    /\ timedOut \in BOOLEAN
    /\ lastValid \in 0 .. MaxHeight + Validity
    /\ tip \in Height /\ height \in 0 .. tip
    /\ tx \in {"none", "flying", "block"}
    /\ block \in Height
    /\ fails \in BOOLEAN

Init ==
    /\ pc = "blockhash"
    /\ result = "none"
    /\ timedOut = FALSE
    /\ lastValid = 0
    /\ tip = 0 /\ height = 0
    /\ tx = "none"
    /\ block = 0
    /\ fails \in BOOLEAN

Confirmed == tx = "block" /\ block =< height
-----------------------------------------------------------------------------
(* SendMemo *)

Return(r) ==
    /\ pc' = "done"
    /\ result' = r
    /\ UNCHANGED <<timedOut, lastValid>>

\* GetLatestBlockhash.  A finalized blockhash is a few blocks old already.
GetBlockhash ==
    /\ pc = "blockhash"
    /\ ~timedOut
    /\ lastValid' \in height + 1 .. height + Validity
    /\ pc' = "send"
    /\ UNCHANGED <<result, timedOut, chainVars>>

BlockhashError ==
    /\ pc = "blockhash"
    /\ Return("error")
    /\ UNCHANGED chainVars

\* SendTransactionWithOpts: the node passes the transaction on.
Send ==
    /\ pc = "send"
    /\ ~timedOut
    /\ tx' = "flying"
    /\ pc' = "status"
    /\ UNCHANGED <<result, timedOut, lastValid, tip, height, block, fails>>

\* It answers with an error, and may have passed the transaction on.
SendError ==
    /\ pc = "send"
    /\ Return("error")
    /\ tx' \in {"none", "flying"}
    /\ UNCHANGED <<tip, height, block, fails>>
-----------------------------------------------------------------------------
(* waitConfirmed *)

PollStatusProcessed ==    \* mutant: any status without an error will do
    /\ pc = "status"
    /\ ~timedOut
    /\ IF tx = "block"
       THEN Return(IF fails THEN "rejected" ELSE "ok")
       ELSE pc' = "height" /\ UNCHANGED <<result, timedOut, lastValid>>
    /\ UNCHANGED chainVars

\* GetSignatureStatuses answers.
PollStatus ==
    /\ pc = "status"
    /\ ~timedOut
    /\ IF tx = "block" /\ fails
       THEN Return("rejected")
       ELSE IF Confirmed
       THEN Return("ok")
       ELSE /\ pc' = IF tx = "block" THEN "delay" ELSE "height"
            /\ UNCHANGED <<result, timedOut, lastValid>>
    /\ UNCHANGED chainVars

\* It does not answer, or a node that lags behind does: the transaction
\* counts as unseen.
StatusUnseen ==
    /\ pc = "status"
    /\ pc' = "height"
    /\ UNCHANGED <<result, timedOut, lastValid, chainVars>>

PollHeightAndResend ==    \* mutant: signs again itself once the blockhash is over
    /\ pc = "height"
    /\ ~timedOut
    /\ pc' = IF height > lastValid THEN "blockhash" ELSE "delay"
    /\ UNCHANGED <<result, timedOut, lastValid, chainVars>>

PollProcessedHeight ==    \* mutant: asks for the processed height
    /\ pc = "height"
    /\ ~timedOut
    /\ IF tip > lastValid THEN Return("expired")
       ELSE pc' = "delay" /\ UNCHANGED <<result, timedOut, lastValid>>
    /\ UNCHANGED chainVars

\* GetBlockHeight answers.
PollHeight ==
    /\ pc = "height"
    /\ ~timedOut
    /\ IF height > lastValid THEN Return("expired")
       ELSE pc' = "delay" /\ UNCHANGED <<result, timedOut, lastValid>>
    /\ UNCHANGED chainVars

HeightError ==
    /\ pc = "height"
    /\ pc' = "delay"
    /\ UNCHANGED <<result, timedOut, lastValid, chainVars>>

\* The delay is over before the context is done.
Wake ==
    /\ pc = "delay"
    /\ ~timedOut
    /\ pc' = "status"
    /\ UNCHANGED <<result, timedOut, lastValid, chainVars>>

WaitForever ==    \* mutant: waitConfirmed ignores its context
    /\ pc = "delay"
    /\ timedOut
    /\ pc' = "status"
    /\ UNCHANGED <<result, timedOut, lastValid, chainVars>>

WaitEnds ==
    /\ pc = "delay"
    /\ timedOut
    /\ Return("error")
    /\ UNCHANGED chainVars

\* The 90 seconds, or the worker's five minutes, are over.
TimeOut ==
    /\ pc # "done"
    /\ ~timedOut
    /\ timedOut' = TRUE
    /\ UNCHANGED <<pc, result, lastValid, chainVars>>
-----------------------------------------------------------------------------
(* The cluster *)

ProcessBlock ==
    /\ tip < MaxHeight
    /\ tip - height < Lag
    /\ tip' = tip + 1
    /\ UNCHANGED <<callVars, height, tx, block, fails>>

ConfirmBlock ==
    /\ height < tip
    /\ height' = height + 1
    /\ UNCHANGED <<callVars, tip, tx, block, fails>>

\* The transaction gets into a block that is not confirmed yet, if its
\* blockhash is still good there.
Include ==
    /\ tx = "flying"
    /\ block' \in height + 1 .. tip
    /\ block' =< lastValid
    /\ tx' = "block"
    /\ UNCHANGED <<callVars, tip, height, fails>>

\* The block it is in loses to another one; the transaction can get into that.
DropBlock ==
    /\ tx = "block"
    /\ block > height
    /\ tx' = "flying"
    /\ UNCHANGED <<callVars, tip, height, block, fails>>
-----------------------------------------------------------------------------
Call ==
    \/ GetBlockhash \/ BlockhashError \/ Send \/ SendError
    \/ PollStatus \/ StatusUnseen \/ PollHeight \/ HeightError
    \/ Wake \/ WaitEnds

Next ==
    \/ Call \/ TimeOut
    \/ ProcessBlock \/ ConfirmBlock \/ Include \/ DropBlock

\* Every RPC call returns and time passes; nothing is assumed of the cluster.
Fairness == WF_vars(Call) /\ WF_vars(TimeOut)

Spec == Init /\ [][Next]_vars /\ Fairness
-----------------------------------------------------------------------------
Sound ==
    /\ TypeOK
    /\ pc = "blockhash" => lastValid = 0
    /\ pc \in {"blockhash", "send"} => tx = "none" /\ block = 0
    /\ lastValid = 0 => /\ pc \in {"blockhash", "done"}
                        /\ result \in {"none", "error"}
                        /\ tx = "none" /\ block = 0
    /\ pc = "done" <=> result # "none"
    /\ tx = "block" => block \in 1 .. lastValid
    /\ result = "expired" => height > lastValid

(* A nil error means the memo is in a confirmed block and executed.  The   *)
(* worker records the signature on the strength of it.                     *)
OkIsConfirmed == result = "ok" => Confirmed /\ ~fails

(* Once the call has said that the transaction expired, it does not get    *)
(* into the chain any more: what the caller sends next races nothing.      *)
ExpiredIsOver == [][result = "expired" => (Confirmed' <=> Confirmed)]_vars

(* How the call looks to ChainService.  It counts a transaction as sent as *)
(* soon as it is signed, which is done once there is a blockhash.  One     *)
(* that fails is refused from the first block it gets into: if that block  *)
(* is dropped, it fails in the next.                                       *)
Outcome ==
    IF lastValid = 0 THEN "unsigned"
    ELSE IF fails /\ block > 0 THEN "rejected"
    ELSE IF Confirmed THEN "landed"
    ELSE IF height > lastValid THEN "expired"
    ELSE "sent"

Stage ==
    IF pc = "blockhash" THEN "sending"
    ELSE IF pc # "done" THEN "waiting"
    ELSE IF result = "ok" THEN "confirming"
    ELSE IF result = "rejected" THEN "failing"
    ELSE "backoff"

Signed == IF lastValid = 0 THEN 0 ELSE 1

InHand == IF Stage \in {"waiting", "confirming", "failing"} THEN 1 ELSE -1

NoText == [n |-> -1, act |-> "", prev |-> 0]

Taken == INSTANCE SendCall WITH
    MaxLinks <- 0, MaxSends <- 1, Acts <- {}, PledgeAct <- "", Text <- NoText,
    txs <- [s \in 1 .. 1 |-> [state |-> Outcome, memo |-> NoText]],
    signed <- Signed, reachable <- TRUE, at <- Stage, sig <- InHand

(* Step by step the call is what ChainService takes it for: it signs one   *)
(* transaction, whose outcome is settled once and for all, whether or not  *)
(* the call still looks.  ErrRejected, on which the worker marks the link  *)
(* failed for good, is only said of a transaction that will never land;    *)
(* a timeout or an answer that was lost is not reported as one.            *)
IsTheCallTaken == Taken!SendSpec

(* The call returns, whatever the node answers. *)
Returns == <>(pc = "done")
=============================================================================
