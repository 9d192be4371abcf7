------------------------------ MODULE SendCall ------------------------------
(***************************************************************************)
(* What ChainService takes one call of SendMemo for: its steps from        *)
(* "sending" on, without what they do to the rest of the server, next to   *)
(* the one transaction of the call.  RpcSend is shown to do no more.       *)
(*                                                                         *)
(* Every way a wait can end without an answer is GiveUp here: SeeExpired,  *)
(* GiveUp and GiveUpEarly of ChainService differ in when they may happen   *)
(* and not in what they do.  SubmitFails is Submit and GiveUp in one.      *)
(***************************************************************************)
EXTENDS Cluster

CONSTANT Text    \* the memo; SendMemo does not look into it

VARIABLES
    at,     \* "sending", "waiting", or what the worker does next
    sig     \* the transaction SendMemo waits for

sendVars == <<clusterVars, at, sig>>

SendInit ==
    /\ ClusterInit
    /\ at = "sending"
    /\ sig = NoSig

AttemptFailed ==
    /\ at' = "backoff"
    /\ sig' = NoSig
    /\ UNCHANGED clusterVars

SendFails == at = "sending" /\ AttemptFailed

Submit ==
    /\ at = "sending"
    /\ Sign(Text)
    /\ sig' = signed'
    /\ at' = "waiting"

Sees(state) == at = "waiting" /\ txs[sig].state = state

SeeConfirmed ==
    /\ Sees("landed")
    /\ at' = "confirming"
    /\ UNCHANGED <<clusterVars, sig>>

SeeRejected ==
    /\ Sees("rejected")
    /\ at' = "failing"
    /\ UNCHANGED <<clusterVars, sig>>

GiveUp == at = "waiting" /\ AttemptFailed

ClusterSettles(s) ==
    /\ Land(s) \/ Reject(s) \/ Expire(s)
    /\ UNCHANGED <<at, sig>>

SendNext ==
    \/ SendFails \/ Submit \/ SeeConfirmed \/ SeeRejected \/ GiveUp
    \/ \E s \in Sig : ClusterSettles(s)

SendSpec == SendInit /\ [][SendNext]_sendVars
=============================================================================
