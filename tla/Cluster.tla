------------------------------- MODULE Cluster -------------------------------
(***************************************************************************)
(* The Solana cluster and the RPC node in front of it, as far as the       *)
(* server can tell.  It is not code of this repository: it is modelled     *)
(* from how SendMemo in internal/solana/rpc.go uses it.                    *)
(*                                                                         *)
(* A signed transaction is "sent" from the moment it may have reached the  *)
(* cluster.  It then settles once, whether or not the server still         *)
(* watches: it lands, it is executed and refused, or its blockhash expires *)
(* first.                                                                  *)
(***************************************************************************)
EXTENDS ChainTypes

VARIABLES
    txs,        \* what became of each transaction, and its memo
    signed,     \* how many transactions were signed so far
    reachable   \* does the RPC node answer?

clusterVars == <<txs, signed, reachable>>

TxState == {"unsigned", "sent", "landed", "rejected", "expired"}

ClusterTypeOK ==
    /\ txs \in [Sig -> [state : TxState, memo : Memo \cup {NoMemo}]]
    /\ signed \in 0 .. MaxSends
    /\ reachable \in BOOLEAN

ClusterInit ==
    /\ txs = [s \in Sig |-> [state |-> "unsigned", memo |-> NoMemo]]
    /\ signed = 0
    /\ reachable = TRUE

Landed == {s \in Sig : txs[s].state = "landed"}

\* A transaction over memo is signed with a fresh blockhash and sent.
Sign(memo) ==
    /\ signed < MaxSends
    /\ signed' = signed + 1
    /\ txs' = [txs EXCEPT ![signed + 1] = [state |-> "sent", memo |-> memo]]
    /\ UNCHANGED reachable

Settle(s, state) ==
    /\ txs[s].state = "sent"
    /\ txs' = [txs EXCEPT ![s].state = state]
    /\ UNCHANGED <<signed, reachable>>

Land(s) == Settle(s, "landed")
Reject(s) == Settle(s, "rejected")
Expire(s) == Settle(s, "expired")

Outage ==
    /\ reachable
    /\ reachable' = FALSE
    /\ UNCHANGED <<txs, signed>>

Recover ==
    /\ ~reachable
    /\ reachable' = TRUE
    /\ UNCHANGED <<txs, signed>>
=============================================================================
