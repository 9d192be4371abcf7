------------------------------ MODULE PowerLoss ------------------------------
(***************************************************************************)
(* ChainService on a machine that can lose power.  Open (internal/store/   *)
(* store.go) sets journal_mode(WAL) and synchronous(NORMAL): SQLite then   *)
(* syncs at a checkpoint and not at a commit, so that a loss of power      *)
(* takes the statements since the last checkpoint back, the latest first.  *)
(* The numbers of rows that are gone are given out again.                  *)
(***************************************************************************)
EXTENDS ChainProperties, FiniteSetsExt

CONSTANT MaxLost    \* bound: statements one loss of power takes back

ASSUME LostAssumption == MaxLost \in Nat \ {0}

VARIABLE unsynced    \* the tables before each statement not yet synced, latest first,
                     \* a sequence of at most MaxLost functions [Num -> Row]

powerVars == <<vars, unsynced>>

PowerInit ==
    /\ Init
    /\ unsynced = <<>>
-----------------------------------------------------------------------------
\* A step of ChainService; a statement that changed the table is not synced.
\* A process that returns from run closes the store, which makes a checkpoint.
ServiceStep ==
    /\ Next
    /\ unsynced' = IF Exit \/ ExitAnyway \/ StartFails THEN <<>>
                   ELSE IF links' = links THEN unsynced
                   ELSE SubSeq(<<links>> \o unsynced, 1, Min({MaxLost, Len(unsynced) + 1}))

\* SQLite makes a checkpoint when the log has grown.
Checkpoint ==
    /\ unsynced # <<>>
    /\ unsynced' = <<>>
    /\ UNCHANGED vars

\* The table is what it was i statements ago, and the process is gone.
LosePower(i) ==
    /\ Trouble("crash")
    /\ links' = unsynced[i]
    /\ unsynced' = SubSeq(unsynced, i + 1, Len(unsynced))
    /\ horizon' = Min({horizon, Cardinality(Stored')})
    /\ mode' = "down"
    /\ queue' = <<>>
    /\ paused' = FALSE
    /\ Rest("stopped")
    /\ visit' = [v \in Visitors |-> NoVisit]
    /\ UNCHANGED <<clusterVars, published>>

PowerNext ==
    \/ ServiceStep
    \/ Checkpoint
    \/ \E i \in DOMAIN unsynced : LosePower(i)

PowerSpec == PowerInit /\ [][PowerNext]_powerVars
=============================================================================
