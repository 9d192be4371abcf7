------------------------------ MODULE LinkStore ------------------------------
(***************************************************************************)
(* The table "links" in SQLite: the rows that survive a restart.           *)
(*                                                                         *)
(* A row is never deleted.  The memo column is left out: it is the text of *)
(* the row's own number, sentence and prev.  created_at is abstracted to   *)
(* "horizon": the links numbered from horizon up were added within the     *)
(* last day.  Each operation is one SQL statement, so one atomic step.     *)
(***************************************************************************)
EXTENDS ChainTypes, FiniteSets

VARIABLES
    links,      \* row of each number; status "none" where there is no row
    horizon     \* the oldest link number that is less than a day old

storeVars == <<links, horizon>>

Status == {"none", "pending", "confirmed", "failed"}

Row == [status : Status,
        act    : AllActs,
        sig    : Sig \cup {NoSig},
        prev   : Prev \cup {NoSig}]

NoRow == [status |-> "none", act |-> PledgeAct, sig |-> NoSig, prev |-> NoSig]

NewRow(act) == [NoRow EXCEPT !.status = "pending", !.act = act]

StoreTypeOK ==
    /\ links \in [Num -> Row]
    /\ horizon \in 0 .. MaxLinks + 1

StoreInit ==
    /\ links = [n \in Num |-> NoRow]
    /\ horizon = 0
-----------------------------------------------------------------------------
(* Queries *)

With(status) == {n \in Num : links[n].status = status}

Stored == {n \in Num : links[n].status # "none"}

\* PendingInOrder; the order is IsRefill's.
EveryRow == Stored    \* mutant: the query forgets the status
PendingLinks == With("pending")

\* LastConfirmed: the signature of the highest numbered confirmed link, which
\* the worker turns into "genesis" while there is none.
IsHeadOldest(s) ==    \* mutant: the order of the query is turned around
    \/ With("confirmed") = {} /\ s = Genesis
    \/ \E n \in With("confirmed") :
          /\ \A m \in With("confirmed") : n =< m
          /\ s = links[n].sig

IsHeadLatest(s) ==    \* mutant: the link that was confirmed last
    \/ With("confirmed") = {} /\ s = Genesis
    \/ \E n \in With("confirmed") :
          /\ \A m \in With("confirmed") : links[m].sig =< links[n].sig
          /\ s = links[n].sig

IsHead(s) ==
    \/ With("confirmed") = {} /\ s = Genesis
    \/ \E n \in With("confirmed") :
          /\ \A m \in With("confirmed") : m =< n
          /\ s = links[n].sig

\* The same sentence was added within a day and has not failed.
SeenOnChain(act) ==    \* mutant: links on their way do not count
    \E n \in With("confirmed") : n >= horizon /\ links[n].act = act

SeenSince(act) ==
    \E n \in Stored : n >= horizon /\ links[n].act = act /\ links[n].status # "failed"

\* The links Counts tallies: link #0 is on the chain but does not count.
Counted == With("confirmed") \ {0}

\* The rowid SQLite gives the next row.
IsNextNumber(n) ==
    /\ \A m \in Stored : m < n
    /\ n # 0 => n - 1 \in Stored
-----------------------------------------------------------------------------
(* Statements.  Each says what links becomes; a guard that fails is the    *)
(* statement affecting no row.                                             *)

InsertGenesis ==
    links' = IF Stored = {} THEN [links EXCEPT ![0] = NewRow(PledgeAct)] ELSE links

Insert(n, act) ==
    /\ IsNextNumber(n)
    /\ links' = [links EXCEPT ![n] = NewRow(act)]

MarkConfirmedOnly(n, sig, prev) ==    \* mutant: prev_signature is not set
    /\ links[n].status = "pending"
    /\ links' = [links EXCEPT ![n].status = "confirmed", ![n].sig = sig]

MarkConfirmed(n, sig, prev) ==
    /\ links[n].status = "pending"
    /\ links' = [links EXCEPT ![n].status = "confirmed", ![n].sig = sig, ![n].prev = prev]

MarkFailed(n) ==
    /\ links[n].status = "pending"
    /\ links' = [links EXCEPT ![n].status = "failed"]

\* A day goes by: the links below h leave the duplicate window.
DayPasses(h) ==
    /\ h > horizon
    /\ h - 1 \in Stored
    /\ horizon' = h
=============================================================================
