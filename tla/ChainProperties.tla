--------------------------- MODULE ChainProperties ---------------------------
(***************************************************************************)
(* What is asked of ChainService.                                          *)
(***************************************************************************)
EXTENDS ChainService

Confirmed == With("confirmed")

(* A confirmed link is on the ledger under its signature, and the memo     *)
(* there says what the row says: number, sentence and prev.  MarkConfirmed *)
(* comes after SendMemo, with crashes, late answers and lost records in    *)
(* between; /api/verify and the walk rely on it.                           *)
ConfirmedIsOnLedger ==
    \A n \in Confirmed :
        /\ links[n].sig \in Landed
        /\ txs[links[n].sig].memo = [n |-> n, act |-> links[n].act, prev |-> links[n].prev]

(* A memo points at the link that was the head of the chain when it was    *)
(* written: the highest numbered of the links confirmed before it, or      *)
(* "genesis" if there was none.  The worker reads the head once and may    *)
(* send many times, later, so this rests on there being one worker.        *)
Before(n) == {m \in Confirmed : links[m].sig < links[n].sig}

PrevIsHead ==
    \A n \in Confirmed :
        \/ Before(n) = {} /\ links[n].prev = Genesis
        \/ \E m \in Before(n) :
              /\ \A k \in Before(n) : k =< m
              /\ links[n].prev = links[m].sig

(* Why the two hold, as one inductive invariant:                           *)
(*   - rows fill the numbers from 0 without a gap;                         *)
(*   - a signature the worker has given out carries a memo that points at  *)
(*     "genesis" or at a memo the ledger already has;                      *)
(*   - from reading the head of the chain until the link is settled, the   *)
(*     worker's link stays pending and the head stays what its memo says;  *)
(*   - while it waits for a transaction, that one is the newest;           *)
(*   - the process serves visitors only once the pledge has its row.       *)
(* All this a loss of power leaves true (PowerLoss).  Not so the rest of   *)
(* IInv: that each memo is that of a row.                                  *)
RowsFill ==
    \A n \in Num :
        /\ links[n].status = "none" => links[n] = NoRow
        /\ links[n].status # "none" => \A m \in Num : m < n => links[m].status # "none"

Signed ==
    \A s \in Sig :
        IF s =< signed
        THEN /\ txs[s].state # "unsigned"
             /\ txs[s].memo \in Memo
             /\ txs[s].memo.prev \in Landed \cup {Genesis}
        ELSE txs[s].state = "unsigned"

InHand ==
    at \in {"sending", "waiting", "confirming", "failing", "backoff", "pausing"} =>
        /\ memo \in Memo
        /\ links[memo.n].status = "pending"
        /\ links[memo.n].act = memo.act
        /\ IsHead(memo.prev)

Newest ==
    at \in {"waiting", "confirming"} =>
        /\ sig = signed
        /\ sig \in Sig
        /\ txs[sig].memo = memo
        /\ \A n \in Confirmed : links[n].sig < sig
        /\ at = "confirming" => txs[sig].state = "landed"

Admitted ==
    /\ mode # "down" => 0 \in Stored
    /\ \A v \in Visitors : visit[v] # NoVisit => mode # "down" /\ visit[v].act \in Acts

Durable ==
    /\ TypeOK
    /\ ConfirmedIsOnLedger
    /\ PrevIsHead
    /\ RowsFill
    /\ Signed
    /\ InHand
    /\ Newest
    /\ Admitted

SignedRows ==
    \A s \in Sig :
        s =< signed =>
            /\ links[txs[s].memo.n].status # "none"
            /\ links[txs[s].memo.n].act = txs[s].memo.act

IInv == Durable /\ SignedRows

(* A number in the queue is that of a pending link, is there once, and is  *)
(* not the link in the worker's hands: Start, Add and the worker between   *)
(* them never hand out a link twice.                                       *)
QueueSound ==
    /\ \A i \in DOMAIN queue : links[queue[i]].status = "pending" /\ queue[i] # memo.n
    /\ \A i, j \in DOMAIN queue : queue[i] = queue[j] => i = j

(* The rows and the ledger as the public sees them. *)
Public == INSTANCE PublicChain WITH
    rows <- links,
    ledger <- [s \in Sig |-> IF txs[s].state = "landed" THEN txs[s].memo ELSE NoMemo]

(* Every step of the server, the cluster and their failures is a step of   *)
(* the public chain or changes nothing the public sees.                    *)
KeepsItsPromise == Public!PublicSpec

(* Every memo points at the link before it: of two confirmed links with no *)
(* confirmed link between them, the later one points at the earlier one,   *)
(* and the first points at "genesis".  The package comment of chain.go     *)
(* promises it, and a walk from the head only counts every link if it is   *)
(* so.                                                                     *)
EachPointsAtTheOneBefore ==
    \A n \in Confirmed :
        \/ (\A m \in Confirmed : n =< m) /\ links[n].prev = Genesis
        \/ \E m \in Confirmed :
              /\ m < n
              /\ \A k \in Confirmed : k < n => k =< m
              /\ links[n].prev = links[m].sig

(* README.md (Anti-abuse 4) promises that a sentence is taken once in a    *)
(* day unless the chain refused it.  Of requests that overlap that is not  *)
(* so: each passes the check of Add before any of them inserts its row.    *)
(* What holds is that it is taken at most once for each of the requests    *)
(* that can run at the same time, however they are spread over the day,    *)
(* and whatever fails, stops or is lost in between.  The pledge, which     *)
(* nobody submitted, is not counted.                                       *)
Repeats(act) ==
    {n \in Stored : /\ n # 0 /\ n >= horizon
                    /\ links[n].act = act /\ links[n].status # "failed"}

RepeatsAreSimultaneous ==
    \A act \in Acts : Cardinality(Repeats(act)) =< Cardinality(Visitors)

(* While the process runs, a pending link is in the queue, in the worker's *)
(* hands or in those of the handler about to queue it: nothing is left     *)
(* behind until the next start.                                            *)
NothingStranded ==
    mode = "up" =>
        \A n \in With("pending") :
            \/ \E i \in DOMAIN queue : queue[i] = n
            \/ memo.n = n
            \/ \E v \in Visitors : visit[v].pc = "stored" /\ visit[v].n = n

(* The ledger holds at most one memo for a link, through shutdowns while   *)
(* it is sent and retries after an expiry.  (A late answer or a kill may   *)
(* lead to a second one: the code retries what may still land.)            *)
OneMemoPerLink ==
    \A s, t \in Landed : txs[s].memo.n = txs[t].memo.n => s = t

(* A link marked failed is not on the ledger, as long as every call is     *)
(* answered in time and no process killed: otherwise an earlier memo of it *)
(* may have landed that the worker does not know of.                       *)
FailedNotOnChain ==
    \A s \in Landed : links[txs[s].memo.n].status # "failed"

(* Once the worker is done with a link, a page that stayed connected has   *)
(* been told the count and the flag as they are now.                       *)
StatsCurrent ==
    at = "idle" => published = StatsNow

(* A pending link is settled in the end, through outages, restarts and     *)
(* expired transactions: retries neither stop nor starve another link.     *)
EveryLinkSettles ==
    \A n \in Num : links[n].status = "pending" ~> links[n].status \in {"confirmed", "failed"}

(* The worker lets go of a link in the end, so the links behind it get      *)
(* their turn: the retry loop of process does not go round for ever.        *)
NoLinkHoldsUpTheRest == \A n \in Num : memo.n = n ~> memo.n # n
=============================================================================
