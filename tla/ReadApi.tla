------------------------------- MODULE ReadApi -------------------------------
(***************************************************************************)
(* Those who only read: GET /api/stats, whose answer is put together from  *)
(* three reads (Stats in internal/chain/chain.go), GET /api/verify/{n}     *)
(* (internal/httpapi/links.go), and the command that takes the head of the *)
(* chain from the stats and walks the ledger back to genesis               *)
(* (cmd/walkchain/main.go), while the server of ChainService goes on.      *)
(*                                                                         *)
(* One reader at a time: readers do not see each other.  A devnet reset,   *)
(* which handleVerify knows of, takes away what had landed, once.          *)
(***************************************************************************)
EXTENDS ChainProperties, TLC

VARIABLES
    reader,    \* the request or the command under way
    gone       \* the transactions a reset of the cluster took away

readVars == <<vars, reader, gone>>

(* What a reader holds: "counted" after Counts, "headed" after             *)
(* LastConfirmed, "answered" with the whole of Stats; "row" after Get, for *)
(* a link that is confirmed.                                               *)
NoReader == [at |-> "none", counted |-> {}, pending |-> {}, head |-> Genesis,
             paused |-> FALSE, row |-> NoRow, n |-> -1]

ReadInit ==
    /\ Init
    /\ reader = NoReader
    /\ gone = {}
-----------------------------------------------------------------------------
(* Stats *)

ReadCounts ==
    /\ mode # "down"
    /\ reader = NoReader
    /\ reader' = [NoReader EXCEPT !.at = "counted", !.counted = Counted,
                                  !.pending = PendingLinks]
    /\ UNCHANGED <<vars, gone>>

ReadHeadAndCountAgain ==    \* mutant: the counts are read after the head
    /\ reader.at = "headed"
    /\ reader' = [reader EXCEPT !.at = "answered", !.counted = Counted,
                                !.paused = paused]
    /\ UNCHANGED <<vars, gone>>

ReadHead ==
    /\ reader.at = "counted"
    /\ \E s \in Prev : IsHead(s) /\ reader' = [reader EXCEPT !.at = "headed", !.head = s]
    /\ UNCHANGED <<vars, gone>>

ReadPaused ==
    /\ reader.at = "headed"
    /\ reader' = [reader EXCEPT !.at = "answered", !.paused = paused]
    /\ UNCHANGED <<vars, gone>>
-----------------------------------------------------------------------------
(* handleVerify *)

\* lookup finds the row, and it is confirmed.
Lookup ==
    /\ mode # "down"
    /\ reader = NoReader
    /\ \E n \in Confirmed :
          reader' = [NoReader EXCEPT !.at = "row", !.row = links[n], !.n = n]
    /\ UNCHANGED <<vars, gone>>

\* GetMemo finds the transaction.
Readable(s) == s \in Landed \ gone

\* The stored memo against the one on the chain.
Verdict ==
    IF ~Readable(reader.row.sig) THEN "unknown"
    ELSE IF txs[reader.row.sig].memo
              = [n |-> reader.n, act |-> reader.row.act, prev |-> reader.row.prev]
         THEN "matches" ELSE "differs"
-----------------------------------------------------------------------------
(* walk: the links found below signature s, and what did not add up. *)

Walk[s \in Prev] ==
    IF ~Readable(s) THEN [found |-> {}, problems |-> {"unread"}]
    ELSE LET m == txs[s].memo IN
         IF m.prev = Genesis
         THEN [found |-> {m.n}, problems |-> {p \in {"not at #0"} : m.n # 0}]
         ELSE LET below == Walk[m.prev] IN
              [found |-> {m.n} \cup below.found,
               problems |-> below.problems \cup
                  {p \in {"not older"} : Readable(m.prev) /\ txs[m.prev].memo.n >= m.n}]

\* The site reports a head, and the command walks from there.
Walks == reader.at = "answered" /\ reader.head # Genesis

FromHead == Walk[reader.head]
-----------------------------------------------------------------------------
\* The request is answered, or the reader goes away.
Done ==
    /\ reader # NoReader
    /\ reader' = NoReader
    /\ UNCHANGED <<vars, gone>>

\* Bound: once, and not while the worker waits for a transaction.
ClusterReset ==
    /\ gone = {}
    /\ at # "waiting"
    /\ \A s \in Sig : txs[s].state # "sent"
    /\ gone' = Landed
    /\ UNCHANGED <<vars, reader>>

\* A step of the server: its requests end with the process, a walk does not.
ServerStep ==
    /\ Next
    /\ reader' = IF mode' = "down" /\ reader.at # "answered" THEN NoReader ELSE reader
    /\ UNCHANGED gone

ReadNext ==
    \/ ServerStep \/ ClusterReset
    \/ ReadCounts \/ ReadHead \/ ReadPaused \/ Lookup \/ Done

ReadSpec == ReadInit /\ [][ReadNext]_readVars
-----------------------------------------------------------------------------
(* A walk from the head the site reports never finds a memo that points at *)
(* a later link, and never ends above the pledge; only a reset of the      *)
(* cluster breaks it off.  This holds even when links were written out of  *)
(* order, as long as the pledge was the first.                             *)
PledgeFirst == 0 \in Confirmed /\ \A n \in Confirmed : links[0].sig =< links[n].sig

WalkIsClean ==
    (Walks /\ PledgeFirst) =>
        \/ FromHead.problems = {}
        \/ FromHead.problems = {"unread"} /\ gone # {}

(* The walk finds every link the site counts (the counts are read before   *)
(* the head), provided the links were written in the order of their        *)
(* numbers.  What it finds beyond those was confirmed meanwhile.           *)
InOrder == \A m, n \in Confirmed : m < n => links[m].sig < links[n].sig

WalkFindsWhatIsCounted ==
    (Walks /\ InOrder /\ gone = {}) => reader.counted \subseteq FromHead.found

(* Verify never says that the chain differs from the stored link, and does *)
(* not know a transaction only after a reset.                              *)
VerifyNeverDiffers ==
    reader.at = "row" =>
        \/ Verdict = "matches"
        \/ Verdict = "unknown" /\ gone # {}

(* "The whole chain can be walked and counted by anyone" (README.md): the  *)
(* same, in whatever order the links were written.                         *)
CountedByAnyone ==
    (Walks /\ gone = {}) => reader.counted \subseteq FromHead.found

\* Visitors are alike, and so are sentences.
Alike == Permutations(Visitors) \cup Permutations(Acts)
=============================================================================
