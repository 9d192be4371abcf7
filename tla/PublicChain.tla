----------------------------- MODULE PublicChain -----------------------------
(***************************************************************************)
(* What the site promises about its chain, with no process in sight:       *)
(*   - a link gets the next number, and what it says never changes;        *)
(*   - the ledger only ever gets memos that repeat a link and point at     *)
(*     "genesis" or at a memo the ledger already has;                      *)
(*   - a link is recorded as confirmed with a memo the ledger has, and     *)
(*     that memo points at the head of the chain at that moment;           *)
(*   - a link is settled, confirmed or failed, at most once.               *)
(***************************************************************************)
EXTENDS ChainTypes

VARIABLES
    rows,      \* the public row of each number
    ledger     \* the memo under each signature

publicVars == <<rows, ledger>>

Absent == [status |-> "none", act |-> PledgeAct, sig |-> NoSig, prev |-> NoSig]

OnLedger == {s \in Sig : ledger[s] # NoMemo}

Recorded == {n \in Num : rows[n].status = "confirmed"}

HeadOfChain(s) ==
    \/ Recorded = {} /\ s = Genesis
    \/ \E n \in Recorded : (\A m \in Recorded : m =< n) /\ s = rows[n].sig

PublicInit ==
    /\ rows = [n \in Num |-> Absent]
    /\ ledger = [s \in Sig |-> NoMemo]

Admit(n, act) ==
    /\ rows[n] = Absent
    /\ \A m \in Num : m < n <=> rows[m] # Absent
    /\ rows' = [rows EXCEPT ![n] = [Absent EXCEPT !.status = "pending", !.act = act]]
    /\ UNCHANGED ledger

Write(s, n, prev) ==
    /\ ledger[s] = NoMemo
    /\ rows[n] # Absent
    /\ prev \in OnLedger \cup {Genesis}
    /\ ledger' = [ledger EXCEPT ![s] = [n |-> n, act |-> rows[n].act, prev |-> prev]]
    /\ UNCHANGED rows

Record(n, s) ==
    /\ rows[n].status = "pending"
    /\ s \in OnLedger
    /\ ledger[s].n = n
    /\ HeadOfChain(ledger[s].prev)
    /\ \A m \in Recorded : rows[m].sig < s
    /\ rows' = [rows EXCEPT ![n].status = "confirmed",
                            ![n].sig = s,
                            ![n].prev = ledger[s].prev]
    /\ UNCHANGED ledger

Refuse(n) ==
    /\ rows[n].status = "pending"
    /\ rows' = [rows EXCEPT ![n].status = "failed"]
    /\ UNCHANGED ledger

PublicNext ==
    \/ Admit(0, PledgeAct)
    \/ \E n \in Num \ {0}, act \in Acts : Admit(n, act)
    \/ \E s \in Sig, n \in Num, prev \in Prev : Write(s, n, prev)
    \/ \E n \in Num, s \in Sig : Record(n, s)
    \/ \E n \in Num : Refuse(n)

PublicSpec == PublicInit /\ [][PublicNext]_publicVars
=============================================================================
