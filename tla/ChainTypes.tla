----------------------------- MODULE ChainTypes -----------------------------
(***************************************************************************)
(* The data of the chain: link numbers, transaction signatures and memos.  *)
(*                                                                         *)
(* A signature is a positive number given out in the order the worker     *)
(* signs, so that "signed earlier" is "<".  0 is the word "genesis" that  *)
(* link #0 points at.  A memo keeps the three fields the chain is built   *)
(* from (number, sentence and the signature it points at); author and     *)
(* time travel with the sentence and are left out.                        *)
(***************************************************************************)
EXTENDS Integers

CONSTANTS
    MaxLinks,    \* bound: highest link number a row can get
    MaxSends,    \* bound: transactions the worker may sign in one behaviour
    Acts,        \* the sentences visitors submit, up to their fingerprint
    PledgeAct    \* the wording of the pledge, link #0

ASSUME BoundsAssumption == MaxLinks \in Nat /\ MaxSends \in Nat

Num == 0 .. MaxLinks
Sig == 1 .. MaxSends
AllActs == Acts \cup {PledgeAct}

Genesis == 0    \* what the first memo's prev says
NoSig == -1     \* a NULL column

Prev == Sig \cup {Genesis}

Memo == [n : Num, act : AllActs, prev : Prev]

\* no memo at hand
NoMemo == [n |-> -1, act |-> PledgeAct, prev |-> Genesis]
=============================================================================
