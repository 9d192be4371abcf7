------------------------------- MODULE Rules -------------------------------
(***************************************************************************)
(* The rules for what a visitor writes: what Validate cleans and refuses,  *)
(* what the duplicate check compares, what fits one memo                   *)
(* (internal/chain/validate.go, internal/chain/memo.go), and the length    *)
(* the form checks first (web/src/components/LinkForm.tsx).                *)
(*                                                                         *)
(* A text is a sequence of runes, one or two for each class the code tells *)
(* apart; the link markers and the blocked words are one short text each,  *)
(* and the lengths are scaled down to match.  The only process is a        *)
(* visitor typing, so that the states are the texts.                       *)
(***************************************************************************)
EXTENDS Integers, Sequences, FiniteSetsExt

CONSTANTS
    minActLength, maxActLength, maxByLength,
    MaxMemo,     \* bytes of text, number and prev that fit one memo
    MaxDigits,   \* digits of the widest link number; 13 in the code
    MaxPrev,     \* bytes of the longest signature; 88 in the code
    MaxRunes     \* bound: runes typed into the two fields together

ASSUME RulesAssumption ==
    {minActLength, maxActLength, maxByLength, MaxMemo, MaxDigits, MaxPrev, MaxRunes}
        \subseteq Nat \ {0}

VARIABLES
    act,    \* the sentence as typed
    by      \* the name as typed

vars == <<act, by>>

Blank == " "
Space == {Blank, "newline"}     \* unicode.IsSpace
Invisible == {"zerowidth"}      \* control and format characters, RuneError
Punct == {"."}
Symbol == {"$"}
Letters == {"f", "F", "w"}
Rune == Space \cup Invisible \cup Punct \cup Symbol \cup Letters

linkMarkers == {<<"w", ".">>}
blocked == {<<"f", "f">>}

Bytes == [r \in Rune |-> IF r = "$" THEN 2 ELSE 1]    \* in UTF-8 and JSON
-----------------------------------------------------------------------------
(* validate.go *)

ToLower(s) == [i \in DOMAIN s |-> IF s[i] = "F" THEN "f" ELSE s[i]]

WriteEager(dropped, acc, r) ==    \* mutant: a dropped rune takes the space before it along
    IF r \in Space THEN [b |-> acc.b, pendingSpace |-> TRUE]
    ELSE IF r \in dropped THEN [b |-> acc.b, pendingSpace |-> FALSE]
    ELSE [b |-> acc.b \o (IF acc.pendingSpace /\ acc.b # <<>> THEN <<Blank, r>> ELSE <<r>>),
          pendingSpace |-> FALSE]

\* One round of the loop that normalize and fingerprint share: a run of
\* spaces, with what is dropped in between, becomes one blank before the next
\* rune written.
Write(dropped, acc, r) ==
    IF r \in Space THEN [b |-> acc.b, pendingSpace |-> TRUE]
    ELSE IF r \in dropped THEN acc
    ELSE [b |-> acc.b \o (IF acc.pendingSpace /\ acc.b # <<>> THEN <<Blank, r>> ELSE <<r>>),
          pendingSpace |-> FALSE]

\* The loop after the whole of s.
Written(dropped, s) ==
    LET after[k \in 0 .. Len(s)] ==
            IF k = 0 THEN [b |-> <<>>, pendingSpace |-> FALSE]
            ELSE Write(dropped, after[k - 1], s[k])
    IN  after[Len(s)]

Squeeze(dropped, s) == Written(dropped, s).b

normalize(s) == Squeeze(Invisible, s)

FingerprintAsTyped(s) == Squeeze(Punct \cup Symbol, ToLower(s))    \* mutant: not normalized

fingerprint(s) == Squeeze(Punct \cup Symbol, ToLower(normalize(s)))

Within(s, i, j, texts) == i =< j /\ SubSeq(s, i, j) \in texts

hasLink(s) == \E i, j \in DOMAIN s : Within(ToLower(s), i, j, linkMarkers)

\* A word is what letters stand between two runes that are none.
hasBlockedWord(s) ==
    \E i, j \in DOMAIN s :
        /\ Within(ToLower(s), i, j, blocked)
        /\ i = 1 \/ s[i - 1] \notin Letters
        /\ j = Len(s) \/ s[j + 1] \notin Letters

ValidateAsTyped(a, b) ==    \* mutant: the checks read the text as typed
    IF Len(normalize(a)) < minActLength THEN "too short"
    ELSE IF Len(normalize(a)) > maxActLength THEN "too long"
    ELSE IF Len(normalize(b)) > maxByLength THEN "name too long"
    ELSE IF hasLink(a) \/ hasLink(b) THEN "no links"
    ELSE IF hasBlockedWord(a) \/ hasBlockedWord(b) THEN "blocked word"
    ELSE "ok"

Validate(a, b) ==
    LET cleanAct == normalize(a)
        cleanBy == normalize(b)
    IN  IF Len(cleanAct) < minActLength THEN "too short"
        ELSE IF Len(cleanAct) > maxActLength THEN "too long"
        ELSE IF Len(cleanBy) > maxByLength THEN "name too long"
        ELSE IF hasLink(cleanAct) \/ hasLink(cleanBy) THEN "no links"
        ELSE IF hasBlockedWord(cleanAct) \/ hasBlockedWord(cleanBy) THEN "blocked word"
        ELSE "ok"
-----------------------------------------------------------------------------
(* memo.go: sizes only.  The braces, keys, version and time are of one     *)
(* length in every memo and are taken off MaxMemo.                         *)

Size(s) ==
    LET upTo[k \in 0 .. Len(s)] == IF k = 0 THEN 0 ELSE upTo[k - 1] + Bytes[s[k]]
    IN  upTo[Len(s)]

\* The bytes of a memo whose number has so many digits, after a prev so long.
encodeMemo(digits, a, b, prev) == digits + Size(a) + Size(b) + prev

FitsAsFirst(a, b) ==    \* mutant: measured with the number and prev of the first link
    encodeMemo(1, a, b, 1) =< MaxMemo

fitsOnChain(a, b) == encodeMemo(MaxDigits, a, b, MaxPrev) =< MaxMemo
-----------------------------------------------------------------------------
(* LinkForm.tsx *)

\* characters(act.trim())
FormTrimAll(s) ==    \* mutant: every space is taken off
    Cardinality({i \in DOMAIN s : s[i] \notin Space})

FormCount(s) ==
    LET solid == {i \in DOMAIN s : s[i] \notin Space}
    IN  IF solid = {} THEN 0 ELSE Max(solid) - Min(solid) + 1

FormTooShort(s) == FormCount(s) < minActLength
-----------------------------------------------------------------------------
Init ==
    /\ act = <<>>
    /\ by = <<>>

\* Bound: so many runes are typed.
Room == Len(act) + Len(by) < MaxRunes

TypeAct == Room /\ \E r \in Rune : act' = Append(act, r) /\ UNCHANGED by
TypeBy == Room /\ \E r \in Rune : by' = Append(by, r) /\ UNCHANGED act

Next == TypeAct \/ TypeBy

Spec == Init /\ [][Next]_vars
-----------------------------------------------------------------------------
(* What the loop is for, said without a loop: of s the runes neither space *)
(* nor dropped are kept, in their order, with one blank between two of     *)
(* them that have a space anywhere in between.                             *)
Kept(s, dropped) == {i \in DOMAIN s : s[i] \notin Space \cup dropped}

Gap(s, j, i) == \E k \in j .. i : s[k] \in Space

Apart(s, dropped) ==
    {i \in Kept(s, dropped) : \E j \in Kept(s, dropped) :
        /\ \A m \in Kept(s, dropped) : m < i <=> m =< j
        /\ Gap(s, j, i)}

UpTo(S, i) == Cardinality({j \in S : j =< i})

Place(s, dropped, i) == UpTo(Kept(s, dropped), i) + UpTo(Apart(s, dropped), i)

IsSqueezed(t, s, dropped) ==
    /\ Len(t) = Cardinality(Kept(s, dropped)) + Cardinality(Apart(s, dropped))
    /\ \A i \in Kept(s, dropped) : t[Place(s, dropped, i)] = s[i]
    /\ \A i \in Apart(s, dropped) : t[Place(s, dropped, i) - 1] = Blank

(* What goes on the chain is what was typed, trimmed, with single blanks   *)
(* and nothing invisible (the comment of normalize), and the duplicate     *)
(* check compares the letters in lower case and the gaps between words and *)
(* nothing else (the comment of fingerprint): its two passes come to one   *)
(* that drops punctuation, symbols and what is invisible at once.          *)
CleansAndComparesAsTold ==
    /\ IsSqueezed(normalize(act), act, Invisible)
    /\ IsSqueezed(fingerprint(act), ToLower(act), Invisible \cup Punct \cup Symbol)

(* handleAdd asks for the duplicate and validates before any limit is      *)
(* charged, with the text as typed; Add asks the same again of the cleaned *)
(* text, and Start fingerprints older rows from it.  The answers agree: of *)
(* the same rows, neither check finds a duplicate or a fault the other one *)
(* does not.  (A duplicate that comes in between the two is charged.)      *)
ChecksAgree ==
    /\ fingerprint(normalize(act)) = fingerprint(act)
    /\ Validate(normalize(act), normalize(by)) = Validate(act, by)

(* A link or a blocked word is refused in either field, however invisible  *)
(* runes, spaces around it or capitals hide it in what was typed.          *)
Show(u, r) == IF r \in Invisible THEN u ELSE Append(u, r)

Seen(s) ==
    LET upTo[k \in 0 .. Len(s)] ==
            IF k = 0 THEN <<>> ELSE Show(upTo[k - 1], ToLower(s)[k])
    IN  upTo[Len(s)]

NothingHidden ==
    Validate(act, by) = "ok" =>
        \A s \in {act, by} : ~hasLink(Seen(s)) /\ ~hasBlockedWord(Seen(s))

(* A sentence the form refuses as too short the server would refuse too:   *)
(* the form may answer before a request is made (the comment on the        *)
(* messages in validate.go).                                               *)
FormKnowsTooShort == FormTooShort(act) => Validate(act, by) = "too short"

(* What Add takes fits its memo whatever number it gets and whatever link  *)
(* it follows: the worker never has to fail a visitor's sentence for its   *)
(* length, which ChainService relies on (TooLarge).                        *)
WhatIsTakenFits ==
    fitsOnChain(normalize(act), normalize(by)) =>
        \A digits \in 1 .. MaxDigits, prev \in 1 .. MaxPrev :
            encodeMemo(digits, normalize(act), normalize(by), prev) =< MaxMemo
=============================================================================
