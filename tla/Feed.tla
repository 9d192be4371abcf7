-------------------------------- MODULE Feed --------------------------------
(***************************************************************************)
(* The list of a page that has more links behind it than one page holds:   *)
(* the first page, "load older", the link named in the address, events and *)
(* the visitor's own link, all changing one list (web/src/App.tsx,         *)
(* Feed.tsx, api.ts) against handleList and ListDesc (httpapi/links.go,    *)
(* store/links.go).                                                        *)
(*                                                                         *)
(* Page has what the list says of each link; here there is left which      *)
(* links it shows.  The rows of the store are 0 .. newest.                 *)
(***************************************************************************)
EXTENDS Integers, SequencesExt

CONSTANTS
    MaxLinks,    \* bound: highest link number
    PageSize,    \* links on a page; 50 in the code
    MaxCalls     \* bound: requests of the page under way at a time

ASSUME FeedAssumption == MaxLinks \in Nat /\ {PageSize, MaxCalls} \subseteq Nat \ {0}

VARIABLES
    newest,      \* the newest link stored
    settled,     \* the links the worker is done with
    links,       \* the numbers shown, as listed
    hasMore,     \* is there a button for older links?
    loading,     \* the flag that disables it
    highlight,   \* the link named in the address, or None
    calls,       \* the requests under way
    base,        \* the newest link of the first page the list was last set to
    strayed      \* did the list take a link that leaves a gap below base?

storeVars == <<newest, settled>>
vars == <<storeVars, links, hasMore, loading, highlight, calls, base, strayed>>

Num == 0 .. MaxLinks
None == -1

\* A request: for the first page, for the page below number n, for link n, or
\* to add link n.  seen is the newest link when the server answered.
Call == [kind : {"first", "older", "link", "post"}, n : Num \cup {None}, seen : Num \cup {None}]

NewCall(kind, n) == [kind |-> kind, n |-> n, seen |-> None]

TypeOK ==
    /\ newest \in Num
    /\ settled \subseteq 0 .. newest
    /\ links \in Seq(0 .. newest)
    /\ hasMore \in BOOLEAN
    /\ loading \in BOOLEAN
    /\ highlight \in Num \cup {None}
    /\ calls \in Seq(Call)
    /\ Len(calls) =< MaxCalls
    /\ base \in Num \cup {None}
    /\ strayed \in BOOLEAN

\* The page was mounted: loadFirstPage is under way.  Earlier links may wait.
Init ==
    /\ newest \in Num
    /\ settled \in {0 .. n : n \in None .. newest}
    /\ links = <<>>
    /\ hasMore = FALSE
    /\ loading = TRUE
    /\ highlight \in Num \cup {None}
    /\ calls = <<NewCall("first", None)>>
    /\ base = None
    /\ strayed = FALSE
-----------------------------------------------------------------------------
(* The server *)

ListAsc(before, limit, last) ==    \* mutant: the rows come oldest first
    LET below == IF before =< 0 THEN last + 1 ELSE before
        size == Min({limit, below})
    IN  [i \in 1 .. size |-> size - i]

\* Up to limit links numbered below before, newest first; last is the newest.
ListDesc(before, limit, last) ==
    LET below == IF before =< 0 THEN last + 1 ELSE before
    IN  [i \in 1 .. Min({limit, below}) |-> below - i]

handleListExact(before, last) ==    \* mutant: the extra row is not asked for
    LET rows == ListDesc(before, PageSize, last)
    IN  [links |-> rows, hasMore |-> Len(rows) > PageSize]

\* One extra row tells whether an older page exists.
handleList(before, last) ==
    LET rows == ListDesc(before, PageSize + 1, last)
        more == Len(rows) > PageSize
    IN  [links |-> IF more THEN SubSeq(rows, 1, PageSize) ELSE rows, hasMore |-> more]

Answer(i) ==
    /\ calls[i].seen = None
    /\ calls' = [calls EXCEPT ![i].seen = newest]
    /\ UNCHANGED <<storeVars, links, hasMore, loading, highlight, base, strayed>>
-----------------------------------------------------------------------------
(* The list *)

byNewest(m, n) == m > n

\* The elements of list at the positions ahead is defined for, each after the
\* ones ahead of it.
Ordered(list, ahead) ==
    [k \in 1 .. Cardinality(DOMAIN ahead) |->
        list[CHOOSE i \in DOMAIN ahead : Cardinality(ahead[i]) = k - 1]]

\* sort(byNewest); equals keep their order.
Sorted(list) ==
    Ordered(list, [i \in DOMAIN list |->
                      {j \in DOMAIN list : \/ byNewest(list[j], list[i])
                                           \/ list[j] = list[i] /\ j < i}])

\* filter: what is not shown yet.
Without(list, shown) ==
    LET kept == {i \in DOMAIN list : list[i] \notin shown}
    IN  Ordered(list, [i \in kept |-> {j \in kept : j < i}])

\* The effect for the link named in the address runs when its dependencies
\* changed: it is fetched on its own unless it is shown or a page is loading.
Shown(list) == highlight \in ToSet(list)

EffectOnEveryRender(others) ==    \* mutant: no list of dependencies
    calls' = IF highlight # None /\ ~loading' /\ ~Shown(links')
             THEN Append(others, NewCall("link", highlight))
             ELSE others

Effect(others) ==
    calls' = IF /\ <<loading', Shown(links')>> # <<loading, Shown(links)>>
                /\ highlight # None /\ ~loading' /\ ~Shown(links')
             THEN Append(others, NewCall("link", highlight))
             ELSE others

\* A link that comes alone leaves a gap if it comes below the oldest one.
LeavesGap(n) == links # <<>> /\ n < Last(links) - 1

upsert(n) ==
    /\ links' = IF n \in ToSet(links) THEN links
                ELSE IF links = <<>> \/ n > Head(links) THEN <<n>> \o links
                ELSE Sorted(Append(links, n))
    /\ strayed' = (strayed \/ LeavesGap(n))

\* loadFirstPage: the answers to both of its requests are there.
Loaded(i) ==
    /\ calls[i].kind = "first"
    /\ calls[i].seen # None
    /\ LET page == handleList(None, calls[i].seen) IN
          /\ links' = page.links
          /\ hasMore' = page.hasMore
    /\ base' = calls[i].seen
    /\ strayed' = FALSE
    /\ loading' = FALSE
    /\ Effect(RemoveAt(calls, i))
    /\ UNCHANGED <<storeVars, highlight>>

\* The button.  A before of 0 is no before in api.links.
LoadOlder ==
    /\ hasMore /\ ~loading
    /\ links # <<>>
    /\ Len(calls) < MaxCalls
    /\ loading' = TRUE
    /\ calls' = Append(calls, NewCall("older", Last(links)))
    /\ UNCHANGED <<storeVars, links, hasMore, highlight, base, strayed>>

LoadedOlderUnfiltered(i) ==    \* mutant: what is shown already is not filtered out
    /\ calls[i].kind = "older"
    /\ calls[i].seen # None
    /\ LET page == handleList(calls[i].n, calls[i].seen) IN
          /\ links' = Sorted(links \o page.links)
          /\ hasMore' = page.hasMore
    /\ strayed' = (strayed \/ (links # <<>> /\ calls[i].n < Last(links)))
    /\ loading' = FALSE
    /\ Effect(RemoveAt(calls, i))
    /\ UNCHANGED <<storeVars, highlight, base>>

\* The older page joins the list, which may not be the one it was asked for.
LoadedOlder(i) ==
    /\ calls[i].kind = "older"
    /\ calls[i].seen # None
    /\ LET page == handleList(calls[i].n, calls[i].seen) IN
          /\ links' = Sorted(links \o Without(page.links, ToSet(links)))
          /\ hasMore' = page.hasMore
    /\ strayed' = (strayed \/ (links # <<>> /\ calls[i].n < Last(links)))
    /\ loading' = FALSE
    /\ Effect(RemoveAt(calls, i))
    /\ UNCHANGED <<storeVars, highlight, base>>

\* A page does not come: loadFirstPage and loadOlder only end the loading.
LoadFails(i) ==
    /\ calls[i].kind \in {"first", "older"}
    /\ loading' = FALSE
    /\ UNCHANGED <<storeVars, links, hasMore, highlight, base, strayed>>
    /\ Effect(RemoveAt(calls, i))

\* The link named in the address, or the visitor's own, is answered.
GotLink(i) ==
    /\ calls[i].kind \in {"link", "post"}
    /\ calls[i].seen # None
    /\ IF calls[i].n =< calls[i].seen THEN upsert(calls[i].n)
                                      ELSE UNCHANGED <<links, strayed>>
    /\ UNCHANGED <<storeVars, hasMore, loading, highlight, base>>
    /\ Effect(RemoveAt(calls, i))

LinkFails(i) ==
    /\ calls[i].kind \in {"link", "post"}
    /\ calls' = RemoveAt(calls, i)
    /\ UNCHANGED <<storeVars, links, hasMore, loading, highlight, base, strayed>>
-----------------------------------------------------------------------------
(* Visitors, the worker and the stream *)

Store ==
    /\ newest < MaxLinks
    /\ newest' = newest + 1
    /\ UNCHANGED settled

OtherSubmits ==
    /\ Store
    /\ UNCHANGED <<links, hasMore, loading, highlight, calls, base, strayed>>

Submit ==
    /\ Len(calls) < MaxCalls
    /\ \A i \in DOMAIN calls : calls[i].kind # "post"
    /\ Store
    /\ calls' = Append(calls, NewCall("post", newest'))
    /\ UNCHANGED <<links, hasMore, loading, highlight, base, strayed>>

Settle(n) ==
    /\ n \in 0 .. newest
    /\ n \notin settled
    /\ settled' = settled \cup {n}
    /\ UNCHANGED newest

\* onLink
OnLink(n) ==
    /\ Settle(n)
    /\ upsert(n)
    /\ UNCHANGED <<hasMore, loading, highlight, base>>
    /\ Effect(calls)

\* The stream is down or behind and the event is lost.
Unheard(n) ==
    /\ Settle(n)
    /\ UNCHANGED <<links, hasMore, loading, highlight, calls, base, strayed>>

\* onReconnect
OnReconnect ==
    /\ Len(calls) < MaxCalls
    /\ calls' = Append(calls, NewCall("first", None))
    /\ UNCHANGED <<storeVars, links, hasMore, loading, highlight, base, strayed>>

Next ==
    \/ \E i \in DOMAIN calls :
          \/ Answer(i) \/ Loaded(i) \/ LoadedOlder(i) \/ LoadFails(i)
          \/ GotLink(i) \/ LinkFails(i)
    \/ LoadOlder \/ OtherSubmits \/ Submit \/ OnReconnect
    \/ \E n \in Num : OnLink(n) \/ Unheard(n)

Spec == Init /\ [][Next]_vars
-----------------------------------------------------------------------------
(* Each link is shown once, newest first, whichever of the five sources    *)
(* brought it and in whatever order their answers came (byNewest, the      *)
(* filter in loadOlder).                                                   *)
NewestFirst == \A i, j \in DOMAIN links : i < j => links[i] > links[j]

(* From the newest link of the first page down to the oldest link shown    *)
(* nothing is left out: "load older" goes on where the list ends, whatever *)
(* was stored, announced, submitted or loaded again since it was pressed.  *)
(* A list has gaps only if it strayed: it took a link below its end that   *)
(* came alone, or an older page asked for before the list was set anew.    *)
NothingSkipped ==
    base # None /\ ~strayed => Last(links) .. base \subseteq ToSet(links)

(* While there are links older than those shown there is a button to get   *)
(* them, on the last page and on a page that is just full too.             *)
ButtonStays ==
    base # None /\ ~strayed /\ ~hasMore => Last(links) = 0
=============================================================================
