-------------------------------- MODULE Page --------------------------------
(***************************************************************************)
(* A page in a browser, built from three sources that are not ordered with *)
(* each other: what it loads, what its event stream says, and the answer   *)
(* to its own submission (web/src/App.tsx, events.ts, LinkForm.tsx),       *)
(* against the event streams of Hub.                                       *)
(*                                                                         *)
(* The list has room for every link of the model: "load older" and the     *)
(* link named in the address are left out, and so are the marks that only  *)
(* say how a row is drawn (fresh, loading, loadFailed, the messages).      *)
(*                                                                         *)
(* The browser's EventSource is not code of the repository: it connects,   *)
(* says open and error, reads the stream in order, connects again after a  *)
(* loss and gives up for good on an answer that is not 200.                *)
(***************************************************************************)
EXTENDS Hub, SequencesExt

VARIABLES
    shown,    \* links: the status the list shows for each link, or "none"
    numbers,  \* stats: the links the counter counts
    mine,     \* the visitor's own link and the status the form knows of it
    loads,    \* the calls of loadFirstPage under way
    post,     \* the link whose submission is being answered, or 0
    conn,     \* the connection of the EventSource, 0 while it has none
    dropped,  \* the flag of useEvents
    unsure    \* was a link settled when the page had no way to hear of it?

pageVars == <<shown, numbers, mine, loads, post, conn, dropped, unsure>>
vars == <<hubVars, pageVars>>

NoList == [n \in Links |-> "unknown"]
Lists == [Links -> Status] \cup {NoList}

Load == [stats : Counts, list : Lists]
NewLoad == [stats |-> NotYet, list |-> NoList]

NotMine == [n |-> 0, status |-> "none"]

\* The EventSource is done: it was refused.
GivenUp == conn # 0 /\ handler[conn] = "refused"

TypeOK ==
    /\ HubTypeOK
    /\ shown \in [Links -> Status]
    /\ numbers \in Counts
    /\ mine \in {NotMine} \cup [n : Links, status : Status \ {"none"}]
    /\ loads \in Seq(Load)
    /\ Len(loads) =< MaxConnections
    /\ post \in {0} \cup Links
    /\ conn \in {0} \cup Connections
    /\ dropped \in BOOLEAN
    /\ unsure \in BOOLEAN

\* The page was mounted: it loads, and has yet to connect.
Init ==
    /\ HubInit
    /\ shown = [n \in Links |-> "none"]
    /\ numbers = NotYet
    /\ mine = NotMine
    /\ loads = <<NewLoad>>
    /\ post = 0
    /\ conn = 0
    /\ dropped = FALSE
    /\ unsure = FALSE
-----------------------------------------------------------------------------
(* loadFirstPage.  The two requests of a call are answered separately; the *)
(* page takes both answers at once.                                        *)

\* An answer under way, which a settlement from now on makes old.
UnderWay ==
    \/ post # 0
    \/ \E i \in DOMAIN loads : loads[i].stats # NotYet \/ loads[i].list # NoList

\* A call begins; it settles what was unsure unless an older answer may follow.
LoadFirstPage ==
    /\ loads' = Append(loads, NewLoad)
    /\ unsure' = (unsure /\ UnderWay)

AnswerStats(i) ==
    /\ loads[i].stats = NotYet
    /\ loads' = [loads EXCEPT ![i].stats = Counted]
    /\ UNCHANGED <<hubVars, shown, numbers, mine, post, conn, dropped, unsure>>

AnswerList(i) ==
    /\ loads[i].list = NoList
    /\ loads' = [loads EXCEPT ![i].list = status]
    /\ UNCHANGED <<hubVars, shown, numbers, mine, post, conn, dropped, unsure>>

Loaded(i) ==
    /\ loads[i].stats # NotYet
    /\ loads[i].list # NoList
    /\ numbers' = loads[i].stats
    /\ shown' = loads[i].list
    /\ loads' = RemoveAt(loads, i)
    /\ UNCHANGED <<hubVars, mine, post, conn, dropped, unsure>>

\* One of the two requests fails, and the page keeps what it had.
LoadFails(i) ==
    /\ loads' = RemoveAt(loads, i)
    /\ unsure' = TRUE
    /\ UNCHANGED <<hubVars, shown, numbers, mine, post, conn, dropped>>
-----------------------------------------------------------------------------
(* The EventSource *)

Connect ==
    /\ conn = 0
    /\ \E c \in Connections :
          /\ IsNext(c)
          /\ Subscribe(c) \/ Refuse(c)
          /\ conn' = c
          /\ dropped' = (dropped \/ Cardinality(streams) >= MaxStreams)
    /\ UNCHANGED <<shown, numbers, mine, loads, post, unsure>>

LoseUnnoticed ==    \* mutant: onerror is not listened to
    /\ conn # 0
    /\ ~GivenUp
    /\ Cut(conn)
    /\ conn' = 0
    /\ UNCHANGED <<shown, numbers, mine, loads, post, dropped, unsure>>

\* onerror: the connection is lost, with what is on the wire.
Lose ==
    /\ conn # 0
    /\ ~GivenUp
    /\ Cut(conn)
    /\ conn' = 0
    /\ dropped' = TRUE
    /\ UNCHANGED <<shown, numbers, mine, loads, post, unsure>>

\* onopen
OnOpen ==
    /\ dropped' = FALSE
    /\ IF dropped THEN LoadFirstPage ELSE UNCHANGED <<loads, unsure>>
    /\ UNCHANGED <<shown, numbers, mine>>

OnStats(counted) ==
    /\ numbers' = counted
    /\ UNCHANGED <<shown, mine, loads, dropped, unsure>>

\* onLink: upsert, and the visitor's own link
OnLink(n, s) ==
    /\ shown' = [shown EXCEPT ![n] = s]
    /\ mine' = IF mine.n = n THEN [mine EXCEPT !.status = s] ELSE mine
    /\ UNCHANGED <<numbers, loads, dropped, unsure>>

\* The next message is read.
Receive ==
    /\ conn # 0
    /\ Read(conn)
    /\ LET m == Head(wire[conn]) IN
          CASE m.kind = "open"  -> OnOpen
            [] m.kind = "stats" -> OnStats(m.counted)
            [] m.kind = "link"  -> OnLink(m.n, m.status)
    /\ UNCHANGED <<post, conn>>
-----------------------------------------------------------------------------
(* The form *)

\* The submission is accepted and its answer under way.
Submit ==
    /\ post = 0
    /\ \E n \in Links : Store(n) /\ post' = n
    /\ UNCHANGED <<shown, numbers, mine, loads, conn, dropped, unsure>>

\* onSubmitted
Submitted ==
    /\ post # 0
    /\ mine' = [n |-> post, status |-> "pending"]
    /\ shown' = [shown EXCEPT ![post] = "pending"]
    /\ post' = 0
    /\ UNCHANGED <<hubVars, numbers, loads, conn, dropped, unsure>>

\* The answer is lost: the form shows an error, the link is stored.
SubmitFails ==
    /\ post # 0
    /\ post' = 0
    /\ UNCHANGED <<hubVars, shown, numbers, mine, loads, conn, dropped, unsure>>
-----------------------------------------------------------------------------
\* A link is settled, maybe while an answer from before is under way, or after
\* the page has loaded and before it first connects.
SettleOne ==
    /\ \E n \in Links, outcome \in Settled : Settle(n, outcome)
    /\ unsure' = (unsure \/ UnderWay \/ (conn = 0 /\ ~dropped /\ loads = <<>>))
    /\ UNCHANGED <<shown, numbers, mine, loads, post, conn, dropped>>

Announce == (LinkChanged \/ StatsChanged \/ StatsFail) /\ UNCHANGED pageVars

OtherSubmits == (\E n \in Links : Store(n)) /\ UNCHANGED pageVars

Begin(c) == (Open(c) \/ OpenSilently(c)) /\ UNCHANGED pageVars
Tell(c) == Forward(c) /\ UNCHANGED pageVars
Farewell(c) == (SeeClosing(c) \/ SeeGone(c)) /\ UNCHANGED pageVars

Next ==
    \/ SettleOne \/ Announce \/ OtherSubmits
    \/ \E c \in Connections : Begin(c) \/ Tell(c) \/ Farewell(c)
    \/ (Close \/ Restart) /\ UNCHANGED pageVars
    \/ Connect \/ Lose \/ Receive
    \/ \E i \in DOMAIN loads : AnswerStats(i) \/ AnswerList(i) \/ Loaded(i) \/ LoadFails(i)
    \/ Submit \/ Submitted \/ SubmitFails

Spec == Init /\ [][Next]_vars

\* A handler opens its stream when it can and returns when it should.
FairSpec ==
    Spec /\ \A c \in Connections : WF_vars(Begin(c)) /\ WF_vars(Farewell(c))
-----------------------------------------------------------------------------
\* The page is connected to a stream that lost nothing, nothing is under way,
\* and no settlement fell where the page cannot hear of it.
CaughtUp ==
    /\ conn \in streams
    /\ handler[conn] = "serving"
    /\ buffer[conn] = <<>> /\ wire[conn] = <<>>
    /\ ~missed[conn]
    /\ worker = Silent
    /\ loads = <<>> /\ post = 0
    /\ ~unsure

(* A page that caught up shows the numbers of the store and every settled  *)
(* link as settled, through lost connections and restarts of the server:   *)
(* that is what loading again after a gap is for (events.ts).  The ways    *)
(* not to catch up are those CaughtUp names and no others.                 *)
CatchesUp ==
    CaughtUp =>
        /\ numbers = Counted
        /\ \A n \in Links : status[n] \in Settled => shown[n] = status[n]
=============================================================================
