----------------------------- MODULE Page_proofs -----------------------------
(***************************************************************************)
(* Theorems about a page and the event streams it listens to, for any      *)
(* number of links, connections, streams and restarts and any length of    *)
(* the buffers.                                                            *)
(***************************************************************************)
EXTENDS Page, FiniteSetTheorems, SequenceTheorems, TLAPS

(* The event streams: theorems about Hub, with and without a page.         *)

(* Every step of the server, the network and the browser's end, in the     *)
(* order of the connections or not: Page takes these, HubNext some of them. *)
HubStep ==
    \/ \E n \in Links : Store(n) \/ \E outcome \in Settled : Settle(n, outcome)
    \/ LinkChanged \/ StatsChanged \/ StatsFail
    \/ \E c \in Connections :
          \/ Subscribe(c) \/ Refuse(c) \/ Open(c) \/ OpenSilently(c) \/ Forward(c)
          \/ SeeGone(c) \/ SeeClosing(c) \/ Cut(c) \/ Read(c)
    \/ Close \/ Restart

LEMMA HubNextIsStep == HubNext => HubStep
BY DEF HubNext, HubStep, Settled

(* The worker announces settled links only.                                *)
Announced == worker.at = "settled" => status[worker.n] \in Settled

(* The channel of a connection that was never served is empty.             *)
Fresh == \A c \in Connections : handler[c] = "unused" => buffer[c] = <<>>

(* While the worker has nothing to announce, the last stats a stream has   *)
(* still to tell, or has told if there are none, are those of the store.   *)
IsStats(c, i) == buffer[c][i].kind = "stats"

LastStats(c, i) ==
    IsStats(c, i) /\ \A j \in DOMAIN buffer[c] : IsStats(c, j) => j =< i

Current(c) ==
    /\ \A i \in DOMAIN buffer[c] : LastStats(c, i) => buffer[c][i].counted = Counted
    /\ (handler[c] = "serving" /\ \A i \in DOMAIN buffer[c] : ~IsStats(c, i))
          => told[c] = Counted

StreamsCurrent == worker = Silent => \A c \in streams : missed[c] \/ Current(c)

HubInv ==
    /\ HubTypeOK
    /\ Announced
    /\ Fresh
    /\ StreamsCurrent
-----------------------------------------------------------------------------
LEMMA Bounds ==
    /\ MaxLinks \in Nat /\ MaxConnections \in Nat \ {0} /\ MaxRestarts \in Nat
    /\ MaxStreams \in Nat \ {0} /\ StreamBuffer \in Nat \ {0}
BY HubAssumption

USE Bounds

LEMMA FiniteConnections == IsFiniteSet(Connections)
BY FS_Interval DEF Connections

LEMMA MessageTypes ==
    ASSUME HubTypeOK
    PROVE  /\ Counted \subseteq Links
           /\ StatsMessage \in Message /\ StatsMessage.kind = "stats"
           /\ StatsMessage.counted = Counted
           /\ \A n \in Links : status[n] \in Settled =>
                 LinkMessage(n) \in Message /\ LinkMessage(n).kind = "link"
           /\ [kind |-> "open"] \in Message
BY DEF HubTypeOK, Counted, StatsMessage, LinkMessage, Message

(* What the types say of one connection.                                   *)
LEMMA StreamTypes ==
    ASSUME HubTypeOK, NEW c \in Connections
    PROVE  /\ buffer[c] \in Seq(Message) /\ wire[c] \in Seq(Message)
           /\ Len(buffer[c]) \in Nat
           /\ DOMAIN buffer[c] = 1 .. Len(buffer[c])
BY DEF HubTypeOK

LEMMA HubTypeInit == HubInit => HubTypeOK
<1> SUFFICES ASSUME HubInit PROVE HubTypeOK
  OBVIOUS
<1>1. Cardinality(streams) = 0
  BY FS_EmptySet DEF HubInit
<1> QED
  <2>1. /\ status \in [Links -> Status] /\ worker = Silent
        /\ told \in [Connections -> Counts]
    BY DEF HubInit, Status, Counts
  <2>2. /\ streams = {} /\ cut = {} /\ restarts \in 0 .. MaxRestarts
        /\ missed \in [Connections -> BOOLEAN]
        /\ handler = [c \in Connections |-> "unused"]
        /\ buffer = [c \in Connections |-> <<>>]
        /\ wire = [c \in Connections |-> <<>>]
    BY DEF HubInit
  <2>3. <<>> \in Seq(Message) /\ Len(<<>>) = 0
    OBVIOUS
  <2>4. /\ buffer \in [Connections -> Seq(Message)] /\ wire \in [Connections -> Seq(Message)]
        /\ \A c \in Connections : Len(buffer[c]) =< StreamBuffer
    BY <2>2, <2>3
  <2>5. /\ handler \in [Connections -> {"unused", "refused", "opening", "serving", "ended"}]
        /\ \A c \in Connections : c \in streams <=> handler[c] \in {"opening", "serving"}
    BY <2>2
  <2>6. Cardinality(streams) =< MaxStreams
    BY <1>1
  <2>7. closing \in BOOLEAN
    BY Zenon DEF HubInit
  <2> QED
    BY <2>1, <2>2, <2>4, <2>5, <2>6, <2>7 DEF HubTypeOK

LEMMA BroadcastTypes ==
    ASSUME HubTypeOK, NEW m \in Message, Broadcast(m)
    PROVE  /\ buffer' \in [Connections -> Seq(Message)]
           /\ \A c \in Connections : Len(buffer'[c]) =< StreamBuffer
           /\ missed' \in [Connections -> BOOLEAN]
<1>1. ASSUME NEW c \in Connections
      PROVE  buffer'[c] \in Seq(Message) /\ Len(buffer'[c]) =< StreamBuffer
  <2>1. buffer[c] \in Seq(Message) /\ Len(buffer[c]) \in Nat /\ Len(buffer[c]) =< StreamBuffer
    BY DEF HubTypeOK
  <2>2. Append(buffer[c], m) \in Seq(Message) /\ Len(Append(buffer[c], m)) = Len(buffer[c]) + 1
    BY <2>1
  <2> QED
    BY <2>1, <2>2 DEF Broadcast, Full
<1>2. missed' \in [Connections -> BOOLEAN]
  <2>1. \A c \in Connections : (missed[c] \/ (c \in streams /\ Full(c))) \in BOOLEAN
    BY Zenon
  <2> QED
    BY <2>1, Zenon DEF Broadcast
<1> QED
  BY <1>1, <1>2 DEF Broadcast

LEMMA WriteTypes ==
    ASSUME HubTypeOK, NEW c \in Connections, NEW ms \in Seq(Message), Write(c, ms)
    PROVE  /\ wire' \in [Connections -> Seq(Message)]
           /\ \A d \in cut : wire'[d] = <<>>
<1>1. \A d \in Connections : wire[d] \in Seq(Message) /\ wire[d] \o ms \in Seq(Message)
  BY DEF HubTypeOK
<1> QED
  BY <1>1 DEF HubTypeOK, Write

LEMMA ForgetTypes ==
    ASSUME HubTypeOK, NEW gone, Forget(gone)
    PROVE  /\ buffer' \in [Connections -> Seq(Message)]
           /\ \A c \in Connections : Len(buffer'[c]) =< StreamBuffer
           /\ told' \in [Connections -> Counts]
           /\ missed' \in [Connections -> BOOLEAN]
<1>1. missed' \in [Connections -> BOOLEAN]
  <2>1. \A c \in Connections : (c \notin gone /\ missed[c]) \in BOOLEAN
    BY Zenon
  <2> QED
    BY <2>1, Zenon DEF Forget
<1>2. /\ <<>> \in Seq(Message) /\ Len(<<>>) = 0 /\ NotYet \in Counts
      /\ \A c \in Connections : told[c] \in Counts
  BY DEF HubTypeOK, Counts
<1>3. \A c \in Connections : buffer[c] \in Seq(Message) /\ Len(buffer[c]) =< StreamBuffer
  BY DEF HubTypeOK
<1>4. told' \in [Connections -> Counts]
  BY <1>2 DEF Forget
<1> QED
  BY <1>1, <1>2, <1>3, <1>4 DEF Forget

(* No step leaves the types. *)
LEMMA HubTypeNext ==
    ASSUME HubTypeOK, Announced, HubStep
    PROVE  HubTypeOK'
<1> USE DEF HubTypeOK
<1>1. ASSUME NEW n \in Links, Store(n) PROVE HubTypeOK'
  BY <1>1 DEF Store, Status
<1>2. ASSUME NEW n \in Links, NEW outcome \in Settled, Settle(n, outcome) PROVE HubTypeOK'
  BY <1>2 DEF Settle, Status
<1>3. CASE LinkChanged
  <2>1. worker.n \in Links /\ LinkMessage(worker.n) \in Message
    BY <1>3, MessageTypes DEF LinkChanged, Announced, Silent
  <2>2. worker' \in [at : {"settled", "told"}, n : Links]
    BY <1>3, <2>1 DEF LinkChanged, Silent
  <2> QED
    BY <1>3, <2>1, <2>2, BroadcastTypes DEF LinkChanged
<1>4. CASE StatsChanged
  BY <1>4, MessageTypes, BroadcastTypes DEF StatsChanged
<1>5. CASE StatsFail
  <2>1. \A c \in Connections : (missed[c] \/ c \in streams) \in BOOLEAN
    BY Zenon
  <2>2. missed' \in [Connections -> BOOLEAN]
    BY <1>5, <2>1, Zenon DEF StatsFail
  <2> QED
    BY <1>5, <2>2 DEF StatsFail
<1>6. ASSUME NEW c \in Connections, Subscribe(c) PROVE HubTypeOK'
  <2>1. IsFiniteSet(streams)
    BY FiniteConnections, FS_Subset
  <2>2. Cardinality(streams) \in Nat
    BY <2>1, FS_CardinalityType
  <2>3. Cardinality(streams \cup {c}) \in {Cardinality(streams), Cardinality(streams) + 1}
    BY ONLY <2>1, FS_AddElement
  <2>4. Cardinality(streams') =< MaxStreams
    BY <1>6, <2>2, <2>3 DEF Subscribe
  <2> QED
    BY <1>6, <2>4 DEF Subscribe
<1>7. ASSUME NEW c \in Connections, Refuse(c) PROVE HubTypeOK'
  BY <1>7 DEF Refuse
<1>8. ASSUME NEW c \in Connections, Open(c) PROVE HubTypeOK'
  <2>1. <<[kind |-> "open"], StatsMessage>> \in Seq(Message) /\ Counted \in Counts
    BY MessageTypes DEF Counts
  <2> QED
    BY <1>8, <2>1, WriteTypes DEF Open
<1>9. ASSUME NEW c \in Connections, OpenSilently(c) PROVE HubTypeOK'
  <2>1. <<[kind |-> "open"]>> \in Seq(Message)
    BY MessageTypes
  <2> QED
    BY <1>9, <2>1, WriteTypes DEF OpenSilently
<1>10. ASSUME NEW c \in Connections, Forward(c) PROVE HubTypeOK'
  <2>1. /\ buffer[c] \in Seq(Message) /\ Len(buffer[c]) \in Nat
        /\ Head(buffer[c]) \in Message
        /\ Tail(buffer[c]) \in Seq(Message) /\ Len(Tail(buffer[c])) = Len(buffer[c]) - 1
    BY <1>10 DEF Forward
  <2>2. <<Head(buffer[c])>> \in Seq(Message)
    BY <2>1
  <2>3. Head(buffer[c]).kind = "stats" => Head(buffer[c]).counted \in Counts
    BY <2>1 DEF Message, Counts
  <2>4. /\ buffer' \in [Connections -> Seq(Message)]
        /\ \A d \in Connections : Len(buffer'[d]) =< StreamBuffer
    BY <1>10, <2>1 DEF Forward
  <2> QED
    BY <1>10, <2>2, <2>3, <2>4, WriteTypes DEF Forward
<1>11. ASSUME NEW c \in Connections, Return(c) PROVE HubTypeOK'
  <2>1. IsFiniteSet(streams)
    BY FiniteConnections, FS_Subset
  <2>2. IsFiniteSet(streams \ {c}) /\ Cardinality(streams \ {c}) =< Cardinality(streams)
    BY <2>1, FS_Subset
  <2>3. Cardinality(streams) \in Nat /\ Cardinality(streams \ {c}) \in Nat
    BY <2>1, <2>2, FS_CardinalityType
  <2>4. Cardinality(streams') =< MaxStreams
    BY <1>11, <2>2, <2>3 DEF Return
  <2> QED
    BY <1>11, <2>4, ForgetTypes DEF Return
<1>12. ASSUME NEW c \in Connections, Cut(c) PROVE HubTypeOK'
  BY <1>12 DEF Cut
<1>13. ASSUME NEW c \in Connections, Read(c) PROVE HubTypeOK'
  <2>1. wire[c] \in Seq(Message) /\ Tail(wire[c]) \in Seq(Message)
    BY <1>13 DEF Read
  <2>2. c \notin cut
    BY <1>13 DEF Read
  <2> QED
    BY <1>13, <2>1, <2>2 DEF Read
<1>14. CASE Close
  BY <1>14 DEF Close
<1>15. CASE Restart
  <2>1. Cardinality(streams') =< MaxStreams
    BY <1>15, FS_EmptySet DEF Restart
  <2> QED
    <3>1. /\ handler' \in [Connections -> {"unused", "refused", "opening", "serving", "ended"}]
          /\ \A c \in Connections : c \in streams' <=> handler'[c] \in {"opening", "serving"}
      BY <1>15 DEF Restart
    <3>2. restarts' \in 0 .. MaxRestarts
      BY <1>15 DEF Restart
    <3>3. /\ closing' \in BOOLEAN /\ worker' = Silent /\ streams' = {}
          /\ status' = status /\ wire' = wire /\ cut' = cut /\ Forget(streams)
      BY <1>15, Zenon DEF Restart
    <3>4. /\ buffer' \in [Connections -> Seq(Message)]
          /\ \A c \in Connections : Len(buffer'[c]) =< StreamBuffer
          /\ told' \in [Connections -> Counts]
          /\ missed' \in [Connections -> BOOLEAN]
      BY <3>3, ForgetTypes
    <3> QED
      BY <2>1, <3>1, <3>2, <3>3, <3>4
<1> QED
  BY <1>1, <1>2, <1>3, <1>4, <1>5, <1>6, <1>7, <1>8, <1>9, <1>10, <1>11, <1>12, <1>13, <1>14,
     <1>15 DEF HubStep, SeeGone, SeeClosing
-----------------------------------------------------------------------------
(* Streams *)

(* Nothing that Current speaks of changes for connection c, but that its   *)
(* handler may just have told the stats of the store.                      *)
LEMMA CurrentFrame ==
    ASSUME NEW c, Current(c), Counted' = Counted, buffer'[c] = buffer[c],
           (handler'[c] = handler[c] /\ told'[c] = told[c]) \/ told'[c] = Counted
    PROVE  Current(c)'
BY DEF Current, LastStats, IsStats

(* After stats are broadcast a stream has them to tell last, or missed     *)
(* them.                                                                   *)
LEMMA StatsMakeCurrent ==
    ASSUME HubTypeOK, Broadcast(StatsMessage), UNCHANGED <<status, streams>>,
           NEW c \in streams
    PROVE  missed'[c] \/ Current(c)'
<1> SUFFICES ASSUME ~missed'[c] PROVE Current(c)'
  OBVIOUS
<1>1. c \in Connections /\ Counted' = Counted
  BY DEF HubTypeOK, Counted
<1>2. ~Full(c)
  BY <1>1 DEF Broadcast
<1>3. buffer'[c] = Append(buffer[c], StatsMessage)
  BY <1>1, <1>2 DEF Broadcast
<1>4. PICK n \in Nat : n = Len(buffer[c])
  BY <1>1, StreamTypes
<1>5. /\ DOMAIN buffer'[c] = 1 .. n + 1
      /\ buffer'[c][n + 1] = StatsMessage
  BY <1>1, <1>3, <1>4, StreamTypes, MessageTypes
<1>6. IsStats(c, n + 1)'
  BY <1>5, MessageTypes DEF IsStats
<1>7. ASSUME NEW i \in DOMAIN buffer'[c], LastStats(c, i)' PROVE i = n + 1
  BY <1>5, <1>6, <1>7 DEF LastStats
<1>8. \A i \in DOMAIN buffer'[c] : LastStats(c, i)' => buffer'[c][i].counted = Counted'
  BY <1>1, <1>5, <1>7, MessageTypes
<1>9. ~\A i \in DOMAIN buffer'[c] : ~IsStats(c, i)'
  BY <1>5, <1>6
<1> QED
  BY <1>8, <1>9 DEF Current

(* The handler moves what it tells from the channel to told, and what was  *)
(* last stays last.                                                        *)
LEMMA ForwardKeepsCurrent ==
    ASSUME HubTypeOK, NEW c \in Connections, Forward(c), Current(c)
    PROVE  Current(c)'
<1> DEFINE n == Len(buffer[c])
           m == Head(buffer[c])
<1>1. /\ buffer[c] \in Seq(Message) /\ n \in Nat /\ n > 0
      /\ DOMAIN buffer[c] = 1 .. n /\ m = buffer[c][1]
  BY StreamTypes DEF Forward
<1>2. buffer'[c] = Tail(buffer[c])
  BY DEF Forward, HubTypeOK
<1>3. /\ DOMAIN buffer'[c] = 1 .. n - 1
      /\ \A i \in 1 .. n - 1 : buffer'[c][i] = buffer[c][i + 1]
  BY <1>1, <1>2
<1>4. \A i \in 1 .. n - 1 : IsStats(c, i)' <=> IsStats(c, i + 1)
  BY <1>3 DEF IsStats
<1>5. Counted' = Counted /\ handler' = handler
  BY DEF Forward, Counted
<1>6. told'[c] = IF m.kind = "stats" THEN m.counted ELSE told[c]
  BY DEF Forward, HubTypeOK
<1>7. ASSUME NEW i \in DOMAIN buffer'[c], LastStats(c, i)'
      PROVE  buffer'[c][i].counted = Counted'
  <2>1. i \in 1 .. n - 1 /\ i + 1 \in 1 .. n
    BY <1>1, <1>3
  <2>2. LastStats(c, i + 1)
    <3>1. IsStats(c, i + 1) /\ \A j \in 1 .. n - 1 : IsStats(c, j + 1) => j =< i
      BY <1>3, <1>4, <1>7, <2>1 DEF LastStats
    <3>2. ASSUME NEW j \in 1 .. n, IsStats(c, j) PROVE j =< i + 1
      <4>1. CASE j = 1
        BY <2>1, <4>1
      <4>2. CASE j # 1
        <5>1. j - 1 \in 1 .. n - 1 /\ (j - 1) + 1 = j
          BY <1>1, <4>2
        <5>2. j - 1 =< i
          BY <3>1, <3>2, <5>1
        <5> QED
          BY <2>1, <5>2
      <4> QED
        BY <4>1, <4>2
    <3> QED
      BY <1>1, <3>1, <3>2 DEF LastStats
  <2> QED
    BY <1>1, <1>3, <1>5, <2>1, <2>2 DEF Current
<1>8. ASSUME \A i \in DOMAIN buffer'[c] : ~IsStats(c, i)'
      PROVE  told'[c] = Counted'
  <2>1. ASSUME NEW j \in 1 .. n, IsStats(c, j) PROVE j = 1
    <3>1. CASE j # 1
      <4>1. j - 1 \in 1 .. n - 1 /\ (j - 1) + 1 = j
        BY <1>1, <3>1
      <4> QED
        BY <1>3, <1>4, <1>8, <2>1, <4>1
    <3> QED
      BY <3>1
  <2>2. CASE IsStats(c, 1)
    <3>1. LastStats(c, 1)
      BY <1>1, <2>1, <2>2 DEF LastStats
    <3> QED
      BY <1>1, <1>5, <1>6, <2>2, <3>1 DEF Current, IsStats
  <2>3. CASE ~IsStats(c, 1)
    <3>1. \A j \in DOMAIN buffer[c] : ~IsStats(c, j)
      BY <1>1, <2>1, <2>3
    <3>2. handler[c] = "serving"
      BY DEF Forward
    <3> QED
      BY <1>1, <1>5, <1>6, <2>3, <3>1, <3>2 DEF Current, IsStats
  <2> QED
    BY <2>2, <2>3
<1> QED
  BY <1>5, <1>7, <1>8 DEF Current

(* A step that leaves the channels and what was told alone, and adds no    *)
(* stream and no missing, as long as the worker was silent.                *)
LEMMA StreamsFrame ==
    ASSUME StreamsCurrent, worker' = Silent => worker = Silent,
           worker = Silent => Counted' = Counted,
           UNCHANGED <<buffer, told, missed>>, UNCHANGED <<streams, handler>>
    PROVE  StreamsCurrent'
BY CurrentFrame DEF StreamsCurrent

LEMMA StreamsNext ==
    ASSUME HubInv, HubStep
    PROVE  StreamsCurrent'
<1>0. HubTypeOK /\ Fresh /\ StreamsCurrent
  BY DEF HubInv
<1>1. ASSUME NEW n \in Links, Store(n) PROVE StreamsCurrent'
  <2>1. Counted' = Counted
    BY <1>0, <1>1 DEF Store, Counted, HubTypeOK
  <2> QED
    BY <1>0, <1>1, <2>1, StreamsFrame DEF Store
<1>2. ASSUME NEW n \in Links, NEW outcome \in Settled, Settle(n, outcome)
      PROVE  StreamsCurrent'
  BY <1>2 DEF Settle, StreamsCurrent, Silent
<1>3. CASE LinkChanged
  <2>1. worker' # Silent
    BY <1>0, <1>3 DEF LinkChanged, Silent, HubTypeOK
  <2> QED
    BY <2>1 DEF StreamsCurrent
<1>4. CASE StatsChanged
  BY <1>0, <1>4, StatsMakeCurrent DEF StatsChanged, StreamsCurrent
<1>5. CASE StatsFail
  <2>1. \A c \in streams' : missed'[c]
    BY <1>0, <1>5 DEF StatsFail, HubTypeOK
  <2> QED
    BY <2>1 DEF StreamsCurrent
<1>6. ASSUME NEW c \in Connections, Subscribe(c) PROVE StreamsCurrent'
  <2>1. UNCHANGED <<buffer, told, missed, worker>> /\ Counted' = Counted
    BY <1>6 DEF Subscribe, Counted
  <2>2. buffer'[c] = <<>> /\ handler'[c] = "opening"
    BY <1>0, <1>6 DEF Subscribe, Fresh, HubTypeOK
  <2>3. Current(c)'
    BY <2>2 DEF Current
  <2>4. \A d \in streams' : d = c \/ (d \in streams /\ handler'[d] = handler[d])
    BY <1>0, <1>6 DEF Subscribe, HubTypeOK
  <2> QED
    BY <1>0, <2>1, <2>3, <2>4, CurrentFrame DEF StreamsCurrent
<1>7. ASSUME NEW c \in Connections, Refuse(c) PROVE StreamsCurrent'
  <2>1. UNCHANGED <<buffer, told, missed, worker, streams>> /\ Counted' = Counted
    BY <1>7 DEF Refuse, Counted
  <2>2. \A d \in streams : handler'[d] = handler[d]
    BY <1>0, <1>7 DEF Refuse, HubTypeOK
  <2> QED
    BY <1>0, <2>1, <2>2, CurrentFrame DEF StreamsCurrent
<1>8. ASSUME NEW c \in Connections, Open(c) PROVE StreamsCurrent'
  <2>1. UNCHANGED <<buffer, missed, worker, streams>> /\ Counted' = Counted
    BY <1>8 DEF Open, Counted
  <2>2. \A d \in streams : \/ handler'[d] = handler[d] /\ told'[d] = told[d]
                          \/ told'[d] = Counted
    BY <1>0, <1>8 DEF Open, HubTypeOK
  <2> QED
    BY <1>0, <2>1, <2>2, CurrentFrame DEF StreamsCurrent
<1>9. ASSUME NEW c \in Connections, OpenSilently(c) PROVE StreamsCurrent'
  <2>1. UNCHANGED <<buffer, told, worker, streams>> /\ Counted' = Counted
    BY <1>9 DEF OpenSilently, Counted
  <2>2. \A d \in streams : missed'[d] \/ (~missed[d] /\ handler'[d] = handler[d])
    BY <1>0, <1>9 DEF OpenSilently, HubTypeOK
  <2> QED
    BY <1>0, <2>1, <2>2, CurrentFrame DEF StreamsCurrent
<1>10. ASSUME NEW c \in Connections, Forward(c) PROVE StreamsCurrent'
  <2>1. UNCHANGED <<missed, worker, streams, handler>> /\ Counted' = Counted
    BY <1>10 DEF Forward, Counted
  <2>2. \A d \in streams : d # c => buffer'[d] = buffer[d] /\ told'[d] = told[d]
    BY <1>0, <1>10 DEF Forward, HubTypeOK
  <2> QED
    BY <1>0, <1>10, <2>1, <2>2, CurrentFrame, ForwardKeepsCurrent DEF StreamsCurrent
<1>11. ASSUME NEW c \in Connections, Return(c) PROVE StreamsCurrent'
  <2>1. worker' = worker /\ Counted' = Counted /\ streams' = streams \ {c}
    BY <1>11 DEF Return, Counted
  <2>2. \A d \in streams' : /\ buffer'[d] = buffer[d] /\ told'[d] = told[d]
                           /\ handler'[d] = handler[d] /\ (missed[d] => missed'[d])
    BY <1>0, <1>11 DEF Return, Forget, HubTypeOK
  <2> QED
    BY <1>0, <2>1, <2>2, CurrentFrame DEF StreamsCurrent
<1>12. ASSUME NEW c \in Connections, Cut(c) \/ Read(c) PROVE StreamsCurrent'
  BY <1>0, <1>12, StreamsFrame DEF Cut, Read, Counted
<1>13. CASE Close
  BY <1>0, <1>13, StreamsFrame DEF Close, Counted
<1>14. CASE Restart
  BY <1>14 DEF Restart, StreamsCurrent
<1> QED
  BY <1>1, <1>2, <1>3, <1>4, <1>5, <1>6, <1>7, <1>8, <1>9, <1>10, <1>11, <1>12, <1>13, <1>14
  DEF HubStep, SeeGone, SeeClosing

LEMMA AnnouncedNext ==
    ASSUME HubTypeOK, Announced, HubStep
    PROVE  Announced'
<1>1. CASE \E n \in Links : Store(n) \/ \E outcome \in Settled : Settle(n, outcome)
  BY <1>1 DEF HubTypeOK, Announced, Store, Settle, Settled, Silent
<1>2. CASE LinkChanged \/ StatsChanged \/ StatsFail
  <2>1. worker'.at # "settled"
    BY <1>2 DEF HubTypeOK, LinkChanged, StatsChanged, StatsFail, Silent
  <2> QED
    BY <2>1 DEF Announced
<1>3. CASE Close \/ Restart
  BY <1>3 DEF Announced, Close, Restart, Silent
<1>4. ASSUME NEW c \in Connections,
             \/ Subscribe(c) \/ Refuse(c) \/ Open(c) \/ OpenSilently(c) \/ Forward(c)
             \/ Return(c) \/ Cut(c) \/ Read(c)
      PROVE  Announced'
  <2>1. UNCHANGED <<worker, status>>
    BY <1>4 DEF Subscribe, Refuse, Open, OpenSilently, Forward, Return, Cut, Read
  <2> QED
    BY <2>1 DEF Announced
<1> QED
  BY <1>1, <1>2, <1>3, <1>4 DEF HubStep, SeeGone, SeeClosing

LEMMA FreshNext ==
    ASSUME HubTypeOK, Fresh, HubStep
    PROVE  Fresh'
<1>1. ASSUME NEW c \in Connections, handler'[c] = "unused" PROVE handler[c] = "unused"
  BY <1>1 DEF HubStep, HubTypeOK, Store, Settle, LinkChanged, StatsChanged, StatsFail,
     Subscribe, Refuse, Open, OpenSilently, Forward, SeeGone, SeeClosing, Return, Cut, Read,
     Close, Restart
<1>2. ASSUME NEW c \in Connections, handler[c] = "unused", buffer[c] = <<>>
      PROVE  buffer'[c] = <<>>
  <2>1. c \notin streams
    BY <1>2 DEF HubTypeOK
  <2>2. ASSUME NEW d \in Connections,
               \/ Subscribe(d) \/ Refuse(d) \/ Open(d) \/ OpenSilently(d) \/ Forward(d)
               \/ Return(d) \/ Cut(d) \/ Read(d)
        PROVE  buffer'[c] = <<>>
    BY <1>2, <2>2
    DEF HubTypeOK, Subscribe, Refuse, Open, OpenSilently, Forward, Return, Forget, Cut, Read
  <2>3. CASE LinkChanged \/ StatsChanged \/ Restart
    BY <1>2, <2>1, <2>3 DEF LinkChanged, StatsChanged, Broadcast, Restart, Forget
  <2>4. CASE \/ \E n \in Links : Store(n) \/ \E outcome \in Settled : Settle(n, outcome)
             \/ StatsFail \/ Close
    BY <1>2, <2>4 DEF Store, Settle, StatsFail, Close
  <2> QED
    BY <2>2, <2>3, <2>4 DEF HubStep, SeeGone, SeeClosing
<1> QED
  BY <1>1, <1>2 DEF Fresh

LEMMA HubInvInit == HubInit => HubInv
<1> SUFFICES ASSUME HubInit PROVE HubInv
  OBVIOUS
<1>1. HubTypeOK
  BY HubTypeInit
<1>2. Announced /\ Fresh /\ StreamsCurrent
  BY DEF HubInit, Announced, Fresh, StreamsCurrent, Silent
<1> QED
  BY <1>1, <1>2 DEF HubInv

LEMMA HubInvNext == HubInv /\ (HubStep \/ UNCHANGED hubVars) => HubInv'
<1>1. HubInv /\ HubStep => HubInv'
  BY HubTypeNext, AnnouncedNext, FreshNext, StreamsNext DEF HubInv
<1>2. ASSUME HubInv, UNCHANGED hubVars PROVE HubInv'
  <2>1. HubTypeOK' /\ Announced' /\ Fresh' /\ Counted' = Counted
    BY <1>2 DEF HubInv, hubVars, HubTypeOK, Announced, Fresh, Counted
  <2>2. StreamsCurrent'
    BY <1>2, <2>1, StreamsFrame DEF HubInv, hubVars
  <2> QED
    BY <2>1, <2>2 DEF HubInv
<1> QED
  BY <1>1, <1>2
-----------------------------------------------------------------------------
(* Every variable of Hub keeps its type.  That no message is sent before   *)
(* its link is settled, and no channel holds more than it has room for, is *)
(* part of it.                                                             *)
THEOREM HubTypeCorrect == HubSpec => []HubTypeOK
<1>1. HubInv => HubTypeOK
  BY DEF HubInv
<1> QED
  BY <1>1, HubInvInit, HubInvNext, HubNextIsStep, PTL DEF HubSpec

(* A stream that lost nothing and has nothing left to tell has told the    *)
(* numbers of the store.                                                   *)
THEOREM StreamTellsTheStore == HubSpec => []StreamIsCurrent
<1>1. HubInv => StreamIsCurrent
  BY StreamTypes DEF HubInv, StreamsCurrent, StreamIsCurrent, Current, HubTypeOK
<1> QED
  BY <1>1, HubInvInit, HubInvNext, HubNextIsStep, PTL DEF HubSpec
-----------------------------------------------------------------------------
(* The page *)

(* Before a handler writes, nothing is on the wire of its connection; the  *)
(* page lets go of a connection when it loses it.                          *)
Wires ==
    /\ \A c \in Connections :
          /\ handler[c] \in {"unused", "refused", "opening"} => wire[c] = <<>>
          /\ handler[c] = "unused" => c \notin cut
    /\ conn # 0 => conn \notin cut /\ handler[conn] # "unused"

(* A link is settled once, so what a stream has to tell of one stays true. *)
Agrees(m) == m.kind = "link" => m.status = status[m.n]

Truthful ==
    \A c \in Connections :
        /\ \A i \in DOMAIN buffer[c] : Agrees(buffer[c][i])
        /\ \A i \in DOMAIN wire[c] : Agrees(wire[c][i])

(* Unless the page is unsure, every answer on its way to it was given      *)
(* after the last settlement.                                              *)
UpToDate(list) == \A n \in Links : status[n] \in Settled => list[n] = status[n]

AnswersCurrent ==
    ~unsure =>
        /\ \A i \in DOMAIN loads :
              /\ loads[i].stats # NotYet => loads[i].stats = Counted
              /\ loads[i].list # NoList => UpToDate(loads[i].list)
        /\ post # 0 => status[post] = "pending"

Live == conn \in streams /\ handler[conn] = "serving"

(* A page that lost a connection and has another one has not read the      *)
(* opening of that one yet, which will make it load again.                 *)
OpensFirst == dropped /\ Live => wire[conn] # <<>> /\ wire[conn][1].kind = "open"

(* The last stats the page will read are those of the store; if there are  *)
(* none on their way it shows them, or loads.                              *)
OnWire(i) == wire[conn][i].kind = "stats"

LastOnWire(i) == OnWire(i) /\ \A j \in DOMAIN wire[conn] : OnWire(j) => j =< i

AllTold ==
    Live /\ ~missed[conn] /\ worker = Silent /\ \A i \in DOMAIN buffer[conn] : ~IsStats(conn, i)

NumbersSafe == unsure \/ loads # <<>> \/ numbers = Counted

NumbersAhead ==
    AllTold =>
        /\ \A i \in DOMAIN wire[conn] : LastOnWire(i) => wire[conn][i].counted = Counted
        /\ (\A i \in DOMAIN wire[conn] : ~OnWire(i)) => NumbersSafe

(* A settled link is shown as settled, or the page loads or will load, or  *)
(* the stream has it still to tell, or is of no use any more.              *)
About(m, n) == m.kind = "link" /\ m.n = n

Tells(messages, n) == \E i \in DOMAIN messages : About(messages[i], n)

StillToHear(n) ==
    \/ worker.at = "settled" /\ worker.n = n
    \/ Tells(buffer[conn], n) \/ Tells(wire[conn], n)
    \/ conn \notin streams
    \/ missed[conn]

Covered(n) ==
    \/ shown[n] = status[n]
    \/ unsure \/ dropped \/ loads # <<>>
    \/ conn # 0 /\ StillToHear(n)

ShownOrAhead == \A n \in Links : status[n] \in Settled => Covered(n)

(* The page begins at most one load for each connection: the first when it *)
(* is mounted, one more each time a connection after the first is open.    *)
(* u is the number of connections used.                                    *)
LoadsWith(u) ==
    /\ \A c \in Connections : handler[c] = "unused" <=> c > u
    /\ Len(loads) =< IF u = 0 THEN 1 ELSE u
    /\ u = 0 => ~dropped
    /\ conn \in {0, u}
    /\ (conn # 0 /\ dropped) => Len(loads) < u \/ handler[conn] = "refused"

LoadsCounted == \E u \in 0 .. MaxConnections : LoadsWith(u)

PageInv ==
    /\ TypeOK
    /\ HubInv
    /\ Wires
    /\ Truthful
    /\ AnswersCurrent
    /\ OpensFirst
    /\ NumbersAhead
    /\ ShownOrAhead
    /\ LoadsCounted
-----------------------------------------------------------------------------
(* Helpers *)

LEMMA RemoveAtProperties ==
    ASSUME NEW S, NEW s \in Seq(S), NEW i \in DOMAIN s
    PROVE  /\ RemoveAt(s, i) \in Seq(S)
           /\ Len(RemoveAt(s, i)) = Len(s) - 1
           /\ \A j \in DOMAIN RemoveAt(s, i) : \E k \in DOMAIN s : RemoveAt(s, i)[j] = s[k]
<1> DEFINE before == SubSeq(s, 1, i - 1)
           after == SubSeq(s, i + 1, Len(s))
<1>1. Len(s) \in Nat /\ DOMAIN s = 1 .. Len(s) /\ i \in 1 .. Len(s)
  OBVIOUS
<1>2. /\ before \in Seq(S) /\ Len(before) = i - 1
      /\ \A j \in 1 .. i - 1 : before[j] = s[j]
  BY <1>1
<1>3. /\ after \in Seq(S) /\ Len(after) = Len(s) - i
      /\ \A j \in 1 .. Len(s) - i : after[j] = s[i + j]
  BY <1>1
<1>4. RemoveAt(s, i) = before \o after
  BY DEF RemoveAt
<1> HIDE DEF before, after
<1>5. RemoveAt(s, i) \in Seq(S) /\ Len(RemoveAt(s, i)) = Len(s) - 1
  <2>1. before \o after \in Seq(S) /\ Len(before \o after) = Len(before) + Len(after)
    BY <1>2, <1>3, ConcatProperties
  <2> QED
    BY <1>1, <1>2, <1>3, <1>4, <2>1
<1>6. ASSUME NEW j \in DOMAIN RemoveAt(s, i)
      PROVE  \E k \in DOMAIN s : RemoveAt(s, i)[j] = s[k]
  <2>1. j \in 1 .. Len(s) - 1
    BY <1>5, <1>1
  <2>2. CASE j =< i - 1
    BY <1>1, <1>2, <1>3, <1>4, <2>1, <2>2
  <2>3. CASE ~(j =< i - 1)
    <3>1. j - (i - 1) \in 1 .. Len(s) - i /\ i + (j - (i - 1)) \in 1 .. Len(s)
      BY <1>1, <2>1, <2>3
    <3>2. RemoveAt(s, i)[j] = after[j - (i - 1)]
      BY <1>1, <1>2, <1>3, <1>4, <2>1, <2>3
    <3> QED
      BY <1>1, <1>3, <3>1, <3>2
  <2> QED
    BY <2>2, <2>3
<1> QED
  BY <1>5, <1>6

(* What a step of the page does to the hub. *)
LEMMA PageStep == TypeOK /\ [Next]_vars => HubStep \/ UNCHANGED hubVars
<1> SUFFICES ASSUME TypeOK, [Next]_vars PROVE HubStep \/ UNCHANGED hubVars
  OBVIOUS
<1>1. CASE \/ SettleOne \/ Announce \/ OtherSubmits \/ Submit
           \/ \E c \in Connections : Begin(c) \/ Tell(c) \/ Farewell(c)
           \/ (Close \/ Restart) /\ UNCHANGED pageVars
  BY <1>1
  DEF SettleOne, Announce, OtherSubmits, Submit, Begin, Tell, Farewell, HubStep
<1>2. CASE Connect
  BY <1>2 DEF Connect, HubStep
<1>3. CASE Lose \/ Receive
  <2>1. conn \in Connections
    BY <1>3 DEF Lose, Receive, TypeOK
  <2> QED
    BY <1>3, <2>1 DEF Lose, Receive, HubStep
<1>4. CASE \/ \E i \in DOMAIN loads : AnswerStats(i) \/ AnswerList(i) \/ Loaded(i) \/ LoadFails(i)
           \/ Submitted \/ SubmitFails
  BY <1>4 DEF AnswerStats, AnswerList, Loaded, LoadFails, Submitted, SubmitFails
<1>5. CASE UNCHANGED vars
  BY <1>5 DEF vars
<1> QED
  BY <1>1, <1>2, <1>3, <1>4, <1>5 DEF Next

(* The three things a message does.                                        *)
LEMMA ReceiveCases ==
    ASSUME TypeOK, Receive
    PROVE  /\ conn \in Connections
           /\ wire[conn] \in Seq(Message) /\ wire[conn] # <<>>
           /\ Head(wire[conn]) \in Message
           /\ \/ Head(wire[conn]).kind = "open" /\ OnOpen
              \/ /\ Head(wire[conn]).kind = "stats" /\ OnStats(Head(wire[conn]).counted)
                 /\ Head(wire[conn]).counted \in SUBSET Links
              \/ /\ Head(wire[conn]).kind = "link"
                 /\ OnLink(Head(wire[conn]).n, Head(wire[conn]).status)
                 /\ Head(wire[conn]).n \in Links /\ Head(wire[conn]).status \in Settled
<1>1. conn \in Connections /\ wire[conn] # <<>>
  BY DEF Receive, Read, TypeOK
<1>2. wire[conn] \in Seq(Message)
  BY <1>1 DEF TypeOK, HubTypeOK
<1>3. PICK m \in Message : m = Head(wire[conn])
  BY <1>1, <1>2
<1>4. \/ m.kind = "open"
      \/ m.kind = "stats" /\ m.counted \in SUBSET Links
      \/ m.kind = "link" /\ m.n \in Links /\ m.status \in Settled
  BY <1>3 DEF Message
<1>5. \/ m.kind = "open" /\ OnOpen
      \/ m.kind = "stats" /\ OnStats(m.counted)
      \/ m.kind = "link" /\ OnLink(m.n, m.status)
  <2>1. CASE m.kind = "open"
    BY <1>3, <2>1 DEF Receive
  <2>2. CASE m.kind = "stats"
    BY <1>3, <2>2 DEF Receive
  <2>3. CASE m.kind = "link"
    BY <1>3, <2>3 DEF Receive
  <2> QED
    BY <1>4, <2>1, <2>2, <2>3
<1> QED
  BY <1>1, <1>2, <1>3, <1>4, <1>5
-----------------------------------------------------------------------------
(* Types *)

(* All of TypeOK but the length of loads, which LoadsCounted bounds.       *)
PageTypes ==
    /\ HubTypeOK
    /\ shown \in [Links -> Status]
    /\ numbers \in Counts
    /\ mine \in {NotMine} \cup [n : Links, status : Status \ {"none"}]
    /\ loads \in Seq(Load)
    /\ post \in {0} \cup Links
    /\ conn \in {0} \cup Connections
    /\ dropped \in BOOLEAN
    /\ unsure \in BOOLEAN

LEMMA NewLoadIsLoad == NewLoad \in Load
BY DEF NewLoad, Load, Counts, Lists

LEMMA LoadTypes ==
    ASSUME loads \in Seq(Load), NEW i \in DOMAIN loads
    PROVE  loads[i] \in Load /\ loads[i].stats \in Counts /\ loads[i].list \in Lists
<1>1. loads[i] \in Load
  OBVIOUS
<1> QED
  BY <1>1 DEF Load

LEMMA PageTypesNext ==
    ASSUME TypeOK, Announced, [Next]_vars
    PROVE  PageTypes'
<1>0. PageTypes /\ HubTypeOK /\ HubTypeOK'
  BY PageStep, HubTypeNext DEF TypeOK, PageTypes, hubVars, HubTypeOK
<1> USE <1>0 DEF PageTypes
<1>1. CASE SettleOne
  <2>1. unsure' \in BOOLEAN
    BY <1>1, Zenon DEF SettleOne, UnderWay
  <2> QED
    BY <1>1, <2>1 DEF SettleOne
<1>2. CASE \/ Announce \/ OtherSubmits
           \/ \E c \in Connections : Begin(c) \/ Tell(c) \/ Farewell(c)
           \/ (Close \/ Restart) /\ UNCHANGED pageVars
           \/ UNCHANGED vars
  BY <1>2 DEF Announce, OtherSubmits, Begin, Tell, Farewell, pageVars, vars
<1>3. CASE Connect
  <2>1. dropped' \in BOOLEAN
    BY <1>3, Zenon DEF Connect
  <2> QED
    BY <1>3, <2>1 DEF Connect
<1>4. CASE Lose
  BY <1>4 DEF Lose
<1>5. CASE Receive
  <2>1. CASE OnOpen
    <3>1. unsure' \in BOOLEAN
      BY <2>1, Zenon DEF OnOpen, LoadFirstPage, UnderWay
    <3>2. loads' \in Seq(Load)
      BY <2>1, NewLoadIsLoad DEF OnOpen, LoadFirstPage
    <3> QED
      BY <1>5, <2>1, <3>1, <3>2 DEF OnOpen, Receive
  <2>2. CASE OnStats(Head(wire[conn]).counted) /\ Head(wire[conn]).counted \in SUBSET Links
    BY <1>5, <2>2 DEF OnStats, Receive, Counts
  <2>3. CASE /\ OnLink(Head(wire[conn]).n, Head(wire[conn]).status)
             /\ Head(wire[conn]).n \in Links /\ Head(wire[conn]).status \in Settled
    BY <1>5, <2>3 DEF OnLink, Receive, Status, Settled, NotMine
  <2> QED
    BY <1>5, <2>1, <2>2, <2>3, ReceiveCases
<1>6. ASSUME NEW i \in DOMAIN loads, AnswerStats(i) \/ AnswerList(i) PROVE PageTypes'
  <2>1. Counted \in Counts /\ status \in Lists
    BY MessageTypes DEF Counts, Lists, HubTypeOK
  <2>2. loads' \in Seq(Load)
    <3>1. CASE AnswerStats(i)
      <4>1. [loads[i] EXCEPT !.stats = Counted] \in Load
        BY <2>1, LoadTypes DEF Load
      <4> QED
        BY <3>1, <4>1, ExceptSeq DEF AnswerStats
    <3>2. CASE AnswerList(i)
      <4>1. [loads[i] EXCEPT !.list = status] \in Load
        BY <2>1, LoadTypes DEF Load
      <4> QED
        BY <3>2, <4>1, ExceptSeq DEF AnswerList
    <3> QED
      BY <1>6, <3>1, <3>2
  <2> QED
    BY <1>6, <2>2 DEF AnswerStats, AnswerList
<1>7. ASSUME NEW i \in DOMAIN loads, Loaded(i) PROVE PageTypes'
  <2>1. loads' \in Seq(Load)
    BY <1>7, RemoveAtProperties DEF Loaded
  <2>2. numbers' \in Counts /\ shown' \in [Links -> Status]
    BY <1>7, LoadTypes DEF Loaded, Lists
  <2> QED
    BY <1>7, <2>1, <2>2 DEF Loaded
<1>8. ASSUME NEW i \in DOMAIN loads, LoadFails(i) PROVE PageTypes'
  BY <1>8, RemoveAtProperties DEF LoadFails
<1>9. CASE Submit
  BY <1>9 DEF Submit
<1>10. CASE Submitted \/ SubmitFails
  BY <1>10 DEF Submitted, SubmitFails, Status
<1> QED
  BY <1>1, <1>2, <1>3, <1>4, <1>5, <1>6, <1>7, <1>8, <1>9, <1>10 DEF Next
-----------------------------------------------------------------------------
(* Wires *)

LEMMA WiresNext ==
    ASSUME TypeOK, Wires, [Next]_vars
    PROVE  Wires'
<1>0. /\ HubTypeOK
      /\ conn \in {0} \cup Connections /\ 0 \notin Connections
  BY DEF TypeOK, Connections
<1>1. CASE \/ SettleOne \/ Announce \/ OtherSubmits \/ Submit
           \/ Close /\ UNCHANGED pageVars
           \/ \E i \in DOMAIN loads : AnswerStats(i) \/ AnswerList(i) \/ Loaded(i) \/ LoadFails(i)
           \/ Submitted \/ SubmitFails \/ UNCHANGED vars
  <2>1. UNCHANGED <<handler, wire, cut, conn>>
    BY <1>1
    DEF SettleOne, Settle, Announce, LinkChanged, StatsChanged, StatsFail, OtherSubmits, Submit,
        Store, Close, AnswerStats, AnswerList, Loaded, LoadFails, Submitted, SubmitFails, vars,
        hubVars, pageVars
  <2> QED
    BY <2>1 DEF Wires
<1>2. ASSUME NEW c \in Connections, Begin(c) \/ Tell(c) PROVE Wires'
  <2>1. /\ handler[c] \in {"opening", "serving"} /\ handler'[c] = "serving"
        /\ \A d \in Connections : d # c => handler'[d] = handler[d] /\ wire'[d] = wire[d]
        /\ UNCHANGED <<cut, conn>>
    BY <1>0, <1>2 DEF Begin, Tell, Open, OpenSilently, Forward, Write, pageVars, HubTypeOK
  <2> QED
    BY <1>0, <2>1 DEF Wires
<1>3. ASSUME NEW c \in Connections, Farewell(c) PROVE Wires'
  <2>1. /\ handler'[c] = "ended"
        /\ \A d \in Connections : d # c => handler'[d] = handler[d]
        /\ UNCHANGED <<wire, cut, conn>>
    BY <1>0, <1>3 DEF Farewell, SeeClosing, SeeGone, Return, pageVars, HubTypeOK
  <2> QED
    BY <1>0, <2>1 DEF Wires
<1>4. CASE Restart /\ UNCHANGED pageVars
  <2>1. /\ \A d \in Connections : handler'[d] = "ended" \/ handler'[d] = handler[d]
        /\ UNCHANGED <<wire, cut, conn>>
    BY <1>0, <1>4 DEF Restart, pageVars, HubTypeOK
  <2> QED
    BY <1>0, <2>1 DEF Wires
<1>5. CASE Connect
  <2>1. PICK c \in Connections : conn' = c /\ (Subscribe(c) \/ Refuse(c))
    BY <1>5 DEF Connect
  <2>2. /\ handler[c] = "unused" /\ handler'[c] \in {"opening", "refused"}
        /\ \A d \in Connections : d # c => handler'[d] = handler[d]
        /\ UNCHANGED <<wire, cut>>
    BY <1>0, <2>1 DEF Subscribe, Refuse, HubTypeOK
  <2> QED
    BY <1>0, <2>1, <2>2 DEF Wires
<1>6. CASE Lose
  <2>1. /\ conn' = 0 /\ UNCHANGED handler /\ cut' = cut \cup {conn} /\ conn \in Connections
        /\ \A d \in Connections : wire'[d] = wire[d] \/ wire'[d] = <<>>
    BY <1>0, <1>6 DEF Lose, Cut, HubTypeOK
  <2> QED
    BY <1>0, <2>1 DEF Wires
<1>7. CASE Receive
  <2>1. /\ UNCHANGED <<handler, cut, conn>> /\ wire[conn] # <<>>
        /\ \A d \in Connections : d # conn => wire'[d] = wire[d]
    BY <1>0, <1>7 DEF Receive, Read, HubTypeOK
  <2> QED
    BY <1>0, <2>1 DEF Wires
<1> QED
  BY <1>1, <1>2, <1>3, <1>4, <1>5, <1>6, <1>7 DEF Next
-----------------------------------------------------------------------------
(* What is on its way stays true *)

AllAgree(messages) == \A i \in DOMAIN messages : Agrees(messages[i])

(* Sending, writing and reading move messages and make no others.          *)
LEMMA AgreeMoves ==
    ASSUME NEW s \in Seq(Message), NEW t \in Seq(Message), AllAgree(s), AllAgree(t)
    PROVE  AllAgree(s \o t) /\ (s # <<>> => AllAgree(Tail(s)))
<1>1. AllAgree(s \o t)
  <2>1. ASSUME NEW i \in DOMAIN (s \o t)
        PROVE  \/ i \in DOMAIN s /\ (s \o t)[i] = s[i]
               \/ \E j \in DOMAIN t : (s \o t)[i] = t[j]
    <3>1. i \in 1 .. Len(s) + Len(t) /\ Len(s) \in Nat /\ Len(t) \in Nat
      BY <2>1
    <3>2. CASE i =< Len(s)
      BY <3>1, <3>2
    <3>3. CASE ~(i =< Len(s))
      <4>1. i - Len(s) \in DOMAIN t
        BY <3>1, <3>3
      <4> QED
        BY <3>1, <3>3, <4>1
    <3> QED
      BY <3>2, <3>3
  <2> QED
    BY <2>1 DEF AllAgree
<1>2. ASSUME s # <<>> PROVE AllAgree(Tail(s))
  <2>1. \A i \in DOMAIN Tail(s) : i + 1 \in DOMAIN s /\ Tail(s)[i] = s[i + 1]
    BY <1>2
  <2> QED
    BY <2>1 DEF AllAgree
<1> QED
  BY <1>1, <1>2

LEMMA TruthfulNext ==
    ASSUME HubTypeOK, Truthful, Announced, HubStep
    PROVE  Truthful'
<1>0. \A c \in Connections :
         /\ buffer[c] \in Seq(Message) /\ AllAgree(buffer[c])
         /\ wire[c] \in Seq(Message) /\ AllAgree(wire[c])
  BY DEF HubTypeOK, Truthful, AllAgree
<1>1. SUFFICES \A c \in Connections : AllAgree(buffer[c])' /\ AllAgree(wire[c])'
  BY DEF Truthful, AllAgree
<1>2. ASSUME status' = status,
             \A c \in Connections : AllAgree(buffer'[c]) /\ AllAgree(wire'[c])
      PROVE  \A c \in Connections : AllAgree(buffer[c])' /\ AllAgree(wire[c])'
  BY <1>2 DEF AllAgree, Agrees
<1>3. AllAgree(<<>>)
  BY DEF AllAgree
<1>4. \A m \in Message : Agrees(m) => <<m>> \in Seq(Message) /\ AllAgree(<<m>>)
  BY DEF AllAgree
<1>5. ASSUME NEW m \in Message, Agrees(m), Broadcast(m)
      PROVE  \A c \in Connections : AllAgree(buffer'[c])
  <2>1. \A c \in Connections : Append(buffer[c], m) = buffer[c] \o <<m>>
    BY <1>0, AppendIsConcat
  <2> QED
    BY <1>0, <1>4, <1>5, <2>1, AgreeMoves DEF Broadcast
<1>6. ASSUME NEW c \in Connections, NEW ms \in Seq(Message), AllAgree(ms), Write(c, ms)
      PROVE  \A d \in Connections : AllAgree(wire'[d])
  BY <1>0, <1>6, AgreeMoves DEF Write, HubTypeOK
<1>7. CASE \E n \in Links : Store(n) \/ \E outcome \in Settled : Settle(n, outcome)
  <2>1. UNCHANGED <<buffer, wire>> /\ \A n \in Links : status[n] \in Settled => status'[n] = status[n]
    BY <1>7 DEF Store, Settle, HubTypeOK, Settled
  <2>2. \A m \in Message : Agrees(m) => Agrees(m)'
    BY <2>1 DEF Agrees, Message
  <2> QED
    BY <1>0, <2>1, <2>2 DEF AllAgree
<1>8. CASE LinkChanged
  <2>1. LinkMessage(worker.n) \in Message /\ Agrees(LinkMessage(worker.n))
    <3>1. worker.n \in Links /\ status[worker.n] \in Settled
      BY <1>8 DEF LinkChanged, HubTypeOK, Silent, Announced
    <3> QED
      BY <3>1, MessageTypes DEF Agrees, LinkMessage
  <2> QED
    BY <1>0, <1>2, <1>5, <1>8, <2>1 DEF LinkChanged
<1>9. CASE StatsChanged
  BY <1>0, <1>2, <1>5, <1>9, MessageTypes DEF StatsChanged, Agrees
<1>10. CASE StatsFail \/ Close
  BY <1>0, <1>2, <1>10 DEF StatsFail, Close
<1>11. ASSUME NEW c \in Connections, Subscribe(c) \/ Refuse(c)
       PROVE  \A d \in Connections : AllAgree(buffer[d])' /\ AllAgree(wire[d])'
  BY <1>0, <1>2, <1>11 DEF Subscribe, Refuse
<1>12. ASSUME NEW c \in Connections, Open(c) \/ OpenSilently(c)
       PROVE  \A d \in Connections : AllAgree(buffer[d])' /\ AllAgree(wire[d])'
  <2>1. PICK ms \in {<<[kind |-> "open"], StatsMessage>>, <<[kind |-> "open"]>>} : Write(c, ms)
    BY <1>12 DEF Open, OpenSilently
  <2>2. /\ <<[kind |-> "open"]>> \in Seq(Message) /\ AllAgree(<<[kind |-> "open"]>>)
        /\ <<[kind |-> "open"], StatsMessage>> \in Seq(Message)
        /\ AllAgree(<<[kind |-> "open"], StatsMessage>>)
    BY MessageTypes DEF AllAgree, Agrees
  <2>3. UNCHANGED <<status, buffer>>
    BY <1>12 DEF Open, OpenSilently
  <2> QED
    BY <1>0, <1>2, <1>6, <2>1, <2>2, <2>3
<1>13. ASSUME NEW c \in Connections, Forward(c)
       PROVE  \A d \in Connections : AllAgree(buffer[d])' /\ AllAgree(wire[d])'
  <2>1. buffer[c] # <<>> /\ Head(buffer[c]) \in Message /\ Head(buffer[c]) = buffer[c][1]
        /\ 1 \in DOMAIN buffer[c]
    BY <1>0, <1>13 DEF Forward
  <2>2. Agrees(Head(buffer[c])) /\ AllAgree(Tail(buffer[c]))
    BY <1>0, <1>3, <2>1, AgreeMoves DEF AllAgree
  <2>3. \A d \in Connections : AllAgree(buffer'[d])
    BY <1>0, <1>13, <2>2 DEF Forward, HubTypeOK
  <2>4. \A d \in Connections : AllAgree(wire'[d])
    BY <1>4, <1>6, <1>13, <2>1, <2>2 DEF Forward
  <2> QED
    BY <1>2, <1>13, <2>3, <2>4 DEF Forward
<1>14. ASSUME NEW c \in Connections, Return(c)
       PROVE  \A d \in Connections : AllAgree(buffer[d])' /\ AllAgree(wire[d])'
  BY <1>0, <1>2, <1>3, <1>14 DEF Return, Forget
<1>15. ASSUME NEW c \in Connections, Cut(c) \/ Read(c)
       PROVE  \A d \in Connections : AllAgree(buffer[d])' /\ AllAgree(wire[d])'
  <2>1. CASE Cut(c)
    <3>1. \A d \in Connections : AllAgree(wire'[d])
      BY <1>0, <1>3, <2>1 DEF Cut, HubTypeOK
    <3> QED
      BY <1>0, <1>2, <2>1, <3>1 DEF Cut
  <2>2. CASE Read(c)
    <3>1. \A d \in Connections : AllAgree(wire'[d])
      BY <1>0, <2>2, AgreeMoves DEF Read, HubTypeOK
    <3> QED
      BY <1>0, <1>2, <2>2, <3>1 DEF Read
  <2> QED
    BY <1>15, <2>1, <2>2
<1>16. CASE Restart
  BY <1>0, <1>2, <1>3, <1>16 DEF Restart, Forget
<1> QED
  BY <1>7, <1>8, <1>9, <1>10, <1>11, <1>12, <1>13, <1>14, <1>15, <1>16
  DEF HubStep, SeeGone, SeeClosing
-----------------------------------------------------------------------------
(* Answers *)

(* No link is settled, and no answer gets on its way.                      *)
LEMMA AnswersFrame ==
    ASSUME TypeOK, AnswersCurrent, UNCHANGED <<loads, post, unsure>>,
           \A n \in Links : \/ status'[n] = status[n]
                            \/ status[n] = "none" /\ status'[n] = "pending"
    PROVE  AnswersCurrent'
<1>1. Counted' = Counted
  BY DEF Counted
<1>2. \A list : UpToDate(list) => UpToDate(list)'
  BY DEF UpToDate, Settled
<1>3. \A i \in DOMAIN loads : UpToDate(loads[i].list) => UpToDate(loads[i].list)'
  BY <1>2 DEF UpToDate
<1> QED
  BY <1>1, <1>3 DEF AnswersCurrent, TypeOK

LEMMA AnswersNext ==
    ASSUME TypeOK, AnswersCurrent, [Next]_vars
    PROVE  AnswersCurrent'
<1>0. HubTypeOK /\ loads \in Seq(Load) /\ post \in {0} \cup Links
  BY DEF TypeOK
<1>1. CASE SettleOne
  <2>1. UNCHANGED <<loads, post>> /\ unsure' = (unsure \/ UnderWay \/ (conn = 0 /\ ~dropped /\ loads = <<>>))
    BY <1>1 DEF SettleOne
  <2>2. ~unsure' => ~UnderWay
    BY <2>1
  <2> QED
    BY <2>1, <2>2 DEF AnswersCurrent, UnderWay
<1>2. CASE OtherSubmits
  <2>1. UNCHANGED <<loads, post, unsure>>
    BY <1>2 DEF OtherSubmits, pageVars
  <2>2. \A k \in Links : \/ status'[k] = status[k]
                         \/ status[k] = "none" /\ status'[k] = "pending"
    <3>1. PICK n \in Links : Store(n)
      BY <1>2 DEF OtherSubmits
    <3> QED
      BY <1>0, <3>1 DEF Store, HubTypeOK
  <2> QED
    BY <2>1, <2>2, AnswersFrame
<1>3. ASSUME UNCHANGED <<status, loads, post, unsure>> PROVE AnswersCurrent'
  <2>1. \A k \in Links : status'[k] = status[k]
    BY <1>3
  <2> QED
    BY <1>3, <2>1, AnswersFrame
<1>31. CASE \/ Announce \/ Connect \/ Lose
            \/ \E c \in Connections : Begin(c) \/ Tell(c) \/ Farewell(c)
            \/ (Close \/ Restart) /\ UNCHANGED pageVars
            \/ UNCHANGED vars
  <2>1. status' = status
    BY <1>31
    DEF Announce, LinkChanged, StatsChanged, StatsFail, Connect, Subscribe, Refuse, Lose, Cut,
        Begin, Open, OpenSilently, Tell, Forward, Farewell, SeeClosing, SeeGone, Return, Close,
        Restart, vars, hubVars
  <2>2. UNCHANGED <<loads, post, unsure>>
    BY <1>31 DEF Announce, Connect, Lose, Begin, Tell, Farewell, vars, pageVars
  <2> QED
    BY <1>3, <2>1, <2>2
<1>32. CASE Receive /\ (~OnOpen \/ ~dropped)
  <2>1. UNCHANGED <<status, post>>
    BY <1>32 DEF Receive, Read
  <2>2. UNCHANGED <<loads, unsure>>
    <3>1. CASE OnOpen
      BY <1>32, <3>1 DEF OnOpen
    <3>2. CASE ~OnOpen
      BY <1>32, <3>2, ReceiveCases DEF OnStats, OnLink
    <3> QED
      BY <3>1, <3>2
  <2> QED
    BY <1>3, <2>1, <2>2
<1>4. CASE Receive /\ OnOpen /\ dropped
  <2>1. UNCHANGED <<status, post>> /\ Counted' = Counted
    BY <1>4 DEF Receive, Read, Counted
  <2> QED
    <3>1. loads' = Append(loads, NewLoad) /\ unsure' = (unsure /\ UnderWay)
      BY <1>4 DEF OnOpen, LoadFirstPage
    <3>2. ASSUME NEW i \in DOMAIN loads'
          PROVE  loads'[i] = NewLoad \/ (i \in DOMAIN loads /\ loads'[i] = loads[i])
      BY <1>0, <3>1, NewLoadIsLoad
    <3>3. ASSUME ~unsure', NEW i \in DOMAIN loads'
          PROVE  /\ loads'[i].stats # NotYet => loads'[i].stats = Counted
                 /\ loads'[i].list # NoList => UpToDate(loads'[i].list)
      <4>1. CASE loads'[i] = NewLoad
        BY <4>1 DEF NewLoad
      <4>2. CASE i \in DOMAIN loads /\ loads'[i] = loads[i]
        BY <3>1, <3>3, <4>2 DEF AnswersCurrent, UnderWay
      <4> QED
        BY <3>2, <4>1, <4>2
    <3>4. ~unsure' /\ post # 0 => status[post] = "pending"
      BY <3>1 DEF AnswersCurrent, UnderWay
    <3> QED
      BY <2>1, <3>3, <3>4 DEF AnswersCurrent, UpToDate
<1>5. ASSUME NEW i \in DOMAIN loads, AnswerStats(i) \/ AnswerList(i) PROVE AnswersCurrent'
  <2>1. UNCHANGED <<status, post, unsure>> /\ Counted' = Counted
    BY <1>5 DEF AnswerStats, AnswerList, hubVars, Counted
  <2>2. ASSUME NEW j \in DOMAIN loads'
        PROVE  /\ j \in DOMAIN loads
               /\ loads'[j].stats \in {loads[j].stats, Counted}
               /\ loads'[j].list \in {loads[j].list, status}
    <3>1. loads[i] \in Load /\ j \in DOMAIN loads
      BY <1>0, <1>5 DEF AnswerStats, AnswerList
    <3>2. CASE AnswerStats(i)
      BY <3>1, <3>2 DEF AnswerStats, Load
    <3>3. CASE AnswerList(i)
      BY <3>1, <3>3 DEF AnswerList, Load
    <3> QED
      BY <1>5, <3>2, <3>3
  <2>3. UpToDate(status)
    BY DEF UpToDate
  <2> QED
    BY <2>1, <2>2, <2>3 DEF AnswersCurrent, UpToDate
<1>6. ASSUME NEW i \in DOMAIN loads, Loaded(i) \/ LoadFails(i) PROVE AnswersCurrent'
  <2>1. UNCHANGED <<status, post>> /\ (unsure' = unsure \/ unsure') /\ Counted' = Counted
    BY <1>6 DEF Loaded, LoadFails, hubVars, Counted
  <2>2. \A j \in DOMAIN loads' : \E k \in DOMAIN loads : loads'[j] = loads[k]
    BY <1>0, <1>6, RemoveAtProperties DEF Loaded, LoadFails
  <2> QED
    BY <2>1, <2>2 DEF AnswersCurrent, UpToDate
<1>7. CASE Submit
  <2>1. PICK n \in Links : Store(n) /\ post' = n
    BY <1>7 DEF Submit
  <2>2. /\ UNCHANGED <<loads, unsure>> /\ status'[n] = "pending"
        /\ \A k \in Links : \/ status'[k] = status[k]
                            \/ status[k] = "none" /\ status'[k] = "pending"
    BY <1>0, <1>7, <2>1 DEF Submit, Store, HubTypeOK
  <2>3. Counted' = Counted
    BY <2>2 DEF Counted
  <2>4. \A i \in DOMAIN loads : UpToDate(loads[i].list) => UpToDate(loads[i].list)'
    BY <2>2 DEF UpToDate, Settled
  <2> QED
    BY <2>1, <2>2, <2>3, <2>4 DEF AnswersCurrent
<1>8. CASE Submitted \/ SubmitFails
  <2>1. UNCHANGED <<status, loads, unsure>> /\ post' = 0 /\ Counted' = Counted
    BY <1>8 DEF Submitted, SubmitFails, hubVars, Counted
  <2> QED
    BY <2>1 DEF AnswersCurrent, UpToDate
<1> QED
  BY <1>1, <1>2, <1>31, <1>32, <1>4, <1>5, <1>6, <1>7, <1>8 DEF Next
-----------------------------------------------------------------------------
(* Openings *)

LEMMA OpensFrame ==
    ASSUME OpensFirst, conn' = conn, dropped' = dropped, Live' => Live,
           wire'[conn] = wire[conn]
    PROVE  OpensFirst'
BY DEF OpensFirst

LEMMA OpensNext ==
    ASSUME TypeOK, Wires, OpensFirst, [Next]_vars
    PROVE  OpensFirst'
<1>0. /\ HubTypeOK
      /\ conn \in {0} \cup Connections /\ 0 \notin Connections
      /\ \A c \in Connections : wire[c] \in Seq(Message)
      /\ streams \subseteq Connections
      /\ Live => conn \in Connections
  BY DEF TypeOK, HubTypeOK, Connections, Live
<1>1. CASE \/ SettleOne \/ Announce \/ OtherSubmits \/ Submit
           \/ Close /\ UNCHANGED pageVars
           \/ \E i \in DOMAIN loads : AnswerStats(i) \/ AnswerList(i) \/ Loaded(i) \/ LoadFails(i)
           \/ Submitted \/ SubmitFails \/ UNCHANGED vars
  <2>1. UNCHANGED <<handler, streams, wire, conn, dropped>>
    BY <1>1
    DEF SettleOne, Settle, Announce, LinkChanged, StatsChanged, StatsFail, OtherSubmits, Submit,
        Store, Close, AnswerStats, AnswerList, Loaded, LoadFails, Submitted, SubmitFails, vars,
        hubVars, pageVars
  <2> QED
    BY <2>1, OpensFrame DEF Live
<1>2. ASSUME NEW c \in Connections, Begin(c) PROVE OpensFirst'
  <2>1. /\ handler[c] = "opening" /\ handler' = [handler EXCEPT ![c] = "serving"]
        /\ UNCHANGED <<streams, conn, dropped>>
        /\ Write(c, <<[kind |-> "open"], StatsMessage>>) \/ Write(c, <<[kind |-> "open"]>>)
    BY <1>2 DEF Begin, Open, OpenSilently, pageVars
  <2>2. CASE c = conn
    <3>1. conn \notin cut /\ wire[conn] = <<>>
      BY <1>0, <2>1, <2>2 DEF Wires, Connections
    <3>2. /\ <<>> \o <<[kind |-> "open"], StatsMessage>> = <<[kind |-> "open"], StatsMessage>>
          /\ <<>> \o <<[kind |-> "open"]>> = <<[kind |-> "open"]>>
      BY MessageTypes, <1>0, ConcatEmptySeq
    <3>3. wire'[conn] \in {<<[kind |-> "open"], StatsMessage>>, <<[kind |-> "open"]>>}
      BY <1>0, <2>1, <2>2, <3>1, <3>2 DEF Write, HubTypeOK
    <3>4. wire'[conn] # <<>> /\ wire'[conn][1].kind = "open"
      BY <3>3
    <3> QED
      BY <2>1, <3>4 DEF OpensFirst
  <2>3. CASE c # conn
    <3>1. Live' => Live /\ wire'[conn] = wire[conn]
      BY <1>0, <2>1, <2>3 DEF Live, Write, HubTypeOK
    <3> QED
      BY <2>1, <3>1 DEF OpensFirst
  <2> QED
    BY <2>2, <2>3
<1>3. ASSUME NEW c \in Connections, Tell(c) PROVE OpensFirst'
  <2>1. UNCHANGED <<handler, streams, conn, dropped>> /\ Write(c, <<Head(buffer[c])>>)
    BY <1>3 DEF Tell, Forward, pageVars
  <2>2. Head(buffer[c]) \in Message
    BY <1>0, <1>3 DEF Tell, Forward, HubTypeOK
  <2>3. CASE Live /\ c = conn /\ wire'[conn] = wire[conn] \o <<Head(buffer[c])>>
    <3>1. wire[conn] # <<>> => wire'[conn] # <<>> /\ wire'[conn][1] = wire[conn][1]
      BY <1>0, <2>2, <2>3
    <3> QED
      BY <2>1, <2>3, <3>1 DEF OpensFirst
  <2>4. CASE wire'[conn] = wire[conn]
    BY <2>1, <2>4, OpensFrame DEF Live
  <2>5. CASE ~Live
    BY <2>1, <2>5 DEF OpensFirst, Live
  <2> QED
    BY <1>0, <2>1, <2>3, <2>4, <2>5 DEF Write, HubTypeOK
<1>4. ASSUME NEW c \in Connections, Farewell(c) PROVE OpensFirst'
  <2>1. Live' => Live
    BY <1>0, <1>4 DEF Farewell, SeeClosing, SeeGone, Return, pageVars, HubTypeOK, Live
  <2> QED
    BY <1>4, <2>1, OpensFrame DEF Farewell, SeeClosing, SeeGone, Return, pageVars
<1>5. CASE (Restart /\ UNCHANGED pageVars) \/ Connect \/ Lose
  <2>1. ~Live'
    <3>1. CASE Restart
      BY <3>1 DEF Restart, Live
    <3>2. CASE Connect
      BY <1>0, <3>2 DEF Connect, Subscribe, Refuse, HubTypeOK, Live
    <3>3. CASE Lose
      BY <1>0, <3>3 DEF Lose, Cut, Live
    <3> QED
      BY <1>5, <3>1, <3>2, <3>3
  <2> QED
    BY <2>1 DEF OpensFirst
<1>6. CASE Receive
  <2>1. UNCHANGED <<handler, streams, conn>>
    BY <1>6 DEF Receive, Read
  <2>2. CASE Head(wire[conn]).kind = "open"
    BY <1>6, <2>2, ReceiveCases DEF OpensFirst, OnOpen
  <2>3. CASE Head(wire[conn]).kind # "open"
    <3>1. wire[conn][1] = Head(wire[conn])
      BY <1>6, ReceiveCases
    <3>2. dropped' = dropped
      BY <1>6, <2>3, TypeOK, ReceiveCases DEF OnStats, OnLink
    <3> QED
      BY <2>1, <2>3, <3>1, <3>2 DEF OpensFirst, Live
  <2> QED
    BY <2>2, <2>3
<1> QED
  BY <1>1, <1>2, <1>3, <1>4, <1>5, <1>6 DEF Next
-----------------------------------------------------------------------------
(* The last stats *)

LEMMA NumbersFrame ==
    ASSUME NumbersAhead, conn' = conn, wire'[conn] = wire[conn], Counted' = Counted,
           AllTold' => AllTold, NumbersSafe => NumbersSafe'
    PROVE  NumbersAhead'
<1>1. \A i \in DOMAIN wire[conn] : OnWire(i)' <=> OnWire(i)
  BY DEF OnWire
<1>2. \A i \in DOMAIN wire[conn] : LastOnWire(i)' => LastOnWire(i)
  BY <1>1 DEF LastOnWire
<1> QED
  BY <1>1, <1>2 DEF NumbersAhead

(* A handler writes one more message to the connection of the page.        *)
LEMMA NumbersTell ==
    ASSUME TypeOK, HubInv, Wires, NumbersAhead, Live, Tell(conn)
    PROVE  NumbersAhead'
<1>0. /\ conn \in Connections /\ conn \in streams /\ conn \notin cut
      /\ buffer[conn] \in Seq(Message) /\ buffer[conn] # <<>> /\ wire[conn] \in Seq(Message)
      /\ buffer \in [Connections -> Seq(Message)] /\ wire \in [Connections -> Seq(Message)]
      /\ conn' = conn /\ Counted' = Counted
  <2>1. HubTypeOK /\ conn \in streams
    BY DEF TypeOK, Live
  <2>2. conn \in Connections /\ 0 \notin Connections
    BY <2>1 DEF HubTypeOK, Connections
  <2>3. buffer \in [Connections -> Seq(Message)] /\ wire \in [Connections -> Seq(Message)]
    BY <2>1 DEF HubTypeOK
  <2>4. conn \notin cut
    BY <2>2 DEF Wires
  <2>5. buffer[conn] # <<>> /\ conn' = conn /\ Counted' = Counted
    BY DEF Tell, Forward, pageVars, Counted
  <2> QED
    BY <2>1, <2>2, <2>3, <2>4, <2>5
<1> DEFINE m == Head(buffer[conn])
<1>1. /\ m \in Message /\ m = buffer[conn][1] /\ 1 \in DOMAIN buffer[conn]
      /\ \A i \in DOMAIN Tail(buffer[conn]) :
            i + 1 \in DOMAIN buffer[conn] /\ Tail(buffer[conn])[i] = buffer[conn][i + 1]
      /\ \A i \in DOMAIN buffer[conn] : i # 1 => i - 1 \in DOMAIN Tail(buffer[conn])
  BY <1>0
<1>2. /\ buffer'[conn] = Tail(buffer[conn])
      /\ wire'[conn] = wire[conn] \o <<m>>
  BY <1>0 DEF Tell, Forward, Write
<1>3. PICK k \in Nat : k = Len(wire[conn])
  BY <1>0
<1>4. /\ DOMAIN wire'[conn] = 1 .. k + 1 /\ DOMAIN wire[conn] = 1 .. k
      /\ wire'[conn][k + 1] = m
      /\ \A i \in 1 .. k : wire'[conn][i] = wire[conn][i]
  BY <1>0, <1>1, <1>2, <1>3
<1> HIDE DEF m
<1>5. SUFFICES ASSUME AllTold'
               PROVE  /\ \A i \in 1 .. k + 1 : LastOnWire(i)' => wire'[conn][i].counted = Counted
                      /\ (\A i \in 1 .. k + 1 : ~OnWire(i)') => NumbersSafe'
  BY <1>0, <1>4 DEF NumbersAhead
<1>6. /\ ~missed[conn] /\ worker = Silent
      /\ \A i \in DOMAIN Tail(buffer[conn]) : Tail(buffer[conn])[i].kind # "stats"
  BY <1>0, <1>2, <1>5 DEF AllTold, Tell, Forward, IsStats
<1>7. /\ OnWire(k + 1)' <=> m.kind = "stats"
      /\ \A i \in 1 .. k : OnWire(i)' <=> OnWire(i)
  BY <1>0, <1>3, <1>4 DEF OnWire
<1>8. CASE m.kind = "stats"
  <2>1. LastStats(conn, 1)
    <3>1. \A i \in DOMAIN buffer[conn] : IsStats(conn, i) => i = 1
      BY <1>0, <1>1, <1>6 DEF IsStats
    <3> QED
      BY <1>0, <1>1, <1>8, <3>1 DEF LastStats, IsStats
  <2>2. m.counted = Counted
    BY <1>0, <1>1, <1>6, <2>1 DEF HubInv, StreamsCurrent, Current
  <2>3. \A i \in 1 .. k + 1 : LastOnWire(i)' => i = k + 1
    <3>1. ASSUME NEW i \in 1 .. k + 1, LastOnWire(i)' PROVE k + 1 =< i
      <4>1. \A j \in 1 .. k + 1 : OnWire(j)' => j =< i
        BY <1>0, <1>4, <3>1 DEF LastOnWire
      <4> QED
        BY <1>7, <1>8, <4>1
    <3> QED
      BY <3>1
  <2> QED
    BY <1>3, <1>4, <1>7, <1>8, <2>2, <2>3
<1>9. CASE m.kind # "stats"
  <2>1. AllTold
    <3>1. \A i \in DOMAIN buffer[conn] : ~IsStats(conn, i)
      BY <1>0, <1>1, <1>6, <1>9 DEF IsStats
    <3> QED
      BY <1>6, <3>1 DEF AllTold
  <2>2. NumbersSafe => NumbersSafe'
    BY <1>0 DEF NumbersSafe, Tell, pageVars
  <2>3. \A i \in 1 .. k + 1 : LastOnWire(i)' => i \in 1 .. k /\ LastOnWire(i)
    <3>1. ASSUME NEW i \in 1 .. k + 1, LastOnWire(i)' PROVE i \in 1 .. k /\ LastOnWire(i)
      <4>1. OnWire(i)' /\ \A j \in 1 .. k + 1 : OnWire(j)' => j =< i
        BY <1>0, <1>4, <3>1 DEF LastOnWire
      <4>2. i \in 1 .. k
        BY <1>7, <1>9, <4>1
      <4> QED
        BY <1>4, <1>7, <4>1, <4>2 DEF LastOnWire
    <3> QED
      BY <3>1
  <2> QED
    BY <1>3, <1>4, <1>7, <2>1, <2>2, <2>3 DEF NumbersAhead
<1> QED
  BY <1>8, <1>9

(* The page reads the next message.                                        *)
LEMMA NumbersReceive ==
    ASSUME TypeOK, NumbersAhead, Receive
    PROVE  NumbersAhead'
<1> DEFINE m == Head(wire[conn])
<1>0. /\ conn \in Connections /\ wire[conn] \in Seq(Message) /\ wire[conn] # <<>>
      /\ wire \in [Connections -> Seq(Message)]
      /\ conn' = conn /\ Counted' = Counted /\ AllTold' = AllTold
  BY ReceiveCases DEF TypeOK, HubTypeOK, Receive, Read, Counted, AllTold, Live, IsStats
<1>1. wire'[conn] = Tail(wire[conn])
  BY <1>0 DEF Receive, Read
<1>2. PICK k \in Nat : k = Len(wire[conn])
  BY <1>0
<1>3. /\ DOMAIN wire'[conn] = 1 .. k - 1 /\ DOMAIN wire[conn] = 1 .. k /\ k > 0
      /\ \A i \in 1 .. k - 1 : wire'[conn][i] = wire[conn][i + 1]
      /\ m = wire[conn][1]
  BY <1>0, <1>1, <1>2
<1>4. /\ \A i \in 1 .. k - 1 : OnWire(i)' <=> OnWire(i + 1)
      /\ OnWire(1) <=> m.kind = "stats"
  BY <1>0, <1>3 DEF OnWire
<1>5. SUFFICES ASSUME AllTold
               PROVE  /\ \A i \in 1 .. k - 1 : LastOnWire(i)' => wire'[conn][i].counted = Counted
                      /\ (\A i \in 1 .. k - 1 : ~OnWire(i)') => NumbersSafe'
  BY <1>0, <1>3 DEF NumbersAhead
<1> HIDE DEF m
<1>6. \A i \in 1 .. k - 1 : LastOnWire(i)' => i + 1 \in 1 .. k /\ LastOnWire(i + 1)
  <2>1. ASSUME NEW i \in 1 .. k - 1, LastOnWire(i)'
        PROVE  LastOnWire(i + 1)
    <3>1. OnWire(i + 1) /\ \A j \in 1 .. k - 1 : OnWire(j)' => j =< i
      BY <1>0, <1>2, <1>3, <1>4, <2>1 DEF LastOnWire
    <3>2. ASSUME NEW j \in 1 .. k, OnWire(j) PROVE j =< i + 1
      <4>1. CASE j = 1
        BY <4>1
      <4>2. CASE j # 1
        <5>1. j - 1 \in 1 .. k - 1 /\ (j - 1) + 1 = j
          BY <1>2, <4>2
        <5>2. j - 1 =< i
          BY <1>4, <3>1, <3>2, <5>1
        <5> QED
          BY <5>2, <1>2
      <4> QED
        BY <4>1, <4>2
    <3> QED
      BY <1>3, <3>1, <3>2 DEF LastOnWire
  <2> QED
    BY <1>2, <2>1
<1>7. \A i \in 1 .. k - 1 : LastOnWire(i)' => wire'[conn][i].counted = Counted
  BY <1>3, <1>5, <1>6 DEF NumbersAhead
<1>8. ASSUME \A i \in 1 .. k - 1 : ~OnWire(i)' PROVE NumbersSafe'
  <2>1. \A j \in 1 .. k : OnWire(j) => j = 1
    <3>1. ASSUME NEW j \in 1 .. k, OnWire(j), j # 1 PROVE FALSE
      <4>1. j - 1 \in 1 .. k - 1 /\ (j - 1) + 1 = j
        BY <1>2, <3>1
      <4> QED
        BY <1>4, <1>8, <3>1, <4>1
    <3> QED
      BY <3>1
  <2>2. CASE m.kind = "stats"
    <3>1. LastOnWire(1)
      BY <1>3, <1>4, <2>1, <2>2 DEF LastOnWire
    <3>2. m.counted = Counted
      BY <1>3, <1>5, <3>1 DEF NumbersAhead
    <3>3. numbers' = m.counted
      BY <2>2, ReceiveCases DEF OnStats, m
    <3> QED
      BY <1>0, <3>2, <3>3 DEF NumbersSafe
  <2>3. CASE m.kind # "stats"
    <3>1. NumbersSafe
      BY <1>3, <1>4, <1>5, <2>1, <2>3 DEF NumbersAhead
    <3>2. CASE OnOpen
      <4>1. numbers' = numbers /\ (loads' # <<>> \/ UNCHANGED <<loads, unsure>>)
        BY <3>2 DEF OnOpen, LoadFirstPage, TypeOK
      <4> QED
        BY <1>0, <3>1, <4>1 DEF NumbersSafe
    <3>3. CASE ~OnOpen
      <4>1. UNCHANGED <<numbers, loads, unsure>>
        BY <2>3, <3>3, ReceiveCases DEF OnLink, m
      <4> QED
        BY <1>0, <3>1, <4>1 DEF NumbersSafe
    <3> QED
      BY <3>2, <3>3
  <2> QED
    BY <2>2, <2>3
<1> QED
  BY <1>7, <1>8

LEMMA NumbersNext ==
    ASSUME TypeOK, HubInv, Wires, AnswersCurrent, NumbersAhead, [Next]_vars
    PROVE  NumbersAhead'
<1>0. /\ HubTypeOK
      /\ conn \in {0} \cup Connections /\ 0 \notin Connections
      /\ streams \subseteq Connections
      /\ wire \in [Connections -> Seq(Message)] /\ buffer \in [Connections -> Seq(Message)]
  BY DEF TypeOK, HubTypeOK, Connections
<1>1. CASE SettleOne \/ Announce
  <2>1. ASSUME AllTold' PROVE FALSE
    <3>1. CASE SettleOne \/ (Announce /\ LinkChanged)
      BY <2>1, <3>1 DEF SettleOne, Settle, Announce, LinkChanged, AllTold, Silent
    <3>2. CASE Announce /\ StatsFail
      BY <1>0, <2>1, <3>2 DEF Announce, StatsFail, pageVars, AllTold, Live
    <3>3. CASE Announce /\ StatsChanged
      <4>1. conn' = conn /\ conn \in streams /\ ~missed'[conn]
        BY <2>1, <3>3 DEF Announce, StatsChanged, pageVars, AllTold, Live
      <4>2. buffer'[conn] = Append(buffer[conn], StatsMessage)
        BY <1>0, <3>3, <4>1 DEF StatsChanged, Broadcast
      <4>3. /\ Len(buffer[conn]) + 1 \in DOMAIN buffer'[conn]
            /\ buffer'[conn][Len(buffer[conn]) + 1] = StatsMessage
        BY <1>0, <4>1, <4>2, MessageTypes
      <4>4. PICK k \in Nat : k = Len(buffer[conn]) + 1
        BY <1>0, <4>1
      <4>5. buffer'[conn][k].kind = "stats" /\ k \in DOMAIN buffer'[conn]
        BY <1>0, <4>3, <4>4, MessageTypes
      <4> QED
        BY <2>1, <4>1, <4>5 DEF AllTold, IsStats
    <3> QED
      BY <1>1, <3>1, <3>2, <3>3 DEF Announce
  <2> QED
    BY <2>1 DEF NumbersAhead
<1>2. CASE OtherSubmits \/ Submit
  <2>1. PICK n \in Links : Store(n)
    BY <1>2 DEF OtherSubmits, Submit
  <2>2. Counted' = Counted
    BY <1>0, <2>1 DEF Store, Counted, HubTypeOK
  <2>3. UNCHANGED <<worker, streams, handler, buffer, wire, missed, conn, numbers, loads, unsure>>
    BY <1>2, <2>1 DEF OtherSubmits, Submit, Store, pageVars
  <2> QED
    BY <2>2, <2>3, NumbersFrame DEF AllTold, Live, IsStats, NumbersSafe
<1>3. ASSUME NEW c \in Connections, Begin(c) PROVE NumbersAhead'
  <2>1. /\ handler[c] = "opening" /\ handler' = [handler EXCEPT ![c] = "serving"]
        /\ UNCHANGED <<status, worker, streams, buffer, cut, conn, numbers, loads, unsure>>
    BY <1>3 DEF Begin, Open, OpenSilently, pageVars
  <2>2. CASE c # conn
    <3>1. CASE conn \in Connections
      <4>1. wire'[conn] = wire[conn]
        BY <1>0, <1>3, <2>2, <3>1 DEF Begin, Open, OpenSilently, Write
      <4>2. missed'[conn] = missed[conn] /\ handler'[conn] = handler[conn]
        BY <1>0, <1>3, <2>1, <2>2, <3>1 DEF Begin, Open, OpenSilently, HubTypeOK
      <4> QED
        BY <2>1, <4>1, <4>2, NumbersFrame DEF AllTold, Live, IsStats, NumbersSafe, Counted
    <3>2. CASE conn \notin Connections
      BY <1>0, <2>1, <3>2 DEF NumbersAhead, AllTold, Live
    <3> QED
      BY <3>1, <3>2
  <2>3. CASE c = conn /\ Open(c)
    <3>1. conn \notin cut /\ wire[conn] = <<>>
      BY <1>0, <2>1, <2>3 DEF Wires
    <3>2. <<>> \o <<[kind |-> "open"], StatsMessage>> = <<[kind |-> "open"], StatsMessage>>
      BY <1>0, MessageTypes, ConcatEmptySeq
    <3>3. wire'[conn] = <<[kind |-> "open"], StatsMessage>>
      BY <1>0, <2>3, <3>1, <3>2 DEF Open, Write
    <3>4. /\ DOMAIN wire'[conn] = {1, 2} /\ wire'[conn][1].kind = "open"
          /\ wire'[conn][2].kind = "stats" /\ wire'[conn][2].counted = Counted
      BY <1>0, <3>3, MessageTypes
    <3>5. \A i \in {1, 2} : OnWire(i)' <=> i = 2
      BY <2>1, <3>4 DEF OnWire
    <3>6. Counted' = Counted /\ \A i \in {1, 2} : LastOnWire(i)' => i = 2
      BY <2>1, <3>5 DEF LastOnWire, Counted
    <3> QED
      BY <2>1, <3>4, <3>5, <3>6 DEF NumbersAhead
  <2>4. CASE c = conn /\ OpenSilently(c)
    <3>1. missed'[conn]
      BY <1>0, <2>4 DEF OpenSilently, HubTypeOK
    <3> QED
      BY <2>1, <3>1 DEF NumbersAhead, AllTold
  <2> QED
    BY <1>3, <2>2, <2>3, <2>4 DEF Begin
<1>4. ASSUME NEW c \in Connections, Tell(c) PROVE NumbersAhead'
  <2>1. CASE c # conn /\ Live
    <3>1. UNCHANGED <<status, worker, streams, handler, missed, conn, numbers, loads, unsure>>
      BY <1>4 DEF Tell, Forward, pageVars
    <3>2. wire'[conn] = wire[conn] /\ buffer'[conn] = buffer[conn]
      BY <1>0, <1>4, <2>1 DEF Tell, Forward, Write, Live
    <3> QED
      BY <3>1, <3>2, NumbersFrame DEF AllTold, Live, IsStats, NumbersSafe, Counted
  <2>2. CASE c = conn /\ Live
    BY <1>4, <2>2, NumbersTell
  <2>3. CASE ~Live
    BY <1>4, <2>3 DEF Tell, Forward, pageVars, NumbersAhead, AllTold, Live
  <2> QED
    BY <2>1, <2>2, <2>3
<1>5. ASSUME NEW c \in Connections, Farewell(c) PROVE NumbersAhead'
  <2>1. /\ streams' = streams \ {c} /\ handler' = [handler EXCEPT ![c] = "ended"]
        /\ UNCHANGED <<status, worker, wire, conn, numbers, loads, unsure>>
        /\ Forget({c})
    BY <1>5 DEF Farewell, SeeClosing, SeeGone, Return, pageVars
  <2>2. CASE c = conn
    BY <2>1, <2>2 DEF NumbersAhead, AllTold, Live
  <2>3. CASE c # conn
    <3>1. conn \in streams =>
             /\ missed'[conn] = missed[conn] /\ handler'[conn] = handler[conn]
             /\ buffer'[conn] = buffer[conn]
      BY <1>0, <2>1, <2>3 DEF Forget, HubTypeOK
    <3>2. AllTold' => AllTold
      BY <2>1, <3>1 DEF AllTold, Live, IsStats
    <3> QED
      BY <2>1, <3>2, NumbersFrame DEF NumbersSafe, Counted
  <2> QED
    BY <2>2, <2>3
<1>6. CASE Close /\ UNCHANGED pageVars
  <2>1. UNCHANGED <<status, worker, streams, handler, buffer, wire, missed, conn, numbers, loads, unsure>>
    BY <1>6 DEF Close, pageVars
  <2> QED
    BY <2>1, NumbersFrame DEF AllTold, Live, IsStats, NumbersSafe, Counted
<1>7. CASE \/ Restart /\ UNCHANGED pageVars
           \/ Connect
           \/ Lose
  <2>1. ~Live'
    <3>1. CASE Restart
      BY <3>1 DEF Restart, Live
    <3>2. CASE Connect
      BY <1>0, <3>2 DEF Connect, Subscribe, Refuse, HubTypeOK, Live
    <3>3. CASE Lose
      BY <1>0, <3>3 DEF Lose, Cut, Live
    <3> QED
      BY <1>7, <3>1, <3>2, <3>3
  <2> QED
    BY <2>1 DEF NumbersAhead, AllTold
<1>8. CASE Receive
  BY <1>8, NumbersReceive
<1>9. ASSUME NEW i \in DOMAIN loads, AnswerStats(i) \/ AnswerList(i) \/ Loaded(i) \/ LoadFails(i)
      PROVE  NumbersAhead'
  <2>1. UNCHANGED <<status, worker, streams, handler, buffer, wire, missed, conn>>
    BY <1>9 DEF AnswerStats, AnswerList, Loaded, LoadFails, hubVars
  <2>2. NumbersSafe'
    <3>1. loads # <<>> /\ loads \in Seq(Load)
      BY <1>9 DEF TypeOK
    <3>2. CASE AnswerStats(i) \/ AnswerList(i)
      <4>1. DOMAIN loads' = DOMAIN loads
        BY <3>1, <3>2 DEF AnswerStats, AnswerList
      <4> QED
        BY <1>9, <4>1 DEF NumbersSafe
    <3>3. CASE Loaded(i)
      <4>1. ~unsure => loads[i].stats = Counted
        BY <1>9, <3>3 DEF AnswersCurrent, Loaded
      <4>2. numbers' = loads[i].stats /\ unsure' = unsure /\ Counted' = Counted
        BY <2>1, <3>3 DEF Loaded, Counted
      <4> QED
        BY <4>1, <4>2 DEF NumbersSafe
    <3>4. CASE LoadFails(i)
      BY <3>4 DEF LoadFails, NumbersSafe
    <3> QED
      BY <1>9, <3>2, <3>3, <3>4
  <2> QED
    BY <2>1, <2>2, NumbersFrame DEF AllTold, Live, IsStats, Counted
<1>10. CASE Submitted \/ SubmitFails \/ UNCHANGED vars
  <2>1. UNCHANGED <<status, worker, streams, handler, buffer, wire, missed, conn, numbers, loads, unsure>>
    BY <1>10 DEF Submitted, SubmitFails, vars, hubVars, pageVars
  <2> QED
    BY <2>1, NumbersFrame DEF AllTold, Live, IsStats, NumbersSafe, Counted
<1> QED
  BY <1>1, <1>2, <1>3, <1>4, <1>5, <1>6, <1>7, <1>8, <1>9, <1>10 DEF Next
-----------------------------------------------------------------------------
(* The settled links *)

LEMMA TellsMoves ==
    ASSUME NEW s \in Seq(Message), NEW t \in Seq(Message), NEW n
    PROVE  /\ Tells(s, n) \/ Tells(t, n) => Tells(s \o t, n)
           /\ s # <<>> /\ Tells(s, n) => About(Head(s), n) \/ Tells(Tail(s), n)
<1>1. ASSUME NEW i \in DOMAIN s PROVE i \in DOMAIN (s \o t) /\ (s \o t)[i] = s[i]
  OBVIOUS
<1>2. ASSUME NEW i \in DOMAIN t
      PROVE  Len(s) + i \in DOMAIN (s \o t) /\ (s \o t)[Len(s) + i] = t[i]
  OBVIOUS
<1>3. ASSUME s # <<>>, NEW i \in DOMAIN s, i # 1
      PROVE  i - 1 \in DOMAIN Tail(s) /\ Tail(s)[i - 1] = s[i]
  BY <1>3
<1>4. s # <<>> => Head(s) = s[1]
  OBVIOUS
<1>5. Tells(s, n) \/ Tells(t, n) => Tells(s \o t, n)
  BY <1>1, <1>2 DEF Tells
<1>6. s # <<>> /\ Tells(s, n) => About(Head(s), n) \/ Tells(Tail(s), n)
  BY <1>3, <1>4 DEF Tells
<1> QED
  BY <1>5, <1>6

LEMMA ShownFrame ==
    ASSUME ShownOrAhead,
           \A n \in Links : status'[n] \in Settled => status'[n] = status[n],
           UNCHANGED <<shown, conn>>,
           unsure => unsure', dropped => dropped', loads # <<>> => loads' # <<>>,
           \A n \in Links : conn # 0 /\ StillToHear(n) => StillToHear(n)'
    PROVE  ShownOrAhead'
<1>1. SUFFICES ASSUME NEW n \in Links, status'[n] \in Settled PROVE Covered(n)'
  BY DEF ShownOrAhead
<1>2. Covered(n)
  BY <1>1 DEF ShownOrAhead
<1>3. CASE shown[n] = status[n]
  BY <1>1, <1>3 DEF Covered
<1>4. CASE unsure \/ dropped \/ loads # <<>>
  BY <1>4 DEF Covered
<1>5. CASE conn # 0 /\ StillToHear(n)
  BY <1>5 DEF Covered
<1> QED
  BY <1>2, <1>3, <1>4, <1>5 DEF Covered

(* The worker settles a link or announces one.                             *)
LEMMA ShownWorker ==
    ASSUME TypeOK, Announced, ShownOrAhead, SettleOne \/ Announce
    PROVE  ShownOrAhead'
<1>0. /\ HubTypeOK
      /\ conn \in {0} \cup Connections
      /\ buffer \in [Connections -> Seq(Message)]
  BY DEF TypeOK, HubTypeOK
<1>1. CASE SettleOne
  <2>1. PICK n \in Links, outcome \in Settled : Settle(n, outcome)
    BY <1>1 DEF SettleOne
  <2>2. /\ worker.at # "settled" /\ worker' = [at |-> "settled", n |-> n]
        /\ \A k \in Links : k # n => status'[k] = status[k]
        /\ UNCHANGED <<buffer, wire, streams, missed, shown, loads, conn, dropped>>
        /\ unsure \/ (conn = 0 /\ ~dropped /\ loads = <<>>) => unsure'
    BY <1>0, <1>1, <2>1 DEF SettleOne, Settle, Silent, HubTypeOK
  <2>3. ASSUME NEW k \in Links, status'[k] \in Settled PROVE Covered(k)'
    <3>1. CASE k = n
      <4>1. conn # 0 => StillToHear(k)'
        BY <2>2, <3>1 DEF StillToHear
      <4> QED
        BY <2>2, <4>1 DEF Covered
    <3>2. CASE k # n
      <4>1. Covered(k) /\ status'[k] = status[k]
        BY <2>2, <2>3, <3>2 DEF ShownOrAhead
      <4>2. StillToHear(k) => StillToHear(k)'
        BY <2>2 DEF StillToHear
      <4> QED
        BY <2>2, <4>1, <4>2 DEF Covered
    <3> QED
      BY <3>1, <3>2
  <2> QED
    BY <2>3 DEF ShownOrAhead
<1>2. ASSUME Announce,
             \A n \in Links : conn # 0 /\ StillToHear(n) => StillToHear(n)'
      PROVE  ShownOrAhead'
  <2>1. /\ status' = status
        /\ UNCHANGED <<shown, conn, unsure, dropped, loads>>
    BY <1>2 DEF Announce, LinkChanged, StatsChanged, StatsFail, pageVars
  <2> QED
    BY <1>2, <2>1, ShownFrame
<1>3. ASSUME NEW m \in Message, Broadcast(m), conn # 0, conn \in streams, ~missed'[conn]
      PROVE  \A n \in Links : Tells(buffer[conn], n) \/ About(m, n) => Tells(buffer'[conn], n)
  <2>1. conn \in Connections /\ buffer[conn] \in Seq(Message) /\ <<m>> \in Seq(Message)
    BY <1>0, <1>3
  <2>2. buffer'[conn] = Append(buffer[conn], m)
    BY <1>0, <1>3, <2>1 DEF Broadcast
  <2>3. buffer'[conn] = buffer[conn] \o <<m>>
    BY <2>1, <2>2, AppendIsConcat
  <2>4. \A n \in Links : About(m, n) => Tells(<<m>>, n)
    BY DEF Tells
  <2> QED
    BY <2>1, <2>3, <2>4, TellsMoves
<1>4. CASE Announce /\ LinkChanged
  <2>1. ASSUME NEW n \in Links, conn # 0, StillToHear(n) PROVE StillToHear(n)'
    <3>1. UNCHANGED <<streams, wire, conn>>
      BY <1>4 DEF Announce, LinkChanged, pageVars
    <3>2. CASE conn \notin streams \/ missed'[conn]
      BY <3>1, <3>2 DEF StillToHear
    <3>3. CASE conn \in streams /\ ~missed'[conn]
      <4>1. ~missed[conn]
        BY <1>0, <1>4, <2>1, <3>3 DEF LinkChanged, Broadcast
      <4>2. CASE Tells(wire[conn], n)
        BY <3>1, <4>2 DEF StillToHear
      <4>3. CASE Tells(buffer[conn], n) \/ (worker.at = "settled" /\ worker.n = n)
        <5>1. worker.n \in Links /\ LinkMessage(worker.n) \in Message
          BY <1>0, <1>4, MessageTypes DEF LinkChanged, HubTypeOK, Silent, Announced
        <5>2. worker.n = n => About(LinkMessage(worker.n), n)
          BY DEF About, LinkMessage
        <5>3. Tells(buffer'[conn], n)
          BY <1>3, <1>4, <2>1, <3>3, <4>3, <5>1, <5>2 DEF LinkChanged
        <5> QED
          BY <3>1, <5>3 DEF StillToHear
      <4> QED
        BY <2>1, <3>3, <4>1, <4>2, <4>3 DEF StillToHear
    <3> QED
      BY <3>2, <3>3
  <2> QED
    BY <1>2, <1>4, <2>1
<1>5. CASE Announce /\ (StatsChanged \/ StatsFail)
  <2>1. UNCHANGED <<streams, wire, conn>> /\ worker.at # "settled"
    BY <1>5 DEF Announce, StatsChanged, StatsFail, pageVars
  <2>2. ASSUME NEW n \in Links, conn # 0, StillToHear(n) PROVE StillToHear(n)'
    <3>1. CASE conn \notin streams \/ missed'[conn] \/ Tells(wire[conn], n)
      BY <2>1, <3>1 DEF StillToHear
    <3>2. CASE conn \in streams /\ ~missed'[conn] /\ ~Tells(wire[conn], n)
      <4>1. StatsChanged
        BY <1>0, <1>5, <2>2, <3>2 DEF StatsFail
      <4>2. ~missed[conn]
        BY <1>0, <2>2, <3>2, <4>1 DEF StatsChanged, Broadcast
      <4>3. Tells(buffer[conn], n)
        BY <2>1, <2>2, <3>2, <4>2 DEF StillToHear
      <4>4. Tells(buffer'[conn], n)
        BY <1>0, <1>3, <2>2, <3>2, <4>1, <4>3, MessageTypes DEF StatsChanged
      <4> QED
        BY <2>1, <4>4 DEF StillToHear
    <3> QED
      BY <3>1, <3>2
  <2> QED
    BY <1>2, <1>5, <2>2
<1> QED
  BY <1>1, <1>4, <1>5 DEF Announce

(* A handler opens its stream or writes a message of it.                   *)
LEMMA ShownWrite ==
    ASSUME TypeOK, Wires, ShownOrAhead,
           NEW c \in Connections, Begin(c) \/ Tell(c)
    PROVE  ShownOrAhead'
<1>0. /\ HubTypeOK
      /\ buffer \in [Connections -> Seq(Message)] /\ wire \in [Connections -> Seq(Message)]
      /\ missed \in [Connections -> BOOLEAN]
      /\ UNCHANGED <<status, worker, streams, pageVars>>
  BY DEF TypeOK, HubTypeOK, Begin, Tell, Open, OpenSilently, Forward
<1>1. ASSUME NEW n \in Links, conn \in streams, ~missed'[conn], ~missed[conn], StillToHear(n)
      PROVE  StillToHear(n)'
  <2>1. conn \in Connections /\ conn \notin cut /\ conn' = conn
    BY <1>0, <1>1 DEF HubTypeOK, Wires, Connections, pageVars
  <2>2. buffer[conn] \in Seq(Message) /\ wire[conn] \in Seq(Message)
    BY <1>0, <2>1
  <2>3. CASE worker.at = "settled" /\ worker.n = n
    BY <1>0, <2>3 DEF StillToHear
  <2>4. SUFFICES ASSUME Tells(buffer[conn], n) \/ Tells(wire[conn], n)
                 PROVE  Tells(buffer'[conn], n) \/ Tells(wire'[conn], n)
    BY <1>0, <1>1, <2>1, <2>3 DEF StillToHear
  <2>5. CASE c # conn
    <3>1. wire'[conn] = wire[conn] /\ buffer'[conn] = buffer[conn]
      BY <1>0, <2>1, <2>5 DEF Begin, Tell, Open, OpenSilently, Forward, Write
    <3> QED
      BY <2>4, <3>1
  <2>6. CASE c = conn /\ Begin(c)
    <3>1. PICK ms \in {<<[kind |-> "open"], StatsMessage>>, <<[kind |-> "open"]>>} : Write(c, ms)
      BY <2>6 DEF Begin, Open, OpenSilently
    <3>2. ms \in Seq(Message)
      <4>1. /\ <<[kind |-> "open"], StatsMessage>> \in Seq(Message)
            /\ <<[kind |-> "open"]>> \in Seq(Message)
        BY <1>0, MessageTypes
      <4> QED
        BY <4>1
    <3>3. wire'[conn] = wire[conn] \o ms /\ buffer' = buffer
      BY <1>0, <2>1, <2>6, <3>1 DEF Begin, Open, OpenSilently, Write
    <3> QED
      BY <2>2, <2>4, <3>2, <3>3, TellsMoves
  <2>7. CASE c = conn /\ Tell(c)
    <3>1. buffer[conn] # <<>> /\ Head(buffer[conn]) \in Message
      BY <2>2, <2>7 DEF Tell, Forward
    <3>2. <<Head(buffer[conn])>> \in Seq(Message)
      BY <3>1
    <3>3. /\ wire'[conn] = wire[conn] \o <<Head(buffer[conn])>>
          /\ buffer'[conn] = Tail(buffer[conn])
      BY <1>0, <2>1, <2>7 DEF Tell, Forward, Write
    <3>4. About(Head(buffer[conn]), n) => Tells(<<Head(buffer[conn])>>, n)
      BY DEF Tells
    <3> QED
      BY <2>2, <2>4, <3>1, <3>2, <3>3, <3>4, TellsMoves
  <2> QED
    BY <2>5, <2>6, <2>7
<1>2. ASSUME NEW n \in Links, StillToHear(n) PROVE StillToHear(n)'
  <2>1. CASE conn \notin streams \/ missed'[conn]
    BY <1>0, <2>1 DEF StillToHear, pageVars
  <2>2. CASE conn \in streams /\ ~missed'[conn]
    <3>1. conn \in Connections
      BY <1>0, <2>2 DEF HubTypeOK
    <3>2. ~missed[conn]
      <4>1. missed' = missed \/ missed' = [missed EXCEPT ![c] = TRUE]
        BY DEF Begin, Tell, Open, OpenSilently, Forward
      <4> QED
        BY <1>0, <2>2, <3>1, <4>1
    <3> QED
      BY <1>1, <1>2, <2>2, <3>2
  <2> QED
    BY <2>1, <2>2
<1> QED
  BY <1>0, <1>2, ShownFrame DEF pageVars

(* The page reads the next message.                                        *)
LEMMA ShownReceive ==
    ASSUME TypeOK, Truthful, ShownOrAhead, Receive
    PROVE  ShownOrAhead'
<1> DEFINE m == Head(wire[conn])
<1>0. /\ conn \in Connections /\ wire[conn] \in Seq(Message) /\ wire[conn] # <<>>
      /\ wire'[conn] = Tail(wire[conn])
      /\ UNCHANGED <<status, worker, streams, buffer, missed, conn>>
  BY ReceiveCases DEF TypeOK, HubTypeOK, Receive, Read
<1>1. Agrees(m)
  <2>1. 1 \in DOMAIN wire[conn] /\ m = wire[conn][1]
    BY <1>0
  <2> QED
    BY <1>0, <2>1 DEF Truthful
<1>2. ASSUME NEW n \in Links, ~About(m, n), StillToHear(n) PROVE StillToHear(n)'
  <2>1. Tells(wire[conn], n) => Tells(wire'[conn], n)
    BY <1>0, <1>2, TellsMoves
  <2> QED
    BY <1>0, <1>2, <2>1 DEF StillToHear
<1> HIDE DEF m
<1>3. CASE m.kind = "open" /\ OnOpen
  <2>1. /\ shown' = shown
        /\ loads # <<>> \/ dropped => loads' # <<>>
        /\ unsure => unsure' \/ loads' # <<>>
    BY <1>3 DEF OnOpen, LoadFirstPage, TypeOK
  <2>2. \A n \in Links : ~About(m, n)
    BY <1>3 DEF About
  <2> QED
    BY <1>0, <1>2, <2>1, <2>2 DEF ShownOrAhead, Covered
<1>4. CASE m.kind = "stats" /\ OnStats(m.counted)
  <2>1. \A n \in Links : ~About(m, n)
    BY <1>4 DEF About
  <2> QED
    BY <1>0, <1>2, <1>4, <2>1, ShownFrame DEF OnStats
<1>5. CASE m.kind = "link" /\ OnLink(m.n, m.status)
  <2>1. ASSUME NEW n \in Links, status'[n] \in Settled PROVE Covered(n)'
    <3>1. CASE m.n = n
      <4>1. shown'[n] = m.status
        BY <1>5, <3>1 DEF OnLink, TypeOK
      <4>2. m.status = status[n]
        BY <1>1, <1>5, <3>1 DEF Agrees
      <4> QED
        BY <1>0, <4>1, <4>2 DEF Covered
    <3>2. CASE m.n # n
      <4>1. ~About(m, n) /\ shown'[n] = shown[n] /\ UNCHANGED <<loads, dropped, unsure>>
        BY <1>5, <3>2 DEF About, OnLink, TypeOK
      <4> QED
        BY <1>0, <1>2, <2>1, <4>1 DEF ShownOrAhead, Covered
    <3> QED
      BY <3>1, <3>2
  <2> QED
    BY <2>1 DEF ShownOrAhead
<1> QED
  BY <1>3, <1>4, <1>5, ReceiveCases DEF m

LEMMA ShownNext ==
    ASSUME TypeOK, Announced, Wires, Truthful, AnswersCurrent, ShownOrAhead, [Next]_vars
    PROVE  ShownOrAhead'
<1>0. HubTypeOK /\ 0 \notin Connections /\ conn \in {0} \cup Connections
  BY DEF TypeOK, Connections
<1>1. CASE SettleOne \/ Announce
  BY <1>1, ShownWorker
<1>2. CASE OtherSubmits \/ Submit
  <2>1. PICK n \in Links : Store(n)
    BY <1>2 DEF OtherSubmits, Submit
  <2>2. \A k \in Links : status'[k] \in Settled => status'[k] = status[k]
    BY <1>0, <2>1 DEF Store, HubTypeOK, Settled
  <2>3. UNCHANGED <<worker, streams, buffer, wire, missed, conn, shown, loads, dropped, unsure>>
    BY <1>2, <2>1 DEF OtherSubmits, Submit, Store, pageVars
  <2> QED
    BY <2>2, <2>3, ShownFrame DEF StillToHear
<1>3. ASSUME NEW c \in Connections, Begin(c) \/ Tell(c) PROVE ShownOrAhead'
  BY <1>3, ShownWrite
<1>4. ASSUME NEW c \in Connections, Farewell(c) PROVE ShownOrAhead'
  <2>1. /\ streams' = streams \ {c} /\ Forget({c})
        /\ UNCHANGED <<status, worker, wire, conn, shown, loads, dropped, unsure>>
    BY <1>4 DEF Farewell, SeeClosing, SeeGone, Return, pageVars
  <2>2. ASSUME NEW n \in Links, conn # 0, StillToHear(n) PROVE StillToHear(n)'
    <3>1. CASE c = conn
      BY <2>1, <3>1 DEF StillToHear
    <3>2. CASE c # conn
      <4>1. missed'[conn] = missed[conn] /\ buffer'[conn] = buffer[conn]
        BY <1>0, <2>1, <2>2, <3>2 DEF Forget, HubTypeOK
      <4> QED
        BY <2>1, <2>2, <4>1 DEF StillToHear
    <3> QED
      BY <3>1, <3>2
  <2> QED
    BY <2>1, <2>2, ShownFrame
<1>5. CASE Close /\ UNCHANGED pageVars
  <2>1. UNCHANGED <<status, worker, streams, buffer, wire, missed, conn, shown, loads, dropped, unsure>>
    BY <1>5 DEF Close, pageVars
  <2> QED
    BY <2>1, ShownFrame DEF StillToHear
<1>6. CASE Restart /\ UNCHANGED pageVars
  <2>1. streams' = {} /\ UNCHANGED <<status, conn, shown, loads, dropped, unsure>>
    BY <1>6 DEF Restart, pageVars
  <2>2. \A n \in Links : StillToHear(n)'
    BY <2>1 DEF StillToHear
  <2> QED
    BY <2>1, <2>2, ShownFrame
<1>7. CASE Connect
  <2>1. conn = 0 /\ UNCHANGED <<status, shown, loads, unsure>> /\ (dropped => dropped')
    BY <1>7 DEF Connect, Subscribe, Refuse
  <2> QED
    BY <2>1 DEF ShownOrAhead, Covered
<1>8. CASE Lose
  BY <1>8 DEF Lose, ShownOrAhead, Covered
<1>9. CASE Receive
  BY <1>9, ShownReceive
<1>10. ASSUME NEW i \in DOMAIN loads, AnswerStats(i) \/ AnswerList(i) PROVE ShownOrAhead'
  <2>1. loads \in Seq(Load) /\ DOMAIN loads' = DOMAIN loads
    BY <1>10 DEF AnswerStats, AnswerList, TypeOK
  <2>2. loads' # <<>>
    BY <1>10, <2>1
  <2> QED
    BY <2>2 DEF ShownOrAhead, Covered
<1>11. ASSUME NEW i \in DOMAIN loads, Loaded(i) PROVE ShownOrAhead'
  <2>1. status' = status /\ unsure' = unsure /\ shown' = loads[i].list
    BY <1>11 DEF Loaded, hubVars
  <2>2. ~unsure => UpToDate(loads[i].list)
    BY <1>11 DEF AnswersCurrent, Loaded
  <2> QED
    BY <2>1, <2>2 DEF ShownOrAhead, Covered, UpToDate
<1>12. ASSUME NEW i \in DOMAIN loads, LoadFails(i) PROVE ShownOrAhead'
  BY <1>12 DEF LoadFails, ShownOrAhead, Covered
<1>13. CASE Submitted
  <2>1. UNCHANGED <<status, worker, streams, buffer, wire, missed, conn, loads, dropped, unsure>>
    BY <1>13 DEF Submitted, hubVars
  <2>2. \A n \in Links : n # post => shown'[n] = shown[n]
    BY <1>13 DEF Submitted, TypeOK
  <2>3. ~unsure => status[post] = "pending"
    BY <1>13 DEF Submitted, AnswersCurrent
  <2>4. \A n \in Links : StillToHear(n) => StillToHear(n)'
    BY <2>1 DEF StillToHear
  <2>5. ASSUME NEW n \in Links, status'[n] \in Settled PROVE Covered(n)'
    <3>1. CASE unsure
      BY <2>1, <3>1 DEF Covered
    <3>2. CASE ~unsure
      <4>1. n # post /\ Covered(n)
        BY <2>1, <2>3, <2>5, <3>2 DEF Settled, ShownOrAhead
      <4> QED
        BY <2>1, <2>2, <2>4, <4>1 DEF Covered
    <3> QED
      BY <3>1, <3>2
  <2> QED
    BY <2>5 DEF ShownOrAhead
<1>14. CASE SubmitFails \/ UNCHANGED vars
  <2>1. UNCHANGED <<status, worker, streams, buffer, wire, missed, conn, shown, loads, dropped, unsure>>
    BY <1>14 DEF SubmitFails, vars, hubVars, pageVars
  <2> QED
    BY <2>1, ShownFrame DEF StillToHear
<1> QED
  BY <1>1, <1>2, <1>3, <1>4, <1>5, <1>6, <1>7, <1>8, <1>9, <1>10, <1>11, <1>12, <1>13, <1>14
  DEF Next
-----------------------------------------------------------------------------
(* The loads under way *)

LEMMA CountedFrame ==
    ASSUME LoadsCounted, loads \in Seq(Load), loads' \in Seq(Load), Len(loads') =< Len(loads),
           conn \in {0} \cup Connections, UNCHANGED <<conn, dropped>>,
           \A c \in Connections : handler'[c] = "unused" <=> handler[c] = "unused",
           \A c \in Connections : handler[c] = "refused" => handler'[c] = "refused"
    PROVE  LoadsCounted'
<1>1. PICK u \in 0 .. MaxConnections : LoadsWith(u)
  BY DEF LoadsCounted
<1>2. Len(loads) \in Nat /\ Len(loads') \in Nat
  OBVIOUS
<1> QED
  BY <1>1, <1>2 DEF LoadsWith, LoadsCounted, Connections

LEMMA CountedNext ==
    ASSUME TypeOK, PageTypes', Wires, LoadsCounted, [Next]_vars
    PROVE  LoadsCounted'
<1>0. /\ HubTypeOK
      /\ loads \in Seq(Load) /\ loads' \in Seq(Load)
      /\ Len(loads) \in Nat /\ Len(loads') \in Nat
      /\ conn \in {0} \cup Connections
      /\ Connections = 1 .. MaxConnections
  BY DEF TypeOK, PageTypes, Connections
<1>1. ASSUME UNCHANGED <<loads, conn, dropped>>,
             \A c \in Connections : handler'[c] = "unused" <=> handler[c] = "unused",
             \A c \in Connections : handler[c] = "refused" => handler'[c] = "refused"
      PROVE  LoadsCounted'
  BY <1>0, <1>1, CountedFrame
<1>2. CASE \/ SettleOne \/ Announce \/ OtherSubmits \/ Submit \/ Submitted \/ SubmitFails
           \/ Close /\ UNCHANGED pageVars
           \/ UNCHANGED vars
  <2>1. UNCHANGED <<handler, loads, conn, dropped>>
    BY <1>2
    DEF SettleOne, Settle, Announce, LinkChanged, StatsChanged, StatsFail, OtherSubmits, Submit,
        Store, Submitted, SubmitFails, Close, vars, hubVars, pageVars
  <2> QED
    BY <1>1, <2>1
<1>3. CASE \/ \E c \in Connections : Begin(c) \/ Tell(c) \/ Farewell(c)
           \/ Restart /\ UNCHANGED pageVars
  <2>1. UNCHANGED <<loads, conn, dropped>>
    BY <1>3 DEF Begin, Tell, Farewell, pageVars
  <2>2. ASSUME NEW c \in Connections, Begin(c) \/ Tell(c) \/ Farewell(c), NEW d \in Connections
        PROVE  /\ handler'[d] = "unused" <=> handler[d] = "unused"
               /\ handler[d] = "refused" => handler'[d] = "refused"
    BY <1>0, <2>2
    DEF Begin, Tell, Farewell, Open, OpenSilently, Forward, SeeClosing, SeeGone, Return, HubTypeOK
  <2>3. ASSUME Restart, NEW d \in Connections
        PROVE  /\ handler'[d] = "unused" <=> handler[d] = "unused"
               /\ handler[d] = "refused" => handler'[d] = "refused"
    BY <1>0, <2>3 DEF Restart, HubTypeOK
  <2> QED
    BY <1>1, <1>3, <2>1, <2>2, <2>3
<1>4. CASE Connect
  <2>1. PICK c \in Connections :
           /\ IsNext(c)
           /\ Subscribe(c) \/ Refuse(c)
           /\ conn' = c
           /\ dropped' = (dropped \/ Cardinality(streams) >= MaxStreams)
    BY <1>4 DEF Connect
  <2>2. PICK u \in 0 .. MaxConnections : LoadsWith(u)
    BY DEF LoadsCounted
  <2>3. c = u + 1
    <3>1. \A b \in Connections : b >= c <=> b > u
      BY <2>1, <2>2 DEF IsNext, LoadsWith
    <3>2. c > u
      BY <1>0, <3>1
    <3>3. u + 1 >= c
      <4>1. u + 1 \in Connections
        BY <1>0, <3>2, Bounds
      <4> QED
        BY <3>1, <4>1
    <3> QED
      BY <1>0, <3>2, <3>3
  <2>4. /\ loads' = loads /\ handler'[c] \in {"opening", "refused"}
        /\ \A d \in Connections : d # c => handler'[d] = handler[d]
    BY <1>0, <1>4, <2>1 DEF Connect, Subscribe, Refuse, HubTypeOK
  <2>5. u = 0 /\ dropped' => handler'[c] = "refused"
    <3>1. Cardinality(streams) \in Nat
      BY <1>0, FiniteConnections, FS_Subset, FS_CardinalityType DEF HubTypeOK
    <3>2. ASSUME Cardinality(streams) >= MaxStreams PROVE handler'[c] = "refused"
      BY <1>0, <2>1, <3>1, <3>2, Bounds DEF Subscribe, Refuse, HubTypeOK
    <3> QED
      BY <2>1, <2>2, <3>2 DEF LoadsWith
  <2>6. u + 1 \in 0 .. MaxConnections /\ u + 1 # 0
    BY <1>0, <2>3
  <2>7. \A d \in Connections : handler'[d] = "unused" <=> d > u + 1
    BY <1>0, <2>2, <2>3, <2>4 DEF LoadsWith
  <2>8. Len(loads') =< u + 1 /\ (u > 0 => Len(loads') < u + 1)
    BY <1>0, <2>2, <2>4 DEF LoadsWith
  <2>9. LoadsWith(u + 1)'
    <3>1. PICK v \in 0 .. MaxConnections : v = u + 1
      BY <2>6
    <3>2. dropped' => Len(loads') < v \/ handler'[conn'] = "refused"
      BY <2>1, <2>5, <2>8, <3>1
    <3>3. LoadsWith(v)'
      BY <2>1, <2>3, <2>6, <2>7, <2>8, <3>1, <3>2 DEF LoadsWith
    <3> QED
      BY <3>1, <3>3
  <2> QED
    BY <2>6, <2>9 DEF LoadsCounted
<1>5. CASE Lose
  <2>1. UNCHANGED <<loads, handler>> /\ conn' = 0 /\ conn # 0 /\ dropped'
    BY <1>5 DEF Lose, Cut
  <2>2. PICK u \in 0 .. MaxConnections : LoadsWith(u)
    BY DEF LoadsCounted
  <2> QED
    BY <1>0, <2>1, <2>2 DEF LoadsWith, LoadsCounted
<1>6. CASE Receive
  <2>1. UNCHANGED <<handler, conn>>
    BY <1>6 DEF Receive, Read
  <2>2. CASE OnOpen /\ dropped
    <3>1. ~dropped' /\ loads' = Append(loads, NewLoad) /\ conn # 0
      BY <1>6, <2>2 DEF OnOpen, LoadFirstPage, Receive
    <3>2. PICK u \in 0 .. MaxConnections : LoadsWith(u)
      BY DEF LoadsCounted
    <3>3. handler[conn] # "refused"
      BY <1>6, <1>0, <3>1, ReceiveCases DEF Wires
    <3>4. Len(loads) < u
      BY <2>2, <3>1, <3>2, <3>3 DEF LoadsWith
    <3>5. Len(loads') = Len(loads) + 1
      BY <1>0, <3>1, NewLoadIsLoad
    <3> QED
      BY <1>0, <2>1, <3>1, <3>2, <3>4, <3>5 DEF LoadsWith, LoadsCounted
  <2>3. CASE OnOpen /\ ~dropped
    <3>1. loads' = loads /\ dropped' = dropped
      BY <2>3 DEF OnOpen, TypeOK
    <3> QED
      BY <1>1, <2>1, <3>1
  <2>4. CASE ~OnOpen
    <3>1. UNCHANGED <<loads, dropped>>
      BY <1>6, <2>4, ReceiveCases DEF OnStats, OnLink
    <3> QED
      BY <1>1, <2>1, <3>1
  <2> QED
    BY <2>2, <2>3, <2>4
<1>7. ASSUME NEW i \in DOMAIN loads, AnswerStats(i) \/ AnswerList(i) \/ Loaded(i) \/ LoadFails(i)
      PROVE  LoadsCounted'
  <2>1. UNCHANGED <<handler, conn, dropped>>
    BY <1>7 DEF AnswerStats, AnswerList, Loaded, LoadFails, hubVars
  <2>2. Len(loads') =< Len(loads)
    <3>1. CASE AnswerStats(i) \/ AnswerList(i)
      <4>1. DOMAIN loads' = DOMAIN loads
        BY <1>0, <3>1 DEF AnswerStats, AnswerList
      <4> QED
        BY <1>0, <4>1
    <3>2. CASE Loaded(i) \/ LoadFails(i)
      BY <1>0, <3>2, RemoveAtProperties DEF Loaded, LoadFails
    <3> QED
      BY <1>7, <3>1, <3>2
  <2> QED
    BY <1>0, <2>1, <2>2, CountedFrame
<1> QED
  BY <1>2, <1>3, <1>4, <1>5, <1>6, <1>7 DEF Next
-----------------------------------------------------------------------------
(* The invariant *)

LEMMA PageInvInit == Init => PageInv
<1> SUFFICES ASSUME Init PROVE PageInv
  OBVIOUS
<1>1. HubInv /\ HubTypeOK
  BY HubInvInit DEF Init, HubInv
<1>2. /\ loads = <<NewLoad>> /\ Len(loads) = 1 /\ loads \in Seq(Load)
      /\ \A i \in DOMAIN loads : loads[i] = NewLoad
  BY NewLoadIsLoad DEF Init
<1>3. /\ conn = 0 /\ post = 0 /\ dropped = FALSE /\ unsure = FALSE
      /\ status = [n \in Links |-> "none"] /\ streams = {} /\ cut = {}
      /\ handler = [c \in Connections |-> "unused"]
      /\ buffer = [c \in Connections |-> <<>>] /\ wire = [c \in Connections |-> <<>>]
  BY DEF Init, HubInit
<1>4. TypeOK
  <2>1. 1 =< MaxConnections
    BY Bounds
  <2>2. shown \in [Links -> Status] /\ numbers \in Counts /\ mine = NotMine
    BY DEF Init, Status, Counts
  <2> QED
    BY <1>1, <1>2, <1>3, <2>1, <2>2 DEF TypeOK
<1>5. Wires /\ Truthful
  BY <1>3 DEF Wires, Truthful
<1>6. AnswersCurrent
  BY <1>2, <1>3 DEF AnswersCurrent, NewLoad
<1>7. OpensFirst /\ NumbersAhead
  BY <1>3 DEF OpensFirst, NumbersAhead, AllTold, Live
<1>8. ShownOrAhead
  BY <1>3 DEF ShownOrAhead, Settled
<1>9. LoadsCounted
  <2>1. LoadsWith(0)
    BY <1>2, <1>3 DEF LoadsWith, Connections
  <2> QED
    BY <2>1, Bounds DEF LoadsCounted
<1> QED
  BY <1>1, <1>4, <1>5, <1>6, <1>7, <1>8, <1>9 DEF PageInv

LEMMA PageInvNext == PageInv /\ [Next]_vars => PageInv'
<1> SUFFICES ASSUME PageInv, [Next]_vars PROVE PageInv'
  OBVIOUS
<1> USE DEF PageInv
<1>1. HubStep \/ UNCHANGED hubVars
  BY PageStep
<1>2. HubInv'
  BY <1>1, HubInvNext
<1>3. Announced /\ HubTypeOK
  BY DEF HubInv
<1>4. PageTypes'
  BY <1>3, PageTypesNext
<1>5. LoadsCounted'
  BY <1>4, CountedNext
<1>6. TypeOK'
  <2>1. PICK u \in 0 .. MaxConnections : LoadsWith(u)'
    BY <1>5 DEF LoadsCounted
  <2>2. Len(loads') \in Nat /\ Len(loads') =< MaxConnections
    BY <1>4, <2>1, Bounds DEF LoadsWith, PageTypes
  <2> QED
    BY <1>4, <2>2 DEF TypeOK, PageTypes
<1>7. Truthful'
  <2>1. CASE HubStep
    BY <1>3, <2>1, TruthfulNext
  <2>2. CASE UNCHANGED hubVars
    BY <2>2 DEF Truthful, Agrees, hubVars
  <2> QED
    BY <1>1, <2>1, <2>2
<1>8. Wires' /\ AnswersCurrent' /\ OpensFirst' /\ NumbersAhead' /\ ShownOrAhead'
  BY <1>3, WiresNext, AnswersNext, OpensNext, NumbersNext, ShownNext
<1> QED
  BY <1>2, <1>5, <1>6, <1>7, <1>8
-----------------------------------------------------------------------------
(* Every variable of the page and of the streams keeps its type; among it: *)
(* there are never more loads under way than connections were used, for    *)
(* the page loads once when it is mounted and once for each connection     *)
(* that follows a lost one (useEvents).                                    *)
THEOREM PageTypeCorrect == Spec => []TypeOK
<1>1. PageInv => TypeOK
  BY DEF PageInv
<1> QED
  BY PageInvInit, PageInvNext, <1>1, PTL DEF Spec

(* A page that caught up shows the store: the numbers it counts and every  *)
(* settled link as settled (App.tsx, events.ts).                           *)
THEOREM PageCatchesUp == Spec => []CatchesUp
<1>1. PageInv => CatchesUp
  <2> SUFFICES ASSUME PageInv, CaughtUp
               PROVE  /\ numbers = Counted
                      /\ \A n \in Links : status[n] \in Settled => shown[n] = status[n]
    BY DEF CatchesUp
  <2> USE DEF CaughtUp
  <2>1. DOMAIN <<>> = {}
    OBVIOUS
  <2>2. numbers = Counted
    <3>1. AllTold /\ \A i \in DOMAIN wire[conn] : ~OnWire(i)
      BY <2>1 DEF AllTold, Live
    <3> QED
      BY <3>1 DEF PageInv, NumbersAhead, NumbersSafe
  <2>3. ASSUME NEW n \in Links, status[n] \in Settled PROVE shown[n] = status[n]
    <3>1. ~dropped
      BY DEF PageInv, OpensFirst, Live
    <3>2. ~StillToHear(n)
      BY <2>1 DEF StillToHear, Tells, Silent
    <3> QED
      BY <2>3, <3>1, <3>2 DEF PageInv, ShownOrAhead, Covered
  <2> QED
    BY <2>2, <2>3
<1> QED
  BY PageInvInit, PageInvNext, <1>1, PTL DEF Spec
=============================================================================
