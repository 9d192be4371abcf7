---------------------------- MODULE Intake_proofs ----------------------------
(***************************************************************************)
(* Theorems about the proof-of-work seeds and the limiters of Intake, for  *)
(* any number of requests, addresses, sentences, seeds and restarts, any   *)
(* lifetime, and any limits and windows.                                   *)
(***************************************************************************)
EXTENDS Intake, FiniteSetTheorems, WellFoundedInduction, TLAPS

SealTypes ==
    /\ clock \in Time
    /\ issued \in [Seeds -> Time \cup {Never}]
    /\ promised \in [Seeds -> Time \cup {Never, Gone}]
    /\ uses \in [Seeds -> Nat]

(* A seed that got a request past the gate is not issued any more, and     *)
(* will not be: a seed is issued once.                                     *)
Spent ==
    \A s \in Seeds : uses[s] = 0 \/ (uses[s] = 1 /\ issued[s] = Never /\ promised[s] = Gone)

(* A seed a browser may count on is issued, or was swept when it was too   *)
(* old.                                                                    *)
Kept ==
    \A s \in Seeds :
        promised[s] \in Time =>
            \/ issued[s] = promised[s]
            \/ issued[s] = Never /\ clock - promised[s] > TTL

SealInv == SealTypes /\ Spent /\ Kept

USE DEF Never, Gone

LEMMA SealInit == Init => SealInv
BY IntakeAssumption DEF Init, SealInv, SealTypes, Spent, Kept, Time

(* The steps that have nothing to do with seeds. *)
LEMMA SealFrame ==
    ASSUME SealInv, UNCHANGED <<clock, issued, promised, uses>>
    PROVE  SealInv'
BY DEF SealInv, SealTypes, Spent, Kept

LEMMA SealNext == SealInv /\ [Next]_vars => SealInv'
<1> SUFFICES ASSUME SealInv, [Next]_vars PROVE SealInv'
  OBVIOUS
<1> USE IntakeAssumption DEF SealInv, SealTypes, Time
<1>1. ASSUME NEW s \in Seeds, Issue(s) PROVE SealInv'
  <2>1. PICK kept \in {issued, Swept} : issued' = [kept EXCEPT ![s] = clock]
    BY <1>1 DEF Issue
  <2>2. kept \in [Seeds -> Time \cup {Never}]
    BY <2>1 DEF Swept
  <2>3. \A t \in Seeds : kept[t] = issued[t] \/ (kept[t] = Never /\ Expired(issued[t]))
    BY <2>1 DEF Swept
  <2>4. /\ UNCHANGED <<clock, uses>>
        /\ promised[s] = Never /\ promised' = [promised EXCEPT ![s] = clock]
    BY <1>1 DEF Issue
  <2>5. SealTypes'
    BY <2>1, <2>2, <2>4
  <2>6. Spent'
    BY <2>1, <2>2, <2>3, <2>4 DEF Spent
  <2>7. Kept'
    BY <2>1, <2>2, <2>3, <2>4 DEF Kept, Expired
  <2> QED
    BY <2>5, <2>6, <2>7
<1>2. ASSUME NEW r \in Requests, Redeem(r) PROVE SealInv'
  <2> DEFINE s == request[r].seed
  <2>1. /\ UNCHANGED clock
        /\ issued' = [issued EXCEPT ![s] = Never]
        /\ promised' = [promised EXCEPT ![s] = Gone]
        /\ \/ issued[s] # Never /\ uses' = [uses EXCEPT ![s] = @ + 1]
           \/ UNCHANGED uses
    BY <1>2 DEF Redeem
  <2> HIDE DEF s
  <2>2. SealTypes'
    <3>1. issued' \in [Seeds -> Time \cup {Never}]
      BY <2>1
    <3>2. promised' \in [Seeds -> Time \cup {Never, Gone}]
      BY <2>1
    <3>3. uses' \in [Seeds -> Nat]
      BY <2>1
    <3> QED
      BY <2>1, <3>1, <3>2, <3>3
  <2>3. Spent'
    BY <2>1 DEF Spent
  <2>4. Kept'
    BY <2>1 DEF Kept
  <2> QED
    BY <2>2, <2>3, <2>4
<1>3. ASSUME NEW r \in Requests, Submit(r) \/ (Handle(r) /\ ~Redeem(r)) PROVE SealInv'
  BY <1>3, SealFrame
  DEF Submit, Handle, CheckDuplicate, PeekAddress, PeekChain, CountAddress, CountChain,
      Add, AddFails, history
<1>4. CASE Tick
  BY <1>4 DEF Tick, process, history, Spent, Kept
<1>5. ASSUME NEW act \in Acts, Release(act) PROVE SealInv'
  BY <1>5, SealFrame DEF Release, process, history
<1>6. CASE Restart
  BY <1>6 DEF Restart, Spent, Kept
<1>7. CASE UNCHANGED vars
  BY <1>7, SealFrame DEF vars, process, history
<1> QED
  BY <1>1, <1>2, <1>3, <1>4, <1>5, <1>6, <1>7 DEF Next

LEMMA AlwaysSealed == Spec => []SealInv
BY SealInit, SealNext, PTL DEF Spec

(* However many requests come with one seed, before, after or between the  *)
(* restarts of the server, at most one gets past redeem.                   *)
THEOREM SealBuysOneLink == Spec => []OneLinkPerSeal
<1>1. SealInv => OneLinkPerSeal
  BY DEF SealInv, SealTypes, Spent, OneLinkPerSeal
<1> QED
  BY <1>1, AlwaysSealed, PTL

(* Neither the sweep nor a request with another seed takes a seed away     *)
(* before its time.                                                        *)
THEOREM SealsAreKept == Spec => []SealsLast
<1>1. SealInv => SealsLast
  BY IntakeAssumption DEF SealInv, SealTypes, Kept, SealsLast, Time
<1> QED
  BY <1>1, AlwaysSealed, PTL
-----------------------------------------------------------------------------
(* The handlers *)

RequestTypes ==
    /\ taken \subseteq Acts
    /\ request \in [Requests -> Request]
    /\ restarts \in 0 .. MaxRestarts

\* A request past the first gate names what it is about.
LEMMA Asks ==
    ASSUME RequestTypes, NEW r \in Requests, request[r].pc # "idle"
    PROVE  /\ request[r] \in [pc : Pc, ip : Addresses, act : Acts, seed : Seeds]
           /\ request[r].ip \in Keys /\ request[r].act \in Acts
BY DEF RequestTypes, Request, Idle, Keys

LEMMA RequestNext == RequestTypes /\ [Next]_vars => RequestTypes'
<1> SUFFICES ASSUME RequestTypes, [Next]_vars PROVE RequestTypes'
  OBVIOUS
<1> USE DEF process, history
<1>1. ASSUME NEW r \in Requests, NEW pc \in Pc, request[r].pc # "idle", Go(r, pc)
      PROVE  request' \in [Requests -> Request]
  <2>1. [request[r] EXCEPT !.pc = pc] \in Request
    BY <1>1, Asks DEF Request
  <2>2. request' = [request EXCEPT ![r] = [request[r] EXCEPT !.pc = pc]]
    BY <1>1 DEF Go
  <2> QED
    BY <2>1, <2>2 DEF RequestTypes
<1>2. ASSUME NEW r \in Requests, Answer(r)
      PROVE  request' \in [Requests -> Request]
  BY <1>2 DEF Answer, RequestTypes, Request
<1>3. /\ "sealed" \in Pc /\ "new" \in Pc /\ "looked" \in Pc
      /\ "cleared" \in Pc /\ "counted" \in Pc /\ "adding" \in Pc /\ "valid" \in Pc
  BY DEF Pc
<1>4. ASSUME NEW r \in Requests, Handle(r) PROVE RequestTypes'
  <2>1. /\ request[r].pc # "idle" /\ UNCHANGED restarts
        /\ Answer(r) \/ \E pc \in Pc : Go(r, pc)
    BY <1>3, <1>4
    DEF Handle, Redeem, CheckDuplicate, PeekAddress, PeekChain, CountAddress, CountChain,
        Add, AddFails, At
  <2>2. taken' = taken \/ taken' = taken \cup {request[r].act}
    BY <1>4
    DEF Handle, Redeem, CheckDuplicate, PeekAddress, PeekChain, CountAddress, CountChain,
        Add, AddFails
  <2> QED
    BY <1>1, <1>2, <2>1, <2>2, Asks DEF RequestTypes
<1>5. ASSUME NEW r \in Requests, Submit(r) PROVE RequestTypes'
  BY <1>3, <1>5 DEF Submit, RequestTypes, Request
<1>6. CASE Restart
  BY <1>6, IntakeAssumption DEF Restart, RequestTypes, Request
<1>7. ASSUME NEW act \in Acts, Release(act) PROVE RequestTypes'
  BY <1>7 DEF Release, RequestTypes
<1>8. CASE Tick \/ UNCHANGED vars \/ \E s \in Seeds : Issue(s)
  BY <1>8 DEF Tick, Issue, vars, RequestTypes
<1> QED
  BY <1>4, <1>5, <1>6, <1>7, <1>8 DEF Next
-----------------------------------------------------------------------------
(* The limiters *)

\* The number of the entry that is recorded, with its time.
Now(k) == [at |-> clock, nr |-> Len(entries[k]) + 1]

Allowed(k) == {i \in DOMAIN entries[k] : entries[k][i].allowed}

HitOf(k, i) == [at |-> entries[k][i].at, nr |-> i]

\* What allow answered yes to in the window that ends at t.
AllowedUntil(k, t) ==
    {i \in Allowed(k) : t - Window(k) < entries[k][i].at /\ entries[k][i].at =< t}

HitTypes ==
    /\ hits \in [Keys -> SUBSET Hit]
    /\ \A k \in Keys : IsFiniteSet(hits[k]) /\ Cardinality(hits[k]) =< Limit(k)
    /\ entries \in [Keys -> Seq(Entry)]

(* Nothing is recorded but what was allowed, nothing that is still in the  *)
(* window is forgotten, and no entry lies ahead of the clock: so whoever   *)
(* counts the window that ends now counts all a later window may share     *)
(* with it.                                                                *)
Recorded ==
    \A k \in Keys :
        /\ \A i \in DOMAIN entries[k] : entries[k][i].at =< clock
        /\ \A h \in hits[k] : h.nr \in Allowed(k) /\ h = HitOf(k, h.nr)
        /\ \A i \in Allowed(k) : clock - entries[k][i].at < Window(k) => HitOf(k, i) \in hits[k]

WithinWindows ==
    \A k \in Keys, t \in Time :
        IsFiniteSet(AllowedUntil(k, t)) /\ Cardinality(AllowedUntil(k, t)) =< Limit(k)

LimitInv == clock \in Time /\ HitTypes /\ Recorded /\ WithinWindows

LEMMA Sizes ==
    \A k \in Keys : Window(k) \in Nat \ {0} /\ Limit(k) \in Nat \ {0}
BY IntakeAssumption DEF Window, Limit

LEMMA OneMore ==
    ASSUME NEW S, NEW x, NEW n \in Nat, IsFiniteSet(S), Cardinality(S) < n
    PROVE  IsFiniteSet(S \cup {x}) /\ Cardinality(S \cup {x}) =< n
<1>1. /\ IsFiniteSet(S \cup {x})
      /\ Cardinality(S \cup {x}) = IF x \in S THEN Cardinality(S) ELSE Cardinality(S) + 1
  BY FS_AddElement
<1>2. Cardinality(S) \in Nat
  BY FS_CardinalityType
<1>3. \A c \in Nat : c < n => c =< n /\ c + 1 =< n
  OBVIOUS
<1> QED
  BY <1>1, <1>2, <1>3

\* What check does to the recorded times.
LEMMA CheckHits ==
    ASSUME clock \in Time, HitTypes, NEW key \in Keys, NEW record \in BOOLEAN, Check(key, record)
    PROVE  /\ hits' \in [Keys -> SUBSET Hit]
           /\ \A k \in Keys : IsFiniteSet(hits'[k]) /\ Cardinality(hits'[k]) =< Limit(k)
           /\ \A k \in Keys : \A h \in hits'[k] :
                 h \in hits[k] \/ (k = key /\ record /\ WithinLimit(key) /\ h = Now(key))
           /\ \A k \in Keys : \A h \in hits[k] : clock - h.at < Window(k) => h \in hits'[k]
           /\ record /\ WithinLimit(key) => Now(key) \in hits'[key]
<1> DEFINE recent == Recent(hits[key], Window(key))
           new == {h \in {Now(key)} : record /\ WithinLimit(key)}
<1>1. \A k \in Keys : \/ k = key /\ hits'[k] = recent \cup new
                      \/ k # key /\ Stale(k) /\ hits'[k] = {}
                      \/ k # key /\ hits'[k] = hits[k]
  BY DEF Check, Now
<1>2. DOMAIN hits' = Keys /\ hits' = [k \in Keys |-> hits'[k]]
  BY DEF Check
<1>3. recent \in SUBSET hits[key] /\ IsFiniteSet(hits[key])
  BY DEF Recent, HitTypes
<1>4. /\ IsFiniteSet(recent) /\ Cardinality(recent) \in Nat
      /\ Cardinality(recent) =< Limit(key)
  <2>1. IsFiniteSet(recent) /\ Cardinality(recent) =< Cardinality(hits[key])
    BY <1>3, FS_Subset
  <2>2. Cardinality(recent) \in Nat /\ Cardinality(hits[key]) \in Nat
    BY <1>3, <2>1, FS_CardinalityType
  <2> QED
    BY <2>1, <2>2, Sizes DEF HitTypes
<1>5. IsFiniteSet(recent \cup new) /\ Cardinality(recent \cup new) =< Limit(key)
  <2>1. CASE record /\ WithinLimit(key)
    <3>1. recent \cup new = recent \cup {Now(key)}
      BY <2>1
    <3>2. Cardinality(recent) < Limit(key)
      BY <2>1 DEF WithinLimit
    <3>3. Limit(key) \in Nat
      BY Sizes
    <3> QED
      BY <1>4, <3>1, <3>2, <3>3, OneMore
  <2>2. CASE ~(record /\ WithinLimit(key))
    <3>1. recent \cup new = recent
      BY <2>2
    <3> QED
      BY <1>4, <3>1
  <2> QED
    BY <2>1, <2>2
<1>6. Now(key) \in Hit
  BY DEF Now, Hit, HitTypes
<1>7. hits' \in [Keys -> SUBSET Hit]
  <2>1. ASSUME NEW k \in Keys PROVE hits'[k] \in SUBSET Hit
    BY <1>1, <1>3, <1>6 DEF HitTypes
  <2> QED
    BY <1>2, <2>1
<1>8. \A k \in Keys : IsFiniteSet(hits'[k]) /\ Cardinality(hits'[k]) =< Limit(k)
  <2>1. \A n \in Nat : 0 =< n
    OBVIOUS
  <2>2. \A k \in Keys : IsFiniteSet({}) /\ Cardinality({}) =< Limit(k)
    BY <2>1, FS_EmptySet, Sizes
  <2> QED
    BY <1>1, <1>5, <2>2 DEF HitTypes
<1>9. \A k \in Keys : \A h \in hits'[k] :
        h \in hits[k] \/ (k = key /\ record /\ WithinLimit(key) /\ h = Now(key))
  BY <1>1, <1>3
<1>10. \A k \in Keys : \A h \in hits[k] : clock - h.at < Window(k) => h \in hits'[k]
  <2> SUFFICES ASSUME NEW k \in Keys, NEW h \in hits[k], clock - h.at < Window(k)
               PROVE  h \in hits'[k]
    OBVIOUS
  <2>1. h.at \in Int /\ clock \in Int /\ Window(k) \in Int
    BY Sizes DEF HitTypes, Hit, Time
  <2>2. ~Stale(k)
    BY <2>1 DEF Stale
  <2>3. k = key => h \in recent
    BY DEF Recent
  <2> QED
    BY <1>1, <2>2, <2>3
<1>11. record /\ WithinLimit(key) => Now(key) \in hits'[key]
  BY <1>1
<1> QED
  BY <1>7, <1>8, <1>9, <1>10, <1>11

LEMMA LimitInit == Init => LimitInv
<1> SUFFICES ASSUME Init PROVE LimitInv
  OBVIOUS
<1>1. clock = 0 /\ hits = [k \in Keys |-> {}] /\ entries = [k \in Keys |-> <<>>]
  BY DEF Init
<1>2. LimitInv
  <2>1. \A k \in Keys : IsFiniteSet(hits[k]) /\ Cardinality(hits[k]) =< Limit(k)
    <3>1. \A n \in Nat : 0 =< n
      OBVIOUS
    <3> QED
      BY <1>1, <3>1, FS_EmptySet, Sizes
  <2>2. \A k \in Keys : DOMAIN entries[k] = {}
    BY <1>1
  <2>3. WithinWindows
    <3>1. \A k \in Keys, t \in Time : AllowedUntil(k, t) = {}
      BY <2>2 DEF AllowedUntil, Allowed
    <3>2. \A n \in Nat : 0 =< n
      OBVIOUS
    <3> QED
      BY <3>1, <3>2, FS_EmptySet, Sizes DEF WithinWindows
  <2>4. Recorded
    BY <1>1, <2>2 DEF Recorded, Allowed
  <2>5. hits \in [Keys -> SUBSET Hit] /\ entries \in [Keys -> Seq(Entry)]
    BY <1>1
  <2>6. clock \in Time
    BY <1>1, IntakeAssumption DEF Time
  <2> QED
    BY <2>1, <2>3, <2>4, <2>5, <2>6 DEF LimitInv, HitTypes
<1> QED
  BY <1>2

LEMMA EntryTypes ==
    ASSUME clock \in Time, HitTypes, NEW k \in Keys
    PROVE  /\ clock \in Nat /\ Window(k) \in Nat
           /\ Len(entries[k]) \in Nat /\ DOMAIN entries[k] = 1 .. Len(entries[k])
           /\ \A i \in DOMAIN entries[k] : entries[k][i] \in Entry /\ entries[k][i].at \in Nat
<1>1. entries[k] \in Seq(Entry)
  BY DEF HitTypes
<1>2. \A e \in Entry : e.at \in Nat
  BY DEF Entry, Time
<1> QED
  BY <1>1, <1>2, Sizes DEF Time

\* Time passes: nothing is recorded and nothing is asked.
LEMMA LimitFrame ==
    ASSUME LimitInv, UNCHANGED <<hits, entries>>, clock' \in Time, clock =< clock'
    PROVE  LimitInv'
<1> USE DEF LimitInv
<1>1. HitTypes'
  BY DEF HitTypes
<1>2. Recorded'
  <2> SUFFICES ASSUME NEW k \in Keys
               PROVE  /\ \A i \in DOMAIN entries[k] : entries[k][i].at =< clock'
                      /\ \A h \in hits[k] : h.nr \in Allowed(k) /\ h = HitOf(k, h.nr)
                      /\ \A i \in Allowed(k) :
                            clock' - entries[k][i].at < Window(k) => HitOf(k, i) \in hits[k]
    BY DEF Recorded, Allowed, HitOf
  <2>1. clock' \in Nat
    BY DEF Time
  <2>2. \A i \in DOMAIN entries[k] : entries[k][i].at =< clock'
    BY <2>1, EntryTypes DEF Recorded
  <2>3. ASSUME NEW i \in Allowed(k), clock' - entries[k][i].at < Window(k)
        PROVE  HitOf(k, i) \in hits[k]
    <3>1. clock - entries[k][i].at < Window(k)
      BY <2>1, <2>3, EntryTypes DEF Allowed
    <3> QED
      BY <3>1 DEF Recorded
  <2> QED
    BY <2>2, <2>3 DEF Recorded
<1>3. WithinWindows'
  BY DEF WithinWindows, AllowedUntil, Allowed
<1> QED
  BY <1>1, <1>2, <1>3

\* Looking at a key, or at a limiter, forgets nothing that counts.
LEMMA PeekKeeps ==
    ASSUME LimitInv, NEW key \in Keys, Check(key, FALSE), UNCHANGED <<clock, entries>>
    PROVE  LimitInv'
<1> USE DEF LimitInv
<1>1. /\ hits' \in [Keys -> SUBSET Hit]
      /\ \A k \in Keys : IsFiniteSet(hits'[k]) /\ Cardinality(hits'[k]) =< Limit(k)
      /\ \A k \in Keys : \A h \in hits'[k] : h \in hits[k]
      /\ \A k \in Keys : \A h \in hits[k] : clock - h.at < Window(k) => h \in hits'[k]
  BY CheckHits
<1>2. HitTypes'
  BY <1>1 DEF HitTypes
<1>3. Recorded'
  <2> SUFFICES ASSUME NEW k \in Keys
               PROVE  /\ \A i \in DOMAIN entries[k] : entries[k][i].at =< clock
                      /\ \A h \in hits'[k] : h.nr \in Allowed(k) /\ h = HitOf(k, h.nr)
                      /\ \A i \in Allowed(k) :
                            clock - entries[k][i].at < Window(k) => HitOf(k, i) \in hits'[k]
    BY DEF Recorded, Allowed, HitOf
  <2>1. \A i \in Allowed(k) : HitOf(k, i).at = entries[k][i].at
    BY DEF HitOf
  <2> QED
    BY <1>1, <2>1 DEF Recorded
<1>4. WithinWindows'
  BY DEF WithinWindows, AllowedUntil, Allowed
<1> QED
  BY <1>2, <1>3, <1>4

(* While a key is within its limit now, it is within it in every window   *)
(* that ends later: those share with the present only what is recent.      *)
LEMMA RoomLater ==
    ASSUME LimitInv, NEW k \in Keys, WithinLimit(k), NEW t \in Time, clock =< t
    PROVE  IsFiniteSet(AllowedUntil(k, t)) /\ Cardinality(AllowedUntil(k, t)) < Limit(k)
<1> DEFINE S == AllowedUntil(k, t)
           T == Recent(hits[k], Window(k))
           f == [i \in S |-> HitOf(k, i)]
<1> USE DEF LimitInv
<1>1. IsFiniteSet(T)
  <2>1. T \in SUBSET hits[k] /\ IsFiniteSet(hits[k])
    BY DEF Recent, HitTypes
  <2> QED
    BY <2>1, FS_Subset
<1>2. \A i \in S : HitOf(k, i) \in T
  <2> TAKE i \in S
  <2>1. i \in Allowed(k) /\ i \in DOMAIN entries[k] /\ t - Window(k) < entries[k][i].at
    BY DEF AllowedUntil, Allowed
  <2>2. clock - entries[k][i].at < Window(k)
    BY <2>1, EntryTypes DEF Time
  <2>3. HitOf(k, i) \in hits[k]
    BY <2>1, <2>2 DEF Recorded
  <2>4. HitOf(k, i).at = entries[k][i].at
    BY DEF HitOf
  <2> QED
    BY <2>2, <2>3, <2>4 DEF Recent
<1>3. \A i, j \in S : HitOf(k, i) = HitOf(k, j) => i = j
  BY DEF HitOf
<1>4. f \in Injection(S, T)
  <2>1. f \in [S -> T]
    BY <1>2
  <2>2. \A i, j \in S : f[i] = f[j] => i = j
    BY <1>3
  <2> QED
    BY <2>1, <2>2 DEF Injection, IsInjective
<1> HIDE DEF S, T, f
<1>5. IsFiniteSet(S) /\ Cardinality(S) =< Cardinality(T)
  BY <1>1, <1>4, FS_Injection
<1>6. Cardinality(S) \in Nat /\ Cardinality(T) \in Nat
  BY <1>1, <1>5, FS_CardinalityType
<1>7. Cardinality(T) < Limit(k) /\ Limit(k) \in Nat
  BY Sizes DEF WithinLimit, T
<1>8. Cardinality(S) < Limit(k)
  BY <1>5, <1>6, <1>7
<1> QED
  BY <1>5, <1>8 DEF S

(* allow keeps to the limit in every window: in those that ended before    *)
(* now nothing changes, in the others there was room for one more.         *)
LEMMA CountKeeps ==
    ASSUME LimitInv, NEW key \in Keys, Count(key), UNCHANGED clock
    PROVE  LimitInv'
<1> USE DEF LimitInv
<1>0. PICK n \in Nat \ {0} : n = Len(entries[key]) + 1
  <2>1. Len(entries[key]) + 1 \in Nat \ {0}
    BY EntryTypes
  <2> QED
    BY <2>1
<1>  DEFINE entry == [at |-> clock, allowed |-> WithinLimit(key)]
<1>1. /\ hits' \in [Keys -> SUBSET Hit]
      /\ \A k \in Keys : IsFiniteSet(hits'[k]) /\ Cardinality(hits'[k]) =< Limit(k)
      /\ \A k \in Keys : \A h \in hits'[k] :
            h \in hits[k] \/ (k = key /\ WithinLimit(key) /\ h = Now(key))
      /\ \A k \in Keys : \A h \in hits[k] : clock - h.at < Window(k) => h \in hits'[k]
      /\ WithinLimit(key) => Now(key) \in hits'[key]
  <2>1. Check(key, TRUE)
    BY DEF Count
  <2> QED
    BY <2>1, CheckHits
<1>2. /\ entries' = [entries EXCEPT ![key] = Append(@, entry)]
      /\ entry \in Entry /\ entry.at = clock /\ entry.allowed = WithinLimit(key)
  BY DEF Count, Entry, WithinLimit
<1> HIDE DEF entry
<1>3. entries' \in [Keys -> Seq(Entry)]
  BY <1>2 DEF HitTypes
<1>4. HitTypes'
  BY <1>1, <1>3 DEF HitTypes
<1>5. /\ DOMAIN entries'[key] = 1 .. n /\ n \in Nat \ {0}
      /\ DOMAIN entries[key] = 1 .. (n - 1) /\ n \notin DOMAIN entries[key]
      /\ \A i \in DOMAIN entries[key] : entries'[key][i] = entries[key][i]
      /\ entries'[key][n] = entry
      /\ DOMAIN entries'[key] = DOMAIN entries[key] \cup {n}
  <2>1. entries[key] \in Seq(Entry) /\ entries'[key] = Append(entries[key], entry)
    BY <1>2 DEF HitTypes
  <2> QED
    BY <1>0, <1>2, <2>1
<1>6. \A k \in Keys : k # key => entries'[k] = entries[k]
  BY <1>2 DEF HitTypes
<1>7. \A k \in Keys : \A i \in DOMAIN entries[k] :
         i \in DOMAIN entries'[k] /\ entries'[k][i] = entries[k][i]
  BY <1>5, <1>6
<1>8. \A k \in Keys : \A i \in DOMAIN entries'[k] :
         i \in DOMAIN entries[k] \/ (k = key /\ i = n)
  BY <1>5, <1>6
<1>9. /\ \A k \in Keys : \A i \in Allowed(k) : i \in Allowed(k)' /\ HitOf(k, i)' = HitOf(k, i)
      /\ \A k \in Keys : \A i \in Allowed(k)' :
            i \in Allowed(k) \/ (k = key /\ i = n /\ WithinLimit(key))
      /\ WithinLimit(key) => n \in Allowed(key)'
      /\ HitOf(key, n)' = Now(key) /\ Now(key).at = clock /\ Now(key).nr = n
  <2>1. \A k \in Keys : \A i \in Allowed(k) : i \in Allowed(k)' /\ HitOf(k, i)' = HitOf(k, i)
    BY <1>7 DEF Allowed, HitOf
  <2>2. \A k \in Keys : \A i \in Allowed(k)' :
            i \in Allowed(k) \/ (k = key /\ i = n /\ WithinLimit(key))
    BY <1>2, <1>5, <1>7, <1>8 DEF Allowed
  <2>3. WithinLimit(key) => n \in Allowed(key)'
    BY <1>2, <1>5 DEF Allowed
  <2>4. HitOf(key, n)' = Now(key) /\ Now(key).at = clock /\ Now(key).nr = n
    BY <1>0, <1>2, <1>5 DEF HitOf, Now
  <2> QED
    BY <2>1, <2>2, <2>3, <2>4
<1>10. Recorded'
  <2> SUFFICES ASSUME NEW k \in Keys
               PROVE  /\ \A i \in DOMAIN entries'[k] : entries'[k][i].at =< clock
                      /\ \A h \in hits'[k] : h.nr \in Allowed(k)' /\ h = HitOf(k, h.nr)'
                      /\ \A i \in Allowed(k)' :
                            clock - entries'[k][i].at < Window(k) => HitOf(k, i)' \in hits'[k]
    BY DEF Recorded, Allowed, HitOf
  <2>1. \A i \in DOMAIN entries'[k] : entries'[k][i].at =< clock
    <3>1. clock =< clock
      BY EntryTypes
    <3> QED
      BY <1>2, <1>5, <1>7, <1>8, <3>1 DEF Recorded
  <2>2. ASSUME NEW h \in hits'[k]
        PROVE  h.nr \in Allowed(k)' /\ h = HitOf(k, h.nr)'
    <3>1. CASE h \in hits[k]
      BY <1>9, <3>1 DEF Recorded
    <3>2. CASE k = key /\ WithinLimit(key) /\ h = Now(key)
      BY <1>9, <3>2
    <3> QED
      BY <1>1, <3>1, <3>2
  <2>3. ASSUME NEW i \in Allowed(k)', clock - entries'[k][i].at < Window(k)
        PROVE  HitOf(k, i)' \in hits'[k]
    <3>1. CASE i \in Allowed(k)
      <4>1. i \in DOMAIN entries[k] /\ entries'[k][i] = entries[k][i]
        BY <1>7, <3>1 DEF Allowed
      <4>2. HitOf(k, i) \in hits[k] /\ HitOf(k, i).at = entries[k][i].at
        BY <2>3, <3>1, <4>1 DEF Recorded, HitOf
      <4> QED
        BY <1>1, <1>9, <2>3, <3>1, <4>1, <4>2
    <3>2. CASE k = key /\ i = n /\ WithinLimit(key)
      BY <1>1, <1>9, <3>2
    <3> QED
      BY <1>9, <3>1, <3>2
  <2> QED
    BY <2>1, <2>2, <2>3
<1>11. WithinWindows'
  <2> SUFFICES ASSUME NEW k \in Keys, NEW t \in Time
               PROVE  /\ IsFiniteSet(AllowedUntil(k, t)')
                      /\ Cardinality(AllowedUntil(k, t)') =< Limit(k)
    BY DEF WithinWindows, AllowedUntil, Allowed
  <2> DEFINE old == AllowedUntil(k, t)
             new == AllowedUntil(k, t)'
  <2>1. IsFiniteSet(old) /\ Cardinality(old) =< Limit(k)
    BY DEF WithinWindows
  <2>2. \A i \in new : i \in old \/ (k = key /\ i = n /\ WithinLimit(key) /\ clock =< t)
    <3> TAKE i \in new
    <3>1. i \in Allowed(k)' /\ t - Window(k) < entries'[k][i].at /\ entries'[k][i].at =< t
      BY DEF AllowedUntil
    <3>2. CASE i \in Allowed(k)
      BY <1>7, <3>1, <3>2 DEF AllowedUntil, Allowed
    <3>3. CASE k = key /\ i = n /\ WithinLimit(key)
      BY <1>2, <1>5, <3>1, <3>3
    <3> QED
      BY <1>9, <3>1, <3>2, <3>3
  <2> HIDE DEF old, new
  <2>3. CASE k = key /\ WithinLimit(key) /\ clock =< t
    <3>1. IsFiniteSet(old) /\ Cardinality(old) < Limit(k)
      BY <2>3, RoomLater DEF old
    <3>2. Limit(k) \in Nat
      BY Sizes
    <3>3. IsFiniteSet(old \cup {n}) /\ Cardinality(old \cup {n}) =< Limit(k)
      BY <3>1, <3>2, OneMore
    <3>4. new \in SUBSET (old \cup {n})
      BY <2>2
    <3>5. IsFiniteSet(new) /\ Cardinality(new) =< Cardinality(old \cup {n})
      BY <3>3, <3>4, FS_Subset
    <3>6. Cardinality(new) \in Nat /\ Cardinality(old \cup {n}) \in Nat
      BY <3>3, <3>5, FS_CardinalityType
    <3>7. Cardinality(new) =< Limit(k)
      BY <3>2, <3>3, <3>5, <3>6
    <3> QED
      BY <3>5, <3>7 DEF new
  <2>4. CASE ~(k = key /\ WithinLimit(key) /\ clock =< t)
    <3>1. new \in SUBSET old
      BY <2>2, <2>4
    <3>2. IsFiniteSet(new) /\ Cardinality(new) =< Cardinality(old)
      BY <2>1, <3>1, FS_Subset
    <3>3. /\ Cardinality(new) \in Nat /\ Cardinality(old) \in Nat /\ Limit(k) \in Nat
      BY <2>1, <3>2, FS_CardinalityType, Sizes
    <3>4. Cardinality(new) =< Limit(k)
      BY <2>1, <3>2, <3>3
    <3> QED
      BY <3>2, <3>4 DEF new
  <2> QED
    BY <2>3, <2>4
<1> QED
  BY <1>4, <1>10, <1>11

LEMMA LimitNext == LimitInv /\ RequestTypes /\ [Next]_vars => LimitInv'
<1> SUFFICES ASSUME LimitInv, RequestTypes, [Next]_vars PROVE LimitInv'
  OBVIOUS
<1>1. clock \in Time /\ clock =< clock /\ Chain \in Keys
  BY DEF LimitInv, Time, Keys
<1>2. ASSUME NEW r \in Requests, Handle(r) PROVE LimitInv'
  <2>1. ASSUME Redeem(r) \/ CheckDuplicate(r) \/ Add(r) \/ AddFails(r) PROVE LimitInv'
    BY <1>1, <2>1, LimitFrame DEF Redeem, CheckDuplicate, Add, AddFails, history
  <2>2. CASE PeekAddress(r)
    <3>1. request[r].ip \in Keys
      BY <2>2, Asks DEF PeekAddress, At
    <3> QED
      BY <2>2, <3>1, PeekKeeps DEF PeekAddress, history
  <2>3. CASE PeekChain(r)
    BY <1>1, <2>3, PeekKeeps DEF PeekChain, history
  <2>4. CASE CountAddress(r)
    <3>1. request[r].ip \in Keys
      BY <2>4, Asks DEF CountAddress, At
    <3> QED
      BY <2>4, <3>1, CountKeeps DEF CountAddress
  <2>5. CASE CountChain(r)
    BY <1>1, <2>5, CountKeeps DEF CountChain
  <2> QED
    BY <1>2, <2>1, <2>2, <2>3, <2>4, <2>5 DEF Handle
<1>3. CASE \/ \E s \in Seeds : Issue(s)
           \/ \E r \in Requests : Submit(r)
           \/ \E act \in Acts : Release(act)
           \/ UNCHANGED vars
  BY <1>1, <1>3, LimitFrame DEF Issue, Submit, Release, vars, process, history
<1>4. CASE Tick
  <2>1. clock' \in Time /\ clock =< clock'
    BY <1>1, <1>4, IntakeAssumption DEF Tick, Time
  <2> QED
    BY <1>4, <2>1, LimitFrame DEF Tick, process, history
<1>5. CASE Restart
  <2>1. UNCHANGED clock /\ hits' = [k \in Keys |-> {}] /\ entries' = [k \in Keys |-> <<>>]
    BY <1>5 DEF Restart
  <2>2. \A k \in Keys : DOMAIN entries'[k] = {}
    BY <2>1
  <2>3. \A k \in Keys : IsFiniteSet({}) /\ Cardinality({}) =< Limit(k)
    <3>1. \A n \in Nat : 0 =< n
      OBVIOUS
    <3> QED
      BY <3>1, FS_EmptySet, Sizes
  <2>4. WithinWindows'
    <3>1. \A k \in Keys, t \in Time : AllowedUntil(k, t)' = {}
      BY <2>2 DEF AllowedUntil, Allowed
    <3> QED
      BY <2>3, <3>1 DEF WithinWindows
  <2>5. Recorded'
    BY <2>1, <2>2 DEF Recorded, Allowed
  <2>6. HitTypes'
    BY <2>1, <2>3 DEF HitTypes
  <2> QED
    BY <1>1, <2>1, <2>4, <2>5, <2>6 DEF LimitInv
<1> QED
  BY <1>2, <1>3, <1>4, <1>5 DEF Next

LEMMA AlwaysWithinLimits == Spec => [](RequestTypes /\ LimitInv)
<1>1. Init => RequestTypes
  BY IntakeAssumption DEF Init, RequestTypes, Request
<1> QED
  BY <1>1, LimitInit, RequestNext, LimitNext, PTL DEF Spec

(* Every variable has its type; in it, a limiter never holds more recorded *)
(* actions for a key than the key is allowed.                              *)
THEOREM TypeCorrect == Spec => []TypeOK
<1>1. SealInv /\ RequestTypes /\ LimitInv => TypeOK
  BY DEF SealInv, SealTypes, RequestTypes, LimitInv, HitTypes, TypeOK
<1> QED
  BY <1>1, AlwaysSealed, AlwaysWithinLimits, PTL

(* What a limiter holds inside its window is what allow let through there, *)
(* no more and no less: an answer of 429 costs nothing, and no trimming    *)
(* and no sweep forgets what still counts.                                 *)
THEOREM ChargesAreExact == Spec => []ChargedExactly
<1>1. LimitInv => ChargedExactly
  <2> SUFFICES ASSUME LimitInv, NEW k \in Keys
               PROVE  Recent(hits[k], Window(k)) =
                        {HitOf(k, i) : i \in {j \in Allowed(k) :
                                                clock - entries[k][j].at < Window(k)}}
    <3>1. ASSUME NEW k \in Keys
          PROVE  {i \in DOMAIN entries[k] : /\ entries[k][i].allowed
                                            /\ clock - entries[k][i].at < Window(k)} =
                    {j \in Allowed(k) : clock - entries[k][j].at < Window(k)}
      BY DEF Allowed
    <3> QED
      BY <3>1 DEF ChargedExactly, HitOf
  <2> USE DEF LimitInv
  <2>1. \A i \in Allowed(k) : HitOf(k, i).at = entries[k][i].at
    BY DEF HitOf
  <2>2. \A h \in Recent(hits[k], Window(k)) :
           h \in hits[k] /\ h.nr \in Allowed(k) /\ h = HitOf(k, h.nr)
             /\ clock - h.at < Window(k)
    BY DEF Recent, Recorded
  <2>3. ASSUME NEW i \in Allowed(k), clock - entries[k][i].at < Window(k)
        PROVE  HitOf(k, i) \in Recent(hits[k], Window(k))
    BY <2>1, <2>3 DEF Recent, Recorded
  <2> QED
    BY <2>1, <2>2, <2>3
<1> QED
  BY <1>1, AlwaysWithinLimits, PTL

-----------------------------------------------------------------------------
(* The overshoot *)

AtOnce == Cardinality(Requests)

\* The requests that have peeked at k and are not yet counted there.
Waits(r, k) ==
    \/ k # Chain /\ request[r].pc \in {"looked", "cleared"} /\ request[r].ip = k
    \/ k = Chain /\ request[r].pc \in {"cleared", "counted"}

Crowd(k) == {r \in Requests : Waits(r, k)}

\* An action that allow refused comes soon after one that it allowed.
Follows(k) ==
    \A i \in DOMAIN entries[k] : \E j \in Allowed(k) : j =< i /\ i - j < AtOnce

(* Once the limit is reached nobody gets past the peek.  So the last       *)
(* action that was allowed, which used it up, leaves behind it only those  *)
(* who had peeked before: not all requests, for its own was counted.       *)
Closed(k) ==
    \/ WithinLimit(k)
    \/ \E j \in Allowed(k) : Len(entries[k]) - j + Cardinality(Crowd(k)) < AtOnce

InOrder(k) ==
    \A i, j \in DOMAIN entries[k] : i =< j => entries[k][i].at =< entries[k][j].at

OverInv == \A k \in Keys : Follows(k) /\ Closed(k) /\ InOrder(k)

LEMMA CrowdSize ==
    ASSUME NEW k
    PROVE  /\ AtOnce \in Nat \ {0} /\ IsFiniteSet(Requests)
           /\ IsFiniteSet(Crowd(k)) /\ Cardinality(Crowd(k)) \in Nat
<1>1. IsFiniteSet(Requests) /\ Requests # {}
  BY IntakeAssumption
<1>2. Crowd(k) \in SUBSET Requests
  BY DEF Crowd
<1>3. AtOnce \in Nat /\ AtOnce # 0
  BY <1>1, FS_CardinalityType, FS_EmptySet DEF AtOnce
<1> QED
  BY <1>1, <1>2, <1>3, FS_Subset, FS_CardinalityType

\* A key on whose window less lies has room as before.
LEMMA RoomStays ==
    ASSUME LimitInv, NEW k \in Keys, WithinLimit(k),
           Recent(hits[k], Window(k))' \subseteq Recent(hits[k], Window(k))
    PROVE  WithinLimit(k)'
<1> DEFINE R == Recent(hits[k], Window(k))
           RR == Recent(hits[k], Window(k))'
<1>1. R \in SUBSET hits[k] /\ IsFiniteSet(hits[k])
  BY DEF Recent, LimitInv, HitTypes
<1>2. RR \in SUBSET R /\ Cardinality(R) < Limit(k) /\ Limit(k) \in Nat
  BY Sizes DEF WithinLimit
<1> HIDE DEF R, RR
<1>3. IsFiniteSet(R)
  BY <1>1, FS_Subset
<1>4. /\ Cardinality(RR) =< Cardinality(R)
      /\ Cardinality(RR) \in Nat /\ Cardinality(R) \in Nat
  BY <1>2, <1>3, FS_Subset, FS_CardinalityType
<1>5. Cardinality(RR) < Limit(k)
  BY <1>2, <1>4
<1> QED
  BY <1>5 DEF WithinLimit, RR, Limit

\* Steps that count nothing: whoever joins the crowd at a key has seen room.
LEMMA OverFrame ==
    ASSUME LimitInv, OverInv, UNCHANGED entries,
           \A k \in Keys : WithinLimit(k) => WithinLimit(k)',
           \A k \in Keys : WithinLimit(k)' \/ Crowd(k)' \subseteq Crowd(k)
    PROVE  OverInv'
<1> SUFFICES ASSUME NEW k \in Keys PROVE (Follows(k) /\ Closed(k) /\ InOrder(k))'
  BY DEF OverInv
<1>1. Allowed(k)' = Allowed(k)
  BY DEF Allowed
<1>2. Follows(k)' /\ InOrder(k)'
  BY <1>1 DEF OverInv, Follows, InOrder
<1>3. ASSUME ~WithinLimit(k)' PROVE Closed(k)'
  <2>1. PICK j \in Allowed(k) : Len(entries[k]) - j + Cardinality(Crowd(k)) < AtOnce
    BY <1>3 DEF OverInv, Closed
  <2>2. Crowd(k)' \in SUBSET Crowd(k)
    BY <1>3
  <2>3. /\ Cardinality(Crowd(k)') \in Nat /\ Cardinality(Crowd(k)) \in Nat
        /\ Cardinality(Crowd(k)') =< Cardinality(Crowd(k))
        /\ AtOnce \in Nat
    BY <2>2, CrowdSize, FS_Subset, FS_CardinalityType
  <2>4. Len(entries[k]) \in Nat /\ j \in Int
    BY EntryTypes DEF LimitInv, Allowed
  <2>5. Len(entries[k]) - j + Cardinality(Crowd(k)') < AtOnce
    BY <2>1, <2>3, <2>4
  <2> QED
    BY <1>1, <2>5 DEF Closed, AtOnce
<1> QED
  BY <1>2, <1>3 DEF Closed

\* One request of the crowd is counted.
LEMMA OverCount ==
    ASSUME LimitInv, OverInv, NEW key \in Keys, NEW r \in Crowd(key),
           Count(key), UNCHANGED clock,
           Crowd(key)' \subseteq Crowd(key) \ {r},
           \A k \in Keys : k # key => Crowd(k)' \subseteq Crowd(k)
    PROVE  OverInv'
<1> DEFINE n == Len(entries[key]) + 1
           entry == [at |-> clock, allowed |-> WithinLimit(key)]
<1>1. entries' = [entries EXCEPT ![key] = Append(@, entry)]
  BY DEF Count
<1>2. /\ entries[key] \in Seq(Entry) /\ entries \in [Keys -> Seq(Entry)]
      /\ entries'[key] = Append(entries[key], entry)
      /\ \A k \in Keys : k # key => entries'[k] = entries[k]
  BY <1>1 DEF LimitInv, HitTypes
<1>3. /\ DOMAIN entries'[key] = 1 .. n /\ Len(entries'[key]) = n /\ n \in Nat \ {0}
      /\ DOMAIN entries[key] = 1 .. (n - 1)
      /\ \A i \in DOMAIN entries[key] : entries'[key][i] = entries[key][i]
      /\ entries'[key][n] = entry
  <2> HIDE DEF entry
  <2> QED
    BY <1>2
<1>4. entry.at = clock /\ entry.allowed = WithinLimit(key)
  OBVIOUS
<1>5. /\ Allowed(key) \subseteq Allowed(key)'
      /\ WithinLimit(key) => n \in Allowed(key)'
      /\ Allowed(key) \subseteq 1 .. (n - 1)
  <2> HIDE DEF n, entry
  <2> QED
    BY <1>3, <1>4 DEF Allowed
<1>6. Cardinality(Crowd(key)') < Cardinality(Crowd(key)) /\ Cardinality(Crowd(key)) =< AtOnce
  <2>1. /\ IsFiniteSet(Crowd(key) \ {r})
        /\ Cardinality(Crowd(key) \ {r}) = Cardinality(Crowd(key)) - 1
    BY CrowdSize, FS_RemoveElement
  <2>2. Crowd(key)' \in SUBSET (Crowd(key) \ {r}) /\ Crowd(key) \in SUBSET Requests
    BY DEF Crowd
  <2>3. /\ Cardinality(Crowd(key)') =< Cardinality(Crowd(key) \ {r})
        /\ Cardinality(Crowd(key)') \in Nat
    BY <2>1, <2>2, FS_Subset, FS_CardinalityType
  <2>4. Cardinality(Crowd(key)) =< AtOnce
    BY <2>2, CrowdSize, FS_Subset DEF AtOnce
  <2> QED
    BY <2>1, <2>3, <2>4, CrowdSize
<1>7. Cardinality(Crowd(key)') \in Nat /\ Cardinality(Crowd(key)) \in Nat /\ AtOnce \in Nat \ {0}
  <2>1. Crowd(key)' \in SUBSET Requests
    BY DEF Crowd
  <2> QED
    BY <2>1, CrowdSize, FS_Subset, FS_CardinalityType
<1> HIDE DEF n, entry
<1>8. \E j \in Allowed(key)' : j =< n /\ n - j + Cardinality(Crowd(key)') < AtOnce
  <2>1. CASE WithinLimit(key)
    <3>1. n - n + Cardinality(Crowd(key)') < AtOnce /\ n =< n
      BY <1>3, <1>6, <1>7
    <3> QED
      BY <1>5, <2>1, <3>1
  <2>2. CASE ~WithinLimit(key)
    <3>1. PICK j \in Allowed(key) : Len(entries[key]) - j + Cardinality(Crowd(key)) < AtOnce
      BY <2>2 DEF OverInv, Closed
    <3>2. j \in 1 .. (n - 1) /\ Len(entries[key]) = n - 1 /\ j \in Allowed(key)'
      BY <1>2, <1>3, <1>5
    <3>3. j =< n /\ n - j + Cardinality(Crowd(key)') < AtOnce
      BY <1>3, <1>6, <1>7, <3>1, <3>2
    <3> QED
      BY <3>2, <3>3
  <2> QED
    BY <2>1, <2>2
<1>9. PICK last \in Allowed(key)' :
        /\ last =< n /\ n - last + Cardinality(Crowd(key)') < AtOnce
        /\ last \in Int
  <2>1. \A j \in Allowed(key)' : j \in Int
    BY <1>3 DEF Allowed
  <2> QED
    BY <1>8, <2>1
<1>10. Follows(key)'
  <2> SUFFICES ASSUME NEW i \in DOMAIN entries'[key]
               PROVE  \E j \in Allowed(key)' : j =< i /\ i - j < AtOnce
    BY DEF Follows, AtOnce
  <2>1. CASE i = n
    <3>1. n - last < AtOnce
      BY <1>3, <1>7, <1>9
    <3> QED
      BY <1>9, <2>1, <3>1
  <2>2. CASE i # n
    <3>1. i \in DOMAIN entries[key]
      BY <1>3, <2>2
    <3> QED
      BY <1>5, <3>1 DEF OverInv, Follows
  <2> QED
    BY <2>1, <2>2
<1>11. Closed(key)'
  BY <1>3, <1>9 DEF Closed, AtOnce
<1>12. InOrder(key)'
  <2>1. \A i \in DOMAIN entries[key] : entries[key][i].at =< clock
    BY DEF LimitInv, Recorded
  <2>2. clock =< clock
    BY DEF LimitInv, Time
  <2>3. ASSUME NEW i \in 1 .. n, NEW j \in 1 .. n, i =< j
        PROVE  entries'[key][i].at =< entries'[key][j].at
    <3>1. CASE j = n
      <4>1. CASE i = n
        BY <1>3, <1>4, <2>2, <3>1, <4>1
      <4>2. CASE i # n
        <5>1. i \in DOMAIN entries[key]
          BY <1>3, <4>2
        <5> QED
          BY <1>3, <1>4, <2>1, <3>1, <5>1
      <4> QED
        BY <4>1, <4>2
    <3>2. CASE j # n
      <4>1. i \in DOMAIN entries[key] /\ j \in DOMAIN entries[key]
        BY <1>3, <2>3, <3>2
      <4> QED
        BY <1>3, <2>3, <4>1 DEF OverInv, InOrder
    <3> QED
      BY <3>1, <3>2
  <2> QED
    BY <1>3, <2>3 DEF InOrder
<1>13. ASSUME NEW k \in Keys, k # key PROVE (Follows(k) /\ Closed(k) /\ InOrder(k))'
  <2>1. entries'[k] = entries[k] /\ Allowed(k)' = Allowed(k)
    BY <1>2, <1>13 DEF Allowed
  <2>2. Follows(k)' /\ InOrder(k)'
    BY <2>1 DEF OverInv, Follows, InOrder
  <2>3. CASE WithinLimit(k)
    <3>1. \A h \in hits'[k] : h \in hits[k]
      BY <1>13, CheckHits DEF Count, LimitInv
    <3>2. Recent(hits[k], Window(k))' \subseteq Recent(hits[k], Window(k))
      BY <3>1 DEF Recent, Window
    <3> QED
      BY <2>2, <2>3, <3>2, RoomStays DEF Closed
  <2>4. CASE ~WithinLimit(k)
    <3>1. PICK j \in Allowed(k) : Len(entries[k]) - j + Cardinality(Crowd(k)) < AtOnce
      BY <2>4 DEF OverInv, Closed
    <3>2. Crowd(k)' \in SUBSET Crowd(k)
      BY <1>13
    <3>3. /\ Cardinality(Crowd(k)') \in Nat /\ Cardinality(Crowd(k)) \in Nat
          /\ Cardinality(Crowd(k)') =< Cardinality(Crowd(k)) /\ AtOnce \in Nat
      BY <3>2, CrowdSize, FS_Subset, FS_CardinalityType
    <3>4. Len(entries[k]) \in Nat /\ j \in Int
      BY EntryTypes DEF LimitInv, Allowed
    <3>5. Len(entries[k]) - j + Cardinality(Crowd(k)') < AtOnce
      BY <3>1, <3>3, <3>4
    <3> QED
      BY <2>1, <2>2, <3>5 DEF Closed, AtOnce
  <2> QED
    BY <2>3, <2>4
<1> QED
  BY <1>10, <1>11, <1>12, <1>13 DEF OverInv

\* What becomes of the crowds when one request moves on.
LEMMA CrowdMoves ==
    ASSUME RequestTypes, NEW r \in Requests, request[r].pc # "idle",
           Answer(r) \/ \E pc \in Pc : Go(r, pc)
    PROVE  /\ \A q \in Requests, k \in Keys : q # r => (Waits(q, k)' <=> Waits(q, k))
           /\ Answer(r) => \A k \in Keys : ~Waits(r, k)'
           /\ \A pc \in Pc : Go(r, pc) => request'[r].pc = pc /\ request'[r].ip = request[r].ip
<1>1. /\ request \in [Requests -> Request]
      /\ request[r] \in [pc : Pc, ip : Addresses, act : Acts, seed : Seeds]
  BY Asks DEF RequestTypes
<1>2. \A q \in Requests : q # r => request'[q] = request[q]
  BY <1>1 DEF Answer, Go
<1>3. Answer(r) => request'[r].pc = "idle"
  BY <1>1 DEF Answer, Idle
<1>4. \A pc \in Pc : Go(r, pc) => request'[r].pc = pc /\ request'[r].ip = request[r].ip
  BY <1>1 DEF Go
<1> QED
  BY <1>2, <1>3, <1>4 DEF Waits

LEMMA OverNext == LimitInv /\ RequestTypes /\ OverInv /\ [Next]_vars => OverInv'
<1> SUFFICES ASSUME LimitInv, RequestTypes, OverInv, [Next]_vars PROVE OverInv'
  OBVIOUS
<1>0. /\ Chain \in Keys /\ \A ip \in Addresses : ip \in Keys /\ ip # Chain
      /\ \A pc \in {"sealed", "new", "looked", "cleared", "counted", "adding"} : pc \in Pc
  BY IntakeAssumption DEF Keys, Chain, Pc
<1>a. ASSUME UNCHANGED <<hits, clock>>, NEW k \in Keys, WithinLimit(k) PROVE WithinLimit(k)'
  BY <1>a DEF WithinLimit, Recent, Limit, Window
<1>b. ASSUME NEW key \in Keys, Check(key, FALSE), UNCHANGED clock,
             NEW k \in Keys, WithinLimit(k)
      PROVE  WithinLimit(k)'
  <2>1. \A h \in hits'[k] : h \in hits[k]
    BY <1>b, CheckHits DEF LimitInv
  <2>2. Recent(hits[k], Window(k))' \subseteq Recent(hits[k], Window(k))
    BY <1>b, <2>1 DEF Recent, Window
  <2> QED
    BY <1>b, <2>2, RoomStays
<1>1. ASSUME NEW r \in Requests, Submit(r) PROVE OverInv'
  <2>1. \A k \in Keys : Crowd(k)' \subseteq Crowd(k)
    <3>1. /\ request \in [Requests -> Request] /\ request'[r].pc = "valid"
          /\ \A q \in Requests : q # r => request'[q] = request[q]
      BY <1>1 DEF Submit, RequestTypes
    <3> QED
      BY <3>1 DEF Crowd, Waits
  <2> QED
    BY <1>1, <1>a, <2>1, OverFrame DEF Submit, history
<1>2. ASSUME NEW r \in Requests, Redeem(r) \/ CheckDuplicate(r) \/ Add(r) \/ AddFails(r)
      PROVE  OverInv'
  <2>1. /\ request[r].pc # "idle" /\ UNCHANGED <<hits, clock, entries>>
        /\ Answer(r) \/ \E pc \in {"sealed", "new"} : Go(r, pc)
    BY <1>2 DEF Redeem, CheckDuplicate, Add, AddFails, At, history
  <2>2. /\ \A q \in Requests, k \in Keys : q # r => (Waits(q, k)' <=> Waits(q, k))
        /\ \A k \in Keys : ~Waits(r, k)'
    BY <1>0, <2>1, CrowdMoves DEF Waits
  <2>3. \A k \in Keys : Crowd(k)' \subseteq Crowd(k)
    BY <2>2 DEF Crowd
  <2> QED
    BY <1>a, <2>1, <2>3, OverFrame
<1>3. ASSUME NEW r \in Requests, PeekAddress(r) PROVE OverInv'
  <2> DEFINE ip == request[r].ip
  <2>1. /\ request[r].pc = "new" /\ UNCHANGED <<clock, entries>> /\ Check(ip, FALSE)
        /\ Answer(r) \/ (WithinLimit(ip) /\ Go(r, "looked"))
    BY <1>3 DEF PeekAddress, At, history
  <2>2. ip \in Keys
    BY <2>1, Asks
  <2>3. /\ \A q \in Requests, k \in Keys : q # r => (Waits(q, k)' <=> Waits(q, k))
        /\ \A k \in Keys : Waits(r, k)' => k = ip /\ WithinLimit(ip)
    BY <1>0, <2>1, CrowdMoves DEF Waits
  <2> HIDE DEF ip
  <2>4. \A k \in Keys : WithinLimit(k) => WithinLimit(k)'
    BY <1>b, <2>1, <2>2
  <2>5. \A k \in Keys : WithinLimit(k)' \/ Crowd(k)' \subseteq Crowd(k)
    BY <2>3, <2>4 DEF Crowd
  <2> QED
    BY <2>1, <2>4, <2>5, OverFrame
<1>4. ASSUME NEW r \in Requests, PeekChain(r) PROVE OverInv'
  <2>1. /\ request[r].pc = "looked" /\ UNCHANGED <<clock, entries>> /\ Check(Chain, FALSE)
        /\ Answer(r) \/ (WithinLimit(Chain) /\ Go(r, "cleared"))
    BY <1>4 DEF PeekChain, At, history
  <2>2. /\ \A q \in Requests, k \in Keys : q # r => (Waits(q, k)' <=> Waits(q, k))
        /\ \A k \in Keys : Waits(r, k)' => Waits(r, k) \/ (k = Chain /\ WithinLimit(Chain))
    BY <1>0, <2>1, CrowdMoves DEF Waits
  <2>3. \A k \in Keys : WithinLimit(k) => WithinLimit(k)'
    BY <1>0, <1>b, <2>1
  <2>4. \A k \in Keys : WithinLimit(k)' \/ Crowd(k)' \subseteq Crowd(k)
    BY <2>2, <2>3 DEF Crowd
  <2> QED
    BY <2>1, <2>3, <2>4, OverFrame
<1>5. ASSUME NEW r \in Requests, CountAddress(r) PROVE OverInv'
  <2>0. /\ request[r].pc = "cleared" /\ UNCHANGED clock /\ Go(r, "counted")
        /\ Count(request[r].ip)
    BY <1>5 DEF CountAddress, At
  <2>1. PICK ip \in Addresses : ip = request[r].ip
    BY <2>0, Asks
  <2>2. ip \in Keys /\ ip # Chain /\ Count(ip)
    BY <1>0, <2>0, <2>1
  <2>3. /\ \A q \in Requests, k \in Keys : q # r => (Waits(q, k)' <=> Waits(q, k))
        /\ Waits(r, ip) /\ \A k \in Keys : Waits(r, k)' => k = Chain /\ Waits(r, k)
    BY <1>0, <2>0, <2>1, <2>2, CrowdMoves DEF Waits
  <2>4. /\ r \in Crowd(ip) /\ Crowd(ip)' \subseteq Crowd(ip) \ {r}
        /\ \A k \in Keys : k # ip => Crowd(k)' \subseteq Crowd(k)
    BY <2>2, <2>3 DEF Crowd
  <2> QED
    BY <2>0, <2>2, <2>4, OverCount
<1>6. ASSUME NEW r \in Requests, CountChain(r) PROVE OverInv'
  <2>1. /\ request[r].pc = "counted" /\ UNCHANGED clock /\ Count(Chain) /\ Go(r, "adding")
    BY <1>6 DEF CountChain, At
  <2>2. /\ \A q \in Requests, k \in Keys : q # r => (Waits(q, k)' <=> Waits(q, k))
        /\ Waits(r, Chain) /\ \A k \in Keys : ~Waits(r, k)'
    BY <1>0, <2>1, CrowdMoves DEF Waits
  <2>3. /\ r \in Crowd(Chain) /\ Crowd(Chain)' \subseteq Crowd(Chain) \ {r}
        /\ \A k \in Keys : k # Chain => Crowd(k)' \subseteq Crowd(k)
    BY <1>0, <2>2 DEF Crowd
  <2> QED
    BY <1>0, <2>1, <2>3, OverCount
<1>7. CASE Tick
  <2>1. ASSUME NEW k \in Keys, WithinLimit(k) PROVE WithinLimit(k)'
    <3>1. clock' = clock + 1 /\ UNCHANGED <<hits, request, entries>>
      BY <1>7 DEF Tick, process, history
    <3>2. \A h \in hits[k] : h.at \in Int /\ clock \in Int /\ Window(k) \in Int
      BY Sizes DEF LimitInv, HitTypes, Hit, Time
    <3>3. Recent(hits[k], Window(k))' \subseteq Recent(hits[k], Window(k))
      BY <3>1, <3>2 DEF Recent, Window
    <3> QED
      BY <2>1, <3>3, RoomStays
  <2>2. UNCHANGED entries /\ \A k \in Keys : Crowd(k)' \subseteq Crowd(k)
    BY <1>7 DEF Tick, process, history, Crowd, Waits
  <2> QED
    BY <2>1, <2>2, OverFrame
<1>8. CASE Restart
  <2>1. /\ hits' = [k \in Keys |-> {}] /\ entries' = [k \in Keys |-> <<>>]
    BY <1>8 DEF Restart
  <2>2. ASSUME NEW k \in Keys PROVE (Follows(k) /\ Closed(k) /\ InOrder(k))'
    <3>1. DOMAIN entries'[k] = {}
      BY <2>1
    <3>2. WithinLimit(k)'
      <4>1. Recent(hits[k], Window(k))' = {}
        BY <2>1 DEF Recent
      <4>2. Cardinality({}) = 0 /\ 0 < Limit(k)
        BY FS_EmptySet, Sizes
      <4> QED
        BY <4>1, <4>2 DEF WithinLimit, Limit, Window
    <3> QED
      BY <3>1, <3>2 DEF Follows, Closed, InOrder
  <2> QED
    BY <2>2 DEF OverInv
<1>9. CASE \/ \E s \in Seeds : Issue(s)
           \/ \E act \in Acts : Release(act)
           \/ UNCHANGED vars
  <2>1. UNCHANGED <<hits, clock, request, entries>>
    BY <1>9 DEF Issue, Release, vars, process, history
  <2>2. \A k \in Keys : Crowd(k)' \subseteq Crowd(k)
    BY <2>1 DEF Crowd, Waits
  <2> QED
    BY <1>a, <2>1, <2>2, OverFrame
<1> QED
  BY <1>1, <1>2, <1>3, <1>4, <1>5, <1>6, <1>7, <1>8, <1>9 DEF Next, Handle

LEMMA OverInit == Init => OverInv
<1> SUFFICES ASSUME Init, NEW k \in Keys PROVE Follows(k) /\ Closed(k) /\ InOrder(k)
  BY DEF OverInv
<1>1. hits[k] = {} /\ DOMAIN entries[k] = {}
  BY DEF Init
<1>2. WithinLimit(k)
  <2>1. Recent(hits[k], Window(k)) = {}
    BY <1>1 DEF Recent
  <2>2. Cardinality({}) = 0 /\ 0 < Limit(k)
    BY FS_EmptySet, Sizes
  <2> QED
    BY <2>1, <2>2 DEF WithinLimit
<1> QED
  BY <1>1, <1>2 DEF Follows, Closed, InOrder

(* Every set of numbers that is not empty has a least one. *)
LEMMA Least ==
    ASSUME NEW T \in SUBSET Nat, T # {}
    PROVE  \E x \in T : \A y \in T : x =< y
<1> DEFINE F == {0 .. x : x \in T}
           R == StrictSubsetOrdering(Nat)
<1>1. F \subseteq FiniteSubsetsOf(Nat) /\ F # {}
  <2>1. \A x \in T : IsFiniteSet(0 .. x) /\ 0 .. x \in SUBSET Nat
    BY FS_Interval
  <2> QED
    BY <2>1 DEF FiniteSubsetsOf
<1>2. IsWellFoundedOn(R, FiniteSubsetsOf(Nat))
  BY FS_StrictSubsetOrderingWellFounded
<1>3. \E S \in F : \A U \in F : ~ (<<U, S>> \in R)
  <2> HIDE DEF F, R
  <2> QED
    BY <1>1, <1>2, WFMin
<1>4. PICK x \in T : \A y \in T : ~ (<<0 .. y, 0 .. x>> \in R)
  BY <1>3
<1>5. ASSUME NEW y \in T, y < x PROVE FALSE
  <2>1. 0 .. y \in SUBSET Nat /\ 0 .. x \in SUBSET Nat
    OBVIOUS
  <2>2. 0 .. y \subseteq 0 .. x /\ x \in 0 .. x /\ x \notin 0 .. y
    BY <1>5
  <2>3. <<0 .. y, 0 .. x>> \in R
    BY <2>1, <2>2 DEF StrictSubsetOrdering
  <2> QED
    BY <1>4, <2>3
<1> QED
  BY <1>5

LEMMA TimesMonotone ==
    ASSUME NEW a \in Nat, NEW b \in Nat, NEW n \in Nat, a =< b
    PROVE  a * n \in Nat /\ b * n \in Nat /\ a * n =< b * n
<1>1. PICK d \in Nat : b = a + d
  <2>1. b - a \in Nat /\ b = a + (b - a)
    OBVIOUS
  <2> QED
    BY <2>1
<1>2. (a + d) * n = a * n + d * n /\ d * n \in Nat /\ a * n \in Nat
  BY SMTT(30)
<1> QED
  BY <1>1, <1>2

(* Each action that came to Add is counted with the last one allowed       *)
(* before it.  If that one lies in the window, there are Limit of them at  *)
(* most, and each has room for as many as there are requests; those of an  *)
(* earlier one are at the start of the window, and one less.               *)
LEMMA OvershootCount ==
    ASSUME LimitInv, OverInv, NEW k \in Keys, NEW t \in Time
    PROVE  Cardinality(Reached(k, t)) =< Limit(k) * AtOnce + AtOnce - 1
<1> DEFINE S == Reached(k, t)
           A == AllowedUntil(k, t)
           e == entries[k]
           cause(i) == CHOOSE j \in Allowed(k) : j =< i /\ i - j < AtOnce
           S1 == {i \in S : cause(i) \in A}
           S2 == S \ S1
           f == [i \in S1 |-> <<cause(i), i - cause(i)>>]
<1>1. /\ AtOnce \in Nat \ {0} /\ Limit(k) \in Nat /\ Window(k) \in Nat /\ t \in Nat
      /\ Len(e) \in Nat /\ DOMAIN e = 1 .. Len(e)
      /\ \A i \in DOMAIN e : e[i].at \in Nat
  BY CrowdSize, Sizes, EntryTypes DEF LimitInv, Time
<1>2. S \subseteq DOMAIN e /\ Allowed(k) \subseteq DOMAIN e
  BY DEF Reached, Allowed
<1>3. \A i \in S : cause(i) \in Allowed(k) /\ cause(i) =< i /\ i - cause(i) < AtOnce
  BY <1>2 DEF OverInv, Follows
<1>4. \A i \in S, j \in Allowed(k) : j \notin A /\ j =< i => e[j].at =< t - Window(k)
  <2> SUFFICES ASSUME NEW i \in S, NEW j \in Allowed(k), j =< i, j \notin A
               PROVE  e[j].at =< t - Window(k)
    OBVIOUS
  <2>1. e[j].at =< e[i].at /\ e[i].at =< t
    BY <1>2 DEF OverInv, InOrder, Reached
  <2>2. ~(t - Window(k) < e[j].at)
    BY <1>1, <1>2, <2>1 DEF AllowedUntil
  <2> QED
    BY <1>1, <1>2, <2>2
<1>5. \A i, j \in S : cause(j) \notin A => cause(j) < i
  <2> SUFFICES ASSUME NEW i \in S, NEW j \in S, cause(j) \notin A, ~(cause(j) < i)
               PROVE  FALSE
    OBVIOUS
  <2>1. cause(j) \in DOMAIN e /\ i \in DOMAIN e /\ e[cause(j)].at =< t - Window(k)
    BY <1>2, <1>3, <1>4
  <2>2. t - Window(k) < e[i].at
    BY DEF Reached
  <2>3. e[i].at =< e[cause(j)].at
    BY <1>1, <2>1 DEF OverInv, InOrder
  <2> QED
    BY <1>1, <2>1, <2>2, <2>3
<1> HIDE DEF S, A, e, cause
<1>6. IsFiniteSet(A) /\ Cardinality(A) \in Nat /\ Cardinality(A) =< Limit(k)
  BY FS_CardinalityType DEF A, LimitInv, WithinWindows
<1>7. IsFiniteSet(S1) /\ Cardinality(S1) \in Nat /\ Cardinality(S1) =< Limit(k) * AtOnce
  <2> DEFINE B == A \X (0 .. (AtOnce - 1))
  <2>1. IsFiniteSet(B) /\ Cardinality(B) = Cardinality(A) * AtOnce
    <3>1. IsFiniteSet(0 .. (AtOnce - 1)) /\ Cardinality(0 .. (AtOnce - 1)) = AtOnce
      <4>1. AtOnce - 1 \in Int /\ ~(0 > AtOnce - 1) /\ (AtOnce - 1) - 0 + 1 = AtOnce
        BY <1>1
      <4> QED
        BY <4>1, FS_Interval
    <3> QED
      BY <1>6, <3>1, FS_Product
  <2>2. f \in Injection(S1, B)
    <3>1. \A i \in S1 : i \in Int /\ cause(i) \in Int /\ i - cause(i) \in 0 .. (AtOnce - 1)
      BY <1>1, <1>2, <1>3
    <3>2. f \in [S1 -> B]
      BY <3>1
    <3>3. \A i, j \in S1 : f[i] = f[j] => i = j
      BY <3>1
    <3> QED
      BY <3>2, <3>3 DEF Injection, IsInjective
  <2> HIDE DEF B, f, S1
  <2>3. IsFiniteSet(S1) /\ Cardinality(S1) =< Cardinality(B)
    BY <2>1, <2>2, FS_Injection
  <2>4. /\ Cardinality(A) * AtOnce =< Limit(k) * AtOnce
        /\ Cardinality(A) * AtOnce \in Nat /\ Limit(k) * AtOnce \in Nat
    BY <1>1, <1>6, TimesMonotone
  <2>5. Cardinality(S1) \in Nat
    BY <2>3, FS_CardinalityType
  <2> QED
    BY <2>1, <2>3, <2>4, <2>5
<1>8. IsFiniteSet(S2) /\ Cardinality(S2) \in Nat /\ Cardinality(S2) =< AtOnce - 1
  <2>1. CASE S2 = {}
    <3>1. IsFiniteSet({}) /\ Cardinality({}) = 0 /\ 0 =< AtOnce - 1 /\ 0 \in Nat
      BY <1>1, FS_EmptySet
    <3> HIDE DEF S2
    <3> QED
      BY <2>1, <3>1
  <2>2. CASE S2 # {}
    <3>1. S2 \subseteq Nat /\ S2 \subseteq S
      BY <1>1, <1>2
    <3>2. PICK first \in S2 : \A i \in S2 : first =< i
      BY <2>2, <3>1, Least
    <3>3. S2 \in SUBSET (first .. (first + AtOnce - 2))
      <4> SUFFICES ASSUME NEW i \in S2 PROVE i \in first .. (first + AtOnce - 2)
        OBVIOUS
      <4>1. i \in S /\ cause(i) \notin A /\ first \in S
        BY <3>1
      <4>2. cause(i) < first /\ i - cause(i) < AtOnce /\ cause(i) \in Int
        BY <1>1, <1>2, <1>3, <1>5, <4>1
      <4> QED
        BY <1>1, <3>1, <3>2, <4>2
    <3>4. /\ IsFiniteSet(first .. (first + AtOnce - 2))
          /\ Cardinality(first .. (first + AtOnce - 2)) = AtOnce - 1
      <4> DEFINE end == first + AtOnce - 2
      <4>1. first \in Int /\ end \in Int
        BY <1>1, <3>1
      <4>2. IF first > end THEN AtOnce - 1 = 0 ELSE end - first + 1 = AtOnce - 1
        BY <1>1, <3>1
      <4> HIDE DEF end
      <4>3. /\ IsFiniteSet(first .. end)
            /\ Cardinality(first .. end) = IF first > end THEN 0 ELSE end - first + 1
        BY <4>1, FS_Interval
      <4> QED
        BY <4>2, <4>3 DEF end
    <3> HIDE DEF S2
    <3> QED
      BY <3>3, <3>4, FS_Subset, FS_CardinalityType
  <2> QED
    BY <2>1, <2>2
<1>9. /\ S = S1 \cup S2 /\ S1 \cap S2 = {}
  OBVIOUS
<1> HIDE DEF S1, S2
<1>10. Cardinality(S) = Cardinality(S1) + Cardinality(S2)
  <2>1. Cardinality(S1 \cup S2) =
          Cardinality(S1) + Cardinality(S2) - Cardinality(S1 \cap S2)
    BY <1>7, <1>8, FS_Union
  <2>2. Cardinality(S1 \cap S2) = 0
    BY <1>9, FS_EmptySet
  <2> QED
    BY <1>7, <1>8, <1>9, <2>1, <2>2
<1>11. Limit(k) * AtOnce \in Nat
  BY <1>1, TimesMonotone
<1>12. Cardinality(S) =< Limit(k) * AtOnce + AtOnce - 1
  BY <1>1, <1>7, <1>8, <1>10, <1>11
<1> QED
  BY <1>12 DEF S

(* What comes to Add for an address or for the chain goes past the limit   *)
(* by no more than the requests that overlap, in every window: a limit is  *)
(* missed once for each action it lets through and once at the start, not  *)
(* again and again while it is reached.                                    *)
THEOREM OvershootHasABound == Spec => []OvershootIsBounded
<1>1. LimitInv /\ OverInv => OvershootIsBounded
  BY OvershootCount DEF OvershootIsBounded, AtOnce
<1> QED
  BY <1>1, OverInit, OverNext, AlwaysWithinLimits, PTL DEF Spec
=============================================================================
