------------------------------- MODULE Intake -------------------------------
(***************************************************************************)
(* POST /api/links up to the call of chain.Add: the gates of handleAdd     *)
(* (internal/httpapi/links.go), the proof-of-work seeds it spends (pow.go) *)
(* and the two sliding-window limiters it asks (ratelimit.go).             *)
(*                                                                         *)
(* Handlers run at the same time and interleave at every lock.  A body     *)
(* that does not parse, a filled honeypot and a sentence Validate refuses  *)
(* end the request before anything changes: they are left out, and so is a *)
(* server started with proof of work switched off.  Add itself, whose      *)
(* steps ChainService has, is one step here.                               *)
(*                                                                         *)
(* The clock ticks in units that divide both windows and the life of a     *)
(* seed.  A lock and the reading of the clock next to it are one step.     *)
(***************************************************************************)
EXTENDS Integers, Sequences, FiniteSets

CONSTANTS
    Requests,     \* the handlers that may run at the same time
    Addresses,    \* client addresses
    Acts,         \* sentences, up to their fingerprint
    Seeds,        \* bound: the seeds there are to hand out
    PerHour,      \* links an address may add in an hour; 3 in the code
    PerMinute,    \* links the chain takes in a minute; 10 in the code
    Hour, Minute, \* the two windows, in ticks
    TTL,          \* ticks a seed is good for
    MaxTime,      \* bound on the clock
    MaxRestarts   \* bound: how often the server may restart

ASSUME IntakeAssumption ==
    /\ {PerHour, PerMinute, Hour, Minute} \subseteq Nat \ {0}
    /\ {TTL, MaxTime, MaxRestarts} \subseteq Nat
    /\ IsFiniteSet(Requests) /\ Requests # {}
    /\ "chain" \notin Addresses

VARIABLES
    clock,
    issued,    \* challenges.issued: when each seed was issued, or Never
    hits,      \* the actions recorded by the two limiters, for each key
    taken,     \* the sentences the duplicate check finds in the store
    request,   \* where each handler is
    restarts,  \* how often the server has restarted
    promised,  \* when each seed was handed to a browser that may count on it
    uses,      \* how many requests each seed got past the gate
    entries    \* what allow was called for with each key: when, and its answer

process == <<issued, hits, request>>
history == <<promised, uses, entries>>
vars == <<clock, taken, restarts, process, history>>

Never == -1
Gone == -2    \* the seed was presented, or the server it came from restarted
Time == 0 .. MaxTime

\* The global limiter has the one key "chain", perIP one for each address.
Chain == "chain"
Keys == Addresses \cup {Chain}
Window(key) == IF key = Chain THEN Minute ELSE Hour
Limit(key) == IF key = Chain THEN PerMinute ELSE PerHour
SameLimiter(k, l) == (k = Chain) <=> (l = Chain)

Pc == {"valid", "sealed", "new", "looked", "cleared", "counted", "adding"}

Idle == [pc |-> "idle"]

Request == {Idle} \cup [pc : Pc, ip : Addresses, act : Acts, seed : Seeds]

Entry == [at : Time, allowed : BOOLEAN]

\* A recorded action; nr tells those of one time apart.
Hit == [at : Time, nr : Nat]

TypeOK ==
    /\ clock \in Time
    /\ issued \in [Seeds -> Time \cup {Never}]
    /\ hits \in [Keys -> SUBSET Hit]
    /\ \A k \in Keys : IsFiniteSet(hits[k]) /\ Cardinality(hits[k]) =< Limit(k)
    /\ taken \subseteq Acts
    /\ request \in [Requests -> Request]
    /\ restarts \in 0 .. MaxRestarts
    /\ promised \in [Seeds -> Time \cup {Never, Gone}]
    /\ uses \in [Seeds -> Nat]
    /\ entries \in [Keys -> Seq(Entry)]

Init ==
    /\ clock = 0
    /\ issued = [s \in Seeds |-> Never]
    /\ hits = [k \in Keys |-> {}]
    /\ taken = {}
    /\ request = [r \in Requests |-> Idle]
    /\ restarts = 0
    /\ promised = [s \in Seeds |-> Never]
    /\ uses = [s \in Seeds |-> 0]
    /\ entries = [k \in Keys |-> <<>>]
-----------------------------------------------------------------------------
(* Seeds *)

ExpiredTooSoon(at) == at # Never /\ clock - at >= TTL    \* mutant: off by one
Expired(at) == at # Never /\ clock - at > TTL

\* sweep
Swept == [s \in Seeds |-> IF Expired(issued[s]) THEN Never ELSE issued[s]]

\* A seed is random, so new.  Every so many calls the expired ones are swept.
Issue(s) ==
    /\ promised[s] = Never
    /\ \E kept \in {issued, Swept} : issued' = [kept EXCEPT ![s] = clock]
    /\ promised' = [promised EXCEPT ![s] = clock]
    /\ UNCHANGED <<clock, taken, restarts, hits, request, uses, entries>>
-----------------------------------------------------------------------------
(* Limiters *)

Recent(times, window) == {h \in times : clock - h.at < window}

WithinLimitPlusOne(key) ==    \* mutant: off by one
    Cardinality(Recent(hits[key], Window(key))) =< Limit(key)

\* What check answers.
WithinLimit(key) == Cardinality(Recent(hits[key], Window(key))) < Limit(key)

\* sweep forgets a key whose last time is out of the window.
Stale(key) == \A h \in hits[key] : clock - h.at >= Window(key)

\* check, on the times of key: what is out of the window goes, the time of
\* the action comes in when it is recorded and allowed.
Check(key, record) ==
    \E sweeps \in BOOLEAN :
        hits' = [k \in Keys |->
            IF k = key
            THEN Recent(hits[k], Window(k))
                    \cup {h \in {[at |-> clock, nr |-> Len(entries[k]) + 1]} :
                             record /\ WithinLimit(k)}
            ELSE IF sweeps /\ SameLimiter(k, key) /\ Stale(k) THEN {}
            ELSE hits[k]]
-----------------------------------------------------------------------------
(* The handler of one request *)

At(r, pc) == request[r].pc = pc

Go(r, pc) == request' = [request EXCEPT ![r].pc = pc]

\* The answer is sent and the handler done.
Answer(r) == request' = [request EXCEPT ![r] = Idle]

\* A well-formed request with a valid sentence, sealed with some seed that was
\* handed out: its own, one that was used, or one from before a restart.
Submit(r) ==
    /\ At(r, "idle")
    /\ \E ip \in Addresses, act \in Acts, s \in Seeds :
          /\ promised[s] # Never
          /\ request' = [request EXCEPT ![r] =
                [pc |-> "valid", ip |-> ip, act |-> act, seed |-> s]]
    /\ UNCHANGED <<clock, taken, restarts, issued, hits, history>>

RedeemWithoutSpending(r) ==    \* mutant: a good answer leaves the seed
    /\ At(r, "valid")
    /\ LET s == request[r].seed
           good == issued[s] # Never /\ ~Expired(issued[s]) IN
          \/ good /\ Go(r, "sealed") /\ uses' = [uses EXCEPT ![s] = @ + 1]
          \/ Answer(r) /\ UNCHANGED uses
    /\ promised' = [promised EXCEPT ![request[r].seed] = Gone]
    /\ UNCHANGED <<clock, taken, restarts, issued, hits, entries>>

\* redeem: the seed is spent, whether the nonce solves it or not.
Redeem(r) ==
    /\ At(r, "valid")
    /\ LET s == request[r].seed
           good == issued[s] # Never /\ ~Expired(issued[s]) IN
          /\ issued' = [issued EXCEPT ![s] = Never]
          /\ promised' = [promised EXCEPT ![s] = Gone]
          /\ \/ good /\ Go(r, "sealed") /\ uses' = [uses EXCEPT ![s] = @ + 1]
             \/ Answer(r) /\ UNCHANGED uses
    /\ UNCHANGED <<clock, taken, restarts, hits, entries>>

\* The first duplicate check.
CheckDuplicate(r) ==
    /\ At(r, "sealed")
    /\ IF request[r].act \in taken THEN Answer(r) ELSE Go(r, "new")
    /\ UNCHANGED <<clock, taken, restarts, issued, hits, history>>

PeekAddressRecords(r) ==    \* mutant: allow in the place of peek
    /\ At(r, "new")
    /\ IF WithinLimit(request[r].ip) THEN Go(r, "looked") ELSE Answer(r)
    /\ Check(request[r].ip, TRUE)
    /\ UNCHANGED <<clock, taken, restarts, issued, history>>

PeekAddressUnasked(r) ==    \* mutant: what peek answers is not looked at either
    /\ At(r, "new")
    /\ Go(r, "looked")
    /\ Check(request[r].ip, FALSE)
    /\ UNCHANGED <<clock, taken, restarts, issued, history>>

\* perIP.peek, answered with 429 when the address is over its limit.
PeekAddress(r) ==
    /\ At(r, "new")
    /\ IF WithinLimit(request[r].ip) THEN Go(r, "looked") ELSE Answer(r)
    /\ Check(request[r].ip, FALSE)
    /\ UNCHANGED <<clock, taken, restarts, issued, history>>

\* global.peek
PeekChain(r) ==
    /\ At(r, "looked")
    /\ IF WithinLimit(Chain) THEN Go(r, "cleared") ELSE Answer(r)
    /\ Check(Chain, FALSE)
    /\ UNCHANGED <<clock, taken, restarts, issued, history>>

\* allow is called; what it answers is not looked at.
Count(key) ==
    /\ Check(key, TRUE)
    /\ entries' = [entries EXCEPT ![key] =
                     Append(@, [at |-> clock, allowed |-> WithinLimit(key)])]

\* perIP.allow
CountAddress(r) ==
    /\ At(r, "cleared")
    /\ Go(r, "counted")
    /\ Count(request[r].ip)
    /\ UNCHANGED <<clock, taken, restarts, issued, promised, uses>>

\* global.allow
CountChain(r) ==
    /\ At(r, "counted")
    /\ Go(r, "adding")
    /\ Count(Chain)
    /\ UNCHANGED <<clock, taken, restarts, issued, promised, uses>>

\* chain.Add takes the sentence, unless another request was faster.
Add(r) ==
    /\ At(r, "adding")
    /\ Answer(r)
    /\ taken' = taken \cup {request[r].act}
    /\ UNCHANGED <<clock, restarts, issued, hits, history>>

\* The store fails, or Add refuses: the memo is too big, the queue is full.
AddFails(r) ==
    /\ At(r, "sealed") \/ At(r, "adding")
    /\ Answer(r)
    /\ UNCHANGED <<clock, taken, restarts, issued, hits, history>>
-----------------------------------------------------------------------------
Tick ==
    /\ clock < MaxTime
    /\ clock' = clock + 1
    /\ UNCHANGED <<taken, restarts, process, history>>

\* A link fails or is a day old: its sentence may be added again.
Release(act) ==
    /\ act \in taken
    /\ taken' = taken \ {act}
    /\ UNCHANGED <<clock, restarts, process, history>>

\* Seeds, limits and handlers are gone; the limits start from nothing.
Restart ==
    /\ restarts < MaxRestarts
    /\ restarts' = restarts + 1
    /\ issued' = [s \in Seeds |-> Never]
    /\ hits' = [k \in Keys |-> {}]
    /\ request' = [r \in Requests |-> Idle]
    /\ promised' = [s \in Seeds |-> IF promised[s] = Never THEN Never ELSE Gone]
    /\ entries' = [k \in Keys |-> <<>>]
    /\ UNCHANGED <<clock, taken, uses>>

Handle(r) ==
    \/ Redeem(r) \/ CheckDuplicate(r) \/ PeekAddress(r) \/ PeekChain(r)
    \/ CountAddress(r) \/ CountChain(r) \/ Add(r) \/ AddFails(r)

Next ==
    \/ \E s \in Seeds : Issue(s)
    \/ \E r \in Requests : Submit(r) \/ Handle(r)
    \/ \E act \in Acts : Release(act)
    \/ Tick \/ Restart

Spec == Init /\ [][Next]_vars
-----------------------------------------------------------------------------
(* One link for one seal: however many requests come with the same seed,  *)
(* and however they interleave with each other and with a restart, at most *)
(* one of them gets past redeem (README.md, Anti-abuse 3).                 *)
OneLinkPerSeal == \A s \in Seeds : uses[s] =< 1

(* A browser that was told its seed is good until now + ttl finds it good  *)
(* until then: neither the sweep nor another browser's request takes it    *)
(* away.                                                                   *)
SealsLast ==
    \A s \in Seeds :
        promised[s] \in Time /\ clock - promised[s] =< TTL => issued[s] # Never

(* Inside its window a limiter holds exactly the requests it let through:  *)
(* an answer of 429, from either limiter, costs nothing, and no recording, *)
(* trimming or sweep on the way of another request forgets one.            *)
ChargedExactly ==
    \A k \in Keys :
        Recent(hits[k], Window(k)) =
            {[at |-> entries[k][i].at, nr |-> i] :
                i \in {j \in DOMAIN entries[k] : /\ entries[k][j].allowed
                                               /\ clock - entries[k][j].at < Window(k)}}

(* What reaches Add for a key in the window that ends at t. *)
Reached(key, t) ==
    {i \in DOMAIN entries[key] : /\ t - Window(key) < entries[key][i].at
                                /\ entries[key][i].at =< t}

(* README.md (Anti-abuse 5 and 6) promises that an address adds PerHour    *)
(* links in an hour and the chain takes PerMinute in a minute.  Of         *)
(* requests that overlap that is not so: all of them peek before one is    *)
(* counted, and what allow then answers is not looked at.  What holds is   *)
(* how far the limit can be missed, in any window wherever it lies: each   *)
(* action the limiter lets through comes with no more than the other       *)
(* requests that run at that moment, and so does the one before the        *)
(* window.  The overshoot does not add up while the limit is reached.  All *)
(* this is said of one process: a restart forgets what was recorded.       *)
OvershootIsBounded ==
    LET atOnce == Cardinality(Requests) IN
    \A k \in Keys, t \in Time :
        Cardinality(Reached(k, t)) =< Limit(k) * atOnce + atOnce - 1
=============================================================================
